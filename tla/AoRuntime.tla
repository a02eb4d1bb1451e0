----------------------------- MODULE AoRuntime -----------------------------
(***************************************************************************)
(* The start-up (main.c, bsp.c, aos.c) and the run-time of the active      *)
(* objects: the event pools (ports/sst/sst_evt_pool.c), the queues and     *)
(* threads of Blinky and SpMngr (ports/sst/sst_port.c), and the two threads*)
(* that post to SpMngr.  sm_sst is not in the repository: SST_Task_start,  *)
(* SST_Task_post (which counts the references of a pool's event),          *)
(* SST_Task_run and the static pool are modelled from their use (external).*)
(* One step is one critical section (sst_port.c, l_portLock).              *)
(***************************************************************************)
EXTENDS Naturals, Sequences, FiniteSets

CONSTANTS
  MidBlocks, (* midPoolSto: received packets and lists of ports             *)
  BigBlocks, (* bigPoolSto: commands that carry a configuration or a path   *)
  NoBlock,   (* of a static event                                           *)
  BlinkyLen, (* Blinky_qSto                                                 *)
  SpLen,     (* SP_THREAD_EVT_QLEN_                                         *)
  Commands,  (* what the user submits, of UiCommands                        *)
  Ticking    (* whether seconds pass for Blinky                             *)

Blocks == MidBlocks \cup BigBlocks
AOs    == {"blinky", "spmngr"}
Posters == {"ui", "sp"}

UiCommands == {"load", "config", "connect", "disconnect", "refresh", "refreshProtocols"}
MidSigs == {"packet", "ports"}
BigSigs == {"load", "config", "connect"}

ASSUME RuntimeAssumption ==
  /\ IsFiniteSet(MidBlocks) /\ IsFiniteSet(BigBlocks) /\ MidBlocks \cap BigBlocks = {}
  /\ NoBlock \notin Blocks
  /\ Cardinality(MidBlocks) >= 3
  /\ BlinkyLen \in Nat \ {0} /\ SpLen \in Nat \ {0}
  /\ Commands \subseteq UiCommands /\ Ticking \in BOOLEAN

(* Slip: as many slots as there are blocks.                                *)
QueueAsPool(a) == IF a = "blinky" THEN BlinkyLen ELSE Cardinality(MidBlocks)

(* The slots of an AO's queue: SpMngr_qSto has one less (128) than the pool*)
(* of packets has blocks (129).                                            *)
QLen(a) == IF a = "blinky" THEN BlinkyLen ELSE Cardinality(MidBlocks) - 1

VARIABLES
  main,    (* where main is                                                 *)
  sst,     (* where SST_thread_ is                                          *)
  ready,   (* what has been initialised                                     *)
  barrier, (* l_sstStart is signalled                                       *)
  free,    (* the pools' free blocks                                        *)
  ref,     (* refCtr of the blocks                                          *)
  queue,   (* qBuf of each AO, oldest first                                 *)
  sem,     (* its semaphore                                                 *)
  at,      (* where its thread is                                           *)
  current, (* the event it dispatches                                       *)
  held,    (* the event a poster has allocated and not yet posted           *)
  asked,   (* SpThread's inbox                                              *)
  link,    (* SpThread has a port open                                      *)
  lit,     (* Blinky's state                                                *)
  toUi,    (* history: the UI's inbox has been posted to                    *)
  listed,  (* history: SpMngr has had a list of ports                       *)
  aborted  (* a DBC assertion has failed                                    *)

boot == <<main, sst, ready, barrier>>
pool == <<free, ref>>
task == <<queue, sem, at, current>>
rest == <<asked, link, lit, toUi, listed>>
vars == <<boot, pool, task, held, rest, aborted>>

None == [sig |-> "none", block |-> NoBlock]
Static(sig) == [sig |-> sig, block |-> NoBlock]

Events == [sig : MidSigs, block : MidBlocks] \cup [sig : BigSigs, block : BigBlocks]
            \cup {Static(s) : s \in {"timeout", "refreshProtocols", "refresh", "disconnect",
                                     "opened", "applied", "closed", "lost"}}

TypeOK ==
  /\ main \in {"ui", "spthread", "sstInit", "launch", "await", "run"}
  /\ sst \in {"none", "blinky", "spmngr", "hsm", "post1", "post2", "onStart", "idle"}
  /\ ready \subseteq {"uiInbox", "spInbox", "pools", "blinky", "spmngr", "hsm"}
  /\ barrier \in BOOLEAN
  /\ free \subseteq Blocks /\ ref \in [Blocks -> 0..1]
  /\ \A a \in AOs : Len(queue[a]) <= QLen(a)
  /\ queue \in [AOs -> Seq(Events)] /\ sem \in [AOs -> Nat]
  /\ at \in [AOs -> {"wait", "take", "dispatch", "gc"}]
  /\ current \in [AOs -> Events \cup {None}] /\ held \in [Posters -> Events \cup {None}]
  /\ asked \in Seq({"open", "apply", "close", "list"}) /\ Len(asked) <= SpLen
  /\ link \in BOOLEAN /\ lit \in BOOLEAN /\ toUi \in BOOLEAN /\ listed \in BOOLEAN
  /\ aborted \in BOOLEAN

Init ==
  /\ main = "ui" /\ sst = "none" /\ ready = {} /\ barrier = FALSE
  /\ free = {} /\ ref = [b \in Blocks |-> 0]
  /\ queue = [a \in AOs |-> <<>>] /\ sem = [a \in AOs |-> 0]
  /\ at = [a \in AOs |-> "wait"] /\ current = [a \in AOs |-> None]
  /\ held = [p \in Posters |-> None]
  /\ asked = <<>> /\ link = FALSE /\ lit = FALSE /\ toUi = FALSE /\ listed = FALSE
  /\ aborted = FALSE

Abort == aborted' = TRUE /\ UNCHANGED <<boot, pool, task, held, rest>>

-----------------------------------------------------------------------------
(* The pools and the queues                                                *)

PoolOf(sig) == IF sig \in MidSigs THEN MidBlocks ELSE BigBlocks

(* SST_Evt_new: a block of the smallest pool that fits, or DBC_ENSURE(400).*)
New(p, sig) ==
  IF free \cap PoolOf(sig) = {} THEN Abort
  ELSE /\ \E b \in free \cap PoolOf(sig) :
            /\ free' = free \ {b}
            /\ ref' = [ref EXCEPT ![b] = 0]
            /\ held' = [held EXCEPT ![p] = [sig |-> sig, block |-> b]]
       /\ UNCHANGED <<boot, task, rest, aborted>>

(* SST_Task_post (external).                                               *)
Put(a, e) ==
  /\ queue' = [queue EXCEPT ![a] = Append(@, e)]
  /\ sem' = [sem EXCEPT ![a] = @ + 1]
  /\ ref' = IF e.block = NoBlock THEN ref ELSE [ref EXCEPT ![e.block] = @ + 1]
  /\ UNCHANGED <<at, current, free>>

Full(a) == Len(queue[a]) = QLen(a)

PostHeld(p) ==
  /\ held[p] # None
  /\ IF Full("spmngr") THEN Abort
     ELSE /\ Put("spmngr", held[p])
          /\ held' = [held EXCEPT ![p] = None]
          /\ UNCHANGED <<boot, rest, aborted>>

(* Slip: a semaphore that only knows whether it was signalled.             *)
PendAll(a) ==
  /\ a \in ready /\ at[a] = "wait" /\ sem[a] > 0
  /\ sem' = [sem EXCEPT ![a] = 0]
  /\ at' = [at EXCEPT ![a] = "take"]
  /\ UNCHANGED <<boot, pool, queue, current, held, rest, aborted>>

(* ao_thread: wait, ...                                                    *)
Pend(a) ==
  /\ a \in ready /\ at[a] = "wait" /\ sem[a] > 0
  /\ sem' = [sem EXCEPT ![a] = @ - 1]
  /\ at' = [at EXCEPT ![a] = "take"]
  /\ UNCHANGED <<boot, pool, queue, current, held, rest, aborted>>

(* Slip: the event is returned as soon as it is taken.                     *)
TakeCollecting(a) ==
  /\ at[a] = "take"
  /\ current' = [current EXCEPT ![a] = Head(queue[a])]
  /\ queue' = [queue EXCEPT ![a] = Tail(@)]
  /\ at' = [at EXCEPT ![a] = "dispatch"]
  /\ free' = free \cup ({Head(queue[a]).block} \ {NoBlock})
  /\ UNCHANGED <<boot, ref, sem, held, rest, aborted>>

(* ... take the oldest event, ...                                          *)
Take(a) ==
  /\ at[a] = "take"
  /\ current' = [current EXCEPT ![a] = Head(queue[a])]
  /\ queue' = [queue EXCEPT ![a] = Tail(@)]
  /\ at' = [at EXCEPT ![a] = "dispatch"]
  /\ UNCHANGED <<boot, pool, sem, held, rest, aborted>>

(* SST_Evt_gc: one reader less, or the block goes back to its pool.        *)
Collect(a) ==
  /\ at[a] = "gc"
  /\ LET b == current[a].block
     IN  IF b = NoBlock THEN UNCHANGED pool
         ELSE IF ref[b] > 1
              THEN ref' = [ref EXCEPT ![b] = @ - 1] /\ UNCHANGED free
              ELSE free' = free \cup {b} /\ UNCHANGED ref
  /\ current' = [current EXCEPT ![a] = None]
  /\ at' = [at EXCEPT ![a] = "wait"]
  /\ UNCHANGED <<boot, queue, sem, held, rest, aborted>>

-----------------------------------------------------------------------------
(* What the AOs do with an event: Blinky turns on and off; SpMngr asks     *)
(* SpThread, or tells the UI.                                              *)

DispatchBlinky ==
  /\ at["blinky"] = "dispatch"
  /\ lit' = ~lit
  /\ at' = [at EXCEPT !["blinky"] = "gc"]
  /\ UNCHANGED <<boot, pool, queue, sem, current, held, asked, link, toUi, listed, aborted>>

Request(sig) ==
  CASE sig = "connect" -> "open"
    [] sig = "config" -> "apply"
    [] sig = "disconnect" -> "close"
    [] sig \in {"refresh", "lost"} -> "list"
    [] OTHER -> "none"

DispatchSpMngr ==
  /\ at["spmngr"] = "dispatch"
  /\ LET sig == current["spmngr"].sig
     IN  \/ /\ Request(sig) # "none" /\ Len(asked) = SpLen
            /\ Abort
         \/ /\ \/ Request(sig) # "none" /\ Len(asked) < SpLen /\ asked' = Append(asked, Request(sig))
               \/ Request(sig) \in {"none", "open", "apply"} /\ asked' = asked
            /\ toUi' = TRUE /\ listed' = (listed \/ sig = "ports")
            /\ at' = [at EXCEPT !["spmngr"] = "gc"]
            /\ UNCHANGED <<boot, pool, queue, sem, current, held, link, lit, aborted>>

-----------------------------------------------------------------------------
(* Start-up                                                                *)

Advance(from, to) == main = from /\ main' = to

(* UI_init, SpThread_start, SST_init.                                      *)
UiInit ==
  /\ Advance("ui", "spthread")
  /\ ready' = ready \cup {"uiInbox"}
  /\ UNCHANGED <<sst, barrier, pool, task, held, rest, aborted>>

SpThreadStart ==
  /\ Advance("spthread", "sstInit")
  /\ ready' = ready \cup {"spInbox"}
  /\ UNCHANGED <<sst, barrier, pool, task, held, rest, aborted>>

SstInit ==
  /\ Advance("sstInit", "launch")
  /\ ready' = ready \cup {"pools"} /\ free' = Blocks
  /\ UNCHANGED <<sst, barrier, ref, task, held, rest, aborted>>

SstThreadStart ==
  /\ Advance("launch", "await")
  /\ sst' = "blinky"
  /\ UNCHANGED <<ready, barrier, pool, task, held, rest, aborted>>

(* Slip: the UI does not wait.                                             *)
AwaitNothing ==
  /\ Advance("await", "run")
  /\ UNCHANGED <<sst, ready, barrier, pool, task, held, rest, aborted>>

(* BSP_waitForSSTStart.                                                    *)
Await ==
  /\ Advance("await", "run") /\ barrier
  /\ UNCHANGED <<sst, ready, barrier, pool, task, held, rest, aborted>>

(* SST_start: an AO has its queue and its thread before it initialises.    *)
StartBlinky ==
  /\ sst = "blinky" /\ sst' = "spmngr"
  /\ ready' = ready \cup {"blinky"}
  /\ UNCHANGED <<main, barrier, pool, task, held, rest, aborted>>

StartSpMngr ==
  /\ sst = "spmngr" /\ sst' = "hsm"
  /\ ready' = ready \cup {"spmngr"}
  /\ UNCHANGED <<main, barrier, pool, task, held, rest, aborted>>

(* SpMngr_init_.                                                           *)
InitHsm ==
  /\ sst = "hsm" /\ sst' = "post1"
  /\ ready' = ready \cup {"hsm"}
  /\ UNCHANGED <<main, barrier, pool, task, held, rest, aborted>>

PostInitial(from, to, sig) ==
  /\ sst = from
  /\ IF Full("spmngr") THEN Abort
     ELSE /\ sst' = to /\ toUi' = TRUE
          /\ Put("spmngr", Static(sig))
          /\ UNCHANGED <<main, ready, barrier, held, asked, link, lit, listed, aborted>>

InitialIntents ==
  \/ PostInitial("post1", "post2", "refreshProtocols")
  \/ PostInitial("post2", "onStart", "refresh")

(* SST_onStart.                                                            *)
OnStart ==
  /\ sst = "onStart" /\ sst' = "idle"
  /\ barrier' = TRUE
  /\ UNCHANGED <<main, ready, pool, task, held, rest, aborted>>

(* SST_onIdle: the AOs' time events (every BSP_TICKS_PER_SEC-th tick is a  *)
(* second, here any) and the UI's timer.                                   *)
Tick ==
  /\ Ticking /\ sst = "idle"
  /\ IF Full("blinky") THEN Abort
     ELSE /\ Put("blinky", Static("timeout"))
          /\ toUi' = TRUE
          /\ UNCHANGED <<boot, held, asked, link, lit, listed, aborted>>

Booting ==
  \/ UiInit \/ SpThreadStart \/ SstInit \/ SstThreadStart \/ Await
  \/ StartBlinky \/ StartSpMngr \/ InitHsm \/ InitialIntents \/ OnStart

-----------------------------------------------------------------------------
(* The posters                                                             *)

PostStatic(sig) ==
  IF Full("spmngr") THEN Abort
  ELSE Put("spmngr", Static(sig)) /\ UNCHANGED <<boot, held, rest, aborted>>

(* SM_UI_submitCommand_ in UI_run.                                         *)
Submit(sig) ==
  /\ main = "run" /\ held["ui"] = None
  /\ IF sig \in BigSigs THEN New("ui", sig) ELSE PostStatic(sig)

(* SpThread: a request, ...                                                *)
Answer(sig, up) ==
  /\ asked' = Tail(asked) /\ link' = up
  /\ Put("spmngr", Static(sig))
  /\ UNCHANGED <<boot, held, lit, toUi, listed, aborted>>

Open ==
  /\ asked # <<>> /\ Head(asked) = "open" /\ held["sp"] = None
  /\ IF Full("spmngr") THEN Abort
     ELSE Answer("opened", TRUE) \/ Answer("closed", FALSE)

(* (without a port there is nothing to apply)                              *)
Apply ==
  /\ asked # <<>> /\ Head(asked) = "apply" /\ held["sp"] = None
  /\ IF ~link THEN asked' = Tail(asked) /\ UNCHANGED <<boot, pool, task, held, link, lit, toUi, listed, aborted>>
     ELSE IF Full("spmngr") THEN Abort
     ELSE Answer("applied", TRUE) \/ Answer("closed", FALSE)

Close ==
  /\ asked # <<>> /\ Head(asked) = "close" /\ held["sp"] = None
  /\ IF Full("spmngr") THEN Abort ELSE Answer("closed", FALSE)

List ==
  /\ asked # <<>> /\ Head(asked) = "list" /\ held["sp"] = None
  /\ IF free \cap MidBlocks = {} THEN Abort
     ELSE /\ asked' = Tail(asked)
          /\ \E b \in free \cap MidBlocks :
               /\ free' = free \ {b}
               /\ ref' = [ref EXCEPT ![b] = 0]
               /\ held' = [held EXCEPT !["sp"] = [sig |-> "ports", block |-> b]]
          /\ UNCHANGED <<boot, task, link, lit, toUi, listed, aborted>>

(* ... a packet, or the end of the line.                                   *)
Packet == link /\ held["sp"] = None /\ New("sp", "packet")

Lose ==
  /\ link /\ held["sp"] = None
  /\ IF Full("spmngr") THEN Abort
     ELSE /\ link' = FALSE
          /\ Put("spmngr", Static("lost"))
          /\ UNCHANGED <<boot, held, asked, lit, toUi, listed, aborted>>

-----------------------------------------------------------------------------

Ao(a) == Pend(a) \/ Take(a) \/ Collect(a)
AoStep == (\E a \in AOs : Ao(a)) \/ DispatchBlinky \/ DispatchSpMngr
SpStep == PostHeld("sp") \/ Open \/ Apply \/ Close \/ List

Next ==
  \/ /\ ~aborted
     /\ \/ Booting \/ AoStep \/ SpStep \/ PostHeld("ui")
        \/ Tick \/ Packet \/ Lose \/ \E c \in Commands : Submit(c)
  \/ aborted /\ UNCHANGED vars

Spec == Init /\ [][Next]_vars

(* Every thread runs; nobody has to submit, receive or tick.               *)
Fairness ==
  /\ WF_vars(~aborted /\ Booting)
  /\ WF_vars(~aborted /\ (Ao("spmngr") \/ DispatchSpMngr))
  /\ WF_vars(~aborted /\ SpStep)
FairSpec == Spec /\ Fairness

-----------------------------------------------------------------------------
\* Properties

Places(b) ==
  [free   |-> b \in free,
   held   |-> \E p \in Posters : held[p].block = b,
   posted |-> \E a \in AOs : \E i \in DOMAIN queue[a] : queue[a][i].block = b,
   read   |-> \E a \in AOs : current[a].block = b]

(* A block is in one place: free, filled by the thread that allocated it,  *)
(* once in one queue, or read by the thread that dispatches it.  No event  *)
(* is reused while someone still reads it, and none is lost.               *)
BlocksAccounted ==
  "pools" \in ready =>
    \A b \in Blocks :
      /\ Cardinality({place \in DOMAIN Places(b) : Places(b)[place]}) = 1
      /\ \A a \in AOs : \A i, j \in DOMAIN queue[a] :
           queue[a][i].block = b /\ queue[a][j].block = b => i = j

(* An AO's thread finds an event whenever its semaphore lets it through.   *)
TokensAreEvents ==
  \A a \in AOs : Len(queue[a]) = sem[a] + (IF at[a] = "take" THEN 1 ELSE 0)

(* Nothing is used before it is initialised, whichever thread is fast: the *)
(* inboxes, the pools, the queues, and SpMngr's state machine when its     *)
(* first event is dispatched.                                              *)
UsedWhenReady ==
  /\ toUi => "uiInbox" \in ready
  /\ asked # <<>> => "spInbox" \in ready
  /\ \A p \in Posters : held[p] # None => {"pools", "spmngr"} \subseteq ready
  /\ \A a \in AOs : queue[a] # <<>> => {a, "pools"} \subseteq ready
  /\ at["spmngr"] # "wait" => "hsm" \in ready

(* The pool of packets is no tighter than SpMngr's queue: it is exhausted  *)
(* only when the queue is full, too.                                       *)
PoolOutlastsQueue ==
  ("pools" \in ready /\ free \cap MidBlocks = {} /\ held["sp"] = None) => Full("spmngr")

-----------------------------------------------------------------------------
\* The invariant behind them

(* How far main and SST_thread_ are says what is ready.                    *)
BootInv ==
  /\ "uiInbox" \in ready <=> main # "ui"
  /\ "spInbox" \in ready <=> main \notin {"ui", "spthread"}
  /\ "pools" \in ready <=> main \in {"launch", "await", "run"}
  /\ sst = "none" <=> main \notin {"await", "run"}
  /\ "blinky" \in ready <=> sst \notin {"none", "blinky"}
  /\ "spmngr" \in ready <=> sst \notin {"none", "blinky", "spmngr"}
  /\ "hsm" \in ready <=> sst \in {"post1", "post2", "onStart", "idle"}
  /\ barrier => sst = "idle"
  /\ main = "run" => barrier

(* Before SpMngr has initialised, nobody has done anything.                *)
QuietInv ==
  /\ toUi => main # "ui"
  /\ "hsm" \notin ready =>
       /\ \A a \in AOs : queue[a] = <<>> /\ at[a] = "wait"
       /\ \A p \in Posters : held[p] = None
       /\ asked = <<>> /\ ~link

(* An AO has an event only while it dispatches it; Blinky's are static, and*)
(* each poster's are of one pool.                                          *)
TaskInv ==
  /\ \A a \in AOs : current[a] = None <=> at[a] \in {"wait", "take"}
  /\ current["blinky"].block = NoBlock
  /\ \A i \in DOMAIN queue["blinky"] : queue["blinky"][i].block = NoBlock
  /\ held["ui"].block \in BigBlocks \cup {NoBlock}
  /\ held["sp"].block \in MidBlocks \cup {NoBlock}

Posted(b) == \E i \in DOMAIN queue["spmngr"] : queue["spmngr"][i].block = b
Held(b)   == \E p \in Posters : held[p].block = b
Read(b)   == current["spmngr"].block = b

(* Each block is in exactly one place, and only a posted one is counted.   *)
BlockInv ==
  /\ "pools" \notin ready => free = {}
  /\ \A b \in Blocks :
       /\ "pools" \in ready => b \in free \/ Held(b) \/ Posted(b) \/ Read(b)
       /\ b \in free => ~Held(b) /\ ~Posted(b) /\ ~Read(b)
       /\ Held(b) => ~Posted(b) /\ ~Read(b) /\ ref[b] = 0
       /\ Posted(b) => ~Read(b)
       /\ \A i, j \in DOMAIN queue["spmngr"] :
            queue["spmngr"][i].block = b /\ queue["spmngr"][j].block = b => i = j

(* The invariant that makes the others inductive.                          *)
RuntimeInv == BootInv /\ QuietInv /\ TaskInv /\ BlockInv

-----------------------------------------------------------------------------

(* The ports are listed after the start, unless an assertion stops the     *)
(* program: the intents SpMngr queues for itself are not overtaken.        *)
PortsListed == <>(listed \/ aborted)
=============================================================================
