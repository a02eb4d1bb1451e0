------------------------------ MODULE WakeInbox ------------------------------
(***************************************************************************)
(* An event inbox of a thread, one step finer than SerialChannels: a ring  *)
(* buffer under a mutex and a wake object (an eventfd) the thread polls.   *)
(* SpThread (sp_thread_evt.c) and the UI (ui_evt.c) have the same one.     *)
(* They differ in who posts: the UI thread also puts terminal input into   *)
(* its own inbox, without a wake, and drains the inbox again before it     *)
(* sleeps (ui.c UI_drainTerminalInput_, UI_run).                           *)
(***************************************************************************)
EXTENDS Naturals, Sequences

CONSTANTS
  Producers, (* the other threads that post                                  *)
  Consumer,  (* the thread that owns the inbox                               *)
  NoThread,  (* the mutex is free                                            *)
  Events,
  NoEvent,
  QLen,      (* SP_THREAD_EVT_QLEN_, UI_QLEN_: slots of the ring             *)
  OwnInput   (* the consumer posts too: the UI thread's terminal input       *)

ASSUME InboxAssumption ==
  /\ Consumer \notin Producers /\ NoThread \notin Producers \cup {Consumer}
  /\ NoEvent \notin Events
  /\ QLen \in Nat \ {0}
  /\ OwnInput \in BOOLEAN

Posters == Producers \cup (IF OwnInput THEN {Consumer} ELSE {})

VARIABLES
  buf, head, tail, used, (* the ring: next free slot, oldest event, count    *)
  mutex,  (* the thread holding the mutex                                    *)
  wake,   (* the eventfd counter is not zero                                 *)
  post,   (* where each poster is in its post, and with which event          *)
  at,     (* where the consumer is in its loop                               *)
  has,    (* hasEvent of the last SpThread_evtDequeue                        *)
  e,      (* the event it returned, kept when it returns none                *)
  aborted (* the contract "used < QLEN" was violated                         *)

ring == <<buf, head, tail, used>>
vars == <<ring, mutex, wake, post, at, has, e, aborted>>

Idle == [at |-> "idle", evt |-> NoEvent]

TypeOK ==
  /\ buf \in [0..(QLen - 1) -> Events \cup {NoEvent}]
  /\ head \in 0..(QLen - 1) /\ tail \in 0..(QLen - 1) /\ used \in 0..QLen
  /\ mutex \in Producers \cup {Consumer, NoThread}
  /\ wake \in BOOLEAN
  /\ post \in [Posters -> {Idle} \cup
                 [at : {"store", "advance", "unlock", "signal"}, evt : Events]]
  /\ at \in {"wait", "consume", "lock", "take", "unlock", "drained", "input"}
  /\ has \in BOOLEAN
  /\ e \in Events \cup {NoEvent}
  /\ aborted \in BOOLEAN

Init ==
  /\ buf = [i \in 0..(QLen - 1) |-> NoEvent]
  /\ head = 0 /\ tail = 0 /\ used = 0
  /\ mutex = NoThread
  /\ wake = FALSE
  /\ post = [p \in Posters |-> Idle]
  /\ at = "wait"
  /\ has = FALSE
  /\ e = NoEvent
  /\ aborted = FALSE

-----------------------------------------------------------------------------
(* Posting: lock, store, advance the ring, unlock, signal the wake.        *)

(* Mutated: one slot past the end.                                         *)
BeforeOffByOne(i) == IF i = 0 THEN QLen - 2 ELSE i - 1

(* The ring is walked downwards.                                           *)
Before(i) == IF i = 0 THEN QLen - 1 ELSE i - 1

Move(p, step) == post' = [post EXCEPT ![p].at = step]

(* A thread calls one of the post functions and gets the mutex; the UI     *)
(* thread does so for terminal input it reads after a drain.               *)
Begin(p, x) ==
  /\ post[p] = Idle
  /\ p = Consumer => at \in {"drained", "input"}
  /\ mutex = NoThread
  /\ mutex' = p
  /\ post' = [post EXCEPT ![p] = [at |-> "store", evt |-> x]]
  /\ at' = IF p = Consumer THEN "input" ELSE at
  /\ UNCHANGED <<ring, wake, has, e, aborted>>

Store(p) ==
  /\ post[p].at = "store"
  /\ used < QLen
  /\ buf' = [buf EXCEPT ![head] = post[p].evt]
  /\ Move(p, "advance")
  /\ UNCHANGED <<head, tail, used, mutex, wake, at, has, e, aborted>>

(* DBC_REQUIRE(103), DBC_REQUIRE(201): the process aborts.                 *)
Overflow(p) ==
  /\ post[p].at = "store"
  /\ used >= QLen
  /\ aborted' = TRUE
  /\ UNCHANGED <<ring, mutex, wake, post, at, has, e>>

Advance(p) ==
  /\ post[p].at = "advance"
  /\ head' = Before(head)
  /\ used' = used + 1
  /\ Move(p, "unlock")
  /\ UNCHANGED <<buf, tail, mutex, wake, at, has, e, aborted>>

Unlock(p) ==
  /\ post[p].at = "unlock"
  /\ mutex' = NoThread
  /\ post' = [post EXCEPT ![p] = IF p = Consumer THEN Idle
                                 ELSE [@ EXCEPT !.at = "signal"]]
  /\ UNCHANGED <<ring, wake, at, has, e, aborted>>

Signal(p) ==
  /\ post[p].at = "signal"
  /\ wake' = TRUE
  /\ post' = [post EXCEPT ![p] = Idle]
  /\ UNCHANGED <<ring, mutex, at, has, e, aborted>>

-----------------------------------------------------------------------------
(* The consumer: wait, reset the wake, dequeue until empty.                *)

(* The wait ends on the wake or on another source; the UI drains its inbox *)
(* in any case, SpThread only on the wake (otherwise it comes back here).  *)
Woken ==
  /\ at = "wait"
  /\ \/ wake /\ at' = "consume"
     \/ ~wake /\ OwnInput /\ at' = "lock"
  /\ UNCHANGED <<ring, mutex, wake, post, has, e, aborted>>

Consume ==
  /\ at = "consume"
  /\ wake' = FALSE
  /\ at' = "lock"
  /\ UNCHANGED <<ring, mutex, post, has, e, aborted>>

LockInbox ==
  /\ at = "lock"
  /\ mutex = NoThread
  /\ mutex' = Consumer
  /\ at' = "take"
  /\ UNCHANGED <<ring, wake, post, has, e, aborted>>

Take ==
  /\ at = "take"
  /\ has' = (used > 0)
  /\ IF used > 0
     THEN e' = buf[tail] /\ tail' = Before(tail) /\ used' = used - 1
     ELSE UNCHANGED <<e, tail, used>>
  /\ at' = "unlock"
  /\ UNCHANGED <<buf, head, mutex, wake, post, aborted>>

(* Unlock; dispatch the event and come back for the next, or end the drain.*)
UnlockInbox ==
  /\ at = "unlock"
  /\ mutex' = NoThread
  /\ at' = IF has THEN "lock" ELSE "drained"
  /\ UNCHANGED <<ring, wake, post, has, e, aborted>>

(* After a drain the thread waits again.                                   *)
Sleep ==
  /\ at = "drained"
  /\ at' = "wait"
  /\ UNCHANGED <<ring, mutex, wake, post, has, e, aborted>>

(* Mutated: terminal input is left to the next drain.                      *)
SleepOnInput ==
  /\ at = "input" /\ post[Consumer] = Idle
  /\ at' = "wait"
  /\ UNCHANGED <<ring, mutex, wake, post, has, e, aborted>>

(* After terminal input it drains once more.                               *)
DrainInput ==
  /\ at = "input" /\ post[Consumer] = Idle
  /\ at' = "lock"
  /\ UNCHANGED <<ring, mutex, wake, post, has, e, aborted>>

-----------------------------------------------------------------------------

Posting(p)   == Store(p) \/ Overflow(p) \/ Advance(p) \/ Unlock(p) \/ Signal(p)
Consuming    == Woken \/ Consume \/ LockInbox \/ Take \/ UnlockInbox \/ Sleep \/ DrainInput

Next ==
  \/ /\ ~aborted
     /\ \/ \E p \in Posters : Posting(p) \/ \E x \in Events : Begin(p, x)
        \/ Consuming
  \/ aborted /\ UNCHANGED vars

(* Every thread keeps running once it may; nobody has to post or to type.  *)
Runnable == at = "wait" => wake

Fairness ==
  /\ \A p \in Posters : WF_vars(~aborted /\ Posting(p))
  /\ WF_vars(~aborted /\ Runnable /\ Consuming)

Spec == Init /\ [][Next]_vars /\ Fairness

-----------------------------------------------------------------------------

(* The slot of the i-th oldest event when slot t holds the oldest.         *)
Slot(t, i) == IF i <= t + 1 THEN t + 1 - i ELSE t + 1 + QLen - i

Contents == [i \in 1..used |-> buf[Slot(tail, i)]]

Channel == INSTANCE EventChannel
             WITH Capacity <- QLen, queue <- Contents, last <- e, broken <- aborted

(* The ring, the mutex and the wake together keep the promise of an event  *)
(* channel: accepted events are dispatched once, in order, and eventually, *)
(* however the posts interleave with each other and with the drain.        *)
IsChannel == Channel!Spec

(* A thread never sleeps on an event: while its inbox is not empty and it  *)
(* waits, its wake is set or a poster is about to set it.                  *)
NoLostWake ==
  (at = "wait" /\ used > 0 /\ ~aborted)
    => wake \/ \E p \in Producers : post[p].at \in {"unlock", "signal"}

(* The inductive invariant.                                                *)
Holder ==
  /\ \A p \in Posters :
       post[p].at \in {"store", "advance", "unlock"}
         <=> mutex = p /\ at \notin {"take", "unlock"}
  /\ at \in {"take", "unlock"} => mutex = Consumer
  /\ mutex = Consumer => at \in {"take", "unlock", "input"}
  /\ at = "input" => OwnInput

RingInv ==
  /\ head = Slot(tail, used + 1)
  /\ \A p \in Posters : post[p].at = "advance" => used < QLen /\ buf[head] = post[p].evt
  /\ \A i \in 1..used : buf[Slot(tail, i)] \in Events

DrainedInv ==
  (at \in {"drained", "wait"} \/ (at = "unlock" /\ ~has)) /\ used > 0
    => wake \/ \E p \in Producers : post[p].at \in {"unlock", "signal"}

InboxInv == Holder /\ (~aborted => RingInv /\ DrainedInv)
=============================================================================
