--------------------------- MODULE AoRuntimeProofs ---------------------------
(***************************************************************************)
(* Proofs about AoRuntime, for pools, queues and an inbox of any size, any *)
(* commands, with and without ticks.                                       *)
(***************************************************************************)
EXTENDS AoRuntime, SequenceTheorems, FiniteSetTheorems, FunctionTheorems, TLAPS

StaticSigs == {"timeout", "refreshProtocols", "refresh", "disconnect",
               "opened", "applied", "closed", "lost"}

Step == \/ Booting \/ AoStep \/ SpStep \/ PostHeld("ui")
        \/ Tick \/ Packet \/ Lose \/ \E c \in Commands : Submit(c)

Inv == TypeOK /\ RuntimeInv /\ TokensAreEvents

-----------------------------------------------------------------------------
\* Events and posts

(* A static event is of no pool.                                           *)
LEMMA StaticEvents ==
  ASSUME NEW sig \in StaticSigs
  PROVE  Static(sig) \in Events /\ Static(sig).block = NoBlock
BY DEF Static, Events, StaticSigs

(* None is no event, and no event holds a block that is none.              *)
LEMMA NoneIsNoEvent ==
  /\ None \notin Events /\ None.block = NoBlock
  /\ \A e \in Events : e.block \in Blocks \cup {NoBlock}
BY RuntimeAssumption DEF None, Events, MidSigs, BigSigs, Static, Blocks

(* What a post does to the types.                                          *)
LEMMA PutTyped ==
  ASSUME TypeOK, NEW a \in AOs, NEW e \in Events, Put(a, e), ~Full(a),
         e.block # NoBlock => ref[e.block] = 0
  PROVE  /\ queue' \in [AOs -> Seq(Events)] /\ sem' \in [AOs -> Nat]
         /\ \A x \in AOs : Len(queue'[x]) <= QLen(x)
         /\ ref' \in [Blocks -> 0..1]
         /\ UNCHANGED <<at, current, free>>
<1>0. \A x \in AOs : QLen(x) \in Nat
  <2>1. Cardinality(MidBlocks) \in Nat /\ Cardinality(MidBlocks) >= 3
    BY RuntimeAssumption, FS_CardinalityType
  <2> QED
    BY <2>1, RuntimeAssumption DEF QLen, AOs
<1>1. queue \in [AOs -> Seq(Events)] /\ queue[a] \in Seq(Events)
  BY DEF TypeOK
<1>2. Append(queue[a], e) \in Seq(Events) /\ Len(Append(queue[a], e)) = Len(queue[a]) + 1
  BY <1>1
<1>3. queue' \in [AOs -> Seq(Events)] /\ sem' \in [AOs -> Nat]
  BY <1>1, <1>2 DEF Put, TypeOK
<1>4. \A x \in AOs : Len(queue'[x]) <= QLen(x)
  BY <1>0, <1>1, <1>2 DEF Put, TypeOK, Full
<1>5. ref' \in [Blocks -> 0..1]
  BY NoneIsNoEvent DEF Put, TypeOK
<1> QED
  BY <1>3, <1>4, <1>5 DEF Put

(* What a post does to the counts of tokens and events.                    *)
LEMMA PutKeepsTokens ==
  ASSUME TypeOK, TokensAreEvents, NEW a \in AOs, NEW e \in Events, Put(a, e)
  PROVE  TokensAreEvents'
BY DEF TypeOK, TokensAreEvents, Put

(* A held event is an event whose block nobody has counted yet.            *)
LEMMA HeldUncounted ==
  ASSUME TypeOK, BlockInv, NEW p \in Posters, held[p] # None
  PROVE  held[p] \in Events /\ (held[p].block # NoBlock => ref[held[p].block] = 0)
<1>1. held[p] \in Events
  BY DEF TypeOK
<1>2. held[p].block # NoBlock => Held(held[p].block) /\ held[p].block \in Blocks
  BY <1>1, NoneIsNoEvent DEF Held
<1> QED
  BY <1>1, <1>2 DEF BlockInv

(* The event at the head of a queue that is read.                          *)
LEMMA HeadOfQueue ==
  ASSUME TypeOK, TokensAreEvents, NEW a \in AOs, at[a] = "take"
  PROVE  /\ queue[a] \in Seq(Events) /\ queue[a] # <<>> /\ Len(queue[a]) > 0
         /\ Head(queue[a]) \in Events /\ Head(queue[a]) = queue[a][1]
         /\ Tail(queue[a]) \in Seq(Events) /\ Len(Tail(queue[a])) = Len(queue[a]) - 1
         /\ \A i \in DOMAIN Tail(queue[a]) :
              i + 1 \in DOMAIN queue[a] /\ Tail(queue[a])[i] = queue[a][i + 1]
<1>1. queue[a] \in Seq(Events) /\ sem[a] \in Nat
  BY DEF TypeOK
<1>2. Len(queue[a]) = sem[a] + 1
  BY <1>1 DEF TokensAreEvents
<1>3. queue[a] # <<>>
  BY <1>1, <1>2
<1> QED
  BY <1>1, <1>2, <1>3

(* What New does to the types.                                             *)
LEMMA NewTyped ==
  ASSUME TypeOK, NEW p \in Posters, NEW sig \in MidSigs \cup BigSigs, New(p, sig)
  PROVE  TypeOK'
<1>1. CASE Abort
  BY <1>1 DEF Abort, TypeOK, boot, pool, task, rest
<1>2. ASSUME NEW b \in free \cap PoolOf(sig),
             free' = free \ {b}, ref' = [ref EXCEPT ![b] = 0],
             held' = [held EXCEPT ![p] = [sig |-> sig, block |-> b]],
             UNCHANGED <<boot, task, rest, aborted>>
      PROVE  TypeOK'
  <2>1. [sig |-> sig, block |-> b] \in Events
    BY DEF PoolOf, Events
  <2>2. held' \in [Posters -> Events \cup {None}]
    BY <1>2, <2>1 DEF TypeOK
  <2>3. free' \subseteq Blocks /\ ref' \in [Blocks -> 0..1]
    BY <1>2 DEF TypeOK
  <2> QED
    BY <1>2, <2>2, <2>3 DEF TypeOK, boot, task, rest
<1> QED
  BY <1>1, <1>2 DEF New

(* Every step of the start-up keeps the types.                              *)
LEMMA TypeBooting ==
  ASSUME Inv, Booting
  PROVE  TypeOK'
<1> USE DEF TypeOK, Inv, boot, pool, task, rest
<1>1. CASE UiInit
  BY <1>1 DEF UiInit, Advance
<1>2. CASE SpThreadStart
  BY <1>2 DEF SpThreadStart, Advance
<1>3. CASE SstInit
  BY <1>3 DEF SstInit, Advance
<1>4. CASE SstThreadStart
  BY <1>4 DEF SstThreadStart, Advance
<1>5. CASE Await
  BY <1>5 DEF Await, Advance
<1>6. CASE StartBlinky
  BY <1>6 DEF StartBlinky
<1>7. CASE StartSpMngr
  BY <1>7 DEF StartSpMngr
<1>8. CASE InitHsm
  BY <1>8 DEF InitHsm
<1>9. CASE InitialIntents
  <2>1. PICK from, to, sig : /\ to \in {"post2", "onStart"}
                             /\ sig \in StaticSigs
                             /\ PostInitial(from, to, sig)
    BY <1>9 DEF InitialIntents, StaticSigs
  <2>2. CASE Abort
    BY <2>2 DEF Abort
  <2>3. CASE ~Full("spmngr")
    <3>1. /\ "spmngr" \in AOs /\ Put("spmngr", Static(sig)) /\ sst' = to /\ toUi' = TRUE
          /\ UNCHANGED <<main, ready, barrier, held, asked, link, lit, listed, aborted>>
      BY <2>1, <2>3 DEF PostInitial, AOs
    <3>2. TypeOK /\ Static(sig) \in Events /\ Static(sig).block = NoBlock
      BY <2>1, StaticEvents
    <3> HIDE DEF TypeOK
    <3>3. /\ queue' \in [AOs -> Seq(Events)] /\ sem' \in [AOs -> Nat]
          /\ \A x \in AOs : Len(queue'[x]) <= QLen(x)
          /\ ref' \in [Blocks -> 0..1]
          /\ UNCHANGED <<at, current, free>>
      BY <2>3, <3>1, <3>2, PutTyped
    <3> QED
      BY <2>1, <3>1, <3>2, <3>3 DEF TypeOK
  <2> QED
    BY <2>1, <2>2, <2>3 DEF PostInitial
<1>10. CASE OnStart
  BY <1>10 DEF OnStart
<1> QED
  BY <1>1, <1>2, <1>3, <1>4, <1>5, <1>6, <1>7, <1>8, <1>9, <1>10 DEF Booting

(* A step that posts a static event to an AO, or aborts, keeps the types.  *)
LEMMA TypePost ==
  ASSUME TypeOK, NEW a \in AOs, NEW sig \in StaticSigs, ~Full(a), Put(a, Static(sig)),
         main' = main /\ sst' = sst /\ ready' = ready /\ barrier' = barrier,
         held' = held, aborted' = aborted, listed' = listed, lit' \in BOOLEAN,
         toUi' \in BOOLEAN, link' \in BOOLEAN,
         asked' \in Seq({"open", "apply", "close", "list"}), Len(asked') <= SpLen
  PROVE  TypeOK'
<1>1. Static(sig) \in Events /\ Static(sig).block = NoBlock
  BY StaticEvents
<1>2. /\ queue' \in [AOs -> Seq(Events)] /\ sem' \in [AOs -> Nat]
      /\ \A x \in AOs : Len(queue'[x]) <= QLen(x)
      /\ ref' \in [Blocks -> 0..1]
      /\ UNCHANGED <<at, current, free>>
  BY <1>1, PutTyped
<1> QED
  BY <1>2 DEF TypeOK

(* An AO's thread keeps the types: it takes from a non-empty queue.        *)
LEMMA TypeAo ==
  ASSUME Inv, AoStep
  PROVE  TypeOK'
<1> USE DEF TypeOK, boot, pool, task, rest
<1>1. ASSUME NEW a \in AOs, Pend(a)
      PROVE  TypeOK'
  BY <1>1 DEF Inv, Pend
<1>2. ASSUME NEW a \in AOs, Take(a)
      PROVE  TypeOK'
  <2>1. at[a] = "take" /\ TokensAreEvents /\ TypeOK
    BY <1>2 DEF Take, Inv
  <2>2. Head(queue[a]) \in Events /\ Tail(queue[a]) \in Seq(Events)
          /\ Len(Tail(queue[a])) = Len(queue[a]) - 1
    BY <2>1, HeadOfQueue
  <2>3. \A x \in AOs : QLen(x) \in Nat
    BY RuntimeAssumption, FS_CardinalityType DEF QLen, AOs
  <2>4. \A x \in AOs : Len(queue'[x]) <= QLen(x)
    BY <1>2, <2>1, <2>2, <2>3 DEF Take
  <2> QED
    BY <1>2, <2>1, <2>2, <2>4 DEF Take
<1>3. ASSUME NEW a \in AOs, Collect(a)
      PROVE  TypeOK'
  <2>1. current[a].block \in Blocks \cup {NoBlock}
    BY NoneIsNoEvent DEF Inv
  <2>2. free' \subseteq Blocks /\ ref' \in [Blocks -> 0..1]
    BY <1>3, <2>1 DEF Collect, Inv
  <2> QED
    BY <1>3, <2>2 DEF Collect, Inv
<1>4. CASE DispatchBlinky
  <2>1. /\ lit' \in BOOLEAN /\ at' \in [AOs -> {"wait", "take", "dispatch", "gc"}]
        /\ UNCHANGED <<boot, pool, queue, sem, current, held, asked, toUi, link, listed, aborted>>
    BY <1>4 DEF DispatchBlinky, Inv
  <2> QED
    BY <2>1 DEF Inv
<1>5. CASE DispatchSpMngr
  <2>1. CASE Abort
    BY <2>1 DEF Abort, Inv
  <2>2. asked \in Seq({"open", "apply", "close", "list"}) /\ Len(asked) <= SpLen /\ SpLen \in Nat
    BY RuntimeAssumption DEF Inv
  <2>3. \A sig : Request(sig) # "none" => Request(sig) \in {"open", "apply", "close", "list"}
    BY DEF Request
  <2>4. ASSUME NEW sig,
               \/ Request(sig) # "none" /\ Len(asked) < SpLen /\ asked' = Append(asked, Request(sig))
               \/ asked' = asked
        PROVE  asked' \in Seq({"open", "apply", "close", "list"}) /\ Len(asked') <= SpLen
    BY <2>2, <2>3, <2>4
  <2>5. ASSUME ~Abort
        PROVE  TypeOK'
    <3>1. asked' \in Seq({"open", "apply", "close", "list"}) /\ Len(asked') <= SpLen
      BY <1>5, <2>5, <2>4 DEF DispatchSpMngr
    <3>2. /\ toUi' = TRUE /\ listed' \in BOOLEAN
          /\ at' \in [AOs -> {"wait", "take", "dispatch", "gc"}]
          /\ UNCHANGED <<boot, pool, queue, sem, current, held, link, lit, aborted>>
      BY <1>5, <2>5 DEF DispatchSpMngr, Inv
    <3> QED
      BY <3>1, <3>2 DEF Inv
  <2> QED
    BY <2>1, <2>5
<1> QED
  BY <1>1, <1>2, <1>3, <1>4, <1>5 DEF AoStep, Ao

(* A failed assertion changes nothing else.                                *)
LEMMA TypeAbort ==
  ASSUME TypeOK, Abort
  PROVE  TypeOK'
BY DEF TypeOK, Abort, boot, pool, task, rest

(* A post of an allocated event counts its one reader.                     *)
LEMMA TypePostHeld ==
  ASSUME Inv, NEW p \in Posters, PostHeld(p)
  PROVE  TypeOK'
<1>1. TypeOK /\ BlockInv /\ "spmngr" \in AOs /\ held[p] # None
  BY DEF Inv, RuntimeInv, AOs, PostHeld
<1>2. CASE Abort
  BY <1>1, <1>2, TypeAbort
<1>3. CASE ~Full("spmngr") /\ Put("spmngr", held[p])
  <2>1. held[p] \in Events /\ (held[p].block # NoBlock => ref[held[p].block] = 0)
    BY <1>1, HeldUncounted
  <2>2. /\ queue' \in [AOs -> Seq(Events)] /\ sem' \in [AOs -> Nat]
        /\ \A x \in AOs : Len(queue'[x]) <= QLen(x)
        /\ ref' \in [Blocks -> 0..1]
        /\ UNCHANGED <<at, current, free>>
    BY <1>1, <1>3, <2>1, PutTyped
  <2>3. CASE held' = [held EXCEPT ![p] = None] /\ UNCHANGED <<boot, rest, aborted>>
    <3>1. held' \in [Posters -> Events \cup {None}]
      BY <1>1, <2>3 DEF TypeOK
    <3> QED
      BY <1>1, <2>2, <2>3, <3>1 DEF TypeOK, boot, rest
  <2> QED
    BY <1>2, <1>3, <2>3 DEF PostHeld
<1> QED
  BY <1>2, <1>3 DEF PostHeld

(* SpThread's answers keep the types.                                      *)
LEMMA TypeSp ==
  ASSUME Inv, Open \/ Apply \/ Close \/ Lose
  PROVE  TypeOK'
<1>1. TypeOK /\ "spmngr" \in AOs /\ SpLen \in Nat
  BY RuntimeAssumption DEF Inv, AOs
<1>2. CASE Abort
  BY <1>1, <1>2, TypeAbort
<1>3. asked # <<>> =>
        Tail(asked) \in Seq({"open", "apply", "close", "list"}) /\ Len(Tail(asked)) <= SpLen
  BY <1>1 DEF TypeOK
<1>4. ASSUME NEW sig \in {"opened", "applied", "closed"}, NEW up \in BOOLEAN,
             asked # <<>>, ~Full("spmngr"), Answer(sig, up)
      PROVE  TypeOK'
  <2>1. sig \in StaticSigs
    BY DEF StaticSigs
  <2>2. Put("spmngr", Static(sig)) /\ asked' = Tail(asked) /\ link' = up
          /\ UNCHANGED <<boot, held, lit, toUi, listed, aborted>>
    BY <1>4 DEF Answer
  <2>3. lit \in BOOLEAN /\ toUi \in BOOLEAN
    BY <1>1 DEF TypeOK
  <2> QED
    BY <1>1, <1>3, <1>4, <2>1, <2>2, <2>3, TypePost DEF boot
<1>5. CASE Open
  BY <1>2, <1>4, <1>5 DEF Open
<1>6. CASE Close
  BY <1>2, <1>4, <1>6 DEF Close
<1>7. CASE Apply
  <2>1. CASE ~link /\ asked' = Tail(asked)
              /\ UNCHANGED <<boot, pool, task, held, link, lit, toUi, listed, aborted>>
    BY <1>1, <1>3, <1>7, <2>1 DEF Apply, TypeOK, boot, pool, task
  <2> QED
    BY <1>2, <1>4, <1>7, <2>1 DEF Apply
<1>8. CASE Lose
  <2>1. ASSUME ~Full("spmngr"), link' = FALSE, Put("spmngr", Static("lost")),
               UNCHANGED <<boot, held, asked, lit, toUi, listed, aborted>>
        PROVE  TypeOK'
    <3>1. "lost" \in StaticSigs
      BY DEF StaticSigs
    <3>2. /\ lit' \in BOOLEAN /\ toUi' \in BOOLEAN /\ link' \in BOOLEAN
          /\ asked' \in Seq({"open", "apply", "close", "list"}) /\ Len(asked') <= SpLen
      BY <1>1, <2>1 DEF TypeOK
    <3> QED
      BY <1>1, <2>1, <3>1, <3>2, TypePost DEF boot
  <2> QED
    BY <1>2, <1>8, <2>1 DEF Lose
<1> QED
  BY <1>5, <1>6, <1>7, <1>8

(* A submission keeps the types.                                           *)
LEMMA TypeUi ==
  ASSUME Inv, Tick \/ \E c \in Commands : Submit(c)
  PROVE  TypeOK'
<1>1. /\ TypeOK /\ "spmngr" \in AOs /\ "blinky" \in AOs /\ "ui" \in Posters
      /\ Commands \subseteq UiCommands
  BY RuntimeAssumption DEF Inv, AOs, Posters
<1>2. CASE Abort
  BY <1>1, <1>2, TypeAbort
<1>3. ASSUME NEW a \in AOs, NEW sig \in StaticSigs, ~Full(a), Put(a, Static(sig)),
             UNCHANGED <<boot, held, asked, link, lit, listed, aborted>>, toUi' \in BOOLEAN
      PROVE  TypeOK'
  <2>1. /\ lit' \in BOOLEAN /\ link' \in BOOLEAN
        /\ asked' \in Seq({"open", "apply", "close", "list"}) /\ Len(asked') <= SpLen
    BY <1>1, <1>3 DEF TypeOK
  <2> QED
    BY <1>1, <1>3, <2>1, TypePost DEF boot
<1>4. CASE Tick
  <2>1. "timeout" \in StaticSigs
    BY DEF StaticSigs
  <2> QED
    BY <1>1, <1>2, <1>3, <1>4, <2>1 DEF Tick
<1>5. ASSUME NEW c \in Commands, Submit(c)
      PROVE  TypeOK'
  <2>1. CASE c \in BigSigs
    BY <1>1, <1>5, <2>1, NewTyped DEF Submit
  <2>2. CASE c \notin BigSigs
    <3>1. c \in StaticSigs /\ PostStatic(c)
      BY <1>1, <1>5, <2>2 DEF Submit, UiCommands, BigSigs, StaticSigs
    <3>2. toUi \in BOOLEAN
      BY <1>1 DEF TypeOK
    <3>3. CASE ~Full("spmngr") /\ ~Abort
      <4>1. Put("spmngr", Static(c)) /\ UNCHANGED <<boot, held, rest, aborted>>
        BY <3>1, <3>3 DEF PostStatic
      <4> QED
        BY <1>1, <1>3, <3>1, <3>2, <3>3, <4>1 DEF rest
    <3> QED
      BY <1>2, <3>1, <3>3 DEF PostStatic
  <2> QED
    BY <2>1, <2>2
<1> QED
  BY <1>4, <1>5

(* A list of ports is allocated from the pool of packets.                  *)
LEMMA TypeList ==
  ASSUME Inv, List \/ Packet
  PROVE  TypeOK'
<1>1. TypeOK /\ "sp" \in Posters
  BY DEF Inv, Posters
<1>2. CASE Packet
  BY <1>1, <1>2, NewTyped DEF Packet, MidSigs
<1>3. CASE List
  <2>1. CASE Abort
    BY <1>1, <2>1, TypeAbort
  <2>2. ASSUME asked # <<>>, asked' = Tail(asked), NEW b \in free \cap MidBlocks,
               free' = free \ {b}, ref' = [ref EXCEPT ![b] = 0],
               held' = [held EXCEPT !["sp"] = [sig |-> "ports", block |-> b]],
               UNCHANGED <<boot, task, link, lit, toUi, listed, aborted>>
        PROVE  TypeOK'
    <3>1. [sig |-> "ports", block |-> b] \in Events
      BY DEF Events, MidSigs
    <3>2. held' \in [Posters -> Events \cup {None}] /\ free' \subseteq Blocks
            /\ ref' \in [Blocks -> 0..1]
      BY <1>1, <2>2, <3>1 DEF TypeOK
    <3>3. asked' \in Seq({"open", "apply", "close", "list"}) /\ Len(asked') <= SpLen
      BY <1>1, <2>2, RuntimeAssumption DEF TypeOK
    <3> QED
      BY <1>1, <2>2, <3>2, <3>3 DEF TypeOK, boot, task
  <2> QED
    BY <1>3, <2>1, <2>2 DEF List
<1> QED
  BY <1>2, <1>3

(* Every step keeps the types.                                             *)
LEMMA TypeStep ==
  ASSUME Inv, Step
  PROVE  TypeOK'
<1>1. "sp" \in Posters /\ "ui" \in Posters
  BY DEF Posters
<1> QED
  BY <1>1, TypeBooting, TypeAo, TypePostHeld, TypeSp, TypeUi, TypeList DEF Step, SpStep

-----------------------------------------------------------------------------
\* What a step does to blocks and events

Still == UNCHANGED <<pool, task, held>>

PostsStatic == \E a \in AOs, sig \in StaticSigs : Put(a, Static(sig)) /\ held' = held

PostsHeld == \E p \in Posters : /\ held[p] # None
                                /\ Put("spmngr", held[p])
                                /\ held' = [held EXCEPT ![p] = None]

Allocates(p, sig, b) ==
  /\ b \in free \cap PoolOf(sig) /\ held[p] = None
  /\ free' = free \ {b} /\ ref' = [ref EXCEPT ![b] = 0]
  /\ held' = [held EXCEPT ![p] = [sig |-> sig, block |-> b]]
  /\ UNCHANGED task

AllocatesSome == \/ \E sig \in BigSigs, b \in BigBlocks : Allocates("ui", sig, b)
                 \/ \E sig \in MidSigs, b \in MidBlocks : Allocates("sp", sig, b)

Dispatches == \E a \in AOs : /\ at[a] = "dispatch" /\ at' = [at EXCEPT ![a] = "gc"]
                             /\ UNCHANGED <<pool, queue, sem, current, held>>

Kinds == \/ Still \/ PostsStatic \/ PostsHeld \/ AllocatesSome \/ Dispatches \/ SstInit
         \/ \E a \in AOs : Ao(a)

(* What a step does to pools, queues, tasks and posters is one of these.   *)
LEMMA StepKinds ==
  ASSUME Inv, Step
  PROVE  Kinds
<1> USE DEF boot, pool, task, rest
<1>0. "spmngr" \in AOs /\ "blinky" \in AOs /\ "sp" \in Posters /\ "ui" \in Posters
  BY DEF AOs, Posters
<1>1. Abort => Still
  BY DEF Abort, Still
<1>2. CASE Booting
  <2>1. CASE UiInit \/ SpThreadStart \/ SstThreadStart \/ Await
    BY <2>1 DEF UiInit, SpThreadStart, SstThreadStart, Await, Still, Kinds
  <2>2. CASE StartBlinky \/ StartSpMngr \/ InitHsm \/ OnStart
    BY <2>2 DEF StartBlinky, StartSpMngr, InitHsm, OnStart, Still, Kinds
  <2>3. CASE InitialIntents
    <3>1. PICK from, to, sig : sig \in StaticSigs /\ PostInitial(from, to, sig)
      BY <2>3 DEF InitialIntents, StaticSigs
    <3>2. Abort \/ (Put("spmngr", Static(sig)) /\ held' = held)
      BY <3>1 DEF PostInitial
    <3> QED
      BY <1>0, <1>1, <3>1, <3>2 DEF PostsStatic, Kinds
  <2> QED
    BY <1>2, <2>1, <2>2, <2>3 DEF Booting, Kinds
<1>3. CASE AoStep
  <2>1. CASE DispatchSpMngr
    BY <1>0, <1>1, <2>1 DEF DispatchSpMngr, Dispatches, Kinds
  <2>2. CASE DispatchBlinky
    BY <1>0, <2>2 DEF DispatchBlinky, Dispatches, Kinds
  <2> QED
    BY <1>3, <2>1, <2>2 DEF AoStep, Kinds
<1>4. ASSUME NEW p \in Posters, PostHeld(p)
      PROVE  Kinds
  BY <1>1, <1>4 DEF PostHeld, PostsHeld, Kinds
<1>5. CASE Open \/ Apply \/ Close
  <2>1. ASSUME NEW sig \in {"opened", "applied", "closed"}, NEW up, Answer(sig, up)
        PROVE  PostsStatic
    BY <1>0, <2>1 DEF Answer, PostsStatic, StaticSigs
  <2>2. Abort \/ Still \/ \E sig \in {"opened", "applied", "closed"}, up \in BOOLEAN : Answer(sig, up)
    BY <1>5 DEF Open, Apply, Close, Still
  <2> QED
    BY <1>1, <2>1, <2>2 DEF Kinds
<1>6. CASE Lose
  <2>1. Abort \/ (Put("spmngr", Static("lost")) /\ held' = held)
    BY <1>6 DEF Lose
  <2> QED
    BY <1>0, <1>1, <2>1 DEF PostsStatic, StaticSigs, Kinds
<1>7. CASE Tick
  <2>1. Abort \/ (Put("blinky", Static("timeout")) /\ held' = held)
    BY <1>7 DEF Tick
  <2> QED
    BY <1>0, <1>1, <2>1 DEF PostsStatic, StaticSigs, Kinds
<1>8. CASE List
  <2>1. Abort \/ \E b \in free \cap MidBlocks : Allocates("sp", "ports", b)
    BY <1>8 DEF List, Allocates, PoolOf, MidSigs
  <2> QED
    BY <1>1, <2>1 DEF AllocatesSome, MidSigs, Kinds
<1>9. CASE Packet
  <2>1. Abort \/ \E b \in free \cap MidBlocks : Allocates("sp", "packet", b)
    BY <1>9 DEF Packet, New, Allocates, PoolOf, MidSigs
  <2> QED
    BY <1>1, <2>1 DEF AllocatesSome, MidSigs, Kinds
<1>10. ASSUME NEW c \in Commands, Submit(c)
       PROVE  Kinds
  <2>1. CASE c \in BigSigs
    <3>1. PoolOf(c) = BigBlocks
      BY <2>1 DEF PoolOf, BigSigs, MidSigs
    <3>2. Abort \/ \E b \in free \cap BigBlocks : Allocates("ui", c, b)
      BY <1>10, <2>1, <3>1 DEF Submit, New, Allocates
    <3> QED
      BY <1>1, <2>1, <3>2 DEF AllocatesSome, Kinds
  <2>2. CASE c \notin BigSigs
    <3>1. c \in StaticSigs
      BY <2>2, RuntimeAssumption DEF UiCommands, BigSigs, StaticSigs
    <3>2. Abort \/ (Put("spmngr", Static(c)) /\ held' = held)
      BY <1>10, <2>2 DEF Submit, PostStatic
    <3> QED
      BY <1>0, <1>1, <3>1, <3>2 DEF PostsStatic, Kinds
  <2> QED
    BY <2>1, <2>2
<1> QED
  BY <1>0, <1>2, <1>3, <1>4, <1>5, <1>6, <1>7, <1>8, <1>9, <1>10 DEF Step, SpStep

(* Posting adds an event and a token, pending and taking remove both.      *)
LEMMA TokensStep ==
  ASSUME Inv, Kinds
  PROVE  TokensAreEvents'
<1>1. TypeOK /\ TokensAreEvents
  BY DEF Inv
<1>2. CASE Still \/ SstInit \/ AllocatesSome
  BY <1>1, <1>2 DEF Still, SstInit, Allocates, AllocatesSome, TokensAreEvents, task
<1>3. CASE PostsStatic
  BY <1>1, <1>3, PutKeepsTokens, StaticEvents DEF PostsStatic
<1>4. CASE PostsHeld
  <2>1. PICK p \in Posters : held[p] # None /\ Put("spmngr", held[p])
    BY <1>4 DEF PostsHeld
  <2>2. held[p] \in Events /\ "spmngr" \in AOs
    BY <1>1, <2>1 DEF TypeOK, AOs
  <2> QED
    BY <1>1, <2>1, <2>2, PutKeepsTokens
<1>5. CASE Dispatches
  BY <1>1, <1>5 DEF Dispatches, TokensAreEvents, TypeOK
<1>6. ASSUME NEW a \in AOs, Pend(a)
      PROVE  TokensAreEvents'
  BY <1>1, <1>6 DEF Pend, TokensAreEvents, TypeOK
<1>7. ASSUME NEW a \in AOs, Take(a)
      PROVE  TokensAreEvents'
  <2>1. at[a] = "take" /\ Len(Tail(queue[a])) = Len(queue[a]) - 1
    BY <1>1, <1>7, HeadOfQueue DEF Take
  <2>2. \A x \in AOs : Len(queue[x]) \in Nat /\ sem[x] \in Nat
    BY <1>1 DEF TypeOK
  <2>3. /\ queue' = [queue EXCEPT ![a] = Tail(@)] /\ at' = [at EXCEPT ![a] = "dispatch"]
        /\ sem' = sem
    BY <1>7 DEF Take
  <2> QED
    BY <1>1, <2>1, <2>2, <2>3 DEF TokensAreEvents, TypeOK
<1>8. ASSUME NEW a \in AOs, Collect(a)
      PROVE  TokensAreEvents'
  BY <1>1, <1>8 DEF Collect, TokensAreEvents, TypeOK
<1> QED
  BY <1>2, <1>3, <1>4, <1>5, <1>6, <1>7, <1>8 DEF Kinds, Ao

-----------------------------------------------------------------------------
\* What is ready

(* Nobody but the start-up acts before SpMngr has initialised.             *)
LEMMA OnlyBooting ==
  ASSUME Inv, Step, "hsm" \notin ready
  PROVE  Booting /\ ~InitialIntents
<1>1. /\ BootInv /\ QuietInv /\ TypeOK /\ TokensAreEvents
      /\ "spmngr" \in AOs /\ "blinky" \in AOs /\ "sp" \in Posters /\ "ui" \in Posters
  BY DEF Inv, RuntimeInv, AOs, Posters
<1>2. sst \notin {"post1", "post2", "onStart", "idle"} /\ main # "run"
  BY <1>1 DEF BootInv
<1>3. \A a \in AOs : queue[a] = <<>> /\ at[a] = "wait" /\ sem[a] = 0
  BY <1>1 DEF QuietInv, TokensAreEvents, TypeOK
<1>4. (\A p \in Posters : held[p] = None) /\ asked = <<>> /\ ~link
  BY <1>1 DEF QuietInv
<1>5. ~AoStep
  BY <1>1, <1>3 DEF AoStep, Ao, Pend, Take, Collect, DispatchBlinky, DispatchSpMngr
<1>6. ~SpStep /\ ~PostHeld("ui") /\ ~Packet /\ ~Lose
  BY <1>1, <1>4 DEF SpStep, PostHeld, Open, Apply, Close, List, Packet, Lose
<1>7. ~Tick /\ ~InitialIntents /\ \A c \in Commands : ~Submit(c)
  BY <1>2 DEF Tick, Submit, InitialIntents, PostInitial
<1> QED
  BY <1>5, <1>6, <1>7 DEF Step

(* Only the start-up moves main, SST_thread_ and what is ready.            *)
LEMMA BootMoves ==
  ASSUME Step, ~Booting
  PROVE  UNCHANGED boot
<1> USE DEF boot, rest
<1>0. Abort => UNCHANGED boot
  BY DEF Abort
<1>1. AoStep => UNCHANGED boot
  BY <1>0 DEF AoStep, Ao, Pend, Take, Collect, DispatchBlinky, DispatchSpMngr
<1>2. \A p \in Posters : PostHeld(p) => UNCHANGED boot
  BY <1>0 DEF PostHeld
<1>3. Open \/ Apply \/ Close \/ List \/ Lose \/ Packet => UNCHANGED boot
  BY <1>0 DEF Open, Apply, Close, Answer, List, Lose, Packet, New
<1>4. Tick \/ (\E c \in Commands : Submit(c)) => UNCHANGED boot
  BY <1>0 DEF Tick, Submit, New, PostStatic
<1> QED
  BY <1>1, <1>2, <1>3, <1>4 DEF Step, SpStep, Posters

(* The start-up's steps keep what is ready in step with where they are.    *)
LEMMA BootStep ==
  ASSUME Inv, Step
  PROVE  BootInv'
<1>1. BootInv /\ TypeOK
  BY DEF Inv, RuntimeInv
<1>2. CASE ~Booting
  BY <1>1, <1>2, BootMoves DEF BootInv, boot
<1>3. CASE UiInit \/ SpThreadStart \/ SstInit \/ SstThreadStart \/ Await
  BY <1>1, <1>3 DEF UiInit, SpThreadStart, SstInit, SstThreadStart, Await, Advance, BootInv
<1>4. CASE StartBlinky \/ StartSpMngr \/ InitHsm \/ OnStart
  BY <1>1, <1>4 DEF StartBlinky, StartSpMngr, InitHsm, OnStart, BootInv
<1>5. CASE InitialIntents
  <2>1. CASE UNCHANGED boot
    BY <1>1, <2>1 DEF BootInv, boot
  <2>2. ~UNCHANGED boot => /\ UNCHANGED <<main, ready, barrier>>
                           /\ \/ sst = "post1" /\ sst' = "post2"
                              \/ sst = "post2" /\ sst' = "onStart"
    BY <1>5 DEF InitialIntents, PostInitial, Abort
  <2> QED
    BY <1>1, <2>1, <2>2 DEF BootInv
<1> QED
  BY <1>2, <1>3, <1>4, <1>5 DEF Booting

(* Until SpMngr has initialised only the start-up moves.                   *)
LEMMA QuietStep ==
  ASSUME Inv, Step
  PROVE  QuietInv'
<1>1. BootInv /\ QuietInv /\ TypeOK
  BY DEF Inv, RuntimeInv
<1>2. CASE "hsm" \in ready
  <2>1. "hsm" \in ready'
    <3>1. CASE ~Booting
      BY <1>2, <3>1, BootMoves DEF boot
    <3>2. CASE Booting
      BY <1>2, <3>2 DEF Booting, UiInit, SpThreadStart, SstInit, SstThreadStart, Await,
           StartBlinky, StartSpMngr, InitHsm, OnStart, InitialIntents, PostInitial, Abort, boot
    <3> QED
      BY <3>1, <3>2
  <2>2. main # "ui" /\ main' # "ui"
    <3>1. main # "ui"
      BY <1>1, <1>2 DEF BootInv
    <3>2. BootInv'
      BY BootStep
    <3> QED
      BY <2>1, <3>1, <3>2 DEF BootInv
  <2> QED
    BY <2>1, <2>2 DEF QuietInv
<1>3. CASE "hsm" \notin ready
  <2>1. Booting /\ ~InitialIntents
    BY <1>3, OnlyBooting
  <2>2. UNCHANGED <<task, held, asked, link, toUi>> /\ (main # "ui" => main' # "ui")
    BY <1>1, <2>1 DEF Booting, UiInit, SpThreadStart, SstInit, SstThreadStart, Await,
         StartBlinky, StartSpMngr, InitHsm, OnStart, Advance, rest
  <2> QED
    BY <1>1, <1>3, <2>2 DEF QuietInv, task
<1> QED
  BY <1>2, <1>3

(* An event becomes current by Take and is dropped by Collect.             *)
LEMMA TaskStep ==
  ASSUME Inv, Kinds
  PROVE  TaskInv'
<1>1. /\ TaskInv /\ TypeOK /\ TokensAreEvents
      /\ "blinky" \in AOs /\ "spmngr" \in AOs /\ "ui" \in Posters /\ "sp" \in Posters
  BY DEF Inv, RuntimeInv, AOs, Posters
<1>2. /\ queue["blinky"] \in Seq(Events) /\ queue["spmngr"] \in Seq(Events)
      /\ None.block = NoBlock /\ None \notin Events
  BY <1>1, NoneIsNoEvent DEF TypeOK
<1>3. CASE Still \/ SstInit
  BY <1>1, <1>3 DEF Still, SstInit, TaskInv, task
<1>4. CASE PostsStatic
  <2>1. PICK a \in AOs, e \in Events : Put(a, e) /\ held' = held /\ e.block = NoBlock
    BY <1>4, StaticEvents DEF PostsStatic
  <2>2. current' = current /\ at' = at /\ queue' = [queue EXCEPT ![a] = Append(@, e)]
    BY <2>1 DEF Put
  <2>3. \A i \in DOMAIN queue'["blinky"] : queue'["blinky"][i].block = NoBlock
    BY <1>1, <1>2, <2>1, <2>2 DEF TaskInv, TypeOK
  <2> QED
    BY <1>1, <2>1, <2>2, <2>3 DEF TaskInv
<1>5. CASE PostsHeld
  BY <1>1, <1>2, <1>5 DEF PostsHeld, Put, TaskInv, TypeOK
<1>6. CASE AllocatesSome
  <2>1. ASSUME NEW p \in Posters, NEW b \in Blocks, NEW sig,
               held' = [held EXCEPT ![p] = [sig |-> sig, block |-> b]], UNCHANGED task,
               p = "ui" => b \in BigBlocks, p = "sp" => b \in MidBlocks
        PROVE  TaskInv'
    <3>1. /\ held'["ui"].block \in BigBlocks \cup {NoBlock}
          /\ held'["sp"].block \in MidBlocks \cup {NoBlock}
      BY <1>1, <2>1 DEF TaskInv, TypeOK
    <3> QED
      BY <1>1, <2>1, <3>1 DEF TaskInv, task
  <2> QED
    BY <1>1, <1>6, <2>1 DEF AllocatesSome, Allocates, Blocks
<1>7. CASE Dispatches
  BY <1>1, <1>7 DEF Dispatches, TaskInv, TypeOK
<1>8. ASSUME NEW a \in AOs, Pend(a)
      PROVE  TaskInv'
  BY <1>1, <1>8 DEF Pend, TaskInv, TypeOK
<1>9. ASSUME NEW a \in AOs, Take(a)
      PROVE  TaskInv'
  <2>1. /\ at[a] = "take" /\ held' = held
        /\ current' = [current EXCEPT ![a] = Head(queue[a])]
        /\ queue' = [queue EXCEPT ![a] = Tail(@)]
        /\ at' = [at EXCEPT ![a] = "dispatch"]
    BY <1>9 DEF Take
  <2>2. /\ Head(queue[a]) \in Events /\ Head(queue[a]) = queue[a][1] /\ 1 \in DOMAIN queue[a]
        /\ \A i \in DOMAIN Tail(queue[a]) :
             i + 1 \in DOMAIN queue[a] /\ Tail(queue[a])[i] = queue[a][i + 1]
    BY <1>1, <2>1, HeadOfQueue
  <2>3. \A x \in AOs : current'[x] = None <=> at'[x] \in {"wait", "take"}
    BY <1>1, <1>2, <2>1, <2>2 DEF TaskInv, TypeOK
  <2>4. current'["blinky"].block = NoBlock
    BY <1>1, <2>1, <2>2 DEF TaskInv, TypeOK
  <2>5. \A i \in DOMAIN queue'["blinky"] : queue'["blinky"][i].block = NoBlock
    BY <1>1, <2>1, <2>2 DEF TaskInv, TypeOK
  <2> QED
    BY <1>1, <2>1, <2>3, <2>4, <2>5 DEF TaskInv
<1>10. ASSUME NEW a \in AOs, Collect(a)
       PROVE  TaskInv'
  BY <1>1, <1>2, <1>10 DEF Collect, TaskInv, TypeOK
<1> QED
  BY <1>3, <1>4, <1>5, <1>6, <1>7, <1>8, <1>9, <1>10 DEF Kinds, Ao

-----------------------------------------------------------------------------
\* Where the blocks are

(* The pools are ready from SstInit on.                                    *)
LEMMA PoolsReady ==
  ASSUME Inv, Step, ~SstInit
  PROVE  "pools" \in ready' <=> "pools" \in ready
<1>1. CASE ~Booting
  BY <1>1, BootMoves DEF boot
<1>2. CASE UiInit \/ SpThreadStart \/ SstThreadStart \/ Await
  BY <1>2 DEF UiInit, SpThreadStart, SstThreadStart, Await
<1>3. CASE StartBlinky \/ StartSpMngr \/ InitHsm \/ OnStart
  BY <1>3 DEF StartBlinky, StartSpMngr, InitHsm, OnStart
<1>4. CASE InitialIntents
  BY <1>4 DEF InitialIntents, PostInitial, Abort, boot
<1> QED
  BY <1>1, <1>2, <1>3, <1>4 DEF Booting

(* What BlockInv says of one block.                                        *)
Placed(b) ==
  /\ "pools" \in ready => b \in free \/ Held(b) \/ Posted(b) \/ Read(b)
  /\ b \in free => ~Held(b) /\ ~Posted(b) /\ ~Read(b)
  /\ Held(b) => ~Posted(b) /\ ~Read(b) /\ ref[b] = 0
  /\ Posted(b) => ~Read(b)
  /\ \A i, j \in DOMAIN queue["spmngr"] :
       queue["spmngr"][i].block = b /\ queue["spmngr"][j].block = b => i = j

(* BlockInv, block by block.                                               *)
LEMMA PlacedIsBlockInv ==
  BlockInv <=> ("pools" \notin ready => free = {}) /\ \A b \in Blocks : Placed(b)
BY DEF BlockInv, Placed

(* A step that leaves the pools, the posters and SpMngr alone.             *)
LEMMA BlocksStill ==
  ASSUME BlockInv, UNCHANGED <<pool, held>>, queue'["spmngr"] = queue["spmngr"],
         current'["spmngr"] = current["spmngr"], "pools" \in ready' <=> "pools" \in ready
  PROVE  BlockInv'
BY DEF BlockInv, Held, Posted, Read, pool

(* A posted block leaves the thread that held it.                          *)
LEMMA BlocksPosted ==
  ASSUME Inv, NEW e \in Events, Put("spmngr", e), "pools" \in ready' <=> "pools" \in ready,
         \/ e.block = NoBlock /\ held' = held
         \/ \E p \in Posters : held[p] = e /\ held' = [held EXCEPT ![p] = None]
  PROVE  BlockInv'
<1>1. /\ BlockInv /\ TaskInv /\ TypeOK /\ "spmngr" \in AOs
      /\ queue["spmngr"] \in Seq(Events) /\ None.block = NoBlock /\ NoBlock \notin Blocks
      /\ MidBlocks \cap BigBlocks = {}
  BY NoneIsNoEvent, RuntimeAssumption DEF Inv, RuntimeInv, TypeOK, AOs
<1>2. /\ free' = free /\ current' = current
      /\ ref' = IF e.block = NoBlock THEN ref ELSE [ref EXCEPT ![e.block] = @ + 1]
      /\ queue'["spmngr"] = Append(queue["spmngr"], e)
  BY <1>1 DEF Put, TypeOK
<1>3. \A b \in Blocks : Posted(b)' <=> Posted(b) \/ e.block = b
  BY <1>1, <1>2 DEF Posted
<1>4. \A b \in Blocks : Held(b)' <=> Held(b) /\ e.block # b
  <2>1. CASE e.block = NoBlock /\ held' = held
    BY <1>1, <2>1 DEF Held
  <2>2. ASSUME NEW p \in Posters, held[p] = e, held' = [held EXCEPT ![p] = None]
        PROVE  \A b \in Blocks : Held(b)' <=> Held(b) /\ e.block # b
    <3>1. \A q \in Posters : held'[q] = IF q = p THEN None ELSE held[q]
      BY <2>2 DEF TypeOK, Inv
    <3>2. \A q \in Posters \ {p} : held[q].block \in Blocks => held[q].block # e.block
      BY <1>1, <2>2 DEF TaskInv, Posters, Blocks
    <3> QED
      BY <1>1, <2>2, <3>1, <3>2 DEF Held
  <2> QED
    BY <2>1, <2>2
<1>5. \A b \in Blocks : e.block = b => Held(b)
  BY <1>1 DEF Held
<1>6. \A b \in Blocks : Read(b)' <=> Read(b)
  BY <1>2 DEF Read
<1>7. ASSUME NEW b \in Blocks
      PROVE  \A i, j \in DOMAIN queue'["spmngr"] :
               queue'["spmngr"][i].block = b /\ queue'["spmngr"][j].block = b => i = j
  <2>1. e.block = b => ~Posted(b)
    BY <1>1, <1>5 DEF BlockInv
  <2>2. \A i, j \in DOMAIN queue["spmngr"] :
          queue["spmngr"][i].block = b /\ queue["spmngr"][j].block = b => i = j
    BY <1>1 DEF BlockInv
  <2> QED
    BY <1>1, <1>2, <2>1, <2>2 DEF Posted
<1>8. ASSUME NEW b \in Blocks
      PROVE  Placed(b)'
  <2>1. Placed(b)
    BY <1>1, PlacedIsBlockInv
  <2>2. b # e.block => ref'[b] = ref[b]
    BY <1>1, <1>2 DEF TypeOK
  <2> QED
    BY <1>2, <1>3, <1>4, <1>5, <1>6, <1>7, <2>1, <2>2 DEF Placed
<1> QED
  <2>1. "pools" \notin ready' => free' = {}
    BY <1>1, <1>2 DEF BlockInv
  <2> QED
    BY <1>8, <2>1 DEF BlockInv, Placed

(* An allocated block leaves the pool.                                     *)
LEMMA BlocksAllocated ==
  ASSUME Inv, NEW p \in Posters, NEW sig, NEW b \in Blocks, Allocates(p, sig, b),
         "pools" \in ready' <=> "pools" \in ready
  PROVE  BlockInv'
<1>1. /\ BlockInv /\ TypeOK /\ None.block = NoBlock /\ NoBlock \notin Blocks
      /\ "ui" \in Posters /\ "sp" \in Posters
  BY NoneIsNoEvent, RuntimeAssumption DEF Inv, RuntimeInv, Posters
<1>3. /\ b \in free /\ free' = free \ {b} /\ ref' = [ref EXCEPT ![b] = 0]
      /\ held[p] = None /\ held' = [held EXCEPT ![p] = [sig |-> sig, block |-> b]]
      /\ queue' = queue /\ current' = current
  BY DEF Allocates, task
<1>4. \A x \in Blocks : (Posted(x)' <=> Posted(x)) /\ (Read(x)' <=> Read(x))
  BY <1>3 DEF Posted, Read
<1>5. \A x \in Blocks : Held(x)' <=> Held(x) \/ x = b
  <2>1. \A q \in Posters : held'[q] = IF q = p THEN [sig |-> sig, block |-> b] ELSE held[q]
    BY <1>1, <1>3 DEF TypeOK
  <2> QED
    BY <1>1, <1>3, <2>1 DEF Held
<1>6. \A x \in Blocks : ref'[x] = IF x = b THEN 0 ELSE ref[x]
  BY <1>1, <1>3 DEF TypeOK
<1>7. ASSUME NEW x \in Blocks
      PROVE  Placed(x)'
  <2>1. Placed(x) /\ Placed(b)
    BY <1>1, PlacedIsBlockInv
  <2> QED
    BY <1>3, <1>4, <1>5, <1>6, <2>1 DEF Placed
<1> QED
  BY <1>1, <1>3, <1>7 DEF BlockInv, Placed

(* A taken block leaves the queue, where it was once.                      *)
LEMMA BlocksTaken ==
  ASSUME Inv, NEW a \in AOs, Take(a), "pools" \in ready' <=> "pools" \in ready
  PROVE  BlockInv'
<1>1. /\ BlockInv /\ TaskInv /\ TypeOK /\ TokensAreEvents /\ "spmngr" \in AOs
      /\ None.block = NoBlock /\ NoBlock \notin Blocks
  BY NoneIsNoEvent, RuntimeAssumption DEF Inv, RuntimeInv, AOs
<1>2. /\ at[a] = "take" /\ UNCHANGED <<pool, held>>
      /\ current' = [current EXCEPT ![a] = Head(queue[a])]
      /\ queue' = [queue EXCEPT ![a] = Tail(@)]
  BY <1>1 DEF Take
<1>3. CASE a # "spmngr"
  <2>1. queue'["spmngr"] = queue["spmngr"] /\ current'["spmngr"] = current["spmngr"]
    BY <1>1, <1>2, <1>3 DEF TypeOK
  <2> QED
    BY <1>1, <1>2, <2>1, BlocksStill DEF pool
<1>4. CASE a = "spmngr"
  <2>1. /\ queue["spmngr"] \in Seq(Events) /\ 1 \in DOMAIN queue["spmngr"]
        /\ Head(queue["spmngr"]) = queue["spmngr"][1]
        /\ \A i \in DOMAIN Tail(queue["spmngr"]) :
             i + 1 \in DOMAIN queue["spmngr"]
             /\ Tail(queue["spmngr"])[i] = queue["spmngr"][i + 1]
        /\ DOMAIN Tail(queue["spmngr"]) = 1..(Len(queue["spmngr"]) - 1)
    BY <1>1, <1>2, <1>4, HeadOfQueue
  <2>2. /\ queue'["spmngr"] = Tail(queue["spmngr"])
        /\ current'["spmngr"] = queue["spmngr"][1]
    BY <1>1, <1>2, <1>4, <2>1 DEF TypeOK
  <2>3. \A b \in Blocks : ~Read(b)
    BY <1>1, <1>2, <1>4 DEF Read, TaskInv
  <2>4. ASSUME NEW b \in Blocks
        PROVE  Placed(b)'
    <3>1. Placed(b)
      BY <1>1, PlacedIsBlockInv
    <3>2. Held(b)' <=> Held(b)
      BY <1>2 DEF Held
    <3>3. Read(b)' <=> queue["spmngr"][1].block = b
      BY <2>2 DEF Read
    <3>4. Posted(b)' => Posted(b)
      BY <2>1, <2>2 DEF Posted
    <3>5. \A i, j \in DOMAIN queue["spmngr"] :
            queue["spmngr"][i].block = b /\ queue["spmngr"][j].block = b => i = j
      BY <3>1 DEF Placed
    <3>6. Posted(b)' => ~Read(b)'
      <4>1. SUFFICES ASSUME NEW i \in DOMAIN queue'["spmngr"], queue'["spmngr"][i].block = b,
                            queue["spmngr"][1].block = b
                     PROVE  FALSE
        BY <3>3 DEF Posted
      <4>2. i + 1 \in DOMAIN queue["spmngr"] /\ queue["spmngr"][i + 1].block = b /\ i \in 1..(Len(queue["spmngr"]) - 1)
        BY <2>1, <2>2, <4>1
      <4>3. i + 1 = 1
        BY <2>1, <3>5, <4>1, <4>2
      <4> QED
        BY <2>1, <4>2, <4>3
    <3>7. \A i, j \in DOMAIN queue'["spmngr"] :
            queue'["spmngr"][i].block = b /\ queue'["spmngr"][j].block = b => i = j
      <4>1. SUFFICES ASSUME NEW i \in DOMAIN queue'["spmngr"], NEW j \in DOMAIN queue'["spmngr"],
                            queue'["spmngr"][i].block = b, queue'["spmngr"][j].block = b
                     PROVE  i = j
        OBVIOUS
      <4>2. /\ i + 1 \in DOMAIN queue["spmngr"] /\ queue["spmngr"][i + 1].block = b
            /\ j + 1 \in DOMAIN queue["spmngr"] /\ queue["spmngr"][j + 1].block = b
            /\ i \in Int /\ j \in Int
        BY <2>1, <2>2, <4>1
      <4>3. i + 1 = j + 1
        BY <3>5, <4>2
      <4> QED
        BY <4>2, <4>3
    <3>8. Posted(b) => Posted(b)' \/ Read(b)'
      <4>1. SUFFICES ASSUME NEW i \in DOMAIN queue["spmngr"], queue["spmngr"][i].block = b, i # 1
                     PROVE  Posted(b)'
        BY <3>3 DEF Posted
      <4>2. i - 1 \in DOMAIN queue'["spmngr"] /\ i \in Int
        BY <2>1, <2>2, <4>1
      <4>3. queue'["spmngr"][i - 1] = queue["spmngr"][i]
        BY <2>1, <2>2, <4>2
      <4> QED
        BY <4>1, <4>2, <4>3 DEF Posted
    <3>9. Read(b)' => Posted(b)
      BY <2>1, <3>3 DEF Posted
    <3> QED
      BY <1>2, <2>3, <3>1, <3>2, <3>4, <3>6, <3>7, <3>8, <3>9 DEF Placed, pool
  <2> QED
    BY <1>1, <1>2, <2>4 DEF BlockInv, Placed, pool
<1> QED
  BY <1>3, <1>4

(* Whoever has an event has a pool it came from.                           *)
LEMMA CollectReady ==
  ASSUME Inv, NEW b \in Blocks, current["spmngr"].block = b
  PROVE  "pools" \in ready
<1>1. BootInv /\ QuietInv /\ TaskInv /\ "spmngr" \in AOs
  BY DEF Inv, RuntimeInv, AOs
<1>2. current["spmngr"] # None
  BY NoneIsNoEvent, RuntimeAssumption
<1>3. "hsm" \in ready
  BY <1>1, <1>2 DEF QuietInv, TaskInv
<1> QED
  BY <1>1, <1>3 DEF BootInv

(* A collected block is read by nobody else and goes back to its pool.     *)
LEMMA BlocksCollected ==
  ASSUME Inv, NEW a \in AOs, Collect(a), "pools" \in ready' <=> "pools" \in ready
  PROVE  BlockInv'
<1>1. /\ BlockInv /\ TaskInv /\ TypeOK /\ "spmngr" \in AOs
      /\ None.block = NoBlock /\ NoBlock \notin Blocks
  BY NoneIsNoEvent, RuntimeAssumption DEF Inv, RuntimeInv, AOs
<1>2. UNCHANGED <<queue, held>> /\ current' = [current EXCEPT ![a] = None]
  BY DEF Collect
<1>3. CASE current[a].block = NoBlock
  <2>1. free' = free /\ ref' = ref
    BY <1>3 DEF Collect, pool
  <2>2. \A b \in Blocks : (Read(b)' <=> Read(b)) /\ (Held(b)' <=> Held(b)) /\ (Posted(b)' <=> Posted(b))
    BY <1>1, <1>2, <1>3 DEF Read, Held, Posted, TypeOK
  <2>3. ASSUME NEW b \in Blocks
        PROVE  Placed(b)'
    <3>1. Placed(b)
      BY <1>1, PlacedIsBlockInv
    <3> QED
      BY <1>2, <2>1, <2>2, <3>1 DEF Placed
  <2> QED
    BY <1>1, <2>1, <2>3 DEF BlockInv, Placed
<1>4. CASE current[a].block # NoBlock
  <2>1. a = "spmngr"
    BY <1>1, <1>4 DEF TaskInv, AOs
  <2>2. PICK c \in Blocks : c = current["spmngr"].block
    BY <1>1, <1>4, <2>1, NoneIsNoEvent DEF TypeOK
  <2>3. ~(ref[c] > 1)
    <3>1. ref \in [Blocks -> 0..1]
      BY <1>1 DEF TypeOK
    <3>2. ref[c] \in 0..1
      BY <3>1
    <3> QED
      BY <3>2
  <2>4. free' = free \cup {c} /\ ref' = ref
    BY <1>4, <2>1, <2>2, <2>3 DEF Collect
  <2>5. current'["spmngr"] = None
    BY <1>1, <1>2, <2>1 DEF TypeOK
  <2>6. \A b \in Blocks : ~Read(b)' /\ (Read(b) <=> b = c) /\ (Held(b)' <=> Held(b)) /\ (Posted(b)' <=> Posted(b))
    BY <1>1, <1>2, <2>2, <2>5 DEF Read, Held, Posted
  <2>7. ASSUME NEW b \in Blocks
        PROVE  Placed(b)'
    <3>1. Placed(b)
      BY <1>1, PlacedIsBlockInv
    <3> QED
      BY <1>2, <2>4, <2>6, <3>1 DEF Placed
  <2>8. "pools" \in ready
    BY <2>2, CollectReady
  <2> QED
    BY <1>1, <2>4, <2>7, <2>8 DEF BlockInv, Placed
<1> QED
  BY <1>3, <1>4

(* The pools are filled while nobody has an event.                         *)
LEMMA BlocksInitialised ==
  ASSUME Inv, SstInit
  PROVE  BlockInv'
<1>1. /\ BootInv /\ QuietInv /\ TaskInv /\ "spmngr" \in AOs
      /\ None.block = NoBlock /\ NoBlock \notin Blocks
  BY NoneIsNoEvent, RuntimeAssumption DEF Inv, RuntimeInv, AOs
<1>2. /\ UNCHANGED <<queue, current, held>> /\ free' = Blocks /\ "pools" \in ready'
      /\ "hsm" \notin ready
  BY <1>1 DEF SstInit, Advance, BootInv, task
<1>3. \A b \in Blocks : ~Held(b)' /\ ~Posted(b)' /\ ~Read(b)'
  <2>1. queue["spmngr"] = <<>> /\ current["spmngr"] = None /\ \A p \in Posters : held[p] = None
    BY <1>1, <1>2 DEF QuietInv, TaskInv
  <2> QED
    BY <1>1, <1>2, <2>1 DEF Held, Posted, Read
<1>4. queue'["spmngr"] = <<>>
  BY <1>1, <1>2 DEF QuietInv
<1> QED
  BY <1>2, <1>3, <1>4 DEF BlockInv

(* Every step moves a block from one place to another, or leaves it.       *)
LEMMA BlockStep ==
  ASSUME Inv, Step
  PROVE  BlockInv'
<1>1. /\ BlockInv /\ TaskInv /\ TypeOK /\ "spmngr" \in AOs /\ "ui" \in Posters /\ "sp" \in Posters
  BY DEF Inv, RuntimeInv, AOs, Posters
<1>2. SstInit \/ ("pools" \in ready' <=> "pools" \in ready)
  BY PoolsReady
<1>3. CASE SstInit
  BY <1>3, BlocksInitialised
<1>4. CASE ~SstInit /\ (Still \/ Dispatches)
  <2>1. UNCHANGED <<pool, held, queue, current>>
    BY <1>4 DEF Still, Dispatches, task
  <2> QED
    BY <1>1, <1>2, <1>4, <2>1, BlocksStill
<1>5. CASE ~SstInit /\ PostsStatic
  <2>1. PICK a \in AOs, e \in Events : Put(a, e) /\ held' = held /\ e.block = NoBlock
    BY <1>5, StaticEvents DEF PostsStatic
  <2>2. CASE a = "spmngr"
    BY <1>2, <1>5, <2>1, <2>2, BlocksPosted
  <2>3. CASE a # "spmngr"
    <3>1. UNCHANGED <<pool, current>> /\ queue'["spmngr"] = queue["spmngr"]
      BY <1>1, <2>1, <2>3 DEF Put, pool, TypeOK
    <3> QED
      BY <1>1, <1>2, <1>5, <2>1, <3>1, BlocksStill
  <2> QED
    BY <2>2, <2>3
<1>6. CASE ~SstInit /\ PostsHeld
  <2>1. PICK p \in Posters : /\ held[p] # None /\ Put("spmngr", held[p])
                             /\ held' = [held EXCEPT ![p] = None]
    BY <1>6 DEF PostsHeld
  <2>2. held[p] \in Events
    BY <1>1, <2>1 DEF TypeOK
  <2> QED
    BY <1>2, <1>6, <2>1, <2>2, BlocksPosted
<1>7. CASE ~SstInit /\ AllocatesSome
  <2>1. CASE \E sig \in BigSigs, b \in BigBlocks : Allocates("ui", sig, b)
    <3>1. PICK sig \in BigSigs, b \in BigBlocks : Allocates("ui", sig, b)
      BY <2>1
    <3>2. b \in Blocks
      BY DEF Blocks
    <3> QED
      BY <1>1, <1>2, <1>7, <3>1, <3>2, BlocksAllocated
  <2>2. CASE \E sig \in MidSigs, b \in MidBlocks : Allocates("sp", sig, b)
    <3>1. PICK sig \in MidSigs, b \in MidBlocks : Allocates("sp", sig, b)
      BY <2>2
    <3>2. b \in Blocks
      BY DEF Blocks
    <3> QED
      BY <1>1, <1>2, <1>7, <3>1, <3>2, BlocksAllocated
  <2> QED
    BY <1>7, <2>1, <2>2 DEF AllocatesSome
<1>8. ASSUME NEW a \in AOs, Ao(a), ~SstInit
      PROVE  BlockInv'
  <2>1. CASE Pend(a)
    <3>1. UNCHANGED <<pool, held, queue, current>>
      BY <2>1 DEF Pend
    <3> QED
      BY <1>1, <1>2, <1>8, <3>1, BlocksStill
  <2>2. CASE Take(a)
    BY <1>2, <1>8, <2>2, BlocksTaken
  <2>3. CASE Collect(a)
    BY <1>2, <1>8, <2>3, BlocksCollected
  <2> QED
    BY <1>8, <2>1, <2>2, <2>3 DEF Ao
<1> QED
  BY StepKinds, <1>3, <1>4, <1>5, <1>6, <1>7, <1>8 DEF Kinds

-----------------------------------------------------------------------------
\* The theorems

(* The invariant holds before anything has started.                        *)
LEMMA InitInv ==
  ASSUME Init
  PROVE  Inv
<1>1. /\ None.block = NoBlock /\ NoBlock \notin Blocks /\ SpLen \in Nat /\ BlinkyLen \in Nat
      /\ Cardinality(MidBlocks) - 1 \in Nat
  <2>1. Cardinality(MidBlocks) \in Nat
    BY FS_CardinalityType, RuntimeAssumption
  <2> QED
    BY <2>1, NoneIsNoEvent, RuntimeAssumption
<1>2. \A a \in AOs : QLen(a) \in Nat
  BY <1>1 DEF QLen
<1>3. TypeOK
  <2>1. /\ \A a \in AOs : queue[a] = <<>> /\ Len(queue[a]) <= QLen(a)
        /\ queue \in [AOs -> Seq(Events)] /\ sem \in [AOs -> Nat]
    BY <1>2 DEF Init
  <2>2. /\ asked \in Seq({"open", "apply", "close", "list"}) /\ Len(asked) <= SpLen
    BY <1>1 DEF Init
  <2>3. /\ free \subseteq Blocks /\ ref \in [Blocks -> 0..1]
        /\ at \in [AOs -> {"wait", "take", "dispatch", "gc"}]
        /\ current \in [AOs -> Events \cup {None}] /\ held \in [Posters -> Events \cup {None}]
    BY DEF Init
  <2>4. /\ main = "ui" /\ sst = "none" /\ ready = {} /\ barrier = FALSE
        /\ link = FALSE /\ lit = FALSE /\ toUi = FALSE /\ listed = FALSE /\ aborted = FALSE
    BY DEF Init
  <2> QED
    BY <2>1, <2>2, <2>3, <2>4 DEF TypeOK
<1>4. BootInv /\ QuietInv
  BY DEF Init, BootInv, QuietInv
<1>5. TaskInv
  BY <1>1 DEF Init, TaskInv, AOs, Posters
<1>6. BlockInv
  BY <1>1 DEF Init, BlockInv, Held, Posted, Read, AOs
<1>7. TokensAreEvents
  BY DEF Init, TokensAreEvents
<1> QED
  BY <1>3, <1>4, <1>5, <1>6, <1>7 DEF Inv, RuntimeInv

(* The invariant is inductive.                                             *)
LEMMA NextInv ==
  ASSUME Inv, [Next]_vars
  PROVE  Inv'
<1>1. CASE Step
  BY <1>1, TypeStep, StepKinds, TokensStep, BootStep, QuietStep, TaskStep, BlockStep
     DEF Inv, RuntimeInv
<1>2. CASE UNCHANGED vars
  <2>1. UNCHANGED <<main, sst, ready, barrier, free, ref, queue, sem, at, current, held>>
        /\ UNCHANGED <<asked, link, lit, toUi, listed, aborted>>
    BY <1>2 DEF vars, boot, pool, task, rest
  <2>2. TypeOK' /\ TokensAreEvents'
    BY <2>1 DEF Inv, TypeOK, TokensAreEvents
  <2>3. BootInv' /\ QuietInv'
    BY <2>1 DEF Inv, RuntimeInv, BootInv, QuietInv
  <2>4. TaskInv' /\ BlockInv'
    BY <2>1 DEF Inv, RuntimeInv, TaskInv, BlockInv, Held, Posted, Read
  <2> QED
    BY <2>2, <2>3, <2>4 DEF Inv, RuntimeInv
<1> QED
  BY <1>1, <1>2 DEF Next, Step

(* The inductive invariant of every behaviour.                             *)
LEMMA Invariance == Spec => []Inv
BY InitInv, NextInv, PTL DEF Spec

(* Every variable keeps its type; above all no queue is ever over its      *)
(* length and no block has more than one reader (sst_port.c, qBuf and      *)
(* nFree; sst_evt_pool.c, refCtr_).                                        *)
THEOREM TypeCorrect == Spec => []TypeOK
<1>1. Inv => TypeOK
  BY DEF Inv
<1> QED
  BY <1>1, Invariance, PTL

(* The inductive invariant of start-up, tasks and blocks holds.            *)
THEOREM RuntimeInvariant == Spec => []RuntimeInv
<1>1. Inv => RuntimeInv
  BY DEF Inv
<1> QED
  BY <1>1, Invariance, PTL

(* The semaphore of an AO counts the events in its queue, so its thread    *)
(* never takes an event that is not there (sst_port.c, ao_thread).         *)
THEOREM TokensMatchEvents == Spec => []TokensAreEvents
<1>1. Inv => TokensAreEvents
  BY DEF Inv
<1> QED
  BY <1>1, Invariance, PTL

(* However the threads start, nothing is used before it is initialised     *)
(* (main.c, BSP_waitForSSTStart).                                          *)
THEOREM ReadyBeforeUse == Spec => []UsedWhenReady
<1>1. Inv => UsedWhenReady
  <2>1. SUFFICES ASSUME Inv
                 PROVE  UsedWhenReady
    OBVIOUS
  <2>2. BootInv /\ QuietInv /\ "spmngr" \in AOs
    BY <2>1 DEF Inv, RuntimeInv, AOs
  <2>3. toUi => "uiInbox" \in ready
    BY <2>2 DEF BootInv, QuietInv
  <2>4. "hsm" \in ready => {"spInbox", "pools", "blinky", "spmngr"} \subseteq ready
    BY <2>2 DEF BootInv
  <2> QED
    BY <2>2, <2>3, <2>4 DEF UsedWhenReady, QuietInv, AOs
<1> QED
  BY <1>1, Invariance, PTL

(* A block of the pools is free, being filled, posted once or read, and    *)
(* never two of these (sst_evt_pool.c, SST_Evt_new and SST_Evt_gc).        *)
THEOREM BlocksAreAccounted == Spec => []BlocksAccounted
<1>1. Inv => BlocksAccounted
  <2>1. SUFFICES ASSUME Inv, "pools" \in ready, NEW b \in Blocks
                 PROVE  /\ Cardinality({place \in DOMAIN Places(b) : Places(b)[place]}) = 1
                        /\ \A a \in AOs : \A i, j \in DOMAIN queue[a] :
                             queue[a][i].block = b /\ queue[a][j].block = b => i = j
    BY DEF BlocksAccounted
  <2>2. TaskInv /\ Placed(b) /\ NoBlock # b
    BY <2>1, PlacedIsBlockInv, RuntimeAssumption DEF Inv, RuntimeInv
  <2>3. \A i \in DOMAIN queue["blinky"] : queue["blinky"][i].block # b
    BY <2>2 DEF TaskInv
  <2>4. current["blinky"].block # b
    BY <2>2 DEF TaskInv
  <2>5. \A a \in AOs : \A i, j \in DOMAIN queue[a] :
          queue[a][i].block = b /\ queue[a][j].block = b => i = j
    BY <2>2, <2>3 DEF AOs, Placed
  <2>6. Places(b) = [free |-> b \in free, held |-> Held(b), posted |-> Posted(b), read |-> Read(b)]
    BY <2>3, <2>4 DEF Places, Held, Posted, Read, AOs
  <2> DEFINE P == {place \in DOMAIN Places(b) : Places(b)[place]}
  <2>7. /\ DOMAIN Places(b) = {"free", "held", "posted", "read"}
        /\ Places(b)["free"] = (b \in free) /\ Places(b)["held"] = Held(b)
        /\ Places(b)["posted"] = Posted(b) /\ Places(b)["read"] = Read(b)
    BY <2>6
  <2>8. P = {"free"} \/ P = {"held"} \/ P = {"posted"} \/ P = {"read"}
    <3>1. /\ P \subseteq {"free", "held", "posted", "read"}
          /\ ("free" \in P <=> b \in free)
          /\ ("held" \in P <=> Held(b))
          /\ ("posted" \in P <=> Posted(b))
          /\ ("read" \in P <=> Read(b))
      BY <2>7
    <3>2. /\ b \in free \/ Held(b) \/ Posted(b) \/ Read(b)
          /\ (b \in free => ~Held(b) /\ ~Posted(b) /\ ~Read(b))
          /\ (Held(b) => ~Posted(b) /\ ~Read(b)) /\ (Posted(b) => ~Read(b))
      BY <2>1, <2>2 DEF Placed
    <3> HIDE DEF P
    <3> QED
      BY <3>1, <3>2
  <2>9. Cardinality(P) = 1
    BY <2>8, FS_Singleton
  <2> QED
    BY <2>5, <2>9
<1> QED
  BY <1>1, Invariance, PTL

(* The pool of packets is exhausted, but for the block SpThread may still  *)
(* fill, only when SpMngr's queue is full as well (sp_mngr.c, SpMngr_qSto; *)
(* sst_port.c, midPoolSto): each used block is in the queue, but one.      *)
THEOREM PoolOutlasts == Spec => []PoolOutlastsQueue
<1>1. Inv => PoolOutlastsQueue
  <2>1. SUFFICES ASSUME Inv, "pools" \in ready, free \cap MidBlocks = {}, held["sp"] = None
                 PROVE  Len(queue["spmngr"]) = QLen("spmngr")
    BY DEF PoolOutlastsQueue, Full
  <2> DEFINE q == queue["spmngr"]
             S == MidBlocks \ {current["spmngr"].block}
             f == [b \in S |-> CHOOSE i \in DOMAIN q : q[i].block = b]
  <2>2. /\ TypeOK /\ TaskInv /\ NoBlock \notin MidBlocks /\ None.block = NoBlock
        /\ MidBlocks \cap BigBlocks = {} /\ IsFiniteSet(MidBlocks) /\ "spmngr" \in AOs
    BY <2>1, NoneIsNoEvent, RuntimeAssumption DEF Inv, RuntimeInv, AOs, Blocks
  <2>3. q \in Seq(Events) /\ Len(q) \in Nat /\ DOMAIN q = 1..Len(q)
    BY <2>2 DEF TypeOK
  <2>4. \A b \in S : \E i \in DOMAIN q : q[i].block = b
    <3>1. SUFFICES ASSUME NEW b \in S
                   PROVE  Posted(b)
      BY DEF Posted
    <3>2. b \in Blocks /\ b \notin free /\ ~Read(b)
      BY <2>1, <3>1 DEF Blocks, Read
    <3>3. ~Held(b)
      BY <2>1, <2>2, <3>1 DEF Held, Posters, TaskInv
    <3> QED
      BY <2>1, <3>2, <3>3 DEF Inv, RuntimeInv, BlockInv
  <2>5. \A b \in S : f[b] \in 1..Len(q) /\ q[f[b]].block = b
    BY <2>3, <2>4
  <2>6. f \in Injection(S, 1..Len(q))
    <3> HIDE DEF q
    <3>1. f \in [S -> 1..Len(q)]
      BY <2>5
    <3> HIDE DEF f
    <3>2. \A b, c \in S : f[b] = f[c] => b = c
      BY <2>5
    <3> QED
      BY <3>1, <3>2, Fun_IsInj
  <2>7. IsFiniteSet(1..Len(q)) /\ Cardinality(1..Len(q)) = Len(q)
    <3>1. PICK n \in Nat : n = Len(q)
      BY <2>3
    <3>2. IsFiniteSet(1..n) /\ Cardinality(1..n) = IF 1 > n THEN 0 ELSE n - 1 + 1
      BY FS_Interval
    <3> QED
      BY <3>1, <3>2
  <2>8. Cardinality(S) <= Len(q)
    BY <2>6, <2>7, FS_Injection
  <2>9. Cardinality(S) \in {Cardinality(MidBlocks), Cardinality(MidBlocks) - 1}
    BY <2>2, FS_RemoveElement
  <2>10. Len(q) <= Cardinality(MidBlocks) - 1 /\ Cardinality(MidBlocks) \in Nat
    BY <2>2, FS_CardinalityType DEF TypeOK, QLen
  <2> QED
    BY <2>3, <2>8, <2>9, <2>10 DEF QLen
<1> QED
  BY <1>1, Invariance, PTL
=============================================================================
