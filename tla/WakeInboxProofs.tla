--------------------------- MODULE WakeInboxProofs ---------------------------
(***************************************************************************)
(* Proofs about WakeInbox, for any number of posting threads, any capacity *)
(* and with or without input of the consumer's own.                        *)
(***************************************************************************)
EXTENDS WakeInbox, SequenceTheorems, TLAPS

Step == \/ \E p \in Posters : Posting(p) \/ \E x \in Events : Begin(p, x)
        \/ Consuming

(* Every post in progress keeps its form.                                  *)
LEMMA PostMoves ==
  ASSUME TypeOK, NEW p \in Posters, post[p].at # "idle",
         NEW step \in {"store", "advance", "unlock", "signal"}, Move(p, step)
  PROVE  /\ post' \in [Posters -> {Idle} \cup
                 [at : {"store", "advance", "unlock", "signal"}, evt : Events]]
         /\ post'[p].at = step /\ post'[p].evt = post[p].evt
         /\ \A q \in Posters \ {p} : post'[q] = post[q]
<1>1. post[p] \in [at : {"store", "advance", "unlock", "signal"}, evt : Events]
  BY DEF TypeOK, Idle
<1>2. [post[p] EXCEPT !.at = step]
        \in [at : {"store", "advance", "unlock", "signal"}, evt : Events]
  BY <1>1
<1>3. post' = [post EXCEPT ![p] = [post[p] EXCEPT !.at = step]]
  BY DEF Move
<1>4. post \in [Posters -> {Idle} \cup
                 [at : {"store", "advance", "unlock", "signal"}, evt : Events]]
  BY DEF TypeOK
<1> QED
  BY <1>1, <1>2, <1>3, <1>4

LEMMA TypeStep ==
  ASSUME TypeOK, InboxInv, ~aborted, Step
  PROVE  TypeOK'
<1> USE InboxAssumption DEF TypeOK, ring
<1>1. ASSUME NEW p \in Posters, NEW x \in Events, Begin(p, x)
      PROVE  TypeOK'
  <2>1. [at |-> "store", evt |-> x]
          \in [at : {"store", "advance", "unlock", "signal"}, evt : Events]
    OBVIOUS
  <2>2. p \in Producers \cup {Consumer, NoThread}
    BY DEF Posters
  <2> QED
    BY <1>1, <2>1, <2>2 DEF Begin
<1>2. ASSUME NEW p \in Posters, Store(p)
      PROVE  TypeOK'
  <2>1. post[p].evt \in Events
    BY <1>2 DEF Store, Idle
  <2> QED
    BY <1>2, <2>1, PostMoves DEF Store
<1>3. ASSUME NEW p \in Posters, Overflow(p)
      PROVE  TypeOK'
  BY <1>3 DEF Overflow
<1>4. ASSUME NEW p \in Posters, Advance(p)
      PROVE  TypeOK'
  <2>1. used < QLen
    BY <1>4 DEF Advance, InboxInv, RingInv
  <2> QED
    BY <1>4, <2>1, PostMoves DEF Advance, Before
<1>5. ASSUME NEW p \in Posters, Unlock(p)
      PROVE  TypeOK'
  <2>1. post[p] \in [at : {"store", "advance", "unlock", "signal"}, evt : Events]
    BY <1>5 DEF Unlock, Idle
  <2>2. [post[p] EXCEPT !.at = "signal"]
          \in [at : {"store", "advance", "unlock", "signal"}, evt : Events]
    BY <2>1
  <2> QED
    BY <1>5, <2>2 DEF Unlock
<1>6. ASSUME NEW p \in Posters, Signal(p)
      PROVE  TypeOK'
  BY <1>6 DEF Signal
<1>7. CASE Take
  <2>1. CASE used > 0
    BY <1>7, <2>1 DEF Take, Before
  <2>2. CASE ~(used > 0)
    BY <1>7, <2>2 DEF Take
  <2> QED
    BY <2>1, <2>2
<1>8. CASE Woken \/ Consume \/ LockInbox \/ UnlockInbox \/ Sleep \/ DrainInput
  BY <1>8 DEF Woken, Consume, LockInbox, UnlockInbox, Sleep, DrainInput
<1> QED
  BY <1>1, <1>2, <1>3, <1>4, <1>5, <1>6, <1>7, <1>8 DEF Step, Posting, Consuming

-----------------------------------------------------------------------------
(* The mutex is held by the one thread that is between lock and unlock.    *)

LEMMA HolderStep ==
  ASSUME TypeOK, Holder, Step
  PROVE  Holder'
<1> USE InboxAssumption DEF TypeOK, Holder
<1>1. ASSUME NEW p \in Posters, NEW x \in Events, Begin(p, x)
      PROVE  Holder'
  <2>1. p # NoThread
    BY DEF Posters
  <2>2. post'[p].at = "store" /\ \A q \in Posters \ {p} : post'[q] = post[q]
    BY <1>1 DEF Begin
  <2>3. at' \notin {"take", "unlock"} /\ (p = Consumer => at' = "input")
    BY <1>1, <2>1 DEF Begin
  <2>4. mutex' = p /\ mutex = NoThread /\ NoThread \notin Posters
    BY <1>1 DEF Begin, Posters
  <2>5. p = Consumer => OwnInput
    BY DEF Posters
  <2>6. at \notin {"take", "unlock"}
    BY <2>4
  <2>7. at' = "input" => OwnInput
    BY <1>1, <2>5 DEF Begin
  <2>8. \A q \in Posters : post'[q].at \in {"store", "advance", "unlock"}
          <=> mutex' = q /\ at' \notin {"take", "unlock"}
    BY <2>2, <2>3, <2>4, <2>6
  <2> QED
    BY <2>3, <2>4, <2>7, <2>8
<1>2. ASSUME NEW p \in Posters, Store(p) \/ Advance(p)
      PROVE  Holder'
  <2>1. post'[p].at \in {"advance", "unlock"}
          /\ \A q \in Posters \ {p} : post'[q] = post[q]
    BY <1>2, PostMoves DEF Store, Advance
  <2> QED
    BY <1>2, <2>1 DEF Store, Advance
<1>3. ASSUME NEW p \in Posters, Overflow(p)
      PROVE  Holder'
  BY <1>3 DEF Overflow
<1>4. ASSUME NEW p \in Posters, Unlock(p)
      PROVE  Holder'
  <2>1. post'[p].at \in {"idle", "signal"}
          /\ \A q \in Posters \ {p} : post'[q] = post[q]
    BY <1>4 DEF Unlock, Idle
  <2>2. mutex = p /\ at \notin {"take", "unlock"} /\ p # NoThread
    BY <1>4 DEF Unlock, Posters
  <2> QED
    BY <1>4, <2>1, <2>2 DEF Unlock, Posters
<1>5. ASSUME NEW p \in Posters, Signal(p)
      PROVE  Holder'
  <2>1. post'[p].at = "idle" /\ \A q \in Posters \ {p} : post'[q] = post[q]
    BY <1>5 DEF Signal, Idle
  <2> QED
    BY <1>5, <2>1 DEF Signal
<1>6. CASE LockInbox
  BY <1>6 DEF LockInbox, Posters
<1>7. CASE UnlockInbox
  BY <1>7 DEF UnlockInbox, Posters
<1>8. CASE Take
  BY <1>8 DEF Take
<1>9. CASE Woken \/ Consume \/ Sleep
  BY <1>9 DEF Woken, Consume, Sleep
<1>10. CASE DrainInput
  BY <1>10 DEF DrainInput, Idle, Posters
<1> QED
  BY <1>1, <1>2, <1>3, <1>4, <1>5, <1>6, <1>7, <1>8, <1>9, <1>10
     DEF Step, Posting, Consuming

-----------------------------------------------------------------------------
(* The ring.                                                               *)

LEMMA SlotRange ==
  ASSUME NEW t \in 0..(QLen - 1), NEW i \in 1..(QLen + 1)
  PROVE  Slot(t, i) \in 0..(QLen - 1)
  BY InboxAssumption DEF Slot

LEMMA SlotsDiffer ==
  ASSUME NEW t \in 0..(QLen - 1), NEW i \in 1..QLen, NEW j \in 1..QLen, i # j
  PROVE  Slot(t, i) # Slot(t, j)
  BY InboxAssumption DEF Slot

(* Going one slot down is going one event on.                              *)
LEMMA NextSlot ==
  ASSUME NEW t \in 0..(QLen - 1), NEW i \in 1..QLen
  PROVE  Before(Slot(t, i)) = Slot(t, i + 1) /\ Slot(Before(t), i) = Slot(t, i + 1)
  BY InboxAssumption DEF Slot, Before

(* Only the thread with the mutex is between its store and its unlock.     *)
LEMMA OneAdvances ==
  ASSUME Holder, NEW p \in Posters, NEW q \in Posters,
         post[p].at \in {"store", "advance", "unlock"},
         post[q].at \in {"store", "advance", "unlock"}
  PROVE  p = q
  BY DEF Holder

(* While the consumer dequeues, nobody is posting.                         *)
LEMMA NobodyPosts ==
  ASSUME Holder, at = "take", NEW p \in Posters
  PROVE  post[p].at \notin {"store", "advance", "unlock"}
  BY DEF Holder

LEMMA RingStep ==
  ASSUME TypeOK, Holder, RingInv, Step
  PROVE  RingInv'
<1> USE InboxAssumption
<1>1. ASSUME NEW p \in Posters, NEW x \in Events, Begin(p, x)
      PROVE  RingInv'
  <2>1. post'[p].at = "store" /\ \A q \in Posters \ {p} : post'[q] = post[q]
    BY <1>1 DEF Begin, TypeOK
  <2> QED
    BY <1>1, <2>1 DEF Begin, RingInv, ring
<1>2. ASSUME NEW p \in Posters, Store(p)
      PROVE  RingInv'
  <2>1. /\ post'[p].at = "advance" /\ post'[p].evt = post[p].evt
        /\ \A q \in Posters \ {p} : post'[q] = post[q]
    BY <1>2, PostMoves DEF Store
  <2>2. \A q \in Posters \ {p} : post'[q].at # "advance"
    BY <1>2, <2>1, OneAdvances DEF Store
  <2>3. used < QLen /\ head = Slot(tail, used + 1) /\ used \in Nat
    BY <1>2 DEF Store, RingInv, TypeOK
  <2>4. buf'[head] = post[p].evt
    BY <1>2 DEF Store, TypeOK
  <2>5. \A i \in 1..used : buf'[Slot(tail, i)] = buf[Slot(tail, i)]
    <3> TAKE i \in 1..used
    <3>1. i \in 1..QLen /\ used + 1 \in 1..QLen /\ i # used + 1
      BY <2>3 DEF TypeOK
    <3>2. Slot(tail, i) # head
      BY <2>3, <3>1, SlotsDiffer DEF TypeOK
    <3>3. Slot(tail, i) \in 0..(QLen - 1)
      BY <3>1, SlotRange DEF TypeOK
    <3> QED
      BY <1>2, <3>2, <3>3 DEF Store, TypeOK
  <2>6. head' = head /\ used' = used /\ tail' = tail
    BY <1>2 DEF Store
  <2> QED
    BY <2>1, <2>2, <2>3, <2>4, <2>5, <2>6, <1>2 DEF RingInv, Store
<1>3. ASSUME NEW p \in Posters, Advance(p)
      PROVE  RingInv'
  <2>1. /\ post'[p].at = "unlock"
        /\ \A q \in Posters \ {p} : post'[q] = post[q]
    BY <1>3, PostMoves DEF Advance
  <2>2. \A q \in Posters : post'[q].at # "advance"
    BY <1>3, <2>1, OneAdvances DEF Advance
  <2>3. /\ used < QLen /\ head = Slot(tail, used + 1) /\ buf[head] \in Events
        /\ used \in Nat
    BY <1>3 DEF Advance, RingInv, TypeOK, Idle
  <2>4. head' = Slot(tail, used + 2)
    BY <1>3, <2>3, NextSlot DEF Advance, TypeOK
  <2>5. \A i \in 1..(used + 1) : buf[Slot(tail, i)] \in Events
    BY <2>3 DEF RingInv
  <2> QED
    BY <1>3, <2>2, <2>3, <2>4, <2>5 DEF RingInv, Advance
<1>4. ASSUME NEW p \in Posters, Overflow(p)
      PROVE  RingInv'
  BY <1>4 DEF Overflow, RingInv, ring
<1>5. ASSUME NEW p \in Posters, Unlock(p) \/ Signal(p)
      PROVE  RingInv'
  <2>1. post'[p].at \in {"idle", "signal"}
          /\ \A q \in Posters \ {p} : post'[q] = post[q]
    BY <1>5 DEF Unlock, Signal, Idle, TypeOK
  <2> QED
    BY <1>5, <2>1 DEF Unlock, Signal, RingInv, ring
<1>6. CASE Take
  <2>1. \A q \in Posters : post'[q].at # "advance"
    BY <1>6, NobodyPosts DEF Take
  <2>2. CASE used > 0
    <3>1. \A i \in 1..QLen : Slot(tail', i) = Slot(tail, i + 1)
      BY <1>6, <2>2, NextSlot DEF Take, TypeOK
    <3>2. used' = used - 1 /\ used \in 1..QLen
      BY <1>6, <2>2 DEF Take, TypeOK
    <3>3. head' = Slot(tail', used' + 1)
      BY <1>6, <3>1, <3>2 DEF Take, RingInv
    <3>4. \A i \in 1..used' : buf'[Slot(tail', i)] \in Events
      BY <1>6, <3>1, <3>2 DEF Take, RingInv
    <3> QED
      BY <2>1, <3>3, <3>4 DEF RingInv
  <2>3. CASE ~(used > 0)
    BY <1>6, <2>1, <2>3 DEF Take, RingInv
  <2> QED
    BY <2>2, <2>3
<1>7. CASE Woken \/ Consume \/ LockInbox \/ UnlockInbox \/ Sleep \/ DrainInput
  BY <1>7 DEF Woken, Consume, LockInbox, UnlockInbox, Sleep, DrainInput,
              RingInv, ring
<1> QED
  BY <1>1, <1>2, <1>3, <1>4, <1>5, <1>6, <1>7 DEF Step, Posting, Consuming

-----------------------------------------------------------------------------
(* The wake: a drained inbox that holds an event has its wake coming.      *)

LEMMA DrainedStep ==
  ASSUME TypeOK, Holder, DrainedInv, Step
  PROVE  DrainedInv'
<1> USE InboxAssumption
<1>1. ASSUME NEW p \in Posters, NEW x \in Events, Begin(p, x)
      PROVE  DrainedInv'
  <2>1. \A q \in Posters \ {p} : post'[q] = post[q]
    BY <1>1 DEF Begin, TypeOK
  <2>2. post[p].at = "idle"
    BY <1>1 DEF Begin, Idle
  <2>3. p = Consumer => at' = "input"
    BY <1>1 DEF Begin
  <2>4. p # Consumer => at' = at
    BY <1>1 DEF Begin
  <2> QED
    BY <1>1, <2>1, <2>2, <2>3, <2>4 DEF Begin, DrainedInv, Posters, ring
<1>2. ASSUME NEW p \in Posters, Store(p)
      PROVE  DrainedInv'
  <2>1. /\ post'[p].at = "advance" /\ post[p].at = "store"
        /\ \A q \in Posters \ {p} : post'[q] = post[q]
    BY <1>2, PostMoves DEF Store
  <2> QED
    BY <1>2, <2>1 DEF Store, DrainedInv, Posters
<1>3. ASSUME NEW p \in Posters, Advance(p)
      PROVE  DrainedInv'
  <2>1. post'[p].at = "unlock"
    BY <1>3, PostMoves DEF Advance
  <2>2. CASE p \in Producers
    BY <2>1, <2>2 DEF DrainedInv
  <2>3. CASE p = Consumer
    BY <1>3, <2>3 DEF Advance, Holder, DrainedInv
  <2> QED
    BY <2>2, <2>3 DEF Posters
<1>4. ASSUME NEW p \in Posters, Overflow(p)
      PROVE  DrainedInv'
  BY <1>4 DEF Overflow, DrainedInv, ring
<1>5. ASSUME NEW p \in Posters, Unlock(p)
      PROVE  DrainedInv'
  <2>1. \A q \in Posters \ {p} : post'[q] = post[q]
    BY <1>5 DEF Unlock, TypeOK
  <2>2. CASE p \in Producers
    <3>1. post'[p].at = "signal"
      BY <1>5, <2>2 DEF Unlock, TypeOK, Idle
    <3> QED
      BY <2>2, <3>1 DEF DrainedInv
  <2>3. CASE p = Consumer
    BY <1>5, <2>3 DEF Unlock, Holder, DrainedInv
  <2> QED
    BY <2>2, <2>3 DEF Posters
<1>6. ASSUME NEW p \in Posters, Signal(p)
      PROVE  DrainedInv'
  BY <1>6 DEF Signal, DrainedInv
<1>7. CASE Take
  BY <1>7 DEF Take, DrainedInv, TypeOK
<1>8. CASE UnlockInbox
  BY <1>8 DEF UnlockInbox, DrainedInv, ring
<1>9. CASE Woken \/ Consume \/ LockInbox \/ Sleep \/ DrainInput
  BY <1>9 DEF Woken, Consume, LockInbox, Sleep, DrainInput, DrainedInv, ring
<1> QED
  BY <1>1, <1>2, <1>3, <1>4, <1>5, <1>6, <1>7, <1>8, <1>9
     DEF Step, Posting, Consuming

-----------------------------------------------------------------------------

LEMMA InitHolds ==
  Init => TypeOK /\ InboxInv
<1> SUFFICES ASSUME Init
             PROVE  TypeOK /\ InboxInv
  OBVIOUS
<1> USE InboxAssumption DEF Init
<1>1. TypeOK
  <2>1. 0 \in 0..(QLen - 1) /\ 0 \in 0..QLen
    OBVIOUS
  <2>2. buf \in [0..(QLen - 1) -> Events \cup {NoEvent}]
    OBVIOUS
  <2>3. post \in [Posters -> {Idle} \cup
                 [at : {"store", "advance", "unlock", "signal"}, evt : Events]]
    OBVIOUS
  <2> QED
    BY <2>1, <2>2, <2>3 DEF TypeOK
<1>2. Holder
  BY DEF Holder, Posters, Idle
<1>3. RingInv
  BY DEF RingInv, Slot, Idle
<1>4. DrainedInv
  BY DEF DrainedInv
<1> QED
  BY <1>1, <1>2, <1>3, <1>4 DEF InboxInv

LEMMA NextHolds ==
  TypeOK /\ InboxInv /\ [Next]_vars => TypeOK' /\ InboxInv'
<1> SUFFICES ASSUME TypeOK, InboxInv, [Next]_vars
             PROVE  TypeOK' /\ InboxInv'
  OBVIOUS
<1>1. CASE ~aborted /\ Step
  <2>1. TypeOK'
    BY <1>1, TypeStep
  <2>2. Holder'
    BY <1>1, HolderStep DEF InboxInv
  <2>3. RingInv' /\ DrainedInv'
    BY <1>1, RingStep, DrainedStep DEF InboxInv
  <2> QED
    BY <2>1, <2>2, <2>3 DEF InboxInv
<1>2. CASE UNCHANGED vars
  BY <1>2 DEF vars, ring, TypeOK, InboxInv, Holder, RingInv, DrainedInv
<1> QED
  BY <1>1, <1>2 DEF Next, Step

(* Type correctness of the inbox: indices stay in the ring, the count      *)
(* within its capacity, every post in progress carries an event.           *)
THEOREM TypeCorrect == Spec => []TypeOK
<1>1. Spec => [](TypeOK /\ InboxInv)
  BY InitHolds, NextHolds, PTL DEF Spec
<1> QED
  BY <1>1, PTL

(* The mutex has one holder, the ring holds the accepted events between    *)
(* tail and head, and a drained inbox with an event has its wake coming.   *)
THEOREM InboxInvariant == Spec => []InboxInv
<1>1. Spec => [](TypeOK /\ InboxInv)
  BY InitHolds, NextHolds, PTL DEF Spec
<1> QED
  BY <1>1, PTL

(* No thread sleeps on an event in its inbox (UI_run, SpThread_run_).      *)
THEOREM NeverSleepsOnEvents == Spec => []NoLostWake
<1>1. InboxInv => NoLostWake
  BY DEF InboxInv, DrainedInv, NoLostWake
<1> QED
  BY <1>1, InboxInvariant, PTL

-----------------------------------------------------------------------------
(* The ring under its mutex is a FIFO channel.                             *)

LEMMA ContentsSeq ==
  ASSUME TypeOK, RingInv
  PROVE  Contents \in Seq(Events) /\ Len(Contents) = used
<1>1. used \in Nat
  BY DEF TypeOK
<1>2. Contents \in [1..used -> Events]
  BY DEF Contents, RingInv
<1> QED
  BY <1>1, <1>2

LEMMA AdvanceAppends ==
  ASSUME TypeOK, RingInv, NEW p \in Posters, Advance(p)
  PROVE  Channel!Post(post[p].evt) \/ aborted
<1>1. /\ used < QLen /\ buf[Slot(tail, used + 1)] = post[p].evt
      /\ used \in Nat
  BY DEF Advance, RingInv, TypeOK
<1>2. Contents' = [i \in 1..(used + 1) |-> buf[Slot(tail, i)]]
  BY DEF Advance, Contents
<1>3. Contents' = Append(Contents, post[p].evt)
  <2>1. post[p].evt \in Events
    BY DEF Advance, TypeOK, Idle
  <2>2. \A i \in 1..used : Contents[i] = buf[Slot(tail, i)]
    BY DEF Contents
  <2>3. Append(Contents, post[p].evt) \in Seq(Events)
          /\ Len(Append(Contents, post[p].evt)) = used + 1
    BY <2>1, ContentsSeq
  <2>4. \A i \in 1..(used + 1) :
          Append(Contents, post[p].evt)[i] = buf[Slot(tail, i)]
    BY <1>1, <2>1, <2>2, ContentsSeq
  <2> QED
    BY <1>1, <1>2, <2>3, <2>4
<1>4. Len(Contents) < QLen /\ e' = e /\ aborted' = aborted
  BY <1>1, ContentsSeq DEF Advance
<1> QED
  BY <1>3, <1>4, InboxAssumption DEF Channel!Post, TypeOK

LEMMA TakeTakes ==
  ASSUME TypeOK, RingInv, Take, used > 0
  PROVE  Channel!TakeOldest \/ aborted
<1>1. used \in 1..QLen /\ used' = used - 1 /\ tail' = Before(tail)
      /\ buf' = buf /\ e' = buf[tail] /\ aborted' = aborted
  BY DEF Take, TypeOK
<1>2. Slot(tail, 1) = tail
  BY InboxAssumption DEF Slot, TypeOK
<1>3. Contents # <<>> /\ Head(Contents) = buf[tail]
  <2>1. Contents[1] = buf[tail]
    BY <1>1, <1>2 DEF Contents
  <2> QED
    BY <1>1, <2>1, ContentsSeq
<1>4. Contents' = Tail(Contents)
  <2>1. \A i \in 1..(used - 1) : Slot(tail', i) = Slot(tail, i + 1)
    BY <1>1, NextSlot, InboxAssumption DEF TypeOK
  <2>2. Contents' = [i \in 1..(used - 1) |-> buf[Slot(tail', i)]]
    BY <1>1 DEF Contents
  <2>3. \A i \in 1..(used - 1) : buf[Slot(tail', i)] = Contents[i + 1]
    BY <1>1, <2>1 DEF Contents
  <2>4. \A i \in 1..(used - 1) : Contents[i + 1] \in Events
    BY <1>1, ContentsSeq
  <2>5. Contents' \in Seq(Events) /\ Len(Contents') = used - 1
    <3>1. Contents' \in [1..(used - 1) -> Events]
      BY <2>2, <2>3, <2>4
    <3> QED
      BY <1>1, <3>1
  <2>6. /\ Tail(Contents) \in Seq(Events) /\ Len(Tail(Contents)) = used - 1
        /\ \A i \in 1..(used - 1) : Tail(Contents)[i] = Contents[i + 1]
    BY <1>1, <1>3, ContentsSeq, HeadTailProperties
  <2>7. \A i \in 1..Len(Contents') : Contents'[i] = Tail(Contents)[i]
    BY <2>2, <2>3, <2>5, <2>6
  <2> QED
    BY <2>5, <2>6, <2>7, SeqEqual
<1> QED
  BY <1>1, <1>3, <1>4 DEF Channel!TakeOldest, TypeOK

LEMMA StoreHidden ==
  ASSUME TypeOK, RingInv, NEW p \in Posters, Store(p)
  PROVE  Contents' = Contents
<1>1. used < QLen /\ head = Slot(tail, used + 1) /\ used \in Nat
  BY DEF Store, RingInv, TypeOK
<1>2. \A i \in 1..used : buf'[Slot(tail, i)] = buf[Slot(tail, i)]
  <2> TAKE i \in 1..used
  <2>1. i \in 1..QLen /\ used + 1 \in 1..QLen /\ i # used + 1
    BY <1>1, InboxAssumption DEF TypeOK
  <2>2. Slot(tail, i) # head
    BY <1>1, <2>1, SlotsDiffer DEF TypeOK
  <2>3. Slot(tail, i) \in 0..(QLen - 1)
    BY <2>1, SlotRange, InboxAssumption DEF TypeOK
  <2> QED
    BY <2>2, <2>3 DEF Store, TypeOK
<1>3. Contents' = [i \in 1..used |-> buf'[Slot(tail, i)]]
  BY DEF Store, Contents
<1> QED
  BY <1>2, <1>3 DEF Contents

LEMMA StepIsChannelStep ==
  ASSUME TypeOK, InboxInv, ~aborted, Step
  PROVE  [Channel!Next]_(Channel!channel)
<1>0. RingInv
  BY DEF InboxInv
<1> USE DEF Channel!channel
<1>1. ASSUME NEW p \in Posters, NEW x \in Events, Begin(p, x)
      PROVE  UNCHANGED <<Contents, e, aborted>>
  BY <1>1 DEF Begin, Contents, ring
<1>2. ASSUME NEW p \in Posters, Store(p)
      PROVE  UNCHANGED <<Contents, e, aborted>>
  BY <1>0, <1>2, StoreHidden DEF Store
<1>3. ASSUME NEW p \in Posters, Advance(p)
      PROVE  Channel!Next
  <2>1. post[p].evt \in Events
    BY <1>3 DEF Advance, TypeOK, Idle
  <2> QED
    BY <1>0, <1>3, <2>1, AdvanceAppends DEF Channel!Next
<1>4. ASSUME NEW p \in Posters, Overflow(p)
      PROVE  Channel!Next
  <2>1. used = QLen
    BY <1>4, InboxAssumption DEF Overflow, TypeOK
  <2>2. UNCHANGED <<Contents, e>> /\ aborted' = TRUE
    BY <1>4 DEF Overflow, Contents, ring
  <2> QED
    BY <1>0, <2>1, <2>2, ContentsSeq DEF Channel!Next, Channel!Break
<1>5. ASSUME NEW p \in Posters, Unlock(p) \/ Signal(p)
      PROVE  UNCHANGED <<Contents, e, aborted>>
  BY <1>5 DEF Unlock, Signal, Contents, ring
<1>6. CASE Take
  <2>1. CASE used > 0
    BY <1>0, <1>6, <2>1, TakeTakes DEF Channel!Next
  <2>2. CASE ~(used > 0)
    BY <1>6, <2>2 DEF Take, Contents
  <2> QED
    BY <2>1, <2>2
<1>7. CASE Woken \/ Consume \/ LockInbox \/ UnlockInbox \/ Sleep \/ DrainInput
  BY <1>7 DEF Woken, Consume, LockInbox, UnlockInbox, Sleep, DrainInput,
              Contents, ring
<1> QED
  BY <1>1, <1>2, <1>3, <1>4, <1>5, <1>6, <1>7 DEF Step, Posting, Consuming

(* The inbox implements the channel (its safety part): it starts empty and *)
(* every step appends one event, takes the oldest, breaks, or stutters.    *)
THEOREM InboxIsChannel ==
  Spec => Channel!Init /\ [][Channel!Next]_(Channel!channel)
<1>1. Init => Channel!Init
  BY InboxAssumption DEF Init, Channel!Init, Contents
<1>2. TypeOK /\ InboxInv /\ [Next]_vars => [Channel!Next]_(Channel!channel)
  <2> SUFFICES ASSUME TypeOK, InboxInv, [Next]_vars
               PROVE  [Channel!Next]_(Channel!channel)
    OBVIOUS
  <2>1. CASE ~aborted /\ Step
    BY <2>1, StepIsChannelStep
  <2>2. CASE UNCHANGED vars
    BY <2>2 DEF vars, ring, Channel!channel, Contents
  <2> QED
    BY <2>1, <2>2 DEF Next, Step
<1> QED
  BY <1>1, <1>2, TypeCorrect, InboxInvariant, PTL DEF Spec
=============================================================================
