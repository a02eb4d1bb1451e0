-------------------------- MODULE CatalogLinkProofs --------------------------
(***************************************************************************)
(* Proofs about CatalogLink, for any names, any number of buffers and any  *)
(* bounds: the lists SM_UI lends, frees and replaces, and what the events  *)
(* on their way from SpMngr make of the protocol and of the list in force. *)
(* Proofs about ProtocolCatalog, for any tree and any limits: the scan the *)
(* protocols come from, and what it puts in force.                         *)
(***************************************************************************)
EXTENDS CatalogLink, ProtocolCatalog, SequenceTheorems, FiniteSetTheorems, FunctionTheorems, TLAPS

SpEvents == [type : {"refresh"}, kind : Kind]
              \union [type : {"refreshed"}, names : (SUBSET Names) \union {None}]
              \union [type : {"load"}, name : Names] \union {[type |-> "packet"]}

UiEvents == [type : {"list"}, kind : Kind, names : SUBSET Names]
              \union [type : {"loaded"}, name : Names]
              \union [type : {"frame"}, by : Names \union {None}]
              \union {Notice, Answer}

InboxInv == spInbox \in Seq(SpEvents) /\ uiInbox \in Seq(UiEvents)

(* How many events of queue q are of a type.                               *)
OfType(q, type) == {i \in DOMAIN q : q[i].type = type}
Count(q, type) == Cardinality(OfType(q, type))

(* A load is asked for, waits for SpMngr, and its answer for SM_UI.        *)
LoadsInv ==
  /\ asked \in 0..MaxLoads /\ answered \in Nat
  /\ asked = answered + Count(uiInbox, "answer") + Count(spInbox, "load")

(* The heap holds the two lists in force, each in a buffer of its own, and *)
(* the suggestions are one of them.                                        *)
HeapInv ==
  /\ available \in [Kind -> Buffers \union {None}] /\ lent = available
  /\ DOMAIN heap = {available[k] : k \in Kind} \ {None}
  /\ \A b \in DOMAIN heap : heap[b] \subseteq Names
  /\ available["ports"] = available["protocols"] => available["ports"] = None
  /\ candidates # NoSuggestions =>
       /\ candidates.kind \in Kind
       /\ available[candidates.kind] # None
       /\ candidates.buffer = available[candidates.kind]
       /\ candidates.names = heap[candidates.buffer]

(* The name is the one that stands in the status bar when SM_UI comes to   *)
(* event i of q, if first stands there now.                                *)
Stands(q, first, i, name) ==
  /\ \A j \in 1..(i - 1) :
       /\ q[j].type = "loaded"
       /\ \A k \in (j + 1)..(i - 1) : q[k].type # "loaded"
       => name = q[j].name
  /\ (\A k \in 1..(i - 1) : q[k].type # "loaded") => name = first

(* SM_UI comes to a frame when the protocol it was formatted by stands, and*)
(* at the end SpMngr's does.                                               *)
Agree(q, first, last) ==
  /\ \A i \in 1..Len(q) : q[i].type = "frame" => Stands(q, first, i, q[i].by)
  /\ Stands(q, first, Len(q) + 1, last)

FramesInv ==
  /\ catalog \subseteq Names /\ {table, active} \subseteq Names \union {None}
  /\ Agree(uiInbox, active, table)
  /\ shown.under = shown.by

ProtocolsAt(q, i) == q[i].type = "list" /\ q[i].kind = "protocols"

(* The list SpMngr could send last is the last on its way, or in force.    *)
Newest(q, list) ==
  \A j \in 1..Len(q) :
    (ProtocolsAt(q, j) /\ \A k \in (j + 1)..Len(q) : ~ProtocolsAt(q, k)) => q[j].names = list

NoneComes(q) == \A k \in 1..Len(q) : ~ProtocolsAt(q, k)

ListInv ==
  kept # None =>
    /\ Newest(uiInbox, kept)
    /\ NoneComes(uiInbox) =>
         available["protocols"] # None /\ heap[available["protocols"]] = kept

Inv == InboxInv /\ LoadsInv /\ HeapInv /\ FramesInv /\ ListInv

-----------------------------------------------------------------------------
\* Queues

(* What posting one event, or two, makes of an inbox.                      *)
LEMMA PostIsAppend ==
  ASSUME NEW S, NEW q \in Seq(S), NEW e \in S
  PROVE  /\ q \o <<e>> = Append(q, e)
         /\ \A d \in S : q \o <<d, e>> = Append(Append(q, d), e)
BY AppendProperties, ConcatProperties

LEMMA AppendIs ==
  ASSUME NEW S, NEW q \in Seq(S), NEW e \in S
  PROVE  /\ Append(q, e) \in Seq(S) /\ Len(q) \in Nat /\ Len(Append(q, e)) = Len(q) + 1
         /\ DOMAIN q = 1..Len(q) /\ DOMAIN Append(q, e) = 1..(Len(q) + 1)
         /\ \A i \in 1..Len(q) : Append(q, e)[i] = q[i]
         /\ Append(q, e)[Len(q) + 1] = e
BY AppendProperties, LenProperties

(* What taking the oldest event leaves.                                    *)
LEMMA TailIs ==
  ASSUME NEW S, NEW q \in Seq(S), q # <<>>
  PROVE  /\ Head(q) \in S /\ Head(q) = q[1]
         /\ Tail(q) \in Seq(S) /\ Len(q) \in Nat \ {0} /\ Len(Tail(q)) = Len(q) - 1
         /\ DOMAIN q = 1..Len(q) /\ DOMAIN Tail(q) = 1..(Len(q) - 1)
         /\ \A i \in 1..(Len(q) - 1) : Tail(q)[i] = q[i + 1]
BY HeadTailProperties, LenProperties, EmptySeq

LEMMA CountEmpty == \A type : Count(<<>>, type) = 0
<1>1. \A type : OfType(<<>>, type) = {}
  BY DEF OfType
<1> QED
  BY <1>1, FS_EmptySet DEF Count

LEMMA CountType ==
  ASSUME NEW S, NEW q \in Seq(S), NEW type
  PROVE  IsFiniteSet(OfType(q, type)) /\ Count(q, type) \in Nat
<1>1. Len(q) \in Nat /\ OfType(q, type) \in SUBSET (1..Len(q))
  BY LenProperties DEF OfType
<1>2. IsFiniteSet(1..Len(q))
  BY <1>1, FS_Interval
<1> QED
  BY <1>1, <1>2, FS_Subset, FS_CardinalityType DEF Count

(* An event more is counted once, if it is of the type.                    *)
LEMMA CountAppend ==
  ASSUME NEW S, NEW q \in Seq(S), NEW e \in S, NEW type
  PROVE  Count(Append(q, e), type) = Count(q, type) + IF e.type = type THEN 1 ELSE 0
<1> DEFINE n == Len(q)
<1>1. n \in Nat /\ OfType(q, type) \subseteq 1..n /\ n + 1 \notin OfType(q, type)
  BY AppendIs DEF OfType
<1>2. CASE e.type = type
  <2>1. OfType(Append(q, e), type) = OfType(q, type) \union {n + 1}
    BY <1>2, AppendIs DEF OfType
  <2>2. IsFiniteSet(OfType(q, type)) /\ Count(q, type) \in Nat
    BY CountType
  <2>3. Cardinality(OfType(q, type) \union {n + 1}) = Cardinality(OfType(q, type)) + 1
    BY <1>1, <2>2, FS_AddElement
  <2> QED
    BY <1>2, <2>1, <2>3 DEF Count
<1>3. CASE e.type # type
  <2>1. OfType(Append(q, e), type) = OfType(q, type)
    BY <1>3, AppendIs DEF OfType
  <2> QED
    BY <1>1, <1>3, <2>1, CountType DEF Count
<1> QED
  BY <1>2, <1>3

(* One taken is counted no more.                                           *)
LEMMA CountTail ==
  ASSUME NEW S, NEW q \in Seq(S), q # <<>>, NEW type
  PROVE  Count(q, type) = Count(Tail(q), type) + IF Head(q).type = type THEN 1 ELSE 0
<1> DEFINE rest == OfType(Tail(q), type)
           moved == {i \in 2..Len(q) : q[i].type = type}
           f == [i \in rest |-> i + 1]
<1>1. f \in Bijection(rest, moved)
  <2>1. f \in [rest -> moved]
    BY TailIs DEF OfType
  <2>2. \A i, j \in rest : f[i] = f[j] => i = j
    BY TailIs DEF OfType
  <2>3. \A j \in moved : \E i \in rest : f[i] = j
    <3> SUFFICES ASSUME NEW j \in moved PROVE \E i \in rest : f[i] = j
      OBVIOUS
    <3>1. j \in 2..Len(q) /\ Len(q) \in Nat /\ q[j].type = type
      BY TailIs
    <3>2. j - 1 \in 1..(Len(q) - 1) /\ Tail(q)[j - 1] = q[j]
      BY <3>1, TailIs
    <3>3. j - 1 \in rest
      BY <3>1, <3>2, TailIs DEF OfType
    <3> QED
      BY <3>1, <3>3
  <2> HIDE DEF f, rest, moved
  <2> QED
    BY <2>1, <2>2, <2>3 DEF Bijection, Injection, Surjection, IsInjective
<1>2. IsFiniteSet(rest) /\ IsFiniteSet(moved) /\ Cardinality(moved) = Cardinality(rest)
  <2>1. IsFiniteSet(rest)
    BY TailIs, CountType
  <2>2. ExistsBijection(rest, moved)
    BY <1>1 DEF ExistsBijection
  <2> HIDE DEF rest, moved
  <2> QED
    BY <2>1, <2>2, FS_Bijection
<1>3. CASE Head(q).type = type
  <2>1. OfType(q, type) = moved \union {1} /\ 1 \notin moved
    BY <1>3, TailIs DEF OfType
  <2>2. Cardinality(moved) \in Nat
    BY <1>2, FS_CardinalityType
  <2> HIDE DEF moved, rest
  <2>3. Cardinality(OfType(q, type)) = Cardinality(moved) + 1
    BY <1>2, <2>1, FS_AddElement
  <2> QED
    BY <1>2, <1>3, <2>3 DEF Count, rest
<1>4. CASE Head(q).type # type
  <2>1. OfType(q, type) = moved
    BY <1>4, TailIs DEF OfType
  <2>2. Count(Tail(q), type) \in Nat
    BY TailIs, CountType
  <2> QED
    BY <1>2, <1>4, <2>1, <2>2 DEF Count
<1> QED
  BY <1>3, <1>4

-----------------------------------------------------------------------------
\* What stands when

(* Events that come later change nothing of what stands before.            *)
LEMMA StandsKept ==
  ASSUME NEW q \in Seq(UiEvents), NEW e \in UiEvents, NEW first, NEW name,
         NEW i \in 1..(Len(q) + 1), Stands(q, first, i, name)
  PROVE  Stands(Append(q, e), first, i, name)
BY AppendIs DEF Stands

(* An event that is no new protocol leaves the one that stands, and a frame*)
(* by the last protocol agrees.                                            *)
LEMMA AgreeOther ==
  ASSUME NEW q \in Seq(UiEvents), NEW e \in UiEvents, NEW first, NEW last,
         Agree(q, first, last), e.type # "loaded", e.type = "frame" => e.by = last
  PROVE  Agree(Append(q, e), first, last)
<1> DEFINE n == Len(q)
           r == Append(q, e)
<1>1. /\ n \in Nat /\ Len(r) = n + 1 /\ r[n + 1] = e
      /\ \A k \in 1..n : r[k] = q[k]
  BY AppendIs
<1>2. Stands(r, first, n + 1, last)
  BY <1>1, StandsKept DEF Agree
<1>3. Stands(r, first, n + 2, last)
  BY <1>1, <1>2 DEF Stands
<1>4. ASSUME NEW i \in 1..(n + 1), r[i].type = "frame"
      PROVE  Stands(r, first, i, r[i].by)
  <2>1. CASE i \in 1..n
    BY <1>1, <1>4, <2>1, StandsKept DEF Agree
  <2>2. CASE i = n + 1
    BY <1>1, <1>2, <1>4, <2>2
  <2> QED
    BY <1>1, <2>1, <2>2
<1> QED
  BY <1>1, <1>3, <1>4 DEF Agree

(* A new protocol is the last one from then on.                            *)
LEMMA AgreeLoaded ==
  ASSUME NEW q \in Seq(UiEvents), NEW e \in UiEvents, NEW first, NEW last,
         Agree(q, first, last), e.type = "loaded"
  PROVE  Agree(Append(q, e), first, e.name)
<1> DEFINE n == Len(q)
           r == Append(q, e)
<1>1. /\ n \in Nat /\ Len(r) = n + 1 /\ r[n + 1] = e
      /\ \A k \in 1..n : r[k] = q[k]
  BY AppendIs
<1>2. Stands(r, first, n + 2, e.name)
  BY <1>1 DEF Stands
<1>3. ASSUME NEW i \in 1..(n + 1), r[i].type = "frame"
      PROVE  Stands(r, first, i, r[i].by)
  <2>1. i \in 1..n
    BY <1>1, <1>3
  <2> QED
    BY <1>1, <1>3, <2>1, StandsKept DEF Agree
<1> QED
  BY <1>1, <1>2, <1>3 DEF Agree

(* SM_UI takes the oldest event, and if it is a protocol's puts it up.     *)
LEMMA StandsTail ==
  ASSUME NEW q \in Seq(UiEvents), q # <<>>, NEW first, NEW name,
         NEW i \in 1..Len(q), Stands(q, first, i + 1, name)
  PROVE  Stands(Tail(q), IF Head(q).type = "loaded" THEN Head(q).name ELSE first, i, name)
<1> DEFINE r == Tail(q)
<1>1. /\ Len(q) \in Nat /\ i \in Nat /\ Head(q) = q[1]
      /\ \A k \in 1..(i - 1) : r[k] = q[k + 1]
  BY TailIs
<1>2. ASSUME NEW j \in 1..i, \A k \in j..(i - 1) : r[k].type # "loaded"
      PROVE  \A k \in (j + 1)..i : q[k].type # "loaded"
  <2> SUFFICES ASSUME NEW k \in (j + 1)..i PROVE q[k].type # "loaded"
    OBVIOUS
  <2>1. k - 1 \in j..(i - 1) /\ k - 1 \in 1..(i - 1) /\ r[k - 1] = q[k - 1 + 1] /\ k - 1 + 1 = k
    BY <1>1
  <2> QED
    BY <1>2, <2>1
<1>3. ASSUME NEW j \in 1..(i - 1), r[j].type = "loaded",
             \A k \in (j + 1)..(i - 1) : r[k].type # "loaded"
      PROVE  name = r[j].name
  <2>1. j + 1 \in 1..i /\ r[j] = q[j + 1]
    BY <1>1
  <2>2. \A k \in (j + 1 + 1)..i : q[k].type # "loaded"
    BY <1>2, <1>3, <2>1
  <2>3. \A k \in (j + 1 + 1)..(i + 1 - 1) : q[k].type # "loaded"
    BY <1>1, <2>2
  <2> QED
    BY <1>1, <1>3, <2>1, <2>3 DEF Stands
<1>4. ASSUME \A k \in 1..(i - 1) : r[k].type # "loaded"
      PROVE  name = IF Head(q).type = "loaded" THEN Head(q).name ELSE first
  <2>1. \A k \in 2..i : q[k].type # "loaded"
    <3> SUFFICES ASSUME NEW k \in 2..i
                 PROVE  q[k].type # "loaded"
      OBVIOUS
    <3>1. k - 1 \in 1..(i - 1) /\ (k - 1) + 1 = k
      BY <1>1
    <3> QED
      BY <1>1, <1>2, <1>4, <3>1
  <2>2. CASE Head(q).type = "loaded"
    BY <1>1, <2>1, <2>2 DEF Stands
  <2>3. CASE Head(q).type # "loaded"
    BY <1>1, <2>1, <2>3 DEF Stands
  <2> QED
    BY <2>2, <2>3
<1> QED
  BY <1>3, <1>4 DEF Stands

LEMMA AgreeTail ==
  ASSUME NEW q \in Seq(UiEvents), q # <<>>, NEW first, NEW last, Agree(q, first, last)
  PROVE  /\ Agree(Tail(q), IF Head(q).type = "loaded" THEN Head(q).name ELSE first, last)
         /\ Head(q).type = "frame" => Head(q).by = first
<1> DEFINE n == Len(q)
           r == Tail(q)
           next == IF Head(q).type = "loaded" THEN Head(q).name ELSE first
<1>1. /\ n \in Nat \ {0} /\ Len(r) = n - 1 /\ Head(q) = q[1]
      /\ \A k \in 1..(n - 1) : r[k] = q[k + 1]
  BY TailIs
<1>2. Stands(r, next, n, last)
  <2>1. n \in 1..n /\ Stands(q, first, n + 1, last)
    BY <1>1 DEF Agree
  <2> QED
    BY <2>1, StandsTail
<1>3. ASSUME NEW i \in 1..(n - 1), r[i].type = "frame"
      PROVE  Stands(r, next, i, r[i].by)
  <2>1. i \in 1..n /\ i + 1 \in 1..n /\ r[i] = q[i + 1]
    BY <1>1
  <2>2. Stands(q, first, i + 1, q[i + 1].by)
    BY <1>3, <2>1 DEF Agree
  <2> QED
    BY <2>1, <2>2, StandsTail
<1>4. Head(q).type = "frame" => Head(q).by = first
  BY <1>1 DEF Agree, Stands
<1> HIDE DEF next, r
<1>5. Agree(r, next, last)
  BY <1>1, <1>2, <1>3 DEF Agree
<1> QED
  BY <1>4, <1>5 DEF next, r

(* A list of protocols is the newest from then on; other events are none.  *)
LEMMA NewestAppend ==
  ASSUME NEW q \in Seq(UiEvents), NEW e \in UiEvents, NEW list
  PROVE  /\ (e.type = "list" /\ e.kind = "protocols") =>
              Newest(Append(q, e), e.names) /\ ~NoneComes(Append(q, e))
         /\ ~(e.type = "list" /\ e.kind = "protocols") =>
              /\ Newest(q, list) => Newest(Append(q, e), list)
              /\ NoneComes(Append(q, e)) => NoneComes(q)
<1> DEFINE n == Len(q)
           r == Append(q, e)
<1>1. /\ n \in Nat /\ Len(r) = n + 1 /\ r[n + 1] = e
      /\ \A k \in 1..n : r[k] = q[k]
  BY AppendIs
<1> HIDE DEF r
<1>2. ASSUME e.type = "list" /\ e.kind = "protocols"
      PROVE  Newest(r, e.names) /\ ~NoneComes(r)
  BY <1>1, <1>2 DEF Newest, NoneComes, ProtocolsAt
<1>3. ASSUME ~(e.type = "list" /\ e.kind = "protocols"), Newest(q, list)
      PROVE  Newest(r, list)
  BY <1>1, <1>3 DEF Newest, ProtocolsAt
<1>4. ASSUME ~(e.type = "list" /\ e.kind = "protocols"), NoneComes(r)
      PROVE  NoneComes(q)
  BY <1>1, <1>4 DEF NoneComes, ProtocolsAt
<1> QED
  BY <1>2, <1>3, <1>4 DEF r

LEMMA NewestTail ==
  ASSUME NEW q \in Seq(UiEvents), q # <<>>, NEW list, Newest(q, list)
  PROVE  /\ Newest(Tail(q), list)
         /\ NoneComes(Tail(q)) =>
              IF Head(q).type = "list" /\ Head(q).kind = "protocols" THEN Head(q).names = list
              ELSE NoneComes(q)
<1> DEFINE n == Len(q)
           r == Tail(q)
<1>1. /\ n \in Nat \ {0} /\ Len(r) = n - 1 /\ Head(q) = q[1]
      /\ \A k \in 1..(n - 1) : r[k] = q[k + 1]
  BY TailIs
<1>2. ASSUME NEW j \in 1..n, \A k \in j..(n - 1) : ~ProtocolsAt(r, k)
      PROVE  \A k \in (j + 1)..n : ~ProtocolsAt(q, k)
  <2> SUFFICES ASSUME NEW k \in (j + 1)..n PROVE ~ProtocolsAt(q, k)
    OBVIOUS
  <2>1. k - 1 \in j..(n - 1) /\ k - 1 \in 1..(n - 1) /\ r[k - 1] = q[k]
    BY <1>1
  <2> QED
    BY <1>2, <2>1 DEF ProtocolsAt
<1> HIDE DEF r
<1>3. ASSUME NEW j \in 1..(n - 1), ProtocolsAt(r, j), \A k \in (j + 1)..(n - 1) : ~ProtocolsAt(r, k)
      PROVE  r[j].names = list
  <2>1. j + 1 \in 1..n /\ r[j] = q[j + 1] /\ ProtocolsAt(q, j + 1)
    BY <1>1, <1>3 DEF ProtocolsAt
  <2>2. \A k \in (j + 1 + 1)..n : ~ProtocolsAt(q, k)
    BY <1>2, <1>3, <2>1
  <2> QED
    BY <2>1, <2>2 DEF Newest
<1>4. ASSUME NoneComes(r)
      PROVE  IF Head(q).type = "list" /\ Head(q).kind = "protocols" THEN Head(q).names = list
             ELSE NoneComes(q)
  <2>1. \A k \in (1 + 1)..n : ~ProtocolsAt(q, k)
    BY <1>1, <1>2, <1>4 DEF NoneComes
  <2>2. CASE Head(q).type = "list" /\ Head(q).kind = "protocols"
    BY <1>1, <2>1, <2>2 DEF Newest, ProtocolsAt
  <2>3. CASE ~(Head(q).type = "list" /\ Head(q).kind = "protocols")
    BY <1>1, <2>1, <2>3 DEF NoneComes, ProtocolsAt
  <2> QED
    BY <2>2, <2>3
<1> QED
  BY <1>1, <1>3, <1>4 DEF Newest, r

-----------------------------------------------------------------------------
\* SpMngr's steps

LEMMA EventTypes ==
  /\ Notice \in UiEvents /\ Answer \in UiEvents
  /\ Notice.type = "notice" /\ Answer.type = "answer"
  /\ \A kind \in Kind, names \in SUBSET Names :
       /\ ListEvt(kind, names) \in UiEvents
       /\ ListEvt(kind, names).type = "list" /\ ListEvt(kind, names).kind = kind
       /\ ListEvt(kind, names).names = names
  /\ \A name \in Names : [type |-> "loaded", name |-> name] \in UiEvents
  /\ \A by \in Names \union {None} : [type |-> "frame", by |-> by] \in UiEvents
BY DEF UiEvents, ListEvt, Notice, Answer

(* What SM_UI keeps is untouched while SpMngr works.                       *)
LEMMA HeapKept ==
  ASSUME HeapInv, UNCHANGED <<heap, available, lent>>,
         candidates' \in {candidates, NoSuggestions}
  PROVE  HeapInv'
BY DEF HeapInv

(* Whatever single event SpMngr posts, what it says of the protocol and of *)
(* the list is true when SM_UI comes to it.                                *)
LEMMA PostOne ==
  ASSUME Inv, NEW e \in UiEvents, Post(<<e>>),
         e.type # "loaded", e.type = "frame" => e.by = table,
         (e.type = "list" /\ e.kind = "protocols") => kept' = e.names,
         ~(e.type = "list" /\ e.kind = "protocols") => kept' = kept,
         catalog' \subseteq Names, UNCHANGED <<table, heap, available, active, shown>>
  PROVE  /\ uiInbox' = Append(uiInbox, e) /\ uiInbox' \in Seq(UiEvents)
         /\ FramesInv' /\ ListInv'
<1>1. uiInbox \in Seq(UiEvents)
  BY DEF Inv, InboxInv
<1>2. uiInbox' = Append(uiInbox, e)
  BY <1>1, PostIsAppend DEF Post
<1>3. uiInbox' \in Seq(UiEvents)
  BY <1>1, <1>2, AppendIs
<1>4. FramesInv'
  BY <1>1, <1>2, AgreeOther DEF Inv, FramesInv
<1>5. ListInv'
  <2>1. CASE e.type = "list" /\ e.kind = "protocols"
    BY <1>1, <1>2, <2>1, NewestAppend DEF ListInv
  <2>2. CASE ~(e.type = "list" /\ e.kind = "protocols")
    BY <1>1, <1>2, <2>2, NewestAppend DEF Inv, ListInv
  <2> QED
    BY <2>1, <2>2
<1> QED
  BY <1>2, <1>3, <1>4, <1>5

(* SpMngr takes its oldest event.                                          *)
LEMMA TakeIs ==
  ASSUME Inv, NEW type, Next1(type)
  PROVE  /\ spInbox' \in Seq(SpEvents) /\ Head(spInbox) \in SpEvents
         /\ Head(spInbox).type = type /\ spInbox # <<>> /\ spInbox' = Tail(spInbox)
         /\ Count(spInbox, "load") = Count(spInbox', "load") + IF type = "load" THEN 1 ELSE 0
         /\ Count(spInbox', "load") \in Nat /\ Count(uiInbox, "answer") \in Nat
<1>1. spInbox \in Seq(SpEvents) /\ uiInbox \in Seq(UiEvents)
  BY DEF Inv, InboxInv
<1>2. /\ spInbox # <<>> /\ Head(spInbox).type = type /\ spInbox' = Tail(spInbox)
  BY DEF Next1
<1>3. spInbox' \in Seq(SpEvents) /\ Head(spInbox) \in SpEvents
  BY <1>1, <1>2, TailIs
<1> QED
  BY <1>1, <1>2, <1>3, CountTail, CountType

(* The fields an event has.                                                *)
LEMMA SpEventFields ==
  ASSUME NEW e \in SpEvents
  PROVE  /\ e.type = "refresh" => e.kind \in Kind
         /\ e.type = "refreshed" => e.names = None \/ e.names \subseteq Names
         /\ e.type = "load" => e.name \in Names
BY DEF SpEvents

LEMMA UiEventFields ==
  ASSUME NEW e \in UiEvents
  PROVE  /\ e.type = "list" => e.kind \in Kind /\ e.names \subseteq Names
         /\ e.type = "loaded" => e.name \in Names
BY DEF UiEvents, Notice, Answer

LEMMA SpStep ==
  ASSUME Inv, SpMngrDispatch
  PROVE  Inv'
<1>1. uiInbox \in Seq(UiEvents) /\ spInbox \in Seq(SpEvents)
  BY DEF Inv, InboxInv
<1>2. UNCHANGED <<heap, available, lent, candidates, active, shown, asked, answered>>
  BY DEF SpMngrDispatch, RefreshProtocols, RefreshPorts, RefreshedPorts, LoadProtocol,
         OnHdlcFrame, uiVars
<1>3. HeapInv'
  BY <1>2, HeapKept DEF Inv
\* a single event that does not answer a load
<1>4. ASSUME NEW e \in UiEvents, Post(<<e>>), Next1("refresh") \/ Next1("refreshed") \/ Next1("packet"),
             e.type \notin {"loaded", "answer"}, e.type = "frame" => e.by = table,
             (e.type = "list" /\ e.kind = "protocols") => kept' = e.names,
             ~(e.type = "list" /\ e.kind = "protocols") => kept' = kept,
             catalog' \subseteq Names, table' = table
      PROVE  Inv'
  <2>1. /\ uiInbox' = Append(uiInbox, e) /\ uiInbox' \in Seq(UiEvents)
        /\ FramesInv' /\ ListInv'
    BY <1>2, <1>4, PostOne
  <2>2. Count(uiInbox', "answer") = Count(uiInbox, "answer")
    BY <1>1, <1>4, <2>1, CountAppend, CountType
  <2>3. spInbox' \in Seq(SpEvents) /\ Count(spInbox, "load") = Count(spInbox', "load")
    BY <1>4, TakeIs
  <2>4. LoadsInv'
    BY <1>2, <2>2, <2>3 DEF Inv, LoadsInv
  <2> QED
    BY <1>3, <2>1, <2>3, <2>4 DEF Inv, InboxInv
<1>5. catalog \subseteq Names /\ table \in Names \union {None}
  BY DEF Inv, FramesInv
<1>6. CASE RefreshProtocols
  <2>1. Next1("refresh") /\ table' = table
    BY <1>6 DEF RefreshProtocols
  <2>2. CASE \E found \in SUBSET Names : catalog' = found /\ Post(<<ListEvt("protocols", Packed(found))>>)
                                           /\ kept' = found
    BY <1>4, <2>1, <2>2, EventTypes DEF Packed, Kind
  <2>3. CASE Post(<<Notice>>) /\ kept' = kept /\ catalog' \subseteq Names
    BY <1>4, <2>1, <2>3, EventTypes
  <2> QED
    BY <1>5, <1>6, <2>2, <2>3 DEF RefreshProtocols
<1>7. CASE RefreshPorts
  <2>1. PICK found \in (SUBSET Names) \union {None} :
          spInbox' = Append(Tail(spInbox), [type |-> "refreshed", names |-> found])
    BY <1>7 DEF RefreshPorts
  <2>2. spInbox # <<>> /\ Head(spInbox).type = "refresh"
    BY <1>7 DEF RefreshPorts
  <2>3. [type |-> "refreshed", names |-> found] \in SpEvents
    BY DEF SpEvents
  <2>4. Tail(spInbox) \in Seq(SpEvents) /\ spInbox' \in Seq(SpEvents)
    BY <1>1, <2>1, <2>2, <2>3, TailIs, AppendIs
  <2>5. Count(Tail(spInbox), "load") = Count(spInbox, "load")
    <3>1. Count(spInbox, "load") = Count(Tail(spInbox), "load") + 0
      BY <1>1, <2>2, CountTail
    <3>2. Count(Tail(spInbox), "load") \in Nat
      BY <2>4, CountType
    <3> QED
      BY <3>1, <3>2
  <2>6. Count(spInbox', "load") = Count(Tail(spInbox), "load")
    <3> DEFINE q == Tail(spInbox)
               e == [type |-> "refreshed", names |-> found]
    <3>1. e.type # "load"
      OBVIOUS
    <3> HIDE DEF e, q
    <3>2. Count(Append(q, e), "load") = Count(q, "load") + 0
      BY <2>3, <2>4, <3>1, CountAppend DEF e, q
    <3>3. Count(q, "load") \in Nat
      BY <2>4, CountType DEF q
    <3> QED
      BY <2>1, <3>2, <3>3 DEF e, q
  <2>7. UNCHANGED <<catalog, table, uiInbox, kept>>
    BY <1>7 DEF RefreshPorts, spVars
  <2>8. LoadsInv' /\ FramesInv' /\ ListInv'
    BY <1>2, <2>5, <2>6, <2>7 DEF Inv, LoadsInv, FramesInv, ListInv
  <2> QED
    BY <1>1, <1>3, <2>4, <2>7, <2>8 DEF Inv, InboxInv
<1>8. CASE RefreshedPorts
  <2>1. Next1("refreshed") /\ UNCHANGED <<catalog, table, kept>>
    BY <1>8 DEF RefreshedPorts, spVars
  <2>2. Head(spInbox).names = None \/ Head(spInbox).names \subseteq Names
    BY <2>1, TakeIs, SpEventFields
  <2>3. CASE Head(spInbox).names = None
    BY <1>4, <1>5, <1>8, <2>1, <2>3, EventTypes DEF RefreshedPorts
  <2>4. CASE Head(spInbox).names # None
    <3>1. Post(<<ListEvt("ports", Head(spInbox).names)>>)
      BY <1>8, <2>4 DEF RefreshedPorts
    <3>2. Head(spInbox).names \in SUBSET Names
      BY <2>2, <2>4
    <3> QED
      BY <1>4, <1>5, <2>1, <3>1, <3>2, EventTypes DEF Kind
  <2> QED
    BY <2>3, <2>4
<1>9. CASE LoadProtocol
  <2>1. Next1("load") /\ UNCHANGED <<catalog, kept>>
    BY <1>9 DEF LoadProtocol
  <2>2. /\ spInbox' \in Seq(SpEvents) /\ Head(spInbox).name \in Names
        /\ Count(spInbox, "load") = Count(spInbox', "load") + 1
        /\ Count(spInbox', "load") \in Nat /\ Count(uiInbox, "answer") \in Nat
    BY <2>1, TakeIs, SpEventFields
  <2>3. ASSUME uiInbox' \in Seq(UiEvents), FramesInv', ListInv',
               Count(uiInbox', "answer") = Count(uiInbox, "answer") + 1
        PROVE  Inv'
    <3>1. LoadsInv'
      BY <1>2, <2>2, <2>3 DEF Inv, LoadsInv
    <3> QED
      BY <1>3, <2>2, <2>3, <3>1 DEF Inv, InboxInv
  <2>4. CASE /\ Head(spInbox).name \in catalog /\ table' = Head(spInbox).name
             /\ Post(Loaded(Head(spInbox).name))
    <3> DEFINE name == Head(spInbox).name
               e == [type |-> "loaded", name |-> name]
               q == Append(uiInbox, e)
    <3>1. e \in UiEvents /\ Answer \in UiEvents /\ Answer.type = "answer"
          /\ e.type = "loaded" /\ e.name = name
      BY <2>2, EventTypes
    <3>2. uiInbox' = Append(q, Answer)
      BY <1>1, <2>4, <3>1, PostIsAppend DEF Post, Loaded
    <3>3. q \in Seq(UiEvents) /\ uiInbox' \in Seq(UiEvents)
      BY <1>1, <3>1, <3>2, AppendIs
    <3>4. Agree(q, active, name)
      BY <1>1, <3>1, AgreeLoaded DEF Inv, FramesInv
    <3> HIDE DEF e
    <3>5. Count(q, "answer") = Count(uiInbox, "answer")
      BY <1>1, <2>2, <3>1, CountAppend
    <3>6. \A list : (Newest(uiInbox, list) => Newest(q, list)) /\ (NoneComes(q) => NoneComes(uiInbox))
      BY <1>1, <3>1, NewestAppend
    <3> HIDE DEF q
    <3>7. Agree(uiInbox', active, name)
      BY <3>1, <3>2, <3>3, <3>4, AgreeOther
    <3>8. Count(uiInbox', "answer") = Count(q, "answer") + 1
      BY <3>1, <3>2, <3>3, CountAppend
    <3>9. \A list : (Newest(q, list) => Newest(uiInbox', list)) /\ (NoneComes(uiInbox') => NoneComes(q))
      BY <3>1, <3>2, <3>3, NewestAppend
    <3>10. FramesInv'
      BY <1>2, <1>5, <2>1, <2>2, <2>4, <3>7 DEF Inv, FramesInv
    <3>11. ListInv'
      BY <1>2, <2>1, <3>6, <3>9 DEF Inv, ListInv
    <3> QED
      BY <2>3, <3>3, <3>5, <3>8, <3>10, <3>11
  <2>5. CASE Post(<<Answer>>) /\ table' = table
    <3>1. /\ uiInbox' = Append(uiInbox, Answer) /\ uiInbox' \in Seq(UiEvents)
          /\ FramesInv' /\ ListInv'
      BY <1>2, <1>5, <2>1, <2>5, EventTypes, PostOne
    <3>2. Count(uiInbox', "answer") = Count(uiInbox, "answer") + 1
      BY <1>1, <3>1, EventTypes, CountAppend
    <3> QED
      BY <2>3, <3>1, <3>2
  <2> QED
    BY <1>9, <2>4, <2>5 DEF LoadProtocol
<1>10. CASE OnHdlcFrame
  <2>1. /\ Next1("packet") /\ Post(<<[type |-> "frame", by |-> table]>>)
        /\ UNCHANGED <<catalog, table, kept>>
    BY <1>10 DEF OnHdlcFrame, spVars
  <2> QED
    BY <1>4, <1>5, <2>1, EventTypes
<1> QED
  BY <1>6, <1>7, <1>8, <1>9, <1>10 DEF SpMngrDispatch

-----------------------------------------------------------------------------
\* SM_UI's steps

(* SM_UI takes its oldest event.                                           *)
LEMMA UiTakeIs ==
  ASSUME Inv, NEW type, UiNext(type)
  PROVE  /\ InboxInv' /\ Head(uiInbox) \in UiEvents /\ Head(uiInbox).type = type
         /\ uiInbox # <<>> /\ uiInbox' = Tail(uiInbox)
         /\ UNCHANGED <<spInbox, catalog, table, asked, kept>>
         /\ Count(uiInbox, "answer") = Count(uiInbox', "answer") + IF type = "answer" THEN 1 ELSE 0
         /\ Count(uiInbox', "answer") \in Nat /\ Count(spInbox, "load") \in Nat
<1>1. spInbox \in Seq(SpEvents) /\ uiInbox \in Seq(UiEvents)
  BY DEF Inv, InboxInv
<1>2. /\ uiInbox # <<>> /\ Head(uiInbox).type = type /\ uiInbox' = Tail(uiInbox)
      /\ UNCHANGED <<spInbox, catalog, table, asked, kept>>
  BY DEF UiNext
<1>3. uiInbox' \in Seq(UiEvents) /\ Head(uiInbox) \in UiEvents
  BY <1>1, <1>2, TailIs
<1>4. Count(uiInbox, "answer") = Count(uiInbox', "answer") + IF type = "answer" THEN 1 ELSE 0
  BY <1>1, <1>2, CountTail
<1>5. Count(uiInbox', "answer") \in Nat /\ Count(spInbox, "load") \in Nat
  BY <1>1, <1>3, CountType
<1> QED
  BY <1>1, <1>2, <1>3, <1>4, <1>5 DEF InboxInv

(* An event that is neither a list nor a protocol leaves what they say.    *)
LEMMA OtherTaken ==
  ASSUME Inv, NEW type, UiNext(type), type \notin {"list", "loaded"},
         UNCHANGED <<heap, available, lent, candidates, active>>,
         IF type = "frame" THEN shown' = [under |-> active, by |-> Head(uiInbox).by]
         ELSE UNCHANGED shown
  PROVE  HeapInv' /\ FramesInv' /\ ListInv'
<1>1. uiInbox \in Seq(UiEvents) /\ uiInbox # <<>>
  BY UiTakeIs DEF Inv, InboxInv
<1>2. /\ uiInbox' = Tail(uiInbox) /\ Head(uiInbox).type = type
      /\ UNCHANGED <<catalog, table, kept>>
  BY UiTakeIs
<1>3. HeapInv'
  BY HeapKept DEF Inv
<1>4. FramesInv'
  <2>1. Agree(uiInbox', active, table) /\ (type = "frame" => Head(uiInbox).by = active)
    BY <1>1, <1>2, AgreeTail DEF Inv, FramesInv
  <2>2. shown'.under = shown'.by
    BY <2>1 DEF Inv, FramesInv
  <2> QED
    BY <1>2, <2>1, <2>2 DEF Inv, FramesInv
<1>5. ListInv'
  BY <1>1, <1>2, NewestTail DEF Inv, ListInv
<1> QED
  BY <1>3, <1>4, <1>5

(* A new list goes into a buffer of its own, the one before is freed, and  *)
(* what is on screen is made again from the lists in force.                *)
LEMMA ListTaken ==
  ASSUME Inv, UpdateAvailable
  PROVE  HeapInv' /\ ListInv'
<1> DEFINE kind == Head(uiInbox).kind
           names == Head(uiInbox).names
           old == available[kind]
<1>1. /\ uiInbox \in Seq(UiEvents) /\ uiInbox # <<>> /\ uiInbox' = Tail(uiInbox)
      /\ Head(uiInbox).type = "list" /\ kept' = kept
      /\ kind \in Kind /\ names \subseteq Names
  BY UiTakeIs, UiEventFields DEF UpdateAvailable, Inv, InboxInv
<1>2. PICK copy \in Buffers \ DOMAIN heap :
        LET memory == [b \in DOMAIN heap \union {copy} |-> IF b = copy THEN names ELSE heap[b]]
        IN  /\ available' = [available EXCEPT ![kind] = copy]
            /\ lent' = [lent EXCEPT ![kind] = copy]
            /\ candidates' = CatalogUpdated(kind, lent', memory)
            /\ heap' = Freed(memory, old)
  BY DEF UpdateAvailable
<1> DEFINE memory == [b \in DOMAIN heap \union {copy} |-> IF b = copy THEN names ELSE heap[b]]
           other == IF kind = "ports" THEN "protocols" ELSE "ports"
<1>3. /\ available \in [Kind -> Buffers \union {None}] /\ lent = available
      /\ DOMAIN heap = {available[k] : k \in Kind} \ {None}
      /\ \A b \in DOMAIN heap : heap[b] \subseteq Names
      /\ available["ports"] = available["protocols"] => available["ports"] = None
  BY DEF Inv, HeapInv
<1>4. /\ available' \in [Kind -> Buffers \union {None}] /\ lent' = available'
      /\ available'[kind] = copy /\ available'[other] = available[other]
      /\ Kind = {kind, other} /\ kind # other /\ copy # None /\ copy # old /\ copy # available[other]
  BY <1>1, <1>2, <1>3, LinkAssumption DEF Kind
<1>5. available[other] # None => available[other] # old /\ available[other] \in DOMAIN heap
  BY <1>1, <1>3, <1>4 DEF Kind
<1>6. DOMAIN heap' = {available'[k] : k \in Kind} \ {None}
  <2>1. DOMAIN heap' = (DOMAIN heap \union {copy}) \ {old}
    BY <1>2 DEF Freed
  <2>2. DOMAIN heap = {old, available[other]} \ {None}
    BY <1>3, <1>4
  <2>3. {available'[k] : k \in Kind} = {copy, available[other]}
    BY <1>4
  <2> HIDE DEF old, other, kind
  <2> QED
    BY <1>4, <1>5, <2>1, <2>2, <2>3
<1>7. \A b \in DOMAIN heap' : heap'[b] = IF b = copy THEN names ELSE heap[b]
  BY <1>2 DEF Freed
<1>8. \A b \in DOMAIN heap' : heap'[b] \subseteq Names
  <2>1. DOMAIN heap' \subseteq DOMAIN heap \union {copy}
    BY <1>2 DEF Freed
  <2> QED
    BY <1>1, <1>3, <1>7, <2>1
<1>9. candidates' # NoSuggestions =>
        /\ candidates'.kind \in Kind /\ available'[candidates'.kind] # None
        /\ candidates'.buffer = available'[candidates'.kind]
        /\ candidates'.names = heap'[candidates'.buffer]
  <2> SUFFICES ASSUME candidates' # NoSuggestions
               PROVE  /\ candidates'.kind \in Kind /\ available'[candidates'.kind] # None
                      /\ candidates'.buffer = available'[candidates'.kind]
                      /\ candidates'.names = heap'[candidates'.buffer]
    OBVIOUS
  <2> DEFINE k == candidates.kind
  <2>1. candidates # NoSuggestions /\ candidates' = Suggested(k, lent', memory)
    BY <1>2 DEF CatalogUpdated
  <2>2. k \in Kind /\ lent'[k] # None
    BY <1>4, <2>1 DEF Inv, HeapInv, Suggested
  <2>3. candidates' = [kind |-> k, buffer |-> lent'[k], names |-> memory[lent'[k]]]
    BY <2>1, <2>2 DEF Suggested
  <2>4. lent'[k] \in DOMAIN heap'
    BY <1>4, <1>6, <2>2
  <2>5. lent'[k] \in DOMAIN heap \union {copy}
    BY <1>2, <2>4 DEF Freed
  <2>6. memory[lent'[k]] = heap'[lent'[k]]
    BY <1>7, <2>4, <2>5
  <2> HIDE DEF k, memory
  <2> QED
    BY <1>4, <2>2, <2>3, <2>6
<1>10. HeapInv'
  <2>1. available'["ports"] = available'["protocols"] => available'["ports"] = None
    BY <1>4 DEF Kind
  <2> QED
    BY <1>4, <1>6, <1>8, <1>9, <2>1 DEF HeapInv
<1>11. ListInv'
  <2> SUFFICES ASSUME kept # None
               PROVE  /\ Newest(uiInbox', kept)
                      /\ NoneComes(uiInbox') =>
                           available'["protocols"] # None /\ heap'[available'["protocols"]] = kept
    BY <1>1 DEF ListInv
  <2>1. /\ Newest(uiInbox, kept)
        /\ NoneComes(uiInbox) =>
             available["protocols"] # None /\ heap[available["protocols"]] = kept
    BY DEF Inv, ListInv
  <2>2. /\ Newest(uiInbox', kept)
        /\ NoneComes(uiInbox') => IF kind = "protocols" THEN names = kept ELSE NoneComes(uiInbox)
    BY <1>1, <2>1, NewestTail
  <2>3. CASE kind = "protocols"
    <3>1. available'["protocols"] = copy /\ copy \in DOMAIN heap' /\ heap'[copy] = names
      BY <1>4, <1>6, <1>7, <2>3
    <3> QED
      BY <1>4, <2>2, <2>3, <3>1
  <2>4. CASE kind # "protocols"
    <3>1. other = "protocols"
      BY <1>1, <1>4, <2>4 DEF Kind
    <3>2. available[other] # None => available[other] \in DOMAIN heap'
      BY <1>4, <1>6
    <3>3. available[other] # None => heap'[available[other]] = heap[available[other]]
      BY <1>4, <1>7, <3>2
    <3> QED
      BY <1>4, <2>1, <2>2, <2>4, <3>1, <3>3
  <2> QED
    BY <2>3, <2>4
<1> QED
  BY <1>10, <1>11

LEMMA UiStep ==
  ASSUME Inv, UiDispatch
  PROVE  Inv'
\* an event that is no answer
<1>1. ASSUME NEW type, UiNext(type), type # "answer", answered' = answered
      PROVE  InboxInv' /\ LoadsInv'
  BY <1>1, UiTakeIs DEF Inv, LoadsInv
<1>2. CASE UpdateAvailable
  <2>1. UiNext("list") /\ UNCHANGED <<active, shown, answered>>
    BY <1>2 DEF UpdateAvailable
  <2>2. /\ uiInbox \in Seq(UiEvents) /\ uiInbox # <<>> /\ uiInbox' = Tail(uiInbox)
        /\ Head(uiInbox).type = "list" /\ UNCHANGED <<catalog, table>>
    BY <2>1, UiTakeIs DEF Inv, InboxInv
  <2>3. Agree(uiInbox', active, table)
    BY <2>2, AgreeTail DEF Inv, FramesInv
  <2>4. FramesInv'
    BY <2>1, <2>2, <2>3 DEF Inv, FramesInv
  <2> QED
    BY <1>1, <1>2, <2>1, <2>4, ListTaken DEF Inv
<1>3. CASE ProtocolLoaded
  <2>1. /\ UiNext("loaded") /\ active' = Head(uiInbox).name
        /\ UNCHANGED <<heap, available, lent, candidates, shown, answered>>
    BY <1>3 DEF ProtocolLoaded
  <2>2. /\ uiInbox \in Seq(UiEvents) /\ uiInbox # <<>> /\ uiInbox' = Tail(uiInbox)
        /\ Head(uiInbox).type = "loaded" /\ Head(uiInbox).name \in Names
        /\ UNCHANGED <<catalog, table, kept>>
    BY <2>1, UiTakeIs, UiEventFields DEF Inv, InboxInv
  <2>3. Agree(uiInbox', active', table)
    BY <2>1, <2>2, AgreeTail DEF Inv, FramesInv
  <2>4. FramesInv'
    BY <2>1, <2>2, <2>3 DEF Inv, FramesInv
  <2>5. ListInv'
    BY <2>1, <2>2, NewestTail DEF Inv, ListInv
  <2>6. HeapInv'
    BY <2>1, HeapKept DEF Inv
  <2> QED
    BY <1>1, <2>1, <2>4, <2>5, <2>6 DEF Inv
<1>4. CASE ShowFrame
  <2>1. /\ UiNext("frame") /\ shown' = [under |-> active, by |-> Head(uiInbox).by]
        /\ UNCHANGED <<heap, available, lent, candidates, active, answered>>
    BY <1>4 DEF ShowFrame, uiVars
  <2> QED
    BY <1>1, <2>1, OtherTaken DEF Inv
<1>5. CASE ShowAnswer
  <2>1. /\ UiNext("answer") /\ answered' = answered + 1
        /\ UNCHANGED <<heap, available, lent, candidates, active, shown>>
    BY <1>5 DEF ShowAnswer, uiVars
  <2>2. InboxInv' /\ LoadsInv'
    BY <2>1, UiTakeIs DEF Inv, LoadsInv
  <2> QED
    BY <2>1, <2>2, OtherTaken DEF Inv
<1>6. CASE ShowNotice
  <2>1. /\ UiNext("notice")
        /\ UNCHANGED <<heap, available, lent, candidates, active, shown, answered>>
    BY <1>6 DEF ShowNotice, uiVars
  <2> QED
    BY <1>1, <2>1, OtherTaken DEF Inv
<1> QED
  BY <1>2, <1>3, <1>4, <1>5, <1>6 DEF UiDispatch

-----------------------------------------------------------------------------
\* The user's steps

LEMMA Enqueued ==
  ASSUME Inv, NEW e \in SpEvents, Enqueue(e), UNCHANGED <<heap, available, lent, active>>,
         candidates' \in {candidates, NoSuggestions},
         asked' = asked + IF e.type = "load" THEN 1 ELSE 0, asked' <= MaxLoads
  PROVE  Inv'
<1>1. spInbox \in Seq(SpEvents) /\ uiInbox \in Seq(UiEvents)
  BY DEF Inv, InboxInv
<1>2. spInbox' = Append(spInbox, e) /\ UNCHANGED <<catalog, table, uiInbox, shown, kept, answered>>
  BY DEF Enqueue, spVars
<1>3. spInbox' \in Seq(SpEvents)
  BY <1>1, <1>2, AppendIs
<1>4. /\ Count(spInbox', "load") = Count(spInbox, "load") + IF e.type = "load" THEN 1 ELSE 0
      /\ Count(spInbox, "load") \in Nat /\ Count(uiInbox, "answer") \in Nat
  BY <1>1, <1>2, CountAppend, CountType
<1>5. LoadsInv'
  <2>1. /\ asked \in Nat /\ answered \in Nat /\ MaxLoads \in Nat /\ asked' \in Nat
        /\ asked = answered + Count(uiInbox, "answer") + Count(spInbox, "load")
    BY LinkAssumption DEF Inv, LoadsInv
  <2>2. asked' = answered' + Count(uiInbox', "answer") + Count(spInbox', "load")
    BY <1>2, <1>4, <2>1
  <2> QED
    BY <1>2, <2>1, <2>2 DEF LoadsInv
<1>6. HeapInv'
  BY HeapKept DEF Inv
<1> QED
  BY <1>1, <1>2, <1>3, <1>5, <1>6 DEF Inv, InboxInv, FramesInv, ListInv

LEMMA UserStep ==
  ASSUME Inv, User \/ Packet
  PROVE  Inv'
<1>1. asked \in 0..MaxLoads /\ MaxLoads \in Nat
  BY LinkAssumption DEF Inv, LoadsInv
<1>2. CASE SubmitLoad
  <2>1. PICK name \in Names : Enqueue([type |-> "load", name |-> name])
    BY <1>2 DEF SubmitLoad
  <2>2. [type |-> "load", name |-> name] \in SpEvents
    BY DEF SpEvents
  <2>3. /\ asked' = asked + 1 /\ asked' <= MaxLoads /\ candidates' = NoSuggestions
        /\ UNCHANGED <<heap, available, lent, active>>
    BY <1>1, <1>2 DEF SubmitLoad
  <2> QED
    BY <2>1, <2>2, <2>3, Enqueued
<1>3. CASE SubmitRefresh
  <2>1. PICK kind \in Kind : Enqueue([type |-> "refresh", kind |-> kind])
    BY <1>3 DEF SubmitRefresh
  <2>2. [type |-> "refresh", kind |-> kind] \in SpEvents
    BY DEF SpEvents
  <2>3. asked' = asked + 0 /\ asked' <= MaxLoads
    BY <1>1, <1>3 DEF SubmitRefresh
  <2> QED
    BY <1>3, <2>1, <2>2, <2>3, Enqueued DEF SubmitRefresh
<1>4. CASE Packet
  <2>1. [type |-> "packet"] \in SpEvents /\ Enqueue([type |-> "packet"])
    BY <1>4 DEF SpEvents, Packet
  <2>2. asked' = asked + 0 /\ asked' <= MaxLoads
    BY <1>1, <1>4 DEF Packet
  <2>3. UNCHANGED <<heap, available, lent, candidates, active>>
    BY <1>4 DEF Packet, uiVars
  <2> QED
    BY <2>1, <2>2, <2>3, Enqueued
<1>5. CASE ShowSuggestions \/ HideSuggestions
  <2>1. UNCHANGED <<spInbox, catalog, table, uiInbox, heap, available, lent, active, shown, kept,
                    asked, answered>>
    BY <1>5 DEF ShowSuggestions, HideSuggestions, spVars
  <2>2. HeapInv'
    <3>1. CASE candidates' = NoSuggestions
      BY <2>1, <3>1, HeapKept DEF Inv
    <3>2. CASE \E kind \in Kind : candidates' = Suggested(kind, lent, heap) /\ lent[kind] # None
      BY <2>1, <3>2 DEF Inv, HeapInv, Suggested
    <3> QED
      BY <1>5, <3>1, <3>2 DEF ShowSuggestions, HideSuggestions, Suggested
  <2> QED
    BY <2>1, <2>2 DEF Inv, InboxInv, LoadsInv, FramesInv, ListInv
<1> QED
  BY <1>2, <1>3, <1>4, <1>5 DEF User

-----------------------------------------------------------------------------
\* The invariant

LEMMA InitInv == Init => Inv
<1> SUFFICES ASSUME Init PROVE Inv
  OBVIOUS
<1> USE DEF Init
<1>1. InboxInv
  BY DEF InboxInv, SpEvents, Kind
<1>2. LoadsInv
  <2>1. OfType(spInbox, "load") = {}
    BY DEF OfType
  <2>2. Count(spInbox, "load") = 0
    BY <2>1, FS_EmptySet DEF Count
  <2> QED
    BY <2>2, CountEmpty, LinkAssumption DEF LoadsInv
<1>3. HeapInv
  BY DEF HeapInv, NoSuggestions, Kind
<1>4. FramesInv
  BY DEF FramesInv, Agree, Stands
<1>5. ListInv
  BY DEF ListInv
<1> QED
  BY <1>1, <1>2, <1>3, <1>4, <1>5 DEF Inv

LEMMA NextInv == Inv /\ [Next]_vars => Inv'
<1> SUFFICES ASSUME Inv, [Next]_vars PROVE Inv'
  OBVIOUS
<1>1. CASE UNCHANGED vars
  BY <1>1 DEF vars, Inv, InboxInv, LoadsInv, HeapInv, FramesInv, ListInv
<1> QED
  BY <1>1, SpStep, UiStep, UserStep DEF Next

(* What is on screen is never read from a list that was freed, nothing but *)
(* the lists in force is kept, and no load is answered that was not asked  *)
(* for (SM_UI_updateAvailablePorts_, SM_UI_updateAvailableProtocols_).     *)
THEOREM ListsAreInForce == Spec => []ListsInForce
<1>1. Inv => ListsInForce
  <2> SUFFICES ASSUME Inv PROVE ListsInForce
    OBVIOUS
  <2>1. HeapInv /\ LoadsInv /\ FramesInv
    BY DEF Inv
  <2>2. answered \in 0..MaxLoads
    <3>1. Count(uiInbox, "answer") \in Nat /\ Count(spInbox, "load") \in Nat
      BY CountType DEF Inv, InboxInv
    <3> QED
      BY <2>1, <3>1, LinkAssumption DEF LoadsInv
  <2>3. candidates # NoSuggestions => candidates.buffer \in DOMAIN heap
    BY <2>1 DEF HeapInv
  <2>4. candidates.names \subseteq Names
    BY <2>1, <2>3 DEF HeapInv, NoSuggestions
  <2>5. DOMAIN heap \subseteq Buffers
    BY <2>1 DEF HeapInv
  <2>6. TypeOK
    BY <2>1, <2>2, <2>4, <2>5 DEF TypeOK, HeapInv, LoadsInv, FramesInv
  <2>7. SuggestionsLive
    BY <2>1 DEF SuggestionsLive, HeapInv
  <2> QED
    BY <2>1, <2>6, <2>7 DEF ListsInForce, HeapInv
<1> QED
  BY <1>1, InitInv, NextInv, PTL DEF Spec

(* A frame's text stands under the name of the protocol it was formatted   *)
(* by; once all is dispatched the status bar names the protocol in use, and*)
(* the list is the last SpMngr could send (SpMngr_loadProtocol_,           *)
(* SpMngr_onHdlcFrame_, SM_UI_protocolLoaded_).                            *)
THEOREM UiAlwaysAgrees == Spec => []UiAgrees
<1>1. Inv => UiAgrees
  <2> SUFFICES ASSUME Inv PROVE UiAgrees
    OBVIOUS
  <2>1. shown.under = shown.by /\ Agree(uiInbox, active, table)
    BY DEF Inv, FramesInv
  <2>2. ASSUME uiInbox = <<>>
        PROVE  active = table /\ (kept # None => heap[available["protocols"]] = kept)
    <3>1. Len(uiInbox) = 0
      BY <2>2
    <3>2. active = table
      BY <2>1, <3>1 DEF Agree, Stands
    <3>3. NoneComes(uiInbox)
      BY <3>1 DEF NoneComes
    <3> QED
      BY <3>2, <3>3 DEF Inv, ListInv
  <2> QED
    BY <2>1, <2>2 DEF UiAgrees
<1> QED
  BY <1>1, InitInv, NextInv, PTL DEF Spec

-----------------------------------------------------------------------------
\* The scan: where it stands

(* Where a scan stands: the innermost of its open directories, how deep it *)
(* is, what is left to visit of the one of k names on the way to it, an    *)
(* entry of the innermost, and what is found from a path on.               *)
Here(fs) == Head(fs).dir
Depth(fs) == Len(fs) - 1
Left(fs, k) == fs[Len(fs) - k].left
Entry(fs, name) == Append(Here(fs), name)
From(p) == {p} \union Below(p)

(* The paths a scan has yet to come to.                                    *)
Comes(fs, q, k) ==
  Len(q) > k /\ SubSeq(q, 1, k) = SubSeq(Here(fs), 1, k) /\ q[k + 1] \in Left(fs, k)
ToCome(fs) == {q \in Path : \E k \in 0..Depth(fs) : Comes(fs, q, k)}

(* The open directories are those on the way, none of which comes again.   *)
Frame == [dir : Path, left : SUBSET FileNames]
WayInv(fs) ==
  /\ fs # <<>> /\ Len(Here(fs)) = Depth(fs) /\ Depth(fs) <= MaxDepth
  /\ \A k \in 0..Depth(fs) :
       /\ fs[Len(fs) - k].dir = SubSeq(Here(fs), 1, k)
       /\ \A name \in Left(fs, k) : Append(SubSeq(Here(fs), 1, k), name) \in Path
       /\ k < Depth(fs) => Here(fs)[k + 1] \notin Left(fs, k)

(* What a list may hold, each path once, none of them to come again.       *)
FoundInv(list) ==
  /\ \A i, j \in DOMAIN list : list[i] = list[j] => i = j
  /\ \A p \in Range(list) : /\ p # Root /\ Listable(p) /\ p \notin ToCome(frames)
                            /\ p \in steady => disk[p] = "file"

(* What was there throughout is listed or comes.                           *)
CoverInv(list) ==
  \A p \in Path \ {Root} :
    disk[p] = "file" /\ Listable(p) /\ p \in steady => p \in Range(list) \union ToCome(frames)

(* There is nothing below what is no directory.                            *)
DiskInv ==
  \A p \in Path : \A q \in Below(p) : disk[q] # "absent" => disk[p] = "directory"

ScanInv ==
  /\ ScanTypeOK /\ DiskInv /\ ListedInOrder
  /\ Scanning => /\ result = "OK" /\ WayInv(frames)
                 /\ FoundInv(entries[Candidate]) /\ CoverInv(entries[Candidate])

-----------------------------------------------------------------------------
\* The scan: paths and their order

LEMMA PathIs ==
  ASSUME NEW p \in Path
  PROVE  /\ p \in Seq(FileNames) /\ Len(p) \in Nat /\ DOMAIN p = 1..Len(p)
         /\ \A i \in 1..Len(p) : p[i] \in FileNames
         /\ p = Root <=> Len(p) = 0
<1>1. p \in Seq(FileNames)
  BY CatalogAssumption
<1> QED
  BY <1>1, LenProperties, ElementOfSeq, EmptySeq DEF Root

(* The directories on the way to a path are the beginnings of the path.    *)
LEMMA WayTo ==
  ASSUME NEW p \in Path, NEW n \in 0..Len(p)
  PROVE  /\ SubSeq(p, 1, n) \in Path /\ Len(SubSeq(p, 1, n)) = n
         /\ \A i \in 1..n : SubSeq(p, 1, n)[i] = p[i]
         /\ SubSeq(p, 1, Len(p)) = p /\ SubSeq(p, 1, 0) = Root
<1>1. /\ p \in Seq(FileNames) /\ Len(p) \in Nat /\ n \in Nat /\ n <= Len(p)
      /\ \A i \in 1..Len(p) : p[i] \in FileNames
  BY PathIs
<1>2. SubSeq(p, 1, n) \in Path
  BY CatalogAssumption
<1>3. \A i \in 1..n : p[i] \in FileNames
  BY <1>1
<1>4. /\ Len(SubSeq(p, 1, n)) = IF 1 <= n THEN n - 1 + 1 ELSE 0
      /\ \A i \in 1..(n - 1 + 1) : SubSeq(p, 1, n)[i] = p[1 + i - 1]
  BY <1>1, <1>3, SubSeqProperties
<1>5. SubSeq(p, 1, 0) = Root
  BY SubSeqEmpty DEF Root
<1>6. SubSeq(p, 1, Len(p)) = p
  BY <1>1, SubSeqFull
<1> QED
  BY <1>1, <1>2, <1>4, <1>5, <1>6

(* Two paths begin alike if they do name by name.                          *)
LEMMA BeginAlike ==
  ASSUME NEW p \in Path, NEW q \in Path, NEW n \in Nat, n <= Len(p), n <= Len(q)
  PROVE  SubSeq(p, 1, n) = SubSeq(q, 1, n) <=> \A i \in 1..n : p[i] = q[i]
<1> DEFINE s == SubSeq(p, 1, n)
           t == SubSeq(q, 1, n)
<1>1. n \in 0..Len(p) /\ n \in 0..Len(q)
  BY PathIs
<1>2. s \in Path /\ Len(s) = n /\ \A i \in 1..n : s[i] = p[i]
  BY <1>1, WayTo
<1>3. t \in Path /\ Len(t) = n /\ \A i \in 1..n : t[i] = q[i]
  BY <1>1, WayTo
<1>4. s \in Seq(FileNames) /\ t \in Seq(FileNames)
  BY <1>2, <1>3, PathIs
<1> HIDE DEF s, t
<1>5. (\A i \in 1..n : p[i] = q[i]) => s = t
  BY <1>2, <1>3, <1>4, SeqEqual
<1>6. s = t => \A i \in 1..n : p[i] = q[i]
  BY <1>2, <1>3
<1> QED
  BY <1>5, <1>6 DEF s, t

(* An entry of a directory.                                                *)
LEMMA EntryIs ==
  ASSUME NEW d \in Path, NEW name \in FileNames, Append(d, name) \in Path
  PROVE  /\ Len(Append(d, name)) = Len(d) + 1
         /\ \A i \in 1..Len(d) : Append(d, name)[i] = d[i]
         /\ Append(d, name)[Len(d) + 1] = name /\ Name(Append(d, name)) = name
         /\ Append(d, name) # Root
         /\ SubSeq(Append(d, name), 1, Len(d)) = d /\ Parent(Append(d, name)) = d
<1>1. d \in Seq(FileNames) /\ Len(d) \in Nat
  BY PathIs
<1>2. /\ Len(Append(d, name)) = Len(d) + 1 /\ Append(d, name) # Root
      /\ \A i \in 1..Len(d) : Append(d, name)[i] = d[i]
      /\ Append(d, name)[Len(d) + 1] = name
  BY <1>1, AppendProperties DEF Root
<1>3. SubSeq(Append(d, name), 1, Len(d)) = SubSeq(d, 1, Len(d))
  BY <1>1, <1>2, BeginAlike
<1>4. SubSeq(d, 1, Len(d)) = d
  BY <1>1, SubSeqFull
<1>5. Len(Append(d, name)) - 1 = Len(d)
  BY <1>1, <1>2
<1> QED
  BY <1>2, <1>3, <1>4, <1>5 DEF Name, Parent

(* What begins like an entry begins with it.                               *)
LEMMA BeginsWithEntry ==
  ASSUME NEW d \in Path, NEW name \in FileNames, Append(d, name) \in Path,
         NEW q \in Path, Len(q) > Len(d), SubSeq(q, 1, Len(d)) = d
  PROVE  q[Len(d) + 1] = name <=> SubSeq(q, 1, Len(d) + 1) = Append(d, name)
<1> DEFINE n == Len(d)
           e == Append(d, name)
<1>1. n \in Nat /\ Len(q) \in Nat /\ n + 1 <= Len(q) /\ n <= Len(d)
  BY PathIs
<1>2. Len(e) = n + 1 /\ (\A i \in 1..n : e[i] = d[i]) /\ e[n + 1] = name
  BY EntryIs
<1>3. SubSeq(d, 1, n) = d /\ SubSeq(e, 1, n + 1) = e
  <2>1. n \in 0..Len(d) /\ n + 1 \in 0..Len(e)
    BY <1>1, <1>2
  <2> QED
    BY <1>2, <2>1, WayTo
<1>4. \A i \in 1..n : q[i] = d[i]
  BY <1>1, <1>3, BeginAlike
<1>5. SubSeq(q, 1, n + 1) = SubSeq(e, 1, n + 1) <=> \A i \in 1..(n + 1) : q[i] = e[i]
  BY <1>1, <1>2, BeginAlike
<1>6. (\A i \in 1..(n + 1) : q[i] = e[i]) <=> q[n + 1] = name
  <2> HIDE DEF n, e
  <2>1. \A i \in 1..(n + 1) : i \in 1..n \/ i = n + 1
    BY <1>1
  <2>2. n + 1 \in 1..(n + 1) 
    BY <1>1
  <2> QED
    BY <1>2, <1>4, <2>1, <2>2
<1> QED
  BY <1>3, <1>5, <1>6

(* Every path has its own place in the order of strcmp.                    *)
LEMMA PositionIs ==
  /\ \A p \in Path : Position(p) \in Nat
  /\ \A p, q \in Path : Position(p) = Position(q) => p = q
<1>1. \A p \in Path : Position(p) \in DOMAIN Order /\ Order[Position(p)] = p
  BY CatalogAssumption DEF Position, Range
<1>2. DOMAIN Order = 1..Len(Order) /\ Len(Order) \in Nat
  BY CatalogAssumption, LenProperties
<1> QED
  BY <1>1, <1>2

(* Sorting puts the paths of a list in order, and keeps each once.         *)
LEMMA SortedIs ==
  ASSUME NEW s \in Seq(Path), \A i, j \in DOMAIN s : s[i] = s[j] => i = j
  PROVE  /\ Sorted(s) \in Seq(Path) /\ Len(Sorted(s)) = Len(s) /\ Range(Sorted(s)) = Range(s)
         /\ \A i, j \in DOMAIN Sorted(s) :
              i < j => Position(Sorted(s)[i]) < Position(Sorted(s)[j])
<1> DEFINE n == Len(s)
           before == [j \in 1..n |-> {i \in 1..n : Before(s, i, j)}]
           rank == [j \in 1..n |-> Cardinality(before[j])]
           at == [m \in DOMAIN s |-> CHOOSE j \in DOMAIN s :
                    Cardinality({i \in DOMAIN s : Before(s, i, j)}) = m]
<1>1. /\ n \in Nat /\ DOMAIN s = 1..n
      /\ \A i \in 1..n : s[i] \in Path /\ Position(s[i]) \in Nat
  BY LenProperties, ElementOfSeq, PositionIs
<1>2. /\ \A i \in 1..n : Before(s, i, i)
      /\ \A i, j \in 1..n : i # j => (Before(s, i, j) <=> ~Before(s, j, i))
      /\ \A i, j, k \in 1..n : Before(s, i, j) /\ Before(s, j, k) => Before(s, i, k)
  BY <1>1 DEF Before
<1>3. \A i, j \in 1..n : i # j /\ Before(s, i, j) => Position(s[i]) < Position(s[j])
  BY <1>1, PositionIs DEF Before
<1>4. IsFiniteSet(1..n) /\ Cardinality(1..n) = n
  <2>1. 1 \in Int /\ n \in Int
    BY <1>1
  <2>2. IsFiniteSet(1..n) /\ Cardinality(1..n) = IF 1 > n THEN 0 ELSE n - 1 + 1
    BY <2>1, FS_Interval
  <2> QED
    BY <1>1, <2>2
<1>5. Sorted(s) = [m \in DOMAIN s |-> s[at[m]]]
  BY DEF Sorted
<1>6. \A j \in 1..n : \A i \in 1..n : i \in before[j] <=> Before(s, i, j)
  OBVIOUS
<1>7. \A j \in 1..n : /\ before[j] \in SUBSET (1..n)
                      /\ before[j] = {i \in DOMAIN s : Before(s, i, j)}
  BY <1>1
<1> HIDE DEF before
<1>8. \A j \in 1..n : /\ IsFiniteSet(before[j]) /\ rank[j] = Cardinality(before[j])
                      /\ rank[j] \in 1..n
  <2> TAKE j \in 1..n
  <2>1. IsFiniteSet(before[j]) /\ Cardinality(before[j]) <= n
    BY <1>4, <1>7, FS_Subset
  <2>2. j \in before[j]
    BY <1>2, <1>6
  <2>3. Cardinality(before[j]) \in Nat /\ Cardinality(before[j]) # 0
    BY <2>1, <2>2, FS_CardinalityType, FS_EmptySet
  <2> QED
    BY <1>1, <2>1, <2>3
<1> HIDE DEF rank
<1>9. \A i, j \in 1..n : i # j /\ Before(s, i, j) => rank[i] < rank[j]
  <2> SUFFICES ASSUME NEW i \in 1..n, NEW j \in 1..n, i # j, Before(s, i, j)
               PROVE  rank[i] < rank[j]
    OBVIOUS
  <2>1. before[i] \in SUBSET before[j]
    BY <1>2, <1>6, <1>7
  <2>2. j \in before[j] /\ j \notin before[i]
    BY <1>2, <1>6
  <2>3. Cardinality(before[i]) <= Cardinality(before[j])
    BY <1>8, <2>1, FS_Subset
  <2>4. Cardinality(before[i]) # Cardinality(before[j])
    BY <1>8, <2>1, <2>2, FS_Subset
  <2> QED
    BY <1>8, <2>3, <2>4
<1>10. \A i, j \in 1..n : rank[i] = rank[j] => i = j
  BY <1>2, <1>8, <1>9
<1>11. \A m \in 1..n : \E j \in 1..n : rank[j] = m
  <2>1. rank \in [1..n -> 1..n]
    BY <1>8 DEF rank
  <2>2. rank \in Injection(1..n, 1..n)
    BY <1>10, <2>1, Fun_IsInj
  <2>3. rank \in Surjection(1..n, 1..n)
    BY <1>4, <2>2, FS_Injection
  <2> QED
    BY <2>3, Fun_SurjectionProperties
<1>12. \A m \in 1..n : at[m] \in 1..n /\ rank[at[m]] = m
  <2> TAKE m \in 1..n
  <2> DEFINE R(j) == Cardinality({i \in DOMAIN s : Before(s, i, j)})
  <2>1. \A j \in DOMAIN s : R(j) = rank[j]
    BY <1>1, <1>7, <1>8
  <2>2. at[m] = CHOOSE j \in DOMAIN s : R(j) = m
    BY <1>1
  <2> HIDE DEF R
  <2>3. \E j \in DOMAIN s : R(j) = m
    BY <1>1, <1>11, <2>1
  <2>4. at[m] \in DOMAIN s /\ R(at[m]) = m
    BY <2>2, <2>3
  <2> QED
    BY <1>1, <2>1, <2>4
<1> HIDE DEF at
<1>13. \A m \in 1..n : Sorted(s)[m] = s[at[m]]
  BY <1>1, <1>5
<1>14. Sorted(s) \in Seq(Path) /\ Len(Sorted(s)) = n /\ DOMAIN Sorted(s) = 1..n
  <2>1. Sorted(s) \in [1..n -> Path]
    BY <1>1, <1>5, <1>12
  <2> QED
    BY <1>1, <2>1
<1>15. Range(Sorted(s)) = Range(s)
  <2>1. \A m \in 1..n : Sorted(s)[m] \in Range(s)
    BY <1>1, <1>12, <1>13 DEF Range
  <2>2. \A j \in 1..n : Sorted(s)[rank[j]] = s[j]
    <3> TAKE j \in 1..n
    <3>1. rank[j] \in 1..n
      BY <1>8
    <3>2. at[rank[j]] \in 1..n /\ rank[at[rank[j]]] = rank[j]
      BY <1>12, <3>1
    <3>3. at[rank[j]] = j
      BY <1>10, <3>2
    <3> QED
      BY <1>13, <3>1, <3>3
  <2>3. \A j \in 1..n : s[j] \in Range(Sorted(s))
    <3>1. \A j \in 1..n : rank[j] \in DOMAIN Sorted(s)
      BY <1>8, <1>14
    <3> QED
      BY <2>2, <3>1 DEF Range
  <2> QED
    BY <1>1, <1>14, <2>1, <2>3 DEF Range
<1>16. ASSUME NEW i \in 1..n, NEW j \in 1..n, i < j
       PROVE  Position(Sorted(s)[i]) < Position(Sorted(s)[j])
  <2>1. at[i] # at[j] /\ ~(rank[at[j]] < rank[at[i]])
    BY <1>1, <1>12, <1>16
  <2>2. Before(s, at[i], at[j])
    BY <1>2, <1>9, <1>12, <2>1
  <2> QED
    BY <1>3, <1>12, <1>13, <2>1, <2>2
<1> QED
  BY <1>14, <1>15, <1>16

-----------------------------------------------------------------------------
\* The scan: its way through the directories

LEMMA FramesAre ==
  ASSUME NEW fs \in Seq(Frame), WayInv(fs)
  PROVE  /\ Len(fs) \in Nat \ {0} /\ Depth(fs) \in Nat /\ DOMAIN fs = 1..Len(fs)
         /\ Here(fs) \in Path /\ Len(Here(fs)) = Depth(fs) /\ Head(fs) = fs[1]
         /\ Head(fs).left = Left(fs, Depth(fs)) /\ Head(fs).left \subseteq FileNames
         /\ SubSeq(Here(fs), 1, Depth(fs)) = Here(fs)
         /\ \A k \in 0..Depth(fs) : /\ Len(fs) - k \in 1..Len(fs)
                                    /\ Left(fs, k) \subseteq FileNames
                                    /\ SubSeq(Here(fs), 1, k) \in Path
<1>1. /\ fs # <<>> /\ Len(fs) \in Nat \ {0} /\ DOMAIN fs = 1..Len(fs)
      /\ \A i \in 1..Len(fs) : fs[i].dir \in Path /\ fs[i].left \subseteq FileNames
  <2>1. fs # <<>>
    BY DEF WayInv
  <2>2. \A i \in 1..Len(fs) : fs[i] \in Frame
    BY ElementOfSeq
  <2>3. Len(fs) \in Nat \ {0} /\ DOMAIN fs = 1..Len(fs)
    BY <2>1, LenProperties, EmptySeq
  <2> QED
    BY <2>1, <2>2, <2>3 DEF Frame
<1>2. Head(fs) = fs[1] /\ Len(fs) - Depth(fs) = 1 /\ Depth(fs) \in Nat
  BY <1>1 DEF Depth
<1>3. Depth(fs) \in Nat /\ Here(fs) \in Path /\ Len(Here(fs)) = Depth(fs)
  <2>1. fs[1].dir \in Path
    BY <1>1
  <2>2. Len(Here(fs)) = Depth(fs)
    BY DEF WayInv
  <2> QED
    BY <1>2, <2>1, <2>2 DEF Here
<1>4. \A k \in 0..Depth(fs) : Len(fs) - k \in 1..Len(fs)
  BY <1>1 DEF Depth
<1>5. \A k \in 0..Depth(fs) : Left(fs, k) \subseteq FileNames /\ SubSeq(Here(fs), 1, k) \in Path
  BY <1>1, <1>3, <1>4, WayTo DEF Left
<1>6. SubSeq(Here(fs), 1, Depth(fs)) = Here(fs)
  <2>1. 0 \in 0..Len(Here(fs))
    BY <1>3
  <2> QED
    BY <1>3, <2>1, WayTo
<1>7. Head(fs).left = Left(fs, Depth(fs)) /\ Head(fs).left \subseteq FileNames
  <2>1. Head(fs).left = Left(fs, Depth(fs))
    BY <1>2 DEF Left
  <2> QED
    BY <1>3, <1>5, <2>1
<1> QED
  BY <1>1, <1>2, <1>3, <1>4, <1>5, <1>6, <1>7

(* What comes under an entry that was just visited comes no more, and      *)
(* nothing else is forgotten.                                              *)
LEMMA EntryVisited ==
  ASSUME NEW fs \in Seq(Frame), WayInv(fs), NEW name \in Head(fs).left, NEW gs,
         gs = <<[dir |-> Here(fs), left |-> Head(fs).left \ {name}]>> \o Tail(fs)
  PROVE  /\ gs \in Seq(Frame) /\ gs # <<>> /\ WayInv(gs)
         /\ Here(gs) = Here(fs) /\ Depth(gs) = Depth(fs) /\ name \notin Head(gs).left
         /\ Entry(fs, name) \in Path /\ From(Entry(fs, name)) \subseteq ToCome(fs)
         /\ ToCome(gs) = ToCome(fs) \ From(Entry(fs, name))
<1> DEFINE n == Depth(fs)
           d == Here(fs)
           p == Append(d, name)
           top == [dir |-> Here(fs), left |-> Head(fs).left \ {name}]
<1>1. /\ Len(fs) \in Nat \ {0} /\ n \in Nat /\ n + 1 = Len(fs) /\ d \in Path /\ Len(d) = n
      /\ DOMAIN fs = 1..Len(fs) /\ Head(fs) = fs[1] /\ Head(fs).left = Left(fs, n)
      /\ SubSeq(d, 1, n) = d /\ name \in FileNames
      /\ \A k \in 0..n : Len(fs) - k \in 1..Len(fs)
      /\ \A k \in 0..n : Left(fs, k) \subseteq FileNames /\ SubSeq(d, 1, k) \in Path
  <2>1. /\ Len(fs) \in Nat \ {0} /\ n \in Nat /\ d \in Path /\ Len(d) = n
        /\ DOMAIN fs = 1..Len(fs) /\ Head(fs) = fs[1] /\ Head(fs).left = Left(fs, n)
        /\ SubSeq(d, 1, n) = d /\ Head(fs).left \subseteq FileNames
        /\ \A k \in 0..n : /\ Len(fs) - k \in 1..Len(fs)
                          /\ Left(fs, k) \subseteq FileNames /\ SubSeq(d, 1, k) \in Path
    BY FramesAre
  <2>2. n = Len(fs) - 1
    BY DEF Depth
  <2> HIDE DEF n, d
  <2> QED
    BY <2>1, <2>2
<1>2. top = [dir |-> d, left |-> Left(fs, n) \ {name}] /\ top \in Frame
  <2>1. Head(fs) \in Frame /\ Head(fs).dir = d
    BY <1>1, ElementOfSeq DEF Here
  <2>2. top = [dir |-> d, left |-> Left(fs, n) \ {name}]
    BY <1>1, <2>1
  <2>4. Left(fs, n) \ {name} \in SUBSET FileNames
    BY <1>1
  <2> QED
    BY <1>1, <2>2, <2>4 DEF Frame
<1> HIDE DEF top
<1>3. /\ gs \in Seq(Frame) /\ Len(gs) = Len(fs) /\ gs[1] = top
      /\ \A i \in 2..Len(fs) : gs[i] = fs[i]
  <2>1. /\ Tail(fs) \in Seq(Frame) /\ Len(Tail(fs)) = Len(fs) - 1
        /\ \A i \in 1..(Len(fs) - 1) : Tail(fs)[i] = fs[i + 1]
    BY <1>1, HeadTailProperties DEF WayInv
  <2>2. <<top>> \in Seq(Frame) /\ Len(<<top>>) = 1 /\ <<top>>[1] = top
    BY <1>2
  <2>3. /\ gs \in Seq(Frame) /\ Len(gs) = 1 + (Len(fs) - 1)
        /\ \A i \in 1..(1 + (Len(fs) - 1)) :
             gs[i] = IF i <= 1 THEN <<top>>[i] ELSE Tail(fs)[i - 1]
    BY <2>1, <2>2, ConcatProperties DEF top
  <2> QED
    BY <1>1, <2>1, <2>2, <2>3
<1>4. gs # <<>> /\ Head(gs) = top /\ Depth(gs) = n /\ Here(gs) = d
  <2>1. Len(gs) # 0
    BY <1>1, <1>3
  <2>2. gs # <<>> /\ Head(gs) = gs[1]
    BY <1>3, <2>1, EmptySeq
  <2> QED
    BY <1>2, <1>3, <2>2 DEF Depth, Here
<1>5. /\ Left(gs, n) = Left(fs, n) \ {name}
      /\ \A k \in 0..n : k # n => Left(gs, k) = Left(fs, k)
      /\ \A k \in 0..n : gs[Len(gs) - k].dir = fs[Len(fs) - k].dir
  <2>1. Len(fs) - n = 1 /\ \A k \in 0..n : k # n => Len(fs) - k \in 2..Len(fs)
    BY <1>1
  <2>2. gs[1].dir = d /\ fs[1].dir = d
    BY <1>1, <1>2, <1>3 DEF Here
  <2> QED
    BY <1>2, <1>3, <2>1, <2>2 DEF Left
<1>6. \A k \in 0..n : Left(gs, k) \subseteq Left(fs, k)
  BY <1>5
<1>7. WayInv(gs)
  BY <1>1, <1>3, <1>4, <1>5, <1>6 DEF WayInv
<1>8. p \in Path /\ n \in 0..n
  <2>1. n \in 0..n /\ name \in Left(fs, n)
    BY <1>1
  <2>2. Append(SubSeq(d, 1, n), name) \in Path
    BY <2>1 DEF WayInv
  <2> QED
    BY <1>1, <2>1, <2>2
<1>9. /\ Len(p) = n + 1 /\ p[n + 1] = name /\ SubSeq(p, 1, n) = d
  BY <1>1, <1>8, EntryIs
<1>10. ToCome(gs) \subseteq ToCome(fs)
  BY <1>4, <1>6 DEF ToCome, Comes
<1>11. \A q \in Path : Len(q) > n /\ SubSeq(q, 1, n) = d =>
         (q[n + 1] = name <=> SubSeq(q, 1, n + 1) = p)
  BY <1>1, <1>8, BeginsWithEntry
<1> HIDE DEF p
<1>12. ASSUME NEW q \in Path, Len(q) >= Len(p), SubSeq(q, 1, Len(p)) = p
       PROVE  q \in ToCome(fs) /\ q \notin ToCome(gs)
  <2>1. Len(q) \in Nat /\ n + 1 <= Len(q)
    BY <1>9, <1>12, PathIs
  <2>2. \A k \in 0..n : q[k + 1] = p[k + 1]
    <3>1. \A i \in 1..(n + 1) : p[i] = q[i]
      <4>1. n + 1 \in 0..Len(q)
        BY <1>1, <2>1
      <4> QED
        BY <1>9, <1>12, <4>1, WayTo
    <3> QED
      BY <1>1, <3>1
  <2>3. \A k \in 0..n : k < n => p[k + 1] = d[k + 1]
    <3>1. \A i \in 1..n : p[i] = d[i]
      BY <1>1, <1>8, EntryIs DEF p
    <3> QED
      BY <1>1, <3>1
  <2>4. \A k \in 0..n : k < n => d[k + 1] \notin Left(fs, k)
    BY DEF WayInv
  <2>5. \A k \in 0..n : q[k + 1] \notin Left(gs, k)
    <3> SUFFICES ASSUME NEW k \in 0..n
                 PROVE  q[k + 1] \notin Left(gs, k)
      OBVIOUS
    <3>1. q[k + 1] = p[k + 1]
      BY <2>2
    <3>2. CASE k = n
      BY <1>5, <1>9, <3>1, <3>2
    <3>3. CASE k # n
      <4>1. k < n
        BY <1>1, <3>3
      <4>2. q[k + 1] \notin Left(fs, k)
        BY <2>3, <2>4, <3>1, <4>1
      <4> QED
        BY <1>6, <4>2
    <3> QED
      BY <3>2, <3>3
  <2>6. SubSeq(q, 1, n) = SubSeq(d, 1, n)
    <3>1. \A i \in 1..(n + 1) : p[i] = q[i]
      <4>1. n + 1 \in 0..Len(q)
        BY <1>1, <2>1
      <4> QED
        BY <1>9, <1>12, <4>1, WayTo
    <3>2. \A i \in 1..n : p[i] = d[i]
      BY <1>1, <1>8, EntryIs DEF p
    <3>3. \A i \in 1..n : q[i] = d[i]
      BY <1>1, <3>1, <3>2
    <3> QED
      BY <1>1, <2>1, <3>3, BeginAlike
  <2>7. Comes(fs, q, n)
    BY <1>1, <1>8, <1>9, <2>1, <2>2, <2>6 DEF Comes
  <2> QED
    BY <1>4, <1>8, <2>5, <2>7 DEF ToCome, Comes
<1>13. ASSUME NEW q \in ToCome(fs), q \notin ToCome(gs)
       PROVE  Len(q) >= Len(p) /\ SubSeq(q, 1, Len(p)) = p
  <2>1. PICK k \in 0..n : Comes(fs, q, k)
    BY DEF ToCome
  <2>2. q \in Path /\ Len(q) \in Nat
    BY PathIs DEF ToCome
  <2>3. ~Comes(gs, q, k)
    BY <1>4, <1>13, <2>1, <2>2 DEF ToCome
  <2>4. k = n /\ q[n + 1] = name
    BY <1>4, <1>5, <2>1, <2>3 DEF Comes
  <2>5. Len(q) > n /\ SubSeq(q, 1, n) = d
    BY <1>1, <2>1, <2>4 DEF Comes
  <2> QED
    BY <1>1, <1>9, <1>11, <2>2, <2>4, <2>5
<1>14. name \notin Head(gs).left
  BY <1>2, <1>4
<1>15. \A q \in Path : Len(q) >= Len(p) /\ SubSeq(q, 1, Len(p)) = p <=> q \in From(p)
  <2> SUFFICES ASSUME NEW q \in Path
               PROVE  Len(q) >= Len(p) /\ SubSeq(q, 1, Len(p)) = p <=> q \in From(p)
    OBVIOUS
  <2>1. Len(q) \in Nat /\ Len(p) \in Nat /\ SubSeq(q, 1, Len(q)) = q /\ SubSeq(p, 1, Len(p)) = p
    BY <1>8, PathIs, WayTo
  <2>2. CASE Len(q) = Len(p)
    BY <2>1, <2>2 DEF From, Below
  <2>3. CASE Len(q) # Len(p)
    <3>1. q # p
      BY <2>3
    <3>2. Len(q) >= Len(p) <=> Len(q) > Len(p)
      <4>1. \A a, b \in Nat : a # b => (a >= b <=> a > b)
        OBVIOUS
      <4>2. Len(q) \in Nat /\ Len(p) \in Nat
        BY <2>1
      <4> QED
        BY <2>3, <4>1, <4>2
    <3> QED
      BY <3>1, <3>2 DEF From, Below
  <2> QED
    BY <2>2, <2>3
<1>16. From(p) \subseteq ToCome(fs) /\ ToCome(gs) = ToCome(fs) \ From(p)
  <2>1. From(p) \subseteq Path /\ ToCome(fs) \subseteq Path /\ ToCome(gs) \subseteq Path
    BY <1>8 DEF From, Below, ToCome
  <2> QED
    BY <1>10, <1>12, <1>13, <1>15, <2>1
<1>17. Entry(fs, name) = p
  BY DEF Entry, p
<1> QED
  BY <1>3, <1>4, <1>7, <1>8, <1>14, <1>16, <1>17

(* Entering a directory puts its entries before what was to come.          *)
LEMMA DirectoryEntered ==
  ASSUME NEW gs \in Seq(Frame), WayInv(gs), NEW p \in Path, Len(p) = Depth(gs) + 1,
         SubSeq(p, 1, Depth(gs)) = Here(gs), p[Len(p)] \notin Head(gs).left,
         Depth(gs) < MaxDepth, NEW left \in SUBSET FileNames,
         \A name \in left : Append(p, name) \in Path,
         NEW hs, hs = <<[dir |-> p, left |-> left]>> \o gs
  PROVE  /\ hs \in Seq(Frame) /\ hs # <<>> /\ WayInv(hs)
         /\ ToCome(hs) = ToCome(gs) \union {q \in Below(p) : q[Len(p) + 1] \in left}
<1> DEFINE n == Depth(gs)
           top == [dir |-> p, left |-> left]
<1>1. /\ Len(gs) \in Nat \ {0} /\ n \in Nat /\ n + 1 = Len(gs) /\ Here(gs) \in Path
      /\ Len(Here(gs)) = n /\ DOMAIN gs = 1..Len(gs) /\ Head(gs).left = Left(gs, n)
      /\ \A k \in 0..n : Len(gs) - k \in 1..Len(gs)
  BY FramesAre DEF Depth
<1>2. top \in Frame
  BY DEF Frame
<1> HIDE DEF top
<1>3. /\ hs \in Seq(Frame) /\ Len(hs) = Len(gs) + 1 /\ hs[1] = top
      /\ \A i \in 2..(Len(gs) + 1) : hs[i] = gs[i - 1]
  <2>1. <<top>> \in Seq(Frame) /\ Len(<<top>>) = 1 /\ <<top>>[1] = top
    BY <1>2
  <2>2. /\ hs \in Seq(Frame) /\ Len(hs) = 1 + Len(gs)
        /\ \A i \in 1..(1 + Len(gs)) : hs[i] = IF i <= 1 THEN <<top>>[i] ELSE gs[i - 1]
    BY <2>1, ConcatProperties DEF top
  <2> QED
    BY <1>1, <2>1, <2>2
<1>4. hs # <<>> /\ Head(hs) = top /\ Depth(hs) = n + 1 /\ Here(hs) = p
  <2>1. Len(hs) # 0
    BY <1>1, <1>3
  <2>2. hs # <<>> /\ Head(hs) = hs[1]
    BY <1>3, <2>1, EmptySeq
  <2> QED
    BY <1>1, <1>3, <2>2 DEF Depth, Here, top
<1>5. /\ Left(hs, n + 1) = left /\ hs[Len(hs) - (n + 1)].dir = p
      /\ \A k \in 0..n : Left(hs, k) = Left(gs, k) /\ hs[Len(hs) - k].dir = gs[Len(gs) - k].dir
  <2>1. Len(hs) - (n + 1) = 1
    BY <1>1, <1>3
  <2>2. Left(hs, n + 1) = left /\ hs[Len(hs) - (n + 1)].dir = p
    BY <1>3, <2>1 DEF Left, top
  <2>3. ASSUME NEW k \in 0..n
        PROVE  hs[Len(hs) - k] = gs[Len(gs) - k]
    <3>1. Len(hs) - k \in 2..(Len(gs) + 1) /\ Len(hs) - k - 1 = Len(gs) - k
      BY <1>1, <1>3
    <3> QED
      BY <1>3, <3>1
  <2> QED
    BY <2>2, <2>3 DEF Left
<1>6. \A k \in 0..n : SubSeq(p, 1, k) = SubSeq(Here(gs), 1, k)
  <2> TAKE k \in 0..n
  <2>1. \A i \in 1..n : p[i] = Here(gs)[i]
    <3>1. n \in 0..Len(p)
      BY <1>1
    <3> QED
      BY <3>1, WayTo
  <2>2. \A i \in 1..k : p[i] = Here(gs)[i]
    BY <1>1, <2>1
  <2>3. k \in Nat /\ k <= Len(p) /\ k <= Len(Here(gs))
    BY <1>1
  <2> QED
    BY <1>1, <2>2, <2>3, BeginAlike
<1>7. \A k \in 0..n : k < n => p[k + 1] = Here(gs)[k + 1]
  <2>1. n \in 0..Len(p)
    BY <1>1
  <2>2. \A i \in 1..n : p[i] = Here(gs)[i]
    BY <2>1, WayTo
  <2>3. \A k \in 0..n : k < n => k + 1 \in 1..n
    BY <1>1
  <2> QED
    BY <2>2, <2>3
<1>8. SubSeq(p, 1, n + 1) = p
  <2>1. 0 \in 0..Len(p)
    BY <1>1
  <2> QED
    BY <2>1, WayTo
<1>9. \A k \in 0..(n + 1) : k \in 0..n \/ k = n + 1
  BY <1>1
<1>10. WayInv(hs)
  <2>1. Len(Here(hs)) = Depth(hs) /\ Depth(hs) <= MaxDepth
    BY <1>1, <1>4, CatalogAssumption
  <2>2. ASSUME NEW k \in 0..n
        PROVE  /\ hs[Len(hs) - k].dir = SubSeq(p, 1, k)
               /\ \A name \in Left(hs, k) : Append(SubSeq(p, 1, k), name) \in Path
    BY <1>5, <1>6 DEF WayInv
  <2>3. ASSUME NEW k \in 0..n
        PROVE  p[k + 1] \notin Left(hs, k)
    <3>1. CASE k = n
      BY <1>1, <1>5, <3>1
    <3>2. CASE k < n
      BY <1>5, <1>7, <3>2 DEF WayInv
    <3> QED
      BY <1>1, <3>1, <3>2
  <2>4. /\ hs[Len(hs) - (n + 1)].dir = SubSeq(p, 1, n + 1)
        /\ \A name \in Left(hs, n + 1) : Append(SubSeq(p, 1, n + 1), name) \in Path
    BY <1>5, <1>8
  <2>5. ~(n + 1 < n + 1)
    BY <1>1
  <2>6. \A k \in 0..(n + 1) :
          /\ hs[Len(hs) - k].dir = SubSeq(p, 1, k)
          /\ \A name \in Left(hs, k) : Append(SubSeq(p, 1, k), name) \in Path
          /\ k < n + 1 => p[k + 1] \notin Left(hs, k)
    BY <1>9, <2>2, <2>3, <2>4, <2>5
  <2> QED
    BY <1>4, <2>1, <2>6 DEF WayInv
<1>11. \A q, k : k \in 0..n => (Comes(hs, q, k) <=> Comes(gs, q, k))
  BY <1>4, <1>5, <1>6 DEF Comes
<1>12. \A q : Comes(hs, q, n + 1)
                <=> Len(q) > n + 1 /\ SubSeq(q, 1, n + 1) = p /\ q[n + 1 + 1] \in left
  BY <1>4, <1>5, <1>8 DEF Comes
<1>13. \A q \in Path : q \in ToCome(hs) <=> q \in ToCome(gs) \/ Comes(hs, q, n + 1)
  <2>1. n + 1 \in 0..(n + 1) /\ \A k \in 0..n : k \in 0..(n + 1)
    BY <1>1
  <2> QED
    BY <1>4, <1>9, <1>11, <2>1 DEF ToCome
<1>14. ToCome(hs) \subseteq Path /\ ToCome(gs) \subseteq Path
  BY DEF ToCome
<1> HIDE DEF n
<1>15. \A q \in Path : q \in ToCome(hs) <=> 
         q \in ToCome(gs) \/ (Len(q) > Len(p) /\ SubSeq(q, 1, Len(p)) = p /\ q[Len(p) + 1] \in left)
  BY <1>12, <1>13 DEF n
<1> QED
  BY <1>3, <1>4, <1>10, <1>14, <1>15 DEF Below

(* Leaving a directory that has been read forgets nothing.                 *)
LEMMA DirectoryLeft ==
  ASSUME NEW fs \in Seq(Frame), WayInv(fs), Head(fs).left = {}
  PROVE  /\ Tail(fs) \in Seq(Frame)
         /\ Tail(fs) # <<>> => WayInv(Tail(fs)) /\ ToCome(Tail(fs)) = ToCome(fs)
         /\ Tail(fs) = <<>> => ToCome(fs) = {}
<1> DEFINE n == Depth(fs)
           gs == Tail(fs)
<1>1. /\ Len(fs) \in Nat \ {0} /\ n \in Nat /\ n + 1 = Len(fs) /\ Here(fs) \in Path
      /\ Len(Here(fs)) = n /\ DOMAIN fs = 1..Len(fs) /\ Left(fs, n) = {} /\ fs # <<>>
      /\ \A k \in 0..n : Len(fs) - k \in 1..Len(fs)
  <2>1. fs # <<>>
    BY DEF WayInv
  <2> QED
    BY <2>1, FramesAre DEF Depth
<1>2. /\ gs \in Seq(Frame) /\ Len(gs) = Len(fs) - 1
      /\ \A i \in 1..(Len(fs) - 1) : gs[i] = fs[i + 1]
  BY <1>1, HeadTailProperties
<1> HIDE DEF gs
<1>3. \A q : ~Comes(fs, q, n)
  BY <1>1 DEF Comes
<1>4. CASE gs = <<>>
  <2>1. Len(gs) = 0
    BY <1>4, EmptySeq
  <2>2. n = 0
    <3>1. Len(fs) - 1 = 0 /\ n = Len(fs) - 1
      BY <1>2, <2>1 DEF Depth
    <3> QED
      BY <3>1
  <2>3. \A k \in 0..n : k = n
    BY <2>2
  <2> QED
    BY <1>2, <1>3, <1>4, <2>3 DEF ToCome, gs
<1>5. CASE gs # <<>>
  <2>1. Len(gs) \in Nat \ {0} /\ Depth(gs) = n - 1 /\ n - 1 \in Nat /\ Head(gs) = gs[1]
    BY <1>1, <1>2, <1>5, EmptySeq DEF Depth
  <2>2. ASSUME NEW k \in 0..(n - 1)
        PROVE  gs[Len(gs) - k] = fs[Len(fs) - k]
    <3>1. Len(gs) - k \in 1..(Len(fs) - 1) /\ Len(gs) - k + 1 = Len(fs) - k
      BY <1>1, <1>2
    <3> QED
      BY <1>2, <3>1
  <2>3. \A k \in 0..(n - 1) : k \in 0..n /\ k # n /\ k < n
    BY <1>1
  <2>4. /\ Here(gs) = SubSeq(Here(fs), 1, n - 1)
        /\ Len(Here(gs)) = n - 1 /\ Here(gs) \in Path
    <3>1. n - 1 \in 0..(n - 1) /\ n - 1 \in 0..Len(Here(fs)) /\ Len(gs) - (n - 1) = 1
      BY <1>1, <1>2, <2>1
    <3>2. gs[1] = fs[Len(fs) - (n - 1)]
      BY <2>2, <3>1
    <3>3. fs[Len(fs) - (n - 1)].dir = SubSeq(Here(fs), 1, n - 1)
      BY <2>3, <3>1 DEF WayInv
    <3>4. Here(gs) = SubSeq(Here(fs), 1, n - 1)
      BY <2>1, <3>2, <3>3 DEF Here
    <3>5. SubSeq(Here(fs), 1, n - 1) \in Path /\ Len(SubSeq(Here(fs), 1, n - 1)) = n - 1
      BY <1>1, <3>1, WayTo
    <3> QED
      BY <3>4, <3>5
  <2>5. \A k \in 0..(n - 1) : SubSeq(Here(gs), 1, k) = SubSeq(Here(fs), 1, k)
    <3> TAKE k \in 0..(n - 1)
    <3>1. n - 1 \in 0..Len(Here(fs)) /\ k \in Nat /\ k <= Len(Here(gs)) /\ k <= Len(Here(fs))
      BY <1>1, <2>1, <2>4
    <3>2. \A i \in 1..(n - 1) : Here(gs)[i] = Here(fs)[i]
      BY <1>1, <2>4, <3>1, WayTo
    <3>3. \A i \in 1..k : Here(gs)[i] = Here(fs)[i]
      BY <2>1, <3>2
    <3> QED
      BY <1>1, <2>4, <3>1, <3>3, BeginAlike
  <2>6. \A k \in 0..(n - 1) : k < n - 1 => Here(gs)[k + 1] = Here(fs)[k + 1]
    <3>1. n - 1 \in 0..Len(Here(fs)) /\ \A k \in 0..(n - 1) : k < n - 1 => k + 1 \in 1..(n - 1)
      BY <1>1, <2>1
    <3> QED
      BY <1>1, <2>4, <3>1, WayTo
  <2>7. \A k \in 0..(n - 1) : Left(gs, k) = Left(fs, k)
    BY <2>2 DEF Left
  <2>8. WayInv(gs)
    <3>1. Depth(gs) <= MaxDepth
      BY <1>1, <2>1, CatalogAssumption DEF WayInv
    <3>2. ASSUME NEW k \in 0..(n - 1)
          PROVE  /\ gs[Len(gs) - k].dir = SubSeq(Here(gs), 1, k)
                 /\ \A name \in Left(gs, k) : Append(SubSeq(Here(gs), 1, k), name) \in Path
                 /\ k < n - 1 => Here(gs)[k + 1] \notin Left(gs, k)
      BY <2>2, <2>3, <2>5, <2>6, <2>7 DEF WayInv
    <3> QED
      BY <1>5, <2>1, <2>4, <3>1, <3>2 DEF WayInv
  <2>9. \A q, k : k \in 0..(n - 1) => (Comes(gs, q, k) <=> Comes(fs, q, k))
    BY <2>5, <2>7 DEF Comes
  <2>10. \A k \in 0..n : k = n \/ k \in 0..(n - 1)
    BY <1>1, <2>1
  <2>11. ToCome(gs) = ToCome(fs)
    BY <1>3, <2>1, <2>3, <2>9, <2>10 DEF ToCome
  <2> QED
    BY <1>2, <1>5, <2>8, <2>11 DEF gs
<1> QED
  BY <1>4, <1>5

(* What opendir and readdir give.                                          *)
LEMMA OpenedIs ==
  ASSUME DiskInv, NEW d \in Path
  PROVE  /\ Opened(d) = [dir |-> d, left |-> Opened(d).left]
         /\ Opened(d).left \in SUBSET FileNames
         /\ \A name \in Opened(d).left : Append(d, name) \in Path
         /\ \A q \in Path : /\ Len(q) > Len(d) /\ SubSeq(q, 1, Len(d)) = d /\ disk[q] # "absent"
                            => q[Len(d) + 1] \in Opened(d).left
<1> DEFINE there == {q \in Below(d) : Len(q) = Len(d) + 1 /\ disk[q] # "absent"}
<1>1. Opened(d) = [dir |-> d, left |-> {Name(q) : q \in there}]
  BY DEF Opened
<1>2. ASSUME NEW q \in there
      PROVE  Name(q) \in FileNames /\ Append(d, Name(q)) = q
  <2>1. q \in Path /\ Len(q) = Len(d) + 1 /\ SubSeq(q, 1, Len(d)) = d
    BY DEF Below
  <2>2. Len(d) \in Nat /\ d \in Seq(FileNames) /\ q \in Seq(FileNames) /\ Name(q) = q[Len(d) + 1]
    BY <2>1, PathIs DEF Name
  <2>3. Name(q) \in FileNames
    BY <2>1, <2>2, PathIs
  <2>4. /\ Append(d, Name(q)) \in Seq(FileNames) /\ Len(Append(d, Name(q))) = Len(d) + 1
        /\ \A i \in 1..Len(d) : Append(d, Name(q))[i] = d[i]
        /\ Append(d, Name(q))[Len(d) + 1] = Name(q)
    BY <2>2, <2>3, AppendProperties
  <2>5. \A i \in 1..Len(d) : q[i] = d[i]
    <3>1. Len(d) \in 0..Len(q)
      BY <2>1, <2>2
    <3> QED
      BY <2>1, <3>1, WayTo
  <2>6. \A i \in 1..(Len(d) + 1) : i \in 1..Len(d) \/ i = Len(d) + 1
    BY <2>2
  <2>7. \A i \in 1..Len(q) : Append(d, Name(q))[i] = q[i]
    BY <2>1, <2>2, <2>4, <2>5, <2>6
  <2> QED
    BY <2>1, <2>2, <2>3, <2>4, <2>7, SeqEqual
<1>3. ASSUME NEW q \in Path, Len(q) > Len(d), SubSeq(q, 1, Len(d)) = d, disk[q] # "absent"
      PROVE  \E e \in there : Name(e) = q[Len(d) + 1]
  <2> DEFINE n == Len(d)
             e == SubSeq(q, 1, n + 1)
  <2>1. n \in Nat /\ Len(q) \in Nat /\ n + 1 \in 0..Len(q) /\ n \in 0..Len(q)
    BY <1>3, PathIs
  <2>2. e \in Path /\ Len(e) = n + 1 /\ \A i \in 1..(n + 1) : e[i] = q[i]
    BY <2>1, WayTo
  <2>3. SubSeq(e, 1, n) = d
    BY <1>3, <2>1, <2>2, BeginAlike
  <2>4. Name(e) = q[n + 1]
    BY <2>1, <2>2 DEF Name
  <2>5. disk[e] # "absent"
    <3>1. CASE Len(q) = n + 1
      BY <1>3, <2>1, <3>1, WayTo
    <3>2. CASE Len(q) > n + 1
      <4>1. q \in Below(e)
        BY <2>2, <3>2 DEF Below
      <4> QED
        BY <1>3, <2>2, <4>1 DEF DiskInv
    <3> QED
      BY <2>1, <3>1, <3>2
  <2> HIDE DEF e
  <2>6. e \in Below(d)
    BY <2>1, <2>2, <2>3 DEF Below
  <2>7. e \in there
    BY <2>2, <2>5, <2>6
  <2> QED
    BY <2>4, <2>7
<1> HIDE DEF there
<1>4. \A name \in Opened(d).left : \E q \in there : name = Name(q)
  BY <1>1
<1>5. \A q \in there : Name(q) \in Opened(d).left
  BY <1>1
<1>6. \A q \in there : q \in Path
  BY DEF there, Below
<1>7. \A name \in Opened(d).left : name \in FileNames /\ Append(d, name) \in Path
  BY <1>2, <1>4, <1>6
<1>8. Opened(d) = [dir |-> d, left |-> Opened(d).left]
  BY <1>1
<1> QED
  BY <1>3, <1>5, <1>7, <1>8

-----------------------------------------------------------------------------
\* The scan: its steps

(* A step that completes no scan leaves the list in force as it is; one    *)
(* that does puts in force what it found.                                  *)
Kept == Active' = Active /\ ~(Scanning /\ ~Scanning' /\ result' = "OK")

Completed ==
  /\ Scanning /\ ~Scanning' /\ result' = "OK"
  /\ \A p \in Path \ {Root} :
       disk[p] = "file" /\ Listable(p) /\ p \in steady => p \in Range(Active')
  /\ \A p \in Range(Active') : Listable(p) /\ (p \in steady => disk[p] = "file")

LEMMA ScanTypes ==
  ASSUME ScanInv
  PROVE  /\ disk \in [Path -> EntryKind] /\ DiskInv
         /\ entries \in [{0, 1} -> Seq(Path)] /\ \A c \in {0, 1} : Len(entries[c]) <= MaxFiles
         /\ activeCatalog \in {0, 1} /\ Candidate \in {0, 1} /\ Candidate # activeCatalog
         /\ result \in Result /\ frames \in Seq(Frame) /\ steady \subseteq Path
         /\ changes \in 0..MaxChanges /\ MaxChanges \in Nat
BY CatalogAssumption DEF ScanInv, ScanTypeOK, Frame, Candidate

(* A call fails: the scan ends and the list in force stays.                *)
LEMMA FailKeeps ==
  ASSUME ScanInv, NEW why \in Result \ {"OK"}, Fails(why), UNCHANGED <<disk, activeCatalog, changes>>,
         steady' \subseteq Path, entries' = entries
  PROVE  ScanInv' /\ Kept
<1>1. ~Scanning' /\ result' \in Result /\ result' # "OK" /\ frames' \in Seq(Frame)
  <2>1. frames' = <<>> /\ <<>> \in Seq(Frame)
    BY EmptySeq DEF Fails
  <2> QED
    BY <2>1 DEF Scanning, Fails
<1>2. ScanTypeOK'
  BY <1>1, ScanTypes DEF ScanTypeOK, Frame
<1>3. Active' = Active
  BY DEF Active
<1>4. ListedInOrder' /\ DiskInv'
  BY <1>3 DEF ScanInv, ListedInOrder, DiskInv
<1> QED
  BY <1>1, <1>2, <1>3, <1>4 DEF ScanInv, Kept

(* Other programs change the disk: only what they leave alone stays steady.*)
LEMMA DiskKeeps ==
  ASSUME ScanInv, NEW p \in Path, NEW kind \in Kinds[p], DiskChanges(p, kind)
  PROVE  ScanInv' /\ Kept
<1>1. /\ disk' = [q \in Path |-> IF q = p THEN kind ELSE IF q \in Below(p) THEN "absent" ELSE disk[q]]
      /\ p # Root => disk[Parent(p)] = "directory"
      /\ \A q \in steady' : q \in steady /\ disk'[q] = disk[q]
      /\ changes < MaxChanges /\ changes' = changes + 1
      /\ UNCHANGED <<entries, activeCatalog, result, frames>>
  BY DEF DiskChanges
<1>2. ScanTypeOK'
  <2>1. kind \in EntryKind
    BY CatalogAssumption
  <2>2. disk' \in [Path -> EntryKind]
    BY <1>1, <2>1, ScanTypes DEF EntryKind
  <2>3. steady' \subseteq Path
    BY <1>1, ScanTypes
  <2> QED
    BY <1>1, <2>2, <2>3, ScanTypes DEF ScanTypeOK, Frame
<1>3. DiskInv'
  <2> SUFFICES ASSUME NEW a \in Path, NEW b \in Below(a), disk'[b] # "absent"
               PROVE  disk'[a] = "directory"
    BY DEF DiskInv, Below
  <2>1. b \in Path /\ Len(b) > Len(a) /\ SubSeq(b, 1, Len(a)) = a /\ Len(a) \in Nat /\ Len(b) \in Nat
    BY PathIs DEF Below
  <2>2. a # b /\ (b = p \/ b \notin Below(p))
    BY <1>1, <2>1
  <2>3. a # p /\ a \notin Below(p)
    <3>1. a # p
      BY <1>1, <2>1, <2>2
    <3>2. ASSUME a \in Below(p)
          PROVE  b \in Below(p)
      <4>1. Len(a) > Len(p) /\ SubSeq(a, 1, Len(p)) = p /\ Len(p) \in Nat
        BY <3>2, PathIs DEF Below
      <4>2. \A i \in 1..Len(a) : a[i] = b[i]
        <5>1. Len(a) \in 0..Len(b)
          BY <2>1
        <5> QED
          BY <2>1, <5>1, WayTo
      <4>3. \A i \in 1..Len(p) : a[i] = b[i]
        BY <2>1, <4>1, <4>2
      <4>4. SubSeq(b, 1, Len(p)) = p
        BY <2>1, <4>1, <4>3, BeginAlike
      <4> QED
        BY <2>1, <4>1, <4>4 DEF Below
    <3>3. ASSUME a \in Below(p)
          PROVE  b # p
      BY <2>1, <3>3, PathIs DEF Below
    <3> QED
      BY <2>2, <3>1, <3>2, <3>3
  <2>4. disk'[a] = disk[a]
    BY <1>1, <2>3
  <2>5. CASE b = p
    <3>1. p # Root /\ Parent(p) \in Path /\ Len(Parent(p)) = Len(b) - 1 /\ Parent(p) = SubSeq(b, 1, Len(b) - 1)
      <4>1. Len(b) - 1 \in 0..Len(b) /\ Len(b) # 0
        BY <2>1
      <4> QED
        BY <2>1, <2>5, <4>1, PathIs, WayTo DEF Parent
    <3>2. disk[Parent(p)] = "directory"
      BY <1>1, <3>1
    <3>3. CASE Len(a) = Len(b) - 1
      BY <2>1, <2>4, <3>1, <3>2, <3>3
    <3>4. CASE Len(a) # Len(b) - 1
      <4>1. Len(a) < Len(b) - 1 /\ Len(b) - 1 \in 0..Len(b) /\ Len(a) \in 0..Len(b)
        BY <2>1, <3>4
      <4>2. \A i \in 1..Len(a) : Parent(p)[i] = b[i]
        <5>1. \A i \in 1..(Len(b) - 1) : Parent(p)[i] = b[i]
          BY <2>1, <3>1, <4>1, WayTo
        <5> QED
          BY <2>1, <4>1, <5>1
      <4>3. SubSeq(Parent(p), 1, Len(a)) = a
        BY <2>1, <3>1, <4>1, <4>2, BeginAlike
      <4>4. Parent(p) \in Below(a)
        BY <3>1, <4>1, <4>3 DEF Below
      <4> QED
        BY <2>4, <3>2, <4>4 DEF ScanInv, DiskInv
    <3> QED
      BY <3>3, <3>4
  <2>6. CASE b # p
    <3>1. disk[b] # "absent"
      BY <1>1, <2>1, <2>2, <2>6
    <3> QED
      BY <2>4, <3>1 DEF ScanInv, DiskInv
  <2> QED
    BY <2>5, <2>6
<1>4. Active' = Active /\ entries'[Candidate'] = entries[Candidate] /\ Scanning' = Scanning
  BY <1>1 DEF Active, Candidate, Scanning
<1>5. ListedInOrder'
  BY <1>4 DEF ScanInv, ListedInOrder
<1>6. ASSUME Scanning
      PROVE  FoundInv(entries[Candidate])' /\ CoverInv(entries[Candidate])'
  <2>1. FoundInv(entries[Candidate]) /\ CoverInv(entries[Candidate])
    BY <1>6 DEF ScanInv
  <2>2. FoundInv(entries[Candidate])'
    BY <1>1, <1>4, <2>1 DEF FoundInv, Listable
  <2>3. CoverInv(entries[Candidate])'
    BY <1>1, <1>4, <2>1 DEF CoverInv, Listable
  <2> QED
    BY <2>2, <2>3
<1>7. Scanning => result' = "OK" /\ WayInv(frames')
  BY <1>1 DEF ScanInv
<1> QED
  BY <1>2, <1>3, <1>4, <1>5, <1>6, <1>7 DEF ScanInv, Kept

(* What a scan has to keep as it goes, with the same disk and list.        *)
LEMMA GoesOn ==
  ASSUME ScanInv, frames' \in Seq(Frame), WayInv(frames'), result' = "OK",
         UNCHANGED <<disk, activeCatalog, changes>>, steady' \subseteq Path,
         entries' \in [{0, 1} -> Seq(Path)], entries'[activeCatalog] = entries[activeCatalog],
         Len(entries'[Candidate]) <= MaxFiles,
         FoundInv(entries[Candidate])', CoverInv(entries[Candidate])'
  PROVE  ScanInv' /\ Kept
<1>1. \A c \in {0, 1} : Len(entries'[c]) <= MaxFiles
  <2>1. \A c \in {0, 1} : c = activeCatalog \/ c = Candidate
    BY ScanTypes DEF Candidate
  <2> QED
    BY <2>1, ScanTypes
<1>2. ScanTypeOK'
  BY <1>1, ScanTypes DEF ScanTypeOK, Frame, Result
<1>3. Active' = Active
  BY DEF Active
<1>4. ListedInOrder' /\ DiskInv'
  BY <1>3 DEF ScanInv, ListedInOrder, DiskInv
<1>5. Scanning'
  BY DEF Scanning, WayInv
<1> QED
  BY <1>2, <1>3, <1>4, <1>5 DEF ScanInv, Kept

(* A scan begins: all that is there comes.                                 *)
LEMMA ScanKeeps ==
  ASSUME ScanInv, Scan
  PROVE  ScanInv' /\ Kept
<1>1. ~Scanning /\ steady' = Path /\ UNCHANGED <<disk, activeCatalog, changes>>
  BY DEF Scan
<1>2. ASSUME NEW why \in RootUnresolved \union {"ROOT_NOT_FOUND", "SCAN_FAILED"}
      PROVE  why \in Result \ {"OK"}
  BY <1>2 DEF RootUnresolved, ExecutableUnknown, Result
<1>3. ASSUME NEW why \in RootUnresolved \union {"ROOT_NOT_FOUND"}, Fails(why), UNCHANGED entries
      PROVE  ScanInv' /\ Kept
  BY <1>1, <1>2, <1>3, FailKeeps
<1>4. CASE entries' = [entries EXCEPT ![Candidate] = <<>>] /\ Opens(Root, <<>>)
  <2>1. /\ entries' \in [{0, 1} -> Seq(Path)] /\ entries'[activeCatalog] = entries[activeCatalog]
        /\ entries'[Candidate] = <<>> /\ Candidate' = Candidate
        /\ \A c \in {0, 1} : Len(entries'[c]) <= MaxFiles
    BY <1>1, <1>4, ScanTypes, EmptySeq, CatalogAssumption DEF Candidate
  <2>2. CASE Fails("SCAN_FAILED")
    <3>1. ~Scanning' /\ result' = "SCAN_FAILED" /\ frames' = <<>> /\ <<>> \in Seq(Frame)
      BY <2>2, EmptySeq DEF Fails, Scanning
    <3>2. ScanTypeOK'
      BY <1>1, <2>1, <3>1, ScanTypes DEF ScanTypeOK, Frame, Result
    <3>3. Active' = Active
      BY <1>1, <2>1 DEF Active
    <3>4. ListedInOrder' /\ DiskInv'
      BY <1>1, <3>3 DEF ScanInv, ListedInOrder, DiskInv
    <3> QED
      BY <1>1, <3>1, <3>2, <3>3, <3>4 DEF ScanInv, Kept
  <2>3. CASE disk[Root] = "directory" /\ frames' = <<Opened(Root)>> \o <<>> /\ result' = "OK"
    <3> DEFINE left == Opened(Root).left
    <3>1. /\ Root \in Path /\ Len(Root) = 0 /\ Opened(Root) = [dir |-> Root, left |-> left]
          /\ left \in SUBSET FileNames /\ \A name \in left : Append(Root, name) \in Path
          /\ \A q \in Path : Len(q) > 0 /\ disk[q] # "absent" => q[1] \in left
      <4>1. Root \in Path /\ Len(Root) = 0 /\ DiskInv
        BY CatalogAssumption, ScanTypes DEF Root
      <4>2. \A q \in Path : SubSeq(q, 1, 0) = Root
        BY <4>1, PathIs, WayTo
      <4>3. /\ Opened(Root) = [dir |-> Root, left |-> left]
            /\ left \in SUBSET FileNames /\ \A name \in left : Append(Root, name) \in Path
            /\ \A q \in Path : /\ Len(q) > Len(Root) /\ SubSeq(q, 1, Len(Root)) = Root
                               /\ disk[q] # "absent"
                               => q[Len(Root) + 1] \in left
        BY <4>1, OpenedIs
      <4> HIDE DEF left
      <4>4. \A q \in Path : Len(q) > 0 /\ disk[q] # "absent" => q[1] \in left
        <5> SUFFICES ASSUME NEW q \in Path, Len(q) > 0, disk[q] # "absent"
                     PROVE  q[1] \in left
          OBVIOUS
        <5>1. SubSeq(q, 1, Len(Root)) = Root /\ Len(Root) + 1 = 1 /\ Len(q) > Len(Root)
          BY <4>1, <4>2
        <5> QED
          BY <4>3, <5>1
      <4> QED
        BY <4>1, <4>3, <4>4
    <3> HIDE DEF left
    <3>2. Opened(Root) \in Frame
      BY <3>1 DEF Frame
    <3>3. frames' = <<Opened(Root)>> /\ frames' \in Seq(Frame) /\ Len(frames') = 1 /\ frames' # <<>>
      BY <2>3, <3>2
    <3>4. frames'[1] = [dir |-> Root, left |-> left] /\ Head(frames') = frames'[1]
      BY <3>1, <3>3
    <3>5. Here(frames') = Root /\ Depth(frames') = 0 /\ Left(frames', 0) = left
      BY <3>3, <3>4 DEF Here, Depth, Left
    <3>6. SubSeq(Root, 1, 0) = Root
      BY SubSeqEmpty DEF Root
    <3>7. WayInv(frames')
      <4>1. Len(Here(frames')) = Depth(frames') /\ Depth(frames') <= MaxDepth
        BY <3>1, <3>5, CatalogAssumption
      <4>2. ASSUME NEW k \in 0..Depth(frames')
            PROVE  /\ frames'[Len(frames') - k].dir = SubSeq(Here(frames'), 1, k)
                   /\ \A name \in Left(frames', k) : Append(SubSeq(Here(frames'), 1, k), name) \in Path
                   /\ ~(k < Depth(frames'))
        <5>1. k = 0 /\ Len(frames') - k = 1
          BY <3>3, <3>5
        <5>2. frames'[Len(frames') - k].dir = Root /\ Left(frames', k) = left
          <6>1. frames'[Len(frames') - k] = [dir |-> Root, left |-> left]
            BY <3>4, <5>1
          <6> QED
            BY <6>1 DEF Left
        <5>3. SubSeq(Here(frames'), 1, k) = Root
          BY <3>5, <3>6, <5>1
        <5>4. ~(k < Depth(frames'))
          BY <3>5, <5>1
        <5> QED
          BY <3>1, <5>2, <5>3, <5>4
      <4> QED
        BY <3>3, <4>1, <4>2 DEF WayInv
    <3>8. \A q \in Path \ {Root} : disk[q] # "absent" => q \in ToCome(frames')
      <4> SUFFICES ASSUME NEW q \in Path \ {Root}, disk[q] # "absent"
                   PROVE  q \in ToCome(frames')
        OBVIOUS
      <4>1. Len(q) > 0 /\ SubSeq(q, 1, 0) = Root
        BY PathIs, WayTo
      <4>2. Comes(frames', q, 0)
        BY <3>1, <3>5, <3>6, <4>1 DEF Comes
      <4> QED
        BY <3>5, <4>2 DEF ToCome
    <3>9. FoundInv(entries[Candidate])'
      BY <2>1 DEF FoundInv, Range
    <3>10. CoverInv(entries[Candidate])'
      BY <1>1, <3>8 DEF CoverInv
    <3>11. Len(entries'[Candidate]) <= MaxFiles /\ steady' \subseteq Path
      BY <1>1, <2>1, ScanTypes
    <3> QED
      BY <1>1, <2>1, <2>3, <3>3, <3>7, <3>9, <3>10, <3>11, GoesOn
  <2> QED
    BY <1>4, <2>2, <2>3 DEF Opens
<1> QED
  BY <1>3, <1>4 DEF Scan

(* A scan that passes only over what it lists, or need not list, still     *)
(* covers the disk.                                                        *)
LEMMA ComesToPass ==
  ASSUME ScanInv, Scanning, UNCHANGED <<disk, activeCatalog, steady>>, NEW gs, frames' = gs,
         ToCome(gs) \subseteq ToCome(frames),
         Range(entries[Candidate]) \subseteq Range(entries'[Candidate]),
         \A q \in ToCome(frames) \ ToCome(gs) :
           disk[q] = "file" /\ Listable(q) => q \in Range(entries'[Candidate])
  PROVE  CoverInv(entries[Candidate])' /\ (UNCHANGED entries => FoundInv(entries[Candidate])')
<1>1. Candidate' = Candidate /\ FoundInv(entries[Candidate]) /\ CoverInv(entries[Candidate])
  BY DEF ScanInv, Candidate
<1>2. UNCHANGED entries => FoundInv(entries[Candidate])'
  BY <1>1 DEF FoundInv
<1>3. CoverInv(entries[Candidate])'
  <2> SUFFICES ASSUME NEW q \in Path \ {Root}, disk[q] = "file", Listable(q), q \in steady
               PROVE  q \in Range(entries'[Candidate]) \union ToCome(gs)
    BY <1>1 DEF CoverInv
  <2>1. q \in Range(entries[Candidate]) \union ToCome(frames)
    BY <1>1 DEF CoverInv
  <2> QED
    BY <2>1
<1> QED
  BY <1>2, <1>3

(* An entry is skipped, entered, or listed once.                           *)
LEMMA VisitKeeps ==
  ASSUME ScanInv, NEW name, Visit(name)
  PROVE  ScanInv' /\ Kept
<1> DEFINE p == Append(Here(frames), name)
           rest == <<[dir |-> Here(frames), left |-> Head(frames).left \ {name}]>> \o Tail(frames)
           list == entries[Candidate]
<1>1. /\ Scanning /\ name \in Head(frames).left /\ result = "OK" /\ WayInv(frames)
      /\ FoundInv(list) /\ frames \in Seq(Frame)
      /\ UNCHANGED <<disk, activeCatalog, steady, changes>> /\ Candidate' = Candidate
  <2>1. Scanning /\ name \in Head(frames).left /\ UNCHANGED <<disk, activeCatalog, steady, changes>>
    BY DEF Visit
  <2> QED
    BY <2>1, ScanTypes DEF ScanInv, Candidate
<1>2. \/ \E why \in {"SCAN_FAILED", "PATH_TOO_LONG"} : Fails(why) /\ UNCHANGED entries
      \/ Skipped(p, disk[p]) /\ frames' = rest /\ UNCHANGED <<result, entries>>
      \/ disk[p] = "directory" /\ Entered(Here(frames)) /\ Opens(p, rest) /\ UNCHANGED entries
      \/ disk[p] = "file" /\ p \notin TooLong /\ name \in Json /\ Adds(p, rest)
  BY DEF Visit, Here
<1>3. /\ rest \in Seq(Frame) /\ WayInv(rest)
      /\ Here(rest) = Here(frames) /\ Depth(rest) = Depth(frames) /\ name \notin Head(rest).left
      /\ p \in Path /\ From(p) \subseteq ToCome(frames) /\ ToCome(rest) = ToCome(frames) \ From(p)
  <2>1. rest = <<[dir |-> Here(frames), left |-> Head(frames).left \ {name}]>> \o Tail(frames)
    OBVIOUS
  <2>2. name \in Head(frames).left /\ WayInv(frames) /\ frames \in Seq(Frame)
    BY <1>1
  <2>3. p = Entry(frames, name)
    BY DEF Entry
  <2> HIDE DEF rest, p
  <2>4. /\ rest \in Seq(Frame) /\ WayInv(rest)
        /\ Here(rest) = Here(frames) /\ Depth(rest) = Depth(frames) /\ name \notin Head(rest).left
        /\ Entry(frames, name) \in Path /\ From(Entry(frames, name)) \subseteq ToCome(frames)
        /\ ToCome(rest) = ToCome(frames) \ From(Entry(frames, name))
    BY <2>1, <2>2, EntryVisited, Zenon
  <2> QED
    BY <2>3, <2>4
<1>4. /\ Here(frames) \in Path /\ Depth(frames) \in Nat /\ Len(p) = Depth(frames) + 1
      /\ SubSeq(p, 1, Depth(frames)) = Here(frames) /\ Name(p) = name /\ p[Len(p)] = name
      /\ Parent(p) = Here(frames) /\ Len(Here(frames)) = Depth(frames) /\ p # Root
  <2>1. name \in FileNames /\ Here(frames) \in Path /\ Depth(frames) \in Nat
        /\ Len(Here(frames)) = Depth(frames)
    BY <1>1, FramesAre
  <2> QED
    BY <1>3, <2>1, EntryIs
<1> HIDE DEF p, rest, list
<1>5. /\ \A q \in From(p) : q = p \/ q \in Below(p)
      /\ \A q \in Below(p) : q \in Path /\ (disk[q] = "file" => disk[p] = "directory")
  BY <1>3 DEF From, Below, ScanInv, DiskInv
<1>6. ASSUME NEW why \in {"SCAN_FAILED", "PATH_TOO_LONG", "TOO_MANY_FILES"}, Fails(why), UNCHANGED entries
      PROVE  ScanInv' /\ Kept
  <2>1. why \in Result \ {"OK"} /\ steady' \subseteq Path
    BY <1>1, ScanTypes DEF Result
  <2> QED
    BY <1>1, <1>6, <2>1, FailKeeps
<1>7. CASE Skipped(p, disk[p]) /\ frames' = rest /\ UNCHANGED <<result, entries>>
  <2>1. \A q \in From(p) : ~(disk[q] = "file" /\ Listable(q))
    <3> SUFFICES ASSUME NEW q \in From(p), disk[q] = "file", Listable(q)
                 PROVE  FALSE
      OBVIOUS
    <3>1. CASE q = p
      BY <1>7, <3>1 DEF Skipped, Listable
    <3>2. CASE q \in Below(p) /\ disk[p] = "directory"
      <4>1. ~(Len(Here(frames)) < MaxDepth)
        BY <1>4, <1>7, <3>2 DEF Skipped, Entered
      <4>2. Len(q) > Len(p) /\ Len(q) <= MaxDepth + 1 /\ Len(q) \in Nat /\ MaxDepth \in Nat
        BY <1>5, <3>2, PathIs, CatalogAssumption DEF Below, Listable
      <4> QED
        BY <1>4, <4>1, <4>2
    <3> QED
      BY <1>5, <3>1, <3>2
  <2>2. CoverInv(list)' /\ FoundInv(list)'
    BY <1>1, <1>3, <1>7, <2>1, ComesToPass DEF list
  <2>3. /\ entries' \in [{0, 1} -> Seq(Path)] /\ Len(entries'[Candidate]) <= MaxFiles
        /\ entries'[activeCatalog] = entries[activeCatalog] /\ steady' \subseteq Path
    BY <1>1, <1>7, ScanTypes
  <2> QED
    BY <1>1, <1>3, <1>7, <2>2, <2>3, GoesOn DEF list
<1>8. CASE /\ disk[p] = "directory" /\ Entered(Here(frames)) /\ UNCHANGED entries
           /\ frames' = <<Opened(p)>> \o rest /\ result' = "OK"
  <2> DEFINE left == Opened(p).left
  <2>1. /\ Opened(p) = [dir |-> p, left |-> left] /\ left \in SUBSET FileNames
        /\ \A n \in left : Append(p, n) \in Path
        /\ \A q \in Path : /\ Len(q) > Len(p) /\ SubSeq(q, 1, Len(p)) = p /\ disk[q] # "absent"
                           => q[Len(p) + 1] \in left
    BY <1>3, OpenedIs DEF ScanInv
  <2> HIDE DEF left
  <2>2. frames' = <<[dir |-> p, left |-> left]>> \o rest
    BY <1>8, <2>1
  <2>3. Depth(rest) < MaxDepth
    BY <1>3, <1>4, <1>8 DEF Entered
  <2>4. /\ frames' \in Seq(Frame) /\ WayInv(frames')
        /\ ToCome(frames') = ToCome(rest) \union
             {q \in Below(p) : q[Len(p) + 1] \in left}
    <3>1. /\ Len(p) = Depth(rest) + 1 /\ SubSeq(p, 1, Depth(rest)) = Here(rest)
          /\ p[Len(p)] \notin Head(rest).left /\ rest \in Seq(Frame) /\ WayInv(rest) /\ p \in Path
      BY <1>3, <1>4
    <3>2. left \in SUBSET FileNames /\ \A n \in left : Append(p, n) \in Path
      BY <2>1
    <3> QED
      BY <2>2, <2>3, <3>1, <3>2, DirectoryEntered, Zenon
  <2>5. ToCome(frames') \subseteq ToCome(frames)
    BY <1>3, <2>4 DEF From
  <2>6. \A q \in ToCome(frames) \ ToCome(frames') : disk[q] # "file"
    <3> SUFFICES ASSUME NEW q \in ToCome(frames) \ ToCome(frames'), disk[q] = "file"
                 PROVE  FALSE
      OBVIOUS
    <3>1. q \in Path /\ q \in Below(p)
      BY <1>3, <1>5, <1>8, <2>4
    <3>2. q[Len(p) + 1] \in left
      BY <2>1, <3>1 DEF Below
    <3> QED
      BY <2>4, <3>1, <3>2
  <2>7. CoverInv(list)' /\ FoundInv(list)'
    <3>1. Range(entries[Candidate]) \subseteq Range(entries'[Candidate])
      BY <1>8
    <3> QED
      BY <1>1, <1>8, <2>5, <2>6, <3>1, ComesToPass DEF list
  <2>8. /\ entries' \in [{0, 1} -> Seq(Path)] /\ Len(entries'[Candidate]) <= MaxFiles
        /\ entries'[activeCatalog] = entries[activeCatalog] /\ steady' \subseteq Path
    BY <1>1, <1>8, ScanTypes
  <2> QED
    BY <1>1, <1>8, <2>4, <2>7, <2>8, GoesOn DEF list
<1>9. CASE /\ disk[p] = "file" /\ p \notin TooLong /\ name \in Json /\ ~(Len(list) >= MaxFiles)
           /\ entries' = [entries EXCEPT ![Candidate] = Append(@, p)]
           /\ frames' = rest /\ UNCHANGED result
  <2>1. /\ list \in Seq(Path) /\ Len(list) \in Nat /\ DOMAIN list = 1..Len(list) /\ MaxFiles \in Nat
    BY ScanTypes, LenProperties, CatalogAssumption DEF list
  <2>2. entries'[Candidate] = Append(list, p) /\ entries'[activeCatalog] = entries[activeCatalog]
    BY <1>9, ScanTypes DEF list
  <2>3. /\ Append(list, p) \in Seq(Path) /\ Len(Append(list, p)) = Len(list) + 1
        /\ DOMAIN Append(list, p) = 1..(Len(list) + 1) /\ Append(list, p)[Len(list) + 1] = p
        /\ \A i \in 1..Len(list) : Append(list, p)[i] = list[i]
    BY <1>3, <2>1, AppendProperties
  <2>4. entries' \in [{0, 1} -> Seq(Path)] /\ Len(entries'[Candidate]) <= MaxFiles
    BY <1>9, <2>1, <2>2, <2>3, ScanTypes DEF list
  <2>5. Range(Append(list, p)) = Range(list) \union {p}
    <3>1. \A i \in 1..(Len(list) + 1) : i \in 1..Len(list) \/ i = Len(list) + 1
      BY <2>1
    <3>2. 1..Len(list) \subseteq 1..(Len(list) + 1) /\ Len(list) + 1 \in 1..(Len(list) + 1)
      BY <2>1
    <3> QED
      BY <2>1, <2>3, <3>1, <3>2 DEF Range
  <2>6. p \notin Range(list) /\ Listable(p) /\ p \notin ToCome(rest)
    <3>1. Len(p) <= MaxDepth + 1
      <4>1. Depth(frames) <= MaxDepth
        BY <1>1 DEF WayInv
      <4> QED
        BY <1>4, <4>1, CatalogAssumption
    <3>2. p \in ToCome(frames) /\ p \notin ToCome(rest)
      BY <1>3 DEF From
    <3> QED
      BY <1>1, <1>3, <1>4, <1>9, <3>1, <3>2 DEF FoundInv, Listable
  <2>7. CoverInv(list)'
    <3>1. \A q \in ToCome(frames) \ ToCome(rest) : disk[q] = "file" => q \in Range(entries'[Candidate])
      BY <1>3, <1>5, <1>9, <2>2, <2>5
    <3>2. Range(entries[Candidate]) \subseteq Range(entries'[Candidate])
      BY <2>2, <2>5 DEF list
    <3> QED
      BY <1>1, <1>3, <1>9, <3>1, <3>2, ComesToPass DEF list
  <2>8. FoundInv(list)'
    <3>1. \A i, j \in 1..(Len(list) + 1) : Append(list, p)[i] = Append(list, p)[j] => i = j
      <4>1. \A i \in 1..(Len(list) + 1) : i \in 1..Len(list) \/ i = Len(list) + 1
        BY <2>1
      <4>2. \A i \in 1..Len(list) : list[i] # p
        BY <2>1, <2>6 DEF Range
      <4>3. \A i, j \in 1..Len(list) : list[i] = list[j] => i = j
        BY <1>1, <2>1 DEF FoundInv
      <4> QED
        BY <2>3, <4>1, <4>2, <4>3
    <3>2. \A q \in Range(list) \union {p} : /\ q # Root /\ Listable(q) /\ q \notin ToCome(rest)
                                            /\ q \in steady => disk[q] = "file"
      BY <1>1, <1>3, <1>4, <1>9, <2>6 DEF FoundInv
    <3> QED
      BY <1>1, <1>9, <2>2, <2>3, <2>5, <3>1, <3>2 DEF FoundInv, list, Listable
  <2>9. steady' \subseteq Path /\ result' = "OK"
    BY <1>1, <1>9, ScanTypes
  <2> QED
    BY <1>1, <1>3, <1>9, <2>2, <2>4, <2>7, <2>8, <2>9, GoesOn DEF list
<1> QED
  BY <1>2, <1>6, <1>7, <1>8, <1>9 DEF Opens, Adds, list

(* A directory has been read; with the root the scan completes.            *)
LEMMA EndKeeps ==
  ASSUME ScanInv, EndOfDirectory
  PROVE  ScanInv' /\ (Kept \/ Completed)
<1> DEFINE list == entries[Candidate]
<1>1. /\ Scanning /\ Head(frames).left = {} /\ result = "OK" /\ WayInv(frames)
      /\ FoundInv(list) /\ CoverInv(list) /\ frames \in Seq(Frame) /\ list \in Seq(Path)
      /\ UNCHANGED <<disk, steady, changes>>
  BY ScanTypes DEF EndOfDirectory, ScanInv
<1>2. /\ Tail(frames) \in Seq(Frame)
      /\ Tail(frames) # <<>> => WayInv(Tail(frames)) /\ ToCome(Tail(frames)) = ToCome(frames)
      /\ Tail(frames) = <<>> => ToCome(frames) = {}
  BY <1>1, DirectoryLeft
<1>3. CASE Fails("SCAN_FAILED") /\ UNCHANGED <<entries, activeCatalog>>
  <2>1. "SCAN_FAILED" \in Result \ {"OK"} /\ steady' \subseteq Path
    BY <1>1, ScanTypes DEF Result
  <2> QED
    BY <1>1, <1>3, <2>1, FailKeeps
<1>4. CASE frames' = Tail(frames) /\ Tail(frames) # <<>> /\ UNCHANGED <<result, entries, activeCatalog>>
  <2>1. CoverInv(list)' /\ FoundInv(list)'
    <3>1. /\ ToCome(Tail(frames)) \subseteq ToCome(frames) /\ ToCome(frames) \ ToCome(Tail(frames)) = {}
          /\ Range(entries[Candidate]) \subseteq Range(entries'[Candidate])
      BY <1>2, <1>4
    <3> QED
      BY <1>1, <1>4, <3>1, ComesToPass
  <2>2. /\ entries' \in [{0, 1} -> Seq(Path)] /\ Len(entries'[Candidate]) <= MaxFiles
        /\ entries'[activeCatalog] = entries[activeCatalog] /\ steady' \subseteq Path
    BY <1>1, <1>4, ScanTypes
  <2> QED
    BY <1>1, <1>2, <1>4, <2>1, <2>2, GoesOn
<1>5. CASE /\ frames' = <<>> /\ Tail(frames) = <<>> /\ UNCHANGED result
           /\ entries' = [entries EXCEPT ![Candidate] = Sorted(@)] /\ activeCatalog' = Candidate
  <2> HIDE DEF list
  <2>1. /\ Sorted(list) \in Seq(Path) /\ Len(Sorted(list)) = Len(list) /\ Range(Sorted(list)) = Range(list)
        /\ \A i, j \in DOMAIN Sorted(list) :
             i < j => Position(Sorted(list)[i]) < Position(Sorted(list)[j])
    BY <1>1, SortedIs DEF FoundInv
  <2>2. Active' = Sorted(list)
    BY <1>5, ScanTypes DEF Active, list
  <2>3. ListedInOrder' /\ DiskInv'
    BY <1>1, <2>1, <2>2, ScanTypes DEF ListedInOrder, DiskInv
  <2>4. /\ entries' \in [{0, 1} -> Seq(Path)] /\ \A c \in {0, 1} : Len(entries'[c]) <= MaxFiles
        /\ activeCatalog' \in {0, 1} /\ frames' \in Seq(Frame) /\ ~Scanning' /\ result' = "OK"
    BY <1>1, <1>2, <1>5, <2>1, ScanTypes DEF list, Scanning
  <2>5. ScanTypeOK'
    BY <1>1, <2>4, ScanTypes DEF ScanTypeOK, Frame, Result
  <2>6. Completed
    BY <1>1, <1>2, <1>5, <2>1, <2>2, <2>4 DEF Completed, CoverInv, FoundInv
  <2> QED
    BY <2>3, <2>4, <2>5, <2>6 DEF ScanInv
<1> QED
  BY <1>3, <1>4, <1>5 DEF EndOfDirectory

(* Looking a path up changes the answer only.                              *)
LEMMA ResolveKeeps ==
  ASSUME ScanInv, NEW p \in Path, ResolvePath(p)
  PROVE  ScanInv' /\ Kept
<1>1. /\ ~Scanning /\ result' \in Result
      /\ UNCHANGED <<disk, entries, activeCatalog, frames, steady, changes>>
  BY DEF ResolvePath, Result
<1>2. ~Scanning' /\ Active' = Active
  BY <1>1 DEF Scanning, Active
<1>3. ScanTypeOK'
  BY <1>1, ScanTypes DEF ScanTypeOK, Frame
<1> QED
  BY <1>1, <1>2, <1>3 DEF ScanInv, DiskInv, ListedInOrder, Kept

(* One step of the catalogue or of other programs.                         *)
LEMMA ScanStep ==
  ASSUME ScanInv, [ScanNext]_scanVars
  PROVE  ScanInv' /\ (Kept \/ Completed)
<1>1. CASE UNCHANGED scanVars
  BY <1>1 DEF scanVars, ScanInv, ScanTypeOK, DiskInv, ListedInOrder, Scanning, Candidate, Active,
              FoundInv, CoverInv, Listable, Kept
<1>2. ASSUME NEW p \in Path, NEW kind \in Kinds[p], DiskChanges(p, kind)
      PROVE  ScanInv' /\ Kept
  BY <1>2, DiskKeeps
<1>3. CASE Scan
  BY <1>3, ScanKeeps
<1>4. ASSUME NEW p \in Path \ {Root}, Visit(Name(p))
      PROVE  ScanInv' /\ Kept
  BY <1>4, VisitKeeps
<1>5. CASE EndOfDirectory
  BY <1>5, EndKeeps
<1>6. CASE ReadFails
  <2>1. /\ "SCAN_FAILED" \in Result \ {"OK"} /\ steady' \subseteq Path /\ Fails("SCAN_FAILED")
        /\ UNCHANGED <<disk, entries, activeCatalog, changes>>
    BY <1>6, ScanTypes DEF Result, ReadFails
  <2> QED
    BY <2>1, FailKeeps
<1>7. ASSUME NEW p \in Path, ResolvePath(p)
      PROVE  ScanInv' /\ Kept
  BY <1>7, ResolveKeeps
<1> QED
  BY <1>1, <1>2, <1>3, <1>4, <1>5, <1>6, <1>7 DEF ScanNext

-----------------------------------------------------------------------------
\* The catalogue: the theorems

(* CatalogIsASnapshot's first part (ProtocolCatalog_scan, and what scans   *)
(* leave in the two lists): types and limits hold, and the list in force is*)
(* in order, each path once; inductively with where an open scan stands.   *)
THEOREM CatalogInvariant == ScanSpec => []ScanInv
<1>1. ScanInit => ScanInv
  <2> SUFFICES ASSUME ScanInit
               PROVE  ScanInv
    OBVIOUS
  <2>1. disk \in [Path -> EntryKind] /\ DiskInv
    BY DEF ScanInit, DiskInv
  <2>2. /\ <<>> \in Seq(Path) /\ Len(<<>>) = 0 /\ 0 <= MaxFiles /\ 0 \in 0..MaxChanges
        /\ <<>> \in Seq(Frame) /\ DOMAIN <<>> = {}
    BY EmptySeq, CatalogAssumption
  <2>3. \A c \in {0, 1} : entries[c] = <<>>
    BY DEF ScanInit
  <2>4. ScanTypeOK
    BY <2>1, <2>2, <2>3 DEF ScanInit, ScanTypeOK, Frame, Result
  <2>5. ListedInOrder /\ ~Scanning
    BY <2>2, <2>3 DEF ScanInit, ListedInOrder, Active, Scanning
  <2> QED
    BY <2>1, <2>4, <2>5 DEF ScanInv
<1> QED
  BY <1>1, ScanStep, PTL DEF ScanSpec

(* protocol_catalog_priv.h:48, "Transactional snapshot": the list in force *)
(* is replaced by the last step of a scan that failed nowhere, and then it *)
(* lists the disk: all that was there throughout, nothing that was not.    *)
THEOREM CatalogStandsForTheDisk == ScanSpec => CatalogIsASnapshot
<1>1. ScanInv => ScanTypeOK /\ ListedInOrder
  BY DEF ScanInv
<1>2. ScanInv /\ [ScanNext]_scanVars =>
        [Active' # Active => Scanning /\ ~Scanning' /\ result' = "OK"]_scanVars
  BY ScanStep DEF Kept, Completed
<1>3. ScanInv /\ [ScanNext]_scanVars =>
        [(Scanning /\ ~Scanning' /\ result' = "OK") =>
           /\ \A p \in Path \ {Root} :
                (disk[p] = "file" /\ Listable(p) /\ p \in steady) => p \in Range(Active')
           /\ \A p \in Range(Active') : Listable(p) /\ (p \in steady => disk[p] = "file")]_scanVars
  BY ScanStep DEF Kept, Completed
<1> QED
  BY <1>1, <1>2, <1>3, CatalogInvariant, PTL
     DEF ScanSpec, CatalogIsASnapshot, SnapshotKept, ScanListsTheDisk
=============================================================================
