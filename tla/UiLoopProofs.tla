----------------------------- MODULE UiLoopProofs -----------------------------
(***************************************************************************)
(* Proofs about the user interface, for any keys, events, sizes and bounds:*)
(* SM_UI's screens (SmUi) and the loop that must not sleep on what is new  *)
(* (UiLoop).                                                               *)
(***************************************************************************)
EXTENDS UiLoop, SequenceTheorems, WellFoundedInduction, TLAPS

UiInv == UiTypeOK /\ ScreenTakesKeys

(* What is typed, posted and resized is where the loop will come to it.    *)
InputInv ==
  /\ inbox \in Seq(Signals)
  /\ Len(inbox) <= MaxInbox + Batch
  /\ Len(inbox) > MaxInbox => at \in {"dispatchKeys", "ended"}
  /\ (inbox # <<>> /\ ~wake) => at \in {"dispatch", "dispatchKeys", "ended"}
  /\ typed \in Seq(Keys \cup {Resize, Eof})
  /\ \A i \in 1..Len(typed) : typed[i] = Eof => i = Len(typed)

(* What is newer than the screen has a frame on its way.                   *)
FrameInv ==
  /\ unseen => host.frame \/ at \in {"flush", "render", "ended"}
  /\ dirty => host.frame \/ at \in {"flush", "ended"}
  /\ (at = "wait" /\ timeout = "none") => ~host.frame

(* A new size of the terminal is to be read, dispatched or rendered.       *)
SizeInv ==
  /\ size \in Sizes
  /\ laid # size => resizing \/ Contains(typed, Resize)
  /\ resizing => host.frame \/ (at = "dispatchKeys" /\ Contains(inbox, "RESIZE"))

LoopTypeOK ==
  /\ at \in {"tick", "wait", "consume", "dispatch", "read", "dispatchKeys", "dispatchLate",
             "refresh", "flush", "render", "ended"}
  /\ ready \subseteq {"event", "terminal"}
  /\ canRender \in BOOLEAN /\ timeout \in {"none", "zero", "part"} /\ due \in BOOLEAN
  /\ resizing \in BOOLEAN /\ closed \in BOOLEAN /\ wake \in BOOLEAN

Inv == UiInv /\ LoopTypeOK /\ InputInv /\ FrameInv /\ SizeInv

-----------------------------------------------------------------------------
\* The state machine

MenuType == [visible : BOOLEAN, sel : 0..(Items - 1), first : {0}]

(* A menu as long as its window does not scroll.                           *)
LEMMA SelectType ==
  ASSUME NEW m \in MenuType, NEW i \in 0..(Items - 1)
  PROVE  /\ Select(m, i) \in MenuType
         /\ Select(m, i).visible = m.visible
<1>1. m.first = 0
  BY DEF MenuType
<1>2. Items = 4 /\ i \in 0..3
  BY DEF Items
<1>3. ~(i < Least(0, 4 - 4)) /\ ~(i >= Least(0, 4 - 4) + 4) /\ Least(0, 4 - 4) = 0
  BY <1>2 DEF Least
<1>4. Update(m.first, i, Items, Items) = 0
  BY <1>1, <1>2, <1>3 DEF Update
<1> QED
  BY <1>4 DEF Select, MenuType

LEMMA MenuTypes ==
  ASSUME NEW m \in MenuType
  PROVE  /\ \A n \in {SelectNext(m), SelectPrev(m)} :
              n \in MenuType /\ n.visible = m.visible
         /\ \A n \in {Hide(m), SyncLayout(m)} :
              n \in MenuType
         /\ Hide(m).visible = FALSE /\ SyncLayout(m).visible = m.visible
         /\ Shown \in MenuType /\ Shown.visible
<1>1. m.sel \in 0..(Items - 1) /\ Items = 4
  BY DEF Items, MenuType
<1>2. \A n \in {SelectNext(m), SelectPrev(m)} :
        n \in MenuType /\ n.visible = m.visible
  <2>1. PICK i \in 0..(Items - 1) : SelectNext(m) = Select(m, i)
    BY <1>1 DEF SelectNext
  <2>2. PICK j \in 0..(Items - 1) : SelectPrev(m) = Select(m, j)
    BY <1>1 DEF SelectPrev
  <2> QED
    BY <2>1, <2>2, SelectType
<1>3. /\ \A n \in {Hide(m), SyncLayout(m)} :
           n \in MenuType
      /\ Hide(m).visible = FALSE /\ SyncLayout(m).visible = m.visible
  BY DEF Hide, SyncLayout, MenuType
<1>4. Shown \in MenuType /\ Shown.visible
  BY <1>1 DEF Shown, MenuType
<1> QED
  BY <1>2, <1>3, <1>4

(* What a step of the machine leaves: a frame asked for stays asked for,   *)
(* and whatever became new asked for one.                                  *)
Announced ==
  /\ laid' \in Sizes
  /\ host.frame => host'.frame
  /\ (unseen' /\ ~unseen) \/ (dirty' /\ ~dirty) => host'.frame

LEMMA UiUnchanged == UiInv /\ UNCHANGED ui => UiInv' /\ Announced
BY DEF UiInv, UiTypeOK, ScreenTakesKeys, HintsFor, ui, Announced

LEMMA InMainKeeps ==
  ASSUME UiInv, NEW sig, InMain(sig)
  PROVE  UiInv' /\ Announced /\ laid' = laid
<1> USE DEF UiInv, UiTypeOK, ScreenTakesKeys, HintsFor, Announced, RequestFrame, Redrawn, NewText
<1>1. CASE OpenMenu
  BY <1>1, MenuTypes DEF MenuType, OpenMenu, EnterMenu
<1>2. CASE Scroll
  BY <1>2 DEF Scroll
<1>3. CASE ComposerKey
  BY <1>3 DEF ComposerKey
<1> QED
  BY <1>1, <1>2, <1>3 DEF InMain

LEMMA InMenuKeeps ==
  ASSUME UiInv, NEW sig, InMenu(sig)
  PROVE  UiInv' /\ Announced /\ laid' = laid
<1> USE DEF UiInv, UiTypeOK, ScreenTakesKeys, HintsFor, Announced, RequestFrame, Redrawn, NewText
<1>1. ASSUME NEW m \in {SelectNext(menu), SelectPrev(menu)}, MoveTo(m)
      PROVE  UiInv' /\ Announced /\ laid' = laid
  <2>1. menu \in MenuType
    BY DEF MenuType
  <2>2. \A n \in {SelectNext(menu), SelectPrev(menu)} : n \in MenuType /\ n.visible = menu.visible
    BY ONLY <2>1, MenuTypes
  <2> QED
    BY <1>1, <2>2 DEF MoveTo, MenuType
<1>2. CASE Choose
  BY <1>2, MenuTypes DEF MenuType, Choose, LeaveMenu, EnterMain
<1>3. CASE CloseMenu
  BY <1>3, MenuTypes DEF MenuType, CloseMenu, LeaveMenu, EnterMain
<1>4. CASE UNCHANGED ui
  BY <1>4 DEF ui
<1> QED
  BY <1>1, <1>2, <1>3, <1>4 DEF InMenu

LEMMA AlwaysKeeps ==
  ASSUME UiInv, NEW sig, Always(sig)
  PROVE  UiInv' /\ Announced /\ laid' = laid /\ (sig = "RESIZE" => host'.frame)
<1> USE DEF UiInv, UiTypeOK, ScreenTakesKeys, HintsFor, Announced, RequestFrame, Redrawn, NewText
<1>1. CASE sig = "TIMER" /\ UNCHANGED ui
  BY <1>1 DEF ui
<1>2. CASE SyncMenu
  BY <1>2, MenuTypes DEF MenuType, SyncMenu
<1>3. CASE sig # "RESIZE" /\ Text
  BY <1>3 DEF Text
<1>4. CASE sig # "RESIZE" /\ Lists
  BY <1>4 DEF Lists
<1>5. CASE sig # "RESIZE" /\ Status
  BY <1>5 DEF Status
<1> QED
  BY <1>1, <1>2, <1>3, <1>4, <1>5 DEF Always

LEMMA DispatchKeeps ==
  ASSUME UiInv, NEW sig, Dispatch(sig)
  PROVE  UiInv' /\ Announced /\ laid' = laid /\ (sig = "RESIZE" => host'.frame)
<1>1. sig = "RESIZE" => Always(sig)
  BY DEF Dispatch, InMain, InMenu, KeySigs, PageSigs, DownSigs, UpSigs, EditSigs
<1> QED
  BY <1>1, InMainKeeps, InMenuKeeps, AlwaysKeeps DEF Dispatch

-----------------------------------------------------------------------------
\* The keys that are read

LEMMA RouteType == \A k : Route(k) \in Signals
BY DEF Route, Signals, KeySigs, DownSigs, UpSigs, PageSigs, EditSigs

LEMMA RouteResize == Route(Resize) = "RESIZE"
BY DEF Route, Resize

LEMMA MinIs ==
  ASSUME NEW I \in SUBSET Nat, I # {}
  PROVE  Min(I) \in I
<1>1. PICK i \in I : \A j \in I : ~(<<j, i>> \in OpToRel(<, Nat))
  BY NatLessThanWellFounded, WFMin
<1>2. \A j \in I : <<j, i>> \in Nat \X Nat /\ <<j, i>>[1] = j /\ <<j, i>>[2] = i
  OBVIOUS
<1>3. \A j \in I : ~(j < i)
  BY <1>1, <1>2 DEF OpToRel
<1>4. \A j \in I : i <= j
  BY <1>3
<1> QED
  BY <1>4 DEF Min

(* A batch ends at its size, at the end of what is typed or before an Eof. *)
LEMMA BatchIs ==
  ASSUME NEW S, typed \in Seq(S), typed # <<>>, ReadKeys
  PROVE  \E n \in 1..Len(typed), m \in 0..Len(typed) :
           /\ n <= Batch /\ m <= n
           /\ m < n => m + 1 <= n /\ typed[m + 1] = Eof
           /\ inbox' = inbox \o [i \in 1..m |-> Route(typed[i])]
           /\ resizing' = (resizing \/ \E i \in 1..m : typed[i] = Resize)
           /\ closed' \in BOOLEAN
           /\ typed' = SubSeq(typed, n + 1, Len(typed))
<1> DEFINE n == Min({Batch, Len(typed)})
           front == SubSeq(typed, 1, n)
           eof == SelectInSeq(front, LAMBDA k : k = Eof)
           m == IF eof = 0 THEN n ELSE eof - 1
           read == SubSeq(typed, 1, m)
<1>1. /\ Batch \in Nat \ {0} /\ Len(typed) \in Nat \ {0}
  BY UiLoopAssumption, EmptySeq
<1>2. n \in 1..Len(typed) /\ n <= Batch
  BY <1>1 DEF Min
<1> HIDE DEF n
<1>3. front \in Seq(S) /\ Len(front) = n /\ \A i \in 1..n : front[i] = typed[i]
  BY <1>1, <1>2, SubSeqProperties
<1>4. eof \in 0..n /\ (eof # 0 => front[eof] = Eof)
  <2> DEFINE I == {i \in 1..Len(front) : front[i] = Eof}
  <2>1. eof = IF I # {} THEN Min(I) ELSE 0
    BY DEF SelectInSeq
  <2>2. I # {} => Min(I) \in I
    BY <1>2, <1>3, MinIs
  <2> HIDE DEF eof, front
  <2>3. \A i \in I : i \in 1..n /\ front[i] = Eof
    BY <1>3
  <2> HIDE DEF I
  <2> QED
    BY <1>2, <2>1, <2>2, <2>3
<1> HIDE DEF eof
<1>5. m \in 0..n /\ (m < n => m + 1 <= n /\ typed[m + 1] = Eof)
  BY <1>1, <1>2, <1>3, <1>4
<1> HIDE DEF m
<1>6. read \in Seq(S) /\ Len(read) = m /\ \A i \in 1..m : read[i] = typed[i]
  BY <1>1, <1>2, <1>5, SubSeqProperties
<1>7. DOMAIN read = 1..m
  BY <1>6, LenProperties
<1> HIDE DEF read
<1>8. [i \in DOMAIN read |-> Route(read[i])] = [i \in 1..m |-> Route(typed[i])]
  BY <1>6, <1>7
<1>9. Contains(read, Resize) <=> \E i \in 1..m : typed[i] = Resize
  BY <1>6 DEF Contains
<1>10. /\ inbox' = inbox \o [i \in DOMAIN read |-> Route(read[i])]
       /\ resizing' = (resizing \/ Contains(read, Resize))
       /\ closed' = (eof # 0)
       /\ typed' = SubSeq(typed, n + 1, Len(typed))
  BY DEF ReadKeys, read, m, eof, n
<1>11. m \in 0..Len(typed) /\ m <= n
  BY <1>1, <1>2, <1>5
<1> QED
  BY <1>2, <1>5, <1>8, <1>9, <1>10, <1>11

-----------------------------------------------------------------------------
\* The loop's steps

LEMMA InitInv == Init => Inv
<1> SUFFICES ASSUME Init PROVE Inv
  OBVIOUS
<1> USE DEF Init, Setup
<1>1. UiInv
  <2>1. UiTypeOK
    <3>1. menu \in [visible : BOOLEAN, sel : 0..(Items - 1), first : {0}]
      <4>1. 0 \in 0..(Items - 1)
        BY DEF Items
      <4> QED
        BY <4>1 DEF NoMenu
    <3>2. host \in [quit : BOOLEAN, frame : BOOLEAN]
      OBVIOUS
    <3> QED
      BY <3>1, <3>2 DEF UiTypeOK
  <2>2. ScreenTakesKeys
    BY DEF ScreenTakesKeys, HintsFor, NoMenu
  <2> QED
    BY <2>1, <2>2 DEF UiInv
<1>2. InputInv
  BY UiLoopAssumption DEF InputInv
<1> QED
  BY <1>1, <1>2 DEF Inv, LoopTypeOK, FrameInv, SizeInv

(* The steps that touch neither the inbox nor the machine.                 *)
LEMMA WaitingKeeps ==
  ASSUME Inv, Tick \/ Quit \/ Fail \/ Wait \/ Interrupted \/ ConsumeWake \/ ReadNone \/ Elapse
  PROVE  Inv'
<1> USE DEF Inv, LoopTypeOK, InputInv, FrameInv, SizeInv, ui, env, Goto
<1>1. UNCHANGED ui
  BY DEF Tick, Quit, Fail, Wait, Interrupted, ConsumeWake, ReadNone, Elapse
<1>2. UiInv'
  BY <1>1, UiUnchanged
<1>3. CASE Tick
  BY <1>2, <1>3 DEF Tick
<1>4. CASE Quit
  BY <1>2, <1>4 DEF Quit
<1>5. CASE Fail
  BY <1>2, <1>5 DEF Fail
<1>6. CASE Wait
  BY <1>2, <1>6 DEF Wait, Sources
<1>7. CASE Interrupted
  BY <1>2, <1>7 DEF Interrupted
<1>8. CASE ConsumeWake
  BY <1>2, <1>8 DEF ConsumeWake
<1>9. CASE ReadNone
  BY <1>2, <1>9 DEF ReadNone
<1>10. CASE Elapse
  BY <1>2, <1>10 DEF Elapse
<1> QED
  BY <1>3, <1>4, <1>5, <1>6, <1>7, <1>8, <1>9, <1>10

(* SM_UI takes the oldest event: the one that tells of a new size asks for *)
(* a frame.                                                                *)
LEMMA DispatchOneKeeps ==
  ASSUME Inv, DispatchOne
  PROVE  Inv'
<1>1. /\ inbox # <<>> /\ inbox' = Tail(inbox) /\ Dispatch(Head(inbox))
      /\ at \in {"dispatch", "dispatchKeys", "dispatchLate"}
      /\ UNCHANGED <<at, ready, canRender, timeout, due, resizing, closed, wake, typed, size>>
  BY DEF DispatchOne, Dispatching, loop
<1>2. /\ UiInv' /\ Announced /\ laid' = laid
      /\ Head(inbox) = "RESIZE" => host'.frame
  BY <1>1, DispatchKeeps DEF Inv
<1>3. /\ inbox' \in Seq(Signals) /\ Len(inbox) \in Nat \ {0} /\ Len(inbox') = Len(inbox) - 1
      /\ Head(inbox) = inbox[1] /\ \A i \in 1..(Len(inbox) - 1) : inbox'[i] = inbox[i + 1]
  BY <1>1, HeadTailProperties, EmptySeq DEF Inv, InputInv
<1>4. InputInv'
  BY <1>1, <1>3, UiLoopAssumption DEF Inv, InputInv
<1>5. FrameInv'
  BY <1>1, <1>2 DEF Inv, FrameInv, Announced
<1>6. SizeInv'
  <2>1. CASE host.frame
    BY <1>1, <1>2, <2>1 DEF Inv, SizeInv, Announced
  <2>2. CASE resizing /\ ~host.frame
    <3>1. PICK i \in 1..Len(inbox) : inbox[i] = "RESIZE"
      BY <2>2 DEF Inv, SizeInv, Contains
    <3>2. CASE i = 1
      BY <1>1, <1>2, <1>3, <3>1, <3>2 DEF Inv, SizeInv
    <3>3. CASE i # 1
      <4>1. i - 1 \in 1..Len(inbox') /\ inbox'[i - 1] = "RESIZE"
        BY <1>3, <3>1, <3>3
      <4> QED
        BY <1>1, <1>2, <2>2, <4>1 DEF Inv, SizeInv, Contains
    <3> QED
      BY <3>2, <3>3
  <2>3. CASE ~resizing
    BY <1>1, <1>2, <2>3 DEF Inv, SizeInv
  <2> QED
    BY <2>1, <2>2, <2>3
<1> QED
  BY <1>1, <1>2, <1>4, <1>5, <1>6 DEF Inv, LoopTypeOK

LEMMA DispatchedKeeps ==
  ASSUME Inv, Dispatched
  PROVE  Inv'
<1>1. /\ inbox = <<>> /\ Dispatching /\ UNCHANGED ui
      /\ at' \in {"read", "dispatchLate", "ended", "refresh", "tick"}
      /\ UNCHANGED <<inbox, wake, typed, size, ready, canRender, timeout, due, resizing, closed>>
  BY DEF Dispatched, Dispatching, Goto, env
<1>2. UiInv' /\ UNCHANGED <<unseen, dirty, host, laid>>
  BY <1>1, UiUnchanged DEF Inv, ui
<1>3. ~Contains(inbox, "RESIZE")
  BY <1>1 DEF Contains
<1>4. InputInv'
  <2>1. Len(inbox) = 0 /\ MaxInbox \in Nat
    BY <1>1, UiLoopAssumption
  <2> QED
    BY <1>1, <2>1 DEF Inv, InputInv
<1> QED
  BY <1>1, <1>2, <1>3, <1>4 DEF Inv, LoopTypeOK, FrameInv, SizeInv, Dispatching

(* The batch that is read is dispatched next, and a Resize in it is        *)
(* remembered; behind an Eof nothing was typed.                            *)
LEMMA ReadKeysKeeps ==
  ASSUME Inv, ReadKeys
  PROVE  Inv'
<1> DEFINE S == Keys \cup {Resize, Eof}
           old == Len(inbox)
           length == Len(typed)
<1>1. /\ typed # <<>> /\ at = "read" /\ at' = "dispatchKeys" /\ UNCHANGED ui
      /\ UNCHANGED <<wake, size, ready, canRender, timeout, due>>
  BY DEF ReadKeys, Goto
<1>2. /\ typed \in Seq(S) /\ length \in Nat /\ inbox \in Seq(Signals) /\ old \in Nat /\ old <= MaxInbox
      /\ Batch \in Nat /\ MaxInbox \in Nat
  BY <1>1, UiLoopAssumption, LenProperties DEF Inv, InputInv
<1>3. PICK n \in 1..length, m \in 0..length :
        /\ n <= Batch /\ m <= n
        /\ m < n => m + 1 <= n /\ typed[m + 1] = Eof
        /\ inbox' = inbox \o [i \in 1..m |-> Route(typed[i])]
        /\ resizing' = (resizing \/ \E i \in 1..m : typed[i] = Resize)
        /\ closed' \in BOOLEAN
        /\ typed' = SubSeq(typed, n + 1, length)
  BY <1>1, <1>2, BatchIs
<1>4. UiInv' /\ UNCHANGED <<unseen, dirty, host, laid>>
  BY <1>1, UiUnchanged DEF Inv, ui
<1>5. /\ inbox' \in Seq(Signals) /\ Len(inbox') = old + m
      /\ \A i \in 1..m : inbox'[old + i] = Route(typed[i])
  <2> DEFINE read == [i \in 1..m |-> Route(typed[i])]
  <2>1. read \in [1..m -> Signals]
    BY RouteType
  <2>2. read \in Seq(Signals) /\ Len(read) = m
    <3>1. m \in Nat
      BY <1>2
    <3> QED
      BY <2>1, <3>1, SeqDef, LenProperties
  <2> QED
    BY <1>2, <1>3, <2>2, ConcatProperties
<1>6. /\ typed' \in Seq(S) /\ Len(typed') = length - n
      /\ \A i \in 1..(length - n) : typed'[i] = typed[n + i]
  <2>1. \A i \in (n + 1)..length : typed[i] \in S
    BY <1>2, ElementOfSeq
  <2>2. /\ typed' \in Seq(S)
        /\ Len(typed') = IF n + 1 <= length THEN length - (n + 1) + 1 ELSE 0
        /\ \A i \in 1..(length - (n + 1) + 1) : typed'[i] = typed[n + 1 + i - 1]
    BY <1>2, <1>3, <2>1, SubSeqProperties
  <2> QED
    BY <1>2, <2>2
<1>7. InputInv'
  <2>1. \A i \in 1..Len(typed') : typed'[i] = Eof => i = Len(typed')
    BY <1>2, <1>6 DEF Inv, InputInv
  <2>2. Len(inbox') <= MaxInbox + Batch
    BY <1>2, <1>3, <1>5
  <2> QED
    BY <1>1, <1>5, <1>6, <2>1, <2>2 DEF InputInv
<1>8. FrameInv'
  BY <1>1, <1>4 DEF Inv, FrameInv
<1>9. resizing' => host'.frame \/ (at' = "dispatchKeys" /\ Contains(inbox', "RESIZE"))
  <2>1. CASE resizing
    BY <1>1, <1>4, <2>1 DEF Inv, SizeInv
  <2>2. CASE \E i \in 1..m : typed[i] = Resize
    <3>1. PICK i \in 1..m : typed[i] = Resize
      BY <2>2
    <3>2. old + i \in 1..Len(inbox') /\ inbox'[old + i] = "RESIZE"
      BY <1>2, <1>5, <3>1, RouteResize
    <3> QED
      BY <1>1, <3>2 DEF Contains
  <2> QED
    BY <1>3, <2>1, <2>2
<1>10. laid' # size' => resizing' \/ Contains(typed', Resize)
  <2> SUFFICES ASSUME laid # size, ~resizing
               PROVE  resizing' \/ Contains(typed', Resize)
    BY <1>1, <1>3, <1>4
  <2>1. PICK p \in 1..length : typed[p] = Resize
    BY DEF Inv, SizeInv, Contains
  <2>2. Resize # Eof
    BY DEF Resize, Eof
  <2>3. CASE p <= m
    <3>1. p \in 1..m
      BY <1>2, <2>3
    <3>2. \E i \in 1..m : typed[i] = Resize
      BY <2>1, <3>1
    <3> QED
      BY <1>3, <3>2
  <2>4. CASE m < p /\ p <= n
    <3>1. m + 1 \in 1..length /\ m + 1 <= p /\ typed[m + 1] = Eof
      BY <1>2, <1>3, <2>4
    <3>2. m + 1 = length
      BY <3>1 DEF Inv, InputInv
    <3>3. p = m + 1
      BY <1>2, <3>1, <3>2
    <3> QED
      BY <2>1, <2>2, <3>1, <3>3
  <2>5. CASE n < p
    <3>1. p - n \in 1..Len(typed') /\ typed'[p - n] = Resize
      BY <1>2, <1>6, <2>1, <2>5
    <3> QED
      BY <3>1 DEF Contains
  <2> QED
    BY <1>2, <2>3, <2>4, <2>5
<1>11. SizeInv'
  BY <1>1, <1>9, <1>10 DEF Inv, SizeInv
<1>12. LoopTypeOK'
  BY <1>1, <1>3 DEF Inv, LoopTypeOK
<1> QED
  BY <1>4, <1>7, <1>8, <1>11, <1>12 DEF Inv

(* A frame: what was asked for is done, and what comes up meanwhile asks   *)
(* for the next.                                                           *)
LEMMA FrameKeeps ==
  ASSUME Inv, Refresh \/ NoRefresh \/ FlushText \/ Render
  PROVE  Inv'
<1>1. /\ at \in {"refresh", "flush", "render"} /\ at' \in {"flush", "render", "tick"}
      /\ UNCHANGED <<env, ready, canRender, timeout, closed>>
      /\ due' \in BOOLEAN /\ resizing' \in BOOLEAN
  BY DEF Inv, LoopTypeOK, Refresh, NoRefresh, FlushText, Render, Goto
<1>2. InputInv'
  BY <1>1 DEF Inv, InputInv, env
<1>3. LoopTypeOK'
  BY <1>1 DEF Inv, LoopTypeOK, env
<1>4. UiInv /\ FrameInv /\ SizeInv /\ size' = size /\ typed' = typed
  BY <1>1 DEF Inv, env
<1>5. SyncLayout(menu) \in MenuType /\ SyncLayout(menu).visible = menu.visible
  BY <1>4, MenuTypes DEF UiInv, UiTypeOK, MenuType
<1>6. CASE Refresh
  <2>1. at' = "flush" /\ resizing' = FALSE
    BY <1>6 DEF Refresh, Goto
  <2>2. CASE laid = size
    <3>1. host' = [host EXCEPT !.frame = FALSE] /\ UNCHANGED <<mode, menu, hints, active, laid, dirty, unseen>>
      BY <1>6, <2>2 DEF Refresh
    <3>2. UiInv'
      BY <1>4, <3>1 DEF UiInv, UiTypeOK, ScreenTakesKeys, HintsFor
    <3> QED
      BY <1>2, <1>3, <1>4, <2>1, <2>2, <3>1, <3>2 DEF Inv, FrameInv, SizeInv
  <2>3. CASE laid # size
    <3>1. ResizePlanes(size)
      BY <1>6, <2>3 DEF Refresh
    <3>2. UiInv' /\ host'.frame /\ laid' = size
      BY <1>4, <1>5, <3>1
      DEF UiInv, UiTypeOK, ScreenTakesKeys, HintsFor, ResizePlanes, NewText, Redrawn, RequestFrame,
          MenuType, SizeInv
    <3> QED
      BY <1>2, <1>3, <1>4, <2>1, <3>2 DEF Inv, FrameInv, SizeInv
  <2> QED
    BY <2>2, <2>3
<1>7. CASE NoRefresh
  <2>1. /\ at' = "flush" /\ ~resizing /\ resizing' = resizing
        /\ host' = [host EXCEPT !.frame = FALSE]
        /\ UNCHANGED <<mode, menu, hints, active, laid, dirty, unseen>>
    BY <1>7 DEF NoRefresh, Goto
  <2>2. UiInv'
    BY <1>4, <2>1 DEF UiInv, UiTypeOK, ScreenTakesKeys, HintsFor
  <2> QED
    BY <1>2, <1>3, <1>4, <2>1, <2>2 DEF Inv, FrameInv, SizeInv, Contains
<1>8. CASE FlushText
  <2>1. /\ at = "flush" /\ at' = "render" /\ resizing' = resizing
        /\ dirty' = FALSE /\ unseen' = (unseen \/ dirty)
        /\ UNCHANGED <<mode, menu, hints, active, laid, host>>
    BY <1>8 DEF FlushText, Flush, Goto
  <2>2. UiInv'
    BY <1>4, <2>1 DEF UiInv, UiTypeOK, ScreenTakesKeys, HintsFor
  <2>3. FrameInv'
    BY <1>4, <2>1 DEF FrameInv
  <2>4. SizeInv'
    BY <1>4, <2>1 DEF SizeInv, Contains
  <2> QED
    BY <1>2, <1>3, <2>2, <2>3, <2>4 DEF Inv
<1>9. CASE Render
  <2>1. at = "render" /\ at' = "tick" /\ resizing' = resizing /\ laid' = size /\ unseen' = FALSE
    BY <1>9 DEF Render, Goto
  <2>2. CASE laid = size
    <3>1. UNCHANGED <<mode, menu, hints, active, laid, dirty, host>>
      BY <1>9, <2>1, <2>2 DEF Render
    <3>2. UiInv'
      BY <1>4, <2>1, <3>1 DEF UiInv, UiTypeOK, ScreenTakesKeys, HintsFor
    <3> QED
      BY <1>2, <1>3, <1>4, <2>1, <2>2, <3>1, <3>2 DEF Inv, FrameInv, SizeInv
  <2>3. CASE laid # size
    <3>1. UiInv' /\ host'.frame
      BY <1>4, <1>5, <1>9, <2>1, <2>3
      DEF Render, UiInv, UiTypeOK, ScreenTakesKeys, HintsFor, NewText, RequestFrame, MenuType, SizeInv
    <3> QED
      BY <1>2, <1>3, <1>4, <2>1, <3>1 DEF Inv, FrameInv, SizeInv
  <2> QED
    BY <2>2, <2>3
<1> QED
  BY <1>6, <1>7, <1>8, <1>9

-----------------------------------------------------------------------------
\* The user and the other threads

(* What is typed behind the rest.                                          *)
LEMMA TypedKeeps ==
  ASSUME Inv, NEW k \in Keys \cup {Resize, Eof}, ~Contains(typed, Eof),
         typed' = Append(typed, k), UNCHANGED <<ui, loop, inbox, wake>>,
         size' = size \/ (k = Resize /\ size' \in Sizes)
  PROVE  Inv'
<1> DEFINE n == Len(typed)
<1>1. UiInv' /\ UNCHANGED <<unseen, dirty, host, laid, at, ready, canRender, timeout, due, resizing, closed>>
  BY UiUnchanged DEF Inv, ui, loop
<1>2. /\ typed' \in Seq(Keys \cup {Resize, Eof}) /\ n \in Nat /\ Len(typed') = n + 1
      /\ typed'[n + 1] = k /\ \A i \in 1..n : typed'[i] = typed[i]
  BY AppendProperties, LenProperties DEF Inv, InputInv
<1>3. \A i \in 1..n : typed[i] # Eof
  BY DEF Contains
<1>4. InputInv'
  BY <1>1, <1>2, <1>3 DEF Inv, InputInv
<1>5. Contains(typed, Resize) \/ k = Resize => Contains(typed', Resize)
  BY <1>2 DEF Contains
<1>6. SizeInv'
  BY <1>1, <1>5 DEF Inv, SizeInv
<1> QED
  BY <1>1, <1>4, <1>6 DEF Inv, LoopTypeOK, FrameInv

LEMMA PostKeeps ==
  ASSUME Inv, NEW sig \in Events, Post(sig)
  PROVE  Inv'
<1> DEFINE n == Len(inbox)
<1>1. /\ inbox' = Append(inbox, sig) /\ wake' = TRUE /\ n < MaxInbox
      /\ UNCHANGED <<ui, loop, typed, size>>
  BY DEF Post
<1>2. UiInv' /\ UNCHANGED <<unseen, dirty, host, laid, at, ready, canRender, timeout, due, resizing, closed>>
  BY <1>1, UiUnchanged DEF Inv, ui, loop
<1>3. sig \in Signals
  BY UiLoopAssumption DEF Signals
<1>4. /\ inbox' \in Seq(Signals) /\ n \in Nat /\ Len(inbox') = n + 1
      /\ \A i \in 1..n : inbox'[i] = inbox[i]
  BY <1>1, <1>3, AppendProperties, LenProperties DEF Inv, InputInv
<1>5. InputInv'
  <2>1. Len(inbox') <= MaxInbox /\ MaxInbox \in Nat /\ Batch \in Nat
    BY <1>1, <1>4, UiLoopAssumption
  <2>2. Len(inbox') <= MaxInbox + Batch /\ ~(Len(inbox') > MaxInbox)
    BY <1>4, <2>1
  <2> QED
    BY <1>1, <1>4, <2>2 DEF Inv, InputInv
<1>6. Contains(inbox, "RESIZE") => Contains(inbox', "RESIZE")
  BY <1>4 DEF Contains
<1>7. SizeInv'
  BY <1>1, <1>2, <1>6 DEF Inv, SizeInv
<1> QED
  BY <1>1, <1>2, <1>5, <1>7 DEF Inv, LoopTypeOK, FrameInv

-----------------------------------------------------------------------------
\* The invariant

LEMMA NextInv == Inv /\ [Next]_vars => Inv'
<1> SUFFICES ASSUME Inv, [Next]_vars PROVE Inv'
  OBVIOUS
<1>1. CASE Step
  BY <1>1, WaitingKeeps, DispatchOneKeeps, DispatchedKeeps, ReadKeysKeeps, FrameKeeps DEF Step
<1>2. CASE Fail \/ Interrupted
  BY <1>2, WaitingKeeps
<1>3. CASE Others
  <2>1. CASE Elapse
    BY <2>1, WaitingKeeps
  <2>2. ASSUME NEW k \in Keys \cup {Eof}, Type(k) PROVE Inv'
    BY <2>2, TypedKeeps DEF Type
  <2>3. CASE ResizeTerminal
    BY <2>3, TypedKeeps DEF ResizeTerminal
  <2>4. ASSUME NEW sig \in Events, Post(sig) PROVE Inv'
    BY <2>4, PostKeeps
  <2> QED
    BY <1>3, <2>1, <2>2, <2>3, <2>4 DEF Others
<1>4. CASE UNCHANGED vars
  <2>1. UiInv' /\ UNCHANGED <<unseen, dirty, host, laid>>
    BY <1>4, UiUnchanged DEF Inv, vars, ui
  <2> QED
    BY <1>4, <2>1 DEF vars, loop, env, Inv, LoopTypeOK, InputInv, FrameInv, SizeInv
<1> QED
  BY <1>1, <1>2, <1>3, <1>4 DEF Next

(* The thread sleeps on no event, and without a deadline only when the     *)
(* screen shows all there is (UI_ThreadWake_wait, FrameClock_tick_), for   *)
(* any keys, events, batch and sizes of the terminal.                      *)
THEOREM ThreadSleepsUpToDate == Spec => [](TypeOK /\ SleepsUpToDate)
<1>1. Inv => TypeOK /\ SleepsUpToDate
  <2> SUFFICES ASSUME Inv PROVE TypeOK /\ SleepsUpToDate
    OBVIOUS
  <2>1. TypeOK
    BY DEF Inv, TypeOK, UiInv, LoopTypeOK, InputInv, SizeInv
  <2>2. SleepsUpToDate
    BY DEF Inv, InputInv, FrameInv, SizeInv, SleepsUpToDate
  <2> QED
    BY <2>1, <2>2
<1> QED
  BY <1>1, InitInv, NextInv, PTL DEF Spec

(* The screen that is shown is the one that takes the keys (SM_UI_showMain_*)
(* and SM_UI_showMenu_, Menu_show, KeyBar_update).                         *)
THEOREM ShownScreenTakesKeys == Spec => []ScreenTakesKeys
<1>1. Inv => ScreenTakesKeys
  BY DEF Inv, UiInv
<1> QED
  BY <1>1, InitInv, NextInv, PTL DEF Spec
=============================================================================
