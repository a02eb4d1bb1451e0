------------------------- MODULE ReceivePathProofs -------------------------
(***************************************************************************)
(* Proofs about the two stages bytes of the line pass through: the         *)
(* assembler that cuts them into packets, for every packet, read and idle  *)
(* size, and the parser that cuts frames out of what the packets carry,    *)
(* for every width of a byte, every flag, escape and mask.                 *)
(***************************************************************************)
EXTENDS RxPacketAssembler, HdlcParser, SequenceTheorems, TLAPS

-----------------------------------------------------------------------------
(* The assembler.                                                          *)

AssemblerInv == TypeOK /\ FeedInv /\ BytesInOrder /\ PollMeetsDeadline

(* Both pieces feed cuts its input into are sequences of bytes, and        *)
(* together they are the input.                                            *)
LEMMA CutInTwo ==
  ASSUME NEW s \in Seq(Nat), NEW k \in 0..Len(s)
  PROVE  /\ SubSeq(s, 1, k) \in Seq(Nat) /\ Len(SubSeq(s, 1, k)) = k
         /\ \A i \in 1..k : SubSeq(s, 1, k)[i] = s[i]
         /\ SubSeq(s, k + 1, Len(s)) \in Seq(Nat)
         /\ Len(SubSeq(s, k + 1, Len(s))) = Len(s) - k
         /\ \A i \in 1..(Len(s) - k) : SubSeq(s, k + 1, Len(s))[i] = s[k + i]
<1>1. Len(s) \in Nat /\ \A i \in 1..Len(s) : s[i] \in Nat
  BY LenProperties, ElementOfSeq
<1>2. \A i \in 1..k : s[i] \in Nat
  BY <1>1
<1>3. \A i \in (k + 1)..Len(s) : s[i] \in Nat
  BY <1>1
<1>4. /\ SubSeq(s, 1, k) \in Seq(Nat)
      /\ Len(SubSeq(s, 1, k)) = (IF 1 <= k THEN k - 1 + 1 ELSE 0)
      /\ \A i \in 1..(k - 1 + 1) : SubSeq(s, 1, k)[i] = s[1 + i - 1]
  BY <1>1, <1>2, SubSeqProperties
<1>5. /\ SubSeq(s, k + 1, Len(s)) \in Seq(Nat)
      /\ Len(SubSeq(s, k + 1, Len(s)))
           = (IF k + 1 <= Len(s) THEN Len(s) - (k + 1) + 1 ELSE 0)
      /\ \A i \in 1..(Len(s) - (k + 1) + 1) :
           SubSeq(s, k + 1, Len(s))[i] = s[k + 1 + i - 1]
  <2>1. k + 1 \in Int /\ Len(s) \in Int
    BY <1>1
  <2> QED
    BY <1>3, <2>1, SubSeqProperties
<1>6. k \in Nat /\ k <= Len(s)
  BY <1>1
<1>7. /\ Len(SubSeq(s, 1, k)) = k
      /\ \A i \in 1..k : SubSeq(s, 1, k)[i] = s[i]
  BY <1>4, <1>6
<1>8. /\ Len(SubSeq(s, k + 1, Len(s))) = Len(s) - k
      /\ \A i \in 1..(Len(s) - k) : SubSeq(s, k + 1, Len(s))[i] = s[k + i]
  BY <1>1, <1>5, <1>6
<1> QED
  BY <1>4, <1>5, <1>7, <1>8

LEMMA InitInv == Init => AssemblerInv
  BY AssemblerAssumption
     DEF Init, AssemblerInv, TypeOK, FeedInv, BytesInOrder, PollMeetsDeadline, Forever

(* A reset leaves nothing that could be out of order.                      *)
LEMMA ResetInv ==
  ASSUME AssemblerInv, Reset, at # "feed", at' \in {"top", "drain", "expire"}
  PROVE  AssemblerInv'
<1>1. input = <<>>
  BY DEF AssemblerInv, FeedInv
<1> QED
  BY <1>1, AssemblerAssumption
     DEF Reset, AssemblerInv, TypeOK, FeedInv, BytesInOrder, PollMeetsDeadline, Forever

(* The packets and the clock after each step of the loop.                  *)
LEMMA OnTimeoutInv ==
  ASSUME AssemblerInv, OnTimeout
  PROVE  /\ AssemblerInv'
         /\ out' # out => quiet = IdleMs /\ input = <<>>
<1>1. /\ input = <<>> /\ data \in Seq(Nat) /\ Len(data) \in Nat
      /\ out \in Seq(Nat) /\ got \in Nat
  BY LenProperties DEF AssemblerInv, TypeOK, FeedInv, OnTimeout
<1>2. CASE TimeoutMs = 0
  <2>1. data' = <<>> /\ out' = data /\ got' = got + Len(data) /\ data # <<>>
    BY <1>2 DEF OnTimeout, Emit, TimeoutMs, Forever
  <2>2. quiet = IdleMs
    BY <1>2, <2>1, AssemblerAssumption DEF TimeoutMs, AssemblerInv, TypeOK
  <2>3. /\ read = got + Len(data)
        /\ \A i \in 1..Len(data) : data[i] = got + i
    BY <1>1 DEF AssemblerInv, BytesInOrder
  <2>4. /\ read' = got' + Len(data') + Len(input')
        /\ \A i \in 1..Len(out') : out'[i] = got' - Len(out') + i
    BY <1>1, <2>1, <2>3 DEF OnTimeout
  <2>5. BytesInOrder'
    BY <1>1, <2>1, <2>4 DEF BytesInOrder, OnTimeout
  <2>6. TypeOK' /\ FeedInv' /\ PollMeetsDeadline'
    BY <1>1, <2>1, AssemblerAssumption
       DEF OnTimeout, AssemblerInv, TypeOK, FeedInv, PollMeetsDeadline
  <2> QED
    BY <1>1, <2>2, <2>5, <2>6 DEF AssemblerInv
<1>3. CASE TimeoutMs # 0
  BY <1>1, <1>3
     DEF OnTimeout, AssemblerInv, TypeOK, FeedInv, BytesInOrder, PollMeetsDeadline
<1> QED
  BY <1>2, <1>3

LEMMA FeedKeepsInv ==
  ASSUME AssemblerInv, Feed
  PROVE  /\ AssemblerInv'
         /\ out' # out => Len(out') = PacketSize
<1> DEFINE piece  == SubSeq(input, 1, Chunk)
           stored == data \o piece
           rest   == SubSeq(input, Chunk + 1, Len(input))
           n == Len(data)
           m == Len(input)
<1>1. /\ data \in Seq(Nat) /\ input \in Seq(Nat) /\ out \in Seq(Nat)
      /\ input # <<>> /\ at = "feed"
  BY DEF AssemblerInv, TypeOK, FeedInv, Feed
<1>2. /\ n \in Nat /\ n < PacketSize /\ m \in Nat /\ m > 0 /\ m <= ReadSize
      /\ got \in Nat /\ read \in Nat /\ PacketSize \in Nat /\ ReadSize \in Nat
  BY <1>1, LenProperties, EmptySeq, AssemblerAssumption DEF AssemblerInv, TypeOK
<1>3. /\ Chunk \in 0..m /\ Chunk \in Nat /\ Chunk > 0
      /\ n + Chunk <= PacketSize
      /\ Chunk < m => n + Chunk = PacketSize
  BY <1>2 DEF Chunk, Available
<1>4. /\ piece \in Seq(Nat) /\ Len(piece) = Chunk
      /\ \A i \in 1..Chunk : piece[i] = input[i]
      /\ rest \in Seq(Nat) /\ Len(rest) = m - Chunk
      /\ \A i \in 1..(m - Chunk) : rest[i] = input[Chunk + i]
  BY <1>1, <1>3, CutInTwo
<1>5. /\ input' = rest /\ at' = (IF rest = <<>> THEN "read" ELSE "feed")
      /\ UNCHANGED <<quiet, left, read>>
      /\ IF Len(stored) = PacketSize
         THEN out' = stored /\ got' = got + Len(stored) /\ data' = <<>>
         ELSE data' = stored /\ out' = out /\ got' = got
  BY DEF Feed, Emit
<1> HIDE DEF piece, rest
<1>6. /\ stored \in Seq(Nat) /\ Len(stored) = n + Len(piece)
      /\ \A i \in 1..(n + Len(piece)) :
           stored[i] = IF i <= n THEN data[i] ELSE piece[i - n]
  BY <1>1, <1>4, ConcatProperties
<1> HIDE DEF stored
<1>7. Len(stored) = n + Chunk
  BY <1>4, <1>6
<1>8. /\ read = got + n + m
      /\ \A i \in 1..Len(out) : out[i] = got - Len(out) + i
      /\ \A i \in 1..n : data[i] = got + i
      /\ \A i \in 1..m : input[i] = got + n + i
  BY DEF AssemblerInv, BytesInOrder
<1> HIDE DEF n, m
<1>9. \A i \in 1..Len(stored) : stored[i] = got + i
  <2> SUFFICES ASSUME NEW i \in 1..Len(stored)
               PROVE  stored[i] = got + i
    OBVIOUS
  <2>1. i \in Int /\ 1 <= i /\ i <= n + Chunk /\ i \in 1..(n + Len(piece))
    BY <1>2, <1>3, <1>4, <1>7
  <2>2. CASE i <= n
    <3>1. i \in 1..n
      BY <1>2, <2>1, <2>2
    <3>2. stored[i] = data[i]
      BY <1>6, <2>1, <2>2
    <3> QED
      BY <1>8, <3>1, <3>2
  <2>3. CASE ~(i <= n)
    <3>1. i - n \in 1..Chunk /\ i - n \in 1..m
      BY <1>2, <1>3, <2>1, <2>3
    <3>2. stored[i] = piece[i - n]
      BY <1>6, <2>1, <2>3
    <3>3. piece[i - n] = input[i - n] /\ input[i - n] = got + n + (i - n)
      BY <1>4, <1>8, <3>1
    <3> QED
      BY <1>2, <2>1, <3>2, <3>3
  <2> QED
    BY <2>2, <2>3
<1>10. \A i \in 1..Len(rest) : rest[i] = got + (n + Chunk) + i
  <2> SUFFICES ASSUME NEW i \in 1..Len(rest)
               PROVE  rest[i] = got + (n + Chunk) + i
    OBVIOUS
  <2>1. i \in 1..(m - Chunk)
    BY <1>4
  <2>2. Chunk + i \in 1..m /\ i \in Int
    BY <1>2, <1>3, <2>1
  <2>3. rest[i] = input[Chunk + i] /\ input[Chunk + i] = got + n + (Chunk + i)
    BY <1>4, <1>8, <2>1, <2>2
  <2> QED
    BY <1>2, <1>3, <2>2, <2>3
<1>11. Len(rest) = m - Chunk /\ rest \in Seq(Nat)
  BY <1>4
<1>12. FeedInv' /\ PollMeetsDeadline'
  BY <1>5 DEF FeedInv, PollMeetsDeadline
<1>13. CASE Len(stored) = PacketSize
  <2>1. out' = stored /\ got' = got + Len(stored) /\ data' = <<>> /\ input' = rest /\ read' = read
    BY <1>5, <1>13
  <2>2. read' = got' + Len(data') + Len(input')
    BY <1>2, <1>3, <1>7, <1>8, <1>11, <2>1
  <2>3. \A i \in 1..Len(out') : out'[i] = got' - Len(out') + i
    <3>1. got' - Len(out') = got
      BY <1>2, <1>3, <1>7, <2>1
    <3> QED
      BY <1>9, <2>1, <3>1
  <2>4. \A i \in 1..Len(input') : input'[i] = got' + Len(data') + i
    <3>1. got' + Len(data') = got + (n + Chunk)
      BY <1>2, <1>3, <1>7, <2>1
    <3> QED
      BY <1>10, <2>1, <3>1
  <2>5. BytesInOrder'
    BY <2>1, <2>2, <2>3, <2>4 DEF BytesInOrder
  <2>6. /\ Len(out') <= PacketSize /\ Len(input') <= ReadSize /\ Len(data') < PacketSize
        /\ got' \in Nat
    BY <1>2, <1>3, <1>7, <1>11, <1>13, <2>1
  <2>7. TypeOK'
    BY <1>5, <1>6, <1>11, <2>1, <2>6 DEF AssemblerInv, TypeOK
  <2> QED
    BY <1>12, <1>13, <2>1, <2>5, <2>7 DEF AssemblerInv
<1>14. CASE Len(stored) # PacketSize
  <2>1. data' = stored /\ got' = got /\ out' = out /\ input' = rest /\ read' = read
    BY <1>5, <1>14
  <2>2. Len(rest) = 0 /\ m = Chunk /\ Len(stored) < PacketSize
    BY <1>2, <1>3, <1>7, <1>11, <1>14
  <2>3. read' = got' + Len(data') + Len(input')
    BY <1>2, <1>3, <1>7, <1>8, <2>1, <2>2
  <2>4. /\ \A i \in 1..Len(out') : out'[i] = got' - Len(out') + i
        /\ \A i \in 1..Len(data') : data'[i] = got' + i
    BY <1>8, <1>9, <2>1
  <2>5. \A i \in 1..Len(input') : input'[i] = got' + Len(data') + i
    BY <2>1, <2>2
  <2>6. BytesInOrder'
    BY <2>3, <2>4, <2>5 DEF BytesInOrder
  <2>7. Len(input') <= ReadSize /\ Len(data') < PacketSize
    BY <1>2, <2>1, <2>2
  <2>8. TypeOK'
    BY <1>5, <1>6, <1>11, <2>1, <2>7 DEF AssemblerInv, TypeOK
  <2> QED
    BY <1>12, <2>1, <2>6, <2>8 DEF AssemblerInv
<1> QED
  BY <1>13, <1>14

LEMMA ReadInv ==
  ASSUME AssemblerInv, NEW n \in 1..ReadSize, ReadBytes(n)
  PROVE  AssemblerInv'
<1>1. input = <<>> /\ read \in Nat /\ n \in Nat /\ n > 0 /\ n <= ReadSize
  BY AssemblerAssumption DEF AssemblerInv, FeedInv, TypeOK, ReadBytes
<1>2. input' = [i \in 1..n |-> read + i] /\ read' = read + n /\ at' = "feed"
  BY DEF ReadBytes
<1>3. input' \in Seq(Nat) /\ Len(input') = n
  BY <1>1, <1>2
<1>4. input' # <<>>
  BY <1>1, <1>3
<1>5. /\ read = got + Len(data) /\ Len(data) \in Nat /\ got \in Nat
  BY <1>1, LenProperties DEF AssemblerInv, BytesInOrder, TypeOK
<1>6. BytesInOrder'
  BY <1>1, <1>2, <1>3, <1>5 DEF AssemblerInv, BytesInOrder, ReadBytes
<1>7. TypeOK'
  BY <1>1, <1>2, <1>3, AssemblerAssumption DEF AssemblerInv, TypeOK, ReadBytes
<1> QED
  BY <1>2, <1>4, <1>6, <1>7 DEF AssemblerInv, FeedInv, PollMeetsDeadline

(* What every step keeps, and when it ends a packet.                       *)
LEMMA StepInv ==
  ASSUME AssemblerInv, [Next]_vars
  PROVE  /\ AssemblerInv'
         /\ out' \notin {out, <<>>} =>
              Len(out') = PacketSize \/ (quiet = IdleMs /\ input = <<>>)
<1>1. CASE Poll
  BY <1>1, AssemblerAssumption
     DEF Poll, TimeoutMs, Forever, AssemblerInv, TypeOK, FeedInv, BytesInOrder, PollMeetsDeadline
<1>2. CASE Drained \/ ReadNothing \/ WakeUp \/ Interrupted
  BY <1>2 DEF Drained, ReadNothing, WakeUp, Interrupted,
              AssemblerInv, TypeOK, FeedInv, BytesInOrder, PollMeetsDeadline
<1>3. CASE Feed
  BY <1>3, FeedKeepsInv
<1>4. CASE OnTimeout
  BY <1>4, OnTimeoutInv
<1>5. CASE Tick
  <2>1. TypeOK' /\ PollMeetsDeadline'
    BY <1>5, AssemblerAssumption DEF Tick, Forever, AssemblerInv, TypeOK, PollMeetsDeadline
  <2> QED
    BY <1>5, <2>1 DEF Tick, AssemblerInv, FeedInv, BytesInOrder
<1>6. CASE Rebind \/ DrainResetting \/ ReadFails
  <2>1. /\ Reset /\ at # "feed" /\ at' \in {"top", "drain", "expire"}
        /\ out' = <<>>
    BY <1>6 DEF Rebind, DrainResetting, ReadFails, Reset
  <2> QED
    BY <2>1, ResetInv
<1>7. ASSUME NEW n \in 1..ReadSize, ReadBytes(n)
      PROVE  AssemblerInv' /\ out' = out
  BY <1>7, ReadInv DEF ReadBytes
<1>8. CASE UNCHANGED vars
  BY <1>8 DEF vars, AssemblerInv, TypeOK, FeedInv, BytesInOrder, PollMeetsDeadline
<1> QED
  BY <1>1, <1>2, <1>3, <1>4, <1>5, <1>6, <1>7, <1>8
     DEF Next, Step, Poll, Drained, ReadNothing, WakeUp, Interrupted, Tick

LEMMA AssemblerInvariant == Spec => []AssemblerInv
  BY InitInv, StepInv, PTL DEF Spec

(* The packet buffer never overflows and no read finds it full.            *)
THEOREM AssemblerTypeCorrect == Spec => []TypeOK
<1>1. AssemblerInv => TypeOK
  BY DEF AssemblerInv
<1> QED
  BY <1>1, AssemblerInvariant, PTL

(* The sink gets the bytes read, in order, none lost and none twice.       *)
THEOREM SinkGetsTheBytes == Spec => []BytesInOrder
<1>1. AssemblerInv => BytesInOrder
  BY DEF AssemblerInv
<1> QED
  BY <1>1, AssemblerInvariant, PTL

(* SpThread's poll never sleeps past the deadline of a held packet.        *)
THEOREM DeadlinesAreMet == Spec => []PollMeetsDeadline
<1>1. AssemblerInv => PollMeetsDeadline
  BY DEF AssemblerInv
<1> QED
  BY <1>1, AssemblerInvariant, PTL

(* Packets end when they are full or the line is quiet, nowhere else.      *)
THEOREM PacketsEndWhenQuiet == Spec => CutWhenQuiet
<1>1. AssemblerInv /\ [Next]_vars =>
        [out' \notin {out, <<>>} => Len(out') = PacketSize \/ (quiet = IdleMs /\ input = <<>>)]_vars
  BY StepInv
<1> QED
  BY <1>1, AssemblerInvariant, PTL DEF Spec, CutWhenQuiet

-----------------------------------------------------------------------------
(* The parser.                                                             *)

(* Every byte of the line that is neither flag nor escape means a byte.    *)
LEMMA MeantIsByte ==
  ASSUME NEW b \in Byte
  PROVE  Meant(b) \in Byte
  BY ParserAssumption DEF Meant

LEMMA CarryKeepsWire ==
  ASSUME ParserTypeOK, NEW b \in Byte, Carry(b)
  PROVE  since' \in Seq(Byte)
  BY DEF ParserTypeOK, Carry

LEMMA SumIsByte ==
  ASSUME NEW x \in Byte, NEW y \in Byte
  PROVE  (x + y) % ByteRange \in Byte
  BY ParserAssumption DEF Byte

LEMMA AppendedByte ==
  ASSUME NEW s \in Seq(Byte), NEW v \in Byte
  PROVE  /\ Append(s, v) \in Seq(Byte)
         /\ Len(Append(s, v)) = Len(s) + 1
         /\ Append(s, v)[Len(s) + 1] = v
  BY AppendProperties

LEMMA InputKeepsInv ==
  ASSUME ParserTypeOK, CountInv, NEW b \in Wire, Input(b)
  PROVE  ParserTypeOK' /\ CountInv'
<1>0. /\ b \in Byte /\ Meant(b) \in Byte
      /\ ByteRange \in Nat \ {0} /\ 0 \in Byte
      /\ <<>> \in Seq(Byte)
  BY ParserAssumption, MeantIsByte DEF Byte
<1>1. CASE FrameFlag
  <2>1. ParserTypeOK'
    BY <1>0, <1>1 DEF FrameFlag, Restart, ParserTypeOK, Field
  <2>2. /\ field' = "seq" /\ frame' = <<>> /\ delivered' = <<>>
        /\ Len(frame') <= 3 + (ByteRange - 1)
    BY <1>0, <1>1 DEF FrameFlag, Restart
  <2>3. CountInv'
    BY <2>2 DEF CountInv
  <2> QED
    BY <2>1, <2>3
<1>2. CASE EscapeByte
  <2>1. since' \in Seq(Byte)
    BY <1>2, CarryKeepsWire, ParserAssumption DEF EscapeByte
  <2> QED
    BY <1>0, <1>2, <2>1 DEF EscapeByte, ParserTypeOK, CountInv, Field
<1>3. CASE Idle(b)
  <2>1. since' \in Seq(Byte)
    BY <1>0, <1>3, CarryKeepsWire DEF Idle
  <2> QED
    BY <1>0, <1>3, <2>1 DEF Idle, ParserTypeOK, CountInv
<1>4. CASE Header(b)
  <2>1. since' \in Seq(Byte)
    BY <1>0, <1>4, CarryKeepsWire DEF Header
  <2>2. checksum' \in Byte
    BY <1>0, <1>4, SumIsByte DEF Header, Collect, ParserTypeOK
  <2>3. frame' \in Seq(Byte) /\ Len(frame') = Len(frame) + 1
    BY <1>0, <1>4 DEF Header, Collect, ParserTypeOK
  <2>4. ParserTypeOK'
    BY <1>0, <1>4, <2>1, <2>2, <2>3 DEF Header, Collect, ParserTypeOK, Field
  <2>5. /\ field = "seq" => Len(frame) = 0
        /\ field = "recId" => Len(frame) = 1
    BY DEF CountInv
  <2>6. /\ delivered' = <<>>
        /\ field' = "recId" => Len(frame') = 1
        /\ field' = "length" => Len(frame') = 2
        /\ field' \in {"recId", "length"}
        /\ Len(frame') \in 1..2
    BY <1>4, <2>3, <2>5 DEF Header, Collect
  <2>7. Len(frame') <= 3 + (ByteRange - 1)
    <3>1. \A n \in 1..2 : n <= 3 + (ByteRange - 1)
      BY <1>0
    <3> QED
      BY <2>6, <3>1
  <2>8. CountInv'
    BY <2>6, <2>7 DEF CountInv
  <2> QED
    BY <2>4, <2>8
<1>5. CASE Length(b)
  <2>1. since' \in Seq(Byte)
    BY <1>0, <1>5, CarryKeepsWire DEF Length
  <2>2. checksum' \in Byte
    BY <1>0, <1>5, SumIsByte DEF Length, Collect, ParserTypeOK
  <2>3. frame' \in Seq(Byte) /\ Len(frame') = 3 /\ frame'[3] = Meant(b)
    <3>1. frame \in Seq(Byte) /\ Len(frame) = 2 /\ frame' = Append(frame, Meant(b))
      BY <1>5 DEF Length, Collect, ParserTypeOK, CountInv
    <3>2. /\ Append(frame, Meant(b)) \in Seq(Byte)
          /\ Len(Append(frame, Meant(b))) = Len(frame) + 1
          /\ Append(frame, Meant(b))[Len(frame) + 1] = Meant(b)
      BY <1>0, <3>1, AppendedByte
    <3> QED
      BY <3>1, <3>2
  <2>4. ParserTypeOK'
    BY <1>0, <1>5, <2>1, <2>2, <2>3 DEF Length, Collect, ParserTypeOK, Field
  <2> QED
    BY <1>0, <1>5, <2>3, <2>4 DEF Length, Collect, CountInv, Byte
<1>6. CASE Payload(b)
  <2>1. since' \in Seq(Byte)
    BY <1>0, <1>6, CarryKeepsWire DEF Payload
  <2>2. checksum' \in Byte
    BY <1>0, <1>6, SumIsByte DEF Payload, Collect, ParserTypeOK
  <2>3. /\ frame' \in Seq(Byte) /\ Len(frame') = Len(frame) + 1
        /\ Len(frame) >= 3 /\ frame'[3] = frame[3] /\ frame[3] \in Byte
    BY <1>0, <1>6 DEF Payload, Collect, ParserTypeOK, CountInv
  <2>4. remaining' \in Byte /\ remaining' = remaining - 1
    <3>1. remaining \in Byte /\ remaining > 0 /\ remaining' = remaining - 1
      BY <1>6 DEF Payload, ParserTypeOK, CountInv
    <3> QED
      BY <1>0, <3>1 DEF Byte
  <2>5. ParserTypeOK'
    BY <1>0, <1>6, <2>1, <2>2, <2>3, <2>4 DEF Payload, Collect, ParserTypeOK, Field
  <2>6. Len(frame') + remaining' = 3 + frame'[3]
    BY <1>0, <1>6, <2>3, <2>4 DEF Payload, CountInv, ParserTypeOK, Byte
  <2>7. /\ delivered' = <<>>
        /\ \/ field' = "checksum" /\ remaining' = 0
           \/ field' = "payload" /\ remaining' > 0
    <3>1. remaining' \in Nat
      BY <1>0, <2>4 DEF Byte
    <3>2. delivered' = <<>>
      BY <1>6 DEF Payload, Collect
    <3>3. field' = IF remaining' = 0 THEN "checksum" ELSE "payload"
      BY <1>6 DEF Payload
    <3>4. CASE remaining' = 0
      BY <3>2, <3>3, <3>4
    <3>5. CASE remaining' # 0
      <4>1. remaining' > 0
        BY <3>1, <3>5
      <4> QED
        BY <3>2, <3>3, <3>5, <4>1
    <3> QED
      BY <3>4, <3>5
  <2>8. Len(frame') >= 3 /\ Len(frame') <= 3 + (ByteRange - 1)
    <3>1. Len(frame) \in Nat /\ Len(frame) >= 3 /\ Len(frame') = Len(frame) + 1
      BY <2>3 DEF ParserTypeOK
    <3>2. remaining' \in Nat /\ frame'[3] \in Nat /\ frame'[3] <= ByteRange - 1
      BY <1>0, <2>3, <2>4 DEF Byte
    <3>3. ByteRange - 1 \in Int
      BY <1>0
    <3> QED
      BY <2>6, <3>1, <3>2, <3>3
  <2>9. CountInv'
    BY <2>6, <2>7, <2>8 DEF CountInv
  <2> QED
    BY <2>5, <2>9
<1>7. CASE Checksum(b)
  <2>1. since' \in Seq(Byte)
    BY <1>0, <1>7, CarryKeepsWire DEF Checksum
  <2>2. delivered' \in {frame, <<>>}
    BY <1>7 DEF Checksum
  <2>3. ParserTypeOK'
    BY <1>0, <1>7, <2>1, <2>2 DEF Checksum, Restart, ParserTypeOK, Field
  <2> QED
    BY <1>0, <1>7, <2>2, <2>3 DEF Checksum, Restart, ParserTypeOK, CountInv, Byte
<1> QED
  BY <1>0, <1>1, <1>2, <1>3, <1>4, <1>5, <1>6, <1>7 DEF Input, DataByte

LEMMA ParserInvariant == ParserSpec => [](ParserTypeOK /\ CountInv)
<1>1. ParserInit => ParserTypeOK /\ CountInv
  <2>1. 0 \in Byte /\ <<>> \in Seq(Byte) /\ ByteRange \in Nat \ {0}
    BY ParserAssumption DEF Byte
  <2> SUFFICES ASSUME ParserInit
               PROVE  ParserTypeOK /\ CountInv
    OBVIOUS
  <2>2. ParserTypeOK
    BY <2>1 DEF ParserInit, ParserTypeOK, Field
  <2>3. Len(frame) <= 3 + (ByteRange - 1)
    BY <2>1 DEF ParserInit
  <2>4. CountInv
    BY <2>3 DEF ParserInit, CountInv
  <2> QED
    BY <2>2, <2>4
<1>2. ParserTypeOK /\ CountInv /\ [ParserNext]_parserVars => ParserTypeOK' /\ CountInv'
  <2> SUFFICES ASSUME ParserTypeOK, CountInv, [ParserNext]_parserVars
               PROVE  ParserTypeOK' /\ CountInv'
    OBVIOUS
  <2>1. CASE ParserNext
    BY <2>1, InputKeepsInv DEF ParserNext
  <2>2. CASE UNCHANGED parserVars
    BY <2>2 DEF parserVars, ParserTypeOK, CountInv
  <2> QED
    BY <2>1, <2>2
<1> QED
  BY <1>1, <1>2, PTL DEF ParserSpec

(* Frames, sums and lengths are bytes whatever comes over the line.        *)
THEOREM FramesTypeCorrect == ParserSpec => []ParserTypeOK
  BY ParserInvariant, PTL

(* The frame buffer never overflows, a payload state always misses some    *)
(* payload, and a delivered frame has the length it states, for every      *)
(* sequence of wire bytes.                                                 *)
THEOREM FramesAlwaysFit == ParserSpec => []FramesFit
<1>1. ParserTypeOK /\ CountInv => FramesFit
  <2>1. ByteRange \in Nat \ {0}
    BY ParserAssumption
  <2> SUFFICES ASSUME ParserTypeOK, CountInv
               PROVE  FramesFit
    OBVIOUS
  <2>2. CASE field \in {"idle", "seq", "recId", "length", "checksum"}
    <3>1. field \in {"seq", "recId", "length"} => Len(frame) \in 0..2
      BY DEF CountInv
    <3>2. \A n \in 0..2 : n < 3 + (ByteRange - 1)
      BY <2>1
    <3>3. field \in {"seq", "recId", "length"} => Len(frame) < 3 + (ByteRange - 1)
      BY <3>1, <3>2
    <3> QED
      BY <2>2, <3>3 DEF CountInv, FramesFit
  <2>3. CASE field = "payload"
    <3>1. Len(frame) + remaining = 3 + frame[3] /\ remaining > 0 /\ Len(frame) >= 3
      BY <2>3 DEF CountInv
    <3>2. frame[3] \in Byte /\ Len(frame) \in Nat
      BY <3>1 DEF ParserTypeOK
    <3>3. Len(frame) < 3 + (ByteRange - 1)
      BY <2>1, <3>1, <3>2 DEF ParserTypeOK, Byte
    <3> QED
      BY <2>1, <2>3, <3>1, <3>3 DEF CountInv, FramesFit
  <2> QED
    BY <2>2, <2>3 DEF ParserTypeOK, Field
<1> QED
  BY <1>1, ParserInvariant, PTL
=============================================================================
