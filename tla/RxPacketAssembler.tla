------------------------- MODULE RxPacketAssembler -------------------------
(***************************************************************************)
(* The assembler that cuts received bytes into packets                     *)
(* (rx_packet_assembler.c), and the way SpThread drives it: it bounds its  *)
(* poll by the assembler's timeout, feeds what it reads and ends each pass *)
(* with onTimeout (sp_thread.c SpThread_run_).  A packet ends when it is   *)
(* full or when the line has been quiet for IdleMs.                        *)
(*                                                                         *)
(* Bytes are numbered in the order of their arrival since the last reset.  *)
(* Time is kept as nowMs - latestRxMs, the only way the code uses it, and  *)
(* only up to IdleMs, from where on it makes no difference.                *)
(***************************************************************************)
EXTENDS Integers, Sequences

CONSTANTS
  PacketSize, (* RX_PACKET_ASSEMBLER_PACKET_SIZE                             *)
  ReadSize,   (* sizeof(rxData)                                              *)
  IdleMs,     (* RX_PACKET_ASSEMBLER_IDLE_MS                                 *)
  MaxBytes    (* bound: bytes read between two resets                        *)

ASSUME AssemblerAssumption ==
  /\ PacketSize \in Nat \ {0} /\ ReadSize \in Nat \ {0} /\ IdleMs \in Nat \ {0}
  /\ MaxBytes \in Nat

VARIABLES
  at,    (* where SpThread is in its loop                                    *)
  data,  (* RxPacketAssembler.data[0 .. size - 1]                            *)
  input, (* what RxPacketAssembler_feed has still to copy                    *)
  quiet, (* ms since latestRxMs, at most IdleMs                              *)
  left,  (* ms the poll will still sleep                                     *)
  out,   (* the packet given to the sink last, since the reset               *)
  got,   (* how many bytes the sink was given, since the reset               *)
  read   (* how many were read, since the reset                              *)

vars == <<at, data, input, quiet, left, out, got, read>>

Forever == -1

TypeOK ==
  /\ at \in {"top", "wait", "drain", "read", "feed", "expire"}
  /\ data \in Seq(Nat) /\ Len(data) < PacketSize
  /\ input \in Seq(Nat) /\ Len(input) <= ReadSize
  /\ quiet \in 0..IdleMs
  /\ left \in {Forever} \cup 0..IdleMs
  /\ out \in Seq(Nat) /\ Len(out) <= PacketSize
  /\ got \in Nat /\ read \in Nat

(* RxPacketAssembler_init: latestRxMs = 0 is long ago.                     *)
Init ==
  /\ at = "top"
  /\ data = <<>> /\ input = <<>>
  /\ quiet = IdleMs
  /\ left = Forever
  /\ out = <<>> /\ got = 0 /\ read = 0

-----------------------------------------------------------------------------
(* The assembler.                                                          *)

Emit(packet) ==
  /\ out' = packet
  /\ got' = got + Len(packet)
  /\ data' = <<>>

Reset ==
  /\ data' = <<>> /\ quiet' = IdleMs
  /\ out' = <<>> /\ got' = 0 /\ read' = 0
  /\ UNCHANGED <<input, left>>

(* Mutated: the whole idle time again, however long the line is quiet.     *)
TimeoutMsWhole ==
  IF data = <<>> THEN Forever ELSE IF quiet = IdleMs THEN 0 ELSE IdleMs

(* Mutated: an overdue packet has no deadline any more.                    *)
TimeoutMsOverdue ==
  IF data = <<>> \/ quiet = IdleMs THEN Forever ELSE IdleMs - quiet

TimeoutMs == IF data = <<>> THEN Forever ELSE IdleMs - quiet

Available == PacketSize - Len(data)

Chunk == IF Len(input) < Available THEN Len(input) ELSE Available

(* Mutated: the read pointer does not follow the chunks.                   *)
FeedSameBytes ==
  LET stored == data \o SubSeq(input, 1, Chunk)
      rest   == SubSeq(input, 1, Len(input) - Chunk)
  IN  /\ at = "feed"
      /\ input' = rest
      /\ at' = IF rest = <<>> THEN "read" ELSE "feed"
      /\ IF Len(stored) = PacketSize
         THEN Emit(stored)
         ELSE data' = stored /\ UNCHANGED <<out, got>>
      /\ UNCHANGED <<quiet, left, read>>

(* One turn of the loop in RxPacketAssembler_feed.                         *)
Feed ==
  LET stored == data \o SubSeq(input, 1, Chunk)
      rest   == SubSeq(input, Chunk + 1, Len(input))
  IN  /\ at = "feed"
      /\ input' = rest
      /\ at' = IF rest = <<>> THEN "read" ELSE "feed"
      /\ IF Len(stored) = PacketSize
         THEN Emit(stored)
         ELSE data' = stored /\ UNCHANGED <<out, got>>
      /\ UNCHANGED <<quiet, left, read>>

(* Mutated: whatever is held goes out at the end of a pass.                *)
OnTimeoutAlways ==
  /\ at = "expire"
  /\ at' = "top"
  /\ IF data # <<>> THEN Emit(data) ELSE UNCHANGED <<data, out, got>>
  /\ UNCHANGED <<input, quiet, left, read>>

OnTimeout ==
  /\ at = "expire"
  /\ at' = "top"
  /\ IF TimeoutMs = 0 THEN Emit(data) ELSE UNCHANGED <<data, out, got>>
  /\ UNCHANGED <<input, quiet, left, read>>

-----------------------------------------------------------------------------
(* The loop around it.                                                     *)

(* At the top of a pass the wait object may be another one.                *)
Rebind == at = "top" /\ Reset /\ at' = "top"

Poll ==
  /\ at = "top"
  /\ at' = "wait"
  /\ left' = TimeoutMs
  /\ UNCHANGED <<data, input, quiet, out, got, read>>

(* EINTR; a poll that need not sleep is not interrupted.                   *)
Interrupted ==
  /\ at = "wait" /\ left # 0
  /\ at' = "top"
  /\ UNCHANGED <<data, input, quiet, left, out, got, read>>

(* The poll returns: on an event, bytes or, at the latest, its timeout.    *)
WakeUp ==
  /\ at = "wait"
  /\ at' = "drain"
  /\ UNCHANGED <<data, input, quiet, left, out, got, read>>

(* Requests, a lost port or a new wait object reset the assembler.         *)
DrainResetting == at = "drain" /\ Reset /\ at' = "drain"

(* Then the port is read if the poll said so.                              *)
Drained ==
  /\ at = "drain"
  /\ at' \in {"read", "expire"}
  /\ UNCHANGED <<data, input, quiet, left, out, got, read>>

(* n bytes are read and handed to feed, which stamps them.                 *)
ReadBytes(n) ==
  /\ at = "read"
  /\ read + n <= MaxBytes
  /\ at' = "feed"
  /\ input' = [i \in 1..n |-> read + i]
  /\ read' = read + n
  /\ quiet' = 0
  /\ UNCHANGED <<data, left, out, got>>

ReadNothing ==
  /\ at = "read"
  /\ at' = "expire"
  /\ UNCHANGED <<data, input, quiet, left, out, got, read>>

ReadFails == at = "read" /\ Reset /\ at' = "expire"

(* A millisecond passes, also while the thread works.                      *)
Tick ==
  /\ quiet' = IF quiet = IdleMs THEN IdleMs ELSE quiet + 1
  /\ left' = IF at = "wait" /\ left > 0 THEN left - 1 ELSE left
  /\ UNCHANGED <<at, data, input, out, got, read>>

Step == Poll \/ Drained \/ Feed \/ ReadNothing \/ OnTimeout

Next ==
  \/ Step \/ WakeUp \/ Interrupted \/ Tick
  \/ Rebind \/ DrainResetting \/ ReadFails
  \/ \E n \in 1..ReadSize : ReadBytes(n)

(* The thread goes on, its poll ends at the timeout and time passes.       *)
Spec ==
  /\ Init /\ [][Next]_vars
  /\ WF_vars(Step) /\ WF_vars(left = 0 /\ WakeUp) /\ WF_vars(Tick)

-----------------------------------------------------------------------------

(* No byte is lost, doubled or reordered between the reads and the sink:   *)
(* what was delivered, what the buffer holds and what feed still has to    *)
(* copy are the bytes read, in order, across every chunk boundary.         *)
BytesInOrder ==
  /\ read = got + Len(data) + Len(input)
  /\ \A i \in 1..Len(out)   : out[i] = got - Len(out) + i
  /\ \A i \in 1..Len(data)  : data[i] = got + i
  /\ \A i \in 1..Len(input) : input[i] = got + Len(data) + i

(* A poll never sleeps past the deadline of a held packet, however often   *)
(* the thread was woken for something else since the last byte.            *)
PollMeetsDeadline ==
  at = "wait" /\ data # <<>> => left # Forever /\ left + quiet <= IdleMs

(* A packet is cut short only after a quiet line, never inside a burst.    *)
CutWhenQuiet ==
  [][out' \notin {out, <<>>} => Len(out') = PacketSize \/ (quiet = IdleMs /\ input = <<>>)]_vars

(* Only feed works on input, and it leaves nothing to copy.                *)
FeedInv == at = "feed" <=> input # <<>>

(* Every byte read reaches the sink, or the port or its configuration      *)
(* changed; no further byte is needed to push it out.                      *)
BytesLeave == \A k \in 1..MaxBytes : read = k ~> got >= k \/ read < k
=============================================================================
