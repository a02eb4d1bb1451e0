----------------------------- MODULE HdlcParser -----------------------------
(***************************************************************************)
(* The HDLC parser of SpMngr (hdlc_parser.c), fed one wire byte at a time. *)
(*                                                                         *)
(* A frame on the wire is a flag, then sequence number, record id, length, *)
(* that many payload bytes and a checksum, each escaped where it equals    *)
(* the flag or the escape byte.  After a checksum the parser is ready for  *)
(* another frame without another flag.  The eleven states of the code are  *)
(* the field waited for and whether an escape byte came before it.         *)
(***************************************************************************)
EXTENDS Naturals, Sequences

CONSTANTS
  ByteRange, (* 256: bytes are 0 .. ByteRange - 1 and arithmetic wraps       *)
  Flag,      (* 0x7E                                                         *)
  Escape,    (* 0x7D                                                         *)
  Mask,      (* 0x20, the bit an escaped byte has inverted                   *)
  Wire,      (* bound: the bytes the line may carry                          *)
  MaxSince   (* bound: wire bytes after a flag                               *)

Byte == 0..(ByteRange - 1)

(* HdlcParser_unescape_: byte ^ Mask.                                      *)
Unescape(b) == IF (b \div Mask) % 2 = 1 THEN b - Mask ELSE b + Mask

ASSUME ParserAssumption ==
  /\ ByteRange \in Nat \ {0} /\ Mask \in Nat \ {0} /\ MaxSince \in Nat
  /\ {Flag, Escape} \subseteq Byte /\ Flag # Escape
  /\ Wire \subseteq Byte
  /\ \A b \in Byte : Unescape(b) \in Byte

VARIABLES
  field,     (* what the current state waits for, "idle" before a flag       *)
  escaped,   (* the state is the ...Escaped one                              *)
  frame,     (* HdlcParser.frame[0 .. frameSize - 1]                         *)
  remaining, (* payloadRemaining                                             *)
  checksum,
  delivered, (* the frame the last byte delivered to the sink, or << >>      *)
  since      (* auxiliary: the wire bytes since the last flag                *)

parserVars == <<field, escaped, frame, remaining, checksum, delivered, since>>

Field == {"idle", "seq", "recId", "length", "payload", "checksum"}

ParserTypeOK ==
  /\ field \in Field
  /\ escaped \in BOOLEAN
  /\ frame \in Seq(Byte)
  /\ remaining \in Byte
  /\ checksum \in Byte
  /\ delivered \in Seq(Byte)
  /\ since \in Seq(Byte)

ParserInit ==
  /\ field = "idle" /\ escaped = FALSE
  /\ frame = <<>> /\ remaining = 0 /\ checksum = 0
  /\ delivered = <<>>
  /\ since = <<>>

-----------------------------------------------------------------------------

(* Mutated: what the checksum has summed up survives a restart.            *)
RestartKeepingSum ==
  /\ field' = "seq" /\ escaped' = FALSE
  /\ frame' = <<>> /\ remaining' = 0
  /\ UNCHANGED checksum

(* Entering active: HdlcParser_reset_, then wait for the sequence number.  *)
Restart ==
  /\ field' = "seq" /\ escaped' = FALSE
  /\ frame' = <<>> /\ remaining' = 0 /\ checksum' = 0

FrameFlag ==
  /\ Restart
  /\ delivered' = <<>>
  /\ since' = <<>>

(* Every other byte; the line is idle before the first flag.               *)
Carry(b) ==
  /\ Len(since) < MaxSince
  /\ since' = IF since = <<>> /\ field = "idle" THEN since ELSE Append(since, b)

(* Mutated: two escapes in a row are taken for one.                        *)
EscapeByteAgain ==
  /\ Carry(Escape)
  /\ escaped' = (field # "idle")
  /\ delivered' = <<>>
  /\ UNCHANGED <<field, frame, remaining, checksum>>

(* An escape after an escape gives the frame up until the next flag.       *)
EscapeByte ==
  /\ Carry(Escape)
  /\ field' = IF escaped THEN "idle" ELSE field
  /\ escaped' = (field # "idle" /\ ~escaped)
  /\ delivered' = <<>>
  /\ UNCHANGED <<frame, remaining, checksum>>

(* The byte a plain wire byte stands for.                                  *)
Meant(b) == IF escaped THEN Unescape(b) ELSE b

(* HdlcParser_append_                                                      *)
Collect(v) ==
  /\ frame' = Append(frame, v)
  /\ checksum' = (checksum + v) % ByteRange
  /\ delivered' = <<>>
  /\ escaped' = FALSE

Idle(b) ==
  /\ field = "idle"
  /\ Carry(b)
  /\ delivered' = <<>>
  /\ UNCHANGED <<field, escaped, frame, remaining, checksum>>

Header(b) ==
  /\ field \in {"seq", "recId"}
  /\ Carry(b)
  /\ Collect(Meant(b))
  /\ field' = IF field = "seq" THEN "recId" ELSE "length"
  /\ UNCHANGED remaining

Length(b) ==
  /\ field = "length"
  /\ Carry(b)
  /\ Collect(Meant(b))
  /\ remaining' = Meant(b)
  /\ field' = IF remaining' = 0 THEN "checksum" ELSE "payload"

(* Mutated: the last payload byte is taken for the checksum.               *)
PayloadShort(b) ==
  /\ field = "payload"
  /\ Carry(b)
  /\ Collect(Meant(b))
  /\ remaining' = remaining - 1
  /\ field' = IF remaining' <= 1 THEN "checksum" ELSE "payload"

Payload(b) ==
  /\ field = "payload"
  /\ Carry(b)
  /\ Collect(Meant(b))
  /\ remaining' = remaining - 1
  /\ field' = IF remaining' = 0 THEN "checksum" ELSE "payload"

(* HdlcParser_emitIfValid_, then active again.                             *)
Checksum(b) ==
  /\ field = "checksum"
  /\ Carry(b)
  /\ delivered' = IF (checksum + Meant(b)) % ByteRange = ByteRange - 1 THEN frame ELSE <<>>
  /\ Restart

DataByte(b) == Idle(b) \/ Header(b) \/ Length(b) \/ Payload(b) \/ Checksum(b)

(* HdlcParser_input                                                        *)
Input(b) ==
  \/ b = Flag /\ FrameFlag
  \/ b = Escape /\ EscapeByte
  \/ b \notin {Flag, Escape} /\ DataByte(b)

ParserNext == \E b \in Wire : Input(b)

ParserSpec == ParserInit /\ [][ParserNext]_parserVars

-----------------------------------------------------------------------------

(* The frame buffer of 3 + UINT8_MAX bytes never overflows (DBC_ASSERT     *)
(* 100), a payload is only waited for while some is missing (DBC_INVARIANT *)
(* 200, 300), and a delivered frame is as long as its own length field     *)
(* says: length, escapes and restarts are counted consistently.            *)
FramesFit ==
  /\ Len(frame) <= 3 + (ByteRange - 1)
  /\ field \in {"seq", "recId", "length", "payload"} => Len(frame) < 3 + (ByteRange - 1)
  /\ field = "payload" => remaining > 0
  /\ delivered # <<>> => Len(delivered) >= 3 /\ Len(delivered) = 3 + delivered[3]

(* How many bytes each state has collected and has still to come.          *)
CountInv ==
  /\ field = "seq" => frame = <<>>
  /\ field = "recId" => Len(frame) = 1
  /\ field = "length" => Len(frame) = 2
  /\ field \in {"payload", "checksum"} =>
       Len(frame) >= 3 /\ Len(frame) + remaining = 3 + frame[3]
  /\ field = "payload" => remaining > 0
  /\ field = "checksum" => remaining = 0
  /\ Len(frame) <= 3 + (ByteRange - 1)
  /\ delivered # <<>> => Len(delivered) >= 3 /\ Len(delivered) = 3 + delivered[3]
=============================================================================
