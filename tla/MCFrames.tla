------------------------------ MODULE MCFrames ------------------------------
(***************************************************************************)
(* From bytes to text: the parser that cuts frames out of the line, and    *)
(* what a protocol file has to say for frames to be formatted by it.  One  *)
(* of the two moves in a behaviour.                                        *)
(***************************************************************************)
EXTENDS MCHdlcParser, SequencesExt, TLC

VARIABLES
  moving,
  tables, activeTable, error, loaded

fileVars == <<tables, activeTable, error, loaded>>

-----------------------------------------------------------------------------
\* A byte has four values, a signed number one byte, an unsigned two.
\* TextCapacity is one more than the longest text, [000] and two values of
\* three characters; the code's 2048 is beyond its own longest.

Size == ("INT8" :> 1) @@ ("UINT16" :> 2) @@ ("STRING" :> 0)
Shown == ("INT8" :> 2) @@ ("UINT16" :> 3)
SignedTypes == {"INT8"}

Object(members) == [kind |-> "object", members |-> members]
Array(items) == [kind |-> "array", items |-> items]
Text(text) == [kind |-> "string", text |-> text]
Number1(n) == [kind |-> "uint", n |-> n]
Other == [kind |-> "other"]
Member(key, value) == [key |-> key, value |-> value]

Formats ==
  {<<>>, <<"x">>, <<"%", "s">>, <<"%", "%">>, <<"%">>, <<"%", "x">>, <<"x", "NUL">>,
   <<"%", "%", "s">>, <<"%", "s", "s">>, <<"%", "s", "%", "s">>, <<"%", "%", "%", "s">>,
   <<"%", "s", "%", "%">>, <<"x", "x", "%", "s">>, <<"s", "%", "s", "%">>,
   <<"x", "x", "x", "x", "x">>}
ArgNames == DOMAIN Size \union {"FLOAT"}
ArgLists == {<<>>} \union {<<Text(t)>> : t \in ArgNames} \union {<<Other>>}
              \union {<<Text(t), Text(u)>> : t, u \in DOMAIN Size}
              \union {<<Text(t), Text(t), Text(t)>> : t \in {"INT8"}}

Token(id, format, args) ==
  Object(<<Member("RecID", Number1(id)), Member("format", Text(format)),
           Member("args", Array(args))>>)
Good(id) == Token(id, <<"x">>, <<>>)
File(tokens) == [fault |-> "OK", root |-> Object(<<Member("RX_tokens", Array(tokens))>>)]

Files ==
  {File(<<Token(0, f, l)>>) : f \in {<<"%", "s">>, <<"%", "s", "%", "s">>}, l \in ArgLists}
    \union {File(<<Token(0, f, l)>>) : f \in Formats, l \in {<<>>, <<Text("UINT16")>>}}
    \union {File(<<Good(1), Token(0, f, <<Text("INT8")>>)>>) : f \in Formats}
    \union {File(<<Good(0), Good(0)>>), File(<<Good(2)>>), File(<<Good(1), Other>>), File(<<>>),
            File(<<Object(<<Member("RecID", Other)>>)>>),
            File(<<Object(<<Member("RecID", Number1(0))>>)>>),
            File(<<[Good(1) EXCEPT !.members = @ \o @]>>),
            File(<<[Good(1) EXCEPT
                      !.members = Append(@, Member("n", Array(<<Object(<<Member("k", Other),
                                                                   Member("k", Other)>>)>>)))]>>),
            [fault |-> "OK", root |-> Other], [fault |-> "OK", root |-> Object(<<>>)],
            [fault |-> "OK",
             root |-> Object(<<Member("n", Object(<<Member("k", Other), Member("k", Other)>>)),
                               Member("RX_tokens", Array(<<Good(0)>>))>>)]}
    \union {[fault |-> f, root |-> Other] :
              f \in {"OPEN_FAILED", "FILE_SIZE_INVALID", "READ_FAILED", "PARSE_FAILED"}}

Payloads == UNION {[1..n -> 0..3] : n \in 0..3}
ReceivedFrames ==
  {<<1>>, <<1, 0, 3>>} \union {<<1, id, Len(p)>> \o p : id \in {0}, p \in Payloads}
    \union {<<1, 1, 0>>, <<1, 1, 1, 2>>}

Decoder == INSTANCE ProtocolFrameFormatter
             WITH Documents <- Files, ArgSize <- Size, RecordNum <- 2, ArgMax <- 2,
                  FormatCapacity <- 5, Frames <- ReceivedFrames, Base <- 4,
                  Signed <- SignedTypes, ValueSize <- Shown, TextCapacity <- 12

ASSUME InstancesAssumption ==
  Decoder!DecoderAssumption /\ Decoder!FormatterAssumption

-----------------------------------------------------------------------------

FramesInit ==
  /\ moving \in {"bytes", "files"}
  /\ ParserInit /\ Decoder!Init

FramesNext ==
  /\ UNCHANGED moving
  /\ \/ moving = "bytes" /\ ParserNext /\ UNCHANGED fileVars
     \/ moving = "files" /\ Decoder!Next /\ UNCHANGED parserVars

FramesSpec == FramesInit /\ [][FramesNext]_<<moving, parserVars, fileVars>>

-----------------------------------------------------------------------------
\* Properties of the decoder and the formatter, stated in their modules

(* The table in use is that of one whole document; what the formatter      *)
(* asserts holds of it; every byte of a payload is shown, in order and as  *)
(* the number it stands for.                                               *)
FramesReadByTheFile ==
  moving = "files" =>
    /\ Decoder!TypeOK /\ Decoder!TableIsADocument /\ Decoder!FormatterTrustsTable
    /\ Decoder!PayloadShownWhole /\ Decoder!NumbersAreTheirBytes
=============================================================================
