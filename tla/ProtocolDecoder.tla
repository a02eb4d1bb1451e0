-------------------------- MODULE ProtocolDecoder --------------------------
(***************************************************************************)
(* Loading a protocol file (aos/sp_mngr/protocol_decoder.c): the records a *)
(* JSON document describes are built in the table not in use, which comes  *)
(* into use when the whole document was accepted.                          *)
(*                                                                         *)
(* A JSON value is a record with a kind: an object's members in order, with*)
(* their keys, an array's items, a number, or the text of a string.  The   *)
(* text of a format is a sequence of characters, that of a name a string.  *)
(***************************************************************************)
EXTENDS Integers, Sequences, SequencesExt, FiniteSets

CONSTANTS
  Documents,      (* the files that may be found: [fault, root]             *)
  ArgSize,        (* the bytes of a value of each type (l_argNames_ names   *)
                  (* the types, argSize_ gives their sizes)                 *)
  RecordNum,      (* PROTOCOL_DECODER_RECORD_NUM                            *)
  ArgMax,         (* PROTOCOL_DECODER_ARG_MAX                               *)
  FormatCapacity  (* PROTOCOL_DECODER_FORMAT_CAPACITY                       *)

ArgType == DOMAIN ArgSize

DecoderAssumption ==
  /\ "STRING" \in ArgType
  /\ {RecordNum, ArgMax, FormatCapacity} \subseteq Nat \ {0}

LoadResult == {"OK", "OPEN_FAILED", "FILE_SIZE_INVALID", "READ_FAILED",
               "PARSE_FAILED", "SCHEMA_INVALID"}

VARIABLES
  tables,       (* two tables: a record [format, args] for each valid id    *)
  activeTable,
  error,        (* error.result                                             *)
  loaded        (* history: the tokens of the last document that says what  *)
                (* a document should                                        *)

vars == <<tables, activeTable, error, loaded>>

-----------------------------------------------------------------------------
\* JSON

Is(value, kind) == value.kind = kind
Absent == [kind |-> "absent"]

(* yyjson_obj_get (external): the first member with the key.               *)
Get(object, key) ==
  LET found == SelectSeq(object.members, LAMBDA m : m.key = key)
  IN  IF found = <<>> THEN Absent ELSE found[1].value

ObjectKeysUnique(object) ==
  \A i, j \in DOMAIN object.members :
    object.members[i].key = object.members[j].key => i = j

(* ProtocolDecoder_valueKeysUnique_: at any depth.                         *)
RECURSIVE ValueKeysUnique(_)
ValueKeysUnique(value) ==
  CASE Is(value, "object") -> /\ ObjectKeysUnique(value)
                              /\ \A i \in DOMAIN value.members :
                                   ValueKeysUnique(value.members[i].value)
    [] Is(value, "array") -> \A i \in DOMAIN value.items : ValueKeysUnique(value.items[i])
    [] OTHER -> TRUE

-----------------------------------------------------------------------------
\* Records

(* A slip for Conversions: the character after a % is looked at again.     *)
RECURSIVE ConversionsOverlapping(_)
ConversionsOverlapping(format) ==
  IF format = <<>> THEN <<>>
  ELSE IF format[1] # "%" THEN ConversionsOverlapping(Tail(format))
  ELSE IF Len(format) = 1 THEN <<"end">>
  ELSE <<format[2]>> \o ConversionsOverlapping(Tail(format))

(* What follows each % of a format.                                        *)
RECURSIVE Conversions(_)
Conversions(format) ==
  IF format = <<>> THEN <<>>
  ELSE IF format[1] # "%" THEN Conversions(Tail(format))
  ELSE IF Len(format) = 1 THEN <<"end">>
  ELSE <<format[2]>> \o Conversions(SubSeq(format, 3, Len(format)))

(* A slip for FormatValid: a % at the end of the format is let pass.       *)
FormatValidOpen(format) == ToSet(Conversions(format)) \subseteq {"s", "%", "end"}

FormatValid(format) == ToSet(Conversions(format)) \subseteq {"s", "%"}
PlaceholderCount(format) == Len(SelectSeq(Conversions(format), LAMBDA c : c = "s"))

(* A slip for ArgsValid: strings anywhere.                                 *)
ArgsValidAnyOrder(args) ==
  \A i \in DOMAIN args.items : Is(args.items[i], "string") /\ args.items[i].text \in ArgType

(* A string takes the rest of a payload, so it is the last.                *)
ArgsValid(args) ==
  \A i \in DOMAIN args.items :
    /\ Is(args.items[i], "string") /\ args.items[i].text \in ArgType
    /\ args.items[i].text = "STRING" => i = Len(args.items)

(* ProtocolDecoder_buildRecord_.                                           *)
RecordValid(token) ==
  LET format == Get(token, "format")
      args == Get(token, "args")
  IN  /\ Is(format, "string") /\ Is(args, "array")
      /\ Len(format.text) < FormatCapacity
      /\ "NUL" \notin ToSet(format.text)
      /\ FormatValid(format.text)
      /\ Len(args.items) <= ArgMax
      /\ Len(args.items) = PlaceholderCount(format.text)
      /\ ArgsValid(args)

RecordOf(token) ==
  LET args == Get(token, "args").items
  IN  [format |-> Get(token, "format").text, args |-> [i \in DOMAIN args |-> args[i].text]]

-----------------------------------------------------------------------------
\* Tables

NoRecords == [id \in {} |-> 0]

TokenValid(token, table) ==
  /\ Is(token, "object")
  /\ ValueKeysUnique(token)
  /\ Is(Get(token, "RecID"), "uint")
  /\ Get(token, "RecID").n < RecordNum
  /\ Get(token, "RecID").n \notin DOMAIN table
  /\ RecordValid(token)

WithRecord(table, token) ==
  LET id == Get(token, "RecID").n
  IN  [r \in DOMAIN table \union {id} |-> IF r = id THEN RecordOf(token) ELSE table[r]]

RootValid(root) ==
  /\ Is(root, "object")
  /\ ObjectKeysUnique(root)
  /\ \A i \in DOMAIN root.members :
       root.members[i].key # "RX_tokens" => ValueKeysUnique(root.members[i].value)
  /\ Is(Get(root, "RX_tokens"), "array")

(* ProtocolDecoder_buildTable_: the records before the first token that is *)
(* not accepted, and whether all were.                                     *)
BuildTable(root) ==
  IF ~RootValid(root) THEN [valid |-> FALSE, table |-> NoRecords]
  ELSE FoldLeft(LAMBDA built, token :
                  IF built.valid /\ TokenValid(token, built.table)
                  THEN [built EXCEPT !.table = WithRecord(@, token)]
                  ELSE [built EXCEPT !.valid = FALSE],
                [valid |-> TRUE, table |-> NoRecords], Get(root, "RX_tokens").items)

-----------------------------------------------------------------------------
\* Loading

(* Reading and parsing, each step of which may fail: the result.           *)
ReadFile(document) == document.fault

-----------------------------------------------------------------------------
\* What a document should say

Tokens(document) == Get(document.root, "RX_tokens").items

(* Every token describes a record of its own, of a format with one value   *)
(* for each %s, and no key is given twice anywhere.                        *)
Describes(document) ==
  /\ document.fault = "OK"
  /\ Is(document.root, "object") /\ ValueKeysUnique(document.root)
  /\ Is(Get(document.root, "RX_tokens"), "array")
  /\ \A i, j \in DOMAIN Tokens(document) :
       /\ TokenValid(Tokens(document)[i], NoRecords)
       /\ Get(Tokens(document)[i], "RecID") = Get(Tokens(document)[j], "RecID") => i = j

-----------------------------------------------------------------------------
\* Steps

Init ==
  /\ tables = [t \in {0, 1} |-> NoRecords]
  /\ activeTable = 0
  /\ error = "OK"
  /\ loaded = <<>>

(* A slip for CandidateIndex: the table in use is built in.                *)
CandidateInUse == activeTable

CandidateIndex == 1 - activeTable

(* ProtocolDecoder_loadFile.                                               *)
LoadFile(document) ==
  /\ IF ReadFile(document) # "OK"
     THEN error' = ReadFile(document) /\ UNCHANGED <<tables, activeTable>>
     ELSE LET built == BuildTable(document.root)
          IN  /\ tables' = [tables EXCEPT ![CandidateIndex] = built.table]
              /\ IF built.valid
                 THEN error' = "OK" /\ activeTable' = CandidateIndex
                 ELSE error' = "SCHEMA_INVALID" /\ UNCHANGED activeTable
  /\ loaded' = IF Describes(document) THEN Tokens(document) ELSE loaded

Next == \E document \in Documents : LoadFile(document)

Spec == Init /\ [][Next]_vars

-----------------------------------------------------------------------------
\* Properties

TypeOK ==
  /\ DOMAIN tables = {0, 1} /\ activeTable \in {0, 1}
  /\ \A t \in {0, 1} : \A id \in DOMAIN tables[t] :
       /\ id \in 0..(RecordNum - 1)
       /\ Len(tables[t][id].format) < FormatCapacity
       /\ tables[t][id].args \in Seq(ArgType) /\ Len(tables[t][id].args) <= ArgMax
  /\ error \in LoadResult

(* The table in use is that of the last document that describes records as *)
(* it should, the whole of it and nothing of any other: neither a document *)
(* rejected part of the way nor the one before last shows through.         *)
TableIsADocument ==
  LET table == tables[activeTable]
  IN  /\ DOMAIN table = {Get(loaded[i], "RecID").n : i \in DOMAIN loaded}
      /\ \A i \in DOMAIN loaded : table[Get(loaded[i], "RecID").n] = RecordOf(loaded[i])
=============================================================================
