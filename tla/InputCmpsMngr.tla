--------------------------- MODULE InputCmpsMngr ---------------------------
(***************************************************************************)
(* The manager of the input composer (sm_input_cmps_mngr.c): the line the  *)
(* user edits, the commands and arguments it suggests for the word under   *)
(* the cursor, and the submission it reads off the line.                   *)
(*                                                                         *)
(* One action per state and signal of the state machine; the state normal  *)
(* is its three substates.  Drawing is left out (ComposerView).            *)
(***************************************************************************)
EXTENDS InputText

CONSTANTS
  Slash, Space,  (* the bytes '/' and ' '                                     *)
  MaxTokens,     (* SM_INPUT_CMPS_MNGR_MAX_TOKENS                             *)
  MaxArgs,       (* SM_INPUT_CMPS_MNGR_MAX_ARG_CANDIDATES                     *)
  Inputs,        (* bound: the code points the keyboard may send              *)
  PortLists,     (* bound: the port catalogues SM_UI may lend                 *)
  ProtocolLists  (* bound: the protocol catalogues                            *)

ASSUME ManagerAssumption ==
  /\ Slash \in Byte \ White /\ Space \in White /\ LeadSize[Slash] = 1
  /\ MaxTokens \in Nat /\ MaxArgs \in Nat
  /\ Inputs \subseteq Seq(Byte)
  /\ PortLists \subseteq Seq(Seq(Byte)) /\ ProtocolLists \subseteq Seq(Seq(Byte))
  \* The byte a token starts with is neither the slash nor in a name.
  /\ \A c \in Command :
       /\ Table[c].token[1] # Slash
       /\ \A e \in Command : \A i \in DOMAIN Table[e].name : Table[e].name[i] # Table[c].token[1]
  \* There is one command to connect with.
  /\ \A c, e \in Command : Table[c].kind = "connect" /\ Table[e].kind = "connect" => c = e
  \* Arguments are whole code points.
  /\ \A c \in Command : \A i \in DOMAIN Table[c].args : Whole(Table[c].args[i])
  /\ \A list \in PortLists \cup ProtocolLists : \A i \in DOMAIN list : Whole(list[i])

VARIABLES
  doc,           (* buffer, editPos and tokens                                *)
  limitReached,
  mode,          (* the current leaf state                                    *)
  suggestion,    (* suggestionStart and -End, candidates, selectedCandidate   *)
  ports,         (* portCatalog                                               *)
  protocols      (* protocolCatalog                                           *)

lineVars == <<doc, limitReached, mode, suggestion, ports, protocols>>
catalogs == <<ports, protocols>>

Mode == {"inactive", "suggestAvailable", "suggestNotAvailable",
         "commandSuggesting", "argumentSuggesting"}

Normal == {"suggestAvailable", "suggestNotAvailable", "argumentSuggesting"}
Active == Normal \cup {"commandSuggesting"}

(* Either list may be meant: candidates holds commands and                 *)
(* argumentCandidates holds words, and candidateCount counts either.       *)
Suggestion == [start : Nat, end : Nat, commands : Seq(Command),
               values : Seq(Seq(Byte)), selected : Nat]

NoSuggestion == [start |-> 0, end |-> 0, commands |-> <<>>, values |-> <<>>, selected |-> 0]

CandidateCount == Len(suggestion.commands) + Len(suggestion.values)

LineTypeOK ==
  /\ doc \in Line
  /\ limitReached \in BOOLEAN
  /\ mode \in Mode
  /\ suggestion \in Suggestion
  /\ ports \in PortLists \cup {<<>>} /\ protocols \in ProtocolLists \cup {<<>>}

LineInit ==
  /\ doc = EmptyLine
  /\ limitReached = FALSE
  /\ mode = "inactive"
  /\ suggestion = NoSuggestion
  /\ ports = <<>> /\ protocols = <<>>

-----------------------------------------------------------------------------
\* Suggestions for the word under the cursor

RoomForToken(d) == Cardinality(d.tokens) < MaxTokens

(* A set of indices, as the loops over the tables come by them.            *)
InOrder(I) ==
  [n \in 1..Cardinality(I) |-> CHOOSE i \in I : Cardinality({j \in I : j <= i}) = n]

(* filterCandidates_.                                                      *)
CommandsNamed(prefix) == InOrder({c \in Command : IsPrefix(prefix, Table[c].name)})

(* filterArgumentCandidates_: the first MaxArgs values of the command that *)
(* start like the word.                                                    *)
Values(c, ps, qs) ==
  CASE Table[c].kind = "connect" -> ps
    [] Table[c].kind = "load"    -> qs
    [] OTHER                     -> Table[c].args

ValuesStarting(prefix, c, ps, qs) ==
  LET values == Values(c, ps, qs)
      matching == InOrder({i \in DOMAIN values : IsPrefix(prefix, values[i])})
  IN  [n \in 1..Min({MaxArgs, Len(matching)}) |-> values[matching[n]]]

(* The commands suggested at the cursor: its word starts with a slash.     *)
SlashCommands(d) ==
  LET start == WordBack(d, d.pos)
  IN  IF RoomForToken(d) /\ start < d.pos /\ ByteAt(d, start) = Slash
      THEN CommandsNamed(Bytes(d, start + 1, WordAhead(d, d.pos)))
      ELSE <<>>

(* What belongs to a token ends where the next token, or nothing, starts.  *)
RegionEnd(d, t) ==
  Min({Length(d)} \cup {u.begin : u \in {v \in d.tokens : v.begin > t.begin}})

IsLast(d, t) == \A u \in d.tokens : u.begin <= t.begin

ArgumentStart(d, t) == Max({t.end, WordBack(d, d.pos)})
ArgumentEnd(d, t) == Min({RegionEnd(d, t), WordAhead(d, d.pos)})

(* The tokens whose only word, if any, the cursor is in or behind.         *)
TokensArgued(d) ==
  {t \in d.tokens :
     /\ t.end < d.pos
     /\ d.pos <= RegionEnd(d, t)
     /\ IsLast(d, t) \/ d.pos < RegionEnd(d, t)
     /\ ArgumentStart(d, t) > t.end
     /\ AllWhite(d, t.end, ArgumentStart(d, t))
     /\ AllWhite(d, ArgumentEnd(d, t), RegionEnd(d, t))}

(* The arguments suggested for t, or none.                                 *)
ArgumentContext(d, t, values) ==
  IF values = <<>> THEN [mode |-> "suggestNotAvailable", suggestion |-> NoSuggestion]
  ELSE [mode |-> "argumentSuggesting",
        suggestion |-> [start |-> ArgumentStart(d, t), end |-> ArgumentEnd(d, t),
                        commands |-> <<>>, values |-> values, selected |-> 0]]

CommandContext(d, commands) ==
  [mode |-> "commandSuggesting",
   suggestion |-> [start |-> WordBack(d, d.pos), end |-> WordAhead(d, d.pos),
                   commands |-> commands, values |-> <<>>, selected |-> 0]]

NoContext(d) ==
  [mode |-> IF RoomForToken(d) /\ (d.pos = 0 \/ WhiteAt(d, d.pos - 1))
            THEN "suggestAvailable" ELSE "suggestNotAvailable",
   suggestion |-> NoSuggestion]

ValuesAt(d, t, ps, qs) ==
  ValuesStarting(Bytes(d, ArgumentStart(d, t), ArgumentEnd(d, t)), t.command, ps, qs)

(* suggestionContext_: what it finds and the state its callers go to, with *)
(* these commands for a slash word and these tokens for an argument.       *)
ContextFor(d, commands, argued, ps, qs) ==
  IF commands # <<>> THEN CommandContext(d, commands)
  ELSE IF argued # {}
  THEN LET t == CHOOSE u \in argued : TRUE
       IN  ArgumentContext(d, t, ValuesAt(d, t, ps, qs))
  ELSE NoContext(d)

Context(d, ps, qs) == ContextFor(d, SlashCommands(d), TokensArgued(d), ps, qs)

Suggested(c) == mode' = c.mode /\ suggestion' = c.suggestion

(* The line becomes d and the state the one suggestionContext_ calls for.  *)
ShowLine(d, ps, qs) == doc' = d /\ Suggested(Context(d, ps, qs))

-----------------------------------------------------------------------------
\* Typing: a key that carries no code point, or does not fit, changes nothing
\* but the limit mark.

Refused(s) ==
  /\ limitReached' = (limitReached \/ (OneCodepoint(s) /\ ~FitsIn(doc, s)))
  /\ UNCHANGED <<doc, mode, suggestion, catalogs>>

Accepted(s) == OneCodepoint(s) /\ FitsIn(doc, s)

Typed(s) ==
  /\ ShowLine(Inserted(doc, s), ports, protocols)
  /\ UNCHANGED <<limitReached, catalogs>>

TypeInNormal(s) ==
  /\ mode \in Normal
  /\ ~(mode = "suggestAvailable" /\ s = <<Slash>>)
  /\ IF Accepted(s) THEN Typed(s) ELSE Refused(s)

(* In suggestAvailable a slash opens the commands or nothing.              *)
TypeSlash ==
  /\ mode = "suggestAvailable"
  /\ IF Accepted(<<Slash>>)
     THEN LET c == Context(Inserted(doc, <<Slash>>), ports, protocols)
          IN  /\ doc' = Inserted(doc, <<Slash>>)
              /\ suggestion' = c.suggestion
              /\ mode' = IF c.mode = "commandSuggesting" THEN c.mode
                         ELSE "suggestNotAvailable"
              /\ UNCHANGED <<limitReached, catalogs>>
     ELSE Refused(<<Slash>>)

TypeInCommands(s) ==
  /\ mode = "commandSuggesting"
  /\ IF Accepted(s) THEN Typed(s) ELSE Refused(s)

-----------------------------------------------------------------------------
\* Deleting and moving, first in normal and then while commands are suggested

(* Removing anything takes the limit mark away (removeRange_).             *)
Edited(d) ==
  /\ ShowLine(d, ports, protocols)
  /\ limitReached' = (limitReached /\ Length(d) = Length(doc))
  /\ UNCHANGED catalogs

InNormal(d) == mode \in Normal /\ Edited(d)
InCommands(d) == mode = "commandSuggesting" /\ Edited(d)

DeletePrevNormal     == InNormal(DeletedPrev(doc))
DeleteToStartNormal  == InNormal(DeletedToStart(doc))
DeletePrevWordNormal == InNormal(DeletedPrevWord(doc))
MoveLeftNormal       == InNormal(MovedLeft(doc))
MoveRightNormal      == InNormal(MovedRight(doc))
MovePrevWordNormal   == InNormal(MovedPrevWord(doc))
MoveNextWordNormal   == InNormal(MovedNextWord(doc))
MoveHomeNormal       == InNormal(MovedHome(doc))
MoveEndNormal        == InNormal(MovedEnd(doc))

DeletePrevCommands     == InCommands(DeletedPrev(doc))
DeleteToStartCommands  == InCommands(DeletedToStart(doc))
DeletePrevWordCommands == InCommands(DeletedPrevWord(doc))
MoveLeftCommands       == InCommands(MovedLeft(doc))
MoveRightCommands      == InCommands(MovedRight(doc))
MovePrevWordCommands   == InCommands(MovedPrevWord(doc))
MoveNextWordCommands   == InCommands(MovedNextWord(doc))
MoveHomeCommands       == InCommands(MovedHome(doc))
MoveEndCommands        == InCommands(MovedEnd(doc))

-----------------------------------------------------------------------------
\* Choosing among the suggestions

Selecting(i) ==
  /\ suggestion' = [suggestion EXCEPT !.selected = i]
  /\ UNCHANGED <<doc, limitReached, mode, catalogs>>

(* selectedCandidate wraps at both ends.                                   *)
Before(i) == IF i = 0 THEN CandidateCount - 1 ELSE i - 1
After(i) == IF i + 1 >= CandidateCount THEN 0 ELSE i + 1

SelectPrevCommand  == mode = "commandSuggesting" /\ Selecting(Before(suggestion.selected))
SelectNextCommand  == mode = "commandSuggesting" /\ Selecting(After(suggestion.selected))
SelectPrevArgument == mode = "argumentSuggesting" /\ Selecting(Before(suggestion.selected))
SelectNextArgument == mode = "argumentSuggesting" /\ Selecting(After(suggestion.selected))

Dismissed(m) ==
  /\ suggestion' = [start |-> suggestion.start, end |-> suggestion.end,
                     commands |-> <<>>, values |-> <<>>, selected |-> 0]
  /\ mode' = m
  /\ UNCHANGED <<doc, limitReached, catalogs>>

CancelCommands ==
  /\ mode = "commandSuggesting"
  /\ Dismissed(IF RoomForToken(doc) /\ (doc.pos = 0 \/ ByteAt(doc, doc.pos - 1) = Space)
               THEN "suggestAvailable" ELSE "suggestNotAvailable")

CancelArguments == mode = "argumentSuggesting" /\ Dismissed("suggestNotAvailable")

(* A slip for Replaced: the bytes up to the cursor only.                   *)
ReplacedToCursor(word) ==
  Inserted(Removed(doc, suggestion.start, doc.pos), word)

(* The line if word takes the place of the bytes the suggestion is about.  *)
Replaced(word) ==
  Inserted(Removed(doc, suggestion.start, suggestion.end), word)

FitsInstead(size) ==
  Length(doc) - (suggestion.end - suggestion.start) + size < BufSize

TooLong ==
  /\ limitReached' = TRUE
  /\ UNCHANGED <<doc, mode, suggestion, catalogs>>

Accepting(d) ==
  /\ ShowLine(d, ports, protocols)
  /\ limitReached' = (limitReached /\ suggestion.start = suggestion.end)
  /\ UNCHANGED catalogs

(* acceptSuggestion_: the token and a space instead of the slash word.     *)
WithToken(c) ==
  LET d == Replaced(Table[c].token)
      t == [begin |-> suggestion.start,
            end |-> suggestion.start + Len(Table[c].token), command |-> c]
  IN  Inserted([d EXCEPT !.tokens = @ \cup {t}], <<Space>>)

AcceptCommand ==
  LET c == suggestion.commands[suggestion.selected + 1]
  IN  /\ mode = "commandSuggesting"
      /\ RoomForToken(doc)
      /\ IF FitsInstead(Len(Table[c].token) + 1)
         THEN Accepting(WithToken(c))
         ELSE TooLong

(* acceptArgumentSuggestion_: the value instead of the word, and the       *)
(* cursor behind the white space that follows, a space unless there is.    *)
WithValue(v) ==
  LET d == Replaced(v)
  IN  IF d.pos < Length(d) /\ WhiteAt(d, d.pos)
      THEN MovedTo(d, NextPos(d, d.pos))
      ELSE Inserted(d, <<Space>>)

Separated == suggestion.end < Length(doc) /\ WhiteAt(doc, suggestion.end)

AcceptArgument ==
  LET v == suggestion.values[suggestion.selected + 1]
  IN  /\ mode = "argumentSuggesting"
      /\ IF FitsInstead(Len(v) + IF Separated THEN 0 ELSE 1)
         THEN Accepting(WithValue(v))
         ELSE TooLong

-----------------------------------------------------------------------------
\* Submission

(* parseArg_: the first word between a token and the next, and whether     *)
(* there is no other.                                                      *)
ArgumentBegin(d, t) ==
  Max({q \in t.end..RegionEnd(d, t) : AllWhite(d, t.end, q)})

ArgumentWordEnd(d, t) ==
  Max({q \in ArgumentBegin(d, t)..RegionEnd(d, t) :
         \A i \in ArgumentBegin(d, t)..(q - 1) : ~WhiteAt(d, i)})

Argument(d, t) == Bytes(d, ArgumentBegin(d, t), ArgumentWordEnd(d, t))

(* A slip for OneArgumentAtMost: further words are not noticed.            *)
AnyWordsFollow(d, t) == TRUE

OneArgumentAtMost(d, t) == AllWhite(d, ArgumentWordEnd(d, t), RegionEnd(d, t))

IsFirst(d, t) == \A u \in d.tokens : t.begin <= u.begin

Kind(t) == Table[t.command].kind

(* How many arguments a command of kind k may have.                        *)
Arity(k) == CASE k = "connect" -> {0, 1} [] k = "alone" -> {0} [] OTHER -> {1}

KindsCombine(d) ==
  /\ Cardinality({t \in d.tokens : Kind(t) \in {"connect", "alone"}}) <= 1
  /\ (\E t \in d.tokens : Kind(t) = "alone")
        => \A t \in d.tokens : Kind(t) \notin {"config", "load"}

(* buildSubmission_, up to the reason it gives when it rejects the line.   *)
Submittable(d) ==
  /\ d.tokens # {}
  /\ \A t \in d.tokens :
       /\ IF IsFirst(d, t) THEN AllWhite(d, 0, t.begin)
          ELSE t.begin > 0 /\ WhiteAt(d, t.begin - 1)
       /\ t.end < RegionEnd(d, t) => WhiteAt(d, t.end)
       /\ \A u \in d.tokens : u.command = t.command => u = t
       /\ OneArgumentAtMost(d, t)
       /\ (IF Argument(d, t) = <<>> THEN 0 ELSE 1) \in Arity(Kind(t))
  /\ KindsCombine(d)

(* The kind of request SM_UI is handed: the first of these on the line.    *)
Action(d) ==
  LET kinds == {Kind(t) : t \in d.tokens}
  IN  CASE "connect" \in kinds -> "connect"
        [] "alone" \in kinds   -> "alone"
        [] "config" \in kinds  -> "config"
        [] OTHER               -> "load"

Submission(d) ==
  [action |-> Action(d),
   arguments |-> [c \in {t.command : t \in d.tokens} |->
                    Argument(d, CHOOSE t \in d.tokens : t.command = c)]]

(* Confirm, unless commands are suggested: the request goes to SM_UI and   *)
(* the line is cleared, or the line stays.                                 *)
Submit ==
  /\ mode \in Normal
  /\ Submittable(doc)
  /\ doc' = EmptyLine
  /\ limitReached' = FALSE
  /\ suggestion' = NoSuggestion
  /\ mode' = "suggestAvailable"
  /\ UNCHANGED catalogs

Reject == mode \in Normal /\ ~Submittable(doc) /\ UNCHANGED lineVars

-----------------------------------------------------------------------------
\* SM_UI

Activate ==
  /\ mode = "inactive"
  /\ ShowLine(doc, ports, protocols)
  /\ UNCHANGED <<limitReached, catalogs>>

Deactivate == mode \in Active /\ Dismissed("inactive")

(* A slip for CatalogUpdated: what is suggested is not brought up to date. *)
CatalogSwapped(ps, qs) ==
  ports' = ps /\ protocols' = qs /\ UNCHANGED <<doc, limitReached, mode, suggestion>>

(* ARGUMENT_CATALOG_UPDATED, which inactive ignores.                       *)
CatalogUpdated(ps, qs) ==
  /\ ports' = ps /\ protocols' = qs
  /\ UNCHANGED limitReached
  /\ IF mode \in Active THEN ShowLine(doc, ps, qs) ELSE UNCHANGED <<doc, mode, suggestion>>

SetPortCatalog == \E ps \in PortLists : CatalogUpdated(ps, protocols)
SetProtocolCatalog == \E qs \in ProtocolLists : CatalogUpdated(ports, qs)

Typing == TypeSlash \/ \E s \in Inputs : TypeInNormal(s) \/ TypeInCommands(s)

Deleting ==
  \/ DeletePrevNormal \/ DeleteToStartNormal \/ DeletePrevWordNormal
  \/ DeletePrevCommands \/ DeleteToStartCommands \/ DeletePrevWordCommands

Moving ==
  \/ MoveLeftNormal \/ MoveRightNormal \/ MovePrevWordNormal
  \/ MoveNextWordNormal \/ MoveHomeNormal \/ MoveEndNormal
  \/ MoveLeftCommands \/ MoveRightCommands \/ MovePrevWordCommands
  \/ MoveNextWordCommands \/ MoveHomeCommands \/ MoveEndCommands

Suggesting ==
  \/ SelectPrevCommand \/ SelectNextCommand \/ SelectPrevArgument \/ SelectNextArgument
  \/ CancelCommands \/ CancelArguments \/ AcceptCommand \/ AcceptArgument

LineNext ==
  \/ Typing \/ Deleting \/ Moving \/ Suggesting
  \/ Submit \/ Reject
  \/ Activate \/ Deactivate \/ SetPortCatalog \/ SetProtocolCatalog

LineSpec == LineInit /\ [][LineNext]_lineVars

-----------------------------------------------------------------------------
\* Properties

(* What validate_ asserts after every edit: the line fits its buffer, the  *)
(* cursor and the tokens' ends split no code point, tokens overlap neither *)
(* each other nor the cursor, and each covers its command's text.          *)
TokenStands(d, t) ==
  /\ t.begin < t.end /\ t.end <= Length(d)
  /\ d.pos <= t.begin \/ d.pos >= t.end
  /\ Aligned(d.text, t.begin) /\ Aligned(d.text, t.end)
  /\ Bytes(d, t.begin, t.end) = Table[t.command].token

Apart(t, u) == u.end <= t.begin \/ t.end <= u.begin

Valid(d) ==
  /\ Length(d) < BufSize
  /\ d.pos <= Length(d) /\ Aligned(d.text, d.pos)
  /\ Cardinality(d.tokens) <= MaxTokens
  /\ \A t \in d.tokens : TokenStands(d, t)
  /\ \A t, u \in d.tokens : t # u => Apart(t, u)

TextValid == Valid(doc)

(* The cursor can always move on (assertion 500 of nextPos_).              *)
CodepointsWhole == Whole(doc.text)

(* What is suggested is what the line and the catalogues now call for, and *)
(* one of the candidates is selected: no candidate outlives the catalogue  *)
(* it points into, or the edit that made it wrong.                         *)
SuggestionsCurrent ==
  LET now == Context(doc, ports, protocols)
  IN  /\ mode = "inactive" => CandidateCount = 0
      /\ CandidateCount > 0 =>
           suggestion = [now.suggestion EXCEPT !.selected = suggestion.selected]
      /\ mode \in {"commandSuggesting", "argumentSuggesting"} =>
           mode = now.mode /\ suggestion.selected < CandidateCount

(* Under every edit the tokens stay whole, disjoint and what they stand    *)
(* for, the cursor can always move on, and what is suggested is what the   *)
(* line and the catalogues now call for.                                   *)
LineStands == LineTypeOK /\ TextValid /\ CodepointsWhole /\ SuggestionsCurrent

(* A step that accepts a suggestion puts it in the place of the word it was*)
(* made for, as a word of its own with the cursor behind it; the rest of   *)
(* the line, other tokens included, is what it was.                        *)
WordReplaced ==
  (AcceptCommand \/ AcceptArgument) /\ doc' # doc =>
    LET chosen == IF mode = "commandSuggesting"
                  THEN Table[suggestion.commands[suggestion.selected + 1]].token
                  ELSE suggestion.values[suggestion.selected + 1]
        behind == suggestion.start + Len(chosen)
        rest == Bytes(doc, suggestion.end, Length(doc))
    IN  /\ Bytes(doc', 0, behind) = Bytes(doc, 0, suggestion.start) \o chosen
        /\ suggestion.start = 0 \/ WhiteAt(doc, suggestion.start - 1)
        /\ doc'.pos = behind + 1 /\ WhiteAt(doc', behind)
        /\ Bytes(doc', behind, Length(doc')) \in {rest, <<Space>> \o rest}
        /\ \A c \in Command :
             Cardinality({t \in doc'.tokens : t.command = c}) =
             Cardinality({t \in doc.tokens : t.command = c}) +
               IF mode = "commandSuggesting"
                  /\ c = suggestion.commands[suggestion.selected + 1]
               THEN 1 ELSE 0

(* An accepted suggestion takes the place of its word and of nothing else. *)
AcceptReplacesWord == [][WordReplaced]_lineVars

-----------------------------------------------------------------------------
(* Submissions against a reading of the line word by word.                 *)

(* The words of the line, each as the bytes from its start to its end.     *)
Words == {w \in (0..Length(doc)) \X (0..Length(doc)) :
            /\ w[1] < w[2]
            /\ \A i \in w[1]..(w[2] - 1) : ~WhiteAt(doc, i)
            /\ w[1] = 0 \/ WhiteAt(doc, w[1] - 1)
            /\ w[2] = Length(doc) \/ WhiteAt(doc, w[2])}

CommandWords == {<<t.begin, t.end>> : t \in doc.tokens} \cap Words

WordAfter(w) == {v \in Words : v[1] > w[1] /\ \A x \in Words : x[1] > w[1] => v[1] <= x[1]}

(* What follows command word w and is not a command.                       *)
ArgumentsOf(w) == WordAfter(w) \ CommandWords

(* A line is submitted exactly if it reads, word by word, as commands each *)
(* with the arguments it may have: every token is a word, no command comes *)
(* twice, every other word follows a command, and disconnecting and        *)
(* refreshing come alone.  The request holds those very words.             *)
SubmissionReads ==
  LET reads ==
        /\ doc.tokens # {}
        /\ \A t \in doc.tokens : <<t.begin, t.end>> \in Words
        /\ Cardinality({t.command : t \in doc.tokens}) = Cardinality(doc.tokens)
        /\ Words = CommandWords \cup UNION {ArgumentsOf(w) : w \in CommandWords}
        /\ \A t \in doc.tokens :
             Cardinality(ArgumentsOf(<<t.begin, t.end>>)) \in Arity(Kind(t))
        /\ (\E t \in doc.tokens : Kind(t) = "alone") => Cardinality(doc.tokens) = 1
  IN  /\ Submittable(doc) <=> reads
      /\ reads => \A t \in doc.tokens :
           Submission(doc).arguments[t.command] =
             IF ArgumentsOf(<<t.begin, t.end>>) = {} THEN <<>>
             ELSE LET w == CHOOSE v \in ArgumentsOf(<<t.begin, t.end>>) : TRUE
                  IN  Bytes(doc, w[1], w[2])
=============================================================================
