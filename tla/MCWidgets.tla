------------------------------ MODULE MCWidgets ------------------------------
(***************************************************************************)
(* The widgets, which share nothing but the screen: the suggestion window, *)
(* the text view, the composer's rows and panes, and the input manager.    *)
(* One of them moves in a behaviour.                                       *)
(***************************************************************************)
EXTENDS CommandSuggestion, TextBufferView, ComposerView, InputCmpsMngr

VARIABLE moving

\* The suggestion window
TerminalHeights == {3, 5}
ComposerRows == -1..4
TerminalWidths == {1, 5}
CandidateCounts == 1..5

\* The text view: four lines of two bytes
Letters == {"a", "b", "NL"}
SomeTexts == {<<"NL", "b">>, <<"a">>, <<"b", "a", "b", "NL">>, <<"b", "NL", "a", "NL">>}
SomeSizes == {<<2, 4>>, <<3, 3>>, <<4, 2>>}

\* The composer: a narrow and a wide letter, and an accent for the letter before it
LetterColumns == [cp \in {"a", "W", "'"} |-> CASE cp = "a" -> 1 [] cp = "W" -> 2 [] OTHER -> 0]
LetterJoined == {<<"a", "'">>, <<"W", "'">>}
UsualTerminals == {<<12, 8>>, <<13, 9>>, <<16, 7>>}

\* The input manager: white space, a letter, the slash, the start of a token's
\* text and the two bytes of one wide letter
Cmd(name, token, kind, args) == [name |-> name, token |-> token, kind |-> kind, args |-> args]

EditLeadSize == [b \in {" ", "a", "/", "$", "l", "r", "<", ">"} |->
                   CASE b = "<" -> 2 [] b = ">" -> 0 [] OTHER -> 1]
EditTable == <<Cmd(<<"a">>, <<"$", "a">>, "connect", <<>>),
               Cmd(<<"a", "a">>, <<"$", "/">>, "config", <<<<"a">>, <<"/", "a">>>>),
               Cmd(<<"a">>, <<"l">>, "load", <<>>),
               Cmd(<<"a">>, <<"r">>, "alone", <<>>)>>
EditInputs == {<<"a">>, <<" ">>, <<"/">>, <<"<", ">">>, <<">">>}
EditPorts == {<<>>, <<<<"<", ">">>, <<"/", "a">>, <<"a">>>>}
NoLists == {<<>>}
Blank == {" "}

-----------------------------------------------------------------------------

WidgetsInit ==
  /\ moving \in {"suggestions", "text", "view", "edits"}
  /\ SuggestionInit /\ Init /\ ComposerInit /\ LineInit
  /\ moving = "text" \/ size = Content(<<2, 4>>)
  /\ moving = "view" \/ terminal = <<12, 8>>

WidgetsNext ==
  /\ UNCHANGED moving
  /\ \/ moving = "suggestions" /\ SuggestionNext /\ UNCHANGED <<vars, composerVars, lineVars>>
     \/ moving = "text" /\ Next /\ UNCHANGED <<suggestionVars, composerVars, lineVars>>
     \/ moving = "view" /\ ComposerNext /\ UNCHANGED <<suggestionVars, vars, lineVars>>
     \/ moving = "edits" /\ LineNext /\ UNCHANGED <<suggestionVars, vars, composerVars>>

WidgetsSpec == WidgetsInit /\ [][WidgetsNext]_<<moving, suggestionVars, vars, composerVars, lineVars>>

=============================================================================
