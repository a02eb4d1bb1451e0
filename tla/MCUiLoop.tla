------------------------------ MODULE MCUiLoop ------------------------------
(***************************************************************************)
(* The UI's loop twice: with few signals and every failure, as the         *)
(* configuration has it, and with every key of the router and every signal.*)
(***************************************************************************)
EXTENDS UiLoop

Key(id, mods) == [id |-> id, mods |-> mods]

(* Keys that reach every state of the menu and the composer.               *)
MenuKeys == {Key("0x1F", {}), Key("k", {}), Key("ENTER", {})}
FewEvents == {"TEXT", "STATUS"}

(* A key for every signal, by each of the ways that lead to it.            *)
Ctrl == {"ctrl"}
AllKeys ==
  {Key(id, {}) : id \in {"escape", "0x1F", "UP", "DOWN", "LEFT", "RIGHT", "BACKSPACE", "0x15", "0x17",
                         "HOME", "END", "TAB", "ENTER", "j", "k", "0x0E", "0x10", "PGUP", "x"}}
    \cup {Key(id, Ctrl) : id \in {"/", "LEFT", "RIGHT", "u", "W", "n", "P", "j"}}
OtherEvents == EventSigs \ FewEvents
OneSize == {"size"}

SizesAlike == Permutations(Sizes)

Every == INSTANCE UiLoop
           WITH Sizes <- OneSize, Keys <- AllKeys, Events <- OtherEvents,
                Batch <- 1, MaxInbox <- 1, MaxTyped <- 1, Fails <- FALSE

VARIABLE signals

LoopInit == \/ signals = "few" /\ Init
            \/ signals = "all" /\ Every!Init

LoopNext ==
  /\ UNCHANGED signals
  /\ \/ signals = "few" /\ Next
     \/ signals = "all" /\ Every!Next
     \/ at = "ended" /\ UNCHANGED vars

LoopSpec == LoopInit /\ [][LoopNext]_<<signals, vars>>
=============================================================================
