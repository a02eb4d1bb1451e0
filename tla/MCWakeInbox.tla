---------------------------- MODULE MCWakeInbox ----------------------------
(***************************************************************************)
(* The UI's inbox, posted to by two other threads and by the UI's own      *)
(* terminal input; SpThread's is that without the input.  And the loop     *)
(* that drains it, with the inbox as one step: what it owes the screen.    *)
(* One of the two moves in a behaviour.                                    *)
(***************************************************************************)
EXTENDS WakeInbox

VARIABLES
  moving,
  mode, menu, hints, active, laid, dirty, host, unseen,
  place, ready, canRender, timeout, due, resizing, closed,
  inbox, uiWake, typed, size

loopVars == <<mode, menu, hints, active, laid, dirty, host, unseen, place, ready, canRender,
              timeout, due, resizing, closed, inbox, uiWake, typed, size>>

Key(id, mods) == [id |-> id, mods |-> mods]
MenuKeys == {Key("0x1F", {}), Key("k", {}), Key("ENTER", {})}
FewEvents == {"TEXT", "STATUS"}
OneSize == {"size"}

Loop == INSTANCE UiLoop
          WITH Sizes <- OneSize, Keys <- MenuKeys, Events <- FewEvents, Batch <- 1,
               MaxInbox <- 1, MaxTyped <- 1, Fails <- FALSE,
               at <- place, wake <- uiWake

ASSUME LoopAssumption == Loop!UiLoopAssumption

(* A loop that has ended stands still while the inbox moves.               *)
Ended ==
  /\ Loop!Setup /\ size = laid
  /\ place = "ended" /\ ready = {} /\ canRender = FALSE /\ timeout = "none" /\ due = TRUE
  /\ resizing = FALSE /\ closed = FALSE
  /\ inbox = <<>> /\ uiWake = FALSE /\ typed = <<>>

ThreadsInit ==
  /\ Init
  /\ \/ moving = "loop" /\ Loop!Init
     \/ moving = "inbox" /\ Ended

ThreadsNext ==
  /\ UNCHANGED moving
  /\ \/ moving = "inbox" /\ Next /\ UNCHANGED loopVars
     \/ moving = "loop" /\ Loop!Next /\ UNCHANGED vars
     \/ place = "ended" /\ UNCHANGED <<vars, loopVars>>

(* The fairness of both: the one that stands still has no step to take.    *)
ThreadsSpec ==
  /\ ThreadsInit /\ [][ThreadsNext]_<<moving, vars, loopVars>>
  /\ Fairness /\ Loop!Fairness /\ Loop!KeepsUp

-----------------------------------------------------------------------------
\* Properties of the loop, stated in its module

(* A frame that is asked for is rendered, unless the loop ends.            *)
FrameShown == Loop!FrameShown
=============================================================================
