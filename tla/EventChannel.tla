---------------------------- MODULE EventChannel ----------------------------
(***************************************************************************)
(* What an event inbox promises its users: every accepted event is taken   *)
(* once, in the order of acceptance, and is eventually taken unless an     *)
(* event too many has aborted the process.                                 *)
(***************************************************************************)
EXTENDS Naturals, Sequences

CONSTANTS Events, Capacity

VARIABLES
  queue, (* accepted events not yet taken, oldest first                      *)
  last,  (* the event taken last                                             *)
  broken (* an event was posted to the full queue                            *)

channel == <<queue, last, broken>>

Post(e) ==
  /\ ~broken /\ Len(queue) < Capacity
  /\ queue' = Append(queue, e)
  /\ UNCHANGED <<last, broken>>

Break ==
  /\ ~broken /\ Len(queue) = Capacity
  /\ broken' = TRUE
  /\ UNCHANGED <<queue, last>>

TakeOldest ==
  /\ ~broken /\ queue # <<>>
  /\ last' = Head(queue)
  /\ queue' = Tail(queue)
  /\ UNCHANGED broken

Init == queue = <<>> /\ last \notin Events /\ broken = FALSE

Next == (\E e \in Events : Post(e)) \/ Break \/ TakeOldest

Spec == Init /\ [][Next]_channel /\ WF_channel(TakeOldest)
=============================================================================
