---------------------------- MODULE MCAoRuntime ----------------------------
(***************************************************************************)
(* The user's commands in three groups: those of the configuration, those  *)
(* that stand alone or beside a load, and a connection while time passes   *)
(* for Blinky.                                                             *)
(***************************************************************************)
EXTENDS AoRuntime

PortCommands == {"config", "connect", "disconnect"}
ListCommands == {"load", "refresh", "refreshProtocols"}
OneCommand   == {"connect"}

Lists == INSTANCE AoRuntime WITH Commands <- ListCommands
Ticks == INSTANCE AoRuntime WITH Commands <- OneCommand, Ticking <- TRUE

VARIABLE user

RuntimeInit == user \in {"port", "lists", "ticks"} /\ Init

RuntimeNext ==
  /\ UNCHANGED user
  /\ \/ user = "port" /\ Next
     \/ user = "lists" /\ Lists!Next
     \/ user = "ticks" /\ Ticks!Next

RuntimeSpec == RuntimeInit /\ [][RuntimeNext]_<<user, vars>> /\ Fairness
=============================================================================
