--------------------------- MODULE RuntimeContract ---------------------------
(***************************************************************************)
(* SerialPortRuntime as SpThread's state machine may use it, on its own:   *)
(* a port is opened when none is held, and reconfigured or closed while    *)
(* one is.  Each call takes effect at once or not at all.                  *)
(***************************************************************************)
EXTENDS SerialPortRuntime

Init == RuntimeInit

Next ==
  \/ /\ port = NoPort
     /\ \E cfg \in SerialConfig : OpenSucceeds(cfg) \/ OpenFails(cfg)
  \/ /\ port # NoPort
     /\ \/ \E cfg \in SerialConfig :
             ReconfigureSucceeds(cfg) \/ ReconfigureFailsThenClose(cfg)
        \/ Close

Spec == Init /\ [][Next]_runtimeVars
=============================================================================
