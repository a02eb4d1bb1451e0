------------------------------- MODULE SpMngr -------------------------------
(***************************************************************************)
(* The serial manager active object (sp_mngr.c): it keeps no connection    *)
(* state of its own, only turns UI commands into SpThread requests and     *)
(* SpThread reports into UI notices.  Its thread takes one message at a    *)
(* time and runs the handler to completion; every action below is one      *)
(* dequeue with its handler.  Texts sent to the UI are left out, protocol  *)
(* catalogue commands belong to another component.                         *)
(***************************************************************************)
EXTENDS SerialChannels

CONSTANT BadLines  (* settings whose text makeSerialConfig_ cannot parse     *)

ASSUME BadLinesAssumption == BadLines \subseteq Lines

VARIABLE seen  (* auxiliary: the status the last report handled stands for    *)

SeenTypeOK == seen \in {"CONNECTED", "DISCONNECTED"}

MngrInit == seen = "DISCONNECTED"

(* Mutated: an unchosen port is not rejected.                              *)
ParsesAnyPort(cfg) == cfg.line \notin BadLines

(* makeSerialConfig_: a port has been chosen and every text parses.        *)
Parses(cfg) == cfg.port # NoPort /\ cfg.line \notin BadLines

Take(sigs) ==
  /\ aoQueue # <<>>
  /\ Head(aoQueue).sig \in sigs
  /\ aoQueue' = Tail(aoQueue)

Asked == Head(aoQueue).cfg

ConfigUpdate ==
  /\ Take({"CONFIG"})
  /\ IF Parses(Asked)
     THEN Request([sig |-> "APPLY", cfg |-> Asked])
     ELSE UNCHANGED <<inbox, wake, uiQueue, fault>>
  /\ UNCHANGED seen

PortConnect ==
  /\ Take({"CONNECT"})
  /\ IF Parses(Asked)
     THEN RequestAndNotify([sig |-> "OPEN", cfg |-> Asked], "CONNECTING")
     ELSE UNCHANGED <<inbox, wake, uiQueue, fault>>
  /\ UNCHANGED seen

PortDisconnect ==
  /\ Take({"DISCONNECT"})
  /\ RequestAndNotify([sig |-> "CLOSE", cfg |-> NoConfig], "DISCONNECTING")
  /\ UNCHANGED seen

RefreshPortsCommand ==
  /\ Take({"REFRESH_PORTS"})
  /\ Request([sig |-> "REFRESH", cfg |-> NoConfig])
  /\ UNCHANGED seen

(* Mutated: the repeated connect only produces text.                       *)
ReportUpOnce ==
  /\ Take(UpSig)
  /\ IF Head(aoQueue).sig = "OPENED"
     THEN Notify("CONNECTED")
     ELSE UNCHANGED <<inbox, wake, uiQueue, fault>>
  /\ seen' = "CONNECTED"

(* PORT_OPENED and PORT_ALREADY_CONNECTED.                                 *)
ReportUp ==
  /\ Take(UpSig)
  /\ Notify("CONNECTED")
  /\ seen' = "CONNECTED"

(* Every report that the port is closed but the lost connection.           *)
ReportDown ==
  /\ Take(DownSig \ {"CONNECTION_LOST"})
  /\ Notify("DISCONNECTED")
  /\ seen' = "DISCONNECTED"

(* A lost connection also asks for a fresh list of ports.                  *)
ConnectionLost ==
  /\ Take({"CONNECTION_LOST"})
  /\ RequestAndNotify([sig |-> "REFRESH", cfg |-> NoConfig], "DISCONNECTED")
  /\ seen' = "DISCONNECTED"

(* CONFIG_APPLIED, a failed refresh and received packets (fed to the HDLC  *)
(* parser) only produce text.                                              *)
ReportTextOnly ==
  /\ Take({"APPLIED", "NO_PORTS", "RX_PACKET"})
  /\ UNCHANGED <<inbox, wake, uiQueue, fault, seen>>

RefreshedPorts ==
  /\ Take({"PORTS"})
  /\ Notify("PORT_LIST")
  /\ UNCHANGED seen

MngrNext ==
  \/ ConfigUpdate \/ PortConnect \/ PortDisconnect \/ RefreshPortsCommand
  \/ ReportUp \/ ReportDown \/ ConnectionLost \/ ReportTextOnly
  \/ RefreshedPorts
=============================================================================
