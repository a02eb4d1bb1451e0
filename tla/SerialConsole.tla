---------------------------- MODULE SerialConsole ----------------------------
(***************************************************************************)
(* The user interface's part of the serial link (sm_ui.c): a submitted     *)
(* command is merged into the UI's own serial configuration and posted to  *)
(* SpMngr, and connection notices drive the status bar.  Both run on the   *)
(* UI thread.  A protocol file loaded by the same command is posted to     *)
(* SpMngr first; it has no effect on the link and is left out.             *)
(***************************************************************************)
EXTENDS SerialChannels

CONSTANTS
  DefaultLine, (* the UI's initial line settings                             *)
  MaxBacklog   (* bound: the user submits only while fewer messages wait     *)

ASSUME ConsoleAssumption == DefaultLine \in Lines /\ MaxBacklog \in Nat

VARIABLES
  serialConfig, (* SM_UI.serialConfig: what the status bar shows and the     *)
                (* next command starts from                                  *)
  statusBar     (* connection state the status bar shows                     *)

consoleVars == <<serialConfig, statusBar>>

ConsoleTypeOK ==
  /\ serialConfig \in Config
  /\ statusBar \in Status

ConsoleInit ==
  /\ serialConfig = [port |-> NoPort, line |-> DefaultLine]
  /\ statusBar = "DISCONNECTED"

Submit(m) ==
  /\ Len(aoQueue) + Len(inbox) < MaxBacklog
  /\ PostTask(m)
  /\ UNCHANGED <<inbox, wake, uiQueue, statusBar>>

(* /connect [port] with any of the setting commands: overrides are merged  *)
(* and kept whatever becomes of the request.                               *)
SubmitConnect ==
  \E p \in Ports \cup {serialConfig.port}, l \in Lines :
    /\ serialConfig' = [port |-> p, line |-> l]
    /\ Submit(Command("CONNECT", serialConfig'))

(* Setting commands alone keep the port.                                   *)
SubmitConfig ==
  \E l \in Lines :
    /\ serialConfig' = [serialConfig EXCEPT !.line = l]
    /\ Submit(Command("CONFIG", serialConfig'))

(* /disconnect and /refresh stand alone.                                   *)
SubmitPlain ==
  \E sig \in {"DISCONNECT", "REFRESH_PORTS"} :
    /\ Submit(Command(sig, NoConfig))
    /\ UNCHANGED serialConfig

(* UI_CONNECTION_STATUS sets the status bar; a port list only feeds the    *)
(* argument suggestions.                                                   *)
DispatchNotice ==
  /\ uiQueue # <<>>
  /\ statusBar' = IF Head(uiQueue) \in Status THEN Head(uiQueue) ELSE statusBar
  /\ uiQueue' = Tail(uiQueue)
  /\ UNCHANGED <<serialConfig, inbox, wake, aoQueue, fault>>

UserNext == SubmitConnect \/ SubmitConfig \/ SubmitPlain
=============================================================================
