----------------------------- MODULE SerialLink -----------------------------
(***************************************************************************)
(* The serial link from the user's command to the device and back: the UI  *)
(* thread (SerialConsole), the SpMngr active object, the serial-port thread*)
(* and the device, interleaved step by step.                               *)
(***************************************************************************)
EXTENDS SpThread, SpMngr, SerialConsole

vars == <<channelVars, runtimeVars, threadVars, seen, consoleVars>>

TypeOK ==
  /\ ChannelTypeOK
  /\ RuntimeTypeOK
  /\ ThreadTypeOK
  /\ SeenTypeOK
  /\ ConsoleTypeOK

Init ==
  /\ ChannelInit
  /\ RuntimeInit
  /\ ThreadInit
  /\ MngrInit
  /\ ConsoleInit

ThreadStep == ThreadNext /\ UNCHANGED <<seen, consoleVars>>
MngrStep   == MngrNext /\ UNCHANGED <<runtimeVars, threadVars, consoleVars>>
NoticeStep == DispatchNotice /\ UNCHANGED <<runtimeVars, threadVars, seen>>
UserStep   == UserNext /\ UNCHANGED <<runtimeVars, threadVars, seen>>
DeviceStep == (BytesArrive \/ Unplug)
                /\ UNCHANGED <<channelVars, threadVars, seen, consoleVars>>

(* The process has aborted on a contract violation.                        *)
Aborted == fault # "none" /\ UNCHANGED vars

Next ==
  \/ /\ fault = "none"
     /\ ThreadStep \/ MngrStep \/ NoticeStep \/ UserStep \/ DeviceStep
  \/ Aborted

(* Each thread keeps running; the user and the device owe nothing.         *)
Fairness ==
  /\ WF_vars(fault = "none" /\ ThreadStep)
  /\ WF_vars(fault = "none" /\ MngrStep)
  /\ WF_vars(fault = "none" /\ NoticeStep)

Spec == Init /\ [][Next]_vars /\ Fairness

-----------------------------------------------------------------------------
(* Safety                                                                  *)

LinkState == IF hsm = "connected" THEN "CONNECTED" ELSE "DISCONNECTED"

StateSig == UpSig \cup DownSig

(* The status a report leads the UI to show.                               *)
StatusOf(sig) == IF sig \in UpSig THEN "CONNECTED" ELSE "DISCONNECTED"

(* The places in a message queue that hold a report, in a queue of UI      *)
(* events those that hold a status.                                        *)
ReportsIn(q)  == {i \in 1..Len(q) : q[i].sig \in StateSig}
StatusesIn(q) == {i \in 1..Len(q) : q[i] \in Status}

(* A connect or disconnect request has reached SpThread and is unanswered. *)
RequestPending ==
  \/ cur.sig \in {"OPEN", "CLOSE"}
  \/ \E i \in 1..Len(inbox) : inbox[i].sig \in {"OPEN", "CLOSE"}

(* Whenever everything sent has been handled, the status bar tells the     *)
(* truth about the port, although no component keeps both: the state is    *)
(* only ever carried by messages crossing three queues (sp_mngr.c's        *)
(* handlers, sm_sp_thread.c's posts, sm_ui.c's status handler).            *)
SettledStatusIsTrue ==
  (fault = "none" /\ ~RequestPending
     /\ ReportsIn(aoQueue) = {} /\ StatusesIn(uiQueue) = {})
    => statusBar = LinkState

(* The state machine is in its connected state exactly when the runtime    *)
(* holds a port, a wait object and an applied configuration (the assertion *)
(* hasAppliedConfig, sm_sp_thread.c:188, and the guard of PORT_LOST).      *)
LinkCoherent ==
  fault = "none" =>
    /\ hsm = "connected" <=> handle # NoHandle
    /\ hsm = "connected" <=> port # NoPort
    /\ hsm = "connected" <=> applied # NoConfig

(* No packet carries bytes from before the connection or configuration it  *)
(* is delivered under, however opens, closes, reconfigurations and losses  *)
(* interleave with reception.                                              *)
PacketsAreOfOneConnection ==
  fault = "none" =>
    \A i \in 1..Len(aoQueue) :
      aoQueue[i].sig = "RX_PACKET" => aoQueue[i].bytes = {"live"}

(* SpMngr parses received bytes only between the report that the port came *)
(* up and the report that it went down.                                    *)
PacketsOnlyWhileUp ==
  (fault = "none" /\ aoQueue # <<>> /\ Head(aoQueue).sig = "RX_PACKET")
    => seen = "CONNECTED"

(* An enqueued request is never left behind a thread that sleeps: while    *)
(* SpThread is about to poll, a non-empty inbox has its wake set.          *)
NoSleepOnRequests ==
  (fault = "none" /\ pc \notin {"consume", "drain", "dispatch"} /\ inbox # <<>>)
    => wake

(* "Copy the configuration successfully applied to the retained open port" *)
(* (serial_port_runtime_priv.h:38): the applied configuration names the    *)
(* port that is open.                                                      *)
AppliedIsOfOpenPort ==
  (fault = "none" /\ applied # NoConfig) => applied.port = port

(* Only a port that hung up is reported lost.                              *)
OnlyHungPortsAreLost ==
  [][(Len(aoQueue') > Len(aoQueue)
        /\ aoQueue'[Len(aoQueue')].sig = "CONNECTION_LOST") => hung]_vars

-----------------------------------------------------------------------------
(* The inductive invariant behind the safety properties.                   *)

(* The newest report in q is of status s or, without any, the last one     *)
(* handled was; likewise for a queue of UI events and the status shown.    *)
ReportsTell(q, handled, s) ==
  \/ \E i \in ReportsIn(q) :
       (\A j \in ReportsIn(q) : j <= i) /\ StatusOf(q[i].sig) = s
  \/ ReportsIn(q) = {} /\ handled = s

StatusesTell(q, shown, s) ==
  \/ \E i \in StatusesIn(q) : (\A j \in StatusesIn(q) : j <= i) /\ q[i] = s
  \/ StatusesIn(q) = {} /\ shown = s

(* The report before each packet in q says that the port is open.          *)
PacketsFollowUp(q, handled) ==
  \A i \in 1..Len(q) : q[i].sig = "RX_PACKET" =>
    \/ \E j \in ReportsIn(q) :
         j < i /\ q[j].sig \in UpSig /\ \A k \in ReportsIn(q) : k <= j \/ i < k
    \/ handled = "CONNECTED" /\ \A k \in ReportsIn(q) : i < k

(* The queued reports end in the state the link is in; with no request     *)
(* under way and no report waiting, the queued statuses end in that of the *)
(* last report handled.                                                    *)
ReportsFollowLink == ReportsTell(aoQueue, seen, LinkState)

StatusesFollowReports ==
  (~RequestPending /\ ReportsIn(aoQueue) = {}) => StatusesTell(uiQueue, statusBar, seen)

(* Bytes in hand are of the connection the wait set is bound to, bytes in  *)
(* the driver of the present one; past the drain the two are the same.     *)
BytesAreLive ==
  /\ held # {} => bound # NoHandle
  /\ held \subseteq {"live"}
  /\ handle # NoHandle => rx \subseteq {"live"}
  /\ pc \in {"read", "idle"} => bound = handle
  /\ pc = "read" => bound # NoHandle

LinkInv ==
  fault = "none" =>
    /\ LinkCoherent
    /\ NoSleepOnRequests
    /\ (cur = NoEvt) <=> (pc # "dispatch")
    /\ ReportsFollowLink
    /\ StatusesFollowReports
    /\ PacketsFollowUp(aoQueue, seen)
    /\ PacketsAreOfOneConnection
    /\ BytesAreLive

-----------------------------------------------------------------------------
(* Liveness                                                                *)

(* Neither the line nor the user keeps SpThread within one pass for ever:  *)
(* the read loop runs until the line pauses, the drain until no new request*)
(* has come in.                                                            *)
PassesEnd == []<>(pc # "read") /\ []<>(pc \notin {"drain", "dispatch"})

(* A connection attempt or a disconnect does not stay in progress for ever *)
(* on the status bar: every request is answered and the answer shown.      *)
RequestsAreAnswered ==
  PassesEnd =>
    (statusBar \in {"CONNECTING", "DISCONNECTING"}
       ~> (statusBar \in {"CONNECTED", "DISCONNECTED"} \/ fault # "none"))

(* A device that goes away is noticed: the connection does not survive it. *)
HangUpIsNoticed == PassesEnd => (hung ~> (~hung \/ fault # "none"))
=============================================================================
