--------------------------- MODULE SerialChannels ---------------------------
(***************************************************************************)
(* The three queues through which the user interface, the serial manager   *)
(* active object (SpMngr) and the serial-port thread (SpThread) talk:      *)
(*                                                                         *)
(*   aoQueue  the SST event queue of AO_SpMngr, written by the user        *)
(*            interface and by SpThread, read by the AO's own thread;      *)
(*   inbox    the SpThread event inbox with its eventfd wake, written by   *)
(*            SpMngr only, read by SpThread;                               *)
(*   uiQueue  the user-interface event inbox, written here by SpMngr       *)
(*            (connection statuses and port lists), read by the UI thread. *)
(*                                                                         *)
(* Posting to a full queue violates a DBC contract, which aborts the       *)
(* process (bsp.c DBC_fault_handler): fault then names the contract and    *)
(* nothing happens any more.                                               *)
(***************************************************************************)
EXTENDS Naturals, Sequences

CONSTANTS
  Ports,      (* the port names a user can ask for                           *)
  NoPort,     (* the UI's initial port text "none": no port chosen yet       *)
  Lines,      (* the line settings (baud rate ... flow control) as one value *)
  NoConfig,   (* the absence of a configuration                              *)
  InboxLen,   (* SP_THREAD_EVT_QLEN_: capacity of the SpThread inbox         *)
  AoQueueLen, (* capacity of the SpMngr SST queue                            *)
  UiQueueLen  (* UI_QLEN_: capacity of the UI inbox                          *)

(* What the UI holds, and what SpMngr has parsed: a port has been chosen.  *)
Config       == [port : Ports \cup {NoPort}, line : Lines]
SerialConfig == [port : Ports, line : Lines]

ASSUME ChannelAssumption ==
  /\ NoPort \notin Ports
  /\ NoConfig \notin Config
  /\ InboxLen \in Nat \ {0}
  /\ AoQueueLen \in Nat \ {0}
  /\ UiQueueLen \in Nat \ {0}

(* Where a byte held by the receive path came from: read or received under *)
(* the configuration now applied ("live") or under an earlier one.         *)
Origin == {"live", "stale"}

(* Reports of SpThread after which the port is open, respectively closed.  *)
UpSig   == {"OPENED", "ALREADY_CONNECTED"}
DownSig == {"OPEN_FAILED", "DTR_DSR_UNSUPPORTED", "CLOSED", "CLOSE_FAILED",
            "CONNECTION_LOST", "APPLY_FAILED"}
ReportSig == UpSig \cup DownSig \cup {"APPLIED", "PORTS", "NO_PORTS", "RX_PACKET"}

InboxEvt == [sig : {"OPEN", "APPLY"}, cfg : SerialConfig]
              \cup [sig : {"CLOSE", "REFRESH"}, cfg : {NoConfig}]
AoMsg    == [sig : {"CONNECT", "CONFIG"}, cfg : Config, bytes : {{}}]
              \cup [sig : {"DISCONNECT", "REFRESH_PORTS"} \cup ReportSig,
                    cfg : {NoConfig}, bytes : SUBSET Origin]
Status   == {"DISCONNECTED", "CONNECTING", "CONNECTED", "DISCONNECTING"}
UiEvt    == Status \cup {"PORT_LIST"}

VARIABLES
  inbox,   (* Seq(InboxEvt), oldest first                                    *)
  wake,    (* the inbox's eventfd counter is not zero                        *)
  aoQueue, (* Seq(AoMsg), oldest first                                       *)
  uiQueue, (* Seq(UiEvt), oldest first                                       *)
  fault    (* "none", or the contract whose violation aborted the process    *)

channelVars == <<inbox, wake, aoQueue, uiQueue, fault>>

Fault == {"none", "sp_thread_evt", "sst_task", "ui_evt"}

ChannelTypeOK ==
  /\ inbox \in Seq(InboxEvt) /\ Len(inbox) <= InboxLen
  /\ wake \in BOOLEAN
  /\ aoQueue \in Seq(AoMsg) /\ Len(aoQueue) <= AoQueueLen
  /\ uiQueue \in Seq(UiEvt) /\ Len(uiQueue) <= UiQueueLen
  /\ fault \in Fault

-----------------------------------------------------------------------------

Command(sig, cfg) == [sig |-> sig, cfg |-> cfg, bytes |-> {}]
Report(sig)       == [sig |-> sig, cfg |-> NoConfig, bytes |-> {}]
Packet(origins)   == [sig |-> "RX_PACKET", cfg |-> NoConfig, bytes |-> origins]

(* The SpMngr AO posts itself the initial refresh in SpMngr_init_.         *)
ChannelInit ==
  /\ inbox = <<>>
  /\ wake = FALSE
  /\ aoQueue = <<Command("REFRESH_PORTS", NoConfig)>>
  /\ uiQueue = <<>>
  /\ fault = "none"

(* SST_Task_post(AO_SpMngr, m)                                             *)
PostTask(m) ==
  \/ /\ Len(aoQueue) < AoQueueLen
     /\ aoQueue' = Append(aoQueue, m)
     /\ UNCHANGED fault
  \/ /\ Len(aoQueue) >= AoQueueLen
     /\ fault' = "sst_task"
     /\ UNCHANGED aoQueue

(* SpThread_evtPost_: enqueue under the mutex, then signal the wake.       *)
PostInbox(e) ==
  /\ Len(inbox) < InboxLen
  /\ inbox' = Append(inbox, e)
  /\ wake' = TRUE

(* UI_postConnectionStatus, UI_postPortList: enqueue, then wake the UI.    *)
PostUi(n) ==
  /\ Len(uiQueue) < UiQueueLen
  /\ uiQueue' = Append(uiQueue, n)

(* A handler that only notifies the UI.                                    *)
Notify(n) ==
  /\ \/ PostUi(n) /\ UNCHANGED fault
     \/ /\ Len(uiQueue) >= UiQueueLen
        /\ fault' = "ui_evt"
        /\ UNCHANGED uiQueue
  /\ UNCHANGED <<inbox, wake>>

(* A handler that only posts to SpThread.                                  *)
Request(e) ==
  /\ \/ PostInbox(e) /\ UNCHANGED fault
     \/ /\ Len(inbox) >= InboxLen
        /\ fault' = "sp_thread_evt"
        /\ UNCHANGED <<inbox, wake>>
  /\ UNCHANGED uiQueue

(* A handler that posts to SpThread and to the UI; either may overflow.    *)
RequestAndNotify(e, n) ==
  \/ PostInbox(e) /\ PostUi(n) /\ UNCHANGED fault
  \/ /\ PostInbox(e)
     /\ Len(uiQueue) >= UiQueueLen
     /\ fault' = "ui_evt"
     /\ UNCHANGED uiQueue
  \/ /\ Len(inbox) >= InboxLen
     /\ fault' = "sp_thread_evt"
     /\ UNCHANGED <<inbox, wake, uiQueue>>
=============================================================================
