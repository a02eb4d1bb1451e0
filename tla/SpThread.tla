------------------------------ MODULE SpThread ------------------------------
(***************************************************************************)
(* The serial-port thread: its poll loop (sp_thread.c SpThread_run_) and   *)
(* the state machine it dispatches inbox events to (sm_sp_thread.c).       *)
(*                                                                         *)
(* pc names the place in the loop body:                                    *)
(*   "poll"     top of the loop: rebind the wait set, poll                 *)
(*   "consume"  the wake is ready: reset it                                *)
(*   "drain"    dequeue the next inbox event, or leave the drain loop      *)
(*   "dispatch" hand the dequeued event to the state machine               *)
(*   "lost"     act on a hang-up the poll reported, rebind the wait set    *)
(*   "read"     the non-blocking read loop                                 *)
(*   "idle"     emit the assembled packet if its idle time has passed      *)
(* What the poll reported is kept in ready for the whole pass, while the   *)
(* drain may close the port it was reported of and open another.           *)
(* The receive assembler is held: the origins of the bytes it has buffered;*)
(* its size and clock are modelled by RxPacketAssembler.                   *)
(***************************************************************************)
EXTENDS SerialPortRuntime

VARIABLES
  pc,    (* control point of the loop                                        *)
  ready, (* the sources the last poll reported                               *)
  cur,   (* the dequeued inbox event being dispatched, or NoEvt              *)
  hsm,   (* leaf state of the SM_SpThread state machine                      *)
  held,  (* origins of the bytes in the receive assembler                    *)
  bound  (* serialObject: the wait object the wait set polls                 *)

threadVars == <<pc, ready, cur, hsm, held, bound>>

Source == {"EVENT", "SERIAL", "LOST"}
NoEvt  == [sig |-> "NONE", cfg |-> NoConfig]

ThreadTypeOK ==
  /\ pc \in {"poll", "consume", "drain", "dispatch", "lost", "read", "idle"}
  /\ ready \subseteq Source
  /\ cur \in InboxEvt \cup {NoEvt}
  /\ hsm \in {"disconnected", "connected"}
  /\ held \subseteq Origin
  /\ bound \in Handles \cup {NoHandle}

ThreadInit ==
  /\ pc = "poll"
  /\ ready = {}
  /\ cur = NoEvt
  /\ hsm = "disconnected"
  /\ held = {}
  /\ bound = NoHandle

-----------------------------------------------------------------------------
(* The loop up to the dispatch.                                            *)

(* Mutated: the assembler survives the change of connection.               *)
RebindKeeping(h, kept) ==
  /\ bound' = h
  /\ held' = kept

(* Bind the wait set to wait object h; a different object means another    *)
(* connection, whose bytes must not follow those in the assembler.         *)
Rebind(h, kept) ==
  /\ bound' = h
  /\ held' = IF h # bound THEN {} ELSE kept

(* SpThreadWake_wait: block until a source is ready or, while bytes are    *)
(* assembled, until their idle timeout.  A hung-up descriptor may poll     *)
(* readable too.  An interrupted wait starts over and changes nothing.     *)
Poll ==
  /\ pc = "poll"
  /\ Rebind(handle, held)
  /\ \E readable \in BOOLEAN :
       /\ (rx # {} /\ handle # NoHandle) => readable
       /\ readable => handle # NoHandle /\ (rx # {} \/ hung)
       /\ ready' = (IF wake THEN {"EVENT"} ELSE {})
                     \cup (IF readable THEN {"SERIAL"} ELSE {})
                     \cup (IF hung THEN {"LOST"} ELSE {})
  /\ ready' # {} \/ held' # {}
  /\ pc' = IF "EVENT" \in ready' THEN "consume" ELSE "lost"
  /\ UNCHANGED <<cur, hsm, runtimeVars, channelVars>>

ConsumeWake ==
  /\ pc = "consume"
  /\ wake' = FALSE
  /\ pc' = "drain"
  /\ UNCHANGED <<ready, cur, hsm, held, bound, runtimeVars>>
  /\ UNCHANGED <<inbox, aoQueue, uiQueue, fault>>

Dequeue ==
  /\ pc = "drain"
  /\ inbox # <<>>
  /\ cur' = Head(inbox)
  /\ inbox' = Tail(inbox)
  /\ pc' = "dispatch"
  /\ UNCHANGED <<ready, hsm, held, bound, runtimeVars>>
  /\ UNCHANGED <<wake, aoQueue, uiQueue, fault>>

(* Mutated: one event is handled per pass.                                 *)
DrainEndsEarly ==
  /\ pc = "drain"
  /\ pc' = "lost"
  /\ UNCHANGED <<ready, cur, hsm, held, bound, runtimeVars, channelVars>>

DrainEnds ==
  /\ pc = "drain"
  /\ inbox = <<>>
  /\ pc' = "lost"
  /\ UNCHANGED <<ready, cur, hsm, held, bound, runtimeVars, channelVars>>

-----------------------------------------------------------------------------
(* SM_SpThread_dispatchEvt, one action per state and signal.               *)

(* The loop resets the assembler when the dispatch changed the applied     *)
(* configuration, and after every configuration event.                     *)
ResetDue == applied' # applied \/ cur.sig = "APPLY"

(* The dispatch closed, opened or reconfigured the port.                   *)
Replaced == <<port, handle, applied>>' # <<port, handle, applied>>
              \/ (cur.sig = "APPLY" /\ hsm = "connected")

Dispatching(sig, state) ==
  /\ pc = "dispatch"
  /\ cur.sig = sig
  /\ hsm = state

Dispatched ==
  /\ held' = IF ResetDue THEN {} ELSE IF Replaced THEN Aged(held) ELSE held
  /\ cur' = NoEvt
  /\ pc' = "drain"
  /\ UNCHANGED <<ready, bound, inbox, wake, uiQueue>>

(* failureEvt_: an unsupported DTR/DSR request is reported as such.        *)
FailureReport(fallback) ==
  Report(IF failure' = "dtr_dsr" THEN "DTR_DSR_UNSUPPORTED" ELSE fallback)

(* Open cfg on a closed runtime and report how it went.                    *)
TryOpen(cfg) ==
  \/ /\ OpenSucceeds(cfg)
     /\ hsm' = "connected"
     /\ PostTask(Report("OPENED"))
  \/ /\ OpenFails(cfg)
     /\ hsm' = "disconnected"
     /\ PostTask(FailureReport("OPEN_FAILED"))

DisconnectedOpen ==
  /\ Dispatching("OPEN", "disconnected")
  /\ TryOpen(cur.cfg)
  /\ Dispatched

(* Mutated: nothing to close, nothing to report.                           *)
DisconnectedCloseSilently ==
  /\ Dispatching("CLOSE", "disconnected")
  /\ UNCHANGED <<hsm, runtimeVars, aoQueue, fault>>
  /\ Dispatched

DisconnectedClose ==
  /\ Dispatching("CLOSE", "disconnected")
  /\ PostTask(Report("CLOSED"))
  /\ UNCHANGED <<hsm, runtimeVars>>
  /\ Dispatched

(* A configuration is not applied while no port is open: nobody is told.   *)
DisconnectedApply ==
  /\ Dispatching("APPLY", "disconnected")
  /\ UNCHANGED <<hsm, runtimeVars, aoQueue, fault>>
  /\ Dispatched

ConnectedApply ==
  /\ Dispatching("APPLY", "connected")
  /\ \/ /\ ReconfigureSucceeds(cur.cfg)
        /\ hsm' = "connected"
        /\ PostTask(Report("APPLIED"))
     \/ /\ ReconfigureFailsThenClose(cur.cfg)
        /\ hsm' = "disconnected"
        /\ PostTask(FailureReport("APPLY_FAILED"))
  /\ Dispatched

(* The port name of the applied configuration decides whether the request  *)
(* is for the port already open.                                           *)
ConnectedOpenSame ==
  /\ Dispatching("OPEN", "connected")
  /\ applied.port = cur.cfg.port
  /\ PostTask(Report("ALREADY_CONNECTED"))
  /\ UNCHANGED <<hsm, runtimeVars>>
  /\ Dispatched

(* Another port: close the open one, then open the requested one.          *)
ConnectedOpenOther ==
  /\ Dispatching("OPEN", "connected")
  /\ applied.port # cur.cfg.port
  /\ TryOpen(cur.cfg)
  /\ Dispatched

ConnectedClose ==
  /\ Dispatching("CLOSE", "connected")
  /\ Close
  /\ hsm' = "disconnected"
  /\ \E result \in {"CLOSED", "CLOSE_FAILED"} : PostTask(Report(result))
  /\ Dispatched

(* Handled by the superstate active in either leaf state.                  *)
RefreshPorts ==
  /\ Dispatching("REFRESH", hsm)
  /\ \E result \in {"PORTS", "NO_PORTS"} : PostTask(Report(result))
  /\ UNCHANGED <<hsm, runtimeVars>>
  /\ Dispatched

Dispatch ==
  \/ DisconnectedOpen \/ DisconnectedClose \/ DisconnectedApply
  \/ ConnectedApply \/ ConnectedOpenSame \/ ConnectedOpenOther
  \/ ConnectedClose \/ RefreshPorts

-----------------------------------------------------------------------------
(* The loop after the drain.                                               *)

(* PORT_LOST dispatched: the connected state closes, reports, disconnects; *)
(* the disconnected state ignores it.                                      *)
LoseConnection ==
  IF hsm = "connected"
  THEN /\ Close
       /\ hsm' = "disconnected"
       /\ PostTask(Report("CONNECTION_LOST"))
  ELSE UNCHANGED <<hsm, runtimeVars, aoQueue, fault>>

(* Mutated: left to the read, which may report no error.                   *)
HangUpDueUnlessReadable ==
  "LOST" \in ready /\ "SERIAL" \notin ready /\ handle # NoHandle

(* The hang-up the poll reported is held against whichever port is open.   *)
HangUpDue == "LOST" \in ready /\ handle # NoHandle

AfterDrain ==
  /\ pc = "lost"
  /\ \/ /\ HangUpDue
        /\ LoseConnection
        /\ Rebind(handle', Aged(held))
     \/ /\ ~HangUpDue
        /\ Rebind(handle, held)
        /\ UNCHANGED <<hsm, runtimeVars, aoQueue, fault>>
  /\ pc' = IF "SERIAL" \in ready /\ bound' # NoHandle THEN "read" ELSE "idle"
  /\ UNCHANGED <<ready, cur, inbox, wake, uiQueue>>

(* One successful SerialPortRuntime_read and the feed of what it returned: *)
(* more bytes may be left, and the bytes may complete a packet.            *)
ReadBytes ==
  /\ pc = "read"
  /\ rx # {}
  /\ rx' \in {{}, rx}
  /\ \/ /\ held' = held \cup rx
        /\ UNCHANGED <<aoQueue, fault>>
     \/ /\ PostTask(Packet(held \cup rx))
        /\ held' \in {{}, rx}
  /\ UNCHANGED <<pc, ready, cur, hsm, bound, port, handle, applied, failure, hung>>
  /\ UNCHANGED <<inbox, wake, uiQueue>>

ReadNothing ==
  /\ pc = "read"
  /\ rx = {}
  /\ pc' = "idle"
  /\ UNCHANGED <<ready, cur, hsm, held, bound, runtimeVars, channelVars>>

ReadFails ==
  /\ pc = "read"
  /\ hung
  /\ LoseConnection
  /\ held' = {}
  /\ bound' = NoHandle
  /\ pc' = "idle"
  /\ UNCHANGED <<ready, cur, inbox, wake, uiQueue>>

(* RxPacketAssembler_onTimeout: a poll that timed out did so because the   *)
(* idle time of the buffered bytes has passed.                             *)
EmitIdlePacket ==
  /\ pc = "idle"
  /\ held # {}
  /\ PostTask(Packet(held))
  /\ held' = {}
  /\ pc' = "poll"
  /\ UNCHANGED <<ready, cur, hsm, bound, runtimeVars, inbox, wake, uiQueue>>

NotIdleYet ==
  /\ pc = "idle"
  /\ held = {} \/ ready # {}
  /\ pc' = "poll"
  /\ UNCHANGED <<ready, cur, hsm, held, bound, runtimeVars, channelVars>>

ThreadNext ==
  \/ Poll \/ ConsumeWake \/ Dequeue \/ DrainEnds \/ Dispatch
  \/ AfterDrain \/ ReadBytes \/ ReadNothing \/ ReadFails
  \/ EmitIdlePacket \/ NotIdleYet
=============================================================================
