-------------------------- MODULE SerialPortRuntime --------------------------
(***************************************************************************)
(* The single serial port the process may hold open                        *)
(* (serial_port_runtime.c), each operation as one step: it runs on the     *)
(* SpThread only.  What libserialport and the operating system answer is a *)
(* choice.  The steps inside an operation, and what it releases when one   *)
(* of them fails, are modelled by PortResources.                           *)
(***************************************************************************)
EXTENDS SerialChannels

CONSTANTS
  DtrLines, (* line settings whose flow control is DTR/DSR                   *)
  SupportsDtrDsr, (* SerialPortPlatform_supportsDtrDsrFlowControl()          *)
  Handles,  (* wait objects the OS may assign to an open port (reused)       *)
  NoHandle  (* PLATFORM_WAIT_OBJECT_INVALID                                  *)

ASSUME RuntimeAssumption ==
  /\ DtrLines \subseteq Lines
  /\ SupportsDtrDsr \in BOOLEAN
  /\ Handles # {} /\ NoHandle \notin Handles

VARIABLES
  port,    (* the port whose descriptor is held open, or NoPort              *)
  handle,  (* its wait object, or NoHandle                                   *)
  applied, (* SerialPortRuntime_appliedConfig_, NoConfig while not valid     *)
  failure, (* SerialPortRuntime_failure_                                     *)
  rx,      (* origins of the bytes waiting in the driver's receive buffer    *)
  hung     (* the device behind the open descriptor is gone                  *)

runtimeVars == <<port, handle, applied, failure, rx, hung>>

RuntimeTypeOK ==
  /\ port \in Ports \cup {NoPort}
  /\ handle \in Handles \cup {NoHandle}
  /\ applied \in SerialConfig \cup {NoConfig}
  /\ failure \in {"none", "dtr_dsr"}
  /\ rx \subseteq Origin
  /\ hung \in BOOLEAN

RuntimeInit ==
  /\ port = NoPort
  /\ handle = NoHandle
  /\ applied = NoConfig
  /\ failure = "none"
  /\ rx = {}
  /\ hung = FALSE

-----------------------------------------------------------------------------

(* Bytes become stale when the configuration they came in under is gone.   *)
Aged(origins) == IF origins = {} THEN {} ELSE {"stale"}

(* mapConfig_ refuses DTR/DSR flow control where the platform lacks it.    *)
MapRefuses(cfg) == cfg.line \in DtrLines /\ ~SupportsDtrDsr

(* Mutated: no flush.                                                      *)
UnflushedRx(origins) == origins

(* applyConfig_ ends with sp_flush: the driver's receive buffer is empty.  *)
FlushedRx(origins) == {}

(* SerialPortRuntime_open on a closed runtime, when every step succeeds.   *)
OpenSucceeds(cfg) ==
  /\ ~MapRefuses(cfg)
  /\ failure' = "none"
  /\ port' = cfg.port
  /\ handle' \in Handles
  /\ applied' = cfg
  /\ rx' = FlushedRx(rx)
  /\ hung' = FALSE

(* ... and when mapConfig_, the open, the configuration or the event set   *)
(* fails: everything acquired is released again.                           *)
OpenFails(cfg) ==
  /\ failure' = IF MapRefuses(cfg) THEN "dtr_dsr" ELSE "none"
  /\ port' = NoPort
  /\ handle' = NoHandle
  /\ applied' = NoConfig
  /\ hung' = FALSE
  /\ rx' = Aged(rx)

(* SerialPortRuntime_reconfigure, when the whole configuration is applied. *)
ReconfigureSucceeds(cfg) ==
  /\ ~MapRefuses(cfg)
  /\ failure' = "none"
  /\ applied' = cfg
  /\ rx' = FlushedRx(Aged(rx))
  /\ UNCHANGED <<port, handle, hung>>

(* A failed reconfigure followed, as its contract demands, by a close.     *)
ReconfigureFailsThenClose(cfg) ==
  /\ failure' = IF MapRefuses(cfg) THEN "dtr_dsr" ELSE "none"
  /\ port' = NoPort
  /\ handle' = NoHandle
  /\ applied' = NoConfig
  /\ hung' = FALSE
  /\ rx' = Aged(rx)

(* Mutated: the applied configuration stays valid.                         *)
CloseKeepingConfig ==
  /\ port' = NoPort
  /\ handle' = NoHandle
  /\ hung' = FALSE
  /\ rx' = Aged(rx)
  /\ UNCHANGED <<applied, failure>>

(* SerialPortRuntime_close of an open port: ownership is always released,  *)
(* whether or not sp_close succeeds.                                       *)
Close ==
  /\ port' = NoPort
  /\ handle' = NoHandle
  /\ applied' = NoConfig
  /\ hung' = FALSE
  /\ rx' = Aged(rx)
  /\ UNCHANGED failure

-----------------------------------------------------------------------------
(* The outside world.                                                      *)

(* The device sends bytes.                                                 *)
BytesArrive ==
  /\ handle # NoHandle /\ ~hung
  /\ rx' = rx \cup {"live"}
  /\ UNCHANGED <<port, handle, applied, failure, hung>>

(* The device is unplugged: poll reports HUP/ERR and reads fail.           *)
Unplug ==
  /\ handle # NoHandle /\ ~hung
  /\ hung' = TRUE
  /\ UNCHANGED <<port, handle, applied, failure, rx>>
=============================================================================
