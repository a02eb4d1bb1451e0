---------------------------- MODULE PortResources ----------------------------
(***************************************************************************)
(* The calls of serial_port_runtime.c step by step: what each acquires     *)
(* from libserialport, in which order it programs the line, and what it    *)
(* releases when a step fails.  SerialPortRuntime has the same calls as    *)
(* atomic steps; this module is shown to implement it.                     *)
(*                                                                         *)
(* Bytes and hang-ups, which SerialPortRuntime adds, are left out.         *)
(***************************************************************************)
EXTENDS Naturals, Sequences

CONSTANTS
  Ports, NoPort,
  Lines, NoConfig,   (* line settings, as in SerialChannels                  *)
  RtsLines,          (* those whose flow control is RTS/CTS                  *)
  DtrLines,          (* those whose flow control is DTR/DSR                  *)
  SupportsDtrDsr,    (* SerialPortPlatform_supportsDtrDsrFlowControl()       *)
  Handles, NoHandle  (* event sets, named by their wait objects              *)

SerialConfig == [port : Ports, line : Lines]

ASSUME ResourcesAssumption ==
  /\ NoPort \notin Ports /\ NoHandle \notin Handles /\ NoConfig \notin SerialConfig
  /\ RtsLines \cup DtrLines \subseteq Lines /\ RtsLines \cap DtrLines = {}
  /\ SupportsDtrDsr \in BOOLEAN

VARIABLES
  port, eventSet, (* SerialPortRuntime_port_, SerialPortRuntime_eventSet_    *)
  appliedConfig,  (* SerialPortRuntime_appliedConfig_, NoConfig: not valid   *)
  failure,        (* SerialPortRuntime_failure_                              *)
  at,             (* the next step of the call that runs, or "idle"          *)
  call, config,   (* the call, and the configuration it was given            *)
  todo,           (* the steps of applyConfig_ still to take                 *)
  newSet,         (* the local eventSet of SerialPortRuntime_open            *)
  structs,        (* ports whose sp_port structure is allocated              *)
  opened,         (* ports whose descriptor is open                          *)
  sets,           (* event sets allocated                                    *)
  pinConfig,      (* the sp_port_config of applyModemPins_ is allocated      *)
  portList,       (* the list of sp_list_ports is allocated                  *)
  line,           (* the line setting each setting of the device is of       *)
  pins,           (* the device's modem lines RTS and DTR                    *)
  answer          (* auxiliary: failure when the last open, reconfigure or   *)
                  (* close returned                                          *)

statics == <<port, eventSet, appliedConfig>>
running == <<at, call, config, todo, newSet>>
held    == <<structs, opened, sets, pinConfig, portList>>
device  == <<line, pins>>
vars    == <<statics, failure, running, held, device, answer>>

Setting == {"stopbits", "baudrate", "bits", "parity", "flowcontrol"}
Pins    == [{"rts", "dtr"} -> {"on", "off", "flow"}]

(* Mutated: the modem lines are parked before flow control is set.         *)
ProgrammingParkedFirst ==
  <<"stopbits", "baudrate", "bits", "parity", "pins", "flowcontrol", "flush">>

(* SerialPortRuntime_applyConfig_                                          *)
Programming ==
  <<"stopbits", "baudrate", "bits", "parity", "flowcontrol", "flush", "pins">>

TypeOK ==
  /\ port \in Ports \cup {NoPort} /\ eventSet \in Handles \cup {NoHandle}
  /\ appliedConfig \in SerialConfig \cup {NoConfig}
  /\ failure \in {"none", "dtr_dsr"} /\ answer \in {"none", "dtr_dsr"}
  /\ at \in {"idle", "find", "open", "program", "setpins", "event_set",
             "add_events", "publish", "release", "close", "names"}
  /\ call \in {"open", "reconfigure"}
  /\ config \in SerialConfig \cup {NoConfig}
  /\ todo \in Seq(Setting \cup {"flush", "pins"})
  /\ newSet \in Handles \cup {NoHandle}
  /\ structs \subseteq Ports /\ opened \subseteq structs /\ sets \subseteq Handles
  /\ pinConfig \in BOOLEAN /\ portList \in BOOLEAN
  /\ line \in [Setting -> Lines]
  /\ pins \in Pins

(* The device may have any settings.                                       *)
Init ==
  /\ port = NoPort /\ eventSet = NoHandle /\ appliedConfig = NoConfig
  /\ failure = "none" /\ answer = "none"
  /\ at = "idle" /\ call = "open" /\ config = NoConfig
  /\ todo = <<>> /\ newSet = NoHandle
  /\ structs = {} /\ opened = {} /\ sets = {}
  /\ pinConfig = FALSE /\ portList = FALSE
  /\ line \in [Setting -> Lines]
  /\ pins \in Pins

-----------------------------------------------------------------------------
(* Beginning a call, and giving it up.                                     *)

MapRefuses(cfg) == cfg.line \in DtrLines /\ ~SupportsDtrDsr

Goto(step) == at' = step /\ UNCHANGED <<call, config, newSet>>

(* A call returns for good.                                                *)
Return == Goto("idle") /\ answer' = failure'

(* Mutated: the reason of an earlier failure is kept.                      *)
BeginKeepingReason(what, cfg, first) ==
  /\ at = "idle"
  /\ ~MapRefuses(cfg)
  /\ at' = first /\ call' = what /\ config' = cfg /\ todo' = Programming
  /\ newSet' = NoHandle
  /\ UNCHANGED <<statics, failure, held, device, answer>>

(* Open and reconfigure begin alike: the reason is reset, the configuration*)
(* is mapped.                                                              *)
Begin(what, cfg, first) ==
  /\ at = "idle"
  /\ ~MapRefuses(cfg)
  /\ at' = first /\ call' = what /\ config' = cfg /\ todo' = Programming
  /\ newSet' = NoHandle
  /\ failure' = "none"
  /\ UNCHANGED <<statics, held, device, answer>>

(* SpThread opens a port only while it holds none ...                      *)
BeginOpen(cfg) == port = NoPort /\ Begin("open", cfg, "find")

(* ... and reconfigures only the one it holds.                             *)
BeginReconfigure(cfg) == port # NoPort /\ Begin("reconfigure", cfg, "program")

(* mapConfig_ refuses; after a reconfigure the state machine closes.       *)
Refuse(cfg) ==
  /\ at = "idle"
  /\ MapRefuses(cfg)
  /\ failure' = "dtr_dsr"
  /\ IF port = NoPort THEN Return ELSE Goto("close") /\ UNCHANGED answer
  /\ UNCHANGED <<statics, todo, held, device>>

(* Mutated: a failed reconfigure leaves the port as it is.                 *)
AbandonKeeping ==
  IF call = "open" THEN Goto("release") /\ UNCHANGED answer
  ELSE Goto("idle") /\ answer' = failure

(* A step of applyConfig_ has failed.                                      *)
Abandon ==
  /\ Goto(IF call = "open" THEN "release" ELSE "close")
  /\ UNCHANGED answer

-----------------------------------------------------------------------------
(* The steps of SerialPortRuntime_open.                                    *)

(* sp_get_port_by_name                                                     *)
FindPort ==
  /\ at = "find"
  /\ UNCHANGED failure
  /\ \/ Return /\ UNCHANGED structs
     \/ structs' = structs \cup {config.port} /\ Goto("open") /\ UNCHANGED answer
  /\ UNCHANGED <<statics, todo, opened, sets, pinConfig, portList, device>>

(* sp_open; the kernel raises both modem lines.                            *)
OpenPort ==
  /\ at = "open"
  /\ UNCHANGED failure
  /\ \/ /\ structs' = structs \ {config.port}
        /\ Return
        /\ UNCHANGED <<opened, pins>>
     \/ /\ opened' = opened \cup {config.port}
        /\ pins' = [p \in {"rts", "dtr"} |-> "on"]
        /\ Goto("program")
        /\ UNCHANGED <<structs, answer>>
  /\ UNCHANGED <<statics, todo, sets, pinConfig, portList, line>>

(* sp_new_event_set                                                        *)
NewEventSet ==
  /\ at = "event_set"
  /\ \/ Goto("release") /\ UNCHANGED sets
     \/ \E h \in Handles \ sets :
          /\ sets' = sets \cup {h} /\ newSet' = h
          /\ at' = "add_events" /\ UNCHANGED <<call, config>>
  /\ UNCHANGED <<statics, failure, todo, structs, opened, pinConfig, portList,
                 device, answer>>

(* sp_add_port_events, and a wait object that must be valid.               *)
AddEvents ==
  /\ at = "add_events"
  /\ Goto("publish") \/ Goto("release")
  /\ UNCHANGED <<statics, failure, todo, held, device, answer>>

Publish ==
  /\ at = "publish"
  /\ port' = config.port /\ eventSet' = newSet /\ appliedConfig' = config
  /\ UNCHANGED <<failure, todo, held, device>>
  /\ Return

(* Mutated: the event set is not freed.                                    *)
ReleasePortOnly ==
  /\ at = "release"
  /\ opened' = opened \ {config.port} /\ structs' = structs \ {config.port}
  /\ UNCHANGED <<statics, failure, todo, sets, pinConfig, portList, device>>
  /\ Return

(* SerialPortRuntime_release_                                              *)
Release ==
  /\ at = "release"
  /\ sets' = sets \ {newSet}
  /\ opened' = opened \ {config.port} /\ structs' = structs \ {config.port}
  /\ UNCHANGED <<statics, failure, todo, pinConfig, portList, device>>
  /\ Return

-----------------------------------------------------------------------------
(* The steps of SerialPortRuntime_applyConfig_.                            *)

(* sp_set_flowcontrol gives a modem line to flow control or takes it back. *)
FlowPins(l) ==
  {p \in Pins : /\ p["rts"] = "flow" <=> l \in RtsLines
                /\ p["dtr"] = "flow" <=> l \in DtrLines}

Program ==
  /\ at = "program" /\ todo # <<>> /\ Head(todo) # "pins"
  /\ todo' = Tail(todo)
  /\ \/ Abandon /\ UNCHANGED device
     \/ /\ line' = [s \in Setting |-> IF s = Head(todo) THEN config.line ELSE line[s]]
        /\ pins' \in IF Head(todo) = "flowcontrol" THEN FlowPins(config.line) ELSE {pins}
        /\ Goto("program") /\ UNCHANGED answer
  /\ UNCHANGED <<statics, failure, held>>

(* SerialPortRuntime_applyModemPins_: sp_new_config ...                    *)
NewPinConfig ==
  /\ at = "program" /\ todo # <<>> /\ Head(todo) = "pins"
  /\ todo' = Tail(todo)
  /\ \/ Abandon /\ UNCHANGED pinConfig
     \/ Goto("setpins") /\ pinConfig' = TRUE /\ UNCHANGED answer
  /\ UNCHANGED <<statics, failure, structs, opened, sets, portList, device>>

(* ... and the lines flow control does not own are set; sp_free_config.    *)
SetPins ==
  /\ at = "setpins"
  /\ pinConfig' = FALSE
  /\ \/ Abandon /\ UNCHANGED pins
     \/ /\ pins' = [rts |-> IF config.line \in RtsLines THEN pins["rts"] ELSE "off",
                    dtr |-> IF config.line \in DtrLines THEN pins["dtr"] ELSE "off"]
        /\ Goto("program") /\ UNCHANGED answer
  /\ UNCHANGED <<statics, failure, todo, structs, opened, sets, portList, line>>

(* The whole configuration is applied.                                     *)
Programmed ==
  /\ at = "program" /\ todo = <<>>
  /\ UNCHANGED failure
  /\ IF call = "open"
     THEN Goto("event_set") /\ UNCHANGED <<appliedConfig, answer>>
     ELSE appliedConfig' = config /\ Return
  /\ UNCHANGED <<port, eventSet, todo, held, device>>

-----------------------------------------------------------------------------
(* Closing and listing.                                                    *)

(* SerialPortRuntime_close: called for itself, or after a failed change.   *)
Close ==
  /\ at = "close" \/ (at = "idle" /\ port # NoPort)
  /\ sets' = sets \ {eventSet}
  /\ opened' = opened \ {port} /\ structs' = structs \ {port}
  /\ port' = NoPort /\ eventSet' = NoHandle /\ appliedConfig' = NoConfig
  /\ UNCHANGED <<failure, todo, pinConfig, portList, device>>
  /\ Return

(* SerialPortRuntime_listPorts; every way out of it frees the list.        *)
ListPorts ==
  /\ at = "idle"
  /\ portList' = TRUE /\ Goto("names")
  /\ UNCHANGED <<statics, failure, todo, structs, opened, sets, pinConfig, device, answer>>

NamesCopied ==
  /\ at = "names"
  /\ portList' = FALSE /\ Goto("idle")
  /\ UNCHANGED <<statics, failure, todo, structs, opened, sets, pinConfig, device, answer>>

Next ==
  \/ \E cfg \in SerialConfig : BeginOpen(cfg) \/ BeginReconfigure(cfg) \/ Refuse(cfg)
  \/ FindPort \/ OpenPort \/ NewEventSet \/ AddEvents \/ Publish \/ Release
  \/ Program \/ NewPinConfig \/ SetPins \/ Programmed
  \/ Close \/ ListPorts \/ NamesCopied

Spec == Init /\ [][Next]_vars

-----------------------------------------------------------------------------

(* Whatever step of a call fails, what is held afterwards is exactly what  *)
(* an open port needs, or nothing: no leak, no early release, and the      *)
(* statics agree.                                                          *)
ResourcesMatch ==
  at = "idle" =>
    /\ structs = {port} \ {NoPort} /\ opened = structs
    /\ sets = {eventSet} \ {NoHandle}
    /\ ~pinConfig /\ ~portList
    /\ port = NoPort <=> eventSet = NoHandle
    /\ port = NoPort <=> appliedConfig = NoConfig

(* What is held at each step: the inductive invariant behind ResourcesMatch. *)
Opening  == call = "open" /\ at \in {"program", "setpins", "event_set", "add_events",
                                    "publish", "release"}
Changing == call = "reconfigure" /\ at \in {"program", "setpins"}
Idle     == at \in {"idle", "names"}

HeldInv ==
  /\ Idle \/ Opening \/ Changing \/ at = "close" \/ (at \in {"find", "open"} /\ call = "open")
  /\ Opening \/ at \in {"find", "open"} => port = NoPort
  /\ Changing \/ at = "close" => port # NoPort
  /\ at \notin {"idle", "names", "close"} => config \in SerialConfig
  /\ at \in {"find", "open", "program", "setpins", "event_set"} => newSet = NoHandle
  /\ at \in {"add_events", "publish"} => newSet # NoHandle
  /\ structs = IF at = "open" \/ Opening THEN {config.port} ELSE {port} \ {NoPort}
  /\ opened = IF Opening THEN {config.port} ELSE {port} \ {NoPort}
  /\ sets = {IF Opening THEN newSet ELSE eventSet} \ {NoHandle}
  /\ pinConfig <=> at = "setpins"
  /\ portList <=> at = "names"
  /\ port = NoPort <=> eventSet = NoHandle
  /\ port = NoPort <=> appliedConfig = NoConfig

(* What the call running or the last one will have answered as its reason.  *)
ReasonInv ==
  /\ Idle => answer = failure
  /\ ~Idle /\ at # "close" => failure = "none" /\ ~MapRefuses(config)
  /\ at = "close" =>
       \E cfg \in SerialConfig : failure = IF MapRefuses(cfg) THEN "dtr_dsr" ELSE "none"

(* Between calls the device behind an open port has the settings of the    *)
(* applied configuration, all of them.                                     *)
LineIsApplied ==
  at = "idle" /\ port # NoPort => \A s \in Setting : line[s] = appliedConfig.line

(* ... and both modem lines are parked, but the one flow control owns: a   *)
(* port left otherwise would hold the target board in reset.               *)
PinsParked ==
  at = "idle" /\ port # NoPort =>
    /\ pins["rts"] = IF appliedConfig.line \in RtsLines THEN "flow" ELSE "off"
    /\ pins["dtr"] = IF appliedConfig.line \in DtrLines THEN "flow" ELSE "off"

Runtime == INSTANCE RuntimeContract
  WITH handle <- eventSet, applied <- appliedConfig, failure <- answer,
       rx <- {}, hung <- FALSE,
       InboxLen <- 1, AoQueueLen <- 1, UiQueueLen <- 1,
       inbox <- <<>>, wake <- FALSE, aoQueue <- <<>>, uiQueue <- <<>>, fault <- "none"

(* Seen from outside, every call of these steps is one of the atomic calls *)
(* SerialPortRuntime describes, with the same reason for a failure.        *)
IsRuntime == Runtime!Spec
=============================================================================
