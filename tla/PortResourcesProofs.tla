------------------------- MODULE PortResourcesProofs -------------------------
(***************************************************************************)
(* Proofs about PortResources, for every set of ports, settings and event  *)
(* sets: no step leaks, and the calls are those of SerialPortRuntime.      *)
(***************************************************************************)
EXTENDS PortResources, SequenceTheorems, TLAPS

ResInv == TypeOK /\ HeldInv

LEMMA InitInv == Init => ResInv
<1> SUFFICES ASSUME Init PROVE ResInv
  OBVIOUS
<1>1. TypeOK
  <2>1. todo \in Seq(Setting \cup {"flush", "pins"})
    BY EmptySeq DEF Init
  <2>2. structs \subseteq Ports /\ opened \subseteq structs /\ sets \subseteq Handles
    BY DEF Init
  <2> QED
    BY <2>1, <2>2 DEF Init, TypeOK
<1>2. HeldInv
  BY DEF Init, HeldInv, Idle, Opening, Changing
<1> QED
  BY <1>1, <1>2 DEF ResInv

LEMMA ProgrammingIsSteps == Programming \in Seq(Setting \cup {"flush", "pins"})
  BY DEF Programming, Setting

LEMMA TailOfSteps ==
  ASSUME TypeOK, todo # <<>>
  PROVE  Tail(todo) \in Seq(Setting \cup {"flush", "pins"})
  BY HeadTailProperties DEF TypeOK

(* A call begins, or is refused at once.                                   *)
LEMMA BeginInv ==
  ASSUME ResInv, NEW cfg \in SerialConfig,
         BeginOpen(cfg) \/ BeginReconfigure(cfg) \/ Refuse(cfg)
  PROVE  ResInv'
<1>1. CASE BeginOpen(cfg)
  BY <1>1, ProgrammingIsSteps, ResourcesAssumption
     DEF BeginOpen, Begin, ResInv, TypeOK, HeldInv, Idle, Opening, Changing,
         statics, held, device
<1>2. CASE BeginReconfigure(cfg)
  BY <1>2, ProgrammingIsSteps, ResourcesAssumption
     DEF BeginReconfigure, Begin, ResInv, TypeOK, HeldInv, Idle, Opening, Changing,
         statics, held, device
<1>3. CASE Refuse(cfg)
  BY <1>3, ResourcesAssumption
     DEF Refuse, Return, Goto, ResInv, TypeOK, HeldInv, Idle, Opening, Changing,
         statics, held, device
<1> QED
  BY <1>1, <1>2, <1>3

(* The steps of open outside applyConfig_.                                 *)
LEMMA OpenInv ==
  ASSUME ResInv, FindPort \/ OpenPort \/ NewEventSet \/ AddEvents \/ Publish \/ Release
  PROVE  ResInv'
<1>0. config \in SerialConfig /\ config.port \in Ports /\ config.port # NoPort
  BY ResourcesAssumption
     DEF ResInv, HeldInv, FindPort, OpenPort, NewEventSet, AddEvents, Publish, Release, SerialConfig
<1>1. CASE FindPort
  BY <1>0, <1>1, ResourcesAssumption
     DEF FindPort, Return, Goto, ResInv, TypeOK, HeldInv, Idle, Opening, Changing,
         statics, held, device
<1>2. CASE OpenPort
  <2>1. pins' \in Pins
    BY <1>2 DEF OpenPort, ResInv, TypeOK, Pins
  <2> QED
    BY <1>0, <1>2, <2>1, ResourcesAssumption
       DEF OpenPort, Return, Goto, ResInv, TypeOK, HeldInv, Idle, Opening, Changing,
           statics, held, device
<1>3. CASE NewEventSet
  BY <1>0, <1>3, ResourcesAssumption
     DEF NewEventSet, Goto, ResInv, TypeOK, HeldInv, Idle, Opening, Changing,
         statics, held, device
<1>4. CASE AddEvents
  BY <1>0, <1>4, ResourcesAssumption
     DEF AddEvents, Goto, ResInv, TypeOK, HeldInv, Idle, Opening, Changing,
         statics, held, device
<1>5. CASE Publish
  BY <1>0, <1>5, ResourcesAssumption
     DEF Publish, Return, Goto, ResInv, TypeOK, HeldInv, Idle, Opening, Changing,
         statics, held, device
<1>6. CASE Release
  BY <1>0, <1>6, ResourcesAssumption
     DEF Release, Return, Goto, ResInv, TypeOK, HeldInv, Idle, Opening, Changing,
         statics, held, device
<1> QED
  BY <1>1, <1>2, <1>3, <1>4, <1>5, <1>6

(* The steps of applyConfig_.                                              *)
LEMMA ApplyInv ==
  ASSUME ResInv, Program \/ NewPinConfig \/ SetPins \/ Programmed
  PROVE  ResInv'
<1>0. config \in SerialConfig /\ config.line \in Lines
  BY DEF ResInv, HeldInv, Program, NewPinConfig, SetPins, Programmed, SerialConfig
<1>1. CASE Program
  <2>1. line' \in [Setting -> Lines] /\ pins' \in Pins
    <3>1. line \in [Setting -> Lines] /\ pins \in Pins
      BY DEF ResInv, TypeOK
    <3>2. \/ line' = line /\ pins' = pins
          \/ /\ line' = [s \in Setting |-> IF s = Head(todo) THEN config.line ELSE line[s]]
             /\ pins' \in FlowPins(config.line) \cup {pins}
      BY <1>1 DEF Program, device
    <3>3. FlowPins(config.line) \subseteq Pins
      BY DEF FlowPins
    <3> QED
      BY <1>0, <3>1, <3>2, <3>3
  <2>2. todo' \in Seq(Setting \cup {"flush", "pins"})
    BY <1>1, TailOfSteps DEF Program, ResInv
  <2> QED
    BY <1>0, <1>1, <2>1, <2>2, ResourcesAssumption
       DEF Program, Abandon, Goto, ResInv, TypeOK, HeldInv, Idle, Opening, Changing,
           statics, held
<1>2. CASE NewPinConfig
  <2>1. todo' \in Seq(Setting \cup {"flush", "pins"})
    BY <1>2, TailOfSteps DEF NewPinConfig, ResInv
  <2>2. TypeOK'
    BY <1>0, <1>2, <2>1
       DEF NewPinConfig, Abandon, Goto, ResInv, TypeOK, statics, device
  <2>3. HeldInv'
    <3>1. /\ at = "program"
          /\ \/ at' = (IF call = "open" THEN "release" ELSE "close") /\ pinConfig' = pinConfig
             \/ at' = "setpins" /\ pinConfig' = TRUE
          /\ UNCHANGED <<port, eventSet, appliedConfig, call, config, newSet, structs,
                         opened, sets, portList>>
      BY <1>2 DEF NewPinConfig, Abandon, Goto, statics
    <3> QED
      BY <3>1 DEF ResInv, HeldInv, Idle, Opening, Changing
  <2> QED
    BY <2>2, <2>3 DEF ResInv
<1>3. CASE SetPins
  <2>1. pins' \in Pins
    BY <1>3 DEF SetPins, ResInv, TypeOK, Pins
  <2> QED
    BY <1>0, <1>3, <2>1, ResourcesAssumption
       DEF SetPins, Abandon, Goto, ResInv, TypeOK, HeldInv, Idle, Opening, Changing,
           statics
<1>4. CASE Programmed
  BY <1>0, <1>4, ResourcesAssumption
     DEF Programmed, Return, Goto, ResInv, TypeOK, HeldInv, Idle, Opening, Changing,
         held, device
<1> QED
  BY <1>1, <1>2, <1>3, <1>4

LEMMA CloseInv ==
  ASSUME ResInv, Close \/ ListPorts \/ NamesCopied
  PROVE  ResInv'
<1>1. CASE Close
  <2>1. /\ port # NoPort /\ ~Opening /\ at # "open" /\ at # "setpins" /\ at # "names"
        /\ structs = {port} /\ opened = {port} /\ sets = {eventSet}
    BY <1>1, ResourcesAssumption
       DEF Close, ResInv, TypeOK, HeldInv, Idle, Opening, Changing
  <2>2. structs' = {} /\ opened' = {} /\ sets' = {}
    BY <1>1, <2>1 DEF Close
  <2>3. TypeOK'
    BY <1>1, <2>2 DEF Close, Return, Goto, ResInv, TypeOK, device
  <2>4. HeldInv'
    BY <1>1, <2>1, <2>2
       DEF Close, Return, Goto, ResInv, HeldInv, Idle, Opening, Changing
  <2> QED
    BY <2>3, <2>4 DEF ResInv
<1>2. CASE ListPorts \/ NamesCopied
  <2>1. TypeOK'
    BY <1>2 DEF ListPorts, NamesCopied, Goto, ResInv, TypeOK, statics, device
  <2>2. HeldInv'
    BY <1>2 DEF ListPorts, NamesCopied, Goto, ResInv, HeldInv, Idle, Opening, Changing,
                statics
  <2> QED
    BY <2>1, <2>2 DEF ResInv
<1> QED
  BY <1>1, <1>2

LEMMA StepInv == ResInv /\ [Next]_vars => ResInv'
<1> SUFFICES ASSUME ResInv, [Next]_vars
             PROVE  ResInv'
  OBVIOUS
<1>1. CASE Next
  BY <1>1, BeginInv, OpenInv, ApplyInv, CloseInv DEF Next
<1>2. CASE UNCHANGED vars
  BY <1>2 DEF vars, statics, running, held, device, ResInv, TypeOK, HeldInv, Idle,
              Opening, Changing
<1> QED
  BY <1>1, <1>2

LEMMA ResourcesInvariant == Spec => []ResInv
  BY InitInv, StepInv, PTL DEF Spec

(* Descriptors are only open on allocated ports, and the rest of the types. *)
THEOREM TypeCorrect == Spec => []TypeOK
<1>1. ResInv => TypeOK
  BY DEF ResInv
<1> QED
  BY <1>1, ResourcesInvariant, PTL

(* Nothing leaks and nothing is released early, whichever step fails.      *)
THEOREM NothingLeaks == Spec => []ResourcesMatch
<1>1. ResInv => ResourcesMatch
  BY DEF ResInv, HeldInv, ResourcesMatch, Opening
<1> QED
  BY <1>1, ResourcesInvariant, PTL

-----------------------------------------------------------------------------
(* The refinement: open is one step when it publishes or gives up,         *)
(* reconfigure when it stores its configuration or the port is closed.     *)

LEMMA ReasonStep ==
  ASSUME ResInv, ReasonInv, [Next]_vars
  PROVE  ReasonInv'
<1>1. ASSUME NEW cfg \in SerialConfig, BeginOpen(cfg) \/ BeginReconfigure(cfg)
      PROVE  ReasonInv'
  BY <1>1 DEF BeginOpen, BeginReconfigure, Begin, ReasonInv, Idle, MapRefuses
<1>2. ASSUME NEW cfg \in SerialConfig, Refuse(cfg)
      PROVE  ReasonInv'
  <2>1. CASE port = NoPort
    BY <1>2, <2>1 DEF Refuse, Return, Goto, ReasonInv, Idle
  <2>2. CASE port # NoPort
    BY <1>2, <2>2 DEF Refuse, Goto, ReasonInv, Idle, MapRefuses
  <2> QED
    BY <2>1, <2>2
<1>3. ASSUME FindPort \/ OpenPort \/ NewEventSet \/ AddEvents \/ Publish \/ Release
             \/ Programmed
      PROVE  ReasonInv'
  <2>1. /\ ~Idle /\ at # "close" /\ failure' = failure /\ config' = config
        /\ \/ at' = "idle" /\ answer' = failure'
           \/ at' \in {"open", "program", "event_set", "add_events", "publish", "release"}
    BY <1>3 DEF FindPort, OpenPort, NewEventSet, AddEvents, Publish, Release, Programmed,
                Return, Goto, Idle
  <2> QED
    BY <2>1 DEF ReasonInv, Idle, MapRefuses
<1>4. ASSUME Program \/ NewPinConfig \/ SetPins
      PROVE  ReasonInv'
  <2>1. /\ ~Idle /\ at # "close" /\ failure' = failure /\ config' = config
        /\ at' \in {"program", "setpins", "release", "close"}
        /\ config \in SerialConfig
    BY <1>4 DEF Program, NewPinConfig, SetPins, Abandon, Goto, Idle, ResInv, HeldInv
  <2> QED
    BY <2>1 DEF ReasonInv, Idle, MapRefuses
<1>5. ASSUME Close
      PROVE  ReasonInv'
  BY <1>5 DEF Close, Return, Goto, ReasonInv, Idle
<1>6. ASSUME ListPorts \/ NamesCopied
      PROVE  ReasonInv'
  BY <1>6 DEF ListPorts, NamesCopied, Goto, ReasonInv, Idle
<1>7. CASE UNCHANGED vars
  BY <1>7 DEF vars, running, ReasonInv, Idle, MapRefuses
<1> QED
  BY <1>1, <1>2, <1>3, <1>4, <1>5, <1>6, <1>7 DEF Next

LEMMA InitImplements == Init => Runtime!Init
  BY DEF Init, Runtime!Init, Runtime!RuntimeInit

LEMMA StepImplements ==
  ASSUME ResInv, ReasonInv, [Next]_vars
  PROVE  [Runtime!Next]_(Runtime!runtimeVars)
<1> USE DEF Runtime!SerialConfig, SerialConfig
<1> DEFINE seen == <<port, eventSet, appliedConfig, answer>>
<1>1. UNCHANGED seen => UNCHANGED Runtime!runtimeVars
  BY DEF Runtime!runtimeVars
<1>2. ASSUME NEW cfg \in SerialConfig, BeginOpen(cfg) \/ BeginReconfigure(cfg)
      PROVE  UNCHANGED seen
  BY <1>2 DEF BeginOpen, BeginReconfigure, Begin, statics
<1>3. ASSUME NEW cfg \in SerialConfig, Refuse(cfg)
      PROVE  Runtime!Next \/ UNCHANGED seen
  <2>1. CASE port = NoPort
    <3>1. /\ MapRefuses(cfg) /\ answer' = "dtr_dsr" /\ UNCHANGED <<port, eventSet, appliedConfig>>
      BY <1>3, <2>1 DEF Refuse, Return, statics
    <3>2. eventSet = NoHandle /\ appliedConfig = NoConfig
      BY <2>1 DEF ResInv, HeldInv
    <3>3. Runtime!OpenFails(cfg)
      BY <2>1, <3>1, <3>2 DEF Runtime!OpenFails, Runtime!MapRefuses, MapRefuses, Runtime!Aged
    <3> QED
      BY <2>1, <3>3 DEF Runtime!Next
  <2>2. CASE port # NoPort
    BY <1>3, <2>2 DEF Refuse, Goto, statics
  <2> QED
    BY <2>1, <2>2
<1>4. ASSUME FindPort \/ OpenPort \/ NewEventSet \/ AddEvents \/ Release
      PROVE  Runtime!Next \/ UNCHANGED seen
  <2>1. /\ port = NoPort /\ config \in SerialConfig /\ ~MapRefuses(config)
        /\ failure = "none" /\ eventSet = NoHandle /\ appliedConfig = NoConfig
    BY <1>4 DEF FindPort, OpenPort, NewEventSet, AddEvents, Release,
                ResInv, HeldInv, ReasonInv, Idle, Opening, Changing, TypeOK
  <2>2. /\ UNCHANGED <<port, eventSet, appliedConfig>>
        /\ answer' = answer \/ answer' = failure
    BY <1>4 DEF FindPort, OpenPort, NewEventSet, AddEvents, Release, Goto, Return, statics
  <2>3. CASE answer' = answer
    BY <2>2, <2>3
  <2>4. CASE answer' = failure
    <3>1. Runtime!OpenFails(config)
      BY <2>1, <2>2, <2>4 DEF Runtime!OpenFails, Runtime!MapRefuses, MapRefuses, Runtime!Aged
    <3> QED
      BY <2>1, <3>1 DEF Runtime!Next
  <2> QED
    BY <2>2, <2>3, <2>4
<1>5. ASSUME Publish
      PROVE  Runtime!Next
  <2>1. /\ port = NoPort /\ config \in SerialConfig /\ ~MapRefuses(config)
        /\ failure = "none" /\ newSet \in Handles
    BY <1>5 DEF Publish, ResInv, HeldInv, ReasonInv, Idle, Opening, Changing, TypeOK
  <2>2. /\ port' = config.port /\ eventSet' = newSet /\ appliedConfig' = config
        /\ answer' = "none"
    BY <1>5, <2>1 DEF Publish, Return
  <2>3. Runtime!OpenSucceeds(config)
    BY <2>1, <2>2 DEF Runtime!OpenSucceeds, Runtime!MapRefuses, MapRefuses, Runtime!FlushedRx
  <2> QED
    BY <2>1, <2>3 DEF Runtime!Next
<1>6. ASSUME Program \/ NewPinConfig \/ SetPins
      PROVE  UNCHANGED seen
  BY <1>6 DEF Program, NewPinConfig, SetPins, Abandon, statics
<1>7. ASSUME Programmed
      PROVE  Runtime!Next \/ UNCHANGED seen
  <2>1. CASE call = "open"
    BY <1>7, <2>1 DEF Programmed
  <2>2. CASE call # "open"
    <3>1. /\ port # NoPort /\ config \in SerialConfig /\ ~MapRefuses(config)
          /\ failure = "none"
      BY <1>7, <2>2 DEF Programmed, ResInv, HeldInv, ReasonInv, Idle, Opening, Changing
    <3>2. /\ port' = port /\ eventSet' = eventSet /\ appliedConfig' = config
          /\ answer' = "none"
      BY <1>7, <2>2, <3>1 DEF Programmed, Return
    <3>3. Runtime!ReconfigureSucceeds(config)
      BY <3>1, <3>2 DEF Runtime!ReconfigureSucceeds, Runtime!MapRefuses, MapRefuses,
                        Runtime!FlushedRx, Runtime!Aged
    <3> QED
      BY <3>1, <3>3 DEF Runtime!Next
  <2> QED
    BY <2>1, <2>2
<1>8. ASSUME Close
      PROVE  Runtime!Next
  <2>1. /\ port' = NoPort /\ eventSet' = NoHandle /\ appliedConfig' = NoConfig
        /\ answer' = failure
    BY <1>8 DEF Close, Return
  <2>2. CASE at = "close"
    <3>1. port # NoPort
      BY <2>2 DEF ResInv, HeldInv
    <3>2. PICK cfg \in SerialConfig : failure = IF MapRefuses(cfg) THEN "dtr_dsr" ELSE "none"
      BY <2>2 DEF ReasonInv
    <3>3. Runtime!ReconfigureFailsThenClose(cfg)
      BY <2>1, <3>2 DEF Runtime!ReconfigureFailsThenClose, Runtime!MapRefuses, MapRefuses,
                        Runtime!Aged
    <3> QED
      BY <3>1, <3>3 DEF Runtime!Next
  <2>3. CASE at = "idle" /\ port # NoPort
    <3>1. answer' = answer
      BY <2>1, <2>3 DEF ReasonInv, Idle
    <3>2. Runtime!Close
      BY <2>1, <3>1 DEF Runtime!Close, Runtime!Aged
    <3> QED
      BY <2>3, <3>2 DEF Runtime!Next
  <2> QED
    BY <1>8, <2>2, <2>3 DEF Close
<1>9. ASSUME ListPorts \/ NamesCopied
      PROVE  UNCHANGED seen
  BY <1>9 DEF ListPorts, NamesCopied, statics
<1>10. CASE UNCHANGED vars
  BY <1>1, <1>10 DEF vars, statics
<1>11. CASE Next
  <2>1. Runtime!Next \/ UNCHANGED seen
    BY <1>2, <1>3, <1>4, <1>5, <1>6, <1>7, <1>8, <1>9, <1>11 DEF Next
  <2> QED
    BY <1>1, <2>1
<1> QED
  BY <1>10, <1>11

(* The calls of serial_port_runtime.c, with all their steps and failures,  *)
(* are the atomic calls the model of the serial link uses.                 *)
THEOREM RuntimeIsImplemented == Spec => IsRuntime
<1>1. Init => ReasonInv
  BY DEF Init, ReasonInv, Idle
<1>2. ResInv /\ ReasonInv /\ [Next]_vars => ReasonInv'
  BY ReasonStep
<1>3. ResInv /\ ReasonInv /\ [Next]_vars => [Runtime!Next]_(Runtime!runtimeVars)
  BY StepImplements
<1> QED
  BY <1>1, <1>2, <1>3, InitImplements, ResourcesInvariant, PTL DEF Spec, IsRuntime, Runtime!Spec

-----------------------------------------------------------------------------
(* The device: what the steps already taken of Programming have done to it. *)

Nth == [s \in Setting |-> CASE s = "stopbits" -> 1 [] s = "baudrate" -> 2 [] s = "bits" -> 3
                             [] s = "parity" -> 4 [] s = "flowcontrol" -> 5]

Applied(cfg) == \A s \in Setting : line[s] = cfg.line

Parked(cfg) ==
  /\ pins["rts"] = IF cfg.line \in RtsLines THEN "flow" ELSE "off"
  /\ pins["dtr"] = IF cfg.line \in DtrLines THEN "flow" ELSE "off"

(* todo is what is left of Programming.                                    *)
Suffix == /\ Len(todo) <= 7
          /\ \A i \in 1..Len(todo) : todo[i] = Programming[i + 7 - Len(todo)]

DeviceInv ==
  /\ at \in {"find", "open"} => todo = Programming
  /\ at = "program" =>
       /\ Suffix
       /\ \A s \in Setting : Nth[s] <= 7 - Len(todo) => line[s] = config.line
       /\ Len(todo) <= 2 => pins \in FlowPins(config.line)
       /\ Len(todo) = 0 => Parked(config)
  /\ at = "setpins" => todo = <<>> /\ Applied(config) /\ pins \in FlowPins(config.line)
  /\ at \in {"event_set", "add_events", "publish"} => Applied(config) /\ Parked(config)
  /\ Idle /\ port # NoPort => Applied(appliedConfig) /\ Parked(appliedConfig)

(* Each setting has its place, the modem lines are the last step.          *)
LEMMA ProgrammingOrder ==
  /\ Len(Programming) = 7
  /\ \A s \in Setting : Nth[s] \in 1..5
  /\ \A i \in 1..7 : /\ Programming[i] = "flowcontrol" <=> i = 5
                     /\ Programming[i] = "pins" <=> i = 7
                     /\ \A s \in Setting : Nth[s] = i => Programming[i] = s
  /\ \A i \in 1..7 : i <= 5 => Programming[i] \in Setting
BY DEF Programming, Nth, Setting

(* A step taken leaves the rest of Programming.                            *)
LEMMA SuffixStep ==
  ASSUME TypeOK, Suffix, todo # <<>>, todo' = Tail(todo)
  PROVE  /\ Suffix' /\ Len(todo)' = Len(todo) - 1 /\ Len(todo) \in 1..7
         /\ Head(todo) = Programming[8 - Len(todo)]
<1>1. /\ Len(todo) \in Nat \ {0} /\ Len(todo') = Len(todo) - 1 /\ Head(todo) = todo[1]
      /\ \A i \in 1..Len(todo') : todo'[i] = todo[i + 1]
  BY HeadTailProperties, EmptySeq, LenProperties DEF TypeOK
<1>2. Suffix'
  <2>1. SUFFICES ASSUME NEW i \in 1..Len(todo')
                 PROVE  todo'[i] = Programming[i + 7 - Len(todo')]
    BY <1>1 DEF Suffix
  <2>2. todo[i + 1] = Programming[(i + 1) + 7 - Len(todo)]
    BY <1>1, <2>1 DEF Suffix
  <2>3. (i + 1) + 7 - Len(todo) = i + 7 - Len(todo')
    BY <1>1, <2>1
  <2> QED
    BY <1>1, <2>1, <2>2, <2>3
<1>3. Head(todo) = Programming[8 - Len(todo)]
  <2>1. todo[1] = Programming[1 + 7 - Len(todo)] /\ 1 + 7 - Len(todo) = 8 - Len(todo)
    BY <1>1 DEF Suffix
  <2> QED
    BY <1>1, <2>1
<1>4. Len(todo) \in 1..7
  <2>1. PICK n \in Nat \ {0} : n = Len(todo)
    BY <1>1
  <2>2. n <= 7
    BY <2>1 DEF Suffix
  <2>3. n \in 1..7
    BY <2>2
  <2> QED
    BY <2>1, <2>3
<1> QED
  BY <1>1, <1>2, <1>3, <1>4

LEMMA ProgramDevice ==
  ASSUME ResInv, DeviceInv, Program
  PROVE  DeviceInv'
<1>1. /\ at = "program" /\ todo # <<>> /\ Head(todo) # "pins" /\ todo' = Tail(todo) /\ TypeOK
      /\ UNCHANGED <<port, appliedConfig, config>>
      /\ Suffix /\ \A s \in Setting : Nth[s] <= 7 - Len(todo) => line[s] = config.line
      /\ Len(todo) <= 2 => pins \in FlowPins(config.line)
  BY DEF Program, Abandon, Goto, statics, DeviceInv, ResInv
<1>2. /\ Suffix' /\ Len(todo') = Len(todo) - 1 /\ Len(todo) \in 1..7
      /\ Head(todo) = Programming[8 - Len(todo)]
  BY <1>1, SuffixStep
<1>3. CASE at' \in {"release", "close"}
  BY <1>3 DEF DeviceInv, Idle
<1>4. CASE at' = "program"
  <2>1. /\ line' = [s \in Setting |-> IF s = Head(todo) THEN config.line ELSE line[s]]
        /\ pins' \in IF Head(todo) = "flowcontrol" THEN FlowPins(config.line) ELSE {pins}
    BY <1>4 DEF Program, Abandon, Goto
  <2>2. ASSUME NEW s \in Setting, Nth[s] <= 7 - Len(todo')
        PROVE  line'[s] = config'.line
    <3>1. Nth[s] <= 7 - Len(todo) \/ Nth[s] = 8 - Len(todo)
      BY <1>2, <2>2, ProgrammingOrder
    <3>2. Nth[s] = 8 - Len(todo) => s = Head(todo)
      <4>1. PICK n \in 1..7 : n = Len(todo)
        BY <1>2
      <4>2. 8 - n \in 1..7
        OBVIOUS
      <4>3. Nth[s] = 8 - n => Programming[8 - n] = s
        BY <2>2, <4>2, ProgrammingOrder
      <4> QED
        BY <1>2, <4>1, <4>3
    <3> QED
      BY <1>1, <2>1, <3>1, <3>2
  <2>3. Len(todo') <= 2 => pins' \in FlowPins(config'.line)
    <3>1. Head(todo) = "flowcontrol" <=> Len(todo) = 3
      <4>1. PICK n \in 1..7 : n = Len(todo)
        BY <1>2
      <4>2. 8 - n \in 1..7 /\ (8 - n = 5 <=> n = 3)
        OBVIOUS
      <4>3. Programming[8 - n] = "flowcontrol" <=> 8 - n = 5
        BY <4>2, ProgrammingOrder
      <4> QED
        BY <1>2, <4>1, <4>2, <4>3
    <3> QED
      BY <1>1, <1>2, <2>1, <3>1
  <2>4. Len(todo') # 0
    BY <1>1, <1>2, ProgrammingOrder
  <2> QED
    BY <1>2, <1>4, <2>2, <2>3, <2>4 DEF DeviceInv, Idle, FlowPins
<1> QED
  BY <1>3, <1>4 DEF Program, Abandon, Goto

LEMMA PinsDevice ==
  ASSUME ResInv, DeviceInv, NewPinConfig \/ SetPins \/ Programmed
  PROVE  DeviceInv'
<1>1. CASE NewPinConfig
  <2>1. /\ at = "program" /\ todo # <<>> /\ Head(todo) = "pins" /\ todo' = Tail(todo) /\ TypeOK
        /\ Suffix /\ \A s \in Setting : Nth[s] <= 7 - Len(todo) => line[s] = config.line
        /\ Len(todo) <= 2 => pins \in FlowPins(config.line)
        /\ UNCHANGED <<config, line, pins>>
    BY <1>1 DEF NewPinConfig, Abandon, Goto, device, DeviceInv, ResInv
  <2>2. /\ Suffix' /\ Len(todo') = Len(todo) - 1 /\ Len(todo) \in 1..7
        /\ Head(todo) = Programming[8 - Len(todo)]
    BY <2>1, SuffixStep
  <2>3. Len(todo) = 1
    <3>1. PICK n \in 1..7 : n = Len(todo)
      BY <2>2
    <3>2. 8 - n \in 1..7 /\ (8 - n = 7 <=> n = 1)
      OBVIOUS
    <3>3. Programming[8 - n] = "pins" <=> 8 - n = 7
      BY <3>2, ProgrammingOrder
    <3> QED
      BY <2>1, <2>2, <3>1, <3>2, <3>3
  <2>4. Applied(config)' /\ pins' \in FlowPins(config'.line)
    BY <2>1, <2>3, ProgrammingOrder DEF Applied
  <2>5. Len(todo') = 0 /\ todo' = <<>>
    <3>1. todo' \in Seq(Setting \cup {"flush", "pins"})
      BY <2>1, TailOfSteps
    <3> QED
      BY <2>2, <2>3, <3>1, EmptySeq
  <2>6. at' \in {"release", "close", "setpins"}
    BY <1>1 DEF NewPinConfig, Abandon, Goto
  <2> QED
    BY <2>1, <2>4, <2>5, <2>6 DEF DeviceInv, Idle
<1>2. CASE SetPins
  <2>1. /\ at = "setpins" /\ todo = <<>> /\ Applied(config) /\ pins \in FlowPins(config.line)
        /\ UNCHANGED <<config, line, todo>>
    BY <1>2 DEF SetPins, Abandon, Goto, DeviceInv
  <2>2. CASE at' \in {"release", "close"}
    BY <2>2 DEF DeviceInv, Idle
  <2>3. CASE at' = "program"
    <3>1. pins' = [rts |-> IF config.line \in RtsLines THEN pins["rts"] ELSE "off",
                   dtr |-> IF config.line \in DtrLines THEN pins["dtr"] ELSE "off"]
      BY <1>2, <2>3 DEF SetPins, Abandon, Goto
    <3>2. Parked(config)'
      BY <2>1, <3>1 DEF Parked, FlowPins
    <3>3. pins' \in FlowPins(config.line)
      BY <2>1, <3>1 DEF FlowPins, Pins
    <3>4. Suffix' /\ Len(todo') = 0
      BY <2>1 DEF Suffix
    <3> QED
      BY <2>1, <2>3, <3>2, <3>3, <3>4 DEF DeviceInv, Idle, Applied, FlowPins
  <2> QED
    BY <1>2, <2>2, <2>3 DEF SetPins, Abandon, Goto
<1>3. CASE Programmed
  <2>1. /\ at = "program" /\ todo = <<>> /\ Applied(config) /\ Parked(config)
        /\ UNCHANGED <<config, line, pins>>
    BY <1>3, ProgrammingOrder DEF Programmed, Return, Goto, device, held, DeviceInv, Applied
  <2>2. at' = "event_set" \/ (at' = "idle" /\ appliedConfig' = config)
    BY <1>3 DEF Programmed, Return, Goto
  <2> QED
    BY <2>1, <2>2 DEF DeviceInv, Idle, Applied, Parked
<1> QED
  BY <1>1, <1>2, <1>3

LEMMA DeviceStep ==
  ASSUME ResInv, DeviceInv, [Next]_vars
  PROVE  DeviceInv'
<1>1. ASSUME NEW cfg \in SerialConfig, BeginOpen(cfg) \/ BeginReconfigure(cfg) \/ Refuse(cfg)
      PROVE  DeviceInv'
  <2>1. CASE BeginOpen(cfg)
    BY <2>1 DEF BeginOpen, Begin, DeviceInv, Idle
  <2>2. CASE BeginReconfigure(cfg)
    <3>1. at' = "program" /\ todo' = Programming
      BY <2>2 DEF BeginReconfigure, Begin
    <3>2. Len(todo') = 7 /\ Suffix'
      BY <3>1, ProgrammingOrder DEF Suffix
    <3> QED
      BY <3>1, <3>2, ProgrammingOrder DEF DeviceInv, Idle
  <2>3. CASE Refuse(cfg)
    BY <2>3 DEF Refuse, Return, Goto, statics, device, DeviceInv, Idle, Applied, Parked
  <2> QED
    BY <1>1, <2>1, <2>2, <2>3
<1>2. CASE FindPort \/ NewEventSet \/ AddEvents \/ Publish \/ Release
  <2>1. UNCHANGED <<config, todo, line, pins>> /\ config = config'
    BY <1>2 DEF FindPort, NewEventSet, AddEvents, Publish, Release, Return, Goto, device
  <2>2. at' = "idle" => port' = NoPort \/ Publish
    <3>1. at \in {"find", "release"} => port = NoPort
      BY DEF ResInv, HeldInv, Opening, Changing, Idle
    <3> QED
      BY <1>2, <3>1 DEF FindPort, NewEventSet, AddEvents, Release, Goto, statics
  <2>3. Publish => at = "publish" /\ at' = "idle" /\ appliedConfig' = config
    BY DEF Publish, Return, Goto
  <2>4. \/ at = "find" /\ at' \in {"idle", "open"}
        \/ at = "event_set" /\ at' \in {"release", "add_events"}
        \/ at = "add_events" /\ at' \in {"release", "publish"}
        \/ at \in {"publish", "release"} /\ at' = "idle"
    BY <1>2 DEF FindPort, NewEventSet, AddEvents, Publish, Release, Return, Goto
  <2> QED
    BY <2>1, <2>2, <2>3, <2>4 DEF DeviceInv, Idle, Applied, Parked
<1>3. CASE OpenPort
  <2>1. at = "open" /\ todo = Programming /\ todo' = todo /\ port = NoPort /\ port' = port
        /\ at' \in {"idle", "program"}
    BY <1>3 DEF OpenPort, DeviceInv, Return, Goto, statics, ResInv, HeldInv
  <2>2. Len(todo') = 7 /\ Suffix'
    BY <2>1, ProgrammingOrder DEF Suffix
  <2> QED
    BY <2>1, <2>2, ProgrammingOrder DEF DeviceInv, Idle
<1>4. CASE Program
  BY <1>4, ProgramDevice
<1>5. CASE NewPinConfig \/ SetPins \/ Programmed
  BY <1>5, PinsDevice
<1>6. CASE Close
  BY <1>6 DEF Close, Return, Goto, DeviceInv, Idle
<1>7. CASE ListPorts \/ NamesCopied
  BY <1>7 DEF ListPorts, NamesCopied, Goto, statics, device, DeviceInv, Idle, Applied, Parked
<1>8. CASE UNCHANGED vars
  BY <1>8 DEF vars, statics, running, device, DeviceInv, Idle, Applied, Parked, Suffix
<1> QED
  BY <1>1, <1>2, <1>3, <1>4, <1>5, <1>6, <1>7, <1>8 DEF Next

LEMMA DeviceInvariant == Spec => []DeviceInv
<1>1. Init => DeviceInv
  BY DEF Init, DeviceInv, Idle
<1> QED
  BY <1>1, DeviceStep, ResourcesInvariant, PTL DEF Spec

(* The device behind an open port has the whole of the configuration that  *)
(* was applied (serial_port_runtime.c, applyConfig_).                      *)
THEOREM LineApplied == Spec => []LineIsApplied
<1>1. DeviceInv => LineIsApplied
  BY DEF DeviceInv, LineIsApplied, Idle, Applied
<1> QED
  BY <1>1, DeviceInvariant, PTL

(* ... and the modem lines flow control does not own are off               *)
(* (SerialPortRuntime_applyModemPins_).                                    *)
THEOREM ModemLinesParked == Spec => []PinsParked
<1>1. DeviceInv => PinsParked
  BY DEF DeviceInv, PinsParked, Idle, Parked
<1> QED
  BY <1>1, DeviceInvariant, PTL
=============================================================================
