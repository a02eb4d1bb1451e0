-------------------------- MODULE SerialLinkProofs --------------------------
(***************************************************************************)
(* Proofs about SerialLink for every set of ports, settings and wait       *)
(* objects and every queue capacity.                                       *)
(***************************************************************************)
EXTENDS SerialLink, TLAPS

(* The step taken while the process lives, by whom.                        *)
LiveStep == ThreadStep \/ MngrStep \/ NoticeStep \/ UserStep \/ DeviceStep

-----------------------------------------------------------------------------
(* The queues.                                                             *)

LEMMA TailOfSeq ==
  ASSUME NEW S, NEW q \in Seq(S), q # <<>>
  PROVE  /\ Tail(q) \in Seq(S)
         /\ Head(q) \in S
         /\ Head(q) = q[1]
         /\ Len(q) \in Nat /\ Len(q) >= 1
         /\ Len(Tail(q)) = Len(q) - 1
         /\ \A i \in 1..Len(Tail(q)) : Tail(q)[i] = q[i + 1]
  OBVIOUS

LEMMA AppendToSeq ==
  ASSUME NEW S, NEW q \in Seq(S), NEW e \in S
  PROVE  /\ Append(q, e) \in Seq(S)
         /\ Len(q) \in Nat
         /\ Len(Append(q, e)) = Len(q) + 1
         /\ \A i \in 1..Len(q) : Append(q, e)[i] = q[i]
         /\ Append(q, e)[Len(q) + 1] = e
  OBVIOUS

(* What the users of the channels may post, and what they leave.           *)
LEMMA PostTaskType ==
  ASSUME ChannelTypeOK, NEW m \in AoMsg, PostTask(m)
  PROVE  /\ aoQueue' \in Seq(AoMsg) /\ Len(aoQueue') <= AoQueueLen
         /\ fault' \in Fault
  <1>1. AoQueueLen \in Nat BY ChannelAssumption
  <1>2. CASE Len(aoQueue) < AoQueueLen /\ aoQueue' = Append(aoQueue, m) /\ UNCHANGED fault
    BY <1>1, <1>2, AppendToSeq DEF ChannelTypeOK
  <1>3. CASE fault' = "sst_task" /\ UNCHANGED aoQueue
    BY <1>3 DEF ChannelTypeOK, Fault
  <1> QED BY <1>2, <1>3 DEF PostTask

LEMMA PostInboxType ==
  ASSUME ChannelTypeOK, NEW e \in InboxEvt, PostInbox(e)
  PROVE  inbox' \in Seq(InboxEvt) /\ Len(inbox') <= InboxLen /\ wake' \in BOOLEAN
  BY ChannelAssumption, AppendToSeq DEF ChannelTypeOK, PostInbox

LEMMA PostUiType ==
  ASSUME ChannelTypeOK, NEW n \in UiEvt, PostUi(n)
  PROVE  uiQueue' \in Seq(UiEvt) /\ Len(uiQueue') <= UiQueueLen
  BY ChannelAssumption, AppendToSeq DEF ChannelTypeOK, PostUi

LEMMA HandlerPostsType ==
  ASSUME ChannelTypeOK, NEW e \in InboxEvt, NEW n \in UiEvt,
         Notify(n) \/ Request(e) \/ RequestAndNotify(e, n)
  PROVE  /\ inbox' \in Seq(InboxEvt) /\ Len(inbox') <= InboxLen
         /\ wake' \in BOOLEAN
         /\ uiQueue' \in Seq(UiEvt) /\ Len(uiQueue') <= UiQueueLen
         /\ fault' \in Fault
  <1> USE DEF ChannelTypeOK
  <1>1. CASE Notify(n)
    BY <1>1, PostUiType DEF Notify, Fault
  <1>2. CASE Request(e)
    BY <1>2, PostInboxType DEF Request, Fault
  <1>3. CASE RequestAndNotify(e, n)
    BY <1>3, PostInboxType, PostUiType DEF RequestAndNotify, Fault
  <1> QED BY <1>1, <1>2, <1>3

-----------------------------------------------------------------------------
(* Type correctness, thread by thread.                                     *)

LEMMA RuntimeType ==
  ASSUME RuntimeTypeOK, NEW cfg \in SerialConfig,
         \/ OpenSucceeds(cfg) \/ OpenFails(cfg) \/ ReconfigureSucceeds(cfg)
         \/ ReconfigureFailsThenClose(cfg) \/ Close \/ BytesArrive \/ Unplug
         \/ UNCHANGED runtimeVars
  PROVE  RuntimeTypeOK'
  <1>1. cfg.port \in Ports
    BY DEF SerialConfig
  <1>2. CASE OpenSucceeds(cfg)
    BY <1>1, <1>2 DEF RuntimeTypeOK, OpenSucceeds, FlushedRx, Origin
  <1>3. CASE OpenFails(cfg)
    BY <1>3 DEF RuntimeTypeOK, OpenFails, Aged, Origin
  <1>4. CASE ReconfigureSucceeds(cfg)
    BY <1>4 DEF RuntimeTypeOK, ReconfigureSucceeds, FlushedRx, Origin
  <1>5. CASE ReconfigureFailsThenClose(cfg)
    BY <1>5 DEF RuntimeTypeOK, ReconfigureFailsThenClose, Aged, Origin
  <1>6. CASE Close
    BY <1>6 DEF RuntimeTypeOK, Close, Aged, Origin
  <1>7. CASE BytesArrive \/ Unplug
    BY <1>7 DEF RuntimeTypeOK, BytesArrive, Unplug, Origin
  <1>8. CASE UNCHANGED runtimeVars
    BY <1>8 DEF RuntimeTypeOK, runtimeVars
  <1> QED BY <1>2, <1>3, <1>4, <1>5, <1>6, <1>7, <1>8

LEMMA ReportType ==
  /\ \A sig \in ReportSig : Report(sig) \in AoMsg
  /\ \A origins \in SUBSET Origin : Packet(origins) \in AoMsg
  /\ \A sig \in {"DISCONNECT", "REFRESH_PORTS"} : Command(sig, NoConfig) \in AoMsg
  /\ \A sig \in {"CONNECT", "CONFIG"}, cfg \in Config : Command(sig, cfg) \in AoMsg
  BY DEF Report, Packet, Command, AoMsg, ReportSig, UpSig, DownSig, Origin

LEMMA CurrentEvent ==
  ASSUME ThreadTypeOK, cur.sig \in {"OPEN", "APPLY"}
  PROVE  cur.cfg \in SerialConfig
  BY DEF ThreadTypeOK, InboxEvt, NoEvt

LEMMA DispatchType ==
  ASSUME TypeOK, Dispatch, UNCHANGED <<seen, consoleVars>>
  PROVE  TypeOK'
  <1> USE DEF TypeOK
  <1>1. /\ hsm' \in {"disconnected", "connected"}
        /\ RuntimeTypeOK'
        /\ aoQueue' \in Seq(AoMsg) /\ Len(aoQueue') <= AoQueueLen
        /\ fault' \in Fault
        /\ Dispatched
    <2>1. ASSUME cur.cfg \in SerialConfig, TryOpen(cur.cfg)
          PROVE  /\ hsm' \in {"disconnected", "connected"}
                 /\ RuntimeTypeOK'
                 /\ aoQueue' \in Seq(AoMsg) /\ Len(aoQueue') <= AoQueueLen
                 /\ fault' \in Fault
      <3>1. CASE OpenSucceeds(cur.cfg) /\ hsm' = "connected" /\ PostTask(Report("OPENED"))
        BY <2>1, <3>1, RuntimeType, ReportType, PostTaskType DEF ReportSig, UpSig
      <3>2. CASE /\ OpenFails(cur.cfg) /\ hsm' = "disconnected"
                 /\ PostTask(FailureReport("OPEN_FAILED"))
        <4>1. FailureReport("OPEN_FAILED") \in AoMsg
          BY ReportType DEF FailureReport, ReportSig, DownSig
        <4> QED BY <2>1, <3>2, <4>1, RuntimeType, PostTaskType
      <3> QED BY <2>1, <3>1, <3>2 DEF TryOpen
    <2>2. CASE DisconnectedOpen
      BY <2>1, <2>2, CurrentEvent DEF DisconnectedOpen, Dispatching
    <2>3. CASE DisconnectedClose
      BY <2>3, ReportType, PostTaskType
      DEF DisconnectedClose, ReportSig, DownSig, ThreadTypeOK, RuntimeTypeOK, runtimeVars
    <2>4. CASE DisconnectedApply
      BY <2>4 DEF DisconnectedApply, ThreadTypeOK, RuntimeTypeOK, runtimeVars, ChannelTypeOK
    <2>5. CASE ConnectedApply
      <3>1. cur.cfg \in SerialConfig
        BY <2>5, CurrentEvent DEF ConnectedApply, Dispatching
      <3>2. Report("APPLIED") \in AoMsg /\ FailureReport("APPLY_FAILED") \in AoMsg
        BY ReportType DEF FailureReport, ReportSig, DownSig
      <3> QED BY <2>5, <3>1, <3>2, RuntimeType, PostTaskType DEF ConnectedApply
    <2>6. CASE ConnectedOpenSame
      BY <2>6, ReportType, PostTaskType
      DEF ConnectedOpenSame, ReportSig, UpSig, ThreadTypeOK, RuntimeTypeOK, runtimeVars
    <2>7. CASE ConnectedOpenOther
      BY <2>1, <2>7, CurrentEvent DEF ConnectedOpenOther, Dispatching
    <2>8. CASE ConnectedClose
      <3>1. RuntimeTypeOK'
        BY <2>8 DEF ConnectedClose, Close, RuntimeTypeOK, Aged, Origin
      <3>2. PICK result \in {"CLOSED", "CLOSE_FAILED"} : PostTask(Report(result))
        BY <2>8 DEF ConnectedClose
      <3>3. Report(result) \in AoMsg
        BY ReportType DEF ReportSig, DownSig
      <3> QED BY <2>8, <3>1, <3>2, <3>3, PostTaskType DEF ConnectedClose
    <2>9. CASE RefreshPorts
      <3>1. PICK result \in {"PORTS", "NO_PORTS"} : PostTask(Report(result))
        BY <2>9 DEF RefreshPorts
      <3>2. Report(result) \in AoMsg
        BY ReportType DEF ReportSig
      <3> QED
        BY <2>9, <3>1, <3>2, PostTaskType
        DEF RefreshPorts, ThreadTypeOK, RuntimeTypeOK, runtimeVars
    <2> QED
      BY <2>2, <2>3, <2>4, <2>5, <2>6, <2>7, <2>8, <2>9 DEF Dispatch
  <1>2. ThreadTypeOK'
    BY <1>1 DEF Dispatched, ThreadTypeOK, Aged, Origin
  <1>3. ChannelTypeOK'
    BY <1>1 DEF Dispatched, ChannelTypeOK
  <1> QED
    BY <1>1, <1>2, <1>3 DEF SeenTypeOK, ConsoleTypeOK, consoleVars

LEMMA LoopType ==
  ASSUME TypeOK, UNCHANGED <<seen, consoleVars>>,
         \/ Poll \/ ConsumeWake \/ Dequeue \/ DrainEnds \/ AfterDrain
         \/ ReadBytes \/ ReadNothing \/ ReadFails \/ EmitIdlePacket \/ NotIdleYet
  PROVE  TypeOK'
  <1> USE DEF TypeOK
  <1>0. SeenTypeOK' /\ ConsoleTypeOK'
    BY DEF SeenTypeOK, ConsoleTypeOK, consoleVars
  <1>l. ASSUME LoseConnection
        PROVE  /\ RuntimeTypeOK' /\ hsm' \in {"disconnected", "connected"}
               /\ aoQueue' \in Seq(AoMsg) /\ Len(aoQueue') <= AoQueueLen
               /\ fault' \in Fault
    <2>1. CASE /\ Close /\ hsm' = "disconnected"
               /\ PostTask(Report("CONNECTION_LOST"))
      <3>1. Report("CONNECTION_LOST") \in AoMsg
        BY ReportType DEF ReportSig, DownSig
      <3>2. RuntimeTypeOK'
        BY <2>1 DEF Close, RuntimeTypeOK, Aged, Origin
      <3> QED BY <2>1, <3>1, <3>2, PostTaskType
    <2>2. CASE UNCHANGED <<hsm, runtimeVars, aoQueue, fault>>
      BY <2>2 DEF RuntimeTypeOK, runtimeVars, ThreadTypeOK, ChannelTypeOK
    <2> QED BY <1>l, <2>1, <2>2 DEF LoseConnection
  <1>1. CASE Poll
    <2>1. RuntimeTypeOK' /\ ChannelTypeOK'
      BY <1>1 DEF Poll, runtimeVars, channelVars, RuntimeTypeOK, ChannelTypeOK
    <2>2. ready' \subseteq Source
      BY <1>1 DEF Poll, Source
    <2> QED BY <1>0, <1>1, <2>1, <2>2 DEF Poll, Rebind, ThreadTypeOK, RuntimeTypeOK
  <1>2. CASE ConsumeWake
    BY <1>0, <1>2 DEF ConsumeWake, runtimeVars, RuntimeTypeOK, ChannelTypeOK, ThreadTypeOK
  <1>3. CASE Dequeue
    <2>1. cur' \in InboxEvt
      BY <1>3, TailOfSeq DEF Dequeue, ChannelTypeOK
    <2>2. inbox' \in Seq(InboxEvt) /\ Len(inbox') <= InboxLen
      BY <1>3, TailOfSeq, ChannelAssumption DEF Dequeue, ChannelTypeOK
    <2> QED
      BY <1>0, <1>3, <2>1, <2>2
      DEF Dequeue, runtimeVars, RuntimeTypeOK, ChannelTypeOK, ThreadTypeOK
  <1>4. CASE DrainEnds
    BY <1>0, <1>4
    DEF DrainEnds, runtimeVars, channelVars, RuntimeTypeOK, ChannelTypeOK, ThreadTypeOK
  <1>5. CASE AfterDrain
    <2>1. CASE HangUpDue /\ LoseConnection /\ Rebind(handle', Aged(held))
      BY <1>0, <1>5, <1>l, <2>1
      DEF AfterDrain, Rebind, Aged, Origin, RuntimeTypeOK, ChannelTypeOK, ThreadTypeOK
    <2>2. CASE Rebind(handle, held) /\ UNCHANGED <<hsm, runtimeVars, aoQueue, fault>>
      BY <1>0, <1>5, <2>2
      DEF AfterDrain, Rebind, runtimeVars, RuntimeTypeOK, ChannelTypeOK, ThreadTypeOK
    <2> QED BY <1>5, <2>1, <2>2 DEF AfterDrain
  <1>6. CASE ReadBytes
    <2>1. Packet(held \cup rx) \in AoMsg
      BY ReportType DEF ThreadTypeOK, RuntimeTypeOK
    <2>2. held' \subseteq Origin /\ rx' \subseteq Origin
      BY <1>6 DEF ReadBytes, ThreadTypeOK, RuntimeTypeOK
    <2>3. aoQueue' \in Seq(AoMsg) /\ Len(aoQueue') <= AoQueueLen /\ fault' \in Fault
      BY <1>6, <2>1, PostTaskType DEF ReadBytes, ChannelTypeOK
    <2> QED
      BY <1>0, <1>6, <2>2, <2>3 DEF ReadBytes, RuntimeTypeOK, ChannelTypeOK, ThreadTypeOK
  <1>7. CASE ReadNothing
    BY <1>0, <1>7
    DEF ReadNothing, runtimeVars, channelVars, RuntimeTypeOK, ChannelTypeOK, ThreadTypeOK
  <1>8. CASE ReadFails
    BY <1>0, <1>8, <1>l DEF ReadFails, RuntimeTypeOK, ChannelTypeOK, ThreadTypeOK
  <1>9. CASE EmitIdlePacket
    <2>1. Packet(held) \in AoMsg
      BY ReportType DEF ThreadTypeOK
    <2> QED
      BY <1>0, <1>9, <2>1, PostTaskType
      DEF EmitIdlePacket, runtimeVars, RuntimeTypeOK, ChannelTypeOK, ThreadTypeOK
  <1>10. CASE NotIdleYet
    BY <1>0, <1>10
    DEF NotIdleYet, runtimeVars, channelVars, RuntimeTypeOK, ChannelTypeOK, ThreadTypeOK
  <1> QED
    BY <1>1, <1>2, <1>3, <1>4, <1>5, <1>6, <1>7, <1>8, <1>9, <1>10

LEMMA TakeType ==
  ASSUME ChannelTypeOK, NEW sigs, Take(sigs)
  PROVE  /\ aoQueue' \in Seq(AoMsg) /\ Len(aoQueue') <= AoQueueLen
         /\ Head(aoQueue) \in AoMsg
  BY TailOfSeq, ChannelAssumption DEF ChannelTypeOK, Take

LEMMA MngrType ==
  ASSUME TypeOK, MngrStep
  PROVE  TypeOK'
  <1> USE DEF TypeOK
  <1>0. RuntimeTypeOK' /\ ThreadTypeOK' /\ ConsoleTypeOK'
    BY DEF MngrStep, RuntimeTypeOK, ThreadTypeOK, ConsoleTypeOK,
           runtimeVars, threadVars, consoleVars
  <1>1. aoQueue' \in Seq(AoMsg) /\ Len(aoQueue') <= AoQueueLen
    BY TakeType
    DEF MngrStep, MngrNext, ConfigUpdate, PortConnect, PortDisconnect, RefreshPortsCommand,
        ReportUp, ReportDown, ConnectionLost, ReportTextOnly, RefreshedPorts
  <1>2. SeenTypeOK'
    BY DEF MngrStep, MngrNext, ConfigUpdate, PortConnect, PortDisconnect, RefreshPortsCommand,
           ReportUp, ReportDown, ConnectionLost, ReportTextOnly, RefreshedPorts, SeenTypeOK
  <1>3. /\ inbox' \in Seq(InboxEvt) /\ Len(inbox') <= InboxLen
        /\ wake' \in BOOLEAN
        /\ uiQueue' \in Seq(UiEvt) /\ Len(uiQueue') <= UiQueueLen
        /\ fault' \in Fault
    <2>1. /\ [sig |-> "CLOSE", cfg |-> NoConfig] \in InboxEvt
          /\ [sig |-> "REFRESH", cfg |-> NoConfig] \in InboxEvt
          /\ Status \cup {"PORT_LIST"} \subseteq UiEvt
      BY DEF InboxEvt, UiEvt
    <2>2. ASSUME Take({"CONFIG"}) \/ Take({"CONNECT"}), Parses(Asked)
          PROVE  /\ [sig |-> "OPEN", cfg |-> Asked] \in InboxEvt
                 /\ [sig |-> "APPLY", cfg |-> Asked] \in InboxEvt
      <3>1. Asked \in Config
        BY <2>2, TakeType DEF Take, Asked, AoMsg, ReportSig, UpSig, DownSig
      <3>2. Asked \in SerialConfig
        BY <2>2, <3>1 DEF Parses, Config, SerialConfig
      <3> QED BY <3>2 DEF InboxEvt
    <2>3. CASE UNCHANGED <<inbox, wake, uiQueue, fault>>
      BY <2>3 DEF ChannelTypeOK
    <2>4. CASE ConfigUpdate
      BY <2>1, <2>2, <2>3, <2>4, HandlerPostsType DEF ConfigUpdate
    <2>5. CASE PortConnect
      BY <2>1, <2>2, <2>3, <2>5, HandlerPostsType DEF PortConnect, Status
    <2>6. CASE PortDisconnect
      BY <2>1, <2>6, HandlerPostsType DEF PortDisconnect, Status
    <2>7. CASE RefreshPortsCommand
      BY <2>1, <2>7, HandlerPostsType DEF RefreshPortsCommand
    <2>8. CASE ReportUp \/ ReportDown
      BY <2>1, <2>8, HandlerPostsType DEF ReportUp, ReportDown, Status
    <2>9. CASE ConnectionLost
      BY <2>1, <2>9, HandlerPostsType DEF ConnectionLost, Status
    <2>10. CASE ReportTextOnly
      BY <2>3, <2>10 DEF ReportTextOnly
    <2>11. CASE RefreshedPorts
      BY <2>1, <2>11, HandlerPostsType DEF RefreshedPorts
    <2> QED
      BY <2>4, <2>5, <2>6, <2>7, <2>8, <2>9, <2>10, <2>11 DEF MngrStep, MngrNext
  <1> QED BY <1>0, <1>1, <1>2, <1>3 DEF ChannelTypeOK

LEMMA ConsoleType ==
  ASSUME TypeOK, NoticeStep \/ UserStep
  PROVE  TypeOK'
  <1> USE DEF TypeOK
  <1>0. RuntimeTypeOK' /\ ThreadTypeOK' /\ SeenTypeOK'
    BY DEF NoticeStep, UserStep, RuntimeTypeOK, ThreadTypeOK, SeenTypeOK,
           runtimeVars, threadVars
  <1>1. CASE NoticeStep
    <2>1. uiQueue' \in Seq(UiEvt) /\ Len(uiQueue') <= UiQueueLen
      BY <1>1, TailOfSeq, ChannelAssumption DEF NoticeStep, DispatchNotice, ChannelTypeOK
    <2> QED
      BY <1>0, <1>1, <2>1 DEF NoticeStep, DispatchNotice, ChannelTypeOK, ConsoleTypeOK
  <1>2. CASE UserStep
    <2>1. ASSUME NEW m \in AoMsg, Submit(m)
          PROVE  ChannelTypeOK' /\ statusBar' \in Status
      BY <2>1, PostTaskType DEF Submit, ChannelTypeOK, ConsoleTypeOK
    <2>2. CASE SubmitConnect
      <3>1. PICK p \in Ports \cup {serialConfig.port}, l \in Lines :
              /\ serialConfig' = [port |-> p, line |-> l]
              /\ Submit(Command("CONNECT", serialConfig'))
        BY <2>2 DEF SubmitConnect
      <3>2. serialConfig' \in Config
        BY <3>1 DEF ConsoleTypeOK, Config
      <3>3. Command("CONNECT", serialConfig') \in AoMsg
        BY <3>2, ReportType
      <3> QED BY <1>0, <2>1, <3>1, <3>2, <3>3 DEF ConsoleTypeOK
    <2>3. CASE SubmitConfig
      <3>1. PICK l \in Lines :
              /\ serialConfig' = [serialConfig EXCEPT !.line = l]
              /\ Submit(Command("CONFIG", serialConfig'))
        BY <2>3 DEF SubmitConfig
      <3>2. serialConfig' \in Config
        BY <3>1 DEF ConsoleTypeOK, Config
      <3>3. Command("CONFIG", serialConfig') \in AoMsg
        BY <3>2, ReportType
      <3> QED BY <1>0, <2>1, <3>1, <3>2, <3>3 DEF ConsoleTypeOK
    <2>4. CASE SubmitPlain
      <3>1. PICK sig \in {"DISCONNECT", "REFRESH_PORTS"} : Submit(Command(sig, NoConfig))
        BY <2>4 DEF SubmitPlain
      <3>2. Command(sig, NoConfig) \in AoMsg
        BY ReportType
      <3> QED BY <1>0, <2>1, <2>4, <3>1, <3>2 DEF SubmitPlain, ConsoleTypeOK
    <2> QED BY <1>2, <2>2, <2>3, <2>4 DEF UserStep, UserNext
  <1> QED BY <1>1, <1>2

LEMMA DeviceType ==
  ASSUME TypeOK, DeviceStep
  PROVE  TypeOK'
  <1>1. ChannelTypeOK' /\ ThreadTypeOK' /\ SeenTypeOK' /\ ConsoleTypeOK'
    BY DEF TypeOK, DeviceStep, ChannelTypeOK, channelVars, ThreadTypeOK, threadVars,
           SeenTypeOK, ConsoleTypeOK, consoleVars
  <1>2. RuntimeTypeOK'
    BY DEF TypeOK, DeviceStep, BytesArrive, Unplug, RuntimeTypeOK, Origin
  <1> QED BY <1>1, <1>2 DEF TypeOK

LEMMA InitType == Init => TypeOK
  <1> SUFFICES ASSUME Init PROVE TypeOK
    OBVIOUS
  <1>1. ChannelTypeOK
    <2>1. Command("REFRESH_PORTS", NoConfig) \in AoMsg
      BY ReportType
    <2>2. aoQueue \in Seq(AoMsg) /\ Len(aoQueue) = 1
      BY <2>1 DEF Init, ChannelInit
    <2>3. /\ inbox \in Seq(InboxEvt) /\ Len(inbox) = 0
          /\ uiQueue \in Seq(UiEvt) /\ Len(uiQueue) = 0
      BY DEF Init, ChannelInit
    <2>4. wake \in BOOLEAN /\ fault \in Fault
      BY DEF Init, ChannelInit, Fault
    <2>5. InboxLen >= 0 /\ AoQueueLen >= 1 /\ UiQueueLen >= 0
      BY ChannelAssumption
    <2> QED
      BY <2>2, <2>3, <2>4, <2>5 DEF ChannelTypeOK
  <1>2. RuntimeTypeOK /\ ThreadTypeOK
    BY DEF Init, RuntimeInit, ThreadInit, RuntimeTypeOK, ThreadTypeOK
  <1>3. SeenTypeOK /\ ConsoleTypeOK
    BY ConsoleAssumption
    DEF Init, MngrInit, ConsoleInit, SeenTypeOK, ConsoleTypeOK, Config, Status
  <1> QED BY <1>1, <1>2, <1>3 DEF TypeOK

LEMMA StepType == TypeOK /\ [Next]_vars => TypeOK'
  <1> SUFFICES ASSUME TypeOK, [Next]_vars PROVE TypeOK'
    OBVIOUS
  <1>1. CASE ThreadStep
    BY <1>1, LoopType, DispatchType DEF ThreadStep, ThreadNext
  <1>2. CASE MngrStep
    BY <1>2, MngrType
  <1>3. CASE NoticeStep \/ UserStep
    BY <1>3, ConsoleType
  <1>4. CASE DeviceStep
    BY <1>4, DeviceType
  <1>5. CASE UNCHANGED vars
    BY <1>5 DEF vars, TypeOK, ChannelTypeOK, RuntimeTypeOK, ThreadTypeOK, SeenTypeOK,
                ConsoleTypeOK, channelVars, runtimeVars, threadVars, consoleVars
  <1> QED BY <1>1, <1>2, <1>3, <1>4, <1>5 DEF Next, Aborted

(* Every variable keeps its type, for all constants: in particular SpThread*)
(* is only ever asked for a chosen port, and no queue exceeds its capacity.*)
THEOREM TypeCorrect == Spec => []TypeOK
  BY InitType, StepType, PTL DEF Spec

-----------------------------------------------------------------------------
(* The inductive invariant: what SpThread alone decides.                   *)

(* Everything but SpThread leaves SpThread's variables alone.              *)
LEMMA OthersLeaveThread ==
  ASSUME MngrStep \/ NoticeStep \/ UserStep \/ DeviceStep
  PROVE  /\ UNCHANGED threadVars
         /\ UNCHANGED <<port, handle, applied>>
  BY DEF MngrStep, NoticeStep, UserStep, DeviceStep, runtimeVars, BytesArrive, Unplug

LEMMA CoherenceStep ==
  ASSUME TypeOK, LinkInv, fault = "none", LiveStep, fault' = "none"
  PROVE  /\ LinkCoherent'
         /\ ((cur = NoEvt) <=> (pc # "dispatch"))'
  <1> USE DEF TypeOK, LinkCoherent, LinkInv
  <1>0. /\ NoPort \notin Ports /\ NoHandle \notin Handles /\ NoConfig \notin SerialConfig
        /\ \A cfg \in SerialConfig : cfg.port \in Ports
        /\ \A e \in InboxEvt : e # NoEvt
    BY ChannelAssumption, RuntimeAssumption DEF Config, SerialConfig, InboxEvt, NoEvt
  <1>1. CASE MngrStep \/ NoticeStep \/ UserStep \/ DeviceStep
    BY <1>1, OthersLeaveThread DEF threadVars
  <1>2. CASE Dispatch
    <2>1. Dispatched
      BY <1>2 DEF Dispatch, DisconnectedOpen, DisconnectedClose, DisconnectedApply,
                  ConnectedApply, ConnectedOpenSame, ConnectedOpenOther, ConnectedClose,
                  RefreshPorts
    <2>2. LinkCoherent'
      <3>1. ASSUME cur.sig \in {"OPEN", "APPLY"}, TryOpen(cur.cfg)
            PROVE  LinkCoherent'
        BY <1>0, <3>1, CurrentEvent DEF TryOpen, OpenSucceeds, OpenFails, RuntimeTypeOK
      <3>2. CASE DisconnectedOpen \/ ConnectedOpenOther
        BY <3>1, <3>2 DEF DisconnectedOpen, ConnectedOpenOther, Dispatching
      <3>3. CASE DisconnectedClose \/ DisconnectedApply \/ ConnectedOpenSame \/ RefreshPorts
        BY <3>3 DEF DisconnectedClose, DisconnectedApply, ConnectedOpenSame, RefreshPorts,
                    runtimeVars
      <3>4. CASE ConnectedApply
        <4>1. cur.cfg \in SerialConfig
          BY <3>4, CurrentEvent DEF ConnectedApply, Dispatching
        <4> QED
          BY <1>0, <3>4, <4>1
          DEF ConnectedApply, Dispatching, ReconfigureSucceeds, ReconfigureFailsThenClose
      <3>5. CASE ConnectedClose
        BY <3>5 DEF ConnectedClose, Close
      <3> QED BY <1>2, <3>2, <3>3, <3>4, <3>5 DEF Dispatch
    <2> QED BY <2>1, <2>2 DEF Dispatched
  <1>3. CASE ThreadStep /\ ~Dispatch
    <2>1. LoseConnection => LinkCoherent'
      BY DEF LoseConnection, Close, runtimeVars
    <2>2. CASE Poll \/ ConsumeWake \/ DrainEnds \/ ReadNothing \/ NotIdleYet
      BY <2>2 DEF Poll, ConsumeWake, DrainEnds, ReadNothing, NotIdleYet, runtimeVars
    <2>3. CASE Dequeue
      <3>1. Head(inbox) \in InboxEvt
        BY <2>3, TailOfSeq DEF Dequeue, ChannelTypeOK
      <3> QED BY <1>0, <2>3, <3>1 DEF Dequeue, runtimeVars
    <2>4. CASE AfterDrain
      BY <2>1, <2>4 DEF AfterDrain, runtimeVars
    <2>5. CASE ReadBytes \/ EmitIdlePacket
      BY <2>5 DEF ReadBytes, EmitIdlePacket, runtimeVars
    <2>6. CASE ReadFails
      BY <2>1, <2>6 DEF ReadFails
    <2> QED
      BY <1>3, <2>2, <2>3, <2>4, <2>5, <2>6 DEF ThreadStep, ThreadNext
  <1> QED BY <1>1, <1>2, <1>3 DEF LiveStep, ThreadStep

LEMMA DispatchedLast ==
  ASSUME Dispatch
  PROVE  pc = "dispatch" /\ Dispatched
  BY DEF Dispatch, Dispatching, DisconnectedOpen, DisconnectedClose, DisconnectedApply,
         ConnectedApply, ConnectedOpenSame, ConnectedOpenOther, ConnectedClose, RefreshPorts

LEMMA NoSleepStep ==
  ASSUME TypeOK, LinkInv, fault = "none", LiveStep, fault' = "none"
  PROVE  NoSleepOnRequests'
  <1> USE DEF NoSleepOnRequests, LinkInv
  <1>1. CASE MngrStep
    <2>1. UNCHANGED pc
      BY <1>1 DEF MngrStep, threadVars
    <2>2. UNCHANGED <<inbox, wake>> \/ wake' = TRUE
      BY <1>1
      DEF MngrStep, MngrNext, ConfigUpdate, PortConnect, PortDisconnect, RefreshPortsCommand,
          ReportUp, ReportDown, ConnectionLost, ReportTextOnly, RefreshedPorts,
          Notify, Request, RequestAndNotify, PostInbox
    <2> QED BY <2>1, <2>2
  <1>2. CASE NoticeStep \/ UserStep \/ DeviceStep
    BY <1>2 DEF NoticeStep, DispatchNotice, UserStep, UserNext, SubmitConnect, SubmitConfig,
                SubmitPlain, Submit, DeviceStep, channelVars, threadVars
  <1>3. CASE Dispatch
    BY <1>3, DispatchedLast DEF Dispatched
  <1>4. CASE ThreadStep /\ ~Dispatch
    BY <1>4 DEF ThreadStep, ThreadNext, Poll, ConsumeWake, Dequeue, DrainEnds, AfterDrain,
                ReadBytes, ReadNothing, ReadFails, EmitIdlePacket, NotIdleYet, channelVars
  <1> QED BY <1>1, <1>2, <1>3, <1>4 DEF LiveStep, ThreadStep

(* Whatever replaces the port resets the assembler too.                    *)
LEMMA BytesStep ==
  ASSUME TypeOK, LinkInv, fault = "none", LiveStep, fault' = "none"
  PROVE  BytesAreLive'
  <1> USE DEF TypeOK, BytesAreLive, LinkInv
  <1>1. CASE MngrStep \/ NoticeStep \/ UserStep
    BY <1>1 DEF MngrStep, NoticeStep, UserStep, runtimeVars, threadVars
  <1>2. CASE DeviceStep
    BY <1>2 DEF DeviceStep, BytesArrive, Unplug, threadVars
  <1>3. CASE Dispatch
    <2>1. Dispatched /\ pc' = "drain" /\ UNCHANGED bound
      BY <1>3, DispatchedLast DEF Dispatched
    <2>2. /\ ResetDue \/ UNCHANGED <<port, handle, applied>>
          /\ handle' # NoHandle => rx' \subseteq {"live"}
      <3> USE DEF ResetDue, LinkCoherent
      <3>1. ASSUME cur.sig \in {"OPEN", "APPLY"}
            PROVE  cur.cfg # NoConfig
        BY <3>1, CurrentEvent, ChannelAssumption DEF Config, SerialConfig
      <3>2. CASE DisconnectedOpen
        BY <3>1, <3>2
        DEF DisconnectedOpen, Dispatching, TryOpen, OpenSucceeds, OpenFails, FlushedRx
      <3>3. CASE ConnectedOpenOther
        BY <3>1, <3>3
        DEF ConnectedOpenOther, Dispatching, TryOpen, OpenSucceeds, OpenFails, FlushedRx
      <3>4. CASE DisconnectedClose \/ DisconnectedApply \/ ConnectedOpenSame \/ RefreshPorts
        BY <3>4 DEF DisconnectedClose, DisconnectedApply, ConnectedOpenSame, RefreshPorts,
                    runtimeVars
      <3>5. CASE ConnectedApply
        BY <3>5 DEF ConnectedApply, Dispatching, ReconfigureSucceeds,
                    ReconfigureFailsThenClose, FlushedRx
      <3>6. CASE ConnectedClose
        BY <3>6 DEF ConnectedClose, Dispatching, Close
      <3> QED BY <1>3, <3>2, <3>3, <3>4, <3>5, <3>6 DEF Dispatch
    <2>3. held' \in {{}, held}
      <3>1. cur.sig = "APPLY" => ResetDue
        BY DEF ResetDue
      <3> QED BY <2>1, <2>2, <3>1 DEF Dispatched, Replaced
    <2> QED BY <2>1, <2>2, <2>3
  <1>4. CASE ThreadStep /\ ~Dispatch
    <2>1. CASE Poll \/ ConsumeWake \/ Dequeue \/ DrainEnds \/ ReadNothing \/ NotIdleYet
      BY <2>1 DEF Poll, Rebind, ConsumeWake, Dequeue, DrainEnds, ReadNothing, NotIdleYet,
                  runtimeVars
    <2>2. CASE AfterDrain /\ HangUpDue
      <3>1. handle' = NoHandle /\ bound' = NoHandle
        BY <2>2 DEF AfterDrain, HangUpDue, LoseConnection, LinkCoherent, Close, Rebind
      <3>2. held' = {}
        BY <2>2, <3>1 DEF AfterDrain, Rebind, Aged
      <3> QED BY <2>2, <3>1, <3>2 DEF AfterDrain
    <2>3. CASE AfterDrain /\ ~HangUpDue
      BY <2>3 DEF AfterDrain, Rebind, runtimeVars
    <2>4. CASE ReadBytes \/ EmitIdlePacket
      BY <2>4 DEF ReadBytes, EmitIdlePacket, runtimeVars
    <2>5. CASE ReadFails
      BY <2>5 DEF ReadFails, LoseConnection, LinkCoherent, Close
    <2> QED BY <1>4, <2>1, <2>2, <2>3, <2>4, <2>5 DEF ThreadStep, ThreadNext
  <1> QED BY <1>1, <1>2, <1>3, <1>4 DEF LiveStep, ThreadStep

-----------------------------------------------------------------------------
(* The inductive invariant: what the order of the messages says.           *)

(* A message is queued: a report of the state s2 the link is now in, or    *)
(* one that says nothing of it.                                            *)
LEMMA QueuedMessage ==
  ASSUME NEW q \in Seq(AoMsg), NEW m \in AoMsg, NEW r, r = Append(q, m),
         NEW handled, NEW s1, NEW s2,
         ReportsTell(q, handled, s1), PacketsFollowUp(q, handled),
         \/ m.sig \in StateSig /\ StatusOf(m.sig) = s2
         \/ m.sig \notin StateSig /\ s1 = s2,
         m.sig = "RX_PACKET" => s1 = "CONNECTED"
  PROVE  ReportsTell(r, handled, s2) /\ PacketsFollowUp(r, handled)
  <1> DEFINE n == Len(q)
  <1>0. /\ n \in Nat /\ Len(r) = n + 1
        /\ \A i \in 1..n : r[i] = q[i]
        /\ r[n + 1] = m
    BY AppendToSeq
  <1>1. /\ ReportsIn(q) \subseteq 1..n
        /\ ReportsIn(r) = ReportsIn(q) \cup (IF m.sig \in StateSig THEN {n + 1} ELSE {})
    BY <1>0 DEF ReportsIn
  <1>2. Len(q) = n
    OBVIOUS
  <1> HIDE DEF n
  <1>3. ReportsTell(r, handled, s2)
    <2>1. CASE m.sig \in StateSig
      BY <1>0, <1>1, <2>1 DEF ReportsTell
    <2>2. CASE m.sig \notin StateSig
      BY <1>0, <1>1, <2>2 DEF ReportsTell
    <2> QED BY <2>1, <2>2
  <1>4. PacketsFollowUp(r, handled)
    <2> SUFFICES ASSUME NEW i \in 1..(n + 1), r[i].sig = "RX_PACKET"
                 PROVE  \/ \E j \in ReportsIn(r) :
                             /\ j < i /\ r[j].sig \in UpSig
                             /\ \A k \in ReportsIn(r) : k <= j \/ i < k
                        \/ handled = "CONNECTED" /\ \A k \in ReportsIn(r) : i < k
      BY <1>0 DEF PacketsFollowUp
    <2>1. CASE i \in 1..n
      BY <1>0, <1>1, <1>2, <2>1 DEF PacketsFollowUp
    <2>2. CASE i = n + 1
      <3>1. s1 = "CONNECTED" /\ m.sig \notin StateSig
        BY <1>0, <2>2 DEF StateSig, UpSig, DownSig
      <3>2. ASSUME NEW j \in ReportsIn(q), \A k \in ReportsIn(q) : k <= j,
                   StatusOf(q[j].sig) = s1
            PROVE  j < i /\ r[j].sig \in UpSig
        BY <1>0, <1>1, <2>2, <3>1, <3>2 DEF StatusOf
      <3>3. ReportsIn(r) = ReportsIn(q)
        BY <1>1, <3>1
      <3>4. CASE ReportsIn(q) = {} /\ handled = s1
        BY <3>1, <3>3, <3>4
      <3>5. CASE \E j \in ReportsIn(q) :
                   (\A k \in ReportsIn(q) : k <= j) /\ StatusOf(q[j].sig) = s1
        BY <3>2, <3>3, <3>5
      <3> QED BY <3>4, <3>5 DEF ReportsTell
    <2>3. i \in 1..n \/ i = n + 1
      BY <1>0
    <2> QED BY <2>1, <2>2, <2>3
  <1> QED BY <1>3, <1>4

(* The manager takes the oldest message; a report it takes is then the     *)
(* last one handled.                                                       *)
LEMMA TakenMessage ==
  ASSUME NEW q \in Seq(AoMsg), q # <<>>, NEW handled, NEW s,
         ReportsTell(q, handled, s), PacketsFollowUp(q, handled)
  PROVE  LET h == IF q[1].sig \in StateSig THEN StatusOf(q[1].sig) ELSE handled
         IN  ReportsTell(Tail(q), h, s) /\ PacketsFollowUp(Tail(q), h)
  <1> SUFFICES ASSUME NEW r, r = Tail(q), NEW h,
                      h = IF q[1].sig \in StateSig THEN StatusOf(q[1].sig) ELSE handled
               PROVE  ReportsTell(r, h, s) /\ PacketsFollowUp(r, h)
    OBVIOUS
  <1> DEFINE n == Len(q)
  <1>0. /\ n \in Nat /\ n >= 1 /\ Len(r) = n - 1
        /\ \A i \in 1..(n - 1) : r[i] = q[i + 1]
    BY TailOfSeq
  <1>1. /\ ReportsIn(q) \subseteq 1..n
        /\ \A i \in ReportsIn(r) : i \in 1..(n - 1) /\ i + 1 \in ReportsIn(q)
        /\ \A i \in ReportsIn(q) : i # 1 => i - 1 \in ReportsIn(r)
        /\ 1 \in ReportsIn(q) <=> q[1].sig \in StateSig
    BY <1>0 DEF ReportsIn
  <1>2. Len(q) = n
    OBVIOUS
  <1> HIDE DEF n
  <1>3. ReportsTell(r, h, s)
    <2>1. ASSUME NEW i \in ReportsIn(q), \A j \in ReportsIn(q) : j <= i,
                 StatusOf(q[i].sig) = s
          PROVE  ReportsTell(r, h, s)
      <3>1. CASE i = 1
        <4>1. ReportsIn(r) = {}
          <5> SUFFICES ASSUME NEW j \in ReportsIn(r) PROVE FALSE
            OBVIOUS
          <5>1. j \in 1..(n - 1) /\ j + 1 <= 1
            BY <1>1, <2>1, <3>1
          <5> QED BY <1>0, <5>1
        <4> QED BY <1>1, <2>1, <3>1, <4>1 DEF ReportsTell
      <3>2. CASE i # 1
        <4>1. i - 1 \in ReportsIn(r) /\ r[i - 1] = q[i]
          BY <1>0, <1>1, <2>1, <3>2
        <4>2. \A j \in ReportsIn(r) : j <= i - 1
          BY <1>0, <1>1, <2>1
        <4> QED BY <2>1, <4>1, <4>2 DEF ReportsTell
      <3> QED BY <3>1, <3>2
    <2>2. CASE ReportsIn(q) = {} /\ handled = s
      BY <1>1, <2>2 DEF ReportsTell
    <2> QED BY <2>1, <2>2 DEF ReportsTell
  <1>4. PacketsFollowUp(r, h)
    <2> SUFFICES ASSUME NEW i \in 1..(n - 1), r[i].sig = "RX_PACKET"
                 PROVE  \/ \E j \in ReportsIn(r) :
                             /\ j < i /\ r[j].sig \in UpSig
                             /\ \A k \in ReportsIn(r) : k <= j \/ i < k
                        \/ h = "CONNECTED" /\ \A k \in ReportsIn(r) : i < k
      BY <1>0 DEF PacketsFollowUp
    <2>1. i + 1 \in 1..n /\ q[i + 1].sig = "RX_PACKET"
      BY <1>0
    <2>2. ASSUME NEW j \in ReportsIn(q), j < i + 1, q[j].sig \in UpSig,
                 \A k \in ReportsIn(q) : k <= j \/ i + 1 < k
          PROVE  \/ \E jj \in ReportsIn(r) :
                      /\ jj < i /\ r[jj].sig \in UpSig
                      /\ \A k \in ReportsIn(r) : k <= jj \/ i < k
                 \/ h = "CONNECTED" /\ \A k \in ReportsIn(r) : i < k
      <3>1. CASE j = 1
        BY <1>0, <1>1, <2>2, <3>1 DEF StatusOf, StateSig
      <3>2. CASE j # 1
        <4>1. j - 1 \in ReportsIn(r) /\ r[j - 1] = q[j] /\ j - 1 < i
          BY <1>0, <1>1, <2>2, <3>2
        <4>2. \A k \in ReportsIn(r) : k <= j - 1 \/ i < k
          BY <1>0, <1>1, <2>2
        <4> QED BY <2>2, <4>1, <4>2
      <3> QED BY <3>1, <3>2
    <2>3. CASE handled = "CONNECTED" /\ \A k \in ReportsIn(q) : i + 1 < k
      <3>1. \A k \in ReportsIn(r) : i < k
        BY <1>0, <1>1, <2>3
      <3>2. h = "CONNECTED"
        BY <1>0, <1>1, <2>3
      <3> QED BY <3>1, <3>2
    <2> QED BY <1>2, <2>1, <2>2, <2>3 DEF PacketsFollowUp
  <1> QED BY <1>3, <1>4

(* A notice is queued for the UI.                                          *)
LEMMA QueuedNotice ==
  ASSUME NEW q \in Seq(UiEvt), NEW e \in UiEvt, NEW shown, NEW s,
         \/ e \in Status /\ e = s
         \/ e \notin Status /\ StatusesTell(q, shown, s)
  PROVE  StatusesTell(Append(q, e), shown, s)
  <1> SUFFICES ASSUME NEW r, r = Append(q, e) PROVE StatusesTell(r, shown, s)
    OBVIOUS
  <1> DEFINE n == Len(q)
  <1>0. /\ n \in Nat /\ Len(r) = n + 1
        /\ \A i \in 1..n : r[i] = q[i]
        /\ r[n + 1] = e
    BY AppendToSeq
  <1>1. /\ StatusesIn(q) \subseteq 1..n
        /\ StatusesIn(r) = StatusesIn(q) \cup (IF e \in Status THEN {n + 1} ELSE {})
    BY <1>0 DEF StatusesIn
  <1> HIDE DEF n
  <1>2. CASE e \in Status /\ e = s
    BY <1>0, <1>1, <1>2 DEF StatusesTell
  <1>3. CASE e \notin Status /\ StatusesTell(q, shown, s)
    BY <1>0, <1>1, <1>3 DEF StatusesTell
  <1> QED BY <1>2, <1>3

(* The UI takes the oldest notice; a status it takes is shown.             *)
LEMMA TakenNotice ==
  ASSUME NEW q \in Seq(UiEvt), q # <<>>, NEW shown, NEW s,
         StatusesTell(q, shown, s)
  PROVE  StatusesTell(Tail(q), IF q[1] \in Status THEN q[1] ELSE shown, s)
  <1> SUFFICES ASSUME NEW r, r = Tail(q), NEW now,
                      now = IF q[1] \in Status THEN q[1] ELSE shown
               PROVE  StatusesTell(r, now, s)
    OBVIOUS
  <1> DEFINE n == Len(q)
  <1>0. /\ n \in Nat /\ n >= 1 /\ Len(r) = n - 1
        /\ \A i \in 1..(n - 1) : r[i] = q[i + 1]
    BY TailOfSeq
  <1>1. /\ StatusesIn(q) \subseteq 1..n
        /\ \A i \in StatusesIn(r) : i \in 1..(n - 1) /\ i + 1 \in StatusesIn(q)
        /\ \A i \in StatusesIn(q) : i # 1 => i - 1 \in StatusesIn(r)
        /\ 1 \in StatusesIn(q) <=> q[1] \in Status
    BY <1>0 DEF StatusesIn
  <1> HIDE DEF n
  <1>2. ASSUME NEW i \in StatusesIn(q), \A j \in StatusesIn(q) : j <= i, q[i] = s
        PROVE  StatusesTell(r, now, s)
    <2>1. CASE i = 1
      <3>1. StatusesIn(r) = {}
        <4> SUFFICES ASSUME NEW j \in StatusesIn(r) PROVE FALSE
          OBVIOUS
        <4>1. j \in 1..(n - 1) /\ j + 1 <= 1
          BY <1>1, <1>2, <2>1
        <4> QED BY <1>0, <4>1
      <3> QED BY <1>1, <1>2, <2>1, <3>1 DEF StatusesTell
    <2>2. CASE i # 1
      <3>1. i - 1 \in StatusesIn(r) /\ r[i - 1] = q[i]
        BY <1>0, <1>1, <1>2, <2>2
      <3>2. \A j \in StatusesIn(r) : j <= i - 1
        BY <1>0, <1>1, <1>2
      <3> QED BY <1>2, <3>1, <3>2 DEF StatusesTell
    <2> QED BY <2>1, <2>2
  <1>3. CASE StatusesIn(q) = {} /\ shown = s
    BY <1>1, <1>3 DEF StatusesTell
  <1> QED BY <1>2, <1>3 DEF StatusesTell

-----------------------------------------------------------------------------
(* Every step of a living process leaves the message queue alone, appends  *)
(* a message that agrees with what the step does to the link, or takes one.*)

Reported(m) ==
  /\ m \in AoMsg
  /\ aoQueue' = Append(aoQueue, m)
  /\ UNCHANGED seen
  /\ \/ m.sig \in StateSig /\ StatusOf(m.sig) = LinkState'
     \/ m.sig \notin StateSig /\ UNCHANGED LinkState
  /\ m.sig = "RX_PACKET" => LinkState = "CONNECTED" /\ m.bytes = {"live"}

Handled ==
  /\ aoQueue # <<>>
  /\ aoQueue' = Tail(aoQueue)
  /\ seen' = IF aoQueue[1].sig \in StateSig THEN StatusOf(aoQueue[1].sig) ELSE seen
  /\ UNCHANGED LinkState

Quiet == UNCHANGED <<aoQueue, seen>> /\ UNCHANGED LinkState

LEMMA PostedIs ==
  ASSUME NEW m, PostTask(m), fault = "none", fault' = "none"
  PROVE  aoQueue' = Append(aoQueue, m)
  BY DEF PostTask

LEMMA PlainReport ==
  ASSUME NEW sig \in ReportSig
  PROVE  Report(sig) \in AoMsg /\ Report(sig).sig = sig
  BY ReportType DEF Report

LEMMA ThreadMessages ==
  ASSUME TypeOK, LinkInv, fault = "none", ThreadStep, fault' = "none"
  PROVE  /\ Quiet \/ \E m \in AoMsg : Reported(m)
         /\ (RequestPending /\ ~RequestPending')
              => \E m \in AoMsg : Reported(m) /\ m.sig \in StateSig
  <1> USE DEF TypeOK
  <1>0. UNCHANGED seen
    BY DEF ThreadStep
  <1>1. ASSUME NEW sig \in StateSig, PostTask(Report(sig)), StatusOf(sig) = LinkState'
        PROVE  \E m \in AoMsg : Reported(m) /\ m.sig \in StateSig
    <2>1. sig \in ReportSig /\ sig # "RX_PACKET"
      BY DEF StateSig, ReportSig, UpSig, DownSig
    <2> QED BY <1>0, <1>1, <2>1, PlainReport, PostedIs DEF Reported
  <1>2. ASSUME NEW sig \in ReportSig \ (StateSig \cup {"RX_PACKET"}),
               PostTask(Report(sig)), UNCHANGED hsm
        PROVE  \E m \in AoMsg : Reported(m)
    BY <1>0, <1>2, PlainReport, PostedIs DEF Reported, LinkState
  <1>3. ASSUME PostTask(Packet({"live"})), hsm = "connected", UNCHANGED hsm
        PROVE  \E m \in AoMsg : Reported(m)
    <2>1. Packet({"live"}) \in AoMsg /\ Packet({"live"}).sig = "RX_PACKET"
            /\ Packet({"live"}).bytes = {"live"}
      BY ReportType DEF Packet, Origin
    <2>2. "RX_PACKET" \notin StateSig
      BY DEF StateSig, UpSig, DownSig
    <2> QED BY <1>0, <1>3, <2>1, <2>2, PostedIs DEF Reported, LinkState
  <1>4. ASSUME UNCHANGED <<hsm, aoQueue>>
        PROVE  Quiet
    BY <1>0, <1>4 DEF Quiet, LinkState
  <1>5. CASE Dispatch
    <2>1. UNCHANGED inbox
      BY <1>5, DispatchedLast DEF Dispatched
    <2>2. cur.sig \notin {"OPEN", "CLOSE"} => (RequestPending => RequestPending')
      BY <2>1 DEF RequestPending
    <2>3. ASSUME TryOpen(cur.cfg)
          PROVE  \E m \in AoMsg : Reported(m) /\ m.sig \in StateSig
      BY <1>1, <2>3
      DEF TryOpen, FailureReport, StateSig, UpSig, DownSig, StatusOf, LinkState
    <2>4. CASE DisconnectedOpen \/ ConnectedOpenOther
      BY <2>3, <2>4 DEF DisconnectedOpen, ConnectedOpenOther
    <2>5. CASE DisconnectedClose \/ ConnectedOpenSame \/ ConnectedClose
      BY <1>1, <2>5
      DEF DisconnectedClose, ConnectedOpenSame, ConnectedClose, Dispatching,
          StateSig, UpSig, DownSig, StatusOf, LinkState
    <2>6. CASE DisconnectedApply
      BY <1>4, <2>2, <2>6 DEF DisconnectedApply, Dispatching
    <2>7. CASE ConnectedApply
      <3>1. CASE hsm' = "connected" /\ PostTask(Report("APPLIED"))
        BY <1>2, <2>2, <2>7, <3>1
        DEF ConnectedApply, Dispatching, ReportSig, StateSig, UpSig, DownSig
      <3>2. CASE hsm' = "disconnected" /\ PostTask(FailureReport("APPLY_FAILED"))
        BY <1>1, <3>2 DEF FailureReport, StateSig, UpSig, DownSig, StatusOf, LinkState
      <3> QED BY <2>7, <3>1, <3>2 DEF ConnectedApply
    <2>8. CASE RefreshPorts
      BY <1>2, <2>2, <2>8
      DEF RefreshPorts, Dispatching, ReportSig, StateSig, UpSig, DownSig
    <2> QED
      BY <1>5, <2>4, <2>5, <2>6, <2>7, <2>8 DEF Dispatch
  <1>6. CASE Dequeue
    <2>1. Quiet
      BY <1>4, <1>6 DEF Dequeue
    <2>2. RequestPending => RequestPending'
      <3>1. cur = NoEvt
        BY <1>6 DEF LinkInv, Dequeue
      <3>2. SUFFICES ASSUME NEW i \in 1..Len(inbox), inbox[i].sig \in {"OPEN", "CLOSE"}
                     PROVE  RequestPending'
        BY <3>1 DEF RequestPending, NoEvt
      <3>3. /\ inbox \in Seq(InboxEvt) /\ inbox # <<>>
            /\ inbox' = Tail(inbox) /\ cur' = inbox[1]
        BY <1>6, TailOfSeq DEF Dequeue, ChannelTypeOK
      <3>4. CASE i = 1
        BY <3>2, <3>3, <3>4 DEF RequestPending
      <3>5. CASE i # 1
        <4>1. i - 1 \in 1..Len(inbox') /\ inbox'[i - 1] = inbox[i]
          BY <3>2, <3>3, <3>5, TailOfSeq
        <4> QED BY <3>2, <4>1 DEF RequestPending
      <3> QED BY <3>4, <3>5
    <2> QED BY <2>1, <2>2
  <1>7. CASE ThreadStep /\ ~Dispatch /\ ~Dequeue
    <2>1. RequestPending => RequestPending'
      <3>1. UNCHANGED <<cur, inbox>>
        BY <1>7 DEF ThreadStep, ThreadNext, Poll, ConsumeWake, DrainEnds, AfterDrain,
                    ReadBytes, ReadNothing, ReadFails, EmitIdlePacket, NotIdleYet, channelVars
      <3> QED BY <3>1 DEF RequestPending
    <2>2. ASSUME LoseConnection
          PROVE  Quiet \/ \E m \in AoMsg : Reported(m)
      <3>1. CASE hsm' = "disconnected" /\ PostTask(Report("CONNECTION_LOST"))
        BY <1>1, <3>1 DEF StateSig, UpSig, DownSig, StatusOf, LinkState
      <3> QED BY <1>4, <2>2, <3>1 DEF LoseConnection
    <2>3. CASE Poll \/ ConsumeWake \/ DrainEnds \/ ReadNothing \/ NotIdleYet
      BY <1>4, <2>1, <2>3
      DEF Poll, ConsumeWake, DrainEnds, ReadNothing, NotIdleYet, channelVars
    <2>4. CASE AfterDrain
      BY <1>4, <2>1, <2>2, <2>4 DEF AfterDrain
    <2>5. CASE ReadFails
      BY <2>1, <2>2, <2>5 DEF ReadFails
    <2>6. CASE ReadBytes
      <3>1. UNCHANGED hsm /\ hsm = "connected"
        BY <2>6 DEF ReadBytes, LinkInv, BytesAreLive, LinkCoherent
      <3>2. rx = {"live"} /\ held \cup rx = {"live"}
        BY <2>6, <3>1 DEF ReadBytes, LinkInv, BytesAreLive, LinkCoherent
      <3> QED BY <1>3, <1>4, <2>1, <2>6, <3>1, <3>2 DEF ReadBytes
    <2>7. CASE EmitIdlePacket
      <3>1. UNCHANGED hsm /\ hsm = "connected" /\ held = {"live"}
        BY <2>7 DEF EmitIdlePacket, LinkInv, BytesAreLive, LinkCoherent
      <3> QED BY <1>3, <2>1, <2>7, <3>1 DEF EmitIdlePacket
    <2> QED
      BY <1>7, <2>3, <2>4, <2>5, <2>6, <2>7 DEF ThreadStep, ThreadNext
  <1> QED BY <1>5, <1>6, <1>7

LEMMA MngrMessages ==
  ASSUME TypeOK, MngrStep
  PROVE  Handled /\ Head(aoQueue) = aoQueue[1]
  <1>1. /\ aoQueue # <<>> /\ aoQueue' = Tail(aoQueue) /\ Head(aoQueue) = aoQueue[1]
    BY TailOfSeq
    DEF MngrStep, MngrNext, ConfigUpdate, PortConnect, PortDisconnect, RefreshPortsCommand,
        ReportUp, ReportDown, ConnectionLost, ReportTextOnly, RefreshedPorts, Take,
        TypeOK, ChannelTypeOK
  <1>2. seen' = IF aoQueue[1].sig \in StateSig THEN StatusOf(aoQueue[1].sig) ELSE seen
    BY <1>1
    DEF MngrStep, MngrNext, ConfigUpdate, PortConnect, PortDisconnect, RefreshPortsCommand,
        ReportUp, ReportDown, ConnectionLost, ReportTextOnly, RefreshedPorts, Take,
        StateSig, StatusOf, UpSig, DownSig
  <1>3. UNCHANGED LinkState
    BY DEF MngrStep, threadVars, LinkState
  <1> QED BY <1>1, <1>2, <1>3 DEF Handled

LEMMA OtherMessages ==
  ASSUME TypeOK, fault = "none", fault' = "none", NoticeStep \/ UserStep \/ DeviceStep
  PROVE  Quiet \/ \E m \in AoMsg : Reported(m)
  <1>0. UNCHANGED LinkState
    BY OthersLeaveThread DEF threadVars, LinkState
  <1>1. CASE UserStep
    <2>1. ASSUME NEW sig \in {"CONNECT", "CONFIG", "DISCONNECT", "REFRESH_PORTS"}, NEW cfg,
                 Command(sig, cfg) \in AoMsg, PostTask(Command(sig, cfg))
          PROVE  \E m \in AoMsg : Reported(m)
      <3>1. Command(sig, cfg).sig = sig /\ sig \notin StateSig /\ sig # "RX_PACKET"
        BY DEF Command, StateSig, UpSig, DownSig
      <3> QED BY <1>0, <1>1, <2>1, <3>1, PostedIs DEF Reported, UserStep
    <2>2. TypeOK'
      BY <1>1, ConsoleType
    <2>3. /\ Command("CONNECT", serialConfig') \in AoMsg
          /\ Command("CONFIG", serialConfig') \in AoMsg
      BY <2>2, ReportType DEF TypeOK, ConsoleTypeOK
    <2>4. CASE SubmitConnect
      <3>1. PostTask(Command("CONNECT", serialConfig'))
        BY <2>4 DEF SubmitConnect, Submit
      <3> QED BY <2>1, <2>3, <3>1
    <2>5. CASE SubmitConfig
      <3>1. PostTask(Command("CONFIG", serialConfig'))
        BY <2>5 DEF SubmitConfig, Submit
      <3> QED BY <2>1, <2>3, <3>1
    <2>6. CASE SubmitPlain
      BY <2>1, <2>6, ReportType DEF SubmitPlain, Submit
    <2> QED BY <1>1, <2>4, <2>5, <2>6 DEF UserStep, UserNext
  <1>2. CASE NoticeStep \/ DeviceStep
    BY <1>0, <1>2 DEF NoticeStep, DispatchNotice, DeviceStep, channelVars, Quiet
  <1> QED BY <1>1, <1>2

LEMMA MessagesStep ==
  ASSUME TypeOK, LinkInv, fault = "none", LiveStep, fault' = "none"
  PROVE  /\ ReportsFollowLink'
         /\ PacketsFollowUp(aoQueue, seen)'
         /\ PacketsAreOfOneConnection'
  <1>0. /\ aoQueue \in Seq(AoMsg)
        /\ ReportsTell(aoQueue, seen, LinkState)
        /\ PacketsFollowUp(aoQueue, seen)
        /\ PacketsAreOfOneConnection
    BY DEF TypeOK, ChannelTypeOK, LinkInv, ReportsFollowLink
  <1>1. Quiet \/ (\E m \in AoMsg : Reported(m)) \/ Handled
    BY ThreadMessages, MngrMessages, OtherMessages DEF LiveStep
  <1>2. CASE Quiet
    BY <1>0, <1>2 DEF Quiet, ReportsFollowLink, PacketsAreOfOneConnection
  <1>3. ASSUME NEW m \in AoMsg, Reported(m)
        PROVE  /\ ReportsFollowLink'
               /\ PacketsFollowUp(aoQueue, seen)'
               /\ PacketsAreOfOneConnection'
    <2>1. ReportsTell(aoQueue', seen, LinkState') /\ PacketsFollowUp(aoQueue', seen)
      BY <1>0, <1>3, QueuedMessage DEF Reported
    <2>2. PacketsAreOfOneConnection'
      BY <1>0, <1>3, AppendToSeq DEF Reported, PacketsAreOfOneConnection
    <2> QED BY <1>3, <2>1, <2>2 DEF Reported, ReportsFollowLink
  <1>4. CASE Handled
    <2>1. ReportsTell(aoQueue', seen', LinkState) /\ PacketsFollowUp(aoQueue', seen')
      BY <1>0, <1>4, TakenMessage DEF Handled
    <2>2. PacketsAreOfOneConnection'
      BY <1>0, <1>4, TailOfSeq DEF Handled, PacketsAreOfOneConnection
    <2> QED BY <1>4, <2>1, <2>2 DEF Handled, ReportsFollowLink
  <1> QED BY <1>1, <1>2, <1>3, <1>4

(* Queueing a message keeps the reports queued before it.                  *)
LEMMA ReportsStay ==
  ASSUME NEW q \in Seq(AoMsg), NEW m \in AoMsg
  PROVE  /\ m.sig \in StateSig => ReportsIn(Append(q, m)) # {}
         /\ ReportsIn(q) # {} => ReportsIn(Append(q, m)) # {}
  <1>1. /\ Len(Append(q, m)) = Len(q) + 1
        /\ Len(q) \in Nat
        /\ \A i \in 1..Len(q) : Append(q, m)[i] = q[i]
        /\ Append(q, m)[Len(q) + 1] = m
    BY AppendToSeq
  <1>2. m.sig \in StateSig => Len(q) + 1 \in ReportsIn(Append(q, m))
    BY <1>1 DEF ReportsIn
  <1>3. ReportsIn(q) \subseteq ReportsIn(Append(q, m))
    BY <1>1 DEF ReportsIn
  <1> QED BY <1>2, <1>3

LEMMA ReportsTaken ==
  ASSUME NEW q \in Seq(AoMsg), q # <<>>, q[1].sig \notin StateSig,
         ReportsIn(Tail(q)) = {}
  PROVE  ReportsIn(q) = {}
  <1> SUFFICES ASSUME NEW i \in ReportsIn(q) PROVE FALSE
    OBVIOUS
  <1>1. i \in 1..Len(q) /\ i # 1
    BY DEF ReportsIn
  <1>2. i - 1 \in ReportsIn(Tail(q))
    BY <1>1, TailOfSeq DEF ReportsIn
  <1> QED BY <1>2

(* A request posted to SpThread is pending, and leaves the others pending. *)
LEMMA RequestsStay ==
  ASSUME ChannelTypeOK, UNCHANGED cur,
         UNCHANGED inbox \/ \E e \in InboxEvt : inbox' = Append(inbox, e)
  PROVE  RequestPending => RequestPending'
  <1>1. CASE UNCHANGED inbox
    BY <1>1 DEF RequestPending
  <1>2. ASSUME NEW e \in InboxEvt, inbox' = Append(inbox, e)
        PROVE  RequestPending => RequestPending'
    <2>1. /\ Len(inbox) \in Nat /\ Len(inbox') = Len(inbox) + 1
          /\ \A i \in 1..Len(inbox) : inbox'[i] = inbox[i]
      BY <1>2, AppendToSeq DEF ChannelTypeOK
    <2> QED BY <2>1 DEF RequestPending
  <1> QED BY <1>1, <1>2

LEMMA RequestPosted ==
  ASSUME ChannelTypeOK, NEW e \in InboxEvt, e.sig \in {"OPEN", "CLOSE"},
         inbox' = Append(inbox, e)
  PROVE  RequestPending'
  <1>1. /\ Len(inbox) \in Nat /\ Len(inbox') = Len(inbox) + 1
        /\ inbox'[Len(inbox) + 1] = e
    BY AppendToSeq DEF ChannelTypeOK
  <1>2. Len(inbox) + 1 \in 1..Len(inbox')
    BY <1>1
  <1> QED BY <1>1, <1>2 DEF RequestPending

LEMMA MngrStatuses ==
  ASSUME TypeOK, LinkInv, fault = "none", MngrStep, fault' = "none"
  PROVE  StatusesFollowReports'
  <1> SUFFICES ASSUME ~RequestPending', ReportsIn(aoQueue') = {}
               PROVE  StatusesTell(uiQueue', statusBar, seen')
    BY DEF MngrStep, consoleVars, StatusesFollowReports
  <1>0. /\ Handled /\ Head(aoQueue) = aoQueue[1] /\ UNCHANGED cur
        /\ aoQueue \in Seq(AoMsg) /\ uiQueue \in Seq(UiEvt) /\ ChannelTypeOK
    BY MngrMessages DEF MngrStep, threadVars, TypeOK, ChannelTypeOK
  <1>1. ASSUME aoQueue[1].sig \notin StateSig, RequestPending => RequestPending'
        PROVE  StatusesTell(uiQueue, statusBar, seen')
    <2>1. ReportsIn(aoQueue) = {} /\ seen' = seen
      BY <1>0, <1>1, ReportsTaken DEF Handled
    <2> QED BY <1>1, <2>1 DEF LinkInv, StatusesFollowReports
  <1>2. /\ [sig |-> "CLOSE", cfg |-> NoConfig] \in InboxEvt
        /\ [sig |-> "REFRESH", cfg |-> NoConfig] \in InboxEvt
        /\ Status \subseteq UiEvt /\ "PORT_LIST" \in UiEvt \ Status
    BY DEF InboxEvt, UiEvt, Status
  <1>3. CASE ConfigUpdate \/ RefreshPortsCommand \/ ReportTextOnly
    <2>1. aoQueue[1].sig \notin StateSig /\ UNCHANGED uiQueue
      BY <1>0, <1>3
      DEF ConfigUpdate, RefreshPortsCommand, ReportTextOnly, Take, Request,
          StateSig, UpSig, DownSig
    <2>2. UNCHANGED inbox \/ \E e \in InboxEvt : inbox' = Append(inbox, e)
      <3>1. CASE ConfigUpdate /\ Parses(Asked)
        <4>1. [sig |-> "APPLY", cfg |-> Asked] \in InboxEvt
          BY <1>0, <3>1, TakeType
          DEF ConfigUpdate, Take, Asked, Parses, AoMsg, ReportSig, UpSig, DownSig,
              Config, SerialConfig, InboxEvt
        <4> QED BY <3>1, <4>1 DEF ConfigUpdate, Request, PostInbox
      <3> QED
        BY <1>2, <1>3, <3>1
        DEF ConfigUpdate, RefreshPortsCommand, ReportTextOnly, Request, PostInbox
    <2> QED BY <1>0, <1>1, <2>1, <2>2, RequestsStay
  <1>4. CASE PortConnect
    <2>1. aoQueue[1].sig \notin StateSig
      BY <1>0, <1>4 DEF PortConnect, Take, StateSig, UpSig, DownSig
    <2>2. CASE Parses(Asked)
      <3>1. [sig |-> "OPEN", cfg |-> Asked] \in InboxEvt
        BY <1>0, <1>4, <2>2, TakeType
        DEF PortConnect, Take, Asked, Parses, AoMsg, ReportSig, UpSig, DownSig,
            Config, SerialConfig, InboxEvt
      <3>2. inbox' = Append(inbox, [sig |-> "OPEN", cfg |-> Asked])
        BY <1>4, <2>2 DEF PortConnect, RequestAndNotify, PostInbox
      <3> QED BY <1>0, <3>1, <3>2, RequestPosted
    <2>3. CASE ~Parses(Asked)
      BY <1>0, <1>1, <1>4, <2>1, <2>3, RequestsStay DEF PortConnect
    <2> QED BY <2>2, <2>3
  <1>5. CASE PortDisconnect
    <2>1. inbox' = Append(inbox, [sig |-> "CLOSE", cfg |-> NoConfig])
      BY <1>5 DEF PortDisconnect, RequestAndNotify, PostInbox
    <2> QED BY <1>0, <1>2, <2>1, RequestPosted
  <1>6. CASE ReportUp \/ ReportDown \/ ConnectionLost
    <2>1. seen' \in Status /\ uiQueue' = Append(uiQueue, seen')
      BY <1>6 DEF ReportUp, ReportDown, ConnectionLost, Notify, RequestAndNotify, PostUi,
                  Status
    <2> QED BY <1>0, <1>2, <2>1, QueuedNotice
  <1>7. CASE RefreshedPorts
    <2>1. /\ aoQueue[1].sig \notin StateSig /\ UNCHANGED inbox
          /\ uiQueue' = Append(uiQueue, "PORT_LIST")
      BY <1>0, <1>7 DEF RefreshedPorts, Take, Notify, PostUi, StateSig, UpSig, DownSig
    <2>2. StatusesTell(uiQueue, statusBar, seen')
      BY <1>0, <1>1, <2>1, RequestsStay
    <2> QED BY <1>0, <1>2, <2>1, <2>2, QueuedNotice
  <1> QED
    BY <1>3, <1>4, <1>5, <1>6, <1>7 DEF MngrStep, MngrNext

LEMMA StatusesStep ==
  ASSUME TypeOK, LinkInv, fault = "none", LiveStep, fault' = "none"
  PROVE  StatusesFollowReports'
  <1> USE DEF TypeOK
  <1>0. /\ aoQueue \in Seq(AoMsg) /\ uiQueue \in Seq(UiEvt)
        /\ (~RequestPending /\ ReportsIn(aoQueue) = {})
             => StatusesTell(uiQueue, statusBar, seen)
    BY DEF LinkInv, StatusesFollowReports, ChannelTypeOK
  <1>1. \A m \in AoMsg : Reported(m) =>
          /\ m.sig \in StateSig => ReportsIn(aoQueue') # {}
          /\ ReportsIn(aoQueue) # {} => ReportsIn(aoQueue') # {}
    BY <1>0, ReportsStay DEF Reported
  <1>2. CASE ThreadStep
    <2>1. UNCHANGED <<uiQueue, seen, statusBar>>
      <3>1. UNCHANGED uiQueue
        BY <1>2, DispatchedLast
        DEF ThreadStep, ThreadNext, Poll, ConsumeWake, Dequeue, DrainEnds, AfterDrain, Dispatched,
            ReadBytes, ReadNothing, ReadFails, EmitIdlePacket, NotIdleYet, channelVars
      <3> QED BY <1>2, <3>1 DEF ThreadStep, consoleVars
    <2>2. (~RequestPending' /\ ReportsIn(aoQueue') = {})
            => ~RequestPending /\ ReportsIn(aoQueue) = {}
      BY <1>1, <1>2, ThreadMessages DEF Quiet
    <2> QED BY <1>0, <2>1, <2>2 DEF StatusesFollowReports
  <1>3. CASE MngrStep
    BY <1>3, MngrStatuses
  <1>4. CASE NoticeStep
    <2>1. UNCHANGED <<inbox, cur, aoQueue, seen>>
      BY <1>4 DEF NoticeStep, DispatchNotice, threadVars
    <2>2. StatusesTell(uiQueue, statusBar, seen) => StatusesTell(uiQueue', statusBar', seen)
      <3>1. /\ uiQueue # <<>> /\ uiQueue' = Tail(uiQueue)
            /\ statusBar' = IF uiQueue[1] \in Status THEN uiQueue[1] ELSE statusBar
        BY <1>0, <1>4, TailOfSeq DEF NoticeStep, DispatchNotice
      <3> QED BY <1>0, <3>1, TakenNotice
    <2> QED BY <1>0, <2>1, <2>2 DEF StatusesFollowReports, RequestPending
  <1>5. CASE UserStep \/ DeviceStep
    <2>1. UNCHANGED <<inbox, cur, uiQueue, seen, statusBar>>
      BY <1>5 DEF UserStep, UserNext, SubmitConnect, SubmitConfig, SubmitPlain, Submit,
                  DeviceStep, threadVars, channelVars, consoleVars
    <2>2. ReportsIn(aoQueue') = {} => ReportsIn(aoQueue) = {}
      BY <1>1, <1>5, OtherMessages DEF Quiet
    <2> QED BY <1>0, <2>1, <2>2 DEF StatusesFollowReports, RequestPending
  <1> QED BY <1>2, <1>3, <1>4, <1>5 DEF LiveStep

-----------------------------------------------------------------------------
(* The theorems.                                                           *)

LEMMA InitInv == Init => LinkInv
  <1> SUFFICES ASSUME Init PROVE LinkInv
    OBVIOUS
  <1> USE DEF Init, ChannelInit, RuntimeInit, ThreadInit, MngrInit, ConsoleInit
  <1>1. Len(aoQueue) = 1 /\ aoQueue[1].sig = "REFRESH_PORTS" /\ Len(uiQueue) = 0
    BY DEF Command
  <1>2. ReportsIn(aoQueue) = {} /\ StatusesIn(uiQueue) = {}
    BY <1>1 DEF ReportsIn, StatusesIn, StateSig, UpSig, DownSig
  <1>3. ReportsFollowLink /\ StatusesFollowReports
    BY <1>2 DEF ReportsFollowLink, ReportsTell, LinkState, StatusesFollowReports, StatusesTell
  <1>4. PacketsFollowUp(aoQueue, seen) /\ PacketsAreOfOneConnection
    BY <1>1 DEF PacketsFollowUp, PacketsAreOfOneConnection
  <1>5. LinkCoherent /\ NoSleepOnRequests /\ BytesAreLive /\ ((cur = NoEvt) <=> (pc # "dispatch"))
    BY DEF LinkCoherent, NoSleepOnRequests, BytesAreLive
  <1> QED BY <1>3, <1>4, <1>5 DEF LinkInv

LEMMA StepInv == TypeOK /\ LinkInv /\ [Next]_vars => LinkInv'
  <1> SUFFICES ASSUME TypeOK, LinkInv, [Next]_vars, fault' = "none" PROVE LinkInv'
    BY DEF LinkInv
  <1>1. CASE fault = "none" /\ LiveStep
    BY <1>1, CoherenceStep, NoSleepStep, BytesStep, MessagesStep, StatusesStep DEF LinkInv
  <1>2. CASE UNCHANGED vars
    BY <1>2
    DEF vars, channelVars, runtimeVars, threadVars, consoleVars, LinkInv, LinkCoherent,
        NoSleepOnRequests, ReportsFollowLink, LinkState, StatusesFollowReports, RequestPending,
        PacketsAreOfOneConnection, BytesAreLive
  <1> QED BY <1>1, <1>2 DEF Next, Aborted, LiveStep

(* The inductive invariant holds of every behaviour.                       *)
THEOREM LinkInvariant == Spec => []LinkInv
  <1>1. Init => TypeOK /\ LinkInv
    BY InitType, InitInv
  <1>2. (TypeOK /\ LinkInv) /\ [Next]_vars => (TypeOK /\ LinkInv)'
    BY StepType, StepInv
  <1> QED BY <1>1, <1>2, PTL DEF Spec

(* Once everything sent has been handled the status bar shows whether the  *)
(* port is open, whatever the capacities and however the threads of sp_mngr*)
(* and sp_thread interleave with the user, the device and each other.      *)
THEOREM StatusBarIsTrue == Spec => []SettledStatusIsTrue
  <1>1. LinkInv => SettledStatusIsTrue
    BY DEF LinkInv, SettledStatusIsTrue, ReportsFollowLink, ReportsTell,
           StatusesFollowReports, StatusesTell
  <1> QED BY <1>1, LinkInvariant, PTL

(* Connected means: a port, a wait object and an applied configuration; so *)
(* the assertion of sm_sp_thread.c:188 never fails.                        *)
THEOREM LinkIsCoherent == Spec => []LinkCoherent
  <1>1. LinkInv => LinkCoherent
    BY DEF LinkInv, LinkCoherent
  <1> QED BY <1>1, LinkInvariant, PTL

(* A packet never mixes bytes of two connections or configurations.        *)
THEOREM PacketsAreLive == Spec => []PacketsAreOfOneConnection
  <1>1. LinkInv => PacketsAreOfOneConnection
    BY DEF LinkInv, PacketsAreOfOneConnection
  <1> QED BY <1>1, LinkInvariant, PTL

(* SpMngr is given packets only between an up and a down report.           *)
THEOREM PacketsWhileUp == Spec => []PacketsOnlyWhileUp
  <1>1. TypeOK /\ LinkInv => PacketsOnlyWhileUp
    <2> SUFFICES ASSUME TypeOK, LinkInv, fault = "none", aoQueue # <<>>,
                        Head(aoQueue).sig = "RX_PACKET"
                 PROVE  seen = "CONNECTED"
      BY DEF PacketsOnlyWhileUp
    <2>1. 1 \in 1..Len(aoQueue) /\ aoQueue[1].sig = "RX_PACKET"
      BY TailOfSeq DEF TypeOK, ChannelTypeOK
    <2>2. \A j \in ReportsIn(aoQueue) : ~(j < 1)
      BY DEF ReportsIn
    <2> QED BY <2>1, <2>2 DEF LinkInv, PacketsFollowUp
  <1> QED BY <1>1, TypeCorrect, LinkInvariant, PTL

(* SpThread never goes to sleep on a request without its wake set.         *)
THEOREM RequestsWakeTheThread == Spec => []NoSleepOnRequests
  <1>1. LinkInv => NoSleepOnRequests
    BY DEF LinkInv, NoSleepOnRequests
  <1> QED BY <1>1, LinkInvariant, PTL
=============================================================================
