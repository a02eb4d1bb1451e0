----------------------------- MODULE CatalogLink -----------------------------
(***************************************************************************)
(* The two lists a user chooses from, serial ports and protocol files, and *)
(* the protocol in use, between SM_UI (ui/hsm/sm_ui.c) and SpMngr          *)
(* (aos/sp_mngr/sp_mngr.c).  SpMngr scans, loads and formats; SM_UI keeps  *)
(* a copy of each list, lends it to the composer, and shows under which    *)
(* protocol the texts of frames stand.  Each has an inbox in posting order.*)
(*                                                                         *)
(* What a scan finds and whether a file is a protocol are left open        *)
(* (ProtocolCatalog and ProtocolDecoder say more).                         *)
(***************************************************************************)
EXTENDS Naturals, Sequences, FiniteSets

CONSTANTS
  Names,      (* what the lists may hold                                    *)
  Buffers,    (* what malloc may return                                     *)
  None,       (* no buffer, no list and no protocol                         *)
  MaxInbox,   (* bound: events yet to dispatch when another is made         *)
  MaxLoads    (* bound: loads the user asks for                             *)

Kind == {"ports", "protocols"}

ASSUME LinkAssumption ==
  /\ None \notin Names \union Buffers
  /\ Cardinality(Buffers) > Cardinality(Kind)
  /\ {MaxInbox, MaxLoads} \subseteq Nat

VARIABLES
  spInbox,     (* SpMngr's queue                                            *)
  catalog,     (* the protocols of the last completed scan                  *)
  table,       (* the protocol in use by the formatter                      *)
  uiInbox,     (* the UI's event queue                                      *)
  heap,        (* the names in each live buffer                             *)
  available,   (* availablePortNames and availableProtocolPaths             *)
  lent,        (* the composer's portCatalog and protocolCatalog            *)
  candidates,  (* the suggestions on screen: of which list, pointing where  *)
  active,      (* activeProtocolPath                                        *)
  shown,       (* history: the last frame's text, and what it stood under   *)
  kept,        (* history: the protocols as the UI was last told, or could  *)
               (* not be                                                    *)
  asked, answered   (* history: loads                                       *)

spVars == <<catalog, table>>
uiVars == <<heap, available, lent, candidates, active>>
vars == <<spInbox, catalog, table, uiInbox, heap, available, lent, candidates, active, shown,
          kept, asked, answered>>

NoSuggestions == [kind |-> None, buffer |-> None, names |-> {}]

TypeOK ==
  /\ catalog \subseteq Names /\ {table, active} \subseteq Names \union {None}
  /\ DOMAIN heap \subseteq Buffers /\ \A b \in DOMAIN heap : heap[b] \subseteq Names
  /\ available \in [Kind -> Buffers \union {None}] /\ lent \in [Kind -> Buffers \union {None}]
  /\ candidates.names \subseteq Names
  /\ asked \in 0..MaxLoads /\ answered \in 0..MaxLoads

(* SpMngr_init_ posts itself both refreshes.                               *)
Init ==
  /\ spInbox = <<[type |-> "refresh", kind |-> "protocols"],
                 [type |-> "refresh", kind |-> "ports"]>>
  /\ catalog = {} /\ table = None
  /\ uiInbox = <<>>
  /\ heap = [b \in {} |-> {}]
  /\ available = [k \in Kind |-> None] /\ lent = [k \in Kind |-> None]
  /\ candidates = NoSuggestions
  /\ active = None
  /\ shown = [under |-> None, by |-> None]
  /\ kept = None
  /\ asked = 0 /\ answered = 0

-----------------------------------------------------------------------------
\* SpMngr

Next1(type) == spInbox # <<>> /\ Head(spInbox).type = type /\ spInbox' = Tail(spInbox)

Post(events) == uiInbox' = uiInbox \o events

Notice == [type |-> "notice"]
Answer == [type |-> "answer"]
ListEvt(kind, names) == [type |-> "list", kind |-> kind, names |-> names]

(* A slip for Packed: the list of the scan before is sent.                 *)
PackedBefore(found) == catalog
Packed(found) == found

(* SpMngr_refreshProtocols_: the scan may fail, and so may the buffer for  *)
(* its list.                                                               *)
RefreshProtocols ==
  /\ Next1("refresh") /\ Head(spInbox).kind = "protocols"
  /\ \/ \E found \in SUBSET Names :
          /\ catalog' = found
          /\ \/ Post(<<ListEvt("protocols", Packed(found))>>) /\ kept' = found
             \/ Post(<<Notice>>) /\ UNCHANGED kept
     \/ Post(<<Notice>>) /\ UNCHANGED <<catalog, kept>>
  /\ UNCHANGED <<table, uiVars, shown, asked, answered>>

(* SpThread is asked for the ports, and its answer comes back later        *)
(* (SerialLink has the way there).                                         *)
RefreshPorts ==
  /\ spInbox # <<>> /\ Head(spInbox) = [type |-> "refresh", kind |-> "ports"]
  /\ \E found \in (SUBSET Names) \union {None} :
       spInbox' = Append(Tail(spInbox), [type |-> "refreshed", names |-> found])
  /\ UNCHANGED <<spVars, uiInbox, uiVars, shown, kept, asked, answered>>

RefreshedPorts ==
  /\ Next1("refreshed")
  /\ IF Head(spInbox).names = None THEN Post(<<Notice>>)
     ELSE Post(<<ListEvt("ports", Head(spInbox).names)>>)
  /\ UNCHANGED <<spVars, uiVars, shown, kept, asked, answered>>

(* Slips for Loaded: SM_UI is not told of the protocol; the user is not    *)
(* told.                                                                   *)
LoadedUntold(name) == <<Answer>>
LoadedSilently(name) == <<[type |-> "loaded", name |-> name]>>

Loaded(name) == <<[type |-> "loaded", name |-> name], Answer>>

(* SpMngr_loadProtocol_: the name is looked up in SpMngr's own list, and   *)
(* the file need not be a protocol, nor be there any more.                 *)
LoadProtocol ==
  /\ Next1("load")
  /\ \/ /\ Head(spInbox).name \in catalog
        /\ table' = Head(spInbox).name
        /\ Post(Loaded(Head(spInbox).name))
     \/ Post(<<Answer>>) /\ UNCHANGED table
  /\ UNCHANGED <<catalog, uiVars, shown, kept, asked, answered>>

(* SpMngr_onHdlcFrame_.                                                    *)
OnHdlcFrame ==
  /\ Next1("packet")
  /\ Post(<<[type |-> "frame", by |-> table]>>)
  /\ UNCHANGED <<spVars, uiVars, shown, kept, asked, answered>>

SpMngrDispatch ==
  RefreshProtocols \/ RefreshPorts \/ RefreshedPorts \/ LoadProtocol \/ OnHdlcFrame

-----------------------------------------------------------------------------
\* SM_UI

UiNext(type) ==
  /\ uiInbox # <<>> /\ Head(uiInbox).type = type
  /\ uiInbox' = Tail(uiInbox)
  /\ UNCHANGED <<spInbox, catalog, table, asked, kept>>

(* The suggestions of a list are pointers into the buffer the composer was *)
(* lent.                                                                   *)
Suggested(kind, pointers, memory) ==
  IF pointers[kind] = None THEN NoSuggestions
  ELSE \* any of the names may match what was typed
       [kind |-> kind, buffer |-> pointers[kind], names |-> memory[pointers[kind]]]

(* A slip for CatalogUpdated: the suggestions of the list are left.        *)
CatalogUpdatedUnseen(kind, pointers, memory) == candidates

(* INPUT_CMPS_MNGR_ARGUMENT_CATALOG_UPDATED_SIG: suggestions on screen are *)
(* made again, whichever list was updated.                                 *)
CatalogUpdated(kind, pointers, memory) ==
  IF candidates = NoSuggestions THEN NoSuggestions
  ELSE Suggested(candidates.kind, pointers, memory)

(* A slip for Freed: the list before is kept.                              *)
FreedNever(memory, old) == memory
Freed(memory, old) == [b \in DOMAIN memory \ {old} |-> memory[b]]

(* SM_UI_updateAvailablePorts_ and SM_UI_updateAvailableProtocols_.        *)
UpdateAvailable ==
  /\ UiNext("list")
  /\ LET kind == Head(uiInbox).kind
         old == available[kind]
     IN  \E copy \in Buffers \ DOMAIN heap :
           LET memory == [b \in DOMAIN heap \union {copy} |->
                            IF b = copy THEN Head(uiInbox).names ELSE heap[b]]
           IN  /\ available' = [available EXCEPT ![kind] = copy]
               /\ lent' = [lent EXCEPT ![kind] = copy]
               /\ candidates' = CatalogUpdated(kind, lent', memory)
               /\ heap' = Freed(memory, old)
  /\ UNCHANGED <<active, shown, answered>>

(* SM_UI_protocolLoaded_.                                                  *)
ProtocolLoaded ==
  /\ UiNext("loaded")
  /\ active' = Head(uiInbox).name
  /\ UNCHANGED <<heap, available, lent, candidates, shown, answered>>

ShowFrame ==
  /\ UiNext("frame")
  /\ shown' = [under |-> active, by |-> Head(uiInbox).by]
  /\ UNCHANGED <<uiVars, answered>>

ShowAnswer ==
  /\ UiNext("answer")
  /\ answered' = answered + 1
  /\ UNCHANGED <<uiVars, shown>>

ShowNotice == UiNext("notice") /\ UNCHANGED <<uiVars, shown, answered>>

UiDispatch == UpdateAvailable \/ ProtocolLoaded \/ ShowFrame \/ ShowAnswer \/ ShowNotice

-----------------------------------------------------------------------------
\* The user and the serial line

Enqueue(event) ==
  /\ Len(spInbox) + Len(uiInbox) < MaxInbox
  /\ spInbox' = Append(spInbox, event)
  /\ UNCHANGED <<spVars, uiInbox, shown, kept, answered>>

(* SM_UI_submitCommand_; a name is chosen or typed.                        *)
SubmitLoad ==
  /\ asked < MaxLoads
  /\ asked' = asked + 1
  /\ candidates' = NoSuggestions
  /\ \E name \in Names : Enqueue([type |-> "load", name |-> name])
  /\ UNCHANGED <<heap, available, lent, active>>

SubmitRefresh ==
  /\ candidates' = NoSuggestions
  /\ \E kind \in Kind : Enqueue([type |-> "refresh", kind |-> kind])
  /\ UNCHANGED <<heap, available, lent, active, asked>>

Packet == Enqueue([type |-> "packet"]) /\ UNCHANGED <<uiVars, asked>>

ShowSuggestions ==
  /\ \E kind \in Kind : candidates' = Suggested(kind, lent, heap)
  /\ candidates' # candidates
  /\ UNCHANGED <<spInbox, spVars, uiInbox, heap, available, lent, active, shown, kept, asked,
                 answered>>

HideSuggestions ==
  /\ candidates # NoSuggestions /\ candidates' = NoSuggestions
  /\ UNCHANGED <<spInbox, spVars, uiInbox, heap, available, lent, active, shown, kept, asked,
                 answered>>

User == SubmitLoad \/ SubmitRefresh \/ ShowSuggestions \/ HideSuggestions

Next == SpMngrDispatch \/ UiDispatch \/ User \/ Packet

Spec == Init /\ [][Next]_vars

(* SST runs SpMngr while it has events, and the UI thread's loop runs      *)
(* while the UI has.                                                       *)
Fairness == WF_vars(SpMngrDispatch) /\ WF_vars(UiDispatch)
FairSpec == Spec /\ Fairness

-----------------------------------------------------------------------------
\* Properties

(* No suggestion is read from a list that was freed: what is on screen     *)
(* points into the list in force, and says what it says, also when         *)
(* malloc hands out the buffer of the list before the last again.          *)
SuggestionsLive ==
  /\ \A kind \in Kind : available[kind] # None => available[kind] \in DOMAIN heap
  /\ lent = available
  /\ candidates # NoSuggestions =>
       /\ candidates.buffer = lent[candidates.kind]
       /\ candidates.names \subseteq heap[candidates.buffer]

(* The same, and nothing but the lists in force is kept.                   *)
ListsInForce ==
  /\ TypeOK /\ SuggestionsLive
  /\ DOMAIN heap = {available[k] : k \in Kind} \ {None}

(* A frame's text stands under the name of the protocol it was formatted   *)
(* by, however loads, frames and refreshes are mixed.  Once everything was *)
(* dispatched, the status bar names the protocol in use, and the list of   *)
(* protocols is the last one SpMngr could send.                            *)
UiAgrees ==
  /\ shown.under = shown.by
  /\ (spInbox = <<>> /\ uiInbox = <<>>) =>
       /\ active = table
       /\ kept # None => heap[available["protocols"]] = kept

(* Every load asked for is answered, with the new protocol or a reason.    *)
LoadsAnswered == \A n \in 1..MaxLoads : (asked >= n) ~> (answered >= n)
=============================================================================
