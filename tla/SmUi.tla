-------------------------------- MODULE SmUi --------------------------------
(***************************************************************************)
(* The state machine of the user interface (hsm/sm_ui.c) with its menu and *)
(* keybar: which of the two screens takes the keys, what each event redraws*)
(* and when it asks the thread for a frame.  What the composer, the text   *)
(* view and the catalogues do with an event is in InputCmpsMngr,           *)
(* TextBufferView and CatalogLink; here an event only leaves their planes  *)
(* redrawn or not.                                                         *)
(***************************************************************************)
EXTENDS SelectionViewport

CONSTANT Sizes     (* of the terminal                                       *)

VARIABLES
  mode,   (* the state of the machine                                       *)
  menu,   (* widgets/menu.c: visible, selected item, first item in view     *)
  hints,  (* the screen whose keys the keybar names                         *)
  active, (* the composer takes keys and shows its cursor                   *)
  laid,   (* the terminal size the planes are laid out for                  *)
  dirty,  (* view->dirty: the text is newer than its plane                  *)
  host,   (* UI_HostState: what the machine asked of its thread             *)
  unseen  (* history: a plane has been redrawn since the last frame         *)

ui == <<mode, menu, hints, active, laid, dirty, host, unseen>>

Items == 4         \* MENU_NUM_ITEMS_; MENU_VISIBLE_ITEMS_ is the same

(* The signals of the router, in the classes the two screens tell apart.   *)
DownSigs == {"DOWN", "CTRL_N", "J"}
UpSigs   == {"UP", "CTRL_P", "K"}
PageSigs == {"PGUP", "PGDN"}
EditSigs == {"LEFT", "RIGHT", "CTRL_LEFT", "CTRL_RIGHT", "BACKSPACE", "CTRL_U", "CTRL_W",
             "HOME", "END", "TAB"}
KeySigs  == DownSigs \cup UpSigs \cup PageSigs \cup EditSigs
              \cup {"ESC", "CTRL_SLASH", "ENTER", "INPUT"}

(* The events of the other threads: UI_TIMER_SIG, UI_TEXT_SIG, ...         *)
EventSigs == {"TIMER", "TEXT", "PORTS", "PROTOCOLS", "LOADED", "STATUS"}
Signals   == KeySigs \cup EventSigs \cup {"RESIZE"}

-----------------------------------------------------------------------------
(* The menu                                                                *)

NoMenu == [visible |-> FALSE, sel |-> 0, first |-> 0]
Shown  == [visible |-> TRUE, sel |-> 0, first |-> 0]
Hide(m) == [m EXCEPT !.visible = FALSE, !.first = 0]

Select(m, i) == [m EXCEPT !.sel = i, !.first = Update(m.first, i, Items, Items)]

SelectNext(m) == Select(m, IF m.sel >= Items - 1 THEN 0 ELSE m.sel + 1)
SelectPrev(m) == Select(m, IF m.sel = 0 THEN Items - 1 ELSE m.sel - 1)

(* Menu_syncLayout.                                                        *)
SyncLayout(m) == IF m.visible THEN m ELSE Hide(m)

Action(m) == <<"resume", "clear", "about", "quit">>[m.sel + 1]

-----------------------------------------------------------------------------
(* What a handler leaves behind: planes or text changed, a frame requested.*)

RequestFrame == host' = [host EXCEPT !.frame = TRUE]
Redrawn      == unseen' = TRUE
NewText      == dirty' = TRUE

(* Entering a screen; leaving the menu.                                    *)
EnterMenu == mode' = "showMenu" /\ active' = FALSE /\ menu' = Shown /\ hints' = "menu"
EnterMain == mode' = "showMain" /\ active' = TRUE
LeaveMenu == menu' = Hide(menu) /\ hints' = "main"

OpenMenu ==
  /\ EnterMenu /\ Redrawn /\ RequestFrame
  /\ UNCHANGED <<laid, dirty>>

CloseMenu ==
  /\ LeaveMenu /\ EnterMain /\ Redrawn /\ RequestFrame
  /\ UNCHANGED <<laid, dirty>>

(* SM_UI_showMain_: the composer takes the key; it may submit or reject a  *)
(* command (status, text) and grow or shrink (text).                       *)
ComposerKey ==
  /\ Redrawn /\ RequestFrame
  /\ dirty' \in {dirty, TRUE}
  /\ UNCHANGED <<mode, menu, hints, active, laid>>

Scroll ==
  /\ NewText /\ RequestFrame
  /\ UNCHANGED <<mode, menu, hints, active, laid, unseen>>

InMain(sig) ==
  /\ mode = "showMain"
  /\ \/ sig = "CTRL_SLASH" /\ OpenMenu
     \/ sig \in PageSigs /\ Scroll
     \/ sig \in KeySigs \ (PageSigs \cup {"CTRL_SLASH"}) /\ ComposerKey

(* SM_UI_showMenu_.                                                        *)
MoveTo(m) ==
  /\ menu' = m
  /\ Redrawn /\ RequestFrame
  /\ UNCHANGED <<mode, hints, active, laid, dirty>>

Choose ==
  /\ dirty' = (dirty \/ Action(menu) \in {"clear", "about"})
  /\ host' = [quit |-> host.quit \/ Action(menu) = "quit", frame |-> TRUE]
  /\ LeaveMenu /\ EnterMain /\ Redrawn
  /\ UNCHANGED laid

InMenu(sig) ==
  /\ mode = "showMenu"
  /\ \/ sig \in DownSigs /\ MoveTo(SelectNext(menu))
     \/ sig \in UpSigs /\ MoveTo(SelectPrev(menu))
     \/ sig = "ENTER" /\ Choose
     \/ sig \in {"CTRL_SLASH", "ESC"} /\ CloseMenu
     \/ sig \in PageSigs \cup EditSigs \cup {"INPUT"} /\ UNCHANGED ui

(* SM_UI_active_: on either screen.                                        *)
HintsFor(m) == IF m.visible THEN "menu" ELSE "main"

SyncMenu ==
  /\ menu' = SyncLayout(menu) /\ hints' = HintsFor(menu)
  /\ Redrawn /\ RequestFrame
  /\ UNCHANGED <<mode, active, laid, dirty>>

(* SM_UI_mainBuffer_pushText_.                                             *)
Text ==
  /\ NewText /\ RequestFrame
  /\ UNCHANGED <<mode, menu, hints, active, laid, unseen>>

(* A new list may also redraw the suggestions.                             *)
Lists ==
  /\ NewText /\ RequestFrame
  /\ unseen' \in {unseen, TRUE}
  /\ UNCHANGED <<mode, menu, hints, active, laid>>

Status ==
  /\ Redrawn /\ RequestFrame
  /\ UNCHANGED <<mode, menu, hints, active, laid, dirty>>

Always(sig) ==
  \/ sig = "TIMER" /\ UNCHANGED ui
  \/ sig = "RESIZE" /\ SyncMenu
  \/ sig = "TEXT" /\ Text
  \/ sig \in {"PORTS", "PROTOCOLS"} /\ Lists
  \/ sig \in {"LOADED", "STATUS"} /\ Status

(* SM_UI_dispatchEvt.                                                      *)
Dispatch(sig) == InMain(sig) \/ InMenu(sig) \/ Always(sig)

-----------------------------------------------------------------------------
(* Called by the thread                                                    *)

(* Slip: the keybar forgets the menu when it is resized.                   *)
ResizePlanesToMain(size) ==
  /\ laid' = size
  /\ menu' = SyncLayout(menu) /\ hints' = "main"
  /\ NewText /\ Redrawn /\ RequestFrame
  /\ UNCHANGED <<mode, active>>

(* The resize callbacks of the planes, in the order notcurses calls them.  *)
ResizePlanes(size) ==
  /\ laid' = size
  /\ menu' = SyncLayout(menu) /\ hints' = HintsFor(menu)
  /\ NewText /\ Redrawn /\ RequestFrame
  /\ UNCHANGED <<mode, active>>

(* SM_UI_flush and SM_UI_setup (its widgets, then the entry of showMain).  *)
Flush ==
  /\ dirty' = FALSE /\ unseen' = (unseen \/ dirty)
  /\ UNCHANGED <<mode, menu, hints, active, laid, host>>

Setup ==
  /\ mode = "showMain" /\ menu = NoMenu /\ hints = "main" /\ active = TRUE
  /\ laid \in Sizes
  /\ dirty = FALSE
  /\ host = [quit |-> FALSE, frame |-> TRUE]
  /\ unseen = TRUE

-----------------------------------------------------------------------------

UiTypeOK ==
  /\ mode \in {"showMain", "showMenu"} /\ hints \in {"main", "menu"} /\ active \in BOOLEAN
  /\ menu \in [visible : BOOLEAN, sel : 0..(Items - 1), first : {0}]
  /\ laid \in Sizes /\ dirty \in BOOLEAN /\ unseen \in BOOLEAN
  /\ host \in [quit : BOOLEAN, frame : BOOLEAN]

(* What is shown is what takes the keys: the menu is on screen, the keybar *)
(* names its keys and the composer has no cursor exactly while SM_UI is in *)
(* showMenu, whatever was chosen, closed, resized or rendered in between.  *)
ScreenTakesKeys ==
  /\ menu.visible <=> mode = "showMenu"
  /\ hints = HintsFor(menu)
  /\ active <=> mode = "showMain"
=============================================================================
