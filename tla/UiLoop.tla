------------------------------- MODULE UiLoop -------------------------------
(***************************************************************************)
(* The thread of the user interface (thread/ui.c): one loop that waits for *)
(* events, keys and the time of the next frame, dispatches what there is to*)
(* SM_UI and renders at most one frame in UI_FRAME_MS_.  The terminal may  *)
(* be resized at any time; notcurses tells so with a key, and applies the  *)
(* new size to the planes when it refreshes or renders (external).  The    *)
(* inbox is the one of WakeInbox, seen as the channel it implements.       *)
(***************************************************************************)
EXTENDS SmUi, SequencesExt

CONSTANTS
  Keys,     (* what the user types: [id, mods]                              *)
  Events,   (* what the other threads post, of EventSigs                    *)
  Batch,    (* UI_INPUT_BATCH_SIZE_                                         *)
  MaxInbox, (* bound: the other threads post no event beyond this many      *)
  MaxTyped, (* bound: unread terminal input                                 *)
  Fails     (* whether the calls that may fail do, and the terminal closes  *)

ASSUME UiLoopAssumption ==
  /\ Events \subseteq EventSigs
  /\ Batch \in Nat \ {0} /\ MaxInbox \in Nat /\ MaxTyped \in Nat
  /\ Fails \in BOOLEAN

VARIABLES
  at,       (* where the thread is in UI_run                                *)
  ready,    (* waitReady                                                    *)
  canRender,(* frameClock.canRender                                         *)
  timeout,  (* frameClock.pollTimeout: 0, a part of a frame, or -1          *)
  due,      (* UI_FRAME_MS_ have passed since lastRenderMs                  *)
  resizing, (* UI_resizePending_                                            *)
  closed,   (* NCKEY_EOF has been read                                      *)
  inbox,    (* UI_eventInbox_: the events not yet dispatched                *)
  wake,     (* its wake                                                     *)
  typed,    (* the terminal input not yet read                              *)
  size      (* the terminal's                                               *)

loop == <<at, ready, canRender, timeout, due, resizing, closed>>
env  == <<inbox, wake, typed, size>>
vars == <<ui, loop, env>>

Resize == [id |-> "resize", mods |-> {}]
Eof    == [id |-> "eof", mods |-> {}]

-----------------------------------------------------------------------------
(* UI_InputRouter_route: the first test that succeeds decides.             *)

Route(k) ==
  LET ctrl == "ctrl" \in k.mods
  IN  CASE k.id = "escape" -> "ESC"
        [] k.id = "0x1F" \/ (k.id = "/" /\ ctrl) -> "CTRL_SLASH"
        [] k.id \in {"LEFT", "RIGHT"} /\ ctrl -> IF k.id = "LEFT" THEN "CTRL_LEFT" ELSE "CTRL_RIGHT"
        [] k.id \in {"UP", "DOWN", "LEFT", "RIGHT", "BACKSPACE", "HOME", "END", "TAB", "ENTER",
                     "PGUP", "PGDN"} -> k.id
        [] k.id = "0x15" \/ (k.id \in {"u", "U"} /\ ctrl) -> "CTRL_U"
        [] k.id = "0x17" \/ (k.id \in {"w", "W"} /\ ctrl) -> "CTRL_W"
        [] k.id = "j" /\ k.mods = {} -> "J"
        [] k.id = "k" /\ k.mods = {} -> "K"
        [] k.id = "0x0E" \/ (k.id \in {"n", "N"} /\ ctrl) -> "CTRL_N"
        [] k.id = "0x10" \/ (k.id \in {"p", "P"} /\ ctrl) -> "CTRL_P"
        [] k.id = "resize" -> "RESIZE"
        [] OTHER -> "INPUT"

-----------------------------------------------------------------------------
(* The loop                                                                *)

(* UI_init: notcurses takes the terminal's size, SM_UI draws itself.       *)
Init ==
  /\ Setup /\ size = laid
  /\ at = "tick" /\ ready = {} /\ canRender = FALSE /\ timeout = "none" /\ due = TRUE
  /\ resizing = FALSE /\ closed = FALSE
  /\ inbox = <<>> /\ wake = FALSE /\ typed = <<>>

Goto(place) == at' = place

(* Slip: the frame's deadline does not bound the wait.                     *)
TickUnbounded ==
  /\ at = "tick" /\ ~host.quit
  /\ canRender' = (host.frame /\ due)
  /\ timeout' = IF host.frame /\ due THEN "zero" ELSE "none"
  /\ Goto("wait")
  /\ UNCHANGED <<ui, env, ready, due, resizing, closed>>

(* Slip: the wake is consumed once all is dispatched, on the way to sleep. *)
TickConsuming ==
  /\ at = "tick" /\ ~host.quit
  /\ canRender' = (host.frame /\ due)
  /\ timeout' = CASE ~host.frame -> "none" [] due -> "zero" [] OTHER -> "part"
  /\ wake' = FALSE
  /\ Goto("wait")
  /\ UNCHANGED <<ui, inbox, typed, size, ready, due, resizing, closed>>

(* FrameClock_tick_.                                                       *)
Tick ==
  /\ at = "tick" /\ ~host.quit
  /\ canRender' = (host.frame /\ due)
  /\ timeout' = CASE ~host.frame -> "none" [] due -> "zero" [] OTHER -> "part"
  /\ Goto("wait")
  /\ UNCHANGED <<ui, env, ready, due, resizing, closed>>

(* The loop's condition, and every break.                                  *)
Quit ==
  /\ at = "tick" /\ host.quit
  /\ Goto("ended")
  /\ UNCHANGED <<ui, env, ready, canRender, timeout, due, resizing, closed>>

Fail ==
  /\ Fails
  /\ at \in {"tick", "wait", "consume", "read", "refresh", "render"}
  /\ Goto("ended")
  /\ UNCHANGED <<ui, env, ready, canRender, timeout, due, resizing, closed>>

Sources == {s \in {"event", "terminal"} :
              (s = "event" /\ wake) \/ (s = "terminal" /\ typed # <<>>)}

(* UI_ThreadWake_wait: a source is ready, or it times out.                 *)
Wait ==
  /\ at = "wait"
  /\ Sources # {} \/ timeout = "zero" \/ (timeout = "part" /\ due)
  /\ ready' = Sources
  /\ Goto(IF "event" \in Sources THEN "consume" ELSE "dispatch")
  /\ UNCHANGED <<ui, env, canRender, timeout, due, resizing, closed>>

Interrupted ==
  /\ at = "wait"
  /\ Goto("tick")
  /\ UNCHANGED <<ui, env, ready, canRender, timeout, due, resizing, closed>>

ConsumeWake ==
  /\ at = "consume"
  /\ wake' = FALSE
  /\ Goto("dispatch")
  /\ UNCHANGED <<ui, inbox, typed, size, ready, canRender, timeout, due, resizing, closed>>

(* UI_dispatchPendingEvents_ runs in three places.                         *)
Dispatching == at \in {"dispatch", "dispatchKeys", "dispatchLate"}

DispatchOne ==
  /\ Dispatching /\ inbox # <<>>
  /\ Dispatch(Head(inbox))
  /\ inbox' = Tail(inbox)
  /\ UNCHANGED <<loop, wake, typed, size>>

Dispatched ==
  /\ Dispatching /\ inbox = <<>>
  /\ Goto(CASE at = "dispatch" -> IF "terminal" \in ready THEN "read" ELSE "dispatchLate"
            [] at = "dispatchKeys" -> IF closed THEN "ended" ELSE "read"
            [] at = "dispatchLate" -> IF canRender THEN "refresh" ELSE "tick")
  /\ UNCHANGED <<ui, env, ready, canRender, timeout, due, resizing, closed>>

(* UI_drainTerminalInput_ reads a batch and routes it, up to an NCKEY_EOF. *)
ReadKeys ==
  /\ at = "read" /\ typed # <<>>
  /\ LET n    == Min({Batch, Len(typed)})
         eof  == SelectInSeq(SubSeq(typed, 1, n), LAMBDA k : k = Eof)
         read == SubSeq(typed, 1, IF eof = 0 THEN n ELSE eof - 1)
     IN  /\ inbox' = inbox \o [i \in DOMAIN read |-> Route(read[i])]
         /\ resizing' = (resizing \/ Contains(read, Resize))
         /\ closed' = (eof # 0)
         /\ typed' = SubSeq(typed, n + 1, Len(typed))
  /\ Goto("dispatchKeys")
  /\ UNCHANGED <<ui, wake, size, ready, canRender, timeout, due>>

ReadNone ==
  /\ at = "read" /\ typed = <<>>
  /\ Goto("dispatchLate")
  /\ UNCHANGED <<ui, env, ready, canRender, timeout, due, resizing, closed>>

(* The frame: notcurses_refresh when a resize was seen ...                 *)
Refresh ==
  /\ at = "refresh" /\ resizing
  /\ Goto("flush")
  /\ IF laid = size
     THEN /\ host' = [host EXCEPT !.frame = FALSE]
          /\ UNCHANGED <<mode, menu, hints, active, laid, dirty, unseen>>
     ELSE ResizePlanes(size)
  /\ resizing' = FALSE
  /\ UNCHANGED <<env, ready, canRender, timeout, due, closed>>

NoRefresh ==
  /\ at = "refresh" /\ ~resizing
  /\ Goto("flush")
  /\ host' = [host EXCEPT !.frame = FALSE]
  /\ UNCHANGED <<mode, menu, hints, active, laid, dirty, unseen>>
  /\ UNCHANGED <<env, ready, canRender, timeout, due, resizing, closed>>

(* ... SM_UI_flush ...                                                     *)
FlushText ==
  /\ at = "flush"
  /\ Flush
  /\ Goto("render")
  /\ UNCHANGED <<env, ready, canRender, timeout, due, resizing, closed>>

(* Slip: the request is dropped when the frame is done, with what was      *)
(* asked for meanwhile.                                                    *)
RenderForgetting ==
  /\ at = "render"
  /\ laid' = size
  /\ IF laid = size
     THEN UNCHANGED <<menu, hints, dirty>>
     ELSE menu' = SyncLayout(menu) /\ hints' = HintsFor(menu) /\ NewText
  /\ host' = [host EXCEPT !.frame = FALSE]
  /\ unseen' = FALSE
  /\ due' \in BOOLEAN
  /\ Goto("tick")
  /\ UNCHANGED <<mode, active, env, ready, canRender, timeout, resizing, closed>>

(* ... and notcurses_render, which looks at the terminal's size again; the *)
(* frame's time is that of the tick, which may be long ago.                *)
Render ==
  /\ at = "render"
  /\ laid' = size
  /\ IF laid = size
     THEN UNCHANGED <<menu, hints, dirty, host>>
     ELSE menu' = SyncLayout(menu) /\ hints' = HintsFor(menu) /\ NewText /\ RequestFrame
  /\ unseen' = FALSE
  /\ due' \in BOOLEAN
  /\ Goto("tick")
  /\ UNCHANGED <<mode, active, env, ready, canRender, timeout, resizing, closed>>

Step ==
  \/ Tick \/ Quit \/ Wait \/ ConsumeWake \/ DispatchOne \/ Dispatched
  \/ ReadKeys \/ ReadNone \/ Refresh \/ NoRefresh \/ FlushText \/ Render

-----------------------------------------------------------------------------
(* Time, the user and the other threads                                    *)

Elapse ==
  /\ ~due /\ due' = TRUE
  /\ UNCHANGED <<ui, env, at, ready, canRender, timeout, resizing, closed>>

Type(k) ==
  /\ Len(typed) < MaxTyped /\ ~Contains(typed, Eof)
  /\ typed' = Append(typed, k)
  /\ UNCHANGED <<ui, loop, inbox, wake, size>>

ResizeTerminal ==
  /\ Len(typed) < MaxTyped /\ ~Contains(typed, Eof)
  /\ \E s \in Sizes \ {size} : size' = s
  /\ typed' = Append(typed, Resize)
  /\ UNCHANGED <<ui, loop, inbox, wake>>

Post(sig) ==
  /\ Len(inbox) < MaxInbox
  /\ inbox' = Append(inbox, sig) /\ wake' = TRUE
  /\ UNCHANGED <<ui, loop, typed, size>>

Others ==
  /\ at # "ended"
  /\ \/ Elapse
     \/ \E k \in Keys : Type(k)
     \/ Fails /\ Type(Eof)
     \/ ResizeTerminal
     \/ \E sig \in Events : Post(sig)

Next == Step \/ Fail \/ Interrupted \/ Others

Spec == Init /\ [][Next]_vars

(* The thread keeps running, time passes, and neither the other threads nor*)
(* the user is for ever ahead of it: once it dispatches, its inbox is empty*)
(* at some time, and it finds it so; once it reads, it comes to read when  *)
(* nothing is typed.  A signal does not interrupt every wait.              *)
KeepsUp ==
  /\ Dispatching ~> (inbox = <<>>)
  /\ (at = "read") ~> (at = "read" /\ typed = <<>>)

Fairness ==
  /\ WF_vars(Step)
  /\ WF_vars(Elapse)
  /\ SF_vars(Wait) /\ SF_vars(Dispatched) /\ SF_vars(ReadNone)

FairSpec == Spec /\ Fairness /\ KeepsUp

-----------------------------------------------------------------------------
\* Properties

TypeOK ==
  /\ UiTypeOK
  /\ at \in {"tick", "wait", "consume", "dispatch", "read", "dispatchKeys", "dispatchLate",
             "refresh", "flush", "render", "ended"}
  /\ ready \subseteq {"event", "terminal"}
  /\ canRender \in BOOLEAN /\ timeout \in {"none", "zero", "part"} /\ due \in BOOLEAN
  /\ resizing \in BOOLEAN /\ closed \in BOOLEAN
  /\ inbox \in Seq(Signals) /\ Len(inbox) <= MaxInbox + Batch
  /\ wake \in BOOLEAN /\ typed \in Seq(Keys \cup {Resize, Eof}) /\ size \in Sizes

(* The thread never sleeps on an event: one that is not dispatched has a   *)
(* wake.  It sleeps without a deadline only when the screen shows all      *)
(* there is: no plane or text newer than the last frame, no resize left    *)
(* unapplied, and the planes laid out for the terminal as it is unless the *)
(* key that tells of its new size is still to be read.                     *)
SleepsUpToDate ==
  at = "wait" =>
    /\ inbox # <<>> => wake
    /\ timeout = "none" =>
         /\ ~unseen /\ ~dirty /\ ~resizing
         /\ laid = size \/ Contains(typed, Resize)

(* A frame that is asked for is rendered, unless the loop ends: no flood of*)
(* requests postpones it, and no wait outlasts it.                         *)
FrameShown == unseen ~> (~unseen \/ at = "ended")
=============================================================================
