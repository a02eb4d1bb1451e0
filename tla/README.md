# TLA+ models and proofs of sm_tracer_tui

`sm_tracer_tui` is a terminal program that opens one serial port, receives
HDLC-framed trace packets, decodes them with a protocol description and shows
them as text. It is written in C99 around hierarchical state machines and
active objects (AOs), and runs four kinds of threads that share nothing but
event queues. This directory holds TLA+ modules translated from that code, the
TLC configurations that model-check them, and machine-checked proofs.

## 1. Inventory of the system

### Threads and how they talk

    terminal ──> UI thread (main) ──SST_Task_post──> SpMngr AO thread
                   ^    ^                              |        ^
                   |    └── UI inbox (512, mutex+wake)─┘        | SST_Task_post
                   |                                            | (queue of 128)
                frame clock                SpThread inbox (16) ─┼─> SpThread ── serial port
                                           (mutex + eventfd)  ──┘     poll(inbox, port)

| component (source) | state it keeps | operations | what is hard about it |
|---|---|---|---|
| UI thread loop (`ui/thread/ui.c`) | quit, frame and resize pending, frame clock | wait, drain inbox and terminal, dispatch, render | three wake sources, a frame requested while one is drawn, resize during input |
| UI inbox (`ui/thread/ui_evt.c`), SpThread inbox (`sp_thread/thread/sp_thread_evt.c`) | bounded queue under a mutex, a wake object | post (any thread), dequeue, consume the wake | lost wake-ups, the full queue aborts |
| UI state machine (`ui/hsm/sm_ui.c`) | serial configuration, status bar, port and protocol catalogues, viewport, menus | key and event handlers, command submission | keeps its configuration whatever SpMngr answers |
| input composer and suggestions (`ui/hsm/sm_input_cmps_mngr.c`, `ui/widgets/input_composer.c`) | text, tokens over it, cursor, candidates | insert, delete, move, accept, submit | token bounds under every edit |
| text viewport (`ui/widgets/text_buffer_view.c`) | line ring, scroll and selection | append, scroll, resize | eviction while scrolled |
| SpMngr AO (`aos/sp_mngr/sp_mngr.c`) | none of the connection; parser, loaded protocol | turn commands into SpThread requests, reports into notices | order of messages over three queues |
| HDLC parser (`aos/sp_mngr/hdlc_parser.c`) | parse state, payload, checksum | input of one byte | escapes, restart, overflow, stays mid-frame between connections |
| protocol catalogue, decoder, formatter (`aos/sp_mngr/protocol_*.c`) | parsed JSON description | load, decode a record, format | bounds of the record against the description |
| SpThread loop (`sp_thread/thread/sp_thread.c`) | wait set, receive assembler, state machine | poll, drain, lose, read, idle timeout | what the poll reported is used after the port may have changed |
| SpThread state machine (`sp_thread/hsm/sm_sp_thread.c`) | disconnected or connected | open, apply, close, refresh, lost | every path must report exactly once |
| serial port runtime (`sp_thread/thread/serial_port_runtime.c`) | descriptor, event set, applied configuration, failure reason | open, reconfigure, close, read, list | partial failure must release everything |
| receive assembler (`sp_thread/thread/rx_packet_assembler.c`) | buffer of 1024 bytes, time of the last byte | feed, idle timeout, reset | boundary of the buffer, timeout racing new bytes |
| SST port (`ports/sst`, `bsp/bsp.c`, `aos/aos.c`) | AO queues (16, 128), event pools (16, 129, 17), critical section, start barrier | post, allocate, garbage-collect, tick | reference counts, start-up order, exhaustion aborts |
| platform ports (`ports/platform`, `ports/terminal_input`, `ports/filesystem`, `ports/serial_port`) | OS objects | wake, barrier, wait set, raw terminal, directory scan | POSIX and Win32 variants |

A violated contract (`DBC_REQUIRE`, `DBC_ASSERT`) ends in
`DBC_fault_handler` (`bsp.c:103`), which aborts the process: the models have a
state for it, reached by posting to a full queue.

### What makes each part correct

* Serial link: the status bar settles on the truth about the port; every
  request is answered; a hang-up is noticed, and only of the port that hung
  up; no packet mixes bytes of two connections.
* Inboxes: nothing posted is lost, reordered or slept on.
* Runtime: whatever step of open, reconfigure or close fails, exactly the
  resources of an open port, or none, remain held.
* Assembler: the packets are the bytes fed, in order, none lost or doubled.
* HDLC parser: every well-formed frame is delivered, nothing else is.
* Input editor: tokens stay disjoint, ordered, inside the text and aligned
  with it under every edit; a submission contains what the tokens say.
* Viewport: the visible window is inside the stored lines after any append,
  eviction, scroll and resize.
* Event pools: an event is freed once, after its last reader.

## 2. How the project is built up

1. The serial link, the program's reason to exist: `SerialChannels`,
   `SerialPortRuntime`, `SpThread`, `SpMngr`, `SerialConsole`, composed by
   `SerialLink`; proofs in `SerialLinkProofs`.
2. Below it, one level finer: `WakeInbox` (post and wait, instruction by
   instruction, implementing the abstract `EventChannel`), `PortResources` (the
   steps of open, reconfigure and close, implementing the atomic runtime of 1,
   `RuntimeContract`), `RxPacketAssembler` (sizes and clock); proofs in
   `WakeInboxProofs`, `PortResourcesProofs` and `ReceivePathProofs`.
3. From bytes to text: `HdlcParser` (proofs in `ReceivePathProofs`),
   `ProtocolDecoder` (what a protocol file may say) and `ProtocolFrameFormatter`
   on top of it, `ProtocolCatalog` (the scan for such files), and `CatalogLink`,
   which composes lists, loads and frames between SpMngr and the UI; proofs in
   `CatalogLinkProofs`.
4. The user interface: `InputText` (a line and its edits) under `InputCmpsMngr`
   (the state machine over it), `ComposerView` (the line on the screen),
   `TextBufferView`, `SelectionViewport` under `CommandSuggestion` and under
   `SmUi` (both screens), and `UiLoop`, the thread that runs `SmUi`; proofs in
   `WidgetProofs` and `UiLoopProofs`.
5. The kernel side: `AoRuntime`, start-up, event pools, AO queues and posters,
   with proofs in `AoRuntimeProofs`.

The instances for TLC are in `MC` modules. Components that share no state are
checked side by side: the `MC` module has an instance of each and a variable,
chosen in the initial state, that says which of them moves in a behaviour
(`MCWidgets`, `MCFrames`, `MCCatalogLink`, `MCWakeInbox`; `MCUiLoop` and
`MCAoRuntime` do the same with two or three instances of one module). The others
stand still in an initial state, so the state space is the sum of the parts',
not their product. A component that has theorems is extended by its `MC` module,
so that a run evaluates its assumptions.

## 3. The models

### Serial link (`SerialChannels`, `SerialPortRuntime`, `SpThread`, `SpMngr`, `SerialConsole`, `SerialLink`)

Three threads and a device interleave; a step is what the code does between
two points where another thread could notice.

* `SerialChannels` holds the three queues: `aoQueue` (SpMngr's SST queue),
  `inbox` with its `wake` (SpThread's ring and eventfd), `uiQueue` (the UI
  inbox, for statuses and port lists only). A post to a full queue sets `fault`
  and the system stops, as `DBC_fault_handler` aborts. The initial `aoQueue`
  holds the refresh that `SpMngr_init_` posts to itself.
* `SpThread`: `pc` walks the body of `SpThread_run_`: `Poll` (rebind, wait),
  `ConsumeWake`, `Dequeue`/`Dispatch`/`DrainEnds`, `AfterDrain` (the hang-up and
  the second rebind), `ReadBytes`/`ReadNothing`/`ReadFails`, `EmitIdlePacket`/
  `NotIdleYet`. `Dispatch` has one action per state and signal of
  `sm_sp_thread.c`. What the poll answered stays in `ready` for the whole pass,
  as in the code.
* `SerialPortRuntime`: each operation as one step with the outcomes libserialport
  may give. Bytes are known only by `Origin`: received under the connection and
  configuration in force, or before.
* `SpMngr`: one action per message, with every post of its handler. It has no
  connection state; `seen`, an auxiliary variable, is what the last report said.
* `SerialConsole`: the UI's own configuration, kept whatever the answer, and the
  status bar. A protocol file named in the same command makes the UI post
  LOAD_PROTOCOL first (`sm_ui.c:815-821`); that message and the texts are left out.

### Inboxes (`EventChannel`, `WakeInbox`)

`WakeInbox` takes a post and a drain apart: lock, store, move `head`, count,
unlock, signal; wait, reset the wake, lock, take, unlock, again until empty.
Both inboxes are instances: SpThread's with `OwnInput = FALSE`, the UI's with
`OwnInput = TRUE`, where the UI thread may post terminal input to itself without a
wake (`UI_drainTerminalInput_`) and drains again. The run has the second, of which
the first is the behaviours without input; the proofs are for both. `EventChannel`
is what the link assumes of an inbox: a bounded FIFO that delivers.

### Runtime (`PortResources`, `RuntimeContract`)

`PortResources` has one action per library call of `SerialPortRuntime_open`,
`_reconfigure`, `_close` and `_listPorts`; each may fail. It keeps what
is held (port structs, open descriptors, event sets, the temporary pin
configuration, the port list), the five settings as they are on the device and
the two modem pins. `RuntimeContract` puts the operators of `SerialPortRuntime`
that the link uses into a specification of their own, which the steps refine:
the variables map to `eventSet`, `appliedConfig` and the reason answered.

### Receive path (`RxPacketAssembler`, `HdlcParser`)

`RxPacketAssembler` numbers the bytes read since a reset and drives feed, timeout
and reset through SpThread's loop. Time is `quiet = nowMs - latestRxMs`,
which is all the code uses; `Tick` advances it and counts down what the poll has
left to sleep, and may also pass while the thread works or oversleeps.

`HdlcParser` folds the eleven states into the field waited for and whether an
escape byte came before. The width of a byte is a constant; sum and counter
wrap with it. `MCHdlcParser` defines what a stretch of wire bytes means
recursively: unescape, cut by length fields, check the sum.

### The line the user edits (`InputText`, `InputCmpsMngr`, `ComposerView`)

`InputText` has the edits as operators on a line: bytes, cursor, and the tokens
that stand for accepted commands. `InputCmpsMngr` has one action per state and
signal of the manager's state machine: insertion of a code point, deletion of a
code point, word or token, moves, suggestions for the word under the cursor from
the commands or from the lists `SM_UI` lends, acceptance, and the submission
read off the tokens. The library of state machines (sm_hsm) is an empty
submodule: that a transition from a superstate's handler to one of its substates
is local is taken from how the handlers use it. Of the table of commands
(`sm_input_cmps_mngr.c:29-66`) the two modules assume what can be seen of it: token
texts are plain characters without white space, the character a token starts with is
in no name and not the slash, and one command connects. They assume besides that a
port's and a file's name are whole UTF-8 code points, which the code takes for
granted and the file system does not promise. `ComposerView` wraps the line
into rows, scrolls them, places the cursor and divides the terminal between text
view, composer and key bar; how code points join into clusters and how wide these
are is notcurses' answer, a constant.

### The text view (`TextBufferView`)

The ring of lines, the scroll offset counted from the newest line, the thumb and
what a frame draws; the history `written` is auxiliary.

### Protocols (`ProtocolCatalog`, `ProtocolDecoder`, `ProtocolFrameFormatter`, `CatalogLink`)

`ProtocolCatalog` scans a tree entry by entry into the buffer not in force while
the environment changes it; every call may fail. `ProtocolDecoder` checks a parsed
document field by field into the table not in use (recursively: a duplicate key
anywhere refuses it); `ProtocolFrameFormatter` formats a frame by the table in
use: a text is a sequence of pieces, what a number looks like is left out, which
number it is is not. `CatalogLink` has the two inboxes in order, the malloc'd
copies of the lists with their addresses (a `Buffers` address may come back after a
free), what the composer has borrowed, and under which protocol a frame is shown.

### The UI thread (`SmUi`, `UiLoop`)

`SmUi`: main screen and menu, who takes which key, which planes an event leaves
redrawn (`unseen`), the resize callbacks. `UiLoop`: one action per stretch of
`UI_run` between two points where another thread, the user or the terminal can
do something: frame clock, wait, wake, first drain, keys in batches,
second drain, refresh, flush, render; with `Fails`, each call that may fail does.
`UI_InputRouter_route` is the operator `Route`. Time is only whether a frame is
`due`.

### Suggestions and lists (`SelectionViewport`, `CommandSuggestion`)

The window above the composer: rows, columns, first candidate in view, as the list,
the composer and the terminal change.

### Start-up and the active objects (`AoRuntime`)

`main` and `SST_thread_` side by side up to the barrier; the pools with reference
counts; each AO's queue, semaphore and thread (wait, take, dispatch, collect), and
the two posters, the UI and SpThread, each of which allocates, fills and posts in
separate critical sections. A command of the UI's and a handler of SpThread's is
known by what it does to pools and queues. Sizes in the code: 129 blocks for
packets and port lists (a `SpMngrPortsEvt` fits them), 17 for configurations and
protocol paths (`SpMngrProtocolEvt` has 256 bytes and a header), 16 small ones
that nothing in the program allocates; queues of 16 and 128. 129 is 128 queued and
one dispatched, which `PoolOutlastsQueue` is about. A failed assertion aborts.

## 4. What the runs check

| run | instance | shows |
|---|---|---|
| `link_safety` | two ports, one wait object value reused by the OS, two commands under way | the status bar settles on the truth; state machine and runtime agree; packets are of one connection and come between up and down reports; no request is slept on |
| `link_liveness` | one port, settings the platform accepts and refuses (DTR/DSR on POSIX), one command under way | requests are answered, hang-ups noticed, through reconfigurations and their failure |
| `link_applied_port` | two ports, settings that do not parse | **violation**, section 7 |
| `link_lost_port` | two ports | **violation**, section 7 |
| `inbox` | a ring of 2, two posting threads and the UI's own input, two events; the UI's loop with one of each signal | refinement of `EventChannel` with its liveness, no lost wake; a requested frame is rendered or the loop ends |
| `frames` | *bytes*: bytes of two bits, all of them on the line, up to 12 after a flag | delivers exactly what the reference parse delivers; every frame of a target with up to one payload byte arrives |
| | *files*: about 150 files of up to two records, bytes of four values, frames of up to three | the table is one document's, the formatter's assertions hold, values are the payload (`FramesReadByTheFile`) |
| `assembler` | packets of 4, reads of up to 3, idle time 3, 9 bytes | order and conservation, deadlines, cuts only when full or quiet, every byte leaves |
| `resources` | two ports, three kinds of flow control, two wait objects, POSIX | no leak, line and pins as applied, refinement of `RuntimeContract` |
| `widgets` | *suggestions*: windows of up to 3 rows, terminals and lists around that | the selection is in view (`SelectedShown`) |
| | *text view*: ring of 4, six lines written, screens of 2 to 4 rows | the ring holds the newest lines and a drawn frame is current (`TextViewCurrent`); arriving text keeps the reader's place (`AppendKeepsPlace`) |
| | *composer*: up to four letters of one, two and no columns, three terminals | cursor and text are in view on whole cells, the panes tile the screen (`ComposerCurrent`) |
| | *line*: five bytes, a two-byte letter and a broken one, a command of each kind, two tokens, two ports | text, tokens, cursor and suggestions stay in step under every edit (`LineStands`); an acceptance replaces its word and nothing else (`AcceptReplacesWord`); a line is submitted exactly when it reads, word by word, as commands with their arguments (`SubmissionReads`) |
| `catalogs` | *lists*: two names, three addresses, two loads | no freed list is read, none leaks, both sides agree when idle (`ListsInForce`, `UiAgrees`); loads are answered (`LoadsAnswered`) |
| | *scan*: nine paths two levels deep, limits of 2 files and depth 1, two changes of the disk | a scan replaces the list only when complete, and lists what was there throughout (`CatalogIsASnapshot`) |
| `ui_loop` | menu keys, texts and statuses, two terminal sizes, all failures; and every key of the router with every other event | the thread never sleeps with something unshown, nor on an event; keys go to what is shown |
| `ao_runtime` | pools of 3 and 1, SpMngr's queue of 2 and the others of 1, three groups of commands, the tick in one of them | blocks are accounted for, tokens are events, nothing is used before it is ready, the pool outlasts the queue, the initial refresh comes back as ports |

### Bounds, and why they are enough

* Queues of 2 in the link, instead of 16, 128 and 512: two is where order
  matters and where a queue fills, so the abort is reached too; the UI's queue
  is 1 in the passing runs and 3 in the other two, and the theorems are for every
  length. The user stops at `MaxBacklog` waiting messages (2 in `link_safety`, 1 in
  `link_liveness`), reports and packets do not.
* One or two ports, one or two wait objects: reuse of a descriptor number after
  a switch needs two ports and a single wait object, which `LinkSafety.cfg` has.
* A ring of 2 makes `head` and `tail` wrap and meet in every offset, and fills with
  one event of each poster.
* A byte of two bits keeps the flag, the escape, both escaped forms and one
  plain value apart; 12 wire bytes hold two shortest frames with every byte
  escaped, or one longest frame.
* A packet of 4 and reads of 3 put packet ends before, at and after the end of
  a read; 9 bytes give two full packets and a rest.
* Lines of five bytes (`BufSize` 6 has the closing zero) hold two tokens, of one
  byte and of two, with a space before, between or behind them, or one token with an
  argument, and fill in the middle of an acceptance. Three tokens, and longer lists,
  are left to the theorems.
* The real limits of the scan (files, depth) are replaced by 2 and 1, so that they
  are met. Two changes of the disk are one before and one after any visit.
* In `UiLoop` an inbox of one foreign event and a batch of two keys leave every
  place of the loop with and without something to do; `MaxInbox` bounds only what
  others post, not what the loop posts to itself.
* Three addresses are one more than there are lists: the least at which a free and
  an allocation can return the same address.
* A pool of 3 for a queue of 2 is the code's 129 for 128: one more. The user's
  commands come in three groups to keep the run short; the theorems are for all of
  them together.

Deadlock is checked in every run. The models never stop, but for the abort and the
end of the UI's loop, which stutter.

## 5. Fairness

* Link: weak fairness of each thread's step, as the OS schedules runnable
  threads. None for the user or the device. The liveness properties
  assume besides (`PassesEnd`) that a pass of SpThread ends: its read loop
  runs as long as bytes keep arriving (`sp_thread.c:143-151`) and its drain as
  long as requests do, so a line that never pauses starves requests and
  hang-ups. This is a fact about the code, not about the model.
* `WakeInbox`: weak fairness of the consumer where it can go on (`Runnable`: it is
  not assumed that terminal input comes) and of every poster that has begun.
* `CatalogLink`: weak fairness of SpMngr's and of the UI's dispatch.
* `UiLoop`: weak fairness of the thread's step and of the clock; strong fairness of
  the waiting's answer and of the ends of a drain and of a read, which are
  choices between steps of the same thread. The run `inbox` assumes besides (`KeepsUp`) that
  producers and user do not post so steadily that a drain never finds the
  inbox empty: `UI_dispatchPendingEvents_` has no limit (`ui.c:83`), so without it
  the screen starves. Again a fact about the code.
* `AoRuntime`: weak fairness of the start-up threads, SpMngr's thread and SpThread;
  none of the user, the device, or the tick.
* `RxPacketAssembler`: weak fairness of the thread's steps, of waking once the
  poll's time is over, and of the clock.

## 6. What is proved

Each theorem holds for all constants that satisfy the modules' assumptions:
any sets of ports, settings, events and posters, any capacity, byte width,
packet size and idle time, any table of commands and any lists lent to the composer.

* **`SerialLinkProofs`**: `LinkInv` is inductive together with `TypeOK`. The
  status theorem needs two parts that are not visible in it: the last report in
  `aoQueue` (or the last handled) tells the state machine's state, and with no
  request under way the last status in `uiQueue` (or the one shown) tells the
  last report. The packet theorems need that each packet in the queue follows an
  up report and that past the drain the bound wait object is the open one.
  The step is split by thread, then by conjunct.
* **`WakeInboxProofs`**: `Holder` (mutual exclusion) gives `RingInv` (the ring
  between tail and head holds the accepted events), and `DrainedInv` carries
  the wake from the drain to the wait. The refinement of `EventChannel`
  maps the ring to a sequence; moving `head` is the abstract post.
* **`ReceivePathProofs`**: for the assembler type, order, `FeedInv` and deadline
  are inductive together; `CutInTwo` is the lemma on splitting an input at a
  packet's end.  For the parser, collected plus remaining bytes match the length
  field in every state (`CountInv`).
* **`PortResourcesProofs`**: `HeldInv` says what is held at each step; with
  `ReasonInv` it gives the refinement of `RuntimeContract`, by case on the step:
  all but the last of a call stutter. `DeviceInv` relates the device to the
  steps of `Programming` already taken (`todo` is a suffix of it, every setting
  before it is applied, the pins are shared out once flow control is set), which
  neither `LineIsApplied` nor `PinsParked` says.
* **`CatalogLinkProofs`**: neither `ListsInForce` nor `UiAgrees` speaks of what is
  on its way, so neither is inductive.  `HeapInv` says that the heap is the two
  lists in force, in buffers of their own, and that what is suggested is a sublist
  of one: a free can then hit neither, whatever address comes back.  `FramesInv`
  reads SM_UI's inbox to its end: `Stands` is the protocol that will stand in the
  status bar when an event is dispatched, and every frame on its way carries just
  that one, as does SpMngr's table behind the last event.  `ListInv` says the same
  of the newest list, and `LoadsInv` counts a load as answered, as an answer on its
  way or as a request on its way, which is what bounds the answers.  Posting and
  dispatching are lemmas about appending to a queue and taking its head.
  The scan (`CatalogStandsForTheDisk`) needs to know, in the middle of a tree that
  changes, what it has yet to come to: `ToCome` reads that off the open
  directories' remaining names.  `WayInv` has the open directories on the way to the
  innermost one; `FoundInv` that nothing listed comes again, so each path is listed
  once, and `CoverInv` that what was there throughout is listed or comes.  An entry
  takes what is found from it on out of `ToCome` (`EntryVisited`), entering it puts
  its own entries back (`DirectoryEntered`).  Of the disk the proof needs that
  nothing is below what is no directory (`DiskInv`), which every change keeps.
  `SortedIs` is that ranks sort.
* **`UiLoopProofs`**: `UiInv` is the type of `SmUi`'s state with `ScreenTakesKeys`,
  and holds under any dispatch.  That the thread sleeps with nothing new needs
  `InputInv` (what was posted without a wake is before a drain, and an `Eof` is last
  in what is typed), `FrameInv` (what is newer than the screen has a frame requested,
  or the loop is between request and rendering) and `SizeInv` (a new size is to be
  read, to be dispatched or to be rendered).  The loop reads keys in batches,
  whose end is the least of three; `MinIs`, that a set of numbers which is not
  empty has a least element, comes from the library's theorem on well-founded
  orders.
* **`WidgetProofs`**: `SuggestionInv` (the view is a window on the list, with the
  selection inside it) is inductive over every change of the list, the selection
  and the terminal.  For the text view, `RingInv` (types and `LinesAreNewest`) does
  not depend on what is drawn, and a push keeps it: line `n` of a text that
  wraps the ring any number of times lands `lineTotal + n - 1` slots behind the head,
  slots less than a ring apart differ (`ModDistinct`), so what is older survives and
  the last line to come to a slot is the one that stays (`StoredIs`).  `ScreenShows`
  is that a plane drawn from such a ring is the one it should be, with `ThumbWithin`
  for the arithmetic of the thumb; all but `Refresh` make the plane dirty, and
  `Refresh` leaves the offset it drew with.  `EveryRank` stands for the induction
  along a text: a finite set of numbers has an element of every rank, so each line
  has a start.
  For the line being edited, `LineStands` is inductive as it is, each part by the
  others.  An edit replaces bytes between two places of the line and moves every token
  and the cursor (`Relocated`); that tokens stay apart and keep their text needs that
  no such place cuts into a token; a deletion is widened to the tokens it touches.
  That an acceptance may put a token over its word needs that the suggested bytes are
  of no token, hence what is suggested now and not what once was
  (`SuggestionsCurrent`), and that a word with a token in it is no name's beginning,
  as the character a token starts with is in no name.
  `CodepointsWhole` is what keeps the cursor between code points, so that the next
  one is there to delete or to step over.  `AcceptReplacesWord` follows step by step.
  `SubmissionReads` follows from the invariant in every state: tokens sorted by their
  places are the words of the line that spell commands (`Spells`), the words between
  two of them are its arguments (`ArgumentsAre`), and the checks the handler makes on
  kinds and counts are those of the reading (`CommandsOnce`, `KindsCombineIs`).
  For its rows on the screen, `ComposerInv` adds to `ComposerInView` that the
  composer is as wide as the terminal lets it be and that the text view has the rows
  above it. The layout is a recursion along the text, written as two functions
  (columns so far, end of the text so far); that each exists and has its type comes
  from taking the least place where it would not (`Recursion`, `SumsAre`, `EndsAre`).
  From there the cursor's cell is within the columns (`CursorCellIs`), the
  view holds the cursor's row and leaves no row empty (`ViewedIs`), and a line drawn
  in the rows that are its due is as `ComposerInView` says (`ProjectedIs`), for any
  widths, joins, terminals and lengths. `ComposerCurrent` says besides that the cursor
  is on a whole cell, where what is joined to a code point takes no columns
  (`AccentsAreNarrow`): none or all of a cluster's columns are then before the cursor
  (`NoneOrAllBefore`). Without that it is false (section 7).
* **`AoRuntimeProofs`**: `RuntimeInv` with `TypeOK` and `TokensAreEvents` is
  inductive. `BootInv` ties what is ready to where `main` and `SST_thread_` are;
  `QuietInv` says that before SpMngr's state machine is initialised no thread has
  anything; `TaskInv` that an event is dispatched only between take and garbage
  collection, and which pool whose event is of; `BlockInv` where each block is.
  `BlocksAccounted` alone is not inductive: that a collected block may be freed
  needs that nothing else refers to it *and* that Blinky's events are static.
  The steps are first classified by what they do to the pools and queues
  (`StepKinds`), so each conjunct is proved for seven kinds, not thirty actions.
  `PoolOutlasts` follows by the pigeonhole principle from the blocks' places.

Some of what is proved is in no run's list, because an invariant in the list is
its consequence or the proof covers it for every instance: the inductive invariants
(`LinkInv`, `InboxInv`, `RuntimeInv`, `DeviceInv`, `Inv` of `CatalogLinkProofs` and of
`UiLoopProofs`, `ScanInv`, `TextInv`), most type invariants, the way the
suggestion window moves (`MovesLeast`) and its place on the screen
(`WithinTerminal`), and the platform that accepts DTR/DSR (`SupportsDtrDsr = TRUE`
in `PortResources`). TLC found no state against them when they were stated.

Model-checked only: all liveness (including that of `EventChannel` and
`LoadsAnswered`), which is out of the prover's reach; and what the parser delivers,
what the decoder accepts and what the formatter writes (`DeliversFrames`,
`FramesReadByTheFile`): their references are recursive operators, and a proof would be
by induction over the data.

## 7. Findings

* `link_applied_port`: after a rejected connect to a second port (the UI offers
  stop bits `1.5`, which `SpMngr_makeSerialConfig_` does not take), the next
  configuration names that port and is stored as applied for the first one's
  descriptor, against `serial_port_runtime_priv.h:38`. A later connect to the
  second port is then answered "already connected".
* `link_lost_port`: a hang-up polled on one port is acted on after the drain and
  closes the healthy port a queued switch has opened, where
  `tests/sp_thread_event_flow_test.c:320-345` expects a switch to leave the new
  port receiving.

Two assertions of the composer hold in its instance and not in every one; no run
shows their failure.

* `input_composer.c:54` asserts more columns than the prompt takes;
  `SM_UI_std_panelCols_` (`sm_ui.c:497`) leaves two in a terminal of six columns, and
  no caller checks. The `UsualTerminals` of `MCWidgets` are wider.
* `input_composer.c:232` asserts that the cursor's cell is not the right half of a
  wide cluster; the manager moves by code point (`sm_input_cmps_mngr.c:1165`), so a
  step into a two-column cluster of two one-column code points (a flag) would be
  one. `LetterJoined` joins only accents of no columns, and
  `ComposerCurrent` asks for a whole cell under `AccentsAreNarrow` alone.

## 8. Not modelled

* Cell drawing, colours, the title bar, wording of messages, raw terminal modes, and
  the operating system's threads and mutexes: pure I/O or foreign code. The JSON
  parser, notcurses, libserialport, sm_hsm and sm_sst are external: the modules say
  what the code relies on.
* What notcurses keeps of a plane that is resized and not drawn again (the status and
  title bars, `connection_status_bar.c:178`).
* Failures of start-up steps that return from `main`; the program then ends before
  anything runs.
* Windows differs from POSIX only in `SupportsDtrDsr` and in the resources behind a
  wait object; the Win32 file and terminal calls are not modelled.
* The parser is not reset between connections (`hdlc_parser.c:453` runs once);
  `ParsesTheWire` says that the next flag recovers it, and nothing says more.
* Running out of memory, which every caller asserts against.
