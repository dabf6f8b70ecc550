# A verification development for nuklear_eve

nuklear_eve draws Nuklear user interfaces on the EVE graphics controllers
(FT800 to BT817). The repository holds a small Nuklear back end
(`src/src`), the ESD framework it runs in (`src/dependencies/esd_core`), the
hardware abstraction below that (`src/dependencies/eve_hal`), and vendored
libraries and board support.

An EVE chip has a graphics engine, which executes a display list for every
frame, and a coprocessor, which executes commands from a ring buffer in chip
memory and writes display lists. The host reaches both over a serial bus. All
the hard parts of this code follow from that: the host is slow to learn what the
chip does, so it caches what it believes, and the coprocessor runs, or faults,
between any two of the host's register accesses.

Paths below are relative to `src/dependencies/eve_hal` (files `EVE_*`) and
`src/dependencies/esd_core` (files `Esd_*`).

## 1. The system

| Component | State it keeps | Operations | Module |
|---|---|---|---|
| Command FIFO, `EVE_Cmd.c` | write pointer, cached free space, open function, sticky fault, bytes of an unfinished word (`EVE_HalContext`) | write, reserve, wait for space, wait until empty, restore | `EveCmd`, `CmdQueue` |
| Coprocessor reset and boot, `EVE_Util.c` | the same | boot, reset after a fault, force a fault | reset: `EveCmd`, `FrameLoop`, `MediaFifo`, `CoDl`; boot: none |
| Display list optimizer, `EVE_CoDl.h`, `EVE_CoDl.c` | four cached graphics states and an index, the primitive begun last, the coprocessor's colours and matrix flag | one call for each display list command | `CoDl`, `Gpu` |
| Coprocessor commands, `EVE_CoCmd.*` | none of its own; shares the two above | one call for each coprocessor command | `CoDl` and `EveCmd`, in part |
| RAM_G allocator, `Esd_GpuAlloc.c` | a table of entries sorted by address, a table of references by id | allocate, free, truncate, look up, reset, and per frame collect and defragment | `GpuAlloc` |
| Resource loading, `Esd_ResourceInfo.c` | a handle in each resource | load on use, free | `GpuAlloc`, in part |
| Frame loop, `Esd_Context.c` | loop state, frame counters, spinner and logo flags | update, render, wait for swap, recover | `FrameLoop`; its order also in `GpuAlloc` |
| Media FIFO, `EVE_MediaFifo.c` | second ring buffer for images and video | set, write, wait | `MediaFifo`, `CmdQueue` |
| File loading, `EVE_LoadFile_*` | an open file, how much of it is left | feed the FIFOs | `MediaFifo` (`loadMediaFile`) |
| Touch tags, `Esd_TouchTag.c` | tag to handler table, what the finger is on | start, end, update per frame, suppress | `TouchTag` |
| Bitmap handles, `Esd_BitmapHandle.c` | which bitmap each handle is set up for, where it was, how recently it was drawn | set up, resize, age per frame, reset | `BitmapHandle` |
| Nuklear back end, `src/src/nuklear_eve.c` | scissor, and the stencil it leaves | convert a Nuklear command queue | `NuklearEve`, in part |
| Widgets and drawing helpers, `Esd_CoWidget.c`, `Esd_Render_*` | none, or the open video | sequences of the calls above | in part: video in `MediaFifo`, logo and spinner in `FrameLoop`, bitmaps in `BitmapHandle` |
| Host interfaces, `EVE_HalImpl_*` | chip select, write buffer (FT4222) | open, close, transfer | not modelled |
| Flash file system, demo, samples, vendored libraries | | | not modelled |

**How they interact.** Everything runs on one host thread. The Nuklear back end
and the widgets call the optimizer (`EVE_CoDl_*`) and coprocessor commands
(`EVE_CoCmd_*`), which call `EVE_Cmd_*`, which transfers over a host interface.
While `EVE_Cmd` waits it calls back into the framework (`CbCmdWait`,
`Esd_Context.c:114`), which calls the application's `Idle` and may abort the
wait. The frame loop updates allocator, touch and bitmap handles, renders, waits
for the swap, and resets the coprocessor after a fault. The allocator's blocks
are referred to by the display list on the screen, long after the call that used
them.

**What is hard.**

* *The coprocessor runs concurrently.* Pointers read one after the other belong
  to different moments; a fault may come between any two accesses and shows
  itself only as an odd read pointer.
* *Cached chip state.* The free space, the graphics state and the coprocessor's
  colours are cached so as not to be read or sent again. Each cache is right only if
  every path that changes the chip also changes the cache.
* *Waits that fail.* A wait ends in success, fault or abort, in the middle of a
  write, of a function, of a defragmentation.
* *Memory in use by what is on the screen.* Collecting and moving blocks must not
  touch the frame being displayed.
* *Tables that renumber.* The allocator moves entries and has to keep two tables
  consistent.
* *The screen lags.* The engine reports touches of the frame shown before, its
  bitmap handles keep what an earlier list set up, and a frame may be lost or
  refused in between.
* *Two queues at once.* A feed of the media FIFO waits for a command in the
  command FIFO to read it, and that command may end first, or never begin.

**What correctness means**, component by component:

* Command FIFO: the words the coprocessor reads are the words written, in order
  and once; nothing unread is overwritten; the cached space is never too large;
  faults are reported exactly when there is one; every call returns.
* Display list optimizer: nothing that is drawn differs from what would be drawn if
  every call sent its command.
* Allocator: RAM_G is always tiled by the entries, the two tables agree, data
  stays where a handle leads, a dead handle stays dead, the frame on the screen
  is never disturbed, and what nobody reaches is given back.
* Frame loop: the screen shows whole pictures; a fault is always recovered from;
  the spinner ends with its popup; a request to stop ends the loop.
* Media FIFO: the coprocessor reads the stream in order and without gaps,
  wherever a feed stopped and resumed; a feed returns when its command ends.
* Touch tags: a touch is put down to what was under the finger; a widget is told
  of its own touches.
* Bitmap handles: a bitmap is drawn from its own memory, page and size, whatever
  has moved, been collected or been lost since its handle was set up.
* Nuklear back end: what is drawn is what Nuklear listed, although rectangles are
  fused, the stencil is left as it happens to be, and polygons move the scissor.

`PROJECT.json` lists each hazard with the line where it bites and the properties
that cover it, or why none does yet.

## 2. The modules

### `EveCmd`, the command FIFO protocol

One host thread and one coprocessor. The host's calls are split where they access
a register, since the coprocessor may do anything in between; the code between two
accesses is one action.

| In the module | In the code |
|---|---|
| `ram`, `rp`, `regWp`, `fault` | RAM_CMD, the coprocessor's position, REG_CMD_WRITE (or what CMDB has moved it to), whether it has faulted |
| `cmdWp`, `cmdSpace`, `cmdFunc`, `cmdFault`, `cmdWaiting`, `cmdBufferIndex`, `status` | the members of `EVE_HalContext` |
| `pc`, `call`, `seen`, `firstPoll`, `ret` | where the call in progress is, its locals, how it returned |
| `moved` | bytes `EVE_Cmd_moveWp` took that the cached space does not know of; a record for the properties, no action reads it |
| `StartFunc`, `EndFunc`, `Wr32`, `WrMem`, `WrString`, `WrSmall`, `WaitSpace`, `MoveWp`, `WaitFlush`, `Query` | the calls of the same names |
| `Reserve`, `Put`, `Publish`, `Move`, `Poll` | the steps of `wrBuffer` (194-257), of `EVE_Cmd_moveWp` and of the waits (481-616) |
| `ResetCoprocessor` | `EVE_Util_resetCoprocessor` up to "Refresh fifo" |
| `Consume`, `Crash` | the coprocessor |

`supportCmdB` is chosen at the start: both kinds of chip are checked in one run.
With CMDB the hardware moves the write pointer, without it the host publishes
REG_CMD_WRITE at the end of a transfer. A poll may also be aborted (the wait
callback returns false).

`eve_assert` stops the program in a debug build, and is nothing in a release
build with gcc or clang (`EVE_Platform.h:121-125,173`); the constant
`AssertTraps` chooses. With MSVC a release build tells the compiler to assume the
condition, which is outside the model.

### `CmdQueue`, what the FIFO promises

A bounded queue: append, publish, take the oldest, halt, reset. `EveCmd` implements it
under the mapping at the end of `EveCmd` (`Queue`): the pending words are those
between the read pointer and the host's write pointer, the visible ones those up
to REG_CMD_WRITE. `CmdQueue` may reset at any time; the modules that implement it
say when they do (`Restarting`), and that every other step of theirs is one of
`Serve`: in `EveCmd` at a call of `EVE_Util_resetCoprocessor`, in `MediaFifo` when the
FIFO is closed or a reset ends a fault.

### `GpuAlloc`, the RAM_G allocator in its frame loop

The two tables are modelled in full, including the entries past the last one,
because `Esd_GpuAlloc_Update` reads one of them (`Space`). Operations on the
tables are operators from tables to tables (`InsertFree`, `Alloc`,
`CollapseFree`, `FreeId`, `MarkUsed`); the actions apply them in the order
the code does. `Update` is split into the steps of its collection loop (`SweepFree`,
`SweepKeep`) and the one move it makes.

Around the allocator the module has the part of the system that gives its
properties a meaning: `ramg`, what each word of RAM_G holds; `handle` and `size`,
what each resource keeps; `drawing` and `shown`, what the display list being
built and the one on the screen refer to. `LoadResource` and `FreeResource` are
`Esd_LoadResourceEx` and `Esd_FreeResource`, `TakeOver` is a caller that takes
all of RAM_G, `Reset` is `Esd_EndLogo`, `EndFrame` is `Esd_WaitSwap`.
`wild` is set when a table is indexed out of its bounds; nothing is known after
that, and the module stops there.

Freeing a resource takes its blocks out of `drawing` and `shown`: an
application that frees what is on the screen asks for what it gets.

### `CoDl` and `Gpu`, the display list optimizer

`Gpu` is the graphics engine and the coprocessor's own state, as far as the
optimizer depends on them: registers, matrix, primitive, the context
stack of four, colours. It is not code of this repository; it follows from
what the host relies on.

`CoDl` has the cache (`dlState`, `dlStateIndex`, `dlPrimitive`, `coState`), the
chip (`gpu`, `co`, `faulted`) and, in `asked`, the chip as it would be had every
call sent its command. The registers the cache treats alike are one action
`SetReg` with one instance per call. `RawDl` is `EVE_CoCmd_dl` called
directly, which its documentation allows for cached state inside a saved context
only. After a fault the host goes on calling and caching while every command is
lost, until `ResetCoprocessor` and the next `DlStart`.

The module holds an application to what the documentation or plain sense asks:
it finishes a pair of vertices before it begins or ends a primitive, draws only
between begin and end, and restores only what it saved.

### `MediaFifo`, the second ring buffer and the file that feeds it

A host thread split at its register accesses, and a coprocessor that executes
commands, one of which reads the ring. `Coprocessor` reads a word at a time, ends a
media command when it has what it needs, and may fault at any time.

| In the module | In the code |
|---|---|
| `cmds`, `fault` | the command FIFO: which commands wait in it, whether its coprocessor has faulted |
| `mrp`, `mwp`, `ram` | REG_MEDIAFIFO_READ, REG_MEDIAFIFO_WRITE, RAM_G from `MediaFifoAddress` |
| `need`, `taken`, `sent` | how much the running command still reads; what has been read and published since CMD_MEDIAFIFO |
| `fifoSet`, `cmdFault`, `handle`, `remaining` | `MediaFifoSize` not zero, `CmdFault`, `LoadFileHandle`, `LoadFileRemaining` |
| `Set`, `SetReturn`, `Close` | `EVE_MediaFifo_set`, `_close` |
| `PollSpace`, `PollCmd`, `Put`, `Publish`, `EarlyExit`, `Written` | the loops of `EVE_MediaFifo_wrMem` and its wait for space |
| `LoadStart`, `LoadBlock`, `LoadFlush`, `LoadEnd`, `SeekBack` | `EVE_Util_loadMediaFile`, which puts the file back to what was not taken |
| `NextFrame`, `Check`, `ForceFault` | the video widgets of `Esd_CoWidget.c` |

The callers are those of the repository: one video frame at a time, a whole video
file, and the call itself. A word of data is its position in the stream, so that
one invariant tells lost, repeated and reordered data. A block is cut to 16 bits,
as the loader does. An abort while the media command waits for space loses that command
(`QueueAborted`); the feed goes on without it.
The ring implements `CmdQueue`, the same promise as the command FIFO's.

### `FrameLoop`, the main loop

`Esd_Loop` with all it calls, as far as control goes: `Update`, `Render`, `WaitLogo`,
`EndLogo`, `Popup`, `WaitSwap` and `ResetFlush` are the functions and their
waits. What a function writes is in `todo` and goes out one command at a time, waiting for
space (`WriteCommand`), so that a fault or a stop may come between any two. The
coprocessor executes (`Execute`), faults (`Crash`), and the display takes a
finished list over when it likes (`Display`). `SetFlags` is the application: it
asks for the logo, the popup, or the end.

A picture is two drawing commands that carry the parity of their frame; a list that
mixes frames or lacks a part can be told from a whole one.

### `BitmapHandle`, handles set up once and drawn from for long

`handleState` is `Esd_HandleState`. `list` is how the commands written so far
leave the engine's handles, `engine` how the list on the screen leaves them:
`Swap` makes them equal, `Lose` throws the list away as a fault does.
`HandleFor`, `Attach`, `SetUp`, `Resize` and `SizeReset` are the functions of
`Esd_BitmapHandle.c`; `RenderBitmap`, with or without the additional bitmap of the
DXT1 formats (`RenderPair`, three or four draws of both), and `RenderText` are the
draws of `Esd_Render_Bitmap.c` and of a ROM font.
The allocator is what the code uses of it: an address for each bitmap that moves
(`Move`), is collected (`Free`), is allotted (`Take`), and a sequence number by which a handle of
before is known. Each draw records whether it shows what it should.

### `TouchTag`, whose touch it is

`tag` and `handlers` are the two sides of the table, `gpuTag`, `tagDown`, `tagUp`
and `suppress` the statics of the file. `Record` is the edge detection of
`Esd_TouchTag.c`, done once a frame between two register reads (`PollTouch`,
`PollTag`) while the finger moves (`Touch`) and the engine scans (`Scan`). `Start`, `End`,
`Update` and `SuppressCurrentTags` are the calls of the same names. `Swap` shows the new
tags; `Refuse` is a frame that Esd_Render did not draw. `sensed`, `lastOn`, `downOn`, `upOn` and
`freed` are history: where the finger really was.

### `NuklearEve`, a command list drawn by other means

The loop of `nk_eve_cb_render` on one row of pixels (the code treats both axes alike).
A pixel is the sequence of what was drawn on it since it was last covered
opaquely, so that order and double drawing of transparent colours count.
`FillWithOutline`, `OutlineBehind`, `Fill`, `Outline`, `Polygon`, `Line` and
`Scissor` are the cases of the code; `FillRect` has the widths of what it passes on: 16
bits of rounding, 12 of line width, 15 of a vertex. `asked` draws the same
commands as Nuklear means them.

### The `...Proofs` and `MC...` modules

`EveCmdProofs`, `CoDlProofs`, `GpuAllocProofs`, `MediaFifoProofs`, `FrameLoopProofs`,
`BitmapHandleProofs`, `TouchTagProofs` and `NuklearEveProofs` hold the proofs about the
modules they are named after; section 5. The `MC...` modules give constants their
values for the runs.

## 3. The runs

Passing runs first. Every property of a passing run has a mutant in
`PROJECT.json`, a slip in a mapped definition that makes the same run fail.

| Run | Question | Instance |
|---|---|---|
| `cmd` | Is the FIFO a correct bounded queue, when results of `moveWp` are awaited? | FIFO of 4 words, two payloads, with and without CMDB |
| `alloc` | Is the allocator right while its table has room and frames are shown? | RAM_G of 3 words, 4 entries, 3 resources |
| `alloc_full` | What survives a full table, failing copies, lost frames, truncation? | the same with 3 entries |
| `codl` | Is the optimizer unnoticeable? | all ten registers with two values each, nesting to depth 3 |
| `media` | Is a stream of whole words read as it was written, and does every feed return? | ring of 6 words, file of 36 bytes, all callers |
| `frame` | Is the loop right through faults, logos, spinners and stops? | FIFO of 2 commands |
| `handles` | Is every bitmap drawn from its own data? | 1 handle and the scratch handle, 2 bitmaps, a font |
| `touch` | Are widgets told of their own touches? | 2 widgets, 2 tags |
| `nk` | Is what is drawn what Nuklear listed? | 12 pixels, up to 4 of 17 commands |

Their properties:

* `SpaceSound`, `UnreadKept`: the cached space is never more than there is, and no
  unread word is overwritten or skipped. `ClosedIsPublished`: `EVE_Cmd_wp`
  overwrites the host's pointer by the register and loses nothing.
  `FaultIsReal`: no false alarm. `FlushIsEmpty`: `waitFlush` tells the truth.
  `CallsReturn`: every wait ends. `QueueSpec`: the refinement, and that only
  `EVE_Util_resetCoprocessor` and a fault empty the queue.
* `Tiled` (no gap, no overlap, no two free neighbours) and `RefsMatch`: the
  tables. `ContentKept`, `FrameIntact`, `StaleStaysStale`: data and handles.
  `OrphansGo`, `UndrawnGoes`: memory comes back.
* `StackIsRight`: the cache is right about the engine now and after every restore to
  come. `PrimitiveIsRight`, `CoStateIsRight`: about the primitive and the
  coprocessor. `DrawsAsAsked`: no suppressed command is missed.
* `StreamInOrder`: what lies between the media pointers is the stream where it was
  left. `ResumesWhereStopped`: a file put back continues where the ring
  ends. `FeedReturns`: a feed ends when its command has ended or failed, or has all it
  wants. `StreamQueue`: the refinement, and that only a fault, closing the FIFO and
  the reset after a fault drop what is unread.
* `ShownWhole`: no half or mixed picture is shown unless the program is stopping.
  `SpinnerStopped`: a picture is not shown under a spinner left running.
  `FramesKeepComing`: faults that end do not end the frames. `StopEnds`: a
  request to stop ends the loop, save in the one place the code marks with a TODO
  (`Esd_Context.c:523`), where neither property would notice that it spins.
* `DrawnRight`: memory, page and size of every draw. `HandleStaysTaken`: a handle is not
  given away within the frame that drew with it.
* `HeldIsTouched`: what is recorded as touched is what was under the finger.
  `EventsAreOwn`: Down and Tap go to the widget the touch was on, unless its tag
  changed hands.
* `ScissorIsRight`: after every command the scissor is the clip Nuklear asked for.
  `PaintedAsAsked`: so are the pixels, save where the shortcut for an outline behind has
  drawn, of which `nk_outline` speaks.

Runs that end in a violation. Each shows a disagreement between the code
and what the repository says of it; `PROJECT.json` quotes both sides.

| Run | What it shows |
|---|---|
| `cmd_movewp` | `EVE_Cmd_moveWp` does not take the bytes from `CmdSpace`. A caller that passes no result pointer to `EVE_CoCmd_memCrc` goes on with too much space and overruns unread words. |
| `touch_tap` | A widget given a tag that is being touched is told Down, Up and Tap of a touch that was never on it; `Esd_TouchTag.h:30` promises both were. |
| `nk_outline` | The shortcut for an outline behind its rectangle (`nuklear_eve.c:594`) draws the outline in the colour of the rectangle. |

**Bounds, and why they are enough.**

* FIFO size 16 bytes. The protocol knows full, empty, the wrap of the pointers
  and half the size (`StringSizes`, the chunks); four words have all of them. A
  write of 20 bytes needs more than the FIFO holds and so waits; `SpaceSizes`
  has 0, the most there is, and more than can ever be.
* Two payloads: enough to tell a word from another; the protocol never looks at them.
* RAM_G of three words: two blocks and a hole between them, or one block of two
  words that fits only after a move; an unaligned size (7). Four entries are
  more than such a RAM_G can need, so the table has room; three fill.
* `MaxSeq` 4: an id is reused three times. The wrap at 2^24 is out of reach.
  `MaxSeq` also bounds how often a copy can fail.
* Two values per register, two matrices, two colours; `MaxDepth` 3, all the
  cache can hold. `Uses` bounds which features one application uses: any single one,
  handle with cell (two registers at once), matrix with primitive. The
  registers share no state but the stack, which every case exercises.
  Four saves would be one too many: the cache has four states including the
  current one, so the oldest is overwritten (section 6).
* Media ring of 24 bytes: half of it less a word, the size of a block, is 8, so that blocks
  wrap within the ring; the file of 36 bytes fills it once and again, and its last
  block is shorter. It is a multiple of four: with other lengths the code repeats
  bytes (section 6). A write of 28 bytes is more than the ring holds. `Needs` has a
  command that reads nothing and one that reads a part. Two commands fill
  the command FIFO, which the code can mistake for a fault.
* Two commands in the FIFO of `frame`: less than any frame, so each waits in
  its middle. A display list is cut at `DlMax` 4, longer than any whole one.
* `handles`: more to draw than handles, so that they are taken, aged and fall
  back to the scratch handle; two draws of a frame (`MaxDraws`) can compete, and use lasts
  two frames. Two addresses, alike (symmetry), let a bitmap move and another
  take its place. Sequence numbers count modulo 2: a handle of before the last
  is long forgotten, since a set-up is at most one load behind.
* `touch`: two widgets (symmetric) and two tags are enough to give a tag
  up, to reuse it, and to move the finger between owners.
* `nk`: four commands allow an outline and a rectangle fused after a clip and a polygon
  that left something in the stencil. The commands have opaque and transparent
  colours, outlines of odd, even and larger width, polygons dented and
  reaching beyond the row, clips inside and outside of it. The rounding is at least half the
  thickness (section 6 says why).

**Deadlock** is checked where the system cannot stop (`alloc`, `codl`, `touch`).
It is off in `cmd`, where a failed assertion stops the program; in `alloc_full`,
`media` and `handles`, where nothing is modelled after a wild access; in
`frame`, where the loop ends on request; and in `nk`, which is one frame.

**Fairness.** Only what a running host and chip give.

* `EveCmd`: `WF(Continue)`, the host thread runs, and `WF(Consume)`,
  a coprocessor that has not faulted executes what it sees. Nothing is assumed
  of calls: an application may stop calling.
* `GpuAlloc`: `WF(EndFrame \/ Update)`, as `Esd_Loop` (331-336) runs frame after
  frame; nothing is assumed of the application.
* `MediaFifo`: `WF(Coprocessor)` and `WF(Host)`, as in `EveCmd`. Nothing is assumed of new
  calls, faults or aborts. `FeedReturns` lets a feed wait for ever in two places
  only, which the code's comments admit: for a command that wants more data than it is given, and,
  where the caller passes no `transfered`, for a command that never reads.
* `FrameLoop`: `WF(Host)`, `WF(Execute)` and `WF(Display)`: a display that scans
  takes a finished list over. Nothing is assumed of faults or flags.
* `CoDl`, `BitmapHandle`, `TouchTag` and `NuklearEve` have no liveness.

## 4. What the model-checker alone shows

* Liveness under fairness (`CallsReturn`, `OrphansGo`, `UndrawnGoes`, `FeedReturns`,
  `FramesKeepComing`, `StopEnds`) is out of the proof system's reach.
* That `ContentKept` and `TypeOK` of `GpuAlloc` survive the truncation of a block in
  a full table (`alloc_full`). The theorems exclude it: it leaves entries that do
  not lie end to end.
* The three runs that end in a violation.

Every other invariant, action property and refinement the runs check is also a theorem,
on the conditions that section 5 gives with each.

## 5. What is proved

### The command FIFO

`EveCmdProofs` proves, for every FIFO size that is a multiple of eight up to
65536 (`FifoAssumption`), every set of payloads and every set of request sizes
(`SizesAssumption`):

* `TypeCorrect`: `Spec => []TypeOK`.
* `SpaceIsSound`, `ClosedPublishes`, `FaultsAreReal`: `SpaceSound`,
  `ClosedIsPublished` and `FaultIsReal` are invariant, if the results of
  `moveWp` are awaited (`~NullResult`).
* `UnreadIsKept`: the action property `UnreadKept`, on the same condition.
* `FlushEmpties`: the action property `FlushIsEmpty`, without a condition.
* `ImplementsQueue`: `EveCmd` implements `CmdQueue` (`QueueSpec`), if the results of
  `moveWp` are awaited.

None of the properties is inductive. The invariant is `Typed /\ Sound`:

* `Typed` is `TypeOK` with `CallShape`: which `pc` goes with which call, and how far
  it has got. Types alone do not keep the FIFO arithmetic in range.
* `Sound` is `ClosedIsPublished`, `FaultIsReal`, `SpaceSound` and
  * `PointerShape`: what open transfer, open function and the two write pointers
    have to do with each other at each `pc`, and how old the value in `seen` is. In
    particular the read pointer that `waitFlush` saw first
    can only be behind the one now, so what it takes for empty is empty.
  * `SpaceShape`: without a fault the cached space is a multiple of four and less
    than the FIFO size, what is published is part of what is accepted, and what
    is about to be written has been asked for. The fault bits a failed wait leaves
    in `CmdSpace` are the reason for the condition.

The proof first collects facts about distances on the ring as lemmas (masking,
moving one end, alignment), then shows for each action that it keeps each part of
the invariant. The temporal theorems combine these with `PTL`.

For `ImplementsQueue` the mapping is repeated by plain operators (`QPending`,
`QVisible`), which are shown equal to it. Each action then appends a word, publishes,
takes the oldest word, halts, resets, or leaves the queue alone. That the words a step
does not touch keep their places in the queue needs the invariant: without `SpaceSound`
an append could overwrite the oldest.

### The RAM_G allocator

`GpuAllocProofs` proves, for every size of RAM_G and of the tables, and every set of
resources with their sizes and flags (`GpuAllocAssumption`):

* `TypeCorrect`, `TablesTile`, `RefsAreRight`, `HandlesLead`: `TypeOK`, `Tiled`,
  `RefsMatch` and `ContentKept` are invariant, copies failing and frames being lost
  included.
* `StaleHandles`: the action property `StaleStaysStale`.
* `FrameStaysIntact`: `FrameIntact` is invariant, if no frame is lost (`~FramesLost`).

All hold of the behaviours in which (`Assumed`)

* no sequence number comes round (`NoWrap`: each is more than two below `SeqCount`, as
  taking all of RAM_G moves it by two). A handle kept through 2^24 uses of its id would
  resolve again, to a block of another or to none.
* no block is truncated in a full table (`RoomToTruncate`), for the reason in section 4.
  In a table with room the inverted guard (section 6) makes truncation harmless.

The proof is in three parts.

1. *Tables.* `Good` says that a table is typed, tiles RAM_G, has no two free
   neighbours, and matches its references. Alloc cuts a free entry (`Splits`), Free
   joins free neighbours (`Merges`), a move trades two entries (`SwapGood`); each keeps
   `Good` and says which blocks are where. `Tiling` contains that later entries
   lie behind earlier ones; it follows from the entries lying end to end, but
   by induction over the table, so the invariant carries it.
2. *Handles.* `Known`: a handle is never ahead of its id's count, and behind it when the
   id is not given out. `Later`: a step moves an id's count on, or leaves it and
   keeps its block. Together they give `StaleStaysStale`.
3. *Contents.* `Inv` adds that a held block has room for its resource and is full of its
   data (`Content`), that what is being drawn is held at the address drawn and marked as used
   (`Drawn`), that during collection what is on the screen is held, and marked where the
   sweep has not been (`Swept`), and that what is on the screen begins a block
   of somebody's (`Kept`). `Swept` is why collection leaves the screen alone: it is
   the marks of the frame just shown that it goes by. `Kept` does not name the resource:
   a move gives the old address to a new id, and keeps it until the next collection.

### The media FIFO

`MediaFifoProofs` proves, for every size of the ring and sets of write sizes, and for every
file of whole words (`WholeWords`: `FileLen % 4 = 0`):

* `TypeCorrect`, `NothingLostOrRepeated`, `FeedsResume`: `TypeOK`, `StreamInOrder` and
  `ResumesWhereStopped` are invariant.
* `ImplementsQueue`: the ring implements `CmdQueue` and drops unread words only in the
  steps named above (`StreamQueue`).

`WholeWords` is needed: without it TLC finds `ResumesWhereStopped` violated (section 6).
The inductive invariant relates, for each place in the code, the file, the buffer being written
and the stream (`Buffer`, `Position`), and says who may be there (`Roles`). On the
side of the ring: the space a wait has found is still there when it is used (`Room`), what is about
to be published is in place (`Filled`), and CMD_MEDIAFIFO is not still waiting in the command FIFO
while the ring is in use (`NotReset`, `SetQueued`), which would put its pointers back to zero.

### The frame loop

`FrameLoopProofs` proves, for every size of the command FIFO, `TypeCorrect`, `ShownIsWhole` and `SpinnerIsStopped` (`TypeOK`, `ShownWhole`,
`SpinnerStopped`). The invariant is `Sound`: unless a stop is requested or the
coprocessor has faulted, at most one of nine fixed programs is under way. What the host still has to write
follows what is in the FIFO, which follows what has been executed; what the display list
holds, and whether a spinner may run, depends on how far the program has got. The property alone is
not inductive, since a whole picture depends on what the FIFO holds.

### Bitmap handles

`BitmapHandleProofs` proves, for any number of handles, bitmaps, fonts, pages,
addresses and draws in a frame, `TypeCorrect`, `EveryDrawRight` and
`DrawnHandleStays` (`TypeOK`, `DrawnRight`, `HandleStaysTaken`). The invariant `Sound` says that what
`Esd_HandleState` records of a handle is what the engine's handle is set up for, in the list
being built or in the one shown, whichever the next draw goes by, and that the
handles drawn through are recorded as in use.

### Touch tags

`TouchTagProofs` proves, for any number of widgets and tags, `TypeCorrect`,
`HeldAreTouched` and `EventsOwned` (`TypeOK`, `HeldIsTouched`, `EventsAreOwn`).
The invariant adds what a remembered tag stands for: the widget it was found on, or nobody once the tag has
changed hands (`Remembered`). It rests on how old what is
remembered may be: at a poll, the screen and REG_TOUCH_TAG are no older than
the last frame (`Fresh`).

### The Nuklear back end

`NuklearEveProofs` proves, for every list of commands, every set of colours and every
width of the row:

* `TypeCorrect`, `ScissorRight`: `TypeOK` and `ScissorIsRight` are invariant.
* `PaintsAsAsked`: so is `PaintedAsAsked`, for commands whose sizes the engine's fields
  hold (`SizesFit`): places from -4096 to 4096, widths from 1 to 4096, roundings that neither exceed
  255 nor become negative inside an outline. Without the last the
  inner rectangle floods the clip (section 6).

The proof shows what each shape does to a pixel and to the stencil: that an outline leaves no
mark in it which the next would take for its own, that the inversions for the edges of a
polygon come to inside and outside, and that covering by an opaque colour forgets all before.

### The display list optimizer

`CoDlProofs` proves, for every set of registers, values, matrices, colours and
primitives, and every size of the two stacks:

* `TypeCorrect`: `Spec => []TypeOK`, also when contexts are nested too deep.
* `PrimitiveRight`, `CoStateRight`: `PrimitiveIsRight` and `CoStateIsRight`.
* `StackRight`, `DrawnAsAsked`: `StackIsRight` and `DrawsAsAsked`, if contexts are
  nested no deeper than both stacks hold (`NestingFits`: `MaxDepth < StackSize`
  and `MaxDepth <= HwDepth`). The condition is needed: TLC finds `StackIsRight`
  violated with `MaxDepth` 4, since the code's `StackSize` of 4 allows one level
  less than the engine does.

The proof is in layers, each using the ones before.

1. What each command does to the engine (`PutRegIs`, `PushIs`, ...), so that the
   later steps need not look into `Gpu`.
2. `Basic`: types, the two properties about primitive and coprocessor, and
   `EngineShape`: a list that is not open is fresh, a faulted coprocessor is cold,
   and vertices only wait to be joined in a pair or strip. `EngineShape` is what
   the invariants lack to be inductive: after a fault the host's cache is wrong
   about everything, and it is only harmless because nothing is open.
3. `CacheRight`: with `Nested` and `NestingFits` the index never wraps, so
   level `i` of the cache is level `i` of the engine, and `StackIsRight` is
   kept by every step. It has to be about all levels: a restore makes an older one
   current.
4. A suppressed command would have changed nothing (`RegisterSet`, `IdentitySet`,
   `MatrixSet`, `PrimitiveBegun`), by `CacheRight`. With that the engine follows
   what was asked for step by step.

## 6. Observed while modelling

Three disagreements are runs of their own (section 3). These are others that the
modules contain as the code has them, and that the properties are worded
around or the inputs avoid.

* `EVE_Cmd.c:239`: after a fault `CmdSpace` is not a multiple of four, and a
  padded chunk may exceed it; the assertion fails, or the 16 bits wrap.
* `EVE_Cmd.c:295`: `EVE_Cmd_wrMem` compares what was asked for with what was written
  including padding, so its result is false for every size not a multiple of four.
* `EVE_CoDl.h:825`: a fourth nested save overwrites the oldest cached state, where
  the engine has room for it.
* `Esd_GpuAlloc.c:165`: the guard of `Truncate` is inverted: it reduces nothing
  unless the table is full.
* `Esd_GpuAlloc.c:366`: with a full table, defragmentation uses the invalid handle
  as an index (`wild`).
* `Esd_Context.c:399`: a frame lost to a fault is followed by a collection as if
  it had been shown, so memory still on the screen may be reused.
* `Esd_Context.c:523`: an abort of the wait for the swap is followed by a poll of
  REG_DLSWAP without end (marked TODO there).
* `EVE_MediaFifo.c:415`: a full command FIFO and a fault look alike to the wait for
  space, which gives up in both cases. `EVE_MediaFifo_set` may fail, and `PlayVideoFile`
  (`Esd_CoWidget.c:419`) does not look: the feed then computes its block from a
  size of zero (`overrun`).
* `Esd_CoWidget.c:427`, `PlayVideoFile`: it waits for the media FIFO to be empty, then
  forces a fault, although `EVE_MediaFifo.h:72` asks for `EVE_Cmd_waitFlush` before a
  file counts as processed; the end of the video may be cut.
* `Esd_BitmapHandle.c:206-209`: a paged cell drawn through the scratch handle
  dereferences the `Info` of a handle that has none (phase `crashed`). A pair of
  bitmap and alpha that share the scratch handle is drawn as its second.
* `Esd_TouchTag.c:42-51`: the initializer of the 256 handlers has 64 entries, so that the
  tag set aside besides 0 is 63 and not 255.
* `Esd_TouchTag.c:152`: suppression asked for in the frame in which the finger is
  lifted has no effect.
* `nuklear_eve.c:636`: an outline more than twice as thick as its rounding gives
  the inner rectangle a negative rounding, which as 16 bits is a line that floods the clip.
  A list of edges that does not close on its first point lacks the last edge.
* `EVE_LoadFile_STDIO.c:513-518`: what is put back of a last block includes the
  bytes that padded it, so that for a file whose length is not a multiple of four the next
  feed repeats up to three bytes. With `FileLen` 34 in the run `media`, TLC finds
  `ResumesWhereStopped` violated. The attempt to prove it for every length showed it first.

Where the proofs made the modules more exact:

* The box around a polygon starts from 4095 and 0 (`nuklear_eve.c:303`) and not from its first
  point: `Boundary` has this, and the proof needs no condition for it.
* Alternatives of a `CASE` exclude each other in `TouchTag` and `BitmapHandle`: where
  two could apply, which one is meant would be left open.

## 7. What is not modelled

* Boot, shutdown, power states and the millisecond clock.
* The FT80X compatibility path of the optimizer (vertex formats and
  translation done by the host). Commands that change graphics state behind the
  cache (append, call).
* What happens to the optimizer's cache when a wait is aborted in the middle of a
  command: `EveCmd` has aborts, `CoDl` only faults.
* The result of `EVE_CoCmd_IO.c:47` when `moveWp` fails; 2^24 reuses of one id.
* The application's `Idle` callback making allocator calls during a
  defragmentation: the one in this repository (`nuklear_eve.c:744`) is empty.
* Metadata and file types of resources, flash addresses, video from flash,
  the loaders that feed the command FIFO, and the FatFs variant.
* Palettes, swizzles and custom fonts in `BitmapHandle` (a custom font takes the path
  of a bitmap); drawing outside of rendering, which is refused. An additional bitmap in a
  format other than DXT1 or DXT1L2 (`Esd_Render_Bitmap.c:163-168`, `219-224`, which
  do not resize it): `AdditionalInfo` is there for DXT1 (`Esd_BitmapInfo.h:90`).
* In `MediaFifo`: a file played during a background video, which finds the FIFO already
  set; an abort while CMD_MEDIAFIFO itself waits for space, after which the pointers
  are those of before (the hazard at `EVE_Cmd.c:399`); of an aborted command
  of several words, the words after the one that was dropped.
* In `NuklearEve`: the extra pass for a translucent edge inside an outline
  (`Esd_Render_Rect.c:134-139`), which only smooths it; the 16 bits of a clip, within which
  Nuklear's own limit of 8192 stays. A polygon narrows the scissor and puts it back in one
  step, with nothing in between that could see it.
* Coordinates in `TouchTag`, and callbacks that start or end tags themselves.
* Circles, arcs, curves, text, images and gradients of Nuklear, its input and its
  fonts: they use no state beyond what the modelled shapes use, and half-covered pixels
  at their borders are outside a model of columns.
* Host interfaces, board support, FatFs, LittleFS and Nuklear itself. These and
  other vendored code (`dependencies/fatfs`, `samples/`) are most of the
  repository's lines.

## 8. The plan

Done: the models of sections 2 and 3, the theorems of section 5. Left:

1. `ContentKept` for truncation in a full table: it needs an invariant that
   lets entries leave gaps.
2. Models of the FT4222 write buffer and of the loaders of the command FIFO, and
   with them a theorem about the order of data and write pointer.
3. The media FIFO for files of any length, with the repetition of bytes as the code
   has it.
