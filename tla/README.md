# TLA+ models of Rkernel

Rkernel is the process in which an IDE runs R.  R has one thread, the main
thread; everything else — gRPC handlers, timers, threads that watch processes —
asks the main thread for what it needs and waits.  These modules model that
machinery: how work reaches the main thread, how loops nest on it, how a client
follows what it does, and how all of it ends.  TLC checks the models on small
instances; TLAPS proves the main safety properties for instances of any size.

All paths below are relative to `src/src/`.

## 1. Inventory

For each part: its state, its operations, what it touches, what is hard, and
what makes it correct.

**Blocking queue** (`util/BlockingQueue.h`).  State: a deque, a limit, a mutex
and *one* condition variable.  Operations: `push` (waits for room), `pop`,
`poll`, `popWithDeadline`, `setMaxSize`.  Used for the two task queues and for
`asyncEvents`, the events for the client (limit 8 once a client reads).  Hard:
pushers and readers wait on the same condition variable and every change wakes
one of them.  Correct: FIFO, never over its limit, nobody sleeps beside what it
waits for.

**Event loop** (`EventLoopUnix.cpp`, `EventLoop.cpp`).  State: an ordinary and
an immediate task queue, a pipe with at most one byte, `pipeFilled` under
`pipeMutex`, `doBreakEventLoop`.  Operations: `eventLoopExecute`,
`breakEventLoop`, `runEventLoop`, `runImmediateTasks`, the input handler.  A
task may call `runEventLoop` again (readline, debug prompt, system(), requests to
the client).  Hard: wake-ups against drains, batches against nested loops,
immediate tasks run by R code in the middle of a task, jumps to top level.
Correct: each task starts once, in order, eventually; a break ends the loop it
was meant for.

**Calls to the main thread** (`RPIServiceImpl.cpp` `executeOnMainThread`,
`RStuff/RInterrupt.cpp`).  State per call: `state` (pending … done), a mutex and
a condition variable in the gRPC handler's frame; globally R's interrupt flag.
Operations: post the closure, poll every 25 ms, interrupt once when the client
cancels.  Hard: cancellation racing with the end of the function; the closure
uses the handler's frame by reference.  Correct: at most one run, no dangling
frame, an interrupt hits only the call it was raised for.

**End of the process** (`quit`, `quitProceed`, `quitRPIService`,
`quitRWrapper`, `TerminationTimer`).  State: `terminate`, `terminateProceed`, the
server.  Hard: handlers in flight, a client that does not answer, a full event
queue.  Correct: every handler returns, then the service goes.

**Console** (`ExecuteCode.cpp`, `debugger/DebuggerMethods.cpp`,
`Subprocess.cpp`).  State: `replState`, the loops on the stack,
`subprocessActive`.  Operations: `executeCode`, `readLineHandler`,
`debugPromptHandler`, `subprocessHandler`, `sendReadLn`, `sendEof`,
`replInterrupt`, the debugger's commands.  Each announces itself to the client
by an event.  Hard: the client answers what it saw, which may be gone;
`replInterrupt` reads `replState` on another thread; interrupts jump out of
loops.  Correct: the client is never left at a prompt the kernel is not at.

**Event stream** (`getAsyncEvents`).  State: the queue and `cachedText`.  Merges
texts for 60 ms.  Correct: nothing lost or reordered.

**Requests to the client** (`sendAsyncRequestAndWait`, `rStudioApiRequest`,
`Timer.cpp`).  State: `isInClientRequest`, `isInRStudioApiRequest`,
`rStudioResponse`, a timer thread.  Hard: nested requests, late answers, a timer
whose action needs the main thread while the main thread joins the timer.
Correct: a request returns its own answer, or the timeout.

**system()** (`Subprocess.cpp`, `SubprocessUnix.cpp`).  State:
`subprocessActive`, `subprocessInterrupt`, reader threads and a thread that waits
for the process.  Hard: nested calls share the flags.

**Output** (`IO.cpp`, `replOutputHandler`, `UnixForkHandler.cpp`).  State: the
current output handler with its id, `outputMutex`, the pipes of forked children and the threads
that read them.  Hard: each call swaps the handler while threads write; output
waits for room in the event queue with the mutex held; descriptors are given
again as soon as they are closed.  Correct: the output of a call reaches that
call's handler and no other, nobody holds the mutex for ever, a fork closes what
is its own.

**Debugger** (`debugger/RDebugger.cpp`).  State: current command, contexts to
stop at, breakpoints with master and slaves, per-file lists, and flags kept as
attributes of function bodies.  Hard: breakpoints change while their condition
is being evaluated; commands come from other threads; environments and bodies
are shared.  Correct: a command stops where it should and nowhere else, flags
concern one closure, links never lead to a removed breakpoint.

**Source files, text builder** (`debugger/SourceFileManager.cpp`,
`TextBuilder.cpp`).  State: the registry of virtual files, which finalizers of R's
collector empty; the counters with which positions are computed while a text is
written.  Correct: an id means one text, also in the next session; a position
means its statement.

**References, data frames, lazy loader** (`RRefs.cpp`, `util/IndexedStorage.h`,
`DataFrame.cpp`, `RLoader.cpp`).  State: slots reused through a list of holes, a
cache of data frames with refreshers and finalizers.  Hard: the client, viewers
and finalizers all free slots; a value set deep inside another rewrites all
above it.  Correct: a slot belongs to one value at a time, a reference reads
what was set.

**Values as text** (`RStuff/RUtil.h`).  A value is printed up to a limit and
stopped by an interrupt, the same one the client uses.

**Session** (`Session.cpp`, `Init.cpp`).  State: the workspace file, the working
directory, a helper variable, `done` of `quitRWrapper`.  Hard: each of a dozen
calls of R may fail.  Correct: what was changed is put back, what was asked for
is saved.

**Graphics** (`graphics/`).  State: R's devices, the stack of master devices,
snapshots in memory and on disk, the locks that keep slots.  A plot is replayed
on two proxy devices of different sizes, and from the difference a message is
made that can be drawn at any size.  Correct: a recording shows its plot, the
message means it, a preview keeps its shape.

**The rest**: `RStudioApi.cpp`, `CppExports.cpp`, most of `RStuff/`,
`RInternals/` (conversions and wrappers), `CrashReport.cpp`, `HTMLViewer.cpp`, `Options.cpp`,
`base64/`, `cxxopts.hpp` (vendored), the Windows variants, and the R code in
`src/R`.  They keep little state; see `components` in `PROJECT.json`.

`PROJECT.json` also lists, under `hazards`, each place in this code where
something hard to test can go wrong, and which property would notice.

## 2. Plan

The order in which the modules were written, the most important behaviour first:

1. `BlockingQueue`, `EventLoop`, `MainThreadCall`, each with its promise
   (`FifoQueue`, `TaskQueue`, `RemoteCall`) and its proofs;
2. `Repl`, which takes event loop and queue as promised; `ClientRequests`;
3. `PersistentRefs` over `IndexedStorage`; `References`;
4. the debugger: `Breakpoints`, `Stepping`, `DebugFlags`;
5. sources: `SourceText`, `VirtualFiles`;
6. output and the end: `Output`, `ForkPipes`, `Termination`, `Session`, `PrintedValue`;
7. graphics: `Snapshots`, `PlotGeometry`, `PlotFigures`, `PlotParser`, `PlotMessage`,
   `PlotPreview`;
8. proofs of `ClientRequests`, `Termination`, `DebugFlags`, `VirtualFiles`;
9. proofs of `Repl`, `Output`, `PrintedValue`, `Stepping`, and more of `VirtualFiles`;
10. proofs of `PersistentRefs`, `Session`, `ForkPipes`, `Breakpoints`, `PlotPreview`.

Left for later: nested and background `system()` with its reader threads and
timeouts; `MatchArgs`; a proof for `Snapshots`; what the notes
below name.

## 3. Modules

| module | models | run | proofs |
|---|---|---|---|
| `BlockingQueue`, promise `FifoQueue` | `util/BlockingQueue.h` | `queue` | `Output_proofs` |
| `EventLoop`, promise `TaskQueue` | `EventLoopUnix.cpp` | `event_loop` | `EventLoop_proofs` |
| `MainThreadCall`, promise `RemoteCall` | `executeOnMainThread`, quit | `main_thread_call` | `MainThreadCall_proofs` |
| `Repl` | console, debugger prompt, readline, system() | `console` | `Repl_proofs` |
| `ClientRequests` | requests to the client, `Timer.cpp` | `client_requests` | `ClientRequests_proofs` |
| `PersistentRefs`, `IndexedStorage` | slots, `DataFrame.cpp` | `values` | `ClientData_proofs` |
| `References` | `RRefs.cpp`, `RLoader.cpp` | `values` | — |
| `PrintedValue` | `evalAndGetPrintedValueWithLimit` | `output` | `Output_proofs` |
| `Breakpoints` | `RDebugger.cpp`, `DebuggerMethods.cpp` | `debugger` | `Debugger_proofs` |
| `Stepping` | `RDebugger.cpp`, `DebuggerMethods.cpp` | `debugger` | `Debugger_proofs` |
| `DebugFlags` | debug, undebug, debugonce | `debugger` | `Debugger_proofs` |
| `SourceText` | `TextBuilder.cpp`, `SrcrefPreprocessor` | `sources` | — |
| `VirtualFiles` | `SourceFileManager.cpp` | `sources`, `virtual_files_marked` | `ClientData_proofs` |
| `Snapshots` | `MasterDevice.cpp`, `REagerGraphicsDevice.cpp`, `DeviceManager.cpp` | `graphics` | — |
| `PlotGeometry`, `PlotFigures`, `PlotParser` | `PlotUtil.cpp`, `actions/`, `figures/` | `graphics` | — |
| `PlotPreview` | `buildPreviewMask` in `PlotUtil.cpp` | `graphics` | `ClientData_proofs` |
| `PlotMessage` | `createMessage` and packing in `RPIServiceImpl.cpp` | `graphics` | — |
| `Output` | `IO.cpp`, `getAsyncEvents`, output of children | `output` | `Output_proofs` |
| `ForkPipes` | `UnixForkHandler.cpp` | `end` | `End_proofs` |
| `Termination` | `TerminationTimer`, `quitRPIService` | `end` | `End_proofs` |
| `Session` | `Session.cpp`, `quitRWrapper` | `end` | `End_proofs` |

Composition: `EventLoop`, `BlockingQueue` and `MainThreadCall` are shown to
implement `TaskQueue`, `FifoQueue` and `RemoteCall`; `MainThreadCall` takes its
queues, `Repl` its tasks and its events, and `Output` its event queue as those
promise.  `PlotMessage` stands on `PlotParser`, which stands on `PlotGeometry`
and `PlotFigures`.  `ForkPipes` says where the pipes come from that `Output`
reads.

Definitions named `Mutant of …` are variations of an action, each with a
plausible mistake in it; no specification uses them.  `PROJECT.json` says which
property notices each.

Each run instantiates one to three components, or one component in several
sizes, *side by side*: a module `MC…` extends the first (in `MCDebugger` and `MCOutput`
two, in `MCEnd` all three) and instantiates the others, and a variable `part`, chosen by the initial state and never changed, says which of
the scenarios a behaviour belongs to.  The variables of the other parts rest.
The parts do not interact; a run is several instances checked at once, and a property of the
`MC…` module names the part each of its conjuncts is about.

### BlockingQueue

A mutex makes the code between two waits atomic, so each action is one such
stretch: `Push` and `PushResume` up to the end or the wait, `PopWithDeadline`
and `PopResume` likewise, `Deadline` for the clock, `SetMaxSize`.  `pc` says who
sleeps in the condition variable; `LeaveAndNotifyOne` wakes any sleeper, of either
kind, as `notify_one` may.  The values pushed are members of a small set.
`MaxBacklog` bounds the queue only while no limit is set.  `pop` and `poll` differ from
`popWithDeadline` only in how they wait and have no actions of their own.

### EventLoop

`eventLoopExecute` is two actions, the push into the queue and the byte, with
`pipeMutex` held in between; only that lock and the queue's own order the
threads.  `main` is the stack of activations of the main thread: loops (with the
place each has reached), immediate tasks, and input handlers run by R code.
Every task is posted once: repeated posting is a larger set of tasks.  Which
tasks nest a loop, break or jump is a constant, so a run can mix them.
`ImmediateTasksDoNotNest` is the one assumption made about tasks.  Without it
the code does leave immediate tasks waiting: a loop opened by R code inside an
immediate task never looks at the immediate queue, whose byte was taken already.
`NoLostWakeup` and `PostedTasksStart` name the assumption; the part
`deep` of the run drops it.

### MainThreadCall

One call per member of `Calls`.  `rpc` is where its gRPC handler stands in the
poll, `state` the atomic of the same name, `phase` where the closure stands on
the main thread, `stack` which closures are nested.  The mutex is held by a
handler exactly in `check`, `raise` and `store`, and the Finally of the closure
needs it.  `interrupt` is R's flag, which each closure clears when it begins and
ends.  `quit`, `quitProceed`, `q()` from R code, the 2.5 s limit and the server's
shutdown are actions; once `terminate` is set the main thread runs no closures.
The queues are those of `TaskQueue`: this is what `EventLoop` is proved to
implement.  The push of the termination event is taken to find room.

### Repl

The client acts on the last event it has read (`seen`): a command at a prompt, one
answer per request, input for a process, an interrupt whenever it likes.
`stack` holds commands and requests (readline, debug, subprocess), each with the
`replState` its ScopedAssign will give back and the point it has reached; an event
pushed into the full queue blocks there.  `replInterrupt` is two actions because
it reads `replState` without a lock.  A stop of the debugger is posted like an answer,
or only stored (`StopIsStored`) while code runs with the debugger enabled; it is so
between the event of a debug prompt and the assignment to `replState` behind it, and
may be elsewhere.  `LoopInterrupted` is R's jump out of
`R_checkActivity`, which skips the C++ destructors: `replState` comes back only
with `executeCode`'s handler, `subprocessActive` not at all.  `cut` is a history
variable: the requests that something other than their answer has ended.

### ClientRequests

`stack` is the requests whose `runEventLoop` waits, a view (`sendAsyncRequestAndWait`)
or a request of the RStudio API, each with the flag its ScopedAssign will put back.
A closure run by one of these loops may open another.  The loop is left by the
closure of an answer or of a timer (`RunTask`), whatever request is innermost then;
an API request still has its `Timer` to destroy (`Join`), which waits for a thread
that has fired, and that one waits for its closure to run on the main thread.
`timer` follows each Timer's thread; `dead` is one that read `finished` before the
constructor had set it.  `Jump` is R's jump out of `R_checkActivity`: flags stay up,
timers stay alive.  `left` is a history variable: requests that were over before
their answer came.  The client answers each request at most once, any time.
`nesting`, chosen at the start, says whether the closures that run in these loops
make requests themselves.

### PersistentRefs

`refs` is `persistentRefStorage` (`IndexedStorage`, slots counted from 1), `frames` the
`DataFrameInfo`s, reached through their external pointers in the slots, `cache` is
`dataFrameCache`.  Tables are values of a small set, and one variable of R holds one;
converting them is left out.  A call is atomic but for `createRefresher` and
`viewHandler`, which evaluate R code between two uses of the storage: there the
collector may run (`creating`).  `pending` are the disposals, ordinary tasks that
every other call overtakes.  `initDataFrame` may fail on a new frame and on a refresh,
`createRefresher` may fail to find its environment.  `lost` and `failed` are history
variables, the exceptions of two properties, and so is `regiven`: the client was given
an index that it held or was disposing of.

### References

A value is a record of its type, elements and attributes; R never changes one in
place, so setting a path rebuilds every value above it (`Put`, `NewValue`) and
assigns the variable.  `Dereference` and `SetValue` follow a path of elements,
attributes and parents as the functions of these names do, with the evaluation of a value that is a
call and the deletion that setting NULL in a list is.  `last` remembers what the
client set.  The pages of `loaderGetVariables` are operators of the state.
Left out: promises, classes with their own `[[<-`, references to frames and
expressions, preview texts, attributes of attributes.

### PrintedValue

The main thread's steps are those of the function: replace the handler, print,
count, raise the interrupt of the limit, tell it from the client's, restore.
The client's thread may be between the two writes of the handler.  The
properties name three exceptions that are the code's: an interrupt between
those two writes is lost (`overtaken`), one pending before is swallowed and the
text then counts as whole (`before`), and one that comes in `~WithOption` leaves
the width.

### Breakpoints, Stepping, DebugFlags

`Breakpoints`: the table, the lists by line, masters and slaves; `Hit` and the
evaluation of condition and log are separate steps between which tasks change
anything but the breakpoint being checked.  With three slaves the loop in
`removeBreakpointById` passes one over, since `setMasterBreakpoint` erases from the
list it walks.  `Turn` is one pass of that loop over the list's memory.  A slave that
still has its removed master then points to freed memory: `PassedOver` if there were
more slaves than the loop frees (`LoopFrees`), which the properties name as their
exception, `Gone`, which they exclude, otherwise.

`Stepping`: the stack of R contexts, `executeCode` calls and prompts;
`contextsToStop` by environment; quiet functions that disable the debugger;
`debugCommandPause` and `debugCommandStop` in their two steps.  A call between
its test and `setCommand` may reach the run after the one it tested;
`AsksAreFresh` says that nothing older does.

`DebugFlags`: closures, the body object each has and who shares it.  A closure
copied while it is flagged shares the flag with its copy: `mixed`, excluded.

### SourceText, VirtualFiles

`SourceText`: `Pieces` says what the builder writes for an expression, tokens
and parts in turn; `Build` and `BuildBlock` write them, carrying the builder's line,
column and srcref stacks along; columns count tokens.  The preprocessor reads the resulting positions,
or those of a function laid out over lines in any way.  Left out: the layout
of strings and numbers, EXPRSXP.

`VirtualFiles`: srcfiles, pointers with or without an info, the registry, the
generated ids, and the workspace image.  R's collector works in two steps:
`MarkUnreachable` at any allocation, and `RunFinalizers` later, when R evaluates
something; a pointer may be given out in between (`marked`, and `stale` for the
srcfiles that got one).  `SaveState` is one step, since nothing is evaluated in it;
finalizers may run between it and the writing of the image.  `NewSession` starts a
process with the saved image.

### Output, ForkPipes

`Output`: the stack of `WithOutputHandler`s, the ids that tell them apart, the
writers (main thread, threads of children) with `outputMutex`, and
`getAsyncEvents` with its cached text.  A text is its number in the order in
which it was pushed.

`ForkPipes`: descriptors are numbers; other code opens and closes its own at any
time and may so get a number that was just closed.

### Termination, Session

`Termination`: a tick is the unit of all timeouts, and passes only when no thread
has something to do.  The timer's condition variable is taken apart into test and
sleep, since `quit()` notifies without the mutex.

`Session`: `todo` is the list of calls of R still to make; any of them may fail,
and `Caught` says what an error leaves of the list.  `raise`, after a fault, ends the
process, since the handler has put back the default action.  An error out of `.Last`
makes the client's quit try again without it; a jump to the top level
(`StackOverflow`) does not, and `caller` is nobody's from then on.

### Snapshots

`g` is one record: R's list of devices with the selected one, the stack of
master devices with their snapshots, slot locks, files and recordings.  A
drawing is a number and a page the set of drawings on it.  An action is one command of R or
one call of the client, composed of the code's functions in their order.  R's
choice of the next device when the selected one closes is external.  A dump records
the display list of whatever device is selected; `astray` marks a snapshot whose
recording is of another device than its own.

### PlotGeometry, PlotFigures, PlotParser, PlotMessage, PlotPreview

Coordinates are integers, `isClose` is equality (EPSILON is far below the unit),
and thresholds are small constants.  An action of `Acts` knows what R draws at each of four sizes; the
parser sees two of them, and the properties ask what the client would draw at
the others.  `PlotMessage` packs and reads back.  `PlotPreview` takes one polyline
and one batch of circles and computes their masks.

## 4. Runs, bounds and results

| run | parts | states | shows |
|---|---|---|---|
| `queue` | 3 pushers, 1 reader, limit 1, backlog 3; 2 pushers, 2 readers, limit 2 | 6 056 | FIFO and limit, no sleeper beside room, waiting pushes end |
| `event_loop` | `flat`: 3 ordinary tasks (nests; breaks; plain or jumps), 2 immediate; `deep`: two breakers, a nesting ordinary and a nesting immediate task | 84 797 | wake-ups, breaks, order, every task starts |
| `main_thread_call` | `nested`: nested, immediate, endless and cancelled calls and quit; `flat`: calls that do not nest | 224 109 | frames, interrupts, refinement, the end |
| `console` | 3 commands, 2 requests, 2 interrupts, 1 text for a process, event queue of 2 | 269 632 | client and kernel agree about the prompt |
| `client_requests` | 3 requests, 1 jump; two deep, or one at a time | 108 959 | the innermost is heard, own answers, requests end |
| `values` | `exclusive`, `shared` (data frames); `lists`, `pages`, `parents` (references) | 1 848 222 | slots, what references mean |
| `debugger` | `flags`; `links`, `lines`, `crowd` (breakpoints); `steps`, `asks` | 688 395 | where R stops, and that bodies and links come back |
| `sources` | `files`, `restored`; `written`, `read` (texts) | 965 019 | ids and positions |
| `virtual_files_marked` | `files` | until violated | a protected info may be deleted (below) |
| `graphics` | `plots`, `chunk`, `memory`; `layout`, `layers`, `figures`; `polylines`, `circles` | 553 385 | snapshots, messages, previews |
| `output` | `handlers`, `events`, `writers`; `printed` | 213 891 | output finds its call, order, progress, interrupted printing |
| `end` | `timer`, `session`, `pipes` | 194 792 | deadlines, saving, descriptors |

Why the bounds suffice to meet the interesting cases:

* `queue`: limit 1 and three pushers make a wake-up that goes to the wrong waiter
  matter: it can be passed to another pusher or to the reader.  With two readers
  the property needs no more threads than twice the limit, which holds for the
  kernel (limit 8, one reader except while a client reconnects); three pushers and
  two readers at limit 2 can leave a sleeper beside room.
* `event_loop`: one nesting and one breaking task are the least for a break that
  could be seen by the wrong loop; the second breaker of `deep` lets an outer loop
  break right after an inner one.
* `main_thread_call`: a call nested in another meets cancellation of either, an
  immediate call in the middle, and quit at any point.
* `console`: three commands are the least that show a command going astray (typed
  at a debug prompt, run in a readline loop); an event queue of two makes pushes wait.
* `client_requests`: three requests two deep are the least where a late answer, or
  an outer timer, meets a nested request that has another one after it.
* `values`: two frames with an environment each fill four slots, and three indices
  given (two where they may be given again too early) are enough to reuse a slot while an older disposal
  is on its way.  Lists of lists, two variables and pages of every size reach each
  kind of step of a reference.
* `debugger`: three breakpoints give chains and exchanged masters, and two slaves to
  free; four (`crowd`, one line, one level) three slaves, of which one is passed over;
  two positions without masters give moves from line to line.  Three closures are two that share a body and one that does not.
  Five contexts are a call, a debugged call, a quiet one, an eval that shares an
  environment, and one more to step out of.
* `sources`: three pointers for two virtual texts and a file and an id that is given
  again (`MaxFileId` 1) meet every order of registering, marking and finalizing in one
  session; two srcfiles at a time, saved by the first session, that of saving and reading
  back in the second; the written functions have each kind of expression in each place
  where a block changes the positions, the read ones any of `McLayouts`.
* `graphics`: plots with four drawings in all and a device of the user, or three
  devices on the stack for a chunk, and up to three snapshots of a device.  Layouts and layers have up to five actions,
  which is a clipping, a figure, a second clipping, a figure and one that covers;
  four for figures of every kind.  Polylines of six points on a 3 by 2 grid have every
  sharp turn; four circles are a batch of which some hide behind later ones, with and
  without one shown between.
* `output`: four handlers are two nested ones and two that follow each other;
  three texts with a limit of one block the writers and fill the cache.  With a
  printing limit of two there is a value below the limit, one at it and one beyond it.
* `end`: a round of the timer is 7 ticks instead of 60 and all other timeouts are
  in proportion; two forks and six descriptors let descriptors run out at each pipe.
  Two sessions, two versions of the workspace, two errors.

### Properties, by module

A property of a run that works in parts is a conjunction; its conjuncts:

* `BlockingQueue`: `ImplementsFifo` (refinement), `NoSleeperBesideRoom`,
  `PushesEnd`.  The last holds once no new push begins; while new ones keep
  coming, a woken pusher may lose the race for the room each time.
* `EventLoop`: `NoLostWakeup`, `BreakBelongsToTop`, `ImplementsTaskQueue`;
  `EveryTaskStarts` is `PostedTasksStart` in both parts.  `FlagMatchesPipe` (the
  read in the handler never blocks with the lock held) is proved only.
* `MainThreadCall`: `NoDanglingFrame`, `NoStrayInterrupt`,
  `ImplementsRemoteCall`; `FlatCallsEnd` is `CancelledCallsReturn` and `QuitCompletes`.
* `Repl`: `QuietMeansTold`, `AnswersCount`, `ClientIsTold`.
* `ClientRequests`: `InnermostIsHeard`; `OwnAnswer`, where requests do not nest;
  `RequestsEnd` is `OnlyAnswersStick` and, where they do not nest, that their timeout
  ends them.
* `PersistentRefs` (`FramesAreKept`): `HolesAreFree`, `HandlesHold`, `AnchorsHold`,
  `NothingElseIsLost` and `GivenFramesShowTheirTable` until an index is given again
  too early (`regiven`); `NoDanglingFrame` ever after too.
* `References` (`ReferencesMeanTheirValues`): `GetAfterSet`, `OthersStay`,
  `PagesOfLists`, `PagesOfEnvs`, `ParentsOnceEach`.
* `PrintedValue` (`PrintingIsInterruptedOnPurpose`): `InterruptArrives`,
  `NoStrayInterrupt`, `TextIsWhole`, `WidthComesBack`.
* `DebugFlags`: `BodiesComeBack`, `StopsAsAsked`.  `Breakpoints`
  (`BreakpointsKeepTheirLinks`): `LinksAgree`, `MastersExist`, `EachOnItsLine`,
  `ArmedByMaster`.  `Stepping` (`SteppingFollowsTheStack`):
  `StepsStopWhereTheyShould`, `EnabledFitsStack`, `AsksAreFresh`.
* `VirtualFiles`: `RegistryIsTheInfos`, `TextsHaveTheirOwnIds`; `IdsOutliveSessions`
  is `IdsStay` and `IdsAreRestored`.  `SourceText` (`SourcesMeanTheirStatements`):
  `StatementsSpanTheirText`, `TextTellsFunctions`, `WrittenLinesAreUnmarked`,
  `OneBreakpointPerLine`, `UnextendedIsOutermost`.
* `Snapshots` (`SnapshotsShowTheirPlots`): `DumpedFilesAreTrue`, `GgPlotsAreMarked`,
  `RecordingsAreTrue`, `NothingBehindADump`, `SlotsAreHeld`, `FetchedIsTrue`.
* `PlotParser`, `PlotMessage` (`PlotsMeanTheirRecordings`): `RightAtReplays`,
  `RightEverywhere`, `PaintersOrder`, `AxisTextBesideAxes`, `PreviewIsCheaper`,
  `MessageMeansPlot`.  `PlotPreview` (`PreviewsKeepShapes`): `CountsWhatShows`,
  `RemovedAreNearTheLine`, `HiddenBehindShown`.
* `Output`: `OutputFindsItsCall` is `OwnOutput` and `LiveHandlersOnly`;
  `TextsComeAsWritten` is `TextsStayInPlace` and `TextsKeepTheirType`; `OutputGetsOn`
  is `TextsArrive` and `WritersGetOn`.
* `Termination`: `GoneInTime`, `AbortOnlyWhenStuck`, `NoEarlyEnd`.
  `Session`: `SessionsEndAsAsked` is `QuitDoesAsAsked`, `DirectoryComesBack` and
  `ImagesAreComplete`.  `ForkPipes`: `PipesBelongToTheirFork` is `ClosesOwnOnly` and
  `ChildrenHaveTheirEnds`.  `EndsAreReached` is what must happen in these three:
  `QuittingEnds`, `ClientsQuitEnds` and `PipesAreClosed`.

### What the models showed about the code

One run contradicts what a comment of the code relies on:

* The info of a virtual file is destroyed in the finalizer of its pointer, "so it's
  required to protect" the pointer (`debugger/SourceFileManager.h:68-69`).  That is not
  enough: `getVirtualFileById` (`debugger/SourceFileManager.cpp:66`) gives out a pointer
  that the collector has already found unreachable, and the finalizer still runs.  A
  breakpoint removed and set again may so lose its file (`virtual_files_marked`), and a
  srcfile its id.

Beyond that, in the order of the modules.  These are recorded as hazards and notes,
and where a property would be refuted it names them as exceptions.

Console and calls:

* A command typed at a debug prompt that an interrupt closes meanwhile runs in the
  next loop.  If that loop belongs to readline, executeCode ends by announcing the
  ordinary prompt while readline still waits (`ExecuteCode.cpp:84-95`).
* A stop of the debugger that the client sends as soon as it reads the event of a debug
  prompt may find `replState` still REPL_BUSY (`ExecuteCode.cpp:173-174`,
  `debugger/DebuggerMethods.cpp:74`).  It is stored for the next statement, and the prompt
  that opens waits although the client has answered: `StopLost` in the properties.
* An answer to a readline that was interrupted answers the next readline
  (`ExecuteCode.cpp:230-241`); the answer to that one is then lost.
* With nested calls the cancellation of the outer one can be lost, because the inner
  closure clears the only flag (`RPIServiceImpl.cpp:723`).
* Immediate tasks can wait behind a loop opened by another one (above).
* If an answer ends an RStudio request just after its timer has fired, the main
  thread joins the timer's thread, which waits for the main thread
  (`RPIServiceMethods.cpp:302-312`): the state `Stuck` of `ClientRequests`.
* A response that comes after its request's timeout answers the next request, and
  the timer of an outer request ends the one nested in it, after which the outer one
  waits without a timer (`RPIServiceMethods.cpp:307`, `:325`).

Values:

* A table registered again while its index is being disposed of gives the client an
  index that is freed right after (`RRefs.cpp:97`, `DataFrame.cpp:135`).  The second
  disposal can then free an index that is a frame's own environment, which the frame's
  finalizer frees once more without asking `has` (`DataFrame.cpp:202`): the hole is
  listed twice and two values share a slot.  Without the exception `regiven`
  `HandlesHold` and `HolesAreFree` fail in this way (traces of 6 and 14 steps), and so
  does `GivenFramesShowTheirTable`, once such an index has been disposed of twice
  (17 steps, with three frames).
* A refresh that fails half way is never repeated (`DataFrame.cpp:449-450`).
* Setting an element of a list to NULL through a reference deletes it and moves those
  behind it.  A page that begins at or beyond the end of a list is not empty.
* An interrupt of the client that comes before a value is printed is swallowed and
  the truncated text counts as whole; one that comes between the two writes of the
  handler is lost (`RStuff/RUtil.h:82-111`).

Debugger and sources:

* With three slaves `removeBreakpointById` leaves one whose master is gone
  (`debugger/RDebugger.cpp:112`): `PassedOver` in the properties.
* A stop that is stored just before `sendDebugPrompt` sets CONTINUE is lost.
* The srcref of a `{` and of a whole text on a line that got a library title is
  shifted (`debugger/TextBuilder.cpp`).

Graphics:

* Each plot on a device of the user leaves one more slave open
  (`graphics/MasterDevice.cpp:342`, `:471`).
* A dump while another device is selected records that device
  (`graphics/MasterDevice.cpp:662`).  The properties except such recordings (`astray`),
  the files that are replayed from them and what is fetched of them.
* Drawings on the proxy after `dev.off()` hold a slot.  When a fetch frees it, the next
  slave of a chunk's device takes that one and leaves the slot of its lock empty.
* A polyline that runs back along itself loses in its preview what lies beyond its last
  point, because distances are to the line and not to the segment
  (`graphics/PlotUtil.cpp:552`); a middle column drawn first becomes a viewport of fixed
  size (`:480`); `clipLine` fails for a line that enters exactly through a corner.
* After `dev.off()` of the master device plots go to the proxy and are never shown.

Output and the end:

* A child forked while a thread holds `outputMutex` has it locked for ever (`mute`).
* A reader of events that is cancelled loses the text it has cached and at most one
  event more.
* A jump to the top level out of `.Last` (a stack overflow) is not caught by the client's
  quit (`RPIServiceMethods.cpp:89`), which is then forgotten.
* The timer's `notify` without the mutex can be lost, which delays the end of the
  process by up to a round of the timer.  Saving that takes longer than the rest of
  the grace period is aborted.  A client that calls but never reads leaves the push of
  the termination event waiting (`RPIServiceImpl.cpp:845`).
* An interrupt escapes `catch (RError)` while the workspace is saved: the working
  directory stays changed, and the next attempt finds `done` set and exits without
  saving or telling the client.

### Fairness

Threads inside the code keep running (weak fairness of their steps): a scheduler
that starves a runnable thread for ever is not assumed.  In `BlockingQueue` waits
with a deadline end and the reader keeps reading, as getAsyncEvents does in its
loop; nothing makes a thread push.  In `EventLoop` tasks end, but one that opened a
loop only after that loop's break, which nobody is obliged to request.  In
`MainThreadCall` the closure's Finally needs strong fairness: the handler leaves its
mutex free for up to 25 ms in every round, so the main thread gets it some
time.  Functions in `Endless` end only when interrupted.  Clients need not cancel,
answer or quit.  In `Repl` R code and processes end and the client reads events;
it need not send anything.  In `ClientRequests` deadlines pass and the main thread
runs what is posted; the client need not answer.  In `Output` a text begun is pushed,
the threads of children go on, and a client that stays reads; nothing makes anyone
write.  In `Termination` time passes, the timer's thread and the main thread's
quitting go on, and an open client reads its events; nothing makes R quit.  In
`Session` a quit or a load that has begun goes on; in `ForkPipes` a fork that has
begun, and a reader whose pipe has ended.

`CHECK_DEADLOCK FALSE` is set where the instance may really stop: every task has
run, every call has returned, or the user does nothing any more.

## 5. Proofs

Checked by TLAPS for every value of the constants, from the assumptions named in
the modules (`QueueAssumption`, `TaskAssumption`, `CallAssumption`,
`RequestAssumption`, `ReplAssumption`, `OutputAssumption`, `PrintAssumption`,
`TerminationAssumption`, `PipesAssumption`, `DebugFlagsAssumption`,
`SteppingAssumption`, `BreakpointsAssumption`, `VirtualFilesAssumption`,
`RefAssumption`, `ThresholdsAssumption`, `PreviewAssumption`).  They give the constants their types and tell their
members apart; beyond that, `TaskAssumption` says that a task that breaks a loop
neither opens one nor jumps, and `VirtualFilesAssumption` that there are finitely
many pointers and that no path looks like a generated id.

**EventLoop_proofs.**  `IInv` is the conjunction of the types, `FlagMatchesPipe`,
`BreakBelongsToTop`, `BelowInv` (an activation below the top is a task that may
nest, or a handler waiting for what it runs), `PlainInv` (what can be on the
stack, and where) and, if immediate tasks do not nest, `ServingInv` and
`UrgentInv`: every queued task has its byte in the pipe, a poster about to write
one, or an activation that will still poll its queue before it blocks.
`NoLostWakeup` alone is not inductive: the step into `block` needs to know that
tasks pushed since the byte was taken have written another.  Lemmas follow the
shapes of steps (posting, moving the top, entering, leaving, unwinding) and each
action is an instance of one.  `Refinement` needs in addition that a task is
queued at most once (`QueueInv`).

**MainThreadCall_proofs.**  The invariant ties `state`, `rpc` and `phase`: which
combinations occur, that a queued closure is pending and its handler in flight,
that closures on the stack are distinct, and that the interrupt flag is up only
with a cancelled call on the stack.  From it: no stray interrupt, no dangling frame,
the refinement to `RemoteCall`.

**Repl_proofs.**  `QuietIsTold`: when the main thread waits and nothing is under way,
the client shows the request waited for, or has stopped it while it opened
(`StopLost`).  `AnswersAreTaken`: commands and answers
are taken by the loop they were sent to.  Neither is inductive, because a
loop comes back when what is nested in it ends.  `StackShape` says that commands and
requests take turns on the stack, `StateFits` what `replState` each of them will put
back, `RefsFit` that tasks, events and the client refer to requests by their right
kind and by no number not yet given.  `Turns` is the heart: among tasks, stream and
client at most one thing asks for or brings an answer, it concerns the loop that
waits (`OneTurn`), and there is one (`Told`).  An interrupt ends a request without
its answer, so all this counts for requests that are not in `cut`, and no longer
once a command has run in a loop it was not sent to (0 in `cut`), the case
recorded in section 4.

**ClientRequests_proofs.**  Type correctness.  `InnermostIsHeard` says nothing of
the requests below the innermost one, so `FlagInv` says that the flags of all of
them are up and that a request nested in one of its kind puts back a flag that is
up; every way a request opens or ends is one of four changes of the stack.
`TimerInv`: a response or result that comes from a timer comes from one whose closure
has run, which gives `OnlyAnswersStick` (`TimeoutsEnd`).  `AnswersFindTheirRequest`
(`OwnAnswer`): a request that is over and was ended by its own answer is silent for
ever, its answer consumed and its timer unable to fire (`Settled`); what ends a
request before which all are silent is its own (`FlatInv`).

**Output_proofs.**  The way of a text, in `BlockingQueue`, `Output` and `PrintedValue`.

* `Refinement`: each action of the queue is a `Put`, a `Take`, a `Resize` or a
  stutter; the limit after a wake-up is the point of looking at the size again.
  `NoLostRoom`: with a single reader no pusher sleeps beside room unless a thread is
  up.  The property is its own inductive invariant: a step that makes room wakes
  somebody whenever somebody sleeps, and the awake thread uses the room or passes
  the wake-up on.
* `CallsGetTheirOutput` (`OutputFindsItsCall`).  `HandlerInv`: ids are given once and
  grow along the stack of calls in force (`IdsGrow`), so the test of the current id
  that a child's thread makes with `outputMutex` held tells its own call from any
  other (`ChildrenKnowTheirCall`), and nobody replaces the handler before it has
  written (`MutexIsHeld`).
* `TextsArriveInOrder` (`TextsComeAsWritten`).  `ReadingInv`: what the client got, what
  the call in charge has cached and what is queued are consecutive stretches of
  what was pushed (`Lined`, `StreamIsTheRest`), with nothing missing unless a call
  was cancelled (`Covered`).  A cancelled call takes one more event at most (`OneReads`).
* `PrintingIsSound` (`PrintingIsInterruptedOnPurpose`).  `PrintInv` follows an
  interrupt of the client from its thread over the pending flag to the place where
  the call tells it from that of the limit.

**End_proofs.**  The timer, for every length of round and grace: the process is gone
in time (`AlwaysGoneInTime`), is aborted only when stuck (`AlwaysAbortOnlyWhenStuck`)
and does not end early (`NeverEarly`).  The deadlines are sums of what several waits
take, so the invariant follows the clock through them: `RoundIsSilent` (a round without
a call was silent since it began), `SilenceIsShort` (the silence before and in a round is
at most two rounds), `GraceAddsUp` (what has been waited for and what may still be
is the grace) and `Ends` (who may have ended when).

`SessionsAlwaysEndAsAsked` (`SessionsEndAsAsked`), for any number of sessions, versions
and errors.  What is left to do is a sequence, but all that matters is which steps are
in it (`Left`), because they are always made in one order (`InOrder`, by `Rank`): the
lemmas `JoinedFacts`, `TailFacts` and `CaughtFacts` say what joining, making a step and
catching an error do to the set, and the invariant speaks of the set alone.  `Procedures`:
which steps imply which others, so that an error that is caught finds the way back.
`HelperIsThere`: an image will be written with the helper, and `rm` can fail only before
the directory has changed, for it shares its handler with the way back.  `QuitGoesOn`:
while R is away from its directory `setwdBack` is left to do, while a session has begun
to end `exit` is, and what `exit` will find saved or untouched is so already or comes
before it.

`PipesAlwaysBelongToTheirFork` (`PipesBelongToTheirFork`), for any number of
descriptors and forks.  That nothing foreign is closed is a matter of whose the
remembered numbers are when they are used: `FirstPipe` and `BothPipes` say it of the
globals at each place of the fork, `ReadersReadTheirs` of the threads, each of which
has the only read end of its pipe until it closes it.

**Debugger_proofs.**  `AlwaysBodiesComeBack` and `AlwaysStopsAsAsked` for any
closures.  Two closures may share one body object, so neither is inductive alone:
`Shared` says that sharing is an equivalence whose classes have one body,
`SharedIsPlain` that such a body carries no flag, `FlagsAsAsked` that flags are what was
asked for, and `BlocksForFlags` that a generated block is there exactly for the flags
of a body that is none.

`SteppingIsSound` (`SteppingFollowsTheStack`) for stacks of any height.  What it
says of the top of the stack must come back when calls and runs go:
`StackShape` says where runs and prompts are, `EnabledFits` that every entry will put
`enabled` back to what the stack below it says (`Loud`: no quiet call above the
last run), which makes the on.exit code of several calls that an error unwinds at
once add up.  `StepsFit` says what `contextsToStop` holds of the contexts that are
left since the command was given: none above the limit of the command, and for
each one at or below it an entry of its environment that is not below it.  This
is enough although environments are shared and reused, since an entry counts only
with its depth.  `AsksFit`: a pause or stop in force was heard by the innermost run.

`BreakpointsAlwaysKeepTheirLinks` for any breakpoints.  `Linked` says of any table,
and `OnLines` of any lists, that who is in a list is there once and exactly if the
fields say so; so it can be followed through `setMasterBreakpoint` called several times on
the way to the next state.  `LoopFreesThem` computes the loop of `removeBreakpointById` for
up to two slaves: the first is erased, and the second, which moved to its cell, is
found again in the one it came from (`SecondCell`).  For any number of slaves the loop
exists (`TurnsExist`) and each turn takes from its cells a breakpoint that is there or
was (`TurnFits`), so it keeps the table linked (`LoopKeeps`); what it passes over is the
exception.

**ClientData_proofs.**  `AlwaysRegistryIsTheInfos`: the registry and the infos of
the live pointers are inverse to each other, in the running process and, one to one,
in a saved image (`OneToOne`), which is what a new session begins with.  `OwnIds`
(`TextsHaveTheirOwnIds`): every id of a srcfile is its path or a generated one, in the
process and in the image (`LiveInv`, `ImageInv`); an id is generated only if the
registry does not have it, and among as many numbers as there are pointers and one
more one is free.
`IdsNeverChange` and `IdsComeBack` together are `IdsLast` (`IdsOutliveSessions`): a srcfile
whose pointer the collector has marked got it afterwards (`StaleInv`), and what `saveState`
has returned has every file that still lives (`CopiedInv`).

`RegisteredFramesAreKept` (`FramesAreKept`) and `FramesNeverDangle`, for any number of
tables, frames, slots, handles and disposals.  The invariant `RefsInv` has two halves.
`Shape` holds always: no slot and no entry of the cache leads to a frame that is gone,
and a cached frame that is still in a slot shows its table (`FramesShow`).  `Kept` holds until an index is given again too
early: the storage is sound (`Sound`: its holes are its empty slots, each listed once,
which `Add` and `Remove` keep), and handles, disposals on their way, anchors of frames
and the call in progress each own their slot and nobody owns another's (`HandlesOwn`,
`PendingOwn`, `AnchorsOwn`, `CallOwns`), so whoever frees an index frees his own.

`PreviewsAlwaysKeepShapes` (`PreviewsKeepShapes`), for polylines and batches of any
length with integer coordinates and for any thresholds.  What the two recursions of
`buildPreviewMask` compute is reached in two steps, each by the least length at which it
fails (`BeginsNowhere`): the recursive function exists (`CircleMasks`, `LinePreviews`),
since a range calls only shorter ones (`Halves`), and what it gives keeps its shape
(`CirclesShow`, `RangesKeep`).  `KeepsShape` is `PreviewsKeepShapes` of a range, and says
also that the ends of the range show: therefore two ranges that share a point count it
once when they are joined (`JoinedKeep`).  The loop finds a point that is as far from the line as any
(`FarthestIsThere`); when it is near, they all are (`StraightKeeps`).

Only model-checked:

* all liveness properties, since liveness under fairness and ENABLED are out of
  the prover's reach;
* `SourceText`, whose builder is recursive over expressions with RECURSIVE
  operators, about which the prover says nothing, and `PlotParser` and `PlotMessage`, whose
  properties compare what readers make of whole lists of drawings;
* `References`, whose `Dereference` goes along paths;
* `Snapshots`, whose safety is yet to be proved: that a recording is of its own
  snapshot rests on which device R selects when another closes, and so on the slot
  every device, slave and lock has in R's list.

## 6. Not modelled

The map covers about 32 % of the implementation's lines; the vendored
`cxxopts.hpp` alone makes up 12 % of them.  Components with status `not_modelled` have
their reason in `PROJECT.json`.  Of the parts that are modelled:

* Everywhere: contents of events and results, logging, the Windows variants.
* Event loop and console: `_isEventHandlerRunning` and R's own event handlers, code
  executed outside the console (it leaves `replState` alone), exceptions other than
  jumps and interrupts (executeOnMainThread swallows them).
* system(): the reader threads, timeouts, background and nested processes.  From
  reading: nested calls share `subprocessActive`, and if the outer process ends first
  the main thread joins a thread that waits for the main thread
  (`Subprocess.cpp:142`); a timeout after a natural end reports 124.
* Values: promises, classes with their own `[[<-`, references to frames and
  expressions, preview texts, attributes of attributes; cyclic chains of environments.
* Debugger: the text of stacks, exceptions at a prompt, removal of the breakpoint
  being evaluated, the client changing a breakpoint that the kernel removes after its
  hit, functions marked doNotStop, primitives.
* Sources: the layout of strings and numbers, NaN and names of vectors, EXPRSXP,
  `srcProcessedFlag`, suggested names.
* Graphics: `dev.new()` on a living device, devices of the user that are open when a
  chunk starts, `graphics.off()` before a fetch, images, texts, angles, winding.
* Output: Windows' console encodings, forks by children, output after the service
  has gone.
* The end: spurious wake-ups, `R_CleanUp` itself, a stack overflow outside `.Last`.
