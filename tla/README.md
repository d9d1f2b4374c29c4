# A TLA+ model of the threads and queues of gn-build-workspace

The repository is a GN workspace around a slice of WebRTC. Its own program is
small: `src/example/tutorial.cc` records audio through
`webrtc::AudioDeviceModule`; everything between the tutorial and the sound card
is in `src/workspace/webrtc`. What is hard in that path is not the signal
processing but the threads: task queues, message-queue threads and the calls
posted between them, a suspendable thread class that this repository added to
`rtc_base/platform_thread.*`, a lock-free queue, an audio buffer shared by four
threads, and a device with two threads of its own. This project models those parts, checks
them with TLC and proves what matters most about them with TLAPS.

Paths below are relative to `src/workspace/webrtc`.

## 1. Inventory

| Component | State it keeps | Operations | What is hard | What makes it correct |
|---|---|---|---|---|
| `TaskQueueBase` (`api/task_queue`) | none: an interface | PostTask, PostDelayedTask, Delete | the contract between callers and queues | FIFO among immediate tasks, no overlap, no early start, nothing runs after Delete |
| `TaskQueueStdlib` | FIFO, map of delayed tasks, order counter, quit flag, three events | the same, plus the worker loop | event signalled outside the lock, clock read outside the lock, narrowing of the sleep time | no lost wake-up, posting order, deletion after the worker's last access |
| `TaskQueueLibevent` | pending list, pipe, timers, `is_active_` | the same, plus OnWakeup, SetTimerTask, RunTimer | one byte per batch, written outside the lock; full pipe; 32-bit clock | one wake per batch, pipe never full, contract of TaskQueueBase |
| `TaskQueueWin` | FIFO with its event, message queue of the thread, heap of delayed tasks, timers of two kinds | the same, plus the message loop and RunDueTasks | three things to wait for at once, a timer that elapses while it is replaced, a full message queue, a message loop with a time limit | no lost wake-up, one timer for the earliest task, contract of TaskQueueBase |
| `TaskQueueGcd` | dispatch queue | the same | behaviour of libdispatch | contract of TaskQueueBase |
| `rtc::Event` | flag, condition variable | Set, Reset, Wait | timeout racing Set | a Set is neither lost nor counted twice |
| `rtc::ThreadHandle` | `status_`, thread handle, condition | Start, Stop, Suspend, WakeUp, destructor, Run | status read with and without the lock, two-step Stop, bare `cond_.wait` | one thread at a time, kStop means exited, Stop returns |
| `SwapQueue` | ring, two private indices, atomic counter | Insert, Remove, Clear | no lock at all; Clear during Insert | a slot has one user, bounded FIFO |
| `AudioDeviceBuffer` | activity flags, counters, log state | Start/Stop of both sides, audio callbacks, posted resets and reports | main thread, two native threads and a task queue | counters never run backwards, logging follows media |
| `AudioDeviceModuleImpl` | the device and the buffer | Start/Stop, registration, delegations | device failure after the buffer was started | buffer and device agree |
| `OperationsChain` | FIFO of operations, on-empty callback | ChainOperation, OnOperationComplete | re-entrancy | each operation runs once, in order |
| `RepeatingTask`, `PendingTaskSafetyFlag` | next run time; alive flag | Start, Stop, Run | stop while a copy is queued | nothing runs after Stop |
| `FileAudioDevice` | files, buffers, two threads | Init/Start/Stop, thread bodies | lock released around callbacks | buffers outlive their thread |
| `FineAudioBuffer`, `common_audio/ring_buffer` | sample counts | Get/Deliver; read, write, move | boundary arithmetic | no sample lost or repeated |
| `rtc::Thread` | message queue, delayed messages, socket server, send graph | Post, PostDelayed, Send, Get, Quit, Stop, Delete, Clear | Send waits on the sender's own socket server; `stop_` is tested outside the lock | no lost wake-up, Send is synchronous, threads never wait for one another, contract of TaskQueueBase |
| `AsyncInvoker` | counter of closures, event, `destroying_` | AsyncInvoke, Flush, Clear, destructor | functors invoke, clear and run while the destructor waits | no closure outlives the invoker, the destructor returns |
| platform audio devices | handles of the sound system | Init/Start/Stop | behaviour is outside the repository | - |
| audio processing, coding, mixing, `common_audio`, `system_wrappers` | sample data | numerical code | not a matter of interleaving | - |
| build scripts, GN files, `third_party`, `test` | - | - | - | - |

Interactions. `AudioDeviceModuleImpl` owns a device and an `AudioDeviceBuffer`;
the buffer owns an `rtc::TaskQueue`, which is one of the
implementations of `TaskQueueBase`; `TaskQueueStdlib` owns a `PlatformThread`,
a mutex and three `rtc::Event`s; `TaskQueueLibevent` owns a thread, a pipe
and an event loop. `ThreadHandle` stands beside `PlatformThread` in the same
files and is used by deriving from it. `SwapQueue` joins the render and capture threads of the
audio processing module. `rtc::Thread` is itself a `TaskQueueBase`;
`AsyncInvoker` posts its closures to `rtc::Thread`s. `FileAudioDevice` is the
device below `AudioDeviceModuleImpl` that is wholly in the repository: its two
threads call the `AudioDeviceBuffer`.

`PROJECT.json` lists the hazards of this code line by line, with the properties
that would catch each of them going wrong. Further hazards lie outside the models:
the conditional Suspend of `ThreadHandle` evaluates its condition again in the next
round (`platform_thread.cc:347`); `Run` reads `thread_` while `pthread_create` may not
have stored it (340); a class derived from `ThreadHandle` loses its members before the
base destructor stops the thread (212); `rtc::Thread::Get` narrows its wait to `int`
(`thread.cc:520`); `Flush` leaks the closure when the thread quits
(`async_invoker.cc:66`); `SetTimer`'s result is not looked at
(`task_queue_win.cc:389`), and delayed messages behind WM_QUIT are not freed (321);
`OperationsChain` may be re-entered (`operations_chain.cc:78`), and a `RepeatingTask`
that is always late is reposted without pause (`repeating_task.cc:44`).

## 2. Modules

| Module | Models | Role |
|---|---|---|
| `TaskQueueBase` | the comments of `task_queue_base.h` | abstract specification |
| `TaskQueueStdlib` | `task_queue_stdlib.cc`, with the parts of `event.cc` it uses | refines `TaskQueueBase` |
| `TaskQueueStdlibProofs` | - | proofs, the refinement included |
| `TaskQueueLibevent` | `task_queue_libevent.cc` | refines `TaskQueueBase` |
| `TaskQueueLibeventProofs` | - | proofs, the refinement included |
| `TaskQueueWin` | `task_queue_win.cc` | refines `TaskQueueBase` |
| `TaskQueueWinProofs` | - | proofs, the refinement included |
| `RtcThread` | `thread.{h,cc}` over `null_socket_server.cc` | several threads, each refines `TaskQueueBase` |
| `RtcThreadProofs` | - | proofs, the refinements included |
| `AsyncInvoker` | `async_invoker.{h,cc}`, `async_invoker_inl.h`, Clear of `thread.cc` | component, on top of `rtc::Thread` |
| `AsyncInvokerProofs` | - | proofs |
| `ThreadHandle` | `platform_thread.{h,cc}`, POSIX and macOS branch | component |
| `BoundedFifo` | the class comment of `swap_queue.h` | abstract specification |
| `SwapQueue` | `swap_queue.h` | refines `BoundedFifo` |
| `PrimitivesProofs` | - | proofs of `ThreadHandle` and `SwapQueue`, whose names begin with `Swap` where the two would clash |
| `AudioDeviceBuffer` | `audio_device_buffer.cc` as `audio_device_impl.cc` drives it | component, on top of the contract of `TaskQueueBase` |
| `AudioDeviceBufferProofs` | - | proofs |
| `FileAudioDevice` | `dummy/file_audio_device.cc` with the parts of `audio_device_impl.cc` and `audio_device_buffer.cc` it meets | composition |
| `FileAudioDeviceProofs` | - | proofs |

Variables keep the names of the members they stand for. A program counter per
thread (`wpc` for a worker, `ppc` for a posting thread, `opc` for the owner)
says where a thread is between two shared accesses. Variables under "history"
are not in the code; they record what the properties talk about (order of
posting, promised start, tasks started) and no guard of a code action depends
on them, except that a task object is not posted while it is in use. In `stdlib`,
`libevent` and `rtc_thread` it is posted once; in `win` it is made anew after it ran
(`NewTask`, which `TaskQueueBase` has, too), so that posting never has to end. In `TaskQueueLibevent` and
`RtcThread` the abstract FIFO is a history variable too, `fifo`: immediate and
delayed tasks share one list in the code, and a proof cannot compute the selection
of the immediate ones by recursion, but it can keep a sequence and show that it is
that selection (section 4).

Grain of atomicity. A critical section is one action. So is every access to
shared state outside a lock: an event's Set and Wait, a byte written to a pipe,
an atomic load or exchange, a read of the clock. Whatever happens between two of
them, other threads may run.

**TaskQueueStdlib.** `PostTask` is a critical section (`PostTask`) and a signal
(`NotifyWake`). `PostDelayedTask` computes `fire_at` (`PostDelayedTask`), inserts
into the map under the lock (`InsertDelayed`; equal keys replace each other, as
`std::map` does) and signals. The worker reads the clock (`ReadTick`), takes the
lock and decides (`GetFinal`, `GetPending`, `GetDelayed`, `GetNothing`), runs a
task, or waits (`EnterWait`, `WaitSignalled`, `WaitTimesOut`). `ToInt` is the
implicit conversion of the `int64_t` sleep time to the `int` parameter of
`Event::Wait`; its width is the constant `IntModulus`. `Delete` is four actions:
set the quit flag, signal, wait for `stopped_`, join and free.

**TaskQueueLibevent.** libevent is external: its loop runs the pipe's callback
when the pipe is readable and the callbacks of due timers, the earliest first,
and stops after `event_base_loopbreak`. `PostTask` pushes under the lock and
writes a byte afterwards if the list was empty (`Push`, `WriteByte`). A delayed
task posted from another thread travels as a `SetTimerTask` through the same
list and is turned into a timer by the worker, which subtracts the time already
spent with two 32-bit clock readings (`Remaining`, modulo `Time32Modulus`).
`OnWakeup` is `ReadByte`, `SwapPending` and the run of the batch.

**TaskQueueWin.** The Windows API is external, modelled from its use and its
documentation: `PostThreadMessage` fails when the queue holds `MaxMessages`;
`MsgWaitForMultipleObjectsEx` prefers the first handle that is signalled and
returns for messages only if one has come since the queue was last looked at
(the code does not pass `MWMO_INPUTAVAILABLE`; that is the variable `input`);
`WM_TIMER` is made up, as long as its timer has elapsed and is not killed, when
no posted message is left; `timeSetEvent` may fail, and the code then falls back
to `SetTimer`; timers have a clock of their own and may elapse early. Each pass
of the worker is cut at every access that another thread or a timer can
interleave with: the wait, each PeekMessage, the two halves of
`MultimediaTimer::Cancel`, the reset of `in_queue_`, each task.

**RtcThread.** `Thread` are the rtc::Threads, `Owner` a thread of the platform
that stops and deletes them. `Post` is its unlocked test of `IsQuitting`, the push
under `crit_` and the wake-up; `Get` is one critical section and the wait; `Send`
from a thread waits on the sender's own socket server, with the wake-up it gives
back at the end, and `Send` from the owner on an event. The send graph of
`ThreadManager` is checked as in a build with `RTC_DCHECK_IS_ON`: a `Send` that
closes a cycle aborts the program (`aborted`). `Reach`, what the loop over
`all_targets` collects, is written as the least set that has the target and is
closed under the graph.

**AsyncInvoker.** Of the threads' queues only the set of this invoker's messages
is kept; their order and delays belong to `RtcThread`. A closure is counted from
its making to its destruction; the decrement and the signal are two steps. The
destructor sets `destroying_`, clears all queues one by one and loops over the
counter, its own queue and the event. Identities of closures are used again, so
that functors that invoke functors form chains without end.

**FileAudioDevice.** One action per critical section of a thread's round, and one
for the call of the `AudioDeviceBuffer` between them, during which the lock is
released. Start and Stop are the calls of `AudioDeviceModuleImpl`, with the
buffer's flags set before and cleared after the device's. Audio is numbered in
chunks of 10 ms.

**ThreadHandle.** `SetStatus` accepts the transitions of the code's switch. `Run`
reads the status without the lock (`CheckStatus`), then with it (`LockAndWait`),
and then calls `Handle()`, which is the user's: it may end the loop at any time
and does end it when it sees `kPrepareStop`. The variable `others`, chosen once
from `OthersCall`, says whether threads other than the owner (or `Handle()`
itself) call Suspend and WakeUp: one run covers both uses of the class. A wake-up
of `cond_.wait` may be spurious (`SpuriousWakeup`).

**SwapQueue.** Loads, swaps and read-modify-writes of `num_elements_` are
separate actions of the producer and of the consumer. The acquire/release pairs
of the code order the swaps with the counter, so that interleaving semantics is
enough. An element is an item or `Nothing`.

**AudioDeviceBuffer.** Playout and recording have the same code twice; `Side`
stands for both. A Start is two actions (buffer, then device, which may fail), a
Stop as well (device, then buffer). The queue runs posted tasks in order and
delayed ones not early, each in one step. The clock unit is such that
`Interval` stands for 10 s.

## 3. Runs

| Run | Expected | What it shows |
|---|---|---|
| `stdlib` | pass | two clients and the running tasks post while the queue works and is deleted: `NoLostWakeup`, `StartsInPostingOrder`, `NoUseAfterDelete`, refinement of `TaskQueueBase`, `TasksStart`, `DeleteTerminates` |
| `stdlib_maxdelay` | violation of `TasksStart` | the largest delay becomes `Event::kForever` |
| `libevent` | pass | `OneWakePerBatch`, the pipe never full (`TypeOK`), refinement of `TaskQueueBase`, `TasksStart`, `DeleteTerminates` |
| `win` | pass | timers of both kinds, early ones too, a full message queue, the time limit of the message loop and Delete: `OneTimerForEarliest`, `TimersAreClean` (the assertions of the timer code), refinement of `TaskQueueBase`, `TasksStart`, `DeleteTerminates`, with tasks that are posted again and again |
| `rtc_thread` | pass | two threads and an owner post, send, quit, stop and delete: `NoLostWakeup`, `SendChainMoves`, `SendIsSynchronous`, each thread refines `TaskQueueBase`, `StopReturns`, `SendReturns`, `ReadyIsDelivered` |
| `async_invoker` | pass | endless chains of functors against clear, flush and destruction: `NoUseAfterDestroy`, `WaitHasWaker`, `FlushWaits`, `DestroyReturns` |
| `thread_handle` | pass | Suspend and WakeUp by the owner alone or by others at any moment: `StoppedMeansExited`, `ParkedIsSuspended`; with the owner as the only caller `OwnersStopTerminates` |
| `thread_handle_early` | violation of `SuspendedIsAlive` | a Suspend right after Start ends the thread |
| `thread_handle_stoprace` | violation of `StopTerminates` | a Suspend inside Stop parks the thread for ever |
| `swap_queue` | pass | `SlotExclusive` and refinement of `BoundedFifo` |
| `audio_buffer` | pass | starts and stops, failing ones too, of both sides against the audio threads and the queue: `StatsNeverRunBackwards`, `LoggingFollowsMedia`, `LoggingHasTimer`, `SilenceIsOfThisRecording` |
| `file_audio_device` | pass | starts, failing starts and stops without end against the two threads: `BufferOutlivesRound`, `TransportIsStable`, `DeliversInOrder`, `StopReturns` |

The type invariants of the other modules, and a few safety properties next to the
ones in the table (`OrderIsPostingOrder`, `OneThread`, `StartsOneThread`,
`RequestedIsWritten`, `SendGraphAcyclic` and `NoSendCycle` of `RtcThread`,
`NoUseAfterDelete` of the libevent and Win32 queues, `NoLostWakeup` of the latter),
have no run: section 4 proves them for every value of
the constants.

Deadlock is checked except in `win`, `rtc_thread` and `async_invoker`, where the
system may really stop: a worker that has left messages behind waits for a
message nobody need send, threads wait when all messages are used up, and
nothing happens after the destructor.

### What the violations say

* **`stdlib_maxdelay`.** `ProcessTasks` passes an `int64_t` to
  `Event::Wait(int)`. A remaining delay of 2^32-1 ms converts to -1, which is
  `kForever`: the task starts only if something else wakes the worker. With
  `IntModulus = 4` the same happens to a delay of 3.
* **`thread_handle_early`.** `Run` leaves at once unless it sees `kPrepareStart`
  or `kRunning`. If the creator suspends the object before the new thread gets
  that far, the thread is gone and WakeUp resumes nobody, while the header says
  that the thread is "blocked until |WakeUp| is called".
* **`thread_handle_stoprace`.** Stop wakes the thread in one critical section
  and sets `kPrepareStop` in another. A Suspend in between (by another thread,
  or by `Handle()`) lets the thread enter `cond_.wait`; nobody notifies it, and
  Stop never returns from `pthread_join`.

### What the passing runs show besides

These behaviours are in the models and are reached by the passing runs, whose
properties make room for them; `PROJECT.json` lists them as hazards.

* The bare `cond_.wait` of `Run` lets a spurious wake-up call `Handle()` while the
  thread is suspended (`SpuriousWakeup` in `ThreadHandle`).
* `~ThreadHandle` stops the thread only if the status is `kRunning`: an object that
  is destroyed while it is suspended leaves its thread on freed memory
  (`platform_thread.cc:211`). `Destroy` does this in the model. No property is about
  it: the code does it in every such behaviour, and no comment or test says what the
  destructor promises.
* `rtc::Thread::Get` looks at the queue under `crit_` and at `IsQuitting` afterwards,
  and `Post` tests `IsQuitting` outside the lock. `thread.h:217` says "any pending
  Sends and *ready* Posts will be delivered before Get returns false". The model has
  this behaviour: `Get` finds no message (`GetFindsNone`); a `Post` is called, pushes
  and returns; then `Quit` is called; `Get` sees `stop_` and returns false
  (`GetQuitsOrWaits`), with a ready message in the queue that was posted before
  the `Quit`. So the sentence does not hold as it stands. `ReadyIsDelivered` says what
  does: a thread that has yet to look at its queue does not end its loop before the
  messages that are ready have been handled. It excuses one message only, one that
  came after the thread's last look.
* A `Send` whose task comes after the last look is stranded and never returns
  (`Stranded`; a `Send` that is refused is not one). `Held` are the threads that wait
  for a stranded `Send`, their own or through a chain of Sends; they are the only
  exception in `StopReturns` and `SendReturns`.
* `PostDelayedTask` of `rtc::Thread` takes a `uint32_t` and passes it to an `int`
  (`thread.cc:1063`). A delay of 2^31 ms or more is negative there, and the
  `RTC_DCHECK_GE` of `TimeAfter` (`time_utils.cc:166`) aborts the program
  (`PostDelayedAborts`, with `IntMax` for 2^31-1). In a build without the check, which
  is not modelled, the task would start at once.
* The loop of `~AsyncInvoker` clears only the queue of the thread it runs on. That
  is enough: `WaitHasWaker` shows that something off that queue is left to signal.
* `Flush` to a thread that quits would leak the closure; the threads of
  `AsyncInvoker` do not quit.
* A failed device start leaves the flags of the `AudioDeviceBuffer` set, and a failed
  device stop clears them while the device goes on, since the results are not looked
  at. A `LOG_ACTIVE` chain survives a quick stop and start, so that two chains report;
  `LoggingHasTimer` says that the current chain has its one timer all the same. That
  the first log may then come early, against the comment at line 396, is output.
* `RecThreadProcess` delivers the last chunk a second time when it meets the end
  of the file (second disjunct of `DeliversInOrder`).
* `TaskQueueWin`: `RunPendingTasks` goes on until `pending_` is empty, and the wait
  prefers `in_queue_` to messages (`task_queue_win.cc:262`). A task that posts itself,
  or two that post each other, keep the worker there for ever: delayed tasks do not
  start, and after Delete, when tasks may still post, WM_QUIT is not looked at and
  Delete does not return. `NewTask` makes a task that has run postable again, so that the
  run contains these behaviours. `TasksStart` promises the start of immediate tasks
  whatever is posted; the start of delayed tasks and the return of Delete are promised
  if the posting dies down (`PostsDieDown`).
* `TaskQueueWin`: when `ProcessQueuedMessages` stops at its limit of 500 ms, the
  messages it leaves are no longer new and do not end the next wait
  (`LeftBehind`). Delayed tasks, and a WM_QUIT with the Delete that waits for it,
  then wait until another message arrives. This is the other exception in
  `TasksStart`, for a task whose own message is left behind, and in
  `DeleteTerminates`. A delayed task that finds the message queue full is
  deleted silently (`DeleteTaskInfo`), and one behind WM_QUIT is never looked at.
  TLC finds a violation of either property when either exception is taken out: both
  hangs are real behaviours of the code, and neither is contradicted by a comment.

### Bounds, and why they are enough

* `Task`: three tasks are one running, one waiting and one being posted, and allow
  one immediate task between two delayed ones.
* `Client`: with the worker, which also posts, two or three threads race. The
  proofs of the safety invariants do not depend on the number.
* `MaxTime`: the clock stops there and stands for every later instant: finite
  waits end, and tasks are posted only when their due time is within the bound,
  so that a due task is due in the model. `stdlib` has one delay, equal to
  `MaxTime`; `libevent` and `win` have several, 0 among them.
* `IntModulus = 16` exceeds every delay of the passing run; `4` in
  `stdlib_maxdelay` makes the largest delay wrap exactly as 2^32-1 does in 32 bits.
* `Time32Modulus = 3` with `MaxTime = 3`: the 32-bit clock wraps between the post
  and the run of a `SetTimerTask`.
* `PipeCapacity = 2`: the least that holds a `kRunTasks` and a `kQuit` byte; the
  type invariant says that two are never exceeded.
* `MaxMessages = 2` of `win` is the least with which messages are left behind and
  a post meets a full queue in the same run; `kMaxTaskProcessingTimeMs = 0` makes
  the message loop stop whenever the clock has moved.
* `MaxMsgs = 3`, `Thread = {A, B}` of `rtc_thread`: a Send in each direction and one
  message that races them, or two sends nested and a delayed message. `IntMax = 1`
  splits `Delay` into one that an `int` holds and one that it does not. `Focus = {B}`
  breaks the symmetry of the two threads: only B is stopped, deleted and given
  delayed messages.
* `Call` of `async_invoker`: three closures alive at a time, one running, one queued
  on each thread; their number over time is not bounded. Flush is called by the
  owner only.
* `FileLen = 2`: a first and a last chunk, each with the other before it. Starts and
  stops are not bounded; whether 10 ms have passed is a free choice.
* `Size = 3`, `MaxItems = 7`: the indices wrap twice, at different times.
* `MaxStarts`: three rounds of ThreadHandle cover start, restart, and a restart
  after a race; three starts of the audio buffer let both sides be active and
  one of them be started again.
* `Interval = 1` lets timers fire twice within `MaxTime = 2`, so that old and new
  chains of `LOG_ACTIVE` overlap; `LevelPeriod` and `MaxSamples` are 2.

### Fairness

`FairSpec` of the three task queues assumes weak fairness of the worker, of a
posting call that has begun, of a task that runs (it returns), of the owner
inside its constructor or Delete, and of the clock. These are threads the
operating system schedules; no lock is held across a wait, so weak fairness of
each is what a preemptive scheduler gives. Nobody is obliged to post or to call
Delete. `ThreadHandle` assumes the same of the owner inside a call and of the
thread, where "`Handle()` returns, and returns false after it sees
`kPrepareStop`" is an assumption on the user's code: nothing else ends the loop.
No fairness is assumed of spurious wake-ups. `TaskQueueWin` further assumes that a
timer elapses some time after its instant has come, which is what the system
promises of one. `RtcThread` assumes weak fairness of each actor, a thread or the
owner, inside its call, its loop or a handler, and that time passes; of an actor that
is at one place only one such step is possible, so that this is fairness of each.
`AsyncInvoker` needs strong fairness of a functor's return and of handling a
message: a functor may invoke again and again before it returns, which disables
and enables both, and the code of a functor does return and the loop of a thread
does go on. `FileAudioDevice` assumes that its threads are scheduled and that the
transport returns from its callbacks.

## 4. Proofs

All theorems hold for every value of the constants that satisfies the `ASSUME`s
of the modules: bounds are naturals, `Size`, `Interval`, `LevelPeriod`, `FileLen`,
`MaxMessages` and the moduli are positive, the pipe holds at least two bytes,
`Call` is finite, and the names of the worker, of "no thread" and of "no task" are
not clients, threads or tasks.

* **TaskQueueStdlibProofs.** `TypeCorrect`: `TypeOK` is inductive.
  `WakeupCorrect`: `NoLostWakeup` together with `TypeOK` is inductive: it counts a
  thread between its critical section and its Set as a signal under way, and it
  bounds the sleep by `tick`, which the worker read before the lock.
  `OrderCorrect`: the property compares order ids of the two queues; the
  strengthening `OrderInv` says what an id is in terms of the posting rank
  (post-incremented for immediate tasks, pre-incremented for delayed ones) and that
  no task is in a queue twice. `LifeInv` says who may be where from the constructor
  to Delete; `DeleteCorrect` follows. `RefinesTaskQueueBase` and `StartOrderCorrect`
  add `SortedInv` (the FIFO is sorted by order id), `PlaceInv` (a task is in one
  place) and `DueInv` (entries carry the promise made to the caller). The key lemma
  is `DelayedAdded`: order ids are unique, so that inserting into the map never
  replaces an entry and no task is lost.
* **TaskQueueWinProofs.** `WakeupCorrect` is inductive as it stands. For
  `TimerCorrect` and `CleanCorrect`, `TimerInv` says what the timers are at each
  position of the worker (`Armed`: the earliest task has one; inside Cancel and
  RunDueTasks there is none), and that what the wait found signalled is still so
  when the worker looks again; `MessagesInv` ties the message loop to the result of
  the wait. `LifeInv` gives `DeleteCorrect`. `RefinesTaskQueueBase` adds `PlaceInv`
  (a delayed task is in the message queue once or in the heap, with the due time
  promised, and has not started unless it is the running one) and `CallInv` (the
  calls in progress have tasks of their own). Nothing in it depends on when timers
  elapse: RunDueTasks compares with the clock again.
* **AsyncInvokerProofs.** `CountInv`: the counter is the number of live closures, a
  matter of finite cardinalities. `DestroyInv` says where the owner is while it
  destroys, and that nobody can make a closure once the counter was zero;
  `WakerInv` that a thread other than Home makes a closure only inside a functor,
  whose own closure is still counted; `FlushInv` which closures a thread holds at
  each position. `DestroyCorrect`, `WaitCorrect` and `FlushCorrect` follow.
* **FileAudioDeviceProofs.** `DeviceInv` relates the device's flags, its buffers and
  files and the flags of the `AudioDeviceBuffer` to the positions of the threads and
  of the application's call. `OrderInv` lists how the position in the file, the
  buffered chunk and the last delivered chunk fit together.
* **TaskQueueLibeventProofs.** `TypeCorrect` needs that the pipe has room, hence
  the invariant that it holds one of five contents. `WakeInv` says where the one
  wake is: in the pipe, with a poster about to write, or with the worker that has
  read it. `LifeInv` and `QuitInv` say who can be inside a call at each stage of
  Delete. `WakeCorrect` and `DeleteCorrect` follow. `RefinesTaskQueueBase` adds
  `TaskInv` about `Queue`, the batch followed by the pending list: a task is in one
  place at a time (`CallInv`, `QueueInv`, `TimerInv`), none that was posted is lost
  (`RunInv`), and `fifo` is the selection of the queue's immediate tasks
  (`FifoInv`; lemmas `Selects...` tell what appending and taking do to it). Not
  being early rests on `TimedEntry`, which ties the due time to the 32-bit reading
  in the `SetTimerTask`, and on `ElapsedTime`: a difference of two readings modulo
  the wrap is never more than the time that has really passed, so that `Remaining`
  may be too long after a wrap but never too short.
* **RtcThreadProofs.** For any number of threads and messages. `Inv` has one part
  per idea: which position belongs to which call (`CallInv`); a message has one
  caller, and a Send's `ready` is set exactly when its task is over (`SendInv`); what a
  thread dispatches (`CurInv`); where a message is in each phase of its life
  (`LifeInv`); what the queues hold and that `fifo` is the selection of their
  undelayed messages (`QueueInv`, `FifoInv`); who may still use a thread that is
  being deleted (`DeleteInv`); and `NoLostWakeup` from the moment on at which `Get`
  has found no message (`WakeInv`; the property itself speaks of waiting threads only
  and is not inductive). `StepsSort` divides the steps by what they do to messages,
  so that most parts have few cases. `WakeupCorrect`, `SendCorrect`,
  `LooksCorrect` and `RefinesTaskQueueBase` (one `TaskQueueBase` per thread) follow.
  `SendGraphCorrect`: acyclicity is stated without paths (every set of threads has a
  member without an edge into the set), so that neither it nor `Reach` needs
  induction: if the new edge `a -> t` left a set without such a member, its
  intersection with `Reach(t)`, which is closed and lacks `a`, would have had none
  before. `NoSendCycleCorrect` adds that every Send under way is an edge, although
  Delete removes edges. `SendChainCorrect` puts it all together: whoever is blocked in
  a Send, the chain of targets ends in a thread that is in no Send; it has the message
  or runs it, hence (`NoLostWakeup`) is awake or about to be woken, unless its loop
  has ended.
* **PrimitivesProofs**, `ThreadHandle`. `HandleInv` ties the status, the handle and the owner's
  position together; `StopCorrect` and `OneThreadCorrect` are
  parts of it. `ParkedCorrect` adds `ParkInv`: the object is suspended inside Start,
  Stop and the destructor only by another caller, between the two critical sections of
  Stop. All hold with or without concurrent callers.
* **PrimitivesProofs**, `SwapQueue`. `RingInv`: the indices are `num_elements_` apart, and what
  a side has read from the counter stays true while it swaps, because only the
  other side moves the counter the other way. `SwapTypeCorrect` and
  `SlotExclusiveCorrect` follow. `RefinesBoundedFifo` adds `PublishInv` (what the
  producer has put into its slot before it publishes) and maps each step of the
  ring to a step of `BoundedFifo` or a stutter.
* **AudioDeviceBufferProofs.** `LoggingCorrect` needs to know what the queue will
  have made of `log_stats_` after the tasks it holds; `Settles` says so as a
  function of the FIFO, and lemmas tell how posting and running a task change it.
  `StatsCorrect` is inductive with the types. `TimerCorrect` rests on `Chains`: chains
  are numbered in the order of the LOG_STARTs, and none has two timers. `TypeCorrect`
  bounds the number of timers by the number of starts; `Ranked` numbers the
  LOG_STARTs in the queue to count them without induction over it. `SilenceCorrect`
  rests on `SilenceInv`: between the buffer's start and the device's, failed starts
  included, the flag stands on silence.

Every safety property and every refinement that a run checks is proved. Only
model-checked are the liveness properties (`TasksStart`, `DeleteTerminates`,
`StopReturns`, `SendReturns`, `ReadyIsDelivered`, `DestroyReturns`,
`OwnersStopTerminates`), since
liveness under fairness is out of the prover's reach. Their safety cores are proved:
a thread looks before it exits (`LooksBeforeExit`, a conjunct of `ReadyIsDelivered`), and
whoever waits has somebody about to wake it (`NoLostWakeup`, `OneWakePerBatch`,
`OneTimerForEarliest`, `WaitHasWaker`, `ParkedIsSuspended`, `SendChainMoves`).

## 5. What is not modelled

* Thread priorities and names, logging and histograms (except the silence flag).
* The C++ memory model: the SwapQueue model interleaves, which its
  acquire/release pairs justify; the unlocked read of `status_` in `Run` is one
  atomic read.
* Destructor order in classes derived from `ThreadHandle`, and the race on
  `thread_` between `pthread_create` and `Run` (section 1).
* libevent's cached time: timers are relative to an ideal clock.
* Manual-reset events and the two-stage warning wait of `rtc::Event::Wait`.
* Peak levels, sample rates, channels and contents of audio buffers; the number of a
  report and the time since the last one, which decide only whether it is printed
  (`audio_device_buffer.cc:400`).
* The Windows branch of `platform_thread.cc`.
* `SetTimer` failing in `TaskQueueWin`; `WM_RUN_TASK`, which nothing posts.
* `rtc::Thread`: Peek, Dispose, Restart, wrapped threads, the invoke policies, Send
  to the own thread and the narrowing of Get's wait to `int`.
* `AsyncInvoker::Flush` from within a functor, and message ids.
* Partial reads at the end of `FileAudioDevice`'s input file.
* `OperationsChain`, `RepeatingTask` and `PendingTaskSafetyFlag` run on one sequence,
  `FineAudioBuffer` and `ring_buffer` in one thread: they have no races, and
  they come after the concurrent parts in the plan.
* The components marked `not_modelled` in `PROJECT.json`, with their reasons.

## 6. Plan

Done: the three task queues with a worker of their own and `rtc::Thread` against
the contract of `TaskQueueBase` (proved for all four), `AsyncInvoker`, ThreadHandle,
SwapQueue against its contract, AudioDeviceBuffer with its module, and the file
device below it.

Next, in this order:

1. `RepeatingTask` and `PendingTaskSafetyFlag` on `TaskQueueBase`: nothing runs
   after Stop, and a late task catches up.
2. `OperationsChain` against an abstract "run once, in order" chain, with
   synchronous and asynchronous completion and re-entrant chaining; prove the order.
3. `TaskQueueGcd` as a further refinement of `TaskQueueBase`.
4. `common_audio/ring_buffer.c` and `FineAudioBuffer` against sequences.
5. `rtc::Event` as a module of its own, with manual reset, used by `TaskQueueStdlib`.
