-------------------------- MODULE TaskQueueLibevent --------------------------
(***************************************************************************)
(* rtc_base/task_queue_libevent.cc: a task queue whose worker sits in a    *)
(* libevent loop, woken through a pipe by one byte per batch of tasks.     *)
(* Delayed tasks become libevent timers; one posted from another thread    *)
(* first travels through the FIFO as a SetTimerTask.                       *)
(*                                                                         *)
(* libevent itself is external: its loop runs the callback of the pipe     *)
(* when it is readable and the callbacks of expired timers, earliest       *)
(* first, in any order between the two.                                    *)
(***************************************************************************)
EXTENDS Integers, Sequences

CONSTANTS Task,          \* QueuedTask objects, each posted at most once
          Client,        \* threads that post from outside the queue
          Delay,         \* the delays passed to PostDelayedTask
          MaxTime,       \* bound: the clock stands still at this instant
          PipeCapacity,  \* bytes the wakeup pipe can hold
          Time32Modulus  \* where rtc::Time32() wraps, 2^32 in the build

ASSUME ConstantsAssumption ==
    /\ MaxTime \in Nat
    /\ Delay \subseteq Nat
    /\ PipeCapacity \in Nat /\ PipeCapacity >= 2
    /\ Time32Modulus \in Nat \ {0}

Worker == "worker"
Poster == Client \cup {Worker}
ASSUME WorkerAssumption == Worker \notin Client

NoTask == "none"
ASSUME NoTaskAssumption == NoTask \notin Task

Immediate == -1

\* Entries of pending_: a task, or a SetTimerTask that carries one with its
\* delay and the time at which it was made.
Entry == [task : Task, ms : Nat \cup {Immediate}, posted : Nat]

VARIABLES
    now,                        \* rtc::TimeMillis()
    pending_, pipe, is_active_, \* the TaskQueueLibevent object
    pending_timers_,            \* timers, set by the worker only
    wpc, tasks, run_task_,      \* the worker: position, batch, running task
    ppc, pentry,                \* PostTask calls in progress
    opc,                        \* the owner: Delete
    posted, due, started, fifo  \* history; fifo: immediate tasks that wait, as posted

calls == <<ppc, pentry>>
worker == <<wpc, tasks, run_task_>>
history == <<posted, due, started, fifo>>
vars == <<now, pending_, pipe, is_active_, pending_timers_, worker, calls, opc,
          history>>

NoEntry == [task |-> NoTask, ms |-> Immediate, posted |-> 0]

Init ==
    /\ now = 0
    /\ pending_ = <<>> /\ pipe = <<>> /\ is_active_ = TRUE
    /\ pending_timers_ = {}
    /\ wpc = "loop" /\ tasks = <<>> /\ run_task_ = NoTask
    /\ ppc = [p \in Poster |-> "idle"]
    /\ pentry = [p \in Poster |-> NoEntry]
    /\ opc = "live"
    /\ posted = {} /\ due = [t \in Task |-> Immediate] /\ started = {} /\ fifo = <<>>

-----------------------------------------------------------------------------
(* Posting.                                                                *)

MayPost(p) == IF p = Worker THEN run_task_ # NoTask ELSE opc = "live"

Fresh(t) == t \notin posted /\ \A p \in Poster : pentry[p].task # t

Time32 == now % Time32Modulus

Mut_WritesByteAlways == TRUE

\* had_pending_tasks read after push_back
Mut_WritesByteNever == FALSE

\* !had_pending_tasks: only the first pending task writes to the pipe.
WritesByte == pending_ = <<>>

\* PostTask's critical section.
Push(p, e) ==
    /\ pending_' = Append(pending_, e)
    /\ ppc' = [ppc EXCEPT ![p] = IF WritesByte THEN "write" ELSE "idle"]
    /\ posted' = posted \cup {e.task}

PostTask(p, t) ==
    /\ ppc[p] = "idle" /\ MayPost(p) /\ Fresh(t)
    /\ Push(p, [task |-> t, ms |-> Immediate, posted |-> 0])
    /\ fifo' = Append(fifo, t)
    /\ UNCHANGED <<now, pipe, is_active_, pending_timers_, worker, pentry, opc,
                   due, started>>

WriteByte(p) ==
    /\ ppc[p] = "write"
    /\ pipe' = Append(pipe, "kRunTasks")
    /\ ppc' = [ppc EXCEPT ![p] = "idle"]
    /\ UNCHANGED <<now, pending_, is_active_, pending_timers_, worker, pentry,
                   opc, history>>

\* PostDelayedTask is called.  Off the queue, the SetTimerTask it makes notes
\* the time.
PostDelayedTask(p, t, ms) ==
    /\ ppc[p] = "idle" /\ MayPost(p) /\ Fresh(t)
    /\ now + ms <= MaxTime
    /\ pentry' = [pentry EXCEPT ![p] = [task |-> t, ms |-> ms, posted |-> Time32]]
    /\ ppc' = [ppc EXCEPT ![p] = IF p = Worker THEN "add" ELSE "push"]
    /\ due' = [due EXCEPT ![t] = now + ms]
    /\ UNCHANGED <<now, pending_, pipe, is_active_, pending_timers_, worker,
                   opc, posted, started, fifo>>

\* event_add of a timer for t that expires ms from now.
AddTimer(t, ms) ==
    pending_timers_' = pending_timers_ \cup {[task |-> t, at |-> now + ms]}

\* On the queue, the timer is set at once.
SetTimer ==
    /\ ppc[Worker] = "add"
    /\ AddTimer(pentry[Worker].task, pentry[Worker].ms)
    /\ ppc' = [ppc EXCEPT ![Worker] = "idle"]
    /\ pentry' = [pentry EXCEPT ![Worker] = NoEntry]
    /\ posted' = posted \cup {pentry[Worker].task}
    /\ UNCHANGED <<now, pending_, pipe, is_active_, worker, opc, due, started, fifo>>

\* Off the queue, the SetTimerTask is posted.
PushSetTimer(p) ==
    /\ ppc[p] = "push"
    /\ Push(p, pentry[p])
    /\ pentry' = [pentry EXCEPT ![p] = NoEntry]
    /\ UNCHANGED <<now, pipe, is_active_, pending_timers_, worker, opc, due,
                   started, fifo>>

-----------------------------------------------------------------------------
(* The worker.                                                             *)

WorkerUnchanged == UNCHANGED <<now, calls, opc, posted, due>>

\* kQuit breaks the loop but leaves is_active_ set
Mut_ReadByteStaysActive ==
    /\ wpc = "loop" /\ is_active_
    /\ pipe # <<>>
    /\ pipe' = Tail(pipe)
    /\ wpc' = IF Head(pipe) = "kQuit" THEN wpc ELSE "woken"
    /\ UNCHANGED <<is_active_, pending_, pending_timers_, tasks, run_task_,
                   started, fifo>>
    /\ WorkerUnchanged

\* OnWakeup reads one byte.
ReadByte ==
    /\ wpc = "loop" /\ is_active_
    /\ pipe # <<>>
    /\ pipe' = Tail(pipe)
    /\ IF Head(pipe) = "kQuit"
       THEN is_active_' = FALSE /\ UNCHANGED wpc
       ELSE wpc' = "woken" /\ UNCHANGED is_active_
    /\ UNCHANGED <<pending_, pending_timers_, tasks, run_task_, started, fifo>>
    /\ WorkerUnchanged

\* tasks.swap(me->pending_)
SwapPending ==
    /\ wpc = "woken"
    /\ tasks' = pending_
    /\ pending_' = <<>>
    /\ wpc' = "batch"
    /\ UNCHANGED <<pipe, is_active_, pending_timers_, run_task_, started, fifo>>
    /\ WorkerUnchanged

BatchDone ==
    /\ wpc = "batch" /\ tasks = <<>>
    /\ wpc' = "loop"
    /\ UNCHANGED <<pending_, pipe, is_active_, pending_timers_, tasks, run_task_,
                   started, fifo>>
    /\ WorkerUnchanged

RunFromBatch ==
    /\ wpc = "batch" /\ tasks # <<>>
    /\ Head(tasks).ms = Immediate
    /\ run_task_' = Head(tasks).task
    /\ started' = started \cup {run_task_'}
    /\ fifo' = Tail(fifo)
    /\ tasks' = Tail(tasks)
    /\ wpc' = "run"
    /\ UNCHANGED <<pending_, pipe, is_active_, pending_timers_>>
    /\ WorkerUnchanged

\* posted_ left uninitialised at zero
Mut_RemainingIgnoresPosted(e) == IF Time32 > e.ms THEN 0 ELSE e.ms - Time32

\* The delay that is left, from the time since the SetTimerTask was made.
Remaining(e) ==
    LET post_time == (Time32 - e.posted) % Time32Modulus
    IN  IF post_time > e.ms THEN 0 ELSE e.ms - post_time

\* SetTimerTask::Run
RunSetTimer ==
    /\ wpc = "batch" /\ tasks # <<>>
    /\ LET e == Head(tasks)
       IN  /\ e.ms # Immediate
           /\ AddTimer(e.task, Remaining(e))
    /\ tasks' = Tail(tasks)
    /\ UNCHANGED <<wpc, pending_, pipe, is_active_, run_task_, started, fifo>>
    /\ WorkerUnchanged

\* The loop runs an expired timer; the earliest goes first.  A timer set past
\* MaxTime expires when the clock has stopped.
RunTimer(timer) ==
    /\ wpc = "loop" /\ is_active_
    /\ timer \in pending_timers_
    /\ now >= timer.at \/ now = MaxTime
    /\ \A other \in pending_timers_ : timer.at <= other.at
    /\ run_task_' = timer.task
    /\ started' = started \cup {timer.task}
    /\ wpc' = "timer"
    /\ UNCHANGED <<pending_, pipe, is_active_, pending_timers_, tasks, fifo>>
    /\ WorkerUnchanged

BatchTaskReturns ==
    /\ wpc = "run" /\ ppc[Worker] = "idle"
    /\ run_task_' = NoTask
    /\ wpc' = "batch"
    /\ UNCHANGED <<pending_, pipe, is_active_, pending_timers_, tasks, started, fifo>>
    /\ WorkerUnchanged

\* pending_timers_.remove(timer) and delete timer, after the task has run.
TimerTaskReturns ==
    /\ wpc = "timer" /\ ppc[Worker] = "idle"
    /\ pending_timers_' = {timer \in pending_timers_ : timer.task # run_task_}
    /\ run_task_' = NoTask
    /\ wpc' = "loop"
    /\ UNCHANGED <<pending_, pipe, is_active_, tasks, started, fifo>>
    /\ WorkerUnchanged

\* ThreadMain leaves the loop and deletes the timers that are left.
ThreadMainReturns ==
    /\ wpc = "loop" /\ ~is_active_
    /\ pending_timers_' = {}
    /\ wpc' = "exited"
    /\ UNCHANGED <<pending_, pipe, is_active_, tasks, run_task_, started, fifo>>
    /\ WorkerUnchanged

-----------------------------------------------------------------------------
(* Delete.                                                                 *)

\* The caller makes sure that no other thread is inside a call on the queue.
Delete ==
    /\ opc = "live"
    /\ \A p \in Client : ppc[p] = "idle"
    /\ opc' = "writing"
    /\ UNCHANGED <<now, pending_, pipe, is_active_, pending_timers_, worker,
                   calls, history>>

\* write() is retried while the pipe is full.
DeleteWrites ==
    /\ opc = "writing"
    /\ Len(pipe) < PipeCapacity
    /\ pipe' = Append(pipe, "kQuit")
    /\ opc' = "joining"
    /\ UNCHANGED <<now, pending_, is_active_, pending_timers_, worker, calls,
                   history>>

\* thread_.Stop(), then everything that is left is closed and freed.
DeleteJoins ==
    /\ opc = "joining"
    /\ wpc = "exited"
    /\ pending_' = <<>> /\ pipe' = <<>>
    /\ opc' = "deleted"
    /\ fifo' = <<>>
    /\ UNCHANGED <<now, is_active_, pending_timers_, worker, calls, posted, due, started>>

Tick ==
    /\ now < MaxTime
    /\ now' = now + 1
    /\ UNCHANGED <<pending_, pipe, is_active_, pending_timers_, worker, calls,
                   opc, history>>

-----------------------------------------------------------------------------
WorkerStep == \/ ReadByte \/ SwapPending \/ BatchDone \/ RunFromBatch
              \/ RunSetTimer \/ ThreadMainReturns
              \/ \E timer \in pending_timers_ : RunTimer(timer)

PostBegins(p) ==
    \E t \in Task : \/ PostTask(p, t)
                    \/ \E ms \in Delay : PostDelayedTask(p, t, ms)

PostContinues(p) == WriteByte(p) \/ PushSetTimer(p) \/ (p = Worker /\ SetTimer)

TaskReturns == BatchTaskReturns \/ TimerTaskReturns

OwnerContinues == DeleteWrites \/ DeleteJoins

Terminated == opc = "deleted" /\ UNCHANGED vars

Next ==
    \/ WorkerStep
    \/ TaskReturns
    \/ \E p \in Poster : PostBegins(p) \/ PostContinues(p)
    \/ Delete \/ OwnerContinues
    \/ Tick
    \/ Terminated

Spec == Init /\ [][Next]_vars

\* Threads are scheduled, tasks return and time passes.
Fairness ==
    /\ WF_vars(WorkerStep)
    /\ WF_vars(TaskReturns)
    /\ \A p \in Poster : WF_vars(PostContinues(p))
    /\ WF_vars(OwnerContinues)
    /\ WF_vars(Tick)

FairSpec == Spec /\ Fairness

-----------------------------------------------------------------------------
(* Properties.                                                             *)

Byte == {"kQuit", "kRunTasks"}

\* Type invariant.  Its pipe conjunct is the RTC_CHECK_EQ of PostTask: write()
\* never meets a full pipe, although posters write outside pending_lock_.
TypeOK ==
    /\ now \in 0..MaxTime
    /\ pending_ \in Seq(Entry)
    /\ pipe \in Seq(Byte) /\ Len(pipe) <= PipeCapacity
    /\ is_active_ \in BOOLEAN
    /\ pending_timers_ \subseteq [task : Task, at : Nat]
    /\ wpc \in {"loop", "woken", "batch", "run", "timer", "exited"}
    /\ tasks \in Seq(Entry)
    /\ run_task_ \in Task \cup {NoTask}
    /\ ppc \in [Poster -> {"idle", "write", "push", "add"}]
    /\ pentry \in [Poster -> Entry \cup {NoEntry}]
    /\ \A p \in Poster : ppc[p] \in {"push", "add"} =>
         pentry[p] \in Entry /\ pentry[p].ms # Immediate
    /\ opc \in {"live", "writing", "joining", "deleted"}
    /\ posted \subseteq Task /\ started \subseteq Task
    /\ due \in [Task -> Nat \cup {Immediate}]
    /\ fifo \in Seq(Task)

\* What is on its way to make the worker swap pending_: a kRunTasks byte in the
\* pipe, a poster about to write one, or the worker that has read one.
Wakes ==
    {<<"pipe", i>> : i \in {j \in DOMAIN pipe : pipe[j] = "kRunTasks"}}
        \cup {<<"poster", p>> : p \in {q \in Poster : ppc[q] = "write"}}
        \cup {w \in {<<"worker", 0>>} : wpc = "woken"}

\* While tasks are pending exactly one wake is on its way, and none otherwise:
\* the argument in PostTask's comments for writing one byte per batch, and the
\* RTC_DCHECK(!tasks.empty()) of OnWakeup.
OneWakePerBatch ==
    /\ \A x, y \in Wakes : x = y
    /\ (Wakes # {}) = (pending_ # <<>>)

\* Once Delete has freed the object, neither its worker nor a PostTask call
\* that the worker's last tasks made is still using it.
NoUseAfterDelete ==
    opc = "deleted" => wpc = "exited" /\ \A p \in Poster : ppc[p] = "idle"

\* The tasks that wait, wherever they are.
Waiting(t) ==
    \/ \E i \in DOMAIN pending_ : pending_[i].task = t
    \/ \E i \in DOMAIN tasks : tasks[i].task = t
    \/ \E timer \in pending_timers_ : timer.task = t

PhaseOf(t) ==
    CASE run_task_ = t                           -> "running"
      [] run_task_ # t /\ t \in started          -> "done"
      [] \E p \in Poster : pentry[p].task = t    -> "called"
      [] t \in posted \ started /\ opc = "deleted" -> "dropped"
      [] t \in posted \ started /\ opc # "deleted"
            /\ (Waiting(t) \/ wpc = "exited")    -> "queued"
      [] OTHER                                   -> "new"

State == CASE opc = "live"    -> "live"
           [] opc = "deleted" -> "deleted"
           [] OTHER           -> "deleting"

Base == INSTANCE TaskQueueBase
    WITH phase <- [t \in Task |-> PhaseOf(t)],
         state <- State

\* The queue keeps every promise of TaskQueueBase: posting order for PostTask,
\* no two tasks at once, no delayed task early in spite of the detour through
\* SetTimerTask, no task lost and none started after Delete.
ImplementsTaskQueueBase == Base!Spec

\* A posted task starts, unless the queue is deleted: the byte that only the
\* first pending task writes wakes the worker for all of them.
TasksStart == \A t \in Task : t \in posted ~> (t \in started \/ opc # "live")

\* Delete returns: the kQuit byte gets into the pipe and the worker sees it.
DeleteTerminates == opc = "writing" ~> opc = "deleted"
=============================================================================
