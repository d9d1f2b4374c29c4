---------------------------- MODULE TaskQueueWin ----------------------------
(***************************************************************************)
(* rtc_base/task_queue_win.cc: a task queue whose worker waits for three   *)
(* things at once: the event of a multimedia timer, the event in_queue_    *)
(* that PostTask sets, and the message queue of its thread, which carries  *)
(* delayed tasks, the WM_TIMER of the fallback timer and the WM_QUIT of    *)
(* Delete.                                                                 *)
(*                                                                         *)
(* The Windows API is external.  PostThreadMessage fails when the message  *)
(* queue is full; MsgWaitForMultipleObjectsEx prefers the first handle     *)
(* that is signalled, and returns for messages only if one has come since  *)
(* the queue was last looked at (MWMO_INPUTAVAILABLE is not passed);       *)
(* WM_TIMER comes, again and again until its timer is killed, when no      *)
(* posted message is left; timeSetEvent may fail, and timers, which have a *)
(* clock of their own, may elapse early.                                   *)
(***************************************************************************)
EXTENDS Integers, Sequences

CONSTANTS Task,         \* names of QueuedTask objects
          Client,       \* threads that post from outside the queue
          Delay,        \* the delays passed to PostDelayedTask
          MaxTime,      \* bound: the clock stands still at this instant
          MaxMessages,  \* messages that the queue of a thread can hold
          kMaxTaskProcessingTimeMs

ASSUME ConstantsAssumption ==
    /\ MaxTime \in Nat
    /\ Delay \subseteq Nat
    /\ MaxMessages \in Nat \ {0}
    /\ kMaxTaskProcessingTimeMs \in Nat

Worker == "worker"
Poster == Client \cup {Worker}
ASSUME WorkerAssumption == Worker \notin Client

NoTask == "none"
ASSUME NoTaskAssumption == NoTask \notin Task

Immediate == -1

\* A timer is not set, set to elapse at an instant, or has elapsed.
NoTimer == -1
Elapsed == -2
Timer == Nat \cup {NoTimer, Elapsed}

DelayedTaskInfo == [task : Task, due_time : Nat]
NoInfo == [task |-> NoTask, due_time |-> 0]

\* WM_QUIT carries no task; WM_QUEUE_DELAYED_TASK carries one.
WM_QUIT == NoInfo
Message == DelayedTaskInfo \cup {WM_QUIT}

VARIABLES
    now,                     \* rtc::TimeMillis()
    pending_, in_queue_,     \* tasks posted with PostTask, and their event
    messages, input,         \* the thread's messages; is any of them new?
    timer_, event_,          \* the MultimediaTimer and its event
    timer_id_,               \* the fallback timer, made with SetTimer
    timer_tasks_,            \* delayed tasks that have reached the worker
    wpc, result, start, tick, back, run_task_, \* the worker; a local that is
                             \* of no more use is reset
    pinfo,                   \* PostDelayedTask calls in progress
    opc,                     \* the owner: Delete
    posted, failed, due, started  \* history

locals == <<result, start, tick, back>>
worker == <<wpc, locals, run_task_>>
fifo_vars == <<pending_, in_queue_>>
message_vars == <<messages, input>>
timer_vars == <<timer_, event_, timer_id_>>
history == <<posted, failed, due, started>>
vars == <<now, fifo_vars, message_vars, timer_vars, timer_tasks_, worker, pinfo, opc, history>>

\* The constructor has returned: the thread has a message queue and waits.
Init ==
    /\ now = 0
    /\ pending_ = <<>> /\ in_queue_ = FALSE
    /\ messages = <<>> /\ input = FALSE
    /\ timer_ = NoTimer /\ event_ = FALSE /\ timer_id_ = NoTimer
    /\ timer_tasks_ = {}
    /\ wpc = "wait" /\ result = "none" /\ start = 0 /\ tick = 0
    /\ back = "reset" /\ run_task_ = NoTask
    /\ pinfo = [p \in Poster |-> NoInfo]
    /\ opc = "live"
    /\ posted = {} /\ failed = {} /\ started = {}
    /\ due = [t \in Task |-> Immediate]

-----------------------------------------------------------------------------
(* Posting.                                                                *)

MayPost(p) == IF p = Worker THEN run_task_ # NoTask ELSE opc = "live"

\* A task that is over was deleted; a new QueuedTask has its name.  So clients and
\* tasks may go on to post for ever.
NewTask(t) ==
    /\ t \in started /\ run_task_ # t
    /\ posted' = posted \ {t} /\ started' = started \ {t}
    /\ due' = [due EXCEPT ![t] = Immediate]
    /\ UNCHANGED <<now, fifo_vars, message_vars, timer_vars, timer_tasks_, worker,
                   pinfo, opc, failed>>

Fresh(t) == t \notin posted /\ \A p \in Poster : pinfo[p].task # t

\* PostTask, and PostDelayedTask with no delay: one critical section.
PostTask(p, t) ==
    /\ pinfo[p] = NoInfo /\ MayPost(p) /\ Fresh(t)
    /\ pending_' = Append(pending_, t)
    /\ in_queue_' = TRUE
    /\ posted' = posted \cup {t}
    /\ UNCHANGED <<now, message_vars, timer_vars, timer_tasks_, worker, pinfo,
                   opc, failed, due, started>>

\* The DelayedTaskInfo is made, with the due time, ...
PostDelayedTask(p, t, ms) ==
    /\ pinfo[p] = NoInfo /\ MayPost(p) /\ Fresh(t)
    /\ ms # 0 /\ now + ms <= MaxTime
    /\ pinfo' = [pinfo EXCEPT ![p] = [task |-> t, due_time |-> now + ms]]
    /\ due' = [due EXCEPT ![t] = now + ms]
    /\ UNCHANGED <<now, fifo_vars, message_vars, timer_vars, timer_tasks_,
                   worker, opc, posted, failed, started>>

HasRoom == Len(messages) < MaxMessages

PostThreadMessage(m) ==
    /\ HasRoom
    /\ messages' = Append(messages, m)
    /\ input' = TRUE

\* ... and posted to the worker, ...
PostDelayedMessage(p) ==
    /\ pinfo[p] # NoInfo
    /\ PostThreadMessage(pinfo[p])
    /\ posted' = posted \cup {pinfo[p].task}
    /\ pinfo' = [pinfo EXCEPT ![p] = NoInfo]
    /\ UNCHANGED <<now, fifo_vars, timer_vars, timer_tasks_, worker, opc,
                   failed, due, started>>

\* ... or deleted with its task when the message queue is full.
DeleteTaskInfo(p) ==
    /\ pinfo[p] # NoInfo
    /\ ~HasRoom
    /\ posted' = posted \cup {pinfo[p].task}
    /\ failed' = failed \cup {pinfo[p].task}
    /\ pinfo' = [pinfo EXCEPT ![p] = NoInfo]
    /\ UNCHANGED <<now, fifo_vars, message_vars, timer_vars, timer_tasks_,
                   worker, opc, due, started>>

-----------------------------------------------------------------------------
(* RunThreadMain: the wait.                                                *)

WorkerUnchanged == UNCHANGED <<now, pinfo, opc, posted, failed, due>>

\* The wait returns for what is signalled, the timer first.
Signalled(r) ==
    \/ r = "timer" /\ event_
    \/ r = "queue" /\ ~event_ /\ in_queue_
    \/ /\ r = "messages" /\ ~event_ /\ ~in_queue_
       /\ input \/ timer_id_ = Elapsed

MsgWaitForMultipleObjectsEx(r) ==
    /\ wpc = "wait"
    /\ Signalled(r)
    /\ result' = r
    /\ IF r = "messages"
       THEN wpc' = "peek" /\ start' = now
       ELSE wpc' = "check" /\ UNCHANGED start
    /\ UNCHANGED <<fifo_vars, message_vars, timer_vars, timer_tasks_, tick,
                   back, run_task_, started>>
    /\ WorkerUnchanged

-----------------------------------------------------------------------------
(* Timers.                                                                 *)

\* The event is reset before the timer is killed
Mut_CancelReversed(step) ==
    \/ step = "first" /\ event_' = FALSE /\ UNCHANGED timer_
    \/ step = "second" /\ timer_' = NoTimer /\ UNCHANGED event_

\* MultimediaTimer::Cancel kills the timer, then resets its event.
Cancel(step) ==
    \/ step = "first" /\ timer_' = NoTimer /\ UNCHANGED event_
    \/ step = "second" /\ event_' = FALSE /\ UNCHANGED timer_

\* The rest of Cancel.  CancelTimers kills the fallback timer as well, and
\* ScheduleNextTimer is next; RunThreadMain goes on with RunDueTasks.
CancelReturns ==
    /\ wpc = "cancel"
    /\ Cancel("second")
    /\ IF back = "limit"
       THEN wpc' = "schedule" /\ timer_id_' = NoTimer /\ UNCHANGED tick
       ELSE wpc' = "due" /\ tick' = now /\ UNCHANGED timer_id_
    /\ UNCHANGED <<fifo_vars, message_vars, timer_tasks_, result, start, back,
                   run_task_, started>>
    /\ WorkerUnchanged

Earliest(info) ==
    /\ info \in timer_tasks_
    /\ \A other \in timer_tasks_ : info.due_time <= other.due_time

Mut_IsDueAlways(info) == TRUE

IsDue(info) == info.due_time <= tick

\* RunDueTasks runs the first of the tasks in place ...
RunDueTask(info) ==
    /\ wpc = "due"
    /\ Earliest(info) /\ IsDue(info)
    /\ run_task_' = info.task
    /\ started' = started \cup {info.task}
    /\ wpc' = "run_due"
    /\ UNCHANGED <<fifo_vars, message_vars, timer_vars, timer_tasks_, locals>>
    /\ WorkerUnchanged

\* ... and removes it when it has returned.
DueTaskReturns ==
    /\ wpc = "run_due" /\ pinfo[Worker] = NoInfo
    /\ timer_tasks_' = {info \in timer_tasks_ : info.task # run_task_}
    /\ run_task_' = NoTask
    /\ IF timer_tasks_' = {}
       THEN wpc' = "schedule" /\ tick' = 0
       ELSE wpc' = "due" /\ UNCHANGED tick
    /\ UNCHANGED <<fifo_vars, message_vars, timer_vars, result, start,
                   back, started>>
    /\ WorkerUnchanged

NoneDue ==
    /\ wpc = "due"
    /\ \A info \in timer_tasks_ : ~IsDue(info)
    /\ wpc' = "schedule" /\ tick' = 0
    /\ UNCHANGED <<fifo_vars, message_vars, timer_vars, timer_tasks_, result,
                   start, back, run_task_, started>>
    /\ WorkerUnchanged

\* When the earliest task is due, as the timer counts from this instant.
Expiry(info) == IF info.due_time > now THEN info.due_time ELSE now

\* A multimedia timer is set or, when there is none left, a fallback timer.
SetsTimerFor(info) ==
    \/ timer_' = Expiry(info) /\ UNCHANGED <<event_, timer_id_>>
    \/ timer_id_' = Expiry(info) /\ UNCHANGED <<timer_, event_>>

ScheduleNextTimer ==
    /\ wpc = "schedule"
    /\ \/ timer_tasks_ = {} /\ UNCHANGED timer_vars
       \/ \E info \in timer_tasks_ : Earliest(info) /\ SetsTimerFor(info)
    /\ wpc' = back
    /\ back' = "reset"
    /\ UNCHANGED <<fifo_vars, message_vars, timer_tasks_, result, start, tick,
                   run_task_, started>>
    /\ WorkerUnchanged

\* The system: timers elapse.  The multimedia timer sets its event.
TimerElapses ==
    /\ timer_ \in Nat
    /\ timer_' = Elapsed
    /\ event_' = TRUE
    /\ UNCHANGED <<now, fifo_vars, message_vars, timer_id_, timer_tasks_,
                   worker, pinfo, opc, history>>

FallbackTimerElapses ==
    /\ timer_id_ \in Nat /\ wpc # "exited"
    /\ timer_id_' = Elapsed
    /\ UNCHANGED <<now, fifo_vars, message_vars, timer_, event_, timer_tasks_,
                   worker, pinfo, opc, history>>

-----------------------------------------------------------------------------
(* ProcessQueuedMessages.                                                  *)

\* PeekMessage takes the first message; those it leaves are no longer new.
PeekMessage ==
    /\ wpc = "peek" /\ messages # <<>>
    /\ messages' = Tail(messages)
    /\ input' = FALSE

\* Only the first task sets a timer
Mut_NeedsTimerIfFirst(info) == timer_tasks_ = {}

\* need_to_schedule_timers
NeedsTimer(info) == \A other \in timer_tasks_ : other.due_time > info.due_time

\* WM_QUEUE_DELAYED_TASK
QueueDelayedTask ==
    /\ PeekMessage
    /\ LET info == Head(messages)
       IN  /\ info # WM_QUIT
           /\ timer_tasks_' = timer_tasks_ \cup {info}
           /\ IF NeedsTimer(info)
              THEN Cancel("first") /\ wpc' = "cancel" /\ back' = "limit"
              ELSE wpc' = "limit" /\ UNCHANGED <<timer_, event_, back>>
    /\ UNCHANGED <<fifo_vars, timer_id_, result, start, tick, run_task_,
                   started>>
    /\ WorkerUnchanged

\* WM_QUIT ends the loop but the result says to go on
Mut_QuitGoesOn ==
    /\ PeekMessage
    /\ Head(messages) = WM_QUIT
    /\ wpc' = "check"
    /\ UNCHANGED <<fifo_vars, timer_vars, timer_tasks_, result, start, tick,
                   back, run_task_, started>>
    /\ WorkerUnchanged

\* WM_QUIT: RunThreadMain returns.
Quit ==
    /\ PeekMessage
    /\ Head(messages) = WM_QUIT
    /\ start' = 0
    /\ wpc' = "exited"
    /\ UNCHANGED <<fifo_vars, timer_vars, timer_tasks_, result, tick,
                   back, run_task_, started>>
    /\ WorkerUnchanged

\* WM_TIMER: the fallback timer is killed and the due tasks are run.
ProcessTimer ==
    /\ wpc = "peek" /\ messages = <<>> /\ timer_id_ = Elapsed
    /\ input' = FALSE
    /\ timer_id_' = NoTimer
    /\ tick' = now
    /\ wpc' = "due"
    /\ back' = "limit"
    /\ UNCHANGED <<fifo_vars, messages, timer_, event_, timer_tasks_, result,
                   start, run_task_, started>>
    /\ WorkerUnchanged

NoMessage ==
    /\ wpc = "peek" /\ messages = <<>> /\ timer_id_ # Elapsed
    /\ input' = FALSE
    /\ start' = 0
    /\ wpc' = "check"
    /\ UNCHANGED <<fifo_vars, messages, timer_vars, timer_tasks_, result,
                   tick, back, run_task_, started>>
    /\ WorkerUnchanged

\* After each message: the loop is left when it has taken too long.
CheckProcessingTime ==
    /\ wpc = "limit"
    /\ IF now > start + kMaxTaskProcessingTimeMs
       THEN wpc' = "check" /\ start' = 0
       ELSE wpc' = "peek" /\ UNCHANGED start
    /\ UNCHANGED <<fifo_vars, message_vars, timer_vars, timer_tasks_, result,
                   tick, back, run_task_, started>>
    /\ WorkerUnchanged

-----------------------------------------------------------------------------
(* RunThreadMain: after the wait.                                          *)

\* The multimedia timer was signalled, before the wait or since.
CheckTimer ==
    /\ wpc = "check"
    /\ IF result = "timer" \/ (timer_tasks_ # {} /\ event_)
       THEN Cancel("first") /\ wpc' = "cancel"
       ELSE wpc' = "reset" /\ UNCHANGED <<timer_, event_>>
    /\ back' = "reset"
    /\ UNCHANGED <<fifo_vars, message_vars, timer_id_, timer_tasks_, result,
                   start, tick, run_task_, started>>
    /\ WorkerUnchanged

\* in_queue_ is reset before the tasks are taken.
CheckInQueue ==
    /\ wpc = "reset"
    /\ IF result = "queue"
       THEN in_queue_' = FALSE /\ wpc' = "drain"
       ELSE wpc' = "wait" /\ UNCHANGED in_queue_
    /\ result' = "none"
    /\ UNCHANGED <<pending_, message_vars, timer_vars, timer_tasks_, start,
                   tick, back, run_task_, started>>
    /\ WorkerUnchanged

\* RunPendingTasks
RunPendingTask ==
    /\ wpc = "drain" /\ pending_ # <<>>
    /\ run_task_' = Head(pending_)
    /\ started' = started \cup {run_task_'}
    /\ pending_' = Tail(pending_)
    /\ wpc' = "run_pending"
    /\ UNCHANGED <<in_queue_, message_vars, timer_vars, timer_tasks_, locals>>
    /\ WorkerUnchanged

\* RunPendingTasks runs one task only
Mut_PendingTaskIsLast ==
    /\ wpc = "run_pending" /\ pinfo[Worker] = NoInfo
    /\ run_task_' = NoTask
    /\ wpc' = "wait"
    /\ UNCHANGED <<fifo_vars, message_vars, timer_vars, timer_tasks_, locals,
                   started>>
    /\ WorkerUnchanged

PendingTaskReturns ==
    /\ wpc = "run_pending" /\ pinfo[Worker] = NoInfo
    /\ run_task_' = NoTask
    /\ wpc' = "drain"
    /\ UNCHANGED <<fifo_vars, message_vars, timer_vars, timer_tasks_, locals,
                   started>>
    /\ WorkerUnchanged

Drained ==
    /\ wpc = "drain" /\ pending_ = <<>>
    /\ wpc' = "wait"
    /\ UNCHANGED <<fifo_vars, message_vars, timer_vars, timer_tasks_, locals,
                   run_task_, started>>
    /\ WorkerUnchanged
-----------------------------------------------------------------------------
(* Delete.                                                                 *)

\* The caller makes sure that no other thread is inside a call on the queue.
Delete ==
    /\ opc = "live"
    /\ \A p \in Client : pinfo[p] = NoInfo
    /\ opc' = "quitting"
    /\ UNCHANGED <<now, fifo_vars, message_vars, timer_vars, timer_tasks_,
                   worker, pinfo, history>>

\* WM_QUIT is posted again and again while the message queue is full.
PostQuit ==
    /\ opc = "quitting"
    /\ PostThreadMessage(WM_QUIT)
    /\ opc' = "joining"
    /\ UNCHANGED <<now, fifo_vars, timer_vars, timer_tasks_, worker, pinfo,
                   history>>

\* delete this: the members are destroyed, the multimedia timer is cancelled
\* and its event closed.  The messages went with their thread.
Destroy ==
    /\ pending_' = <<>> /\ in_queue_' = FALSE
    /\ messages' = <<>> /\ input' = FALSE
    /\ timer_' = NoTimer /\ event_' = FALSE /\ timer_id_' = NoTimer
    /\ timer_tasks_' = {}
    /\ opc' = "deleted"
    /\ UNCHANGED <<now, worker, pinfo, history>>

DeleteJoins == opc = "joining" /\ wpc = "exited" /\ Destroy

Tick ==
    /\ now < MaxTime
    /\ now' = now + 1
    /\ UNCHANGED <<fifo_vars, message_vars, timer_vars, timer_tasks_, worker,
                   pinfo, opc, history>>

-----------------------------------------------------------------------------
WorkerStep ==
    \/ \E r \in {"timer", "queue", "messages"} : MsgWaitForMultipleObjectsEx(r)
    \/ QueueDelayedTask \/ Quit \/ ProcessTimer \/ NoMessage
    \/ CheckProcessingTime \/ CheckTimer \/ CheckInQueue
    \/ CancelReturns \/ NoneDue \/ ScheduleNextTimer
    \/ \E info \in timer_tasks_ : RunDueTask(info)
    \/ RunPendingTask \/ Drained

TaskReturns == DueTaskReturns \/ PendingTaskReturns

PostBegins(p) ==
    \E t \in Task : \/ PostTask(p, t)
                    \/ \E ms \in Delay : PostDelayedTask(p, t, ms)

PostContinues(p) == PostDelayedMessage(p) \/ DeleteTaskInfo(p)

OwnerContinues == PostQuit \/ DeleteJoins

Terminated == opc = "deleted" /\ UNCHANGED vars

Next ==
    \/ WorkerStep
    \/ TaskReturns
    \/ \E p \in Poster : PostBegins(p) \/ PostContinues(p)
    \/ \E t \in Task : NewTask(t)
    \/ Delete \/ OwnerContinues
    \/ TimerElapses \/ FallbackTimerElapses
    \/ Tick
    \/ Terminated

Spec == Init /\ [][Next]_vars

\* Threads are scheduled, tasks return, time passes and timers elapse when
\* their time has come.
Fairness ==
    /\ WF_vars(WorkerStep)
    /\ WF_vars(TaskReturns)
    /\ \A p \in Poster : WF_vars(PostContinues(p))
    /\ WF_vars(OwnerContinues)
    /\ WF_vars(Tick)
    /\ WF_vars(timer_ <= now /\ TimerElapses)
    /\ WF_vars(timer_id_ <= now /\ FallbackTimerElapses)

FairSpec == Spec /\ Fairness

-----------------------------------------------------------------------------
(* Properties.                                                             *)

WorkerAt == {"wait", "peek", "limit", "check", "cancel", "due", "run_due",
             "schedule", "reset", "drain", "run_pending", "exited"}

\* Type invariant.  A thread's message queue never holds more than it can.
TypeOK ==
    /\ now \in 0..MaxTime
    /\ pending_ \in Seq(Task) /\ in_queue_ \in BOOLEAN
    /\ messages \in Seq(Message) /\ Len(messages) <= MaxMessages
    /\ input \in BOOLEAN
    /\ timer_ \in Timer /\ event_ \in BOOLEAN /\ timer_id_ \in Timer
    /\ timer_tasks_ \subseteq DelayedTaskInfo
    /\ wpc \in WorkerAt
    /\ result \in {"none", "timer", "queue", "messages"}
    /\ start \in Nat /\ tick \in Nat
    /\ back \in {"limit", "reset"}
    /\ run_task_ \in Task \cup {NoTask}
    /\ pinfo \in [Poster -> DelayedTaskInfo \cup {NoInfo}]
    /\ opc \in {"live", "quitting", "joining", "deleted"}
    /\ posted \subseteq Task /\ failed \subseteq Task /\ started \subseteq Task
    /\ due \in [Task -> Nat \cup {Immediate}]

\* While tasks are pending, in_queue_ is signalled or the worker, having reset
\* it, has yet to look at pending_: resetting the event before RunPendingTasks
\* empties the queue loses no task of a concurrent PostTask.
NoLostWakeup ==
    pending_ # <<>> =>
        in_queue_ \/ wpc \in {"drain", "run_pending"} \/ wpc = "exited"

\* A timer that is set for info, or was when info was already due.
SetFor(timer, info) == timer = Elapsed \/ timer \in 0..Expiry(info)

\* Whenever the worker waits, the earliest delayed task has exactly one timer,
\* set to elapse no later than the task is due, and without delayed tasks there
\* is no timer: cancelling, rescheduling and falling back from one kind of timer
\* to the other, in the message loop and after the wait, never lose it.
OneTimerForEarliest ==
    wpc = "wait" =>
        /\ timer_tasks_ = {} => timer_ = NoTimer /\ timer_id_ = NoTimer
        /\ timer_tasks_ # {} =>
             /\ timer_ = NoTimer \/ timer_id_ = NoTimer
             /\ \A info \in timer_tasks_ :
                  SetFor(timer_, info) \/ SetFor(timer_id_, info)

\* The RTC_DCHECKs of the timer code: RunDueTasks finds a task, and a timer is
\* started only when none is running and no event of an old one is left.
TimersAreClean ==
    /\ wpc = "due" => timer_tasks_ # {}
    /\ wpc \in {"due", "run_due", "schedule"} =>
         timer_ = NoTimer /\ timer_id_ = NoTimer /\ ~event_

\* Once Delete has freed the object, nobody uses it: neither the worker, nor a
\* call, nor a timer that would set its event.
NoUseAfterDelete ==
    opc = "deleted" =>
        /\ wpc = "exited" /\ \A p \in Poster : pinfo[p] = NoInfo
        /\ timer_ = NoTimer

\* How TaskQueueBase sees the queue.
PhaseOf(t) == IF run_task_ = t THEN "running"
              ELSE IF t \in started THEN "done"
              ELSE IF t \in posted THEN IF opc = "deleted" THEN "dropped" ELSE "queued"
              ELSE IF \E p \in Poster : pinfo[p].task = t THEN "called"
              ELSE "new"

phase == [t \in Task |-> PhaseOf(t)]

fifo == pending_

state == IF opc \in {"live", "deleted"} THEN opc ELSE "deleting"

Base == INSTANCE TaskQueueBase

\* The queue keeps every promise of TaskQueueBase: posting order for PostTask,
\* no two tasks at once, no delayed task early although timers may be, no task
\* twice and none started after Delete.  A delayed task that found the message
\* queue full counts as one that waits for ever.
ImplementsTaskQueueBase == Base!Spec

\* ProcessQueuedMessages stopped at its time limit and left messages behind.
\* They are no longer new, and nothing but a new message ends the wait for them.
LeftBehind == wpc = "wait" /\ messages # <<>> /\ ~input /\ timer_id_ = NoTimer

\* From some time on no task is posted with PostTask.
PostsDieDown == <>[][~ \E p \in Poster, t \in Task : PostTask(p, t)]_vars

Waits(t) == t \in posted \ (started \cup failed) /\ opc = "live"

HasMessage(t) == \E i \in DOMAIN messages : messages[i].task = t

\* No task waits for ever in a queue that is not deleted.  Tasks of PostTask start
\* whatever is posted after them.  in_queue_ is preferred to messages, so that
\* delayed tasks, unless their message could not be posted, have this promise only
\* if the posting of others dies down, and not while their message is among those
\* that are left behind.
TasksStart ==
    \A t \in Task :
        /\ []<>(Waits(t) => due[t] # Immediate)
        /\ PostsDieDown => []<>(Waits(t) => LeftBehind /\ HasMessage(t))

\* Delete returns: WM_QUIT gets into the message queue, and the worker gets to it
\* through pending tasks and timers.  It does not if the tasks go on to post others
\* for ever, since RunPendingTasks ends only when pending_ is empty and in_queue_ is
\* preferred to messages, nor if messages, WM_QUIT or those that leave no room for
\* it, are left behind for good.
DeleteTerminates ==
    PostsDieDown => []<>(opc \in {"quitting", "joining"} => LeftBehind)
=============================================================================
