---------------------------- MODULE TaskQueueBase ----------------------------
(***************************************************************************)
(* What every task queue promises to its users, from the comments of       *)
(* api/task_queue/task_queue_base.h: tasks posted with PostTask start in   *)
(* the order they were posted, tasks never overlap, a delayed task never   *)
(* starts before the instant fixed when PostDelayedTask was called, and    *)
(* once Delete has returned no task runs or starts.                        *)
(* TaskQueueStdlib, TaskQueueLibevent, TaskQueueWin and RtcThread refine   *)
(* Spec.                                                                   *)
(***************************************************************************)
EXTENDS Integers, Sequences

CONSTANTS Task,      \* names of QueuedTask objects
          Delay,     \* the delays, in milliseconds, that callers ask for
          MaxTime    \* bound: the clock stands still at this instant

VARIABLES now,       \* rtc::TimeMillis()
          phase,     \* phase[t]: where task t is in its life
          due,       \* due[t]: earliest start of a delayed task
          fifo,      \* the tasks posted with PostTask that wait
          state      \* life of the queue object

vars == <<now, phase, due, fifo, state>>

Immediate == -1

Phases == {"new", "called", "queued", "running", "done", "dropped"}

Init ==
    /\ now = 0
    /\ phase = [t \in Task |-> "new"]
    /\ due = [t \in Task |-> Immediate]
    /\ fifo = <<>>
    /\ state = "live"

Busy == \E r \in Task : phase[r] = "running"

\* Code off the queue calls no method once Delete was called; a task running
\* on the queue may still post.
MayPost == state = "live" \/ (state = "deleting" /\ Busy)

PostTask(t) ==
    /\ MayPost
    /\ phase[t] = "new"
    /\ phase' = [phase EXCEPT ![t] = "queued"]
    /\ fifo' = Append(fifo, t)
    /\ UNCHANGED <<now, due, state>>

\* The delay counts from the call ...
CallPostDelayedTask(t, ms) ==
    /\ MayPost
    /\ phase[t] = "new"
    /\ phase' = [phase EXCEPT ![t] = "called"]
    /\ due' = [due EXCEPT ![t] = now + ms]
    /\ UNCHANGED <<now, fifo, state>>

\* ... and the task is in the queue some time before the call returns.
PostDelayedTask(t) ==
    /\ phase[t] = "called"
    /\ phase' = [phase EXCEPT ![t] = "queued"]
    /\ UNCHANGED <<now, due, fifo, state>>

StartImmediate ==
    /\ state # "deleted"
    /\ ~Busy
    /\ fifo # <<>>
    /\ phase' = [phase EXCEPT ![Head(fifo)] = "running"]
    /\ fifo' = Tail(fifo)
    /\ UNCHANGED <<now, due, state>>

StartDelayed(t) ==
    /\ state # "deleted"
    /\ ~Busy
    /\ phase[t] = "queued"
    /\ due[t] # Immediate
    /\ due[t] <= now
    /\ phase' = [phase EXCEPT ![t] = "running"]
    /\ UNCHANGED <<now, due, fifo, state>>

Finish(t) ==
    /\ phase[t] = "running"
    /\ phase' = [phase EXCEPT ![t] = "done"]
    /\ UNCHANGED <<now, due, fifo, state>>

\* The name of a task that is over, and was deleted, goes to a new QueuedTask.
NewTask(t) ==
    /\ phase[t] = "done"
    /\ phase' = [phase EXCEPT ![t] = "new"]
    /\ due' = [due EXCEPT ![t] = Immediate]
    /\ UNCHANGED <<now, fifo, state>>

Delete ==
    /\ state = "live"
    /\ state' = "deleting"
    /\ UNCHANGED <<now, phase, due, fifo>>

\* Delete returns: nothing runs, nothing is half posted, and the tasks that
\* still wait are deleted without being executed.
DeleteReturns ==
    /\ state = "deleting"
    /\ ~Busy
    /\ \A t \in Task : phase[t] # "called"
    /\ state' = "deleted"
    /\ phase' = [t \in Task |-> IF phase[t] = "queued" THEN "dropped" ELSE phase[t]]
    /\ fifo' = <<>>
    /\ UNCHANGED <<now, due>>

Tick ==
    /\ now < MaxTime
    /\ now' = now + 1
    /\ UNCHANGED <<phase, due, fifo, state>>

Next ==
    \/ \E t \in Task : \/ PostTask(t)
                       \/ \E ms \in Delay : CallPostDelayedTask(t, ms)
                       \/ PostDelayedTask(t)
                       \/ StartDelayed(t)
                       \/ Finish(t)
                       \/ NewTask(t)
    \/ StartImmediate
    \/ Delete
    \/ DeleteReturns
    \/ Tick

Spec == Init /\ [][Next]_vars
=============================================================================
