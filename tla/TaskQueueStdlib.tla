--------------------------- MODULE TaskQueueStdlib ---------------------------
(***************************************************************************)
(* rtc_base/task_queue_stdlib.cc: a task queue made of one worker thread,  *)
(* a mutex (pending_lock_), a FIFO of immediate tasks, a map of delayed    *)
(* tasks and an auto-reset event on which the worker sleeps.               *)
(*                                                                         *)
(* One action per critical section or event operation: between two of them *)
(* any other thread may run.  The clock is read outside the lock, in       *)
(* PostDelayedTask and in GetNextTask, as in the code.                     *)
(***************************************************************************)
EXTENDS Integers, Sequences, FiniteSets

CONSTANTS Task,        \* QueuedTask objects, each posted at most once
          Client,      \* threads that post from outside the queue
          Delay,       \* the delays passed to PostDelayedTask
          MaxTime,     \* bound: the clock stands still at this instant
          IntModulus   \* 2^(width of int), 2^32 in the build

ASSUME ConstantsAssumption ==
    /\ MaxTime \in Nat
    /\ Delay \subseteq Nat
    /\ IntModulus \in Nat \ {0}

Worker == "worker"
Poster == Client \cup {Worker}
ASSUME WorkerAssumption == Worker \notin Client

NoTask == "none"
ASSUME NoTaskAssumption == NoTask \notin Task

kForever == -1
Immediate == -1
NotPosted == -1

VARIABLES
    now,                    \* rtc::TimeMillis()
    \* the TaskQueueStdlib object
    thread_should_quit_, thread_posting_order_, pending_queue_,
    delayed_queue_, flag_notify_, started_, stopped_,
    \* the worker: ProcessTasks and the locals of GetNextTask and Event::Wait
    wpc, tick, sleep_time_ms_, deadline, run_task_,
    \* a PostTask or PostDelayedTask call in progress, per posting thread
    ppc, ptask, pfire,
    \* the owner: constructor and Delete
    opc,
    \* history: number of posts, rank of each task among them, promised start
    \* of the delayed ones, and the tasks that were started
    posts, rank, due, started

queue == <<thread_should_quit_, thread_posting_order_, pending_queue_,
           delayed_queue_>>
events == <<flag_notify_, started_, stopped_>>
worker == <<wpc, tick, sleep_time_ms_, deadline, run_task_>>
calls == <<ppc, ptask, pfire>>
history == <<posts, rank, due, started>>
vars == <<now, queue, events, worker, calls, opc, history>>

Init ==
    /\ now = 0
    /\ thread_should_quit_ = FALSE
    /\ thread_posting_order_ = 0
    /\ pending_queue_ = <<>>
    /\ delayed_queue_ = {}
    /\ flag_notify_ = FALSE /\ started_ = FALSE /\ stopped_ = FALSE
    /\ wpc = "start" /\ tick = 0 /\ sleep_time_ms_ = 0 /\ deadline = 0
    /\ run_task_ = NoTask
    /\ ppc = [p \in Poster |-> "idle"]
    /\ ptask = [p \in Poster |-> NoTask]
    /\ pfire = [p \in Poster |-> 0]
    /\ opc = "constructing"
    /\ posts = 0
    /\ rank = [t \in Task |-> NotPosted]
    /\ due = [t \in Task |-> Immediate]
    /\ started = {}

-----------------------------------------------------------------------------
(* Posting.                                                                *)

\* A client may call until Delete is called; a task on the worker always may.
MayPost(p) == IF p = Worker THEN wpc = "run" ELSE opc = "live"

Fresh(t) == rank[t] = NotPosted /\ \A p \in Poster : ptask[p] # t

Posted(t) == /\ posts' = posts + 1
             /\ rank' = [rank EXCEPT ![t] = posts]

\* PostTask up to the end of the critical section; NotifyWake is the next step.
PostTask(p, t) ==
    /\ ppc[p] = "idle" /\ MayPost(p) /\ Fresh(t)
    /\ pending_queue_' = Append(pending_queue_,
                                [order |-> thread_posting_order_, task |-> t])
    /\ thread_posting_order_' = thread_posting_order_ + 1
    /\ ppc' = [ppc EXCEPT ![p] = "notify"]
    /\ Posted(t)
    /\ UNCHANGED <<now, thread_should_quit_, delayed_queue_, events, worker,
                   ptask, pfire, opc, due, started>>

\* PostDelayedTask: fire_at is computed before the lock is taken.  The bound
\* keeps every promised start within the modelled time.
PostDelayedTask(p, t, milliseconds) ==
    /\ ppc[p] = "idle" /\ MayPost(p) /\ Fresh(t)
    /\ now + milliseconds <= MaxTime
    /\ ppc' = [ppc EXCEPT ![p] = "insert"]
    /\ ptask' = [ptask EXCEPT ![p] = t]
    /\ pfire' = [pfire EXCEPT ![p] = now + milliseconds]
    /\ due' = [due EXCEPT ![t] = now + milliseconds]
    /\ UNCHANGED <<now, queue, events, worker, opc, posts, rank, started>>

\* delayed_queue_[delay] = task replaces the task of an equal key.
MapPut(map, entry) ==
    {e \in map : e.fire_at # entry.fire_at \/ e.order # entry.order} \cup {entry}

\* delay.order_ is never assigned and stays 0.
Mut_DelayedEntryUnordered(p) ==
    [fire_at |-> pfire[p], order |-> 0, task |-> ptask[p]]

\* delay.order_ = ++thread_posting_order_: pre-incremented.
DelayedEntry(p) ==
    [fire_at |-> pfire[p], order |-> thread_posting_order_ + 1, task |-> ptask[p]]

\* PostDelayedTask's critical section.
InsertDelayed(p) ==
    /\ ppc[p] = "insert"
    /\ delayed_queue_' = MapPut(delayed_queue_, DelayedEntry(p))
    /\ thread_posting_order_' = thread_posting_order_ + 1
    /\ ppc' = [ppc EXCEPT ![p] = "notify"]
    /\ ptask' = [ptask EXCEPT ![p] = NoTask]
    /\ Posted(ptask[p])
    /\ UNCHANGED <<now, thread_should_quit_, pending_queue_, events, worker,
                   pfire, opc, due, started>>

\* The event is signalled only when the worker is seen blocked on it.
Mut_NotifyWakeIfBlocked(p) ==
    /\ ppc[p] = "notify"
    /\ flag_notify_' = (flag_notify_ \/ wpc = "blocked")
    /\ ppc' = [ppc EXCEPT ![p] = "idle"]
    /\ UNCHANGED <<now, queue, started_, stopped_, worker, ptask, pfire, opc,
                   history>>

\* flag_notify_.Set(), after the lock is released.
NotifyWake(p) ==
    /\ ppc[p] = "notify"
    /\ flag_notify_' = TRUE
    /\ ppc' = [ppc EXCEPT ![p] = "idle"]
    /\ UNCHANGED <<now, queue, started_, stopped_, worker, ptask, pfire, opc,
                   history>>

-----------------------------------------------------------------------------
(* The worker: ProcessTasks.                                               *)

WorkerStarts ==
    /\ wpc = "start"
    /\ started_' = TRUE
    /\ wpc' = "get"
    /\ UNCHANGED <<now, queue, flag_notify_, stopped_, tick, sleep_time_ms_,
                   deadline, run_task_, calls, opc, history>>

\* GetNextTask reads the clock before it takes the lock.
ReadTick ==
    /\ wpc = "get"
    /\ tick' = now
    /\ wpc' = "lock"
    /\ UNCHANGED <<now, queue, events, sleep_time_ms_, deadline, run_task_,
                   calls, opc, history>>

\* delayed_queue_.begin(): least (next_fire_at_ms_, order_).
IsFront(d) ==
    /\ d \in delayed_queue_
    /\ \A e \in delayed_queue_ : \/ d.fire_at < e.fire_at
                                 \/ d.fire_at = e.fire_at /\ d.order <= e.order

DueFront(d) == IsFront(d) /\ tick >= d.fire_at

Mut_PendingBeforeAnyway(d) == Head(pending_queue_).order <= d.order

\* entry_order < delay_info.order_: the immediate task was posted first.
PendingBefore(d) == Head(pending_queue_).order < d.order

GetFinal ==
    /\ wpc = "lock" /\ thread_should_quit_
    /\ wpc' = "stop"
    /\ UNCHANGED <<now, queue, events, tick, sleep_time_ms_, deadline,
                   run_task_, calls, opc, history>>

Starts(t) ==
    /\ wpc' = "run"
    /\ run_task_' = t
    /\ started' = started \cup {t}
    /\ UNCHANGED <<now, thread_should_quit_, thread_posting_order_, events,
                   tick, sleep_time_ms_, deadline, calls, opc, posts, rank, due>>

\* pending_queue_.front() is run: no delayed task is due, or the first due one
\* was posted later.
GetPending ==
    /\ wpc = "lock" /\ ~thread_should_quit_
    /\ pending_queue_ # <<>>
    /\ \A d \in delayed_queue_ : DueFront(d) => PendingBefore(d)
    /\ pending_queue_' = Tail(pending_queue_)
    /\ Starts(Head(pending_queue_).task)
    /\ UNCHANGED delayed_queue_

GetDelayed(d) ==
    /\ wpc = "lock" /\ ~thread_should_quit_
    /\ DueFront(d)
    /\ pending_queue_ # <<>> => ~PendingBefore(d)
    /\ delayed_queue_' = delayed_queue_ \ {d}
    /\ Starts(d.task)
    /\ UNCHANGED pending_queue_

SleepUntil(d) == d.fire_at - tick

\* Nothing to run: sleep until the first delayed task, or for ever (0).
GetNothing ==
    /\ wpc = "lock" /\ ~thread_should_quit_
    /\ pending_queue_ = <<>>
    /\ \A d \in delayed_queue_ : ~DueFront(d)
    /\ wpc' = "wait"
    /\ IF delayed_queue_ = {}
       THEN sleep_time_ms_' = 0
       ELSE \E d \in delayed_queue_ : /\ IsFront(d)
                                      /\ sleep_time_ms_' = SleepUntil(d)
    /\ UNCHANGED <<now, queue, events, tick, deadline, run_task_, calls, opc,
                   history>>

GetNextTask ==
    \/ GetFinal
    \/ GetPending
    \/ \E d \in delayed_queue_ : GetDelayed(d)
    \/ GetNothing

\* The task returns from Run (and is deleted).
TaskReturns ==
    /\ wpc = "run" /\ ppc[Worker] = "idle"
    /\ wpc' = "get"
    /\ run_task_' = NoTask
    /\ UNCHANGED <<now, queue, events, tick, sleep_time_ms_, deadline, calls,
                   opc, history>>

\* Conversion of the int64_t sleep_time_ms_ to the int parameter of Event::Wait.
ToInt(ms) ==
    LET m == ms % IntModulus
    IN  IF 2 * m < IntModulus THEN m ELSE m - IntModulus

GiveUpAfter == IF sleep_time_ms_ = 0 THEN kForever ELSE ToInt(sleep_time_ms_)

\* Event::Wait computes when to give up; a negative time has already passed.
EnterWait ==
    /\ wpc = "wait"
    /\ deadline' = IF GiveUpAfter = kForever THEN kForever
                   ELSE IF now + GiveUpAfter < 0 THEN 0 ELSE now + GiveUpAfter
    /\ wpc' = "blocked"
    /\ UNCHANGED <<now, queue, events, tick, sleep_time_ms_, run_task_, calls,
                   opc, history>>

\* Wait returns true and resets the event.
WaitSignalled ==
    /\ wpc = "blocked"
    /\ flag_notify_
    /\ flag_notify_' = FALSE
    /\ wpc' = "get"
    /\ UNCHANGED <<now, queue, started_, stopped_, tick, sleep_time_ms_,
                   deadline, run_task_, calls, opc, history>>

\* Wait returns false; a Set that came with the timeout stays in the event.
\* The clock stops at MaxTime, which stands for every later instant: there
\* every finite wait ends.
WaitTimesOut ==
    /\ wpc = "blocked"
    /\ deadline # kForever
    /\ now >= deadline \/ now = MaxTime
    /\ wpc' = "get"
    /\ UNCHANGED <<now, queue, events, tick, sleep_time_ms_, deadline,
                   run_task_, calls, opc, history>>

WorkerStops ==
    /\ wpc = "stop"
    /\ stopped_' = TRUE
    /\ wpc' = "unwind"
    /\ UNCHANGED <<now, queue, flag_notify_, started_, tick, sleep_time_ms_,
                   deadline, run_task_, calls, opc, history>>

\* ThreadMain returns after the worker's last access to the object.
ThreadMainReturns ==
    /\ wpc = "unwind"
    /\ wpc' = "exited"
    /\ UNCHANGED <<now, queue, events, tick, sleep_time_ms_, deadline,
                   run_task_, calls, opc, history>>

-----------------------------------------------------------------------------
(* The owner: constructor, then Delete.                                    *)

OwnerGoes(from, to) ==
    /\ opc = from
    /\ opc' = to
    /\ UNCHANGED <<now, thread_posting_order_, worker, calls, history>>

\* The constructor returns when started_ was signalled.
Constructed ==
    /\ OwnerGoes("constructing", "live")
    /\ started_
    /\ started_' = FALSE
    /\ UNCHANGED <<queue, flag_notify_, stopped_>>

\* Delete, critical section.  The caller makes sure that no other thread is
\* inside a call on the queue.
DeleteSetsQuit ==
    /\ OwnerGoes("live", "quit")
    /\ \A p \in Client : ppc[p] = "idle"
    /\ thread_should_quit_' = TRUE
    /\ UNCHANGED <<pending_queue_, delayed_queue_, events>>

\* Delete forgets to wake the worker.
Mut_DeleteWithoutNotify ==
    /\ OwnerGoes("quit", "waiting")
    /\ UNCHANGED <<queue, events>>

DeleteNotifies ==
    /\ OwnerGoes("quit", "waiting")
    /\ flag_notify_' = TRUE
    /\ UNCHANGED <<queue, started_, stopped_>>

DeleteSeesStopped ==
    /\ OwnerGoes("waiting", "joining")
    /\ stopped_
    /\ stopped_' = FALSE
    /\ UNCHANGED <<queue, flag_notify_, started_>>

\* delete this without joining the thread first.
Mut_DeleteWithoutJoin ==
    /\ OwnerGoes("joining", "deleted")
    /\ pending_queue_' = <<>>
    /\ delayed_queue_' = {}
    /\ UNCHANGED <<thread_should_quit_, events>>

\* thread_.Stop() joins the worker, then the object and the tasks still in its
\* queues are destroyed.
DeleteJoins ==
    /\ OwnerGoes("joining", "deleted")
    /\ wpc = "exited"
    /\ pending_queue_' = <<>>
    /\ delayed_queue_' = {}
    /\ UNCHANGED <<thread_should_quit_, events>>

Tick ==
    /\ now < MaxTime
    /\ now' = now + 1
    /\ UNCHANGED <<queue, events, worker, calls, opc, history>>

-----------------------------------------------------------------------------
WorkerStep ==
    \/ WorkerStarts \/ ReadTick \/ GetNextTask \/ EnterWait
    \/ WaitSignalled \/ WaitTimesOut \/ WorkerStops \/ ThreadMainReturns

PostBegins(p) ==
    \E t \in Task : \/ PostTask(p, t)
                    \/ \E ms \in Delay : PostDelayedTask(p, t, ms)

PostContinues(p) == InsertDelayed(p) \/ NotifyWake(p)

OwnerContinues == \/ Constructed \/ DeleteNotifies
                  \/ DeleteSeesStopped \/ DeleteJoins

\* Nothing is left to do once the queue is gone.
Terminated == opc = "deleted" /\ UNCHANGED vars

Next ==
    \/ WorkerStep
    \/ TaskReturns
    \/ \E p \in Poster : PostBegins(p) \/ PostContinues(p)
    \/ DeleteSetsQuit
    \/ OwnerContinues
    \/ Tick
    \/ Terminated

Spec == Init /\ [][Next]_vars

\* Every started thread is scheduled again and again, tasks return, time
\* passes.  Nobody is obliged to post or to call Delete.
Fairness ==
    /\ WF_vars(WorkerStep)
    /\ WF_vars(TaskReturns)
    /\ \A p \in Poster : WF_vars(PostContinues(p))
    /\ WF_vars(OwnerContinues)
    /\ WF_vars(Tick)

FairSpec == Spec /\ Fairness

-----------------------------------------------------------------------------
(* Properties.                                                             *)

Nat1 == Nat \cup {-1}

\* Every variable of the queue, of the worker and of the callers has its type.
TypeOK ==
    /\ now \in Nat
    /\ thread_should_quit_ \in BOOLEAN
    /\ thread_posting_order_ \in Nat
    /\ pending_queue_ \in Seq([order : Nat, task : Task])
    /\ delayed_queue_ \in SUBSET [fire_at : Nat, order : Nat, task : Task]
    /\ flag_notify_ \in BOOLEAN /\ started_ \in BOOLEAN /\ stopped_ \in BOOLEAN
    /\ wpc \in {"start", "get", "lock", "run", "wait", "blocked", "stop",
                "unwind", "exited"}
    /\ tick \in Nat /\ sleep_time_ms_ \in Nat /\ deadline \in Nat1
    /\ run_task_ \in Task \cup {NoTask}
    /\ ppc \in [Poster -> {"idle", "insert", "notify"}]
    /\ ptask \in [Poster -> Task \cup {NoTask}]
    /\ \A p \in Poster : ppc[p] = "insert" => ptask[p] \in Task
    /\ pfire \in [Poster -> Nat]
    /\ opc \in {"constructing", "live", "quit", "waiting", "joining", "deleted"}
    /\ posts \in Nat
    /\ rank \in [Task -> Nat1]
    /\ due \in [Task -> Nat1]
    /\ started \in SUBSET Task

\* A thread that has changed the queues or the quit flag and has yet to signal.
NotifyPending == opc = "quit" \/ \E p \in Poster : ppc[p] = "notify"

\* No lost wake-up (the race the comment in NotifyWake argues about): when the
\* worker is about to wait or waits, either a signal is there or on its way, or
\* the queues hold nothing that its wait does not already account for.
NoLostWakeup ==
    wpc \in {"wait", "blocked"} /\ ~flag_notify_ /\ ~NotifyPending =>
        /\ ~thread_should_quit_
        /\ pending_queue_ = <<>>
        /\ \A d \in delayed_queue_ : /\ sleep_time_ms_ > 0
                                     /\ tick + sleep_time_ms_ <= d.fire_at

\* The order ids of the two queues, one post- and one pre-incremented, compare
\* the way the tasks were posted: GetNextTask's entry_order < delay_info.order_
\* says exactly that the immediate task was posted before the delayed one.
OrderIsPostingOrder ==
    \A i \in 1..Len(pending_queue_) :
        \A d \in delayed_queue_ :
            pending_queue_[i].order < d.order
                <=> rank[pending_queue_[i].task] < rank[d.task]

\* The object is destroyed only when the worker has made its last access to it.
NoUseAfterDelete == opc = "deleted" => wpc = "exited" /\ run_task_ = NoTask

\* Among the tasks that may start, posting order decides: an immediate task
\* never starts while the first due delayed task was posted before it, nor a
\* delayed one while an immediate task posted before it waits.
StartsInPostingOrder ==
    [][\A t \in started' \ started :
         \/ /\ due[t] = Immediate
            /\ \A d \in delayed_queue_ : DueFront(d) => rank[t] < rank[d.task]
         \/ /\ due[t] # Immediate
            /\ \A i \in 1..Len(pending_queue_) :
                   rank[t] < rank[pending_queue_[i].task]]_vars

\* Every task in a queue is started, unless the queue is being deleted.
TasksStart ==
    \A t \in Task : (rank[t] # NotPosted) ~> (t \in started \/ thread_should_quit_)

\* Delete returns: the worker sees the quit flag whatever it was doing.
DeleteTerminates == (opc = "quit") ~> (opc = "deleted")

-----------------------------------------------------------------------------
(* Refinement: the queue keeps the promises of TaskQueueBase.              *)

Waiting(t) == \/ \E i \in 1..Len(pending_queue_) : pending_queue_[i].task = t
              \/ \E d \in delayed_queue_ : d.task = t

PhaseOf(t) == IF run_task_ = t THEN "running"
              ELSE IF t \in started THEN "done"
              ELSE IF Waiting(t) THEN "queued"
              ELSE IF rank[t] # NotPosted THEN "dropped"
              ELSE IF \E p \in Poster : ptask[p] = t THEN "called"
              ELSE "new"

phase == [t \in Task |-> PhaseOf(t)]

fifo == [i \in 1..Len(pending_queue_) |-> pending_queue_[i].task]

state == CASE opc \in {"constructing", "live"} -> "live"
           [] opc \in {"quit", "waiting", "joining"} -> "deleting"
           [] opc = "deleted" -> "deleted"

Base == INSTANCE TaskQueueBase

\* Every behaviour of the queue, observed through phase, due, the FIFO and the
\* life of the object, is a behaviour that the API allows.
ImplementsTaskQueueBase == Base!Spec
=============================================================================
