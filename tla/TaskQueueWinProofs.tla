------------------------- MODULE TaskQueueWinProofs -------------------------
(***************************************************************************)
(* Proofs about TaskQueueWin, for any tasks, posting threads, delays, time *)
(* limit and capacity of the message queue: its invariants, and that it    *)
(* implements TaskQueueBase.                                               *)
(***************************************************************************)
EXTENDS TaskQueueWin, SequenceTheorems, TLAPS

\* What PeekMessage takes.
LEMMA PeekedMessage ==
    ASSUME messages \in Seq(Message), Len(messages) <= MaxMessages, PeekMessage
    PROVE  /\ Head(messages) \in Message
           /\ messages' \in Seq(Message) /\ Len(messages') <= MaxMessages
           /\ input' = FALSE
  BY ConstantsAssumption, HeadTailProperties DEF PeekMessage

\* What PostThreadMessage leaves in the queue.
LEMMA PostedMessage ==
    ASSUME messages \in Seq(Message), NEW m \in Message, PostThreadMessage(m)
    PROVE  /\ messages' \in Seq(Message) /\ Len(messages') <= MaxMessages
           /\ input' = TRUE
  BY ConstantsAssumption, AppendProperties DEF PostThreadMessage, HasRoom

\* What a timer may be, and an empty queue.
LEMMA TypeFacts ==
    /\ NoTimer \in Timer /\ Elapsed \in Timer /\ Nat \subseteq Timer
    /\ <<>> \in Seq(Task) /\ <<>> \in Seq(Message) /\ Len(<<>>) = 0
  BY DEF Timer

\* Every variable keeps its type, and a message queue never holds more than it
\* can (TypeOK).
THEOREM TypeCorrect == Spec => []TypeOK
  <1> USE ConstantsAssumption, WorkerAssumption, NoTaskAssumption, TypeFacts
  <1>1. Init => TypeOK
    <2> SUFFICES ASSUME Init PROVE TypeOK
      OBVIOUS
    <2>1. in_queue_ \in BOOLEAN /\ input \in BOOLEAN /\ event_ \in BOOLEAN
      BY DEF Init
    <2>2. timer_ \in Timer /\ timer_id_ \in Timer
      BY DEF Init
    <2>3. /\ pending_ \in Seq(Task)
          /\ messages \in Seq(Message) /\ Len(messages) <= MaxMessages
      BY DEF Init
    <2> QED
      BY <2>1, <2>2, <2>3 DEF Init, TypeOK, WorkerAt
  <1>2. TypeOK /\ [Next]_vars => TypeOK'
    <2> SUFFICES ASSUME TypeOK, [Next]_vars PROVE TypeOK'
      OBVIOUS
    <2> USE DEF TypeOK, WorkerAt
    <2>1. ASSUME NEW p \in Poster, NEW t \in Task, PostTask(p, t) PROVE TypeOK'
      BY <2>1 DEF PostTask, message_vars, timer_vars, worker, locals
    <2>2. ASSUME NEW p \in Poster, NEW t \in Task, NEW ms \in Delay,
                 PostDelayedTask(p, t, ms)
          PROVE  TypeOK'
      <3>1. [task |-> t, due_time |-> now + ms] \in DelayedTaskInfo
        BY DEF DelayedTaskInfo
      <3> QED
        BY <2>2, <3>1 DEF PostDelayedTask, fifo_vars, message_vars, timer_vars, worker,
           locals
    <2>3. ASSUME NEW p \in Poster, PostDelayedMessage(p) PROVE TypeOK'
      <3>1. pinfo[p] \in DelayedTaskInfo /\ pinfo[p].task \in Task
        BY <2>3 DEF PostDelayedMessage, DelayedTaskInfo
      <3>2. /\ messages' \in Seq(Message) /\ Len(messages') <= MaxMessages
            /\ input' \in BOOLEAN
        BY <2>3, <3>1, PostedMessage DEF PostDelayedMessage, Message
      <3> QED
        BY <2>3, <3>1, <3>2 DEF PostDelayedMessage, fifo_vars, timer_vars, worker, locals
    <2>4. ASSUME NEW p \in Poster, DeleteTaskInfo(p) PROVE TypeOK'
      <3>1. pinfo[p].task \in Task
        BY <2>4 DEF DeleteTaskInfo, DelayedTaskInfo
      <3> QED
        BY <2>4, <3>1 DEF DeleteTaskInfo, fifo_vars, message_vars, timer_vars, worker,
           locals
    <2>5. ASSUME NEW r \in {"timer", "queue", "messages"}, MsgWaitForMultipleObjectsEx(r)
          PROVE  TypeOK'
      BY <2>5 DEF MsgWaitForMultipleObjectsEx, WorkerUnchanged, fifo_vars, message_vars,
         timer_vars
    <2>6. CASE CancelReturns
      <3>1. timer_' \in Timer /\ event_' \in BOOLEAN
        BY <2>6 DEF CancelReturns, Cancel
      <3>2. timer_id_' \in Timer
        BY <2>6 DEF CancelReturns
      <3> QED
        BY <2>6, <3>1, <3>2 DEF CancelReturns, WorkerUnchanged, fifo_vars, message_vars
    <2>7. ASSUME NEW info \in timer_tasks_, RunDueTask(info) PROVE TypeOK'
      <3>1. info.task \in Task
        BY DEF DelayedTaskInfo
      <3> QED
        BY <2>7, <3>1 DEF RunDueTask, WorkerUnchanged, fifo_vars, message_vars,
           timer_vars, locals
    <2>8. CASE DueTaskReturns
      BY <2>8 DEF DueTaskReturns, WorkerUnchanged, fifo_vars, message_vars, timer_vars,
         locals
    <2>9. CASE NoneDue \/ CheckProcessingTime \/ Drained
      BY <2>9 DEF NoneDue, CheckProcessingTime, Drained, WorkerUnchanged, fifo_vars,
         message_vars, timer_vars, locals
    <2>10. CASE ScheduleNextTimer
      <3>1. timer_' \in Timer /\ event_' \in BOOLEAN /\ timer_id_' \in Timer
        <4>1. \A info \in timer_tasks_ : Expiry(info) \in Timer
          BY DEF Expiry, DelayedTaskInfo
        <4> QED
          BY <2>10, <4>1 DEF ScheduleNextTimer, SetsTimerFor, timer_vars
      <3> QED
        BY <2>10, <3>1 DEF ScheduleNextTimer, WorkerUnchanged, fifo_vars, message_vars,
           locals
    <2>11. CASE TimerElapses \/ FallbackTimerElapses
      <3>1. timer_' \in Timer /\ event_' \in BOOLEAN /\ timer_id_' \in Timer
        BY <2>11 DEF TimerElapses, FallbackTimerElapses
      <3> QED
        BY <2>11, <3>1 DEF TimerElapses, FallbackTimerElapses, fifo_vars, message_vars,
           worker, locals, history
    <2>12. CASE QueueDelayedTask
      <3>1. /\ Head(messages) \in DelayedTaskInfo
            /\ messages' \in Seq(Message) /\ Len(messages') <= MaxMessages
            /\ input' \in BOOLEAN
        BY <2>12, PeekedMessage DEF QueueDelayedTask, Message
      <3>2. timer_' \in Timer /\ event_' \in BOOLEAN /\ timer_tasks_' \subseteq DelayedTaskInfo
        BY <2>12, <3>1 DEF QueueDelayedTask, Cancel
      <3> QED
        BY <2>12, <3>1, <3>2 DEF QueueDelayedTask, WorkerUnchanged, fifo_vars
    <2>13. CASE Quit
      <3>1. /\ messages' \in Seq(Message) /\ Len(messages') <= MaxMessages
            /\ input' \in BOOLEAN
        BY <2>13, PeekedMessage DEF Quit
      <3> QED
        BY <2>13, <3>1 DEF Quit, WorkerUnchanged, fifo_vars, timer_vars, locals
    <2>14. CASE ProcessTimer \/ NoMessage
      <3>1. /\ timer_' \in Timer /\ event_' \in BOOLEAN /\ timer_id_' \in Timer
            /\ input' \in BOOLEAN
        BY <2>14 DEF ProcessTimer, NoMessage, timer_vars
      <3> QED
        BY <2>14, <3>1 DEF ProcessTimer, NoMessage, WorkerUnchanged, fifo_vars, locals
    <2>15. CASE CheckTimer \/ CheckInQueue
      BY <2>15 DEF CheckTimer, CheckInQueue, Cancel, WorkerUnchanged, fifo_vars,
         message_vars, timer_vars, locals
    <2>16. CASE RunPendingTask
      <3>1. Head(pending_) \in Task /\ Tail(pending_) \in Seq(Task)
        BY <2>16, HeadTailProperties DEF RunPendingTask
      <3> QED
        BY <2>16, <3>1 DEF RunPendingTask, WorkerUnchanged, message_vars, timer_vars, locals
    <2>17. CASE PendingTaskReturns
      BY <2>17 DEF PendingTaskReturns, WorkerUnchanged, fifo_vars, message_vars,
         timer_vars, locals
    <2>18. CASE Delete \/ Tick \/ UNCHANGED vars
      BY <2>18 DEF Delete, Tick, vars, fifo_vars, message_vars, timer_vars, worker,
         locals, history
    <2>19. CASE PostQuit
      <3>1. /\ messages' \in Seq(Message) /\ Len(messages') <= MaxMessages
            /\ input' \in BOOLEAN
        BY <2>19, PostedMessage DEF PostQuit, Message
      <3> QED
        BY <2>19, <3>1 DEF PostQuit, fifo_vars, timer_vars, worker, locals, history
    <2>20. CASE DeleteJoins
      <3>1. in_queue_' \in BOOLEAN /\ input' \in BOOLEAN /\ event_' \in BOOLEAN
        BY <2>20 DEF DeleteJoins, Destroy
      <3>2. timer_' \in Timer /\ timer_id_' \in Timer
        BY <2>20 DEF DeleteJoins, Destroy
      <3>3. /\ pending_' \in Seq(Task)
            /\ messages' \in Seq(Message) /\ Len(messages') <= MaxMessages
        BY <2>20 DEF DeleteJoins, Destroy
      <3> QED
        BY <2>20, <3>1, <3>2, <3>3 DEF DeleteJoins, Destroy, worker, locals, history
    <2>21. ASSUME NEW t \in Task, NewTask(t) PROVE TypeOK'
      BY <2>21 DEF NewTask, fifo_vars, message_vars, timer_vars, worker, locals
    <2> QED
      BY <2>1, <2>2, <2>3, <2>4, <2>5, <2>6, <2>7, <2>8, <2>9, <2>10, <2>11, <2>12,
         <2>13, <2>14, <2>15, <2>16, <2>17, <2>18, <2>19, <2>20, <2>21
      DEF Next, WorkerStep, TaskReturns, PostBegins, PostContinues, OwnerContinues,
          Terminated
  <1> QED
    BY <1>1, <1>2, PTL DEF Spec

-----------------------------------------------------------------------------
(* Waking the worker.                                                      *)

\* No wake-up is lost between PostTask and the worker (NoLostWakeup), for any
\* number of posting threads and tasks.
THEOREM WakeupCorrect == Spec => []NoLostWakeup
  <1>1. Init => NoLostWakeup
    BY DEF Init, NoLostWakeup
  <1>2. NoLostWakeup /\ [Next]_vars => NoLostWakeup'
    <2> SUFFICES ASSUME NoLostWakeup, [Next]_vars PROVE NoLostWakeup'
      OBVIOUS
    <2> USE DEF NoLostWakeup
    <2>1. ASSUME NEW p \in Poster, NEW t \in Task, PostTask(p, t) PROVE NoLostWakeup'
      BY <2>1 DEF PostTask
    <2>2. ASSUME NEW p \in Poster, NEW t \in Task, NEW ms \in Delay,
                 PostDelayedTask(p, t, ms)
          PROVE  NoLostWakeup'
      BY <2>2 DEF PostDelayedTask, fifo_vars, worker
    <2>3. ASSUME NEW p \in Poster, PostDelayedMessage(p) \/ DeleteTaskInfo(p)
          PROVE  NoLostWakeup'
      BY <2>3 DEF PostDelayedMessage, DeleteTaskInfo, fifo_vars, worker
    <2>4. ASSUME UNCHANGED fifo_vars, wpc \notin {"drain", "run_pending", "exited"}
          PROVE  NoLostWakeup'
      BY <2>4 DEF fifo_vars
    <2>5. ASSUME NEW r \in {"timer", "queue", "messages"}, MsgWaitForMultipleObjectsEx(r)
          PROVE  NoLostWakeup'
      BY <2>4, <2>5 DEF MsgWaitForMultipleObjectsEx
    <2>6. CASE QueueDelayedTask \/ Quit \/ ProcessTimer \/ NoMessage
      BY <2>4, <2>6 DEF QueueDelayedTask, Quit, ProcessTimer, NoMessage, PeekMessage
    <2>7. CASE CheckProcessingTime \/ CheckTimer \/ CancelReturns \/ NoneDue
               \/ ScheduleNextTimer \/ DueTaskReturns
      BY <2>4, <2>7 DEF CheckProcessingTime, CheckTimer, CancelReturns, NoneDue,
         ScheduleNextTimer, DueTaskReturns
    <2>8. ASSUME NEW info \in timer_tasks_, RunDueTask(info) PROVE NoLostWakeup'
      BY <2>4, <2>8 DEF RunDueTask
    <2>9. CASE CheckInQueue
      BY <2>9 DEF CheckInQueue
    <2>10. CASE RunPendingTask \/ PendingTaskReturns \/ Drained
      BY <2>10 DEF RunPendingTask, PendingTaskReturns, Drained, fifo_vars
    <2>11. CASE Delete \/ PostQuit \/ TimerElapses \/ FallbackTimerElapses \/ Tick
                \/ UNCHANGED vars
      BY <2>11 DEF Delete, PostQuit, TimerElapses, FallbackTimerElapses, Tick, vars,
         fifo_vars, worker
    <2>12. CASE DeleteJoins
      BY <2>12 DEF DeleteJoins, Destroy
    <2>13. ASSUME NEW t \in Task, NewTask(t) PROVE NoLostWakeup'
      BY <2>13 DEF NewTask, fifo_vars, worker
    <2> QED
      BY <2>1, <2>2, <2>3, <2>5, <2>6, <2>7, <2>8, <2>9, <2>10, <2>11, <2>12, <2>13
      DEF Next, WorkerStep, TaskReturns, PostBegins, PostContinues, OwnerContinues,
          Terminated
  <1> QED
    BY <1>1, <1>2, PTL DEF Spec

-----------------------------------------------------------------------------
(* Timers.                                                                 *)

\* The worker is neither changing the timers nor running tasks for them.
AtRest == {"wait", "peek", "limit", "check", "reset", "drain", "run_pending"}

\* The earliest task has the one timer.
Armed ==
    /\ timer_tasks_ = {} => timer_ = NoTimer /\ timer_id_ = NoTimer
    /\ timer_ = NoTimer \/ timer_id_ = NoTimer
    /\ \A info \in timer_tasks_ : SetFor(timer_, info) \/ SetFor(timer_id_, info)

\* The timers wherever the worker is.  What it found signalled is still so when
\* it looks again, which is why RunDueTasks finds a task.
TimerInv ==
    /\ wpc \in AtRest => Armed
    /\ wpc = "cancel" => /\ timer_ = NoTimer /\ timer_tasks_ # {}
                         /\ back = "reset" => timer_id_ = NoTimer
    /\ wpc \in {"due", "run_due", "schedule"} => timer_ = NoTimer /\ timer_id_ = NoTimer
    /\ wpc = "due" => timer_tasks_ # {}
    /\ wpc # "cancel" => (event_ = TRUE <=> timer_ = Elapsed)
    /\ wpc = "check" /\ result = "timer" => timer_ = Elapsed

LEMMA TimerValues == NoTimer # Elapsed /\ NoTimer \notin Nat /\ Elapsed \notin Nat
  BY DEF NoTimer, Elapsed

\* A timer that is set for a task is set for those due later.
LEMMA SetForLater ==
    ASSUME now \in Nat, NEW x, NEW a \in DelayedTaskInfo, NEW b \in DelayedTaskInfo,
           a.due_time <= b.due_time, SetFor(x, a)
    PROVE  SetFor(x, b)
  <1>1. a.due_time \in Nat /\ b.due_time \in Nat
    BY DEF DelayedTaskInfo
  <1>2. Expiry(a) \in Nat /\ Expiry(b) \in Nat /\ Expiry(a) <= Expiry(b)
    BY <1>1 DEF Expiry
  <1> QED
    BY <1>2 DEF SetFor

\* Time does not unset a timer.
LEMMA ArmedAsTimePasses ==
    ASSUME TypeOK, Armed, now' \in {now, now + 1},
           UNCHANGED <<timer_, timer_id_, timer_tasks_>>
    PROVE  Armed'
  <1>1. \A info \in timer_tasks_ : info.due_time \in Nat
    BY DEF TypeOK, DelayedTaskInfo
  <1>2. now \in Nat
    BY ConstantsAssumption DEF TypeOK
  <1>3. \A info \in timer_tasks_ :
            Expiry(info) \in Nat /\ Expiry(info)' \in Nat /\ Expiry(info) <= Expiry(info)'
    BY <1>1, <1>2 DEF Expiry
  <1>4. ASSUME NEW info \in timer_tasks_, NEW x, SetFor(x, info)
        PROVE  x = Elapsed \/ x \in 0..Expiry(info)'
    BY <1>3, <1>4 DEF SetFor
  <1>5. \A info \in timer_tasks_ :
            \/ timer_ = Elapsed \/ timer_ \in 0..Expiry(info)'
            \/ timer_id_ = Elapsed \/ timer_id_ \in 0..Expiry(info)'
    BY <1>4 DEF Armed
  <1> QED
    BY <1>5 DEF Armed, SetFor

\* The worker is in ProcessQueuedMessages only when the wait returned for messages.
MessagesInv ==
    \/ wpc \in {"peek", "limit"}
    \/ wpc \in {"cancel", "due", "run_due", "schedule"} /\ back = "limit"
    => result = "messages"

LEMMA MessagesInvStep == TypeOK /\ MessagesInv /\ [Next]_vars => MessagesInv'
  <1> SUFFICES ASSUME TypeOK, MessagesInv, [Next]_vars PROVE MessagesInv'
    OBVIOUS
  <1> USE DEF MessagesInv
  <1>1. ASSUME NEW p \in Poster, PostBegins(p) \/ PostContinues(p) PROVE MessagesInv'
    BY <1>1 DEF PostBegins, PostContinues, PostTask, PostDelayedTask, PostDelayedMessage,
       DeleteTaskInfo, worker, locals
  <1>2. CASE Delete \/ PostQuit \/ DeleteJoins \/ TimerElapses \/ FallbackTimerElapses
             \/ Tick \/ UNCHANGED vars
    BY <1>2 DEF Delete, PostQuit, DeleteJoins, Destroy, TimerElapses, FallbackTimerElapses,
       Tick, vars, worker, locals
  <1>3. CASE \E r \in {"timer", "queue", "messages"} : MsgWaitForMultipleObjectsEx(r)
    BY <1>3 DEF MsgWaitForMultipleObjectsEx
  <1>4. CASE QueueDelayedTask \/ Quit \/ ProcessTimer \/ NoMessage \/ CheckProcessingTime
    BY <1>4 DEF QueueDelayedTask, PeekMessage, Quit, ProcessTimer, NoMessage,
       CheckProcessingTime, locals
  <1>5. CASE CheckTimer \/ CheckInQueue \/ CancelReturns \/ NoneDue \/ ScheduleNextTimer
    <2>1. back \in {"limit", "reset"}
      BY DEF TypeOK
    <2> QED
      BY <1>5, <2>1 DEF CheckTimer, CheckInQueue, CancelReturns, NoneDue,
         ScheduleNextTimer, locals
  <1>6. CASE (\E info \in timer_tasks_ : RunDueTask(info)) \/ DueTaskReturns
             \/ RunPendingTask \/ PendingTaskReturns \/ Drained
    BY <1>6 DEF RunDueTask, DueTaskReturns, RunPendingTask, PendingTaskReturns, Drained,
       locals
  <1>7. ASSUME NEW t \in Task, NewTask(t) PROVE MessagesInv'
    BY <1>7 DEF NewTask, worker, locals
  <1> QED
    BY <1>1, <1>2, <1>3, <1>4, <1>5, <1>6, <1>7
    DEF Next, WorkerStep, TaskReturns, OwnerContinues, Terminated

\* A new task that is not the earliest leaves the timer as it is.
LEMMA QueueDelayedTaskKeepsTimers ==
    ASSUME TypeOK, TimerInv, QueueDelayedTask
    PROVE  TimerInv'
  <1> DEFINE info == Head(messages)
  <1>1. wpc = "peek" /\ info \in DelayedTaskInfo /\ timer_tasks_' = timer_tasks_ \cup {info}
        /\ UNCHANGED <<now, timer_id_, result>>
    BY PeekedMessage DEF QueueDelayedTask, PeekMessage, Message, WorkerUnchanged, TypeOK
  <1>2. Armed /\ (event_ = TRUE <=> timer_ = Elapsed)
    BY <1>1 DEF TimerInv, AtRest
  <1> HIDE DEF info
  <1>3. CASE NeedsTimer(info)
    <2>1. wpc' = "cancel" /\ timer_' = NoTimer /\ back' = "limit"
      BY <1>3 DEF QueueDelayedTask, Cancel, info
    <2> QED
      BY <1>1, <2>1 DEF TimerInv, AtRest
  <1>4. CASE ~NeedsTimer(info)
    <2>1. wpc' = "limit" /\ UNCHANGED <<timer_, event_>>
      BY <1>4 DEF QueueDelayedTask, info
    <2>2. PICK other \in timer_tasks_ : ~(other.due_time > info.due_time)
      BY <1>4 DEF NeedsTimer
    <2>3. other \in DelayedTaskInfo /\ other.due_time \in Nat /\ info.due_time \in Nat
      BY <1>1, <2>2 DEF TypeOK, DelayedTaskInfo
    <2>4. other.due_time <= info.due_time
      BY <2>2, <2>3
    <2>5. now \in Nat
      BY ConstantsAssumption DEF TypeOK
    <2>6. SetFor(timer_, info) \/ SetFor(timer_id_, info)
      BY <1>1, <1>2, <2>2, <2>3, <2>4, <2>5, SetForLater DEF Armed
    <2>7. Armed'
      BY <1>1, <1>2, <2>1, <2>2, <2>6 DEF Armed, SetFor, Expiry
    <2> QED
      BY <1>1, <1>2, <2>1, <2>7 DEF TimerInv, AtRest
  <1> QED
    BY <1>3, <1>4

\* A timer set for the earliest task is set for all.
LEMMA ScheduleKeepsTimers ==
    ASSUME TypeOK, TimerInv, ScheduleNextTimer
    PROVE  TimerInv'
  <1>1. /\ wpc = "schedule" /\ wpc' = back /\ back \in {"limit", "reset"}
        /\ UNCHANGED <<now, timer_tasks_, event_>>
        /\ timer_ = NoTimer /\ timer_id_ = NoTimer /\ event_ # TRUE
    BY TimerValues DEF ScheduleNextTimer, SetsTimerFor, WorkerUnchanged, timer_vars, TimerInv, TypeOK
  <1>2. timer_' # Elapsed /\ Armed'
    <2>1. CASE timer_tasks_ = {} /\ UNCHANGED timer_vars
      BY <1>1, <2>1, TimerValues DEF Armed, timer_vars
    <2>2. ASSUME NEW info \in timer_tasks_, Earliest(info), SetsTimerFor(info)
          PROVE  timer_' # Elapsed /\ Armed'
      <3>1. now \in Nat /\ \A i \in timer_tasks_ : i \in DelayedTaskInfo /\ i.due_time \in Nat
        BY ConstantsAssumption DEF TypeOK, DelayedTaskInfo
      <3>2. Expiry(info) \in Nat /\ SetFor(Expiry(info), info)
        BY <3>1 DEF Expiry, SetFor
      <3>3. \A i \in timer_tasks_ : SetFor(Expiry(info), i)
        BY <2>2, <3>1, <3>2, SetForLater DEF Earliest
      <3>4. \/ timer_' = Expiry(info) /\ timer_id_' = NoTimer
            \/ timer_id_' = Expiry(info) /\ timer_' = NoTimer
        BY <1>1, <2>2 DEF SetsTimerFor
      <3>5. timer_' # Elapsed
        BY <3>2, <3>4, TimerValues
      <3>6. \A i \in timer_tasks_ : SetFor(timer_, i)' \/ SetFor(timer_id_, i)'
        BY <1>1, <3>3, <3>4 DEF SetFor, Expiry
      <3> QED
        BY <1>1, <3>4, <3>5, <3>6 DEF Armed
    <2> QED
      BY <2>1, <2>2 DEF ScheduleNextTimer
  <1> QED
    BY <1>1, <1>2 DEF TimerInv, AtRest

LEMMA TimerInvStep == TypeOK /\ MessagesInv /\ TimerInv /\ [Next]_vars => TimerInv'
  <1> SUFFICES ASSUME TypeOK, MessagesInv, TimerInv, [Next]_vars PROVE TimerInv'
    OBVIOUS
  <1>1. ASSUME UNCHANGED <<timer_vars, timer_tasks_, wpc, back, result>>,
               now' \in {now, now + 1}
        PROVE  TimerInv'
    BY <1>1, ArmedAsTimePasses DEF TimerInv, timer_vars
  <1>2. ASSUME NEW p \in Poster, PostBegins(p) \/ PostContinues(p) PROVE TimerInv'
    BY <1>1, <1>2 DEF PostBegins, PostContinues, PostTask, PostDelayedTask,
       PostDelayedMessage, DeleteTaskInfo, worker, locals
  <1>3. CASE Delete \/ PostQuit \/ Tick \/ UNCHANGED vars
    BY <1>1, <1>3 DEF Delete, PostQuit, Tick, vars, worker, locals
  <1>4. ASSUME UNCHANGED <<timer_vars, timer_tasks_, now>>,
               wpc \in AtRest, wpc' \in AtRest \cup {"exited"},
               wpc' = "check" /\ result' = "timer" => timer_ = Elapsed
        PROVE  TimerInv'
    <2>1. Armed /\ Armed'
      BY <1>4, ArmedAsTimePasses DEF TimerInv, timer_vars
    <2>2. (event_ = TRUE <=> timer_ = Elapsed)'
      BY <1>4 DEF TimerInv, AtRest, timer_vars
    <2> QED
      BY <1>4, <2>1, <2>2 DEF TimerInv, AtRest, timer_vars
  <1>5. ASSUME NEW r \in {"timer", "queue", "messages"}, MsgWaitForMultipleObjectsEx(r)
        PROVE  TimerInv'
    <2>1. /\ wpc = "wait" /\ wpc' \in {"peek", "check"} /\ result' = r
          /\ UNCHANGED <<timer_vars, timer_tasks_, now>>
      BY <1>5 DEF MsgWaitForMultipleObjectsEx, WorkerUnchanged
    <2>2. r = "timer" => timer_ = Elapsed
      BY <1>5, <2>1 DEF MsgWaitForMultipleObjectsEx, Signalled, TimerInv, TypeOK
    <2> QED
      BY <1>4, <2>1, <2>2 DEF AtRest
  <1>6. CASE Quit \/ CheckInQueue \/ RunPendingTask \/ PendingTaskReturns \/ Drained
    BY <1>4, <1>6 DEF Quit, PeekMessage, CheckInQueue, RunPendingTask, PendingTaskReturns,
       Drained, WorkerUnchanged, AtRest, locals
  <1>7. CASE NoMessage \/ CheckProcessingTime
    BY <1>4, <1>7 DEF NoMessage, CheckProcessingTime, WorkerUnchanged, AtRest, locals,
       MessagesInv
  <1>8. CASE QueueDelayedTask
    BY <1>8, QueueDelayedTaskKeepsTimers
  <1>9. CASE ScheduleNextTimer
    BY <1>9, ScheduleKeepsTimers
  <1>10. CASE ProcessTimer
    <2>1. /\ wpc = "peek" /\ timer_id_ = Elapsed /\ timer_id_' = NoTimer /\ wpc' = "due"
          /\ UNCHANGED <<timer_, event_, timer_tasks_>>
      BY <1>10 DEF ProcessTimer
    <2>2. timer_ = NoTimer /\ timer_tasks_ # {} /\ event_ # TRUE
      BY <2>1, TimerValues DEF TimerInv, AtRest, Armed
    <2> QED
      BY <2>1, <2>2, TimerValues DEF TimerInv, AtRest
  <1>11. CASE CheckTimer
    <2>1. wpc = "check" /\ Armed /\ (event_ = TRUE <=> timer_ = Elapsed)
          /\ (result = "timer" => timer_ = Elapsed)
          /\ UNCHANGED <<timer_id_, timer_tasks_, result, now>> /\ back' = "reset"
      BY <1>11 DEF CheckTimer, WorkerUnchanged, TimerInv, AtRest
    <2>2. CASE result = "timer" \/ (timer_tasks_ # {} /\ event_)
      <3>1. timer_ = Elapsed
        BY <2>1, <2>2 DEF TypeOK
      <3>2. timer_id_ = NoTimer /\ timer_tasks_ # {}
        BY <2>1, <3>1, TimerValues DEF Armed
      <3>3. timer_' = NoTimer /\ wpc' = "cancel"
        BY <1>11, <2>2 DEF CheckTimer, Cancel
      <3> QED
        BY <2>1, <3>2, <3>3 DEF TimerInv, AtRest
    <2>3. CASE ~(result = "timer" \/ (timer_tasks_ # {} /\ event_))
      BY <1>4, <1>11, <2>1, <2>3 DEF CheckTimer, timer_vars, AtRest
    <2> QED
      BY <2>2, <2>3
  <1>12. CASE CancelReturns
    <2>1. /\ wpc = "cancel" /\ event_' = FALSE /\ timer_' = timer_
          /\ UNCHANGED <<timer_tasks_, back>>
          /\ \/ wpc' = "schedule" /\ timer_id_' = NoTimer
             \/ wpc' = "due" /\ timer_id_' = timer_id_ /\ back # "limit"
      BY <1>12 DEF CancelReturns, Cancel
    <2>2. timer_ = NoTimer /\ timer_tasks_ # {} /\ (back # "limit" => timer_id_ = NoTimer)
      BY <2>1 DEF TimerInv, TypeOK
    <2>3. timer_' # Elapsed /\ event_' # TRUE
      BY <2>1, <2>2, TimerValues
    <2> QED
      BY <2>1, <2>2, <2>3 DEF TimerInv, AtRest
  <1>13. CASE (\E info \in timer_tasks_ : RunDueTask(info)) \/ DueTaskReturns \/ NoneDue
    <2>1. /\ wpc \in {"due", "run_due"} /\ wpc' \in {"due", "run_due", "schedule"}
          /\ wpc' = "due" => timer_tasks_' # {}
          /\ UNCHANGED timer_vars
      BY <1>13 DEF RunDueTask, DueTaskReturns, NoneDue
    <2> QED
      BY <2>1 DEF TimerInv, AtRest, timer_vars
  <1>14. CASE TimerElapses \/ FallbackTimerElapses
    <2>1. /\ UNCHANGED <<timer_tasks_, wpc, back, result, now>>
          /\ \/ /\ timer_ \in Nat /\ timer_' = Elapsed /\ event_' = TRUE
                /\ timer_id_' = timer_id_
             \/ /\ timer_id_ \in Nat /\ timer_id_' = Elapsed
                /\ timer_' = timer_ /\ event_' = event_
      BY <1>14 DEF TimerElapses, FallbackTimerElapses, worker, locals
    <2>2. NoTimer \notin Nat /\ Elapsed # NoTimer
      BY TimerValues
    <2>3. Armed => Armed'
      BY <2>1, <2>2 DEF Armed, SetFor
    <2>4. wpc = "cancel" => timer_' = NoTimer
      BY <2>1, <2>2 DEF TimerInv
    <2>5. wpc = "cancel" /\ back = "reset" => timer_id_' = NoTimer
      BY <2>1, <2>2 DEF TimerInv
    <2>6. wpc \in {"due", "run_due", "schedule"} => timer_' = NoTimer /\ timer_id_' = NoTimer
      BY <2>1, <2>2 DEF TimerInv
    <2>7. wpc # "cancel" => (event_' = TRUE <=> timer_' = Elapsed)
      BY <2>1 DEF TimerInv
    <2> QED
      BY <2>1, <2>3, <2>4, <2>5, <2>6, <2>7 DEF TimerInv
  <1>15. CASE DeleteJoins
    <2>1. wpc' = "exited" /\ timer_' = NoTimer /\ event_' = FALSE
      BY <1>15 DEF DeleteJoins, Destroy, worker
    <2> QED
      BY <2>1, TimerValues DEF TimerInv, AtRest
  <1>16. ASSUME NEW t \in Task, NewTask(t) PROVE TimerInv'
    BY <1>1, <1>16 DEF NewTask, worker, locals
  <1> QED
    BY <1>2, <1>3, <1>5, <1>6, <1>7, <1>8, <1>9, <1>10, <1>11, <1>12, <1>13, <1>14, <1>15,
       <1>16
    DEF Next, WorkerStep, TaskReturns, OwnerContinues, Terminated

LEMMA TimerInvariant == Spec => []TimerInv
  <1>1. Init => TimerInv
    BY TimerValues DEF Init, TimerInv, AtRest, Armed
  <1>2. Init => MessagesInv
    BY DEF Init, MessagesInv
  <1> QED
    BY <1>1, <1>2, MessagesInvStep, TimerInvStep, TypeCorrect, PTL DEF Spec

\* Whenever the worker waits, the earliest delayed task has its one timer
\* (OneTimerForEarliest), whatever timers elapse and fail meanwhile.
THEOREM TimerCorrect == Spec => []OneTimerForEarliest
  <1>1. TimerInv => OneTimerForEarliest
    BY DEF TimerInv, AtRest, Armed, OneTimerForEarliest
  <1> QED
    BY <1>1, TimerInvariant, PTL

\* RunDueTasks finds a task and ScheduleNextTimer no timer (TimersAreClean): the
\* assertions of the code hold.
THEOREM CleanCorrect == Spec => []TimersAreClean
  <1>1. TypeOK /\ TimerInv => TimersAreClean
    BY TimerValues DEF TypeOK, TimerInv, TimersAreClean
  <1> QED
    BY <1>1, TypeCorrect, TimerInvariant, PTL

-----------------------------------------------------------------------------
(* Who may be where, until Delete has returned.                            *)

LifeInv ==
    /\ wpc \in {"run_due", "run_pending"} <=> run_task_ # NoTask
    /\ pinfo[Worker] # NoInfo => run_task_ # NoTask
    /\ opc # "live" => \A p \in Client : pinfo[p] = NoInfo
    /\ opc = "deleted" => wpc = "exited" /\ timer_ = NoTimer
    /\ tick <= now

LEMMA LifeInvStep == TypeOK /\ LifeInv /\ [Next]_vars => LifeInv'
  <1> SUFFICES ASSUME TypeOK, LifeInv, [Next]_vars PROVE LifeInv'
    OBVIOUS
  <1> USE WorkerAssumption, NoTaskAssumption DEF LifeInv
  <1>0. /\ now \in Nat /\ tick \in Nat
        /\ pinfo \in [Poster -> DelayedTaskInfo \cup {NoInfo}]
        /\ Worker \in Poster /\ \A p \in Poster : p \in Client \/ p = Worker
        /\ \A p \in Client : p \in Poster /\ p # Worker
    BY ConstantsAssumption DEF TypeOK, Poster
  <1>1. ASSUME UNCHANGED <<run_task_, pinfo, opc, timer_>>, wpc # "exited",
               wpc \notin {"run_due", "run_pending"}, wpc' \notin {"run_due", "run_pending"},
               now' = now, tick' \in {tick, now, 0}
        PROVE  LifeInv'
    BY <1>0, <1>1
  <1>2. ASSUME UNCHANGED <<run_task_, pinfo, opc>>, wpc # "exited",
               wpc \notin {"run_due", "run_pending"}, wpc' \notin {"run_due", "run_pending"},
               now' = now, tick' \in {tick, now, 0}
        PROVE  LifeInv'
    BY <1>0, <1>2
  <1>3. CASE \E r \in {"timer", "queue", "messages"} : MsgWaitForMultipleObjectsEx(r)
    BY <1>2, <1>3 DEF MsgWaitForMultipleObjectsEx, WorkerUnchanged
  <1>4. CASE QueueDelayedTask \/ Quit \/ ProcessTimer \/ NoMessage \/ CheckProcessingTime
    BY <1>2, <1>4 DEF QueueDelayedTask, PeekMessage, Quit, ProcessTimer, NoMessage,
       CheckProcessingTime, WorkerUnchanged, locals
  <1>5. CASE CheckTimer \/ CheckInQueue \/ CancelReturns \/ NoneDue \/ Drained
    BY <1>2, <1>5 DEF CheckTimer, CheckInQueue, CancelReturns, NoneDue, Drained,
       WorkerUnchanged, locals
  <1>6. CASE ScheduleNextTimer
    BY <1>2, <1>6 DEF ScheduleNextTimer, WorkerUnchanged, locals, TypeOK
  <1>7. ASSUME NEW t \in Task, wpc \in {"due", "drain"}, run_task_' = t,
               wpc' \in {"run_due", "run_pending"}, UNCHANGED <<now, tick, pinfo, opc>>
        PROVE  LifeInv'
    BY <1>0, <1>7
  <1>8. ASSUME NEW info \in timer_tasks_, RunDueTask(info) PROVE LifeInv'
    <2>1. info.task \in Task
      BY DEF TypeOK, DelayedTaskInfo
    <2> QED
      BY <1>7, <1>8, <2>1 DEF RunDueTask, WorkerUnchanged, locals
  <1>9. CASE RunPendingTask
    <2>1. Head(pending_) \in Task
      BY <1>9, HeadTailProperties DEF RunPendingTask, TypeOK
    <2> QED
      BY <1>7, <1>9, <2>1 DEF RunPendingTask, WorkerUnchanged, locals
  <1>10. CASE DueTaskReturns \/ PendingTaskReturns
    BY <1>0, <1>10 DEF DueTaskReturns, PendingTaskReturns, WorkerUnchanged, locals
  <1>11. ASSUME NEW p \in Poster, MayPost(p), UNCHANGED <<wpc, tick, now, run_task_, opc>>,
                \A q \in Poster : q # p => pinfo'[q] = pinfo[q],
                UNCHANGED timer_
         PROVE  LifeInv'
    <2>1. p \in Client => opc = "live"
      BY <1>11 DEF MayPost
    <2>2. p = Worker => run_task_ # NoTask
      BY <1>11 DEF MayPost
    <2>3. pinfo'[Worker] # NoInfo => run_task_' # NoTask
      BY <1>0, <1>11, <2>2
    <2>4. opc' # "live" => \A q \in Client : pinfo'[q] = NoInfo
      BY <1>0, <1>11, <2>1
    <2> QED
      BY <1>0, <1>11, <2>3, <2>4
  <1>12. ASSUME NEW p \in Poster, NEW t \in Task, PostTask(p, t) PROVE LifeInv'
    BY <1>11, <1>12 DEF PostTask, worker, locals, timer_vars
  <1>13. ASSUME NEW p \in Poster, NEW t \in Task, NEW ms \in Delay, PostDelayedTask(p, t, ms)
         PROVE  LifeInv'
    BY <1>0, <1>11, <1>13 DEF PostDelayedTask, worker, locals, timer_vars
  <1>14. ASSUME NEW p \in Poster, PostDelayedMessage(p) \/ DeleteTaskInfo(p) PROVE LifeInv'
    <2>1. /\ UNCHANGED <<wpc, tick, now, run_task_, opc, timer_>>
          /\ \A q \in Poster : pinfo'[q] # NoInfo => pinfo'[q] = pinfo[q]
      BY <1>0, <1>14 DEF PostDelayedMessage, DeleteTaskInfo, worker, locals, timer_vars
    <2>2. pinfo'[Worker] # NoInfo => run_task_' # NoTask
      BY <1>0, <2>1
    <2>3. opc' # "live" => \A q \in Client : pinfo'[q] = NoInfo
      BY <1>0, <2>1
    <2> QED
      BY <1>0, <2>1, <2>2, <2>3
  <1>15. CASE Delete \/ PostQuit
    BY <1>0, <1>15 DEF Delete, PostQuit, worker, locals, timer_vars
  <1>16. CASE DeleteJoins
    BY <1>0, <1>16 DEF DeleteJoins, Destroy, worker, locals
  <1>17. CASE TimerElapses \/ FallbackTimerElapses
    <2>1. /\ UNCHANGED <<wpc, tick, now, run_task_, opc, pinfo>>
          /\ timer_ = NoTimer => timer_' = NoTimer
      BY <1>17, TimerValues DEF TimerElapses, FallbackTimerElapses, worker, locals
    <2> QED
      BY <2>1
  <1>18. CASE Tick
    BY <1>0, <1>18 DEF Tick, worker, locals, timer_vars
  <1>19. CASE UNCHANGED vars
    BY <1>19 DEF vars, worker, locals, timer_vars
  <1>20. ASSUME NEW t \in Task, NewTask(t) PROVE LifeInv'
    BY <1>20 DEF NewTask, worker, locals, timer_vars
  <1> QED
    BY <1>3, <1>4, <1>5, <1>6, <1>8, <1>9, <1>10, <1>12, <1>13, <1>14, <1>15, <1>16, <1>17,
       <1>18, <1>19, <1>20
    DEF Next, WorkerStep, TaskReturns, PostBegins, PostContinues, OwnerContinues, Terminated

LEMMA LifeInvariant == Spec => []LifeInv
  <1>1. Init => LifeInv
    BY DEF Init, LifeInv, Poster
  <1> QED
    BY <1>1, LifeInvStep, TypeCorrect, PTL DEF Spec

\* Delete frees the object only when the worker has left it, no call is inside it
\* and its timer is dead (NoUseAfterDelete).
THEOREM DeleteCorrect == Spec => []NoUseAfterDelete
  <1>1. LifeInv => NoUseAfterDelete
    <2> SUFFICES ASSUME LifeInv, opc = "deleted"
                 PROVE  /\ wpc = "exited" /\ timer_ = NoTimer
                        /\ \A p \in Poster : pinfo[p] = NoInfo
      BY DEF NoUseAfterDelete
    <2>1. wpc = "exited" /\ timer_ = NoTimer /\ run_task_ = NoTask
      BY DEF LifeInv
    <2>2. pinfo[Worker] = NoInfo /\ \A p \in Client : pinfo[p] = NoInfo
      BY <2>1 DEF LifeInv
    <2> QED
      BY <2>1, <2>2 DEF Poster
  <1> QED
    BY <1>1, LifeInvariant, PTL

-----------------------------------------------------------------------------
(* Where each task is.                                                     *)

In(s, x) == \E i \in 1..Len(s) : s[i] = x
Once(s, x) == \A i, j \in 1..Len(s) : s[i] = x /\ s[j] = x => i = j

LEMMA InAppended ==
    ASSUME NEW S, NEW s \in Seq(S), NEW e \in S, NEW x
    PROVE  /\ In(Append(s, e), x) <=> In(s, x) \/ x = e
           /\ Once(s, x) /\ ~(x = e /\ In(s, x)) => Once(Append(s, e), x)
  <1> DEFINE n == Len(s)  a == Append(s, e)
  <1>1. /\ n \in Nat /\ Len(a) = n + 1 /\ a[n + 1] = e
        /\ \A i \in 1..n : a[i] = s[i]
    BY AppendProperties
  <1>2. \A i \in 1..(n + 1) : i \in 1..n \/ i = n + 1
    BY <1>1
  <1>3. \A i \in 1..n : i \in 1..(n + 1)
    BY <1>1
  <1>4. n + 1 \in 1..(n + 1)
    BY <1>1
  <1> HIDE DEF a, n
  <1>5. In(a, x) <=> In(s, x) \/ x = e
    BY <1>1, <1>2, <1>3, <1>4 DEF In, n
  <1>6. ASSUME Once(s, x), ~(x = e /\ In(s, x)) PROVE Once(a, x)
    <2>1. ASSUME NEW i \in 1..(n + 1), NEW j \in 1..(n + 1), a[i] = x, a[j] = x PROVE i = j
      <3>1. CASE i \in 1..n /\ j \in 1..n
        BY <1>1, <1>6, <2>1, <3>1 DEF Once, n
      <3>2. CASE i = n + 1 /\ j = n + 1
        BY <3>2
      <3>3. CASE i = n + 1 /\ j \in 1..n
        BY <1>1, <1>6, <2>1, <3>3 DEF In, n
      <3>4. CASE j = n + 1 /\ i \in 1..n
        BY <1>1, <1>6, <2>1, <3>4 DEF In, n
      <3> QED
        BY <1>2, <3>1, <3>2, <3>3, <3>4
    <2> QED
      BY <1>1, <2>1 DEF Once
  <1> QED
    BY <1>5, <1>6 DEF a

LEMMA InTail ==
    ASSUME NEW S, NEW s \in Seq(S), s # <<>>, NEW x
    PROVE  /\ In(s, Head(s)) /\ Head(s) \in S
           /\ In(Tail(s), x) => In(s, x)
           /\ Once(s, x) => Once(Tail(s), x)
           /\ Once(s, x) /\ x = Head(s) => ~In(Tail(s), x)
  <1> DEFINE n == Len(s)  t == Tail(s)
  <1>1. /\ n \in Nat \ {0} /\ Len(t) = n - 1 /\ Head(s) = s[1] /\ Head(s) \in S
        /\ \A i \in 1..(n - 1) : t[i] = s[i + 1]
    BY HeadTailProperties, EmptySeq
  <1>2. 1 \in 1..n /\ \A i \in 1..(n - 1) : i + 1 \in 1..n /\ i + 1 # 1 /\ i \in Nat
    BY <1>1
  <1> HIDE DEF t, n
  <1>3. In(s, Head(s)) /\ Head(s) \in S
    BY <1>1, <1>2 DEF In, n
  <1>4. In(t, x) => In(s, x)
    BY <1>1, <1>2 DEF In, n
  <1>5. Once(s, x) => Once(t, x)
    <2>1. ASSUME Once(s, x), NEW i \in 1..(n - 1), NEW j \in 1..(n - 1), t[i] = x, t[j] = x
          PROVE  i = j
      <3>1. i + 1 = j + 1
        BY <1>1, <1>2, <2>1 DEF Once, n
      <3> QED
        BY <1>2, <3>1
    <2> QED
      BY <1>1, <2>1 DEF Once
  <1>6. Once(s, x) /\ x = Head(s) => ~In(t, x)
    BY <1>1, <1>2 DEF In, Once, n
  <1> QED
    BY <1>3, <1>4, <1>5, <1>6 DEF t

LEMMA InEmpty == \A x : ~In(<<>>, x)
  BY DEF In

\* A delayed task that is posted, with the due time its caller was promised.
Matches(info) == info.task \in posted /\ due[info.task] = info.due_time

\* A task that waits in pending_.
Pends(t) == t \in posted \ started /\ due[t] = Immediate /\ Once(pending_, t)

\* A task is in one place, and a delayed one that has started is the running one.
PlaceInv ==
    /\ \A t \in Task : In(pending_, t) => Pends(t)
    /\ \A info \in DelayedTaskInfo : In(messages, info) =>
           /\ Matches(info) /\ info.task \notin started
           /\ info \notin timer_tasks_ /\ Once(messages, info)
    /\ \A info \in timer_tasks_ :
           /\ Matches(info)
           /\ info.task \in started => wpc = "run_due" /\ run_task_ = info.task

\* The calls in progress, and the tasks nobody has posted yet.
CallInv ==
    /\ \A p \in Poster : pinfo[p] # NoInfo =>
           pinfo[p].task \notin posted /\ due[pinfo[p].task] = pinfo[p].due_time
    /\ \A p, q \in Poster : pinfo[p] # NoInfo /\ pinfo[p].task = pinfo[q].task => p = q
    /\ \A t \in Task : Fresh(t) => due[t] = Immediate
    /\ started \subseteq posted
    /\ run_task_ \in started \cup {NoTask}

Known == TypeOK /\ LifeInv /\ PlaceInv /\ CallInv

LEMMA InfoFacts ==
    /\ \A a \in DelayedTaskInfo : a.task \in Task /\ a.due_time \in Nat /\ a # NoInfo
    /\ \A a, b \in DelayedTaskInfo : a.task = b.task /\ a.due_time = b.due_time => a = b
    /\ NoInfo.task = NoTask
  BY NoTaskAssumption DEF DelayedTaskInfo, NoInfo

LEMMA CallFacts ==
    ASSUME TypeOK, NEW p \in Poster
    PROVE  /\ pinfo[p] = NoInfo <=> pinfo[p].task \notin Task
           /\ pinfo[p] # NoInfo => pinfo[p] \in DelayedTaskInfo
           /\ pinfo[p] # NoInfo <=> pinfo[p].task # NoTask
  <1>1. pinfo[p] \in DelayedTaskInfo \cup {NoInfo}
    BY DEF TypeOK
  <1> QED
    BY <1>1, InfoFacts, NoTaskAssumption

\* The steps that move no task.
LEMMA PlaceStays ==
    ASSUME PlaceInv, CallInv,
           UNCHANGED <<pending_, messages, timer_tasks_, pinfo, posted, due, started, run_task_>>,
           wpc # "run_due" \/ wpc' = wpc
    PROVE  PlaceInv' /\ CallInv'
  BY DEF PlaceInv, CallInv, Matches, Pends, In, Once, Fresh

LEMMA PostTaskKeepsPlace ==
    ASSUME Known, NEW p \in Poster, NEW t \in Task, PostTask(p, t)
    PROVE  PlaceInv' /\ CallInv'
  <1>1. /\ pending_' = Append(pending_, t) /\ posted' = posted \cup {t} /\ Fresh(t)
        /\ UNCHANGED <<messages, timer_tasks_, pinfo, due, started, run_task_, wpc>>
        /\ pending_ \in Seq(Task) /\ posted \subseteq Task
    BY DEF PostTask, Known, TypeOK, message_vars, worker
  <1>2. due[t] = Immediate /\ t \notin posted /\ \A q \in Poster : pinfo[q].task # t
    BY <1>1 DEF Known, CallInv, Fresh
  <1>3. \A u \in Task : In(pending_', u) <=> In(pending_, u) \/ u = t
    BY <1>1, InAppended
  <1>4. \A u \in Task : In(pending_', u) => Pends(u)'
    <2> SUFFICES ASSUME NEW u \in Task, In(pending_', u) PROVE Pends(u)'
      OBVIOUS
    <2>1. ~In(pending_, t) /\ t \notin started
      BY <1>2 DEF Known, PlaceInv, Pends, CallInv
    <2>2. Once(pending_, u) => Once(pending_', u)
      BY <1>1, <2>1, InAppended
    <2>3. Once(pending_, u)
      <3>1. CASE u = t
        BY <2>1, <3>1 DEF In, Once
      <3>2. CASE u # t
        BY <1>3, <3>2 DEF Known, PlaceInv, Pends
      <3> QED
        BY <3>1, <3>2
    <2>4. u \in posted' \ started' /\ due'[u] = Immediate
      BY <1>1, <1>2, <1>3, <2>1 DEF Known, PlaceInv, Pends
    <2> QED
      BY <2>2, <2>3, <2>4 DEF Pends, Once
  <1>5. PlaceInv'
    BY <1>1, <1>4 DEF Known, PlaceInv, Matches, In, Once
  <1>6. \A u \in Task : Fresh(u)' => Fresh(u)
    BY <1>1 DEF Fresh
  <1>7. CallInv'
    BY <1>1, <1>2, <1>6 DEF Known, CallInv
  <1> QED
    BY <1>5, <1>7

LEMMA PostDelayedTaskKeepsPlace ==
    ASSUME Known, NEW p \in Poster, NEW t \in Task, NEW ms \in Delay,
           PostDelayedTask(p, t, ms)
    PROVE  PlaceInv' /\ CallInv'
  <1> DEFINE new == [task |-> t, due_time |-> now + ms]
  <1>1. /\ pinfo' = [pinfo EXCEPT ![p] = new] /\ due' = [due EXCEPT ![t] = now + ms]
        /\ Fresh(t) /\ pinfo[p] = NoInfo
        /\ UNCHANGED <<pending_, messages, timer_tasks_, posted, started, run_task_, wpc>>
    BY DEF PostDelayedTask, fifo_vars, message_vars, worker
  <1>2. /\ due \in [Task -> Nat \cup {Immediate}] /\ posted \subseteq Task
        /\ pinfo \in [Poster -> DelayedTaskInfo \cup {NoInfo}]
        /\ timer_tasks_ \subseteq DelayedTaskInfo
    BY DEF Known, TypeOK
  <1>3. new.task = t /\ new.due_time = now + ms
    OBVIOUS
  <1> HIDE DEF new
  <1>4. /\ t \notin posted /\ (\A q \in Poster : pinfo[q].task # t)
        /\ pinfo'[p] = new /\ \A q \in Poster : q # p => pinfo'[q] = pinfo[q]
    BY <1>1, <1>2 DEF Fresh
  <1>5. due'[t] = now + ms /\ \A u \in Task : u # t => due'[u] = due[u]
    BY <1>1, <1>2
  <1>6. \A info \in DelayedTaskInfo : Matches(info) => Matches(info)'
    BY <1>1, <1>4, <1>5, InfoFacts DEF Matches
  <1>7. \A u \in Task : u \in posted => due'[u] = due[u]
    BY <1>4, <1>5
  <1>8. PlaceInv'
    <2>1. \A u \in Task : In(pending_, u)' => Pends(u)'
      BY <1>1, <1>7 DEF Known, PlaceInv, Pends, In, Once
    <2>2. \A info \in DelayedTaskInfo : In(messages, info)' =>
              /\ Matches(info)' /\ info.task \notin started'
              /\ info \notin timer_tasks_' /\ Once(messages, info)'
      BY <1>1, <1>6 DEF Known, PlaceInv, In, Once
    <2>3. \A info \in timer_tasks_' :
              /\ Matches(info)'
              /\ info.task \in started' => wpc' = "run_due" /\ run_task_' = info.task
      BY <1>1, <1>2, <1>6 DEF Known, PlaceInv
    <2> QED
      BY <2>1, <2>2, <2>3 DEF PlaceInv
  <1>9. \A q \in Poster : pinfo'[q] # NoInfo =>
            pinfo'[q].task \notin posted' /\ due'[pinfo'[q].task] = pinfo'[q].due_time
    <2> SUFFICES ASSUME NEW q \in Poster, pinfo'[q] # NoInfo
                 PROVE  /\ pinfo'[q].task \notin posted'
                        /\ due'[pinfo'[q].task] = pinfo'[q].due_time
      OBVIOUS
    <2>1. CASE q = p
      BY <1>1, <1>3, <1>4, <1>5, <2>1
    <2>2. CASE q # p
      <3>1. pinfo[q] # NoInfo /\ pinfo[q].task \in Task /\ pinfo[q].task # t
        BY <1>4, <2>2, CallFacts DEF Known
      <3> QED
        BY <1>1, <1>4, <1>5, <2>2, <3>1 DEF Known, CallInv
    <2> QED
      BY <2>1, <2>2
  <1>10. \A q, r \in Poster : pinfo'[q] # NoInfo /\ pinfo'[q].task = pinfo'[r].task => q = r
    BY <1>3, <1>4 DEF Known, CallInv
  <1>11. \A u \in Task : Fresh(u)' => u # t /\ Fresh(u)
    <2> SUFFICES ASSUME NEW u \in Task, Fresh(u)' PROVE u # t /\ Fresh(u)
      OBVIOUS
    <2>1. u \notin posted /\ \A q \in Poster : pinfo'[q].task # u
      BY <1>1 DEF Fresh
    <2>2. u # t
      BY <1>3, <1>4, <2>1
    <2>3. pinfo[p].task # u
      BY <1>1, CallFacts DEF Known
    <2> QED
      BY <1>4, <2>1, <2>2, <2>3 DEF Fresh
  <1>12. CallInv'
    <2>1. \A u \in Task : Fresh(u)' => due'[u] = Immediate
      BY <1>5, <1>11 DEF Known, CallInv
    <2>2. started' \subseteq posted' /\ run_task_' \in started' \cup {NoTask}
      BY <1>1 DEF Known, CallInv
    <2> QED
      BY <1>9, <1>10, <2>1, <2>2 DEF CallInv
  <1> QED
    BY <1>8, <1>12

\* A call ends: its task is posted, in the message queue or nowhere.
LEMMA PostEnds ==
    ASSUME Known, NEW p \in Poster, NEW m, m = pinfo[p], m # NoInfo,
           pinfo' = [pinfo EXCEPT ![p] = NoInfo], posted' = posted \cup {m.task},
           UNCHANGED <<due, started, run_task_>>
    PROVE  /\ CallInv'
           /\ \A info \in DelayedTaskInfo : Matches(info) => Matches(info)'
           /\ Matches(m)' /\ ~Matches(m) /\ m.task \notin started
           /\ m \in DelayedTaskInfo
  <1>1. /\ pinfo'[p] = NoInfo /\ \A q \in Poster : q # p => pinfo'[q] = pinfo[q]
    BY DEF Known, TypeOK
  <1>2. /\ m \in DelayedTaskInfo /\ m.task \in Task /\ m.task \notin posted
        /\ due[m.task] = m.due_time
    BY CallFacts DEF Known, CallInv
  <1>3. \A q \in Poster : pinfo'[q] # NoInfo =>
            pinfo'[q].task \notin posted' /\ due'[pinfo'[q].task] = pinfo'[q].due_time
    BY <1>1 DEF Known, CallInv
  <1>4. \A q, r \in Poster : pinfo'[q] # NoInfo /\ pinfo'[q].task = pinfo'[r].task => q = r
    <2> SUFFICES ASSUME NEW q \in Poster, NEW r \in Poster, pinfo'[q] # NoInfo,
                        pinfo'[q].task = pinfo'[r].task
                 PROVE  q = r
      OBVIOUS
    <2>1. q # p /\ pinfo'[q] = pinfo[q] /\ pinfo[q].task # NoTask
      BY <1>1, CallFacts DEF Known
    <2>2. r # p
      BY <1>1, <2>1, InfoFacts
    <2> QED
      BY <1>1, <2>1, <2>2 DEF Known, CallInv
  <1>5. \A u \in Task : Fresh(u)' => Fresh(u)
    BY <1>1 DEF Fresh
  <1>6. started' \subseteq posted' /\ run_task_' \in started' \cup {NoTask}
    BY DEF Known, CallInv
  <1>7. CallInv'
    BY <1>3, <1>4, <1>5, <1>6 DEF Known, CallInv
  <1>8. /\ \A info \in DelayedTaskInfo : Matches(info) => Matches(info)'
        /\ Matches(m)' /\ ~Matches(m) /\ m.task \notin started
    <2>1. m.task \notin started
      BY <1>2 DEF Known, CallInv
    <2>2. \A info \in DelayedTaskInfo : Matches(info) => Matches(info)'
      BY DEF Matches
    <2>3. ~Matches(m)
      BY <1>2 DEF Matches
    <2>4. m.task \in posted' /\ due'[m.task] = m.due_time
      BY <1>2
    <2> QED
      BY <2>1, <2>2, <2>3, <2>4 DEF Matches
  <1> QED
    BY <1>2, <1>7, <1>8

LEMMA PostDelayedMessageKeepsPlace ==
    ASSUME Known, NEW p \in Poster, PostDelayedMessage(p)
    PROVE  PlaceInv' /\ CallInv'
  <1> DEFINE m == pinfo[p]
  <1>1. /\ m # NoInfo /\ messages' = Append(messages, m)
        /\ pinfo' = [pinfo EXCEPT ![p] = NoInfo] /\ posted' = posted \cup {m.task}
        /\ UNCHANGED <<due, started, run_task_, pending_, timer_tasks_, wpc>>
    BY DEF PostDelayedMessage, PostThreadMessage, fifo_vars, worker
  <1>2. \A x : x = m =>
        /\ CallInv' /\ Matches(x)' /\ ~Matches(x) /\ x.task \notin started
        /\ x \in DelayedTaskInfo
        /\ \A info \in DelayedTaskInfo : Matches(info) => Matches(info)'
    BY <1>1, PostEnds
  <1> SUFFICES ASSUME NEW x, x = m PROVE PlaceInv' /\ CallInv'
    OBVIOUS
  <1>3. /\ CallInv' /\ Matches(x)' /\ ~Matches(x) /\ x.task \notin started
        /\ x \in DelayedTaskInfo
        /\ \A info \in DelayedTaskInfo : Matches(info) => Matches(info)'
    BY <1>2
  <1>4. messages' = Append(messages, x)
    BY <1>1
  <1> HIDE DEF m
  <1>5. messages \in Seq(Message) /\ x \in Message /\ timer_tasks_ \subseteq DelayedTaskInfo
    BY <1>3 DEF Known, TypeOK, Message
  <1>6. ~In(messages, x) /\ x \notin timer_tasks_
    BY <1>3 DEF Known, PlaceInv
  <1>7. \A info \in DelayedTaskInfo : In(messages, info)' =>
              /\ Matches(info)' /\ info.task \notin started'
              /\ info \notin timer_tasks_' /\ Once(messages, info)'
    <2> SUFFICES ASSUME NEW info \in DelayedTaskInfo, In(messages', info)
                 PROVE  /\ Matches(info)' /\ info.task \notin started'
                        /\ info \notin timer_tasks_' /\ Once(messages', info)
      BY DEF In, Once
    <2>1. /\ In(messages, info) \/ info = x
          /\ Once(messages, info) /\ ~(info = x /\ In(messages, info)) => Once(messages', info)
      BY <1>4, <1>5, InAppended
    <2>2. CASE info = x
      <3>1. Once(messages, info)
        BY <1>6, <2>2 DEF In, Once
      <3> QED
        BY <1>1, <1>3, <1>6, <2>1, <2>2, <3>1
    <2>3. CASE info # x
      BY <1>1, <1>3, <2>1, <2>3 DEF Known, PlaceInv
    <2> QED
      BY <2>2, <2>3
  <1>8. \A u \in Task : In(pending_, u)' => Pends(u)'
    BY <1>1 DEF Known, PlaceInv, Pends, In, Once
  <1>9. \A info \in timer_tasks_' :
            /\ Matches(info)'
            /\ info.task \in started' => wpc' = "run_due" /\ run_task_' = info.task
    BY <1>1, <1>3, <1>5 DEF Known, PlaceInv
  <1> QED
    BY <1>3, <1>7, <1>8, <1>9 DEF PlaceInv

LEMMA DeleteTaskInfoKeepsPlace ==
    ASSUME Known, NEW p \in Poster, DeleteTaskInfo(p)
    PROVE  PlaceInv' /\ CallInv'
  <1>1. /\ pinfo[p] # NoInfo
        /\ pinfo' = [pinfo EXCEPT ![p] = NoInfo] /\ posted' = posted \cup {pinfo[p].task}
        /\ UNCHANGED <<due, started, run_task_, pending_, messages, timer_tasks_, wpc>>
    BY DEF DeleteTaskInfo, fifo_vars, message_vars, worker
  <1>2. /\ CallInv' /\ \A info \in DelayedTaskInfo : Matches(info) => Matches(info)'
    BY <1>1, PostEnds
  <1>3. timer_tasks_ \subseteq DelayedTaskInfo
    BY DEF Known, TypeOK
  <1>4. \A u \in Task : In(pending_, u)' => Pends(u)'
    BY <1>1 DEF Known, PlaceInv, Pends, In, Once
  <1>5. \A info \in DelayedTaskInfo : In(messages, info)' =>
            /\ Matches(info)' /\ info.task \notin started'
            /\ info \notin timer_tasks_' /\ Once(messages, info)'
    BY <1>1, <1>2 DEF Known, PlaceInv, In, Once
  <1>6. \A info \in timer_tasks_' :
            /\ Matches(info)'
            /\ info.task \in started' => wpc' = "run_due" /\ run_task_' = info.task
    BY <1>1, <1>2, <1>3 DEF Known, PlaceInv
  <1> QED
    BY <1>2, <1>4, <1>5, <1>6 DEF PlaceInv

\* What a peeked message leaves behind.
LEMMA MessageTaken ==
    ASSUME Known, PeekMessage, NEW info \in DelayedTaskInfo, In(messages', info)
    PROVE  /\ Matches(info) /\ info.task \notin started
           /\ info \notin timer_tasks_ /\ Once(messages', info) /\ info # Head(messages)
  <1>1. messages \in Seq(Message) /\ messages # <<>> /\ messages' = Tail(messages)
    BY DEF PeekMessage, Known, TypeOK
  <1>2. /\ In(messages, info)
        /\ Once(messages, info) => Once(messages', info)
        /\ Once(messages, info) /\ info = Head(messages) => ~In(messages', info)
    BY <1>1, InTail
  <1> QED
    BY <1>2 DEF Known, PlaceInv

LEMMA TakeMessageKeepsPlace ==
    ASSUME Known, PeekMessage, QueueDelayedTask \/ Quit
    PROVE  PlaceInv' /\ CallInv'
  <1>1. /\ UNCHANGED <<pending_, pinfo, posted, due, started, run_task_>>
        /\ wpc = "peek"
    BY DEF QueueDelayedTask, Quit, WorkerUnchanged, fifo_vars, PeekMessage
  <1>2. CallInv'
    BY <1>1 DEF Known, CallInv, Fresh
  <1>3. \A t \in Task : In(pending_, t)' => Pends(t)'
    BY <1>1 DEF Known, PlaceInv, Pends, In, Once
  <1>4. timer_tasks_' \subseteq timer_tasks_ \cup {Head(messages)}
    BY DEF QueueDelayedTask, Quit
  <1>5. \A info \in DelayedTaskInfo : In(messages, info)' =>
            /\ Matches(info)' /\ info.task \notin started'
            /\ info \notin timer_tasks_' /\ Once(messages, info)'
    <2> SUFFICES ASSUME NEW info \in DelayedTaskInfo, In(messages', info)
                 PROVE  /\ Matches(info)' /\ info.task \notin started'
                        /\ info \notin timer_tasks_' /\ Once(messages', info)
      BY DEF In, Once
    <2>1. /\ Matches(info) /\ info.task \notin started
          /\ info \notin timer_tasks_ /\ Once(messages', info) /\ info # Head(messages)
      BY MessageTaken
    <2> QED
      BY <1>1, <1>4, <2>1 DEF Matches
  <1>6. \A info \in timer_tasks_' :
            /\ Matches(info)'
            /\ info.task \in started' => wpc' = "run_due" /\ run_task_' = info.task
    <2>1. \A info \in timer_tasks_ : Matches(info)' /\ info.task \notin started'
      BY <1>1 DEF Known, PlaceInv, Matches
    <2>2. CASE Quit
      BY <2>1, <2>2 DEF Quit
    <2>3. CASE QueueDelayedTask
      <3>1. messages \in Seq(Message) /\ messages # <<>>
        BY DEF PeekMessage, Known, TypeOK
      <3>2. Head(messages) \in DelayedTaskInfo /\ In(messages, Head(messages))
        BY <2>3, <3>1, InTail DEF QueueDelayedTask, Message
      <3>3. Matches(Head(messages)) /\ Head(messages).task \notin started
        BY <3>2 DEF Known, PlaceInv
      <3>4. \A x : x = Head(messages) => Matches(x)' /\ x.task \notin started'
        BY <1>1, <3>3 DEF Matches
      <3> QED
        BY <1>4, <2>1, <3>4
    <2> QED
      BY <2>2, <2>3
  <1> QED
    BY <1>2, <1>3, <1>5, <1>6 DEF PlaceInv

\* A task starts or returns.
LEMMA RunDueTaskKeepsPlace ==
    ASSUME Known, NEW info \in timer_tasks_, RunDueTask(info)
    PROVE  PlaceInv' /\ CallInv'
  <1>1. /\ run_task_' = info.task /\ started' = started \cup {info.task}
        /\ wpc = "due" /\ wpc' = "run_due"
        /\ UNCHANGED <<pending_, messages, timer_tasks_, pinfo, posted, due>>
    BY DEF RunDueTask, WorkerUnchanged, fifo_vars, message_vars
  <1>2. timer_tasks_ \subseteq DelayedTaskInfo /\ Matches(info)
    BY DEF Known, TypeOK, PlaceInv
  <1>3. CallInv'
    BY <1>1, <1>2 DEF Known, CallInv, Fresh, Matches
  <1>4. \A t \in Task : In(pending_, t)' => Pends(t)'
    <2>1. info.due_time # Immediate
      BY <1>2, InfoFacts DEF Immediate
    <2>2. \A t \in Task : In(pending_, t) => t # info.task
      BY <1>2, <2>1 DEF Known, PlaceInv, Pends, Matches
    <2> QED
      BY <1>1, <2>2 DEF Known, PlaceInv, Pends, In, Once
  <1>5. \A other \in DelayedTaskInfo : In(messages, other)' =>
            /\ Matches(other)' /\ other.task \notin started'
            /\ other \notin timer_tasks_' /\ Once(messages, other)'
    <2> SUFFICES ASSUME NEW other \in DelayedTaskInfo, In(messages, other)
                 PROVE  /\ Matches(other) /\ other.task \notin started'
                        /\ other \notin timer_tasks_ /\ Once(messages, other)
      BY <1>1 DEF In, Once, Matches
    <2>1. /\ Matches(other) /\ other.task \notin started
          /\ other \notin timer_tasks_ /\ Once(messages, other)
      BY DEF Known, PlaceInv
    <2>2. other.task # info.task
      BY <1>2, <2>1, InfoFacts DEF Matches
    <2> QED
      BY <1>1, <2>1, <2>2
  <1>6. \A other \in timer_tasks_' :
            /\ Matches(other)'
            /\ other.task \in started' => wpc' = "run_due" /\ run_task_' = other.task
    BY <1>1 DEF Known, PlaceInv, Matches
  <1> QED
    BY <1>3, <1>4, <1>5, <1>6 DEF PlaceInv

LEMMA RunPendingTaskKeepsPlace ==
    ASSUME Known, RunPendingTask
    PROVE  PlaceInv' /\ CallInv'
  <1> DEFINE h == Head(pending_)
  <1>1. /\ run_task_' = h /\ started' = started \cup {h} /\ wpc = "drain"
        /\ pending_' = Tail(pending_) /\ pending_ # <<>> /\ pending_ \in Seq(Task)
        /\ UNCHANGED <<messages, timer_tasks_, pinfo, posted, due>>
    BY DEF RunPendingTask, WorkerUnchanged, message_vars, Known, TypeOK
  <1>2. h \in Task /\ In(pending_, h)
    BY <1>1, InTail
  <1>3. h \in posted /\ due[h] = Immediate /\ ~In(Tail(pending_), h)
    <2>1. Pends(h)
      BY <1>2 DEF Known, PlaceInv
    <2> QED
      BY <1>1, <1>2, <2>1, InTail DEF Pends
  <1> HIDE DEF h
  <1>4. CallInv'
    BY <1>1, <1>3 DEF Known, CallInv, Fresh
  <1>5. \A t \in Task : In(pending_', t) => Pends(t)'
    <2> SUFFICES ASSUME NEW t \in Task, In(pending_', t) PROVE Pends(t)'
      OBVIOUS
    <2>1. In(pending_, t) /\ (Once(pending_, t) => Once(pending_', t)) /\ t # h
      BY <1>1, <1>3, InTail
    <2>2. Pends(t)
      BY <2>1 DEF Known, PlaceInv
    <2>3. t \in posted' \ started' /\ due'[t] = Immediate /\ Once(pending_', t)
      BY <1>1, <2>1, <2>2 DEF Pends
    <2> QED
      BY <2>3 DEF Pends, Once
  <1>6. \A info \in DelayedTaskInfo : Matches(info) => info.task # h
    <2>1. \A info \in DelayedTaskInfo : info.due_time # Immediate
      BY InfoFacts DEF Immediate
    <2> QED
      BY <1>3, <2>1 DEF Matches
  <1>7. \A info \in DelayedTaskInfo : In(messages, info)' =>
            /\ Matches(info)' /\ info.task \notin started'
            /\ info \notin timer_tasks_' /\ Once(messages, info)'
    <2> SUFFICES ASSUME NEW info \in DelayedTaskInfo, In(messages, info)
                 PROVE  /\ Matches(info) /\ info.task \notin started'
                        /\ info \notin timer_tasks_ /\ Once(messages, info)
      BY <1>1 DEF In, Once, Matches
    <2> QED
      BY <1>1, <1>6 DEF Known, PlaceInv
  <1>8. \A info \in timer_tasks_' :
            /\ Matches(info)'
            /\ info.task \in started' => wpc' = "run_due" /\ run_task_' = info.task
    <2>1. \A info \in timer_tasks_ :
              info \in DelayedTaskInfo /\ Matches(info) /\ info.task \notin started
      BY <1>1 DEF Known, PlaceInv, TypeOK
    <2>2. \A info \in timer_tasks_ : Matches(info)'
      BY <1>1, <2>1 DEF Matches
    <2> QED
      BY <1>1, <1>6, <2>1, <2>2
  <1>9. \A t \in Task : In(pending_, t)' => Pends(t)'
    BY <1>5 DEF In
  <1> QED
    BY <1>4, <1>7, <1>8, <1>9 DEF PlaceInv

LEMMA TaskReturnsKeepsPlace ==
    ASSUME Known, TaskReturns
    PROVE  PlaceInv' /\ CallInv'
  <1>1. /\ UNCHANGED <<pending_, messages, pinfo, posted, due, started>>
        /\ run_task_' = NoTask /\ timer_tasks_' \subseteq timer_tasks_
    BY DEF TaskReturns, DueTaskReturns, PendingTaskReturns, WorkerUnchanged, fifo_vars,
       message_vars
  <1>2. CallInv'
    BY <1>1 DEF Known, CallInv, Fresh
  <1>3. \A info \in timer_tasks_' : info.task \notin started
    BY DEF TaskReturns, DueTaskReturns, PendingTaskReturns, Known, PlaceInv
  <1>4. \A t \in Task : In(pending_, t)' => Pends(t)'
    BY <1>1 DEF Known, PlaceInv, Pends, In, Once
  <1>5. \A info \in DelayedTaskInfo : In(messages, info)' =>
            /\ Matches(info)' /\ info.task \notin started'
            /\ info \notin timer_tasks_' /\ Once(messages, info)'
    BY <1>1 DEF Known, PlaceInv, In, Once, Matches
  <1>6. \A info \in timer_tasks_' :
            /\ Matches(info)'
            /\ info.task \in started' => wpc' = "run_due" /\ run_task_' = info.task
    BY <1>1, <1>3 DEF Known, PlaceInv, Matches
  <1> QED
    BY <1>2, <1>4, <1>5, <1>6 DEF PlaceInv

LEMMA PostQuitKeepsPlace ==
    ASSUME Known, PostQuit
    PROVE  PlaceInv' /\ CallInv'
  <1>1. /\ messages' = Append(messages, WM_QUIT) /\ messages \in Seq(Message)
        /\ WM_QUIT \in Message
        /\ UNCHANGED <<pending_, timer_tasks_, pinfo, posted, due, started, run_task_, wpc>>
    BY DEF PostQuit, PostThreadMessage, fifo_vars, worker, history, Known, TypeOK, Message
  <1>2. CallInv'
    BY <1>1 DEF Known, CallInv, Fresh
  <1>3. \A info \in DelayedTaskInfo : In(messages, info)' =>
            /\ Matches(info)' /\ info.task \notin started'
            /\ info \notin timer_tasks_' /\ Once(messages, info)'
    <2> SUFFICES ASSUME NEW info \in DelayedTaskInfo, In(messages', info)
                 PROVE  /\ Matches(info)' /\ info.task \notin started'
                        /\ info \notin timer_tasks_' /\ Once(messages', info)
      BY DEF In, Once
    <2>1. info # WM_QUIT
      BY InfoFacts DEF WM_QUIT
    <2>2. /\ In(messages, info)
          /\ Once(messages, info) => Once(messages', info)
      BY <1>1, <2>1, InAppended
    <2> QED
      BY <1>1, <2>2 DEF Known, PlaceInv, Matches
  <1>4. \A t \in Task : In(pending_, t)' => Pends(t)'
    BY <1>1 DEF Known, PlaceInv, Pends, In, Once
  <1>5. \A info \in timer_tasks_' :
            /\ Matches(info)'
            /\ info.task \in started' => wpc' = "run_due" /\ run_task_' = info.task
    BY <1>1 DEF Known, PlaceInv, Matches
  <1> QED
    BY <1>2, <1>3, <1>4, <1>5 DEF PlaceInv

LEMMA DeleteJoinsKeepsPlace ==
    ASSUME Known, DeleteJoins
    PROVE  PlaceInv' /\ CallInv'
  <1>1. /\ pending_' = <<>> /\ messages' = <<>> /\ timer_tasks_' = {}
        /\ UNCHANGED <<pinfo, posted, due, started, run_task_>>
    BY DEF DeleteJoins, Destroy, worker, history
  <1>2. CallInv'
    BY <1>1 DEF Known, CallInv, Fresh
  <1>3. \A x : ~In(pending_', x) /\ ~In(messages', x)
    BY <1>1, InEmpty
  <1>4. /\ \A t \in Task : ~In(pending_, t)'
        /\ \A info \in DelayedTaskInfo : ~In(messages, info)'
    BY <1>3 DEF In
  <1> QED
    BY <1>1, <1>2, <1>4 DEF PlaceInv

\* A task that is over is in no place.
LEMMA NewTaskKeepsPlace ==
    ASSUME Known, NEW t \in Task, NewTask(t)
    PROVE  PlaceInv' /\ CallInv'
  <1>1. /\ t \in started /\ run_task_ # t
        /\ posted' = posted \ {t} /\ started' = started \ {t}
        /\ due' = [due EXCEPT ![t] = Immediate]
        /\ UNCHANGED <<pending_, messages, timer_tasks_, pinfo, run_task_, wpc>>
    BY DEF NewTask, fifo_vars, message_vars, worker
  <1>2. t \in posted /\ due'[t] = Immediate /\ \A u \in Task : u # t => due'[u] = due[u]
    BY <1>1 DEF Known, TypeOK, CallInv
  <1>3. \A info \in DelayedTaskInfo : Matches(info) /\ info.task # t => Matches(info)'
    BY <1>1, <1>2, InfoFacts DEF Matches
  <1>4. PlaceInv'
    <2>1. \A u \in Task : In(pending_, u)' => Pends(u)'
      <3>1. \A u \in Task : In(pending_, u) => Pends(u) /\ u # t
        BY <1>1 DEF Known, PlaceInv, Pends
      <3> QED
        BY <1>1, <1>2, <3>1 DEF Pends, In, Once
    <2>2. \A info \in DelayedTaskInfo : In(messages, info)' =>
              /\ Matches(info)' /\ info.task \notin started'
              /\ info \notin timer_tasks_' /\ Once(messages, info)'
      <3>1. \A info \in DelayedTaskInfo : In(messages, info) => info.task # t
        BY <1>1 DEF Known, PlaceInv
      <3> QED
        BY <1>1, <1>3, <3>1 DEF Known, PlaceInv, In, Once
    <2>3. \A info \in timer_tasks_' :
              /\ Matches(info)'
              /\ info.task \in started' => wpc' = "run_due" /\ run_task_' = info.task
      <3>1. \A info \in timer_tasks_ : info \in DelayedTaskInfo /\ info.task # t
        BY <1>1 DEF Known, PlaceInv, TypeOK
      <3> QED
        BY <1>1, <1>3, <3>1 DEF Known, PlaceInv
    <2> QED
      BY <2>1, <2>2, <2>3 DEF PlaceInv
  <1>5. \A q \in Poster : pinfo[q] # NoInfo => pinfo[q].task \in Task /\ pinfo[q].task # t
    BY <1>2, CallFacts DEF Known, CallInv
  <1>6. \A u \in Task : Fresh(u)' => due'[u] = Immediate
    BY <1>1, <1>2 DEF Known, CallInv, Fresh
  <1>7. started' \subseteq posted' /\ run_task_' \in started' \cup {NoTask}
    BY <1>1 DEF Known, CallInv
  <1>8. CallInv'
    BY <1>1, <1>2, <1>5, <1>6, <1>7 DEF Known, CallInv
  <1> QED
    BY <1>4, <1>8

LEMMA PlaceInvStep == Known /\ [Next]_vars => PlaceInv' /\ CallInv'
  <1> SUFFICES ASSUME Known, [Next]_vars PROVE PlaceInv' /\ CallInv'
    OBVIOUS
  <1>0. PlaceInv /\ CallInv
    BY DEF Known
  <1>1. CASE \/ \E r \in {"timer", "queue", "messages"} : MsgWaitForMultipleObjectsEx(r)
             \/ CancelReturns \/ NoneDue \/ ProcessTimer \/ NoMessage \/ CheckProcessingTime
             \/ CheckTimer \/ CheckInQueue \/ Drained \/ ScheduleNextTimer
    <2>1. /\ UNCHANGED <<pending_, messages, timer_tasks_, pinfo, posted, due, started,
                         run_task_>>
          /\ wpc # "run_due"
      BY <1>1 DEF MsgWaitForMultipleObjectsEx, CancelReturns, NoneDue, ProcessTimer,
         NoMessage, CheckProcessingTime, CheckTimer, CheckInQueue, Drained,
         ScheduleNextTimer, WorkerUnchanged, fifo_vars, message_vars
    <2> QED
      BY <1>0, <2>1, PlaceStays
  <1>2. CASE Delete \/ Tick \/ TimerElapses \/ FallbackTimerElapses \/ UNCHANGED vars
    <2>1. UNCHANGED <<pending_, messages, timer_tasks_, pinfo, posted, due, started,
                      run_task_, wpc>>
      BY <1>2 DEF Delete, Tick, TimerElapses, FallbackTimerElapses, vars, fifo_vars,
         message_vars, worker, history
    <2> QED
      BY <1>0, <2>1, PlaceStays
  <1>3. CASE QueueDelayedTask \/ Quit
    <2>1. PeekMessage
      BY <1>3 DEF QueueDelayedTask, Quit
    <2> QED
      BY <1>3, <2>1, TakeMessageKeepsPlace
  <1> QED
    BY <1>1, <1>2, <1>3, PostTaskKeepsPlace, PostDelayedTaskKeepsPlace,
       PostDelayedMessageKeepsPlace, DeleteTaskInfoKeepsPlace, RunDueTaskKeepsPlace,
       RunPendingTaskKeepsPlace, TaskReturnsKeepsPlace, PostQuitKeepsPlace,
       DeleteJoinsKeepsPlace, NewTaskKeepsPlace
    DEF Next, WorkerStep, PostBegins, PostContinues, OwnerContinues, Terminated

LEMMA KnownInvariant == Spec => []Known
  <1>1. Init => PlaceInv /\ CallInv
    <2> SUFFICES ASSUME Init PROVE PlaceInv /\ CallInv
      OBVIOUS
    <2>1. \A x : ~In(pending_, x) /\ ~In(messages, x)
      BY InEmpty DEF Init
    <2> QED
      BY <2>1 DEF Init, PlaceInv, CallInv
  <1>2. TypeOK /\ LifeInv /\ PlaceInv /\ CallInv => Known
    BY DEF Known
  <1> QED
    BY <1>1, <1>2, PlaceInvStep, TypeCorrect, LifeInvariant, PTL DEF Spec

-----------------------------------------------------------------------------
(* The refinement.                                                         *)

\* One task changes its phase.
LEMMA PhaseChanges ==
    ASSUME NEW t \in Task, NEW v,
           \A u \in Task : PhaseOf(u)' = IF u = t THEN v ELSE PhaseOf(u)
    PROVE  phase' = [phase EXCEPT ![t] = v]
  BY DEF phase

\* No task does.
LEMMA PhaseStays ==
    ASSUME UNCHANGED <<run_task_, started, posted, pinfo>>,
           opc = "deleted" <=> opc' = "deleted"
    PROVE  phase' = phase
  BY DEF phase, PhaseOf

LEMMA RunningIsBusy ==
    Known => (Base!Busy <=> run_task_ # NoTask) /\ (run_task_ # NoTask => opc # "deleted")
  <1> SUFFICES ASSUME Known
               PROVE  (Base!Busy <=> run_task_ # NoTask) /\ (run_task_ # NoTask => opc # "deleted")
    OBVIOUS
  <1>1. \A t \in Task : phase[t] = "running" <=> run_task_ = t
    BY DEF phase, PhaseOf
  <1>2. run_task_ \in Task \cup {NoTask}
    BY DEF Known, TypeOK
  <1>3. Base!Busy <=> run_task_ # NoTask
    BY <1>1, <1>2, NoTaskAssumption DEF Base!Busy
  <1>4. run_task_ # NoTask => opc # "deleted"
    BY DEF Known, LifeInv
  <1> QED
    BY <1>3, <1>4

\* Whoever may post may post in the abstract specification.
LEMMA MayPostMaps ==
    ASSUME Known, NEW p \in Poster, MayPost(p)
    PROVE  Base!MayPost
  <1>1. opc = "live" \/ (run_task_ # NoTask /\ opc # "deleted")
    BY RunningIsBusy DEF MayPost
  <1>2. opc = "live" => state = "live"
    BY DEF state
  <1>3. opc \notin {"live", "deleted"} => state = "deleting"
    BY DEF state, Known, TypeOK
  <1> QED
    BY <1>1, <1>2, <1>3, RunningIsBusy DEF Base!MayPost

LEMMA FreshIsNew ==
    ASSUME Known, NEW t \in Task, Fresh(t)
    PROVE  /\ PhaseOf(t) = "new" /\ run_task_ # t
           /\ t \notin started /\ t \notin posted
           /\ ~(\E p \in Poster : pinfo[p].task = t)
  <1>1. t \notin started /\ t \notin posted /\ ~(\E p \in Poster : pinfo[p].task = t)
    BY DEF Known, CallInv, Fresh
  <1>2. run_task_ # t
    BY <1>1, NoTaskAssumption DEF Known, CallInv
  <1> QED
    BY <1>1, <1>2 DEF PhaseOf

LEMMA PostTaskMaps ==
    ASSUME Known, NEW p \in Poster, NEW t \in Task, PostTask(p, t)
    PROVE  Base!PostTask(t)
  <1>1. /\ MayPost(p) /\ Fresh(t) /\ posted' = posted \cup {t}
        /\ pending_' = Append(pending_, t)
        /\ UNCHANGED <<now, opc, due, started, run_task_, pinfo>>
    BY DEF PostTask, worker
  <1>2. opc # "deleted"
    BY <1>1, RunningIsBusy DEF MayPost
  <1>3. phase[t] = "new"
    BY <1>1, FreshIsNew DEF phase
  <1>4. \A u \in Task : PhaseOf(u)' = IF u = t THEN "queued" ELSE PhaseOf(u)
    BY <1>1, <1>2, FreshIsNew DEF PhaseOf
  <1>5. phase' = [phase EXCEPT ![t] = "queued"]
    BY <1>4, PhaseChanges
  <1> QED
    BY <1>1, <1>3, <1>5, MayPostMaps DEF Base!PostTask, fifo, state

LEMMA PostDelayedTaskMaps ==
    ASSUME Known, NEW p \in Poster, NEW t \in Task, NEW ms \in Delay,
           PostDelayedTask(p, t, ms)
    PROVE  Base!CallPostDelayedTask(t, ms)
  <1>1. /\ MayPost(p) /\ Fresh(t) /\ pinfo[p] = NoInfo
        /\ pinfo' = [pinfo EXCEPT ![p] = [task |-> t, due_time |-> now + ms]]
        /\ due' = [due EXCEPT ![t] = now + ms]
        /\ UNCHANGED <<now, opc, pending_, posted, started, run_task_>>
    BY DEF PostDelayedTask, worker, fifo_vars
  <1>2. phase[t] = "new"
    BY <1>1, FreshIsNew DEF phase
  <1>3. phase' = [phase EXCEPT ![t] = "called"]
    <2>1. pinfo[p].task = NoTask /\ pinfo'[p].task = t
      BY <1>1, InfoFacts DEF Known, TypeOK
    <2>2. \A q \in Poster : q # p => pinfo'[q] = pinfo[q]
      BY <1>1 DEF Known, TypeOK
    <2>3. \A u \in Task : (\E q \in Poster : pinfo'[q].task = u)
                          <=> (\E q \in Poster : pinfo[q].task = u) \/ u = t
      BY <2>1, <2>2, NoTaskAssumption
    <2>4. \A u \in Task : PhaseOf(u)' = IF u = t THEN "called" ELSE PhaseOf(u)
      BY <1>1, <2>3, FreshIsNew DEF PhaseOf
    <2> QED
      BY <2>4, PhaseChanges
  <1> QED
    BY <1>1, <1>2, <1>3, MayPostMaps DEF Base!CallPostDelayedTask, fifo, state

\* The message is in the queue, or the task is lost: the call has ended.
LEMMA PostContinuesMaps ==
    ASSUME Known, NEW p \in Poster, PostContinues(p)
    PROVE  pinfo[p].task \in Task /\ Base!PostDelayedTask(pinfo[p].task)
  <1>1. /\ pinfo[p] # NoInfo /\ pinfo' = [pinfo EXCEPT ![p] = NoInfo]
        /\ posted' = posted \cup {pinfo[p].task}
        /\ UNCHANGED <<now, opc, due, pending_, started, run_task_>>
    BY DEF PostContinues, PostDelayedMessage, DeleteTaskInfo, worker, fifo_vars
  <1> SUFFICES ASSUME NEW t, t = pinfo[p].task
               PROVE  t \in Task /\ Base!PostDelayedTask(t)
    OBVIOUS
  <1>2. t \in Task /\ t \notin posted /\ t \notin started
    BY <1>1, CallFacts, InfoFacts DEF Known, CallInv
  <1>3. run_task_ # t
    BY <1>2, NoTaskAssumption DEF Known, CallInv
  <1>4. phase[t] = "called"
    BY <1>2, <1>3 DEF phase, PhaseOf
  <1>5. opc # "deleted"
    <2>1. p \in Client => opc = "live"
      BY <1>1 DEF Known, LifeInv
    <2>2. p = Worker => run_task_ # NoTask
      BY <1>1 DEF Known, LifeInv
    <2> QED
      BY <2>1, <2>2, RunningIsBusy DEF Poster
  <1>6. phase' = [phase EXCEPT ![t] = "queued"]
    <2>1. pinfo'[p].task = NoTask /\ \A q \in Poster : q # p => pinfo'[q] = pinfo[q]
      BY <1>1, InfoFacts DEF Known, TypeOK
    <2>2. \A u \in Task : u # t =>
              ((\E q \in Poster : pinfo'[q].task = u) <=> (\E q \in Poster : pinfo[q].task = u))
      BY <2>1, NoTaskAssumption
    <2>3. \A u \in Task : PhaseOf(u)' = IF u = t THEN "queued" ELSE PhaseOf(u)
      BY <1>1, <1>2, <1>3, <1>5, <2>2 DEF PhaseOf
    <2> QED
      BY <1>2, <2>3, PhaseChanges
  <1> QED
    BY <1>1, <1>2, <1>4, <1>6 DEF Base!PostDelayedTask, fifo, state

\* A task starts: its phase, and that nothing else runs.
LEMMA StartMaps ==
    ASSUME Known, NEW t \in Task, wpc \in {"due", "drain"}, run_task_' = t,
           started' = started \cup {t}, UNCHANGED <<now, due, opc, pinfo, posted>>
    PROVE  /\ phase' = [phase EXCEPT ![t] = "running"]
           /\ ~Base!Busy /\ state # "deleted" /\ run_task_ = NoTask
           /\ UNCHANGED <<now, due, state>>
  <1>1. run_task_ = NoTask /\ opc # "deleted" /\ ~Base!Busy
    BY RunningIsBusy DEF Known, LifeInv
  <1>2. \A u \in Task : PhaseOf(u)' = IF u = t THEN "running" ELSE PhaseOf(u)
    BY <1>1, NoTaskAssumption DEF PhaseOf
  <1>3. state' = state /\ state # "deleted"
    BY <1>1 DEF state, Known, TypeOK
  <1> QED
    BY <1>1, <1>2, <1>3, PhaseChanges

LEMMA RunPendingTaskMaps ==
    ASSUME Known, RunPendingTask
    PROVE  Base!StartImmediate
  <1>1. /\ Head(pending_) \in Task /\ pending_ # <<>> /\ pending_' = Tail(pending_)
        /\ wpc = "drain" /\ run_task_' = Head(pending_)
        /\ started' = started \cup {Head(pending_)}
        /\ UNCHANGED <<now, due, opc, pinfo, posted>>
    BY HeadTailProperties DEF RunPendingTask, WorkerUnchanged, Known, TypeOK
  <1>2. /\ phase' = [phase EXCEPT ![Head(pending_)] = "running"]
        /\ ~Base!Busy /\ state # "deleted" /\ UNCHANGED <<now, due, state>>
    BY <1>1, StartMaps
  <1> QED
    BY <1>1, <1>2 DEF Base!StartImmediate, fifo

LEMMA RunDueTaskMaps ==
    ASSUME Known, NEW info \in timer_tasks_, RunDueTask(info)
    PROVE  info.task \in Task /\ Base!StartDelayed(info.task)
  <1>1. /\ info \in DelayedTaskInfo /\ info.task \in Task /\ info.due_time \in Nat
        /\ wpc = "due" /\ run_task_' = info.task /\ started' = started \cup {info.task}
        /\ info.due_time <= tick /\ tick <= now /\ tick \in Nat /\ now \in Nat
        /\ UNCHANGED <<now, due, opc, pinfo, posted, pending_>>
    BY InfoFacts, ConstantsAssumption
    DEF RunDueTask, IsDue, WorkerUnchanged, fifo_vars, Known, TypeOK, LifeInv
  <1>2. /\ phase' = [phase EXCEPT ![info.task] = "running"] /\ run_task_ = NoTask
        /\ ~Base!Busy /\ state # "deleted" /\ UNCHANGED <<now, due, state>>
    BY <1>1, StartMaps
  <1>3. info.task \in posted /\ info.task \notin started /\ due[info.task] = info.due_time
    BY <1>1 DEF Known, PlaceInv, Matches
  <1>4. opc # "deleted"
    BY <1>1 DEF Known, LifeInv
  <1>5. phase[info.task] = "queued"
    BY <1>1, <1>2, <1>3, <1>4, NoTaskAssumption DEF phase, PhaseOf
  <1>6. due[info.task] # Base!Immediate /\ due[info.task] <= now
    BY <1>1, <1>3 DEF Base!Immediate
  <1> QED
    BY <1>1, <1>2, <1>5, <1>6 DEF Base!StartDelayed, fifo

LEMMA TaskReturnsMaps ==
    ASSUME Known, TaskReturns
    PROVE  run_task_ \in Task /\ Base!Finish(run_task_)
  <1>1. /\ run_task_ \in Task /\ run_task_ \in started /\ run_task_' = NoTask
        /\ UNCHANGED <<now, due, opc, started, posted, pinfo, pending_>>
    BY DEF TaskReturns, DueTaskReturns, PendingTaskReturns, WorkerUnchanged, fifo_vars,
       Known, TypeOK, LifeInv, CallInv
  <1>2. phase[run_task_] = "running"
    BY <1>1 DEF phase, PhaseOf
  <1>3. \A u \in Task : PhaseOf(u)' = IF u = run_task_ THEN "done" ELSE PhaseOf(u)
    BY <1>1, NoTaskAssumption DEF PhaseOf
  <1>4. phase' = [phase EXCEPT ![run_task_] = "done"]
    BY <1>1, <1>3, PhaseChanges
  <1> QED
    BY <1>1, <1>2, <1>4 DEF Base!Finish, fifo, state

LEMMA NewTaskMaps ==
    ASSUME Known, NEW t \in Task, NewTask(t)
    PROVE  Base!NewTask(t)
  <1>1. /\ t \in started /\ t \in posted /\ run_task_ # t
        /\ posted' = posted \ {t} /\ started' = started \ {t}
        /\ due' = [due EXCEPT ![t] = Immediate]
        /\ UNCHANGED <<now, opc, pinfo, pending_, run_task_>>
    BY DEF NewTask, fifo_vars, worker, Known, CallInv
  <1>2. ~(\E p \in Poster : pinfo[p].task = t)
    BY <1>1, CallFacts DEF Known, CallInv
  <1>3. phase[t] = "done"
    BY <1>1 DEF phase, PhaseOf
  <1>4. \A u \in Task : PhaseOf(u)' = IF u = t THEN "new" ELSE PhaseOf(u)
    BY <1>1, <1>2 DEF PhaseOf
  <1>5. phase' = [phase EXCEPT ![t] = "new"]
    BY <1>4, PhaseChanges
  <1> QED
    BY <1>1, <1>3, <1>5 DEF Base!NewTask, Base!Immediate, Immediate, fifo, state

LEMMA DeleteJoinsMaps ==
    ASSUME Known, DeleteJoins
    PROVE  Base!DeleteReturns
  <1>1. /\ opc = "joining" /\ opc' = "deleted" /\ wpc = "exited" /\ pending_' = <<>>
        /\ UNCHANGED <<now, due, started, posted, pinfo, run_task_>>
    BY DEF DeleteJoins, Destroy, worker, history
  <1>2. state = "deleting" /\ state' = "deleted"
    BY <1>1 DEF state
  <1>3. run_task_ = NoTask
    BY <1>1 DEF Known, LifeInv
  <1>4. ~Base!Busy
    BY <1>3, RunningIsBusy
  <1>5. \A p \in Poster : pinfo[p].task = NoTask
    <2>1. \A p \in Client : pinfo[p] = NoInfo
      BY <1>1 DEF Known, LifeInv
    <2>2. pinfo[Worker] = NoInfo
      BY <1>3 DEF Known, LifeInv
    <2> QED
      BY <2>1, <2>2, InfoFacts DEF Poster
  <1>6. \A t \in Task : ~(\E p \in Poster : pinfo[p].task = t)
    BY <1>5, NoTaskAssumption
  <1>7. \A t \in Task : phase[t] # "called"
    BY <1>6 DEF phase, PhaseOf
  <1>8. \A t \in Task :
            PhaseOf(t)' = IF PhaseOf(t) = "queued" THEN "dropped" ELSE PhaseOf(t)
    BY <1>1, <1>3, <1>6, NoTaskAssumption DEF PhaseOf
  <1>9. phase' = [t \in Task |-> IF phase[t] = "queued" THEN "dropped" ELSE phase[t]]
    BY <1>8 DEF phase
  <1> QED
    BY <1>1, <1>2, <1>4, <1>7, <1>9 DEF Base!DeleteReturns, fifo

\* Every behaviour of the queue is one that the API allows
\* (ImplementsTaskQueueBase), whatever timers do: FIFO order, no overlap, no early
\* start, nothing after Delete.
THEOREM RefinesTaskQueueBase == Spec => ImplementsTaskQueueBase
  <1>1. Init => Base!Init
    <2> SUFFICES ASSUME Init PROVE Base!Init
      OBVIOUS
    <2>1. \A p \in Poster : pinfo[p].task = NoTask
      BY InfoFacts DEF Init
    <2>2. \A t \in Task : PhaseOf(t) = "new"
      BY <2>1, NoTaskAssumption DEF Init, PhaseOf
    <2>3. phase = [t \in Task |-> "new"]
      BY <2>2 DEF phase
    <2> QED
      BY <2>3 DEF Init, Base!Init, fifo, state, Immediate, Base!Immediate
  <1>2. Known /\ [Next]_vars => [Base!Next]_(Base!vars)
    <2> SUFFICES ASSUME Known, [Next]_vars
                 PROVE  Base!Next \/ UNCHANGED <<now, phase, due, fifo, state>>
      BY DEF Base!vars
    <2>1. CASE \/ \E r \in {"timer", "queue", "messages"} : MsgWaitForMultipleObjectsEx(r)
               \/ CancelReturns \/ NoneDue \/ ProcessTimer \/ NoMessage
               \/ CheckProcessingTime \/ CheckTimer \/ CheckInQueue \/ Drained
               \/ ScheduleNextTimer \/ QueueDelayedTask \/ Quit
      <3>1. UNCHANGED <<pending_, now, opc, due, run_task_, started, posted, pinfo>>
        BY <2>1 DEF MsgWaitForMultipleObjectsEx, CancelReturns, NoneDue, ProcessTimer,
           NoMessage, CheckProcessingTime, CheckTimer, CheckInQueue, Drained,
           ScheduleNextTimer, QueueDelayedTask, Quit, WorkerUnchanged, fifo_vars
      <3> QED
        BY <3>1, PhaseStays DEF fifo, state
    <2>2. CASE TimerElapses \/ FallbackTimerElapses \/ PostQuit \/ UNCHANGED vars
      <3>1. /\ UNCHANGED <<pending_, now, due, run_task_, started, posted, pinfo>>
            /\ opc' = opc \/ (opc = "quitting" /\ opc' = "joining")
        BY <2>2 DEF TimerElapses, FallbackTimerElapses, PostQuit, vars, fifo_vars, worker,
           history
      <3> QED
        BY <3>1, PhaseStays DEF fifo, state
    <2>3. CASE Delete
      <3>1. /\ opc = "live" /\ opc' = "quitting"
            /\ UNCHANGED <<pending_, now, due, run_task_, started, posted, pinfo>>
        BY <2>3 DEF Delete, fifo_vars, worker, history
      <3>2. Base!Delete
        BY <3>1, PhaseStays DEF Base!Delete, fifo, state
      <3> QED
        BY <3>2 DEF Base!Next
    <2>4. CASE Tick
      <3>1. /\ now < MaxTime /\ now' = now + 1
            /\ UNCHANGED <<pending_, opc, due, run_task_, started, posted, pinfo>>
        BY <2>4 DEF Tick, fifo_vars, worker, history
      <3>2. Base!Tick
        BY <3>1, PhaseStays DEF Base!Tick, fifo, state
      <3> QED
        BY <3>2 DEF Base!Next
    <2>5. ASSUME NEW p \in Poster, NEW t \in Task, PostTask(p, t) PROVE Base!Next
      BY <2>5, PostTaskMaps DEF Base!Next
    <2>6. ASSUME NEW p \in Poster, NEW t \in Task, NEW ms \in Delay,
                 PostDelayedTask(p, t, ms)
          PROVE  Base!Next
      BY <2>6, PostDelayedTaskMaps DEF Base!Next
    <2>7. ASSUME NEW p \in Poster, PostContinues(p) PROVE Base!Next
      BY <2>7, PostContinuesMaps DEF Base!Next
    <2>8. CASE RunPendingTask
      BY <2>8, RunPendingTaskMaps DEF Base!Next
    <2>9. ASSUME NEW info \in timer_tasks_, RunDueTask(info) PROVE Base!Next
      BY <2>9, RunDueTaskMaps DEF Base!Next
    <2>10. CASE TaskReturns
      BY <2>10, TaskReturnsMaps DEF Base!Next
    <2>11. CASE DeleteJoins
      BY <2>11, DeleteJoinsMaps DEF Base!Next
    <2>12. ASSUME NEW t \in Task, NewTask(t) PROVE Base!Next
      BY <2>12, NewTaskMaps DEF Base!Next
    <2> QED
      BY <2>1, <2>2, <2>3, <2>4, <2>5, <2>6, <2>7, <2>8, <2>9, <2>10, <2>11, <2>12
      DEF Next, WorkerStep, PostBegins, OwnerContinues, Terminated
  <1> QED
    BY <1>1, <1>2, KnownInvariant, PTL DEF Spec, ImplementsTaskQueueBase, Base!Spec
=============================================================================
