------------------------ MODULE TaskQueueStdlibProofs ------------------------
(***************************************************************************)
(* Proofs about TaskQueueStdlib, for any set of tasks and of posting       *)
(* threads, any delays and any width of int: its invariants, and that it   *)
(* implements TaskQueueBase.                                               *)
(***************************************************************************)
EXTENDS TaskQueueStdlib, SequenceTheorems, TLAPS

\* The narrowing conversion to int yields an integer.
LEMMA ToIntIsInt == \A ms \in Nat : ToInt(ms) \in Int
  <1>1. TAKE ms \in Nat
  <1>2. ms % IntModulus \in Int
    BY ConstantsAssumption
  <1>3. QED
    BY <1>2, ConstantsAssumption DEF ToInt

\* An insertion into the map of delayed tasks keeps its type.
LEMMA MapPutType ==
    ASSUME NEW S, NEW m \in SUBSET S, NEW e \in S
    PROVE  MapPut(m, e) \in SUBSET S
  BY DEF MapPut

\* Every variable keeps its type, whatever the threads do.
THEOREM TypeCorrect == Spec => []TypeOK
  <1>1. Init => TypeOK
    <2> SUFFICES ASSUME Init PROVE TypeOK
      OBVIOUS
    <2> USE DEF Init
    <2>1. /\ rank \in [Task -> Nat1]
          /\ due \in [Task -> Nat1]
          /\ deadline \in Nat1
      BY DEF Nat1, NotPosted, Immediate
    <2>2. /\ pending_queue_ \in Seq([order : Nat, task : Task])
          /\ delayed_queue_ \in SUBSET [fire_at : Nat, order : Nat, task : Task]
          /\ started \in SUBSET Task
      OBVIOUS
    <2>3. /\ ppc \in [Poster -> {"idle", "insert", "notify"}]
          /\ ptask \in [Poster -> Task \cup {NoTask}]
          /\ \A p \in Poster : ppc[p] = "insert" => ptask[p] \in Task
          /\ pfire \in [Poster -> Nat]
      OBVIOUS
    <2>4. QED
      BY <2>1, <2>2, <2>3 DEF TypeOK
  <1>2. TypeOK /\ [Next]_vars => TypeOK'
    <2> SUFFICES ASSUME TypeOK, [Next]_vars PROVE TypeOK'
      OBVIOUS
    <2> USE DEF TypeOK
    <2>1. CASE WorkerStarts
      BY <2>1 DEF WorkerStarts, queue, calls, history
    <2>2. CASE ReadTick
      BY <2>2 DEF ReadTick, queue, events, calls, history
    <2>3. CASE GetFinal
      BY <2>3 DEF GetFinal, queue, events, calls, history
    <2>4. CASE GetPending
      <3>1. /\ Head(pending_queue_) \in [order : Nat, task : Task]
            /\ Tail(pending_queue_) \in Seq([order : Nat, task : Task])
        BY <2>4, HeadTailProperties DEF GetPending
      <3>2. QED
        BY <2>4, <3>1 DEF GetPending, Starts, events, calls, history
    <2>5. ASSUME NEW d \in delayed_queue_, GetDelayed(d) PROVE TypeOK'
      BY <2>5 DEF GetDelayed, Starts, events, calls, history
    <2>6. CASE GetNothing
      <3>1. sleep_time_ms_' \in Nat
        BY <2>6 DEF GetNothing, DueFront, IsFront, SleepUntil
      <3>2. QED
        BY <2>6, <3>1 DEF GetNothing, queue, events, calls, history
    <2>7. CASE EnterWait
      <3>1. GiveUpAfter \in Int
        BY ToIntIsInt DEF GiveUpAfter, kForever
      <3>2. deadline' \in Nat1
        BY <2>7, <3>1 DEF EnterWait, Nat1, kForever
      <3>3. QED
        BY <2>7, <3>2 DEF EnterWait, queue, events, calls, history
    <2>8. CASE WaitSignalled
      BY <2>8 DEF WaitSignalled, queue, calls, history
    <2>9. CASE WaitTimesOut
      BY <2>9 DEF WaitTimesOut, queue, events, calls, history
    <2>10. CASE WorkerStops
      BY <2>10 DEF WorkerStops, queue, calls, history
    <2>11. CASE ThreadMainReturns
      BY <2>11 DEF ThreadMainReturns, queue, events, calls, history
    <2>12. CASE TaskReturns
      BY <2>12 DEF TaskReturns, queue, events, calls, history
    <2>13. ASSUME NEW p \in Poster, NEW t \in Task, PostTask(p, t) PROVE TypeOK'
      BY <2>13 DEF PostTask, Posted, events, worker, Nat1
    <2>14. ASSUME NEW p \in Poster, NEW t \in Task, NEW ms \in Delay,
                  PostDelayedTask(p, t, ms) PROVE TypeOK'
      <3>1. now + ms \in Nat
        BY ConstantsAssumption
      <3>2. QED
        BY <2>14, <3>1 DEF PostDelayedTask, queue, events, worker, Nat1
    <2>15. ASSUME NEW p \in Poster, InsertDelayed(p) PROVE TypeOK'
      <3>1. DelayedEntry(p) \in [fire_at : Nat, order : Nat, task : Task]
        BY <2>15 DEF InsertDelayed, DelayedEntry
      <3>2. MapPut(delayed_queue_, DelayedEntry(p))
              \in SUBSET [fire_at : Nat, order : Nat, task : Task]
        BY <3>1, MapPutType
      <3>3. /\ ptask' \in [Poster -> Task \cup {NoTask}]
            /\ ppc' \in [Poster -> {"idle", "insert", "notify"}]
            /\ \A q \in Poster : ppc'[q] = "insert" => ptask'[q] \in Task
        BY <2>15 DEF InsertDelayed
      <3>4. posts' \in Nat /\ rank' \in [Task -> Nat1]
        BY <2>15 DEF InsertDelayed, Posted, Nat1
      <3>5. QED
        BY <2>15, <3>2, <3>3, <3>4 DEF InsertDelayed, events, worker
    <2>16. ASSUME NEW p \in Poster, NotifyWake(p) PROVE TypeOK'
      BY <2>16 DEF NotifyWake, queue, worker, history
    <2>17. CASE DeleteSetsQuit
      BY <2>17 DEF DeleteSetsQuit, OwnerGoes, worker, events, calls, history
    <2>18. CASE OwnerContinues
      <3> USE DEF OwnerGoes, queue, worker, events, calls, history
      <3>1. CASE Constructed
        BY <3>1 DEF Constructed
      <3>2. CASE DeleteNotifies
        BY <3>2 DEF DeleteNotifies
      <3>3. CASE DeleteSeesStopped
        BY <3>3 DEF DeleteSeesStopped
      <3>4. CASE DeleteJoins
        BY <3>4 DEF DeleteJoins
      <3>5. QED
        BY <2>18, <3>1, <3>2, <3>3, <3>4 DEF OwnerContinues
    <2>19. CASE Tick
      BY <2>19 DEF Tick, queue, events, worker, calls, history
    <2>20. CASE UNCHANGED vars
      BY <2>20 DEF vars, queue, events, worker, calls, history
    <2>21. QED
      BY <2>1, <2>2, <2>3, <2>4, <2>5, <2>6, <2>7, <2>8, <2>9, <2>10, <2>11,
         <2>12, <2>13, <2>14, <2>15, <2>16, <2>17, <2>18, <2>19, <2>20
      DEF Next, WorkerStep, GetNextTask, PostBegins, PostContinues, Terminated
  <1>3. QED
    BY <1>1, <1>2, PTL DEF Spec

\* The wake-up protocol is sound: a worker that sleeps with no signal present
\* or on its way sleeps for a good reason.  NoLostWakeup is inductive relative
\* to TypeOK: only GetNothing makes its premise true, and it does so under the
\* lock, after looking at everything; every critical section that adds work
\* puts its thread in NotifyPending, and only NotifyWake takes it out again.
THEOREM WakeupCorrect == Spec => []NoLostWakeup
  <1>1. Init => NoLostWakeup
    BY DEF Init, NoLostWakeup
  <1>2. TypeOK /\ NoLostWakeup /\ [Next]_vars => NoLostWakeup'
    <2> SUFFICES ASSUME TypeOK, NoLostWakeup, [Next]_vars PROVE NoLostWakeup'
      OBVIOUS
    <2> USE DEF NoLostWakeup, NotifyPending
    <2>1. CASE WorkerStarts \/ ReadTick \/ GetFinal \/ WaitSignalled
               \/ WaitTimesOut \/ WorkerStops \/ ThreadMainReturns \/ TaskReturns
      BY <2>1 DEF WorkerStarts, ReadTick, GetFinal, WaitSignalled, WaitTimesOut,
         WorkerStops, ThreadMainReturns, TaskReturns
    <2>2. CASE GetPending \/ \E d \in delayed_queue_ : GetDelayed(d)
      BY <2>2 DEF GetPending, GetDelayed, Starts
    <2>3. CASE GetNothing
      <3>1. ~thread_should_quit_' /\ pending_queue_' = <<>>
        BY <2>3 DEF GetNothing, queue
      <3>2. \A d \in delayed_queue_' : /\ sleep_time_ms_' > 0
                                       /\ tick' + sleep_time_ms_' <= d.fire_at
        <4>1. CASE delayed_queue_ = {}
          BY <2>3, <4>1 DEF GetNothing, queue
        <4>2. CASE delayed_queue_ # {}
          <5>1. PICK f \in delayed_queue_ : /\ IsFront(f)
                                            /\ sleep_time_ms_' = f.fire_at - tick
            BY <2>3, <4>2 DEF GetNothing, SleepUntil
          <5>2. tick < f.fire_at
            BY <2>3, <5>1 DEF GetNothing, DueFront, TypeOK
          <5>3. tick \in Nat /\ \A d \in delayed_queue_ : d.fire_at \in Nat
            BY DEF TypeOK
          <5>4. \A d \in delayed_queue_ : f.fire_at <= d.fire_at
            BY <5>1, <5>3 DEF IsFront
          <5>5. delayed_queue_' = delayed_queue_ /\ tick' = tick
            BY <2>3 DEF GetNothing, queue
          <5>6. QED
            BY <5>1, <5>2, <5>3, <5>4, <5>5
        <4>3. QED
          BY <4>1, <4>2
      <3>3. QED
        BY <3>1, <3>2
    <2>4. CASE EnterWait
      BY <2>4 DEF EnterWait, queue, events, calls
    <2>5. ASSUME NEW p \in Poster, NEW t \in Task, PostTask(p, t)
          PROVE NoLostWakeup'
      <3>1. ppc'[p] = "notify"
        BY <2>5 DEF PostTask, TypeOK
      <3>2. QED
        BY <3>1
    <2>6. ASSUME NEW p \in Poster, NEW t \in Task, NEW ms \in Delay,
                 PostDelayedTask(p, t, ms)
          PROVE NoLostWakeup'
      <3>1. \A q \in Poster : ppc[q] = "notify" => ppc'[q] = "notify"
        BY <2>6 DEF PostDelayedTask, TypeOK
      <3>2. QED
        BY <2>6, <3>1 DEF PostDelayedTask, queue, events, worker
    <2>7. ASSUME NEW p \in Poster, InsertDelayed(p) PROVE NoLostWakeup'
      <3>1. ppc'[p] = "notify"
        BY <2>7 DEF InsertDelayed, TypeOK
      <3>2. QED
        BY <3>1
    <2>8. ASSUME NEW p \in Poster, NotifyWake(p) PROVE NoLostWakeup'
      BY <2>8 DEF NotifyWake
    <2>9. CASE DeleteSetsQuit \/ DeleteNotifies
      BY <2>9 DEF DeleteSetsQuit, DeleteNotifies, OwnerGoes
    <2>10. CASE Constructed \/ DeleteSeesStopped
      BY <2>10 DEF Constructed, DeleteSeesStopped, OwnerGoes, queue, worker, calls
    <2>11. CASE DeleteJoins
      BY <2>11 DEF DeleteJoins, OwnerGoes, worker
    <2>12. CASE Tick
      BY <2>12 DEF Tick, queue, events, worker, calls
    <2>13. CASE UNCHANGED vars
      BY <2>13 DEF vars, queue, events, worker, calls
    <2>14. QED
      BY <2>1, <2>2, <2>3, <2>4, <2>5, <2>6, <2>7, <2>8, <2>9, <2>10, <2>11,
         <2>12, <2>13
      DEF Next, WorkerStep, GetNextTask, PostBegins, PostContinues,
          OwnerContinues, Terminated
  <1>3. QED
    BY <1>1, <1>2, TypeCorrect, PTL DEF Spec

-----------------------------------------------------------------------------
\* What makes the order ids comparable: the counter counts the posts, an
\* immediate task carries its rank, a delayed one its rank plus one, a task is
\* posted once and sits in one queue.
RankInv ==
    /\ thread_posting_order_ = posts
    /\ \A t \in Task : rank[t] < posts
    /\ \A t, u \in Task : rank[t] = rank[u] /\ rank[t] # NotPosted => t = u
    /\ \A p \in Poster : ptask[p] \in Task => rank[ptask[p]] = NotPosted
    /\ \A p, q \in Poster : ptask[p] \in Task /\ ptask[p] = ptask[q] => p = q

PendingInv ==
    \A i \in 1..Len(pending_queue_) :
        pending_queue_[i].order = rank[pending_queue_[i].task]

DelayedInv ==
    \A d \in delayed_queue_ : d.order = rank[d.task] + 1 /\ d.order > 0

OneQueueInv ==
    \A i \in 1..Len(pending_queue_) :
        \A d \in delayed_queue_ : pending_queue_[i].task # d.task

OrderInv == RankInv /\ PendingInv /\ DelayedInv /\ OneQueueInv

\* The fields of the entries of both queues.
LEMMA EntryTypes ==
    ASSUME TypeOK
    PROVE  /\ \A i \in 1..Len(pending_queue_) : /\ pending_queue_[i].order \in Nat
                                                /\ pending_queue_[i].task \in Task
           /\ \A d \in delayed_queue_ : d.order \in Nat /\ d.task \in Task
           /\ rank \in [Task -> Nat \cup {-1}]
  <1>1. \A i \in 1..Len(pending_queue_) :
            pending_queue_[i] \in [order : Nat, task : Task]
    BY ElementOfSeq DEF TypeOK
  <1>2. QED
    BY <1>1 DEF TypeOK, Nat1

\* OrderInv implies the property.
LEMMA OrderInvSuffices == TypeOK /\ OrderInv => OrderIsPostingOrder
  <1> SUFFICES ASSUME TypeOK, OrderInv,
                      NEW i \in 1..Len(pending_queue_), NEW d \in delayed_queue_
               PROVE  pending_queue_[i].order < d.order
                        <=> rank[pending_queue_[i].task] < rank[d.task]
    BY DEF OrderIsPostingOrder
  <1> DEFINE t == pending_queue_[i].task
             u == d.task
  <1>1. pending_queue_[i].order \in Nat /\ d.order \in Nat
    BY EntryTypes
  <1>2. /\ t \in Task /\ u \in Task
        /\ rank[t] \in Nat \cup {-1} /\ rank[u] \in Nat \cup {-1}
    BY EntryTypes
  <1>3. /\ pending_queue_[i].order = rank[t]
        /\ d.order = rank[u] + 1
        /\ d.order > 0
        /\ t # u
    BY DEF OrderInv, PendingInv, DelayedInv, OneQueueInv
  <1>4. rank[t] # rank[u]
    <2>1. rank[t] # NotPosted
      BY <1>1, <1>3 DEF NotPosted
    <2>2. QED
      BY <1>2, <1>3, <2>1 DEF OrderInv, RankInv
  <1>5. QED
    BY <1>1, <1>2, <1>3, <1>4

\* The queues, the ranks and the calls in progress are all that OrderInv reads.
LEMMA OrderInvUnchanged ==
    ASSUME OrderInv, UNCHANGED <<queue, ptask, posts, rank>>
    PROVE  OrderInv'
  BY DEF OrderInv, RankInv, PendingInv, DelayedInv, OneQueueInv, queue

\* PostTask appends an entry whose order id is its rank.
LEMMA PostTaskKeepsOrderInv ==
    ASSUME TypeOK, OrderInv, NEW p \in Poster, NEW t \in Task, PostTask(p, t)
    PROVE  OrderInv'
  <1> USE DEF OrderInv
  <1>1. rank[t] = NotPosted /\ \A q \in Poster : ptask[q] # t
    BY DEF PostTask, Fresh
  <1>2. /\ rank' = [rank EXCEPT ![t] = posts] /\ posts' = posts + 1
        /\ ptask' = ptask /\ delayed_queue_' = delayed_queue_
        /\ thread_posting_order_' = thread_posting_order_ + 1
    BY DEF PostTask, Posted
  <1> DEFINE e == [order |-> thread_posting_order_, task |-> t]
             R == [order : Nat, task : Task]
  <1>3. /\ pending_queue_' = Append(pending_queue_, e)
        /\ pending_queue_ \in Seq(R)
        /\ e \in R
    BY DEF PostTask, TypeOK
  <1>4. /\ Len(pending_queue_') = Len(pending_queue_) + 1
        /\ pending_queue_'[Len(pending_queue_) + 1] = e
        /\ \A i \in 1..Len(pending_queue_) : /\ pending_queue_'[i] = pending_queue_[i]
                                             /\ pending_queue_[i] \in R
    <2> HIDE DEF e, R
    <2>1. QED
      BY <1>3, AppendProperties, ElementOfSeq
  <1>5. RankInv'
    BY <1>1, <1>2 DEF RankInv, TypeOK, Nat1, NotPosted
  <1>6. \A i \in 1..Len(pending_queue_) : pending_queue_[i].task # t
    BY <1>1, EntryTypes DEF PendingInv, NotPosted
  <1>7. \A d \in delayed_queue_ : d.task # t
    BY <1>1 DEF DelayedInv, NotPosted, TypeOK
  <1>8. PendingInv'
    <2> SUFFICES ASSUME NEW i \in 1..(Len(pending_queue_) + 1)
                 PROVE  pending_queue_'[i].order = rank'[pending_queue_'[i].task]
      BY <1>4 DEF PendingInv
    <2>1. CASE i \in 1..Len(pending_queue_)
      BY <1>2, <1>4, <1>6, <2>1, EntryTypes DEF PendingInv
    <2>2. CASE i = Len(pending_queue_) + 1
      BY <1>2, <1>4, <2>2, EntryTypes DEF RankInv
    <2>3. QED
      BY <1>3, <2>1, <2>2
  <1>9. DelayedInv'
    BY <1>2, <1>7 DEF DelayedInv, TypeOK
  <1>10. OneQueueInv'
    BY <1>2, <1>4, <1>7 DEF OneQueueInv
  <1>11. QED
    BY <1>5, <1>8, <1>9, <1>10

\* PostDelayedTask inserts an entry whose order id is its rank plus one.
LEMMA InsertDelayedKeepsOrderInv ==
    ASSUME TypeOK, OrderInv, NEW p \in Poster, InsertDelayed(p)
    PROVE  OrderInv'
  <1> USE DEF OrderInv
  <1> DEFINE t == ptask[p]
             e == DelayedEntry(p)
  <1>1. t \in Task /\ rank[t] = NotPosted
    BY DEF InsertDelayed, TypeOK, RankInv
  <1>2. /\ rank' = [rank EXCEPT ![t] = posts] /\ posts' = posts + 1
        /\ ptask' = [ptask EXCEPT ![p] = NoTask]
        /\ pending_queue_' = pending_queue_
        /\ thread_posting_order_' = thread_posting_order_ + 1
    BY DEF InsertDelayed, Posted
  <1>3. \A d \in delayed_queue_' : d \in delayed_queue_ \/ d = e
    BY DEF InsertDelayed, MapPut
  <1>4. RankInv'
    BY <1>1, <1>2, NoTaskAssumption DEF RankInv, TypeOK, Nat1, NotPosted
  <1>5. \A i \in 1..Len(pending_queue_) :
            pending_queue_[i].task # t
    BY <1>1, EntryTypes DEF PendingInv, NotPosted
  <1>6. \A d \in delayed_queue_ : d.task # t
    BY <1>1 DEF DelayedInv, NotPosted, TypeOK
  <1>7. PendingInv'
    BY <1>1, <1>2, <1>5, EntryTypes DEF PendingInv
  <1>8. DelayedInv'
    <2> SUFFICES ASSUME NEW d \in delayed_queue_'
                 PROVE  d.order = rank'[d.task] + 1 /\ d.order > 0
      BY DEF DelayedInv
    <2>1. CASE d \in delayed_queue_
      BY <1>1, <1>2, <1>6, <2>1 DEF DelayedInv, TypeOK
    <2>2. CASE d = e
      BY <1>1, <1>2, <2>2 DEF RankInv, TypeOK, DelayedEntry
    <2>3. QED
      BY <1>3, <2>1, <2>2
  <1>9. OneQueueInv'
    BY <1>2, <1>3, <1>5 DEF OneQueueInv, DelayedEntry
  <1>10. QED
    BY <1>4, <1>7, <1>8, <1>9

\* Taking the head of the FIFO leaves entries that were there before.
LEMMA GetPendingKeepsOrderInv ==
    ASSUME TypeOK, OrderInv, GetPending
    PROVE  OrderInv'
  <1>1. /\ UNCHANGED <<thread_posting_order_, delayed_queue_, ptask, posts, rank>>
        /\ pending_queue_' = Tail(pending_queue_)
    BY DEF GetPending, Starts, calls
  <1>2. /\ Len(pending_queue_') = Len(pending_queue_) - 1
        /\ \A i \in 1..Len(pending_queue_') :
               pending_queue_'[i] = pending_queue_[i + 1]
    BY <1>1, HeadTailProperties DEF GetPending, TypeOK
  <1>3. Len(pending_queue_) \in Nat
    BY DEF TypeOK
  <1>4. \A i \in 1..Len(pending_queue_') : i + 1 \in 1..Len(pending_queue_)
    BY <1>2, <1>3
  <1>5. QED
    BY <1>1, <1>2, <1>4
    DEF OrderInv, RankInv, PendingInv, DelayedInv, OneQueueInv

LEMMA OrderInvariant == Spec => []OrderInv
  <1>1. Init => OrderInv
    <2> SUFFICES ASSUME Init PROVE OrderInv
      OBVIOUS
    <2>1. RankInv
      BY NoTaskAssumption DEF Init, RankInv, NotPosted
    <2>2. Len(pending_queue_) = 0 /\ delayed_queue_ = {}
      BY DEF Init
    <2>3. QED
      BY <2>1, <2>2 DEF OrderInv, PendingInv, DelayedInv, OneQueueInv
  <1>2. TypeOK /\ OrderInv /\ [Next]_vars => OrderInv'
    <2> SUFFICES ASSUME TypeOK, OrderInv, [Next]_vars PROVE OrderInv'
      OBVIOUS
    <2>1. CASE WorkerStarts \/ ReadTick \/ GetFinal \/ GetNothing \/ EnterWait
               \/ WaitSignalled \/ WaitTimesOut \/ WorkerStops
               \/ ThreadMainReturns \/ TaskReturns \/ Tick \/ UNCHANGED vars
      <3>1. UNCHANGED <<queue, ptask, posts, rank>>
        BY <2>1 DEF WorkerStarts, ReadTick, GetFinal, GetNothing, EnterWait,
           WaitSignalled, WaitTimesOut, WorkerStops, ThreadMainReturns,
           TaskReturns, Tick, vars, calls, history
      <3>2. QED
        BY <3>1, OrderInvUnchanged
    <2>2. CASE GetPending
      BY <2>2, GetPendingKeepsOrderInv
    <2>3. ASSUME NEW d \in delayed_queue_, GetDelayed(d) PROVE OrderInv'
      BY <2>3 DEF GetDelayed, Starts, calls, OrderInv, RankInv, PendingInv,
         DelayedInv, OneQueueInv
    <2>4. ASSUME NEW p \in Poster, NEW t \in Task, PostTask(p, t) PROVE OrderInv'
      BY <2>4, PostTaskKeepsOrderInv
    <2>5. ASSUME NEW p \in Poster, NEW t \in Task, NEW ms \in Delay,
                 PostDelayedTask(p, t, ms)
          PROVE OrderInv'
      <3>1. RankInv'
        BY <2>5 DEF PostDelayedTask, Fresh, queue, OrderInv, RankInv, TypeOK
      <3>2. QED
        BY <2>5, <3>1 DEF PostDelayedTask, queue, OrderInv, PendingInv,
           DelayedInv, OneQueueInv
    <2>6. ASSUME NEW p \in Poster, InsertDelayed(p) PROVE OrderInv'
      BY <2>6, InsertDelayedKeepsOrderInv
    <2>7. ASSUME NEW p \in Poster, NotifyWake(p) PROVE OrderInv'
      BY <2>7, OrderInvUnchanged DEF NotifyWake, history
    <2>8. CASE Constructed \/ DeleteSetsQuit \/ DeleteNotifies \/ DeleteSeesStopped
      BY <2>8 DEF Constructed, DeleteSetsQuit, DeleteNotifies,
         DeleteSeesStopped, OwnerGoes, queue, calls, history,
         OrderInv, RankInv, PendingInv, DelayedInv, OneQueueInv
    <2>9. CASE DeleteJoins
      <3>1. /\ Len(pending_queue_') = 0 /\ delayed_queue_' = {}
            /\ UNCHANGED <<thread_posting_order_, ptask, posts, rank>>
        BY <2>9 DEF DeleteJoins, OwnerGoes, calls, history
      <3>2. QED
        BY <3>1 DEF OrderInv, RankInv, PendingInv, DelayedInv, OneQueueInv
    <2>10. QED
      BY <2>1, <2>2, <2>3, <2>4, <2>5, <2>6, <2>7, <2>8, <2>9
      DEF Next, WorkerStep, GetNextTask, PostBegins, PostContinues,
          OwnerContinues, Terminated
  <1>3. QED
    BY <1>1, <1>2, TypeCorrect, PTL DEF Spec

\* GetNextTask's comparison of order ids decides by posting order, for any
\* number of threads and tasks.  OrderInv is the inductive invariant.
THEOREM OrderCorrect == Spec => []OrderIsPostingOrder
  BY OrderInvariant, TypeCorrect, OrderInvSuffices, PTL

-----------------------------------------------------------------------------
(***************************************************************************)
(* The queue keeps the promises of TaskQueueBase: every step of it is a    *)
(* step of the abstract specification or a stutter.                        *)
(***************************************************************************)

\* Who may be where, from the constructor to Delete.
LifeInv ==
    /\ wpc = "run" <=> run_task_ # NoTask
    /\ opc = "deleted" =>
           wpc = "exited" /\ pending_queue_ = <<>> /\ delayed_queue_ = {}
    /\ ppc[Worker] # "idle" => wpc = "run"
    /\ opc \notin {"constructing", "live"} => \A p \in Client : ppc[p] = "idle"
    /\ \A p \in Poster : ptask[p] # NoTask => ppc[p] = "insert"
    /\ tick <= now

LEMMA LifeInvStep == TypeOK /\ LifeInv /\ [Next]_vars => LifeInv'
  <1> SUFFICES ASSUME TypeOK, LifeInv, [Next]_vars PROVE LifeInv'
    OBVIOUS
  <1> USE WorkerAssumption, NoTaskAssumption DEF LifeInv, TypeOK, Poster
  <1>1. CASE WorkerStarts \/ ReadTick \/ GetFinal \/ GetNothing \/ EnterWait
             \/ WaitSignalled \/ WaitTimesOut \/ WorkerStops \/ ThreadMainReturns
    <2>1. UNCHANGED <<queue, now, run_task_, calls, opc>> /\ tick' \in {tick, now}
      BY <1>1 DEF WorkerStarts, ReadTick, GetFinal, GetNothing, EnterWait,
         WaitSignalled, WaitTimesOut, WorkerStops, ThreadMainReturns
    <2>2. wpc \notin {"run", "exited"} /\ wpc' # "run"
      BY <1>1 DEF WorkerStarts, ReadTick, GetFinal, GetNothing, EnterWait,
         WaitSignalled, WaitTimesOut, WorkerStops, ThreadMainReturns
    <2> QED
      BY <2>1, <2>2 DEF queue, calls
  <1>2. ASSUME NEW t \in Task, wpc = "lock", Starts(t) PROVE LifeInv'
    BY <1>2 DEF Starts, calls
  <1>3. CASE GetPending
    <2>1. Head(pending_queue_) \in [order : Nat, task : Task]
      BY ONLY <1>3, TypeOK, HeadTailProperties DEF GetPending, TypeOK
    <2> QED
      BY <1>2, <1>3, <2>1 DEF GetPending
  <1>4. ASSUME NEW d \in delayed_queue_, GetDelayed(d) PROVE LifeInv'
    BY <1>2, <1>4 DEF GetDelayed
  <1>5. CASE TaskReturns
    BY <1>5 DEF TaskReturns, queue, calls
  <1>6. ASSUME NEW p \in Poster, NEW t \in Task, PostTask(p, t) PROVE LifeInv'
    <2>1. opc # "deleted" /\ (p \in Client => opc = "live") /\ (p = Worker => wpc = "run")
      BY <1>6 DEF PostTask, MayPost
    <2> QED
      BY <1>6, <2>1 DEF PostTask, worker
  <1>7. ASSUME NEW p \in Poster, NEW t \in Task, NEW ms \in Delay,
               PostDelayedTask(p, t, ms)
        PROVE  LifeInv'
    <2>1. opc # "deleted" /\ (p \in Client => opc = "live") /\ (p = Worker => wpc = "run")
      BY <1>7 DEF PostDelayedTask, MayPost
    <2> QED
      BY <1>7, <2>1 DEF PostDelayedTask, worker, queue
  <1>8. ASSUME NEW p \in Poster, InsertDelayed(p) PROVE LifeInv'
    <2>1. opc # "deleted" /\ (p \in Client => opc \in {"constructing", "live"})
          /\ (p = Worker => wpc = "run")
      BY <1>8 DEF InsertDelayed
    <2> QED
      BY <1>8, <2>1 DEF InsertDelayed, worker
  <1>9. ASSUME NEW p \in Poster, NotifyWake(p) PROVE LifeInv'
    BY <1>9 DEF NotifyWake, worker, queue
  <1>10. CASE DeleteSetsQuit
    BY <1>10 DEF DeleteSetsQuit, OwnerGoes, worker, calls
  <1>11. CASE Constructed \/ DeleteNotifies \/ DeleteSeesStopped
    BY <1>11 DEF Constructed, DeleteNotifies, DeleteSeesStopped, OwnerGoes, worker, calls,
                 queue
  <1>12. CASE DeleteJoins
    BY <1>12 DEF DeleteJoins, OwnerGoes, worker, calls
  <1>13. CASE Tick
    BY <1>13 DEF Tick, queue, worker, calls
  <1>14. CASE UNCHANGED vars
    BY <1>14 DEF vars, queue, worker, calls
  <1> QED
    BY <1>1, <1>3, <1>4, <1>5, <1>6, <1>7, <1>8, <1>9, <1>10, <1>11, <1>12, <1>13, <1>14
    DEF Next, WorkerStep, GetNextTask, PostBegins, PostContinues, OwnerContinues,
        Terminated

LEMMA LifeInvariant == Spec => []LifeInv
  <1>1. Init => LifeInv
    BY WorkerAssumption DEF Init, LifeInv, Poster, Worker
  <1> QED
    BY <1>1, LifeInvStep, TypeCorrect, PTL DEF Spec

\* The object is destroyed only after the worker's last access to it
\* (NoUseAfterDelete).
THEOREM DeleteCorrect == Spec => []NoUseAfterDelete
  <1>1. LifeInv => NoUseAfterDelete
    BY DEF LifeInv, NoUseAfterDelete
  <1> QED
    BY <1>1, LifeInvariant, PTL
-----------------------------------------------------------------------------
(* The tasks: each is in one place, and carries the promise of its post.   *)

SortedInv ==
    \A i, j \in 1..Len(pending_queue_) :
        i < j => pending_queue_[i].order < pending_queue_[j].order

PlaceInv ==
    /\ run_task_ # NoTask => run_task_ \in started
    /\ \A t \in started : rank[t] # NotPosted /\ ~Waiting(t)
    /\ \A d, e \in delayed_queue_ : d.task = e.task => d = e

DueInv ==
    /\ \A i \in 1..Len(pending_queue_) : due[pending_queue_[i].task] = Immediate
    /\ \A d \in delayed_queue_ : due[d.task] = d.fire_at
    /\ \A p \in Poster : ptask[p] # NoTask => due[ptask[p]] = pfire[p]
    /\ \A t \in Task : Fresh(t) => due[t] = Immediate

TaskInv == SortedInv /\ PlaceInv /\ DueInv

\* What is known before a step.
Known == TypeOK /\ OrderInv /\ LifeInv /\ TaskInv

\* A task that waits was posted, and waits in one place.
LEMMA WaitingFacts ==
    ASSUME Known
    PROVE  /\ \A t \in Task : Waiting(t) => rank[t] # NotPosted /\ t \notin started
           /\ \A i, j \in 1..Len(pending_queue_) :
                  pending_queue_[i].task = pending_queue_[j].task => i = j
  <1> USE DEF Known, TaskInv
  <1>1. \A i \in 1..Len(pending_queue_) : rank[pending_queue_[i].task] # NotPosted
    BY EntryTypes DEF OrderInv, PendingInv, NotPosted
  <1>2. \A d \in delayed_queue_ : rank[d.task] # NotPosted
    <2> TAKE d \in delayed_queue_
    <2>1. d.order = rank[d.task] + 1 /\ d.order > 0
      BY DEF OrderInv, DelayedInv
    <2> QED
      BY <2>1 DEF NotPosted
  <1>3. \A i, j \in 1..Len(pending_queue_) :
            pending_queue_[i].task = pending_queue_[j].task => i = j
    <2> TAKE i, j \in 1..Len(pending_queue_)
    <2> HAVE pending_queue_[i].task = pending_queue_[j].task
    <2>1. pending_queue_[i].order = pending_queue_[j].order
      BY DEF OrderInv, PendingInv
    <2>2. pending_queue_[i].order \in Nat /\ pending_queue_[j].order \in Nat
      BY EntryTypes
    <2>3. ~(i < j) /\ ~(j < i)
      BY <2>1, <2>2 DEF SortedInv
    <2> QED
      BY <2>3
  <1> QED
    BY <1>1, <1>2, <1>3 DEF Waiting, PlaceInv

\* The FIFO after PostTask.
LEMMA PendingAppended ==
    ASSUME TypeOK, NEW p \in Poster, NEW t \in Task, PostTask(p, t)
    PROVE  /\ Len(pending_queue_) \in Nat
           /\ Len(pending_queue_') = Len(pending_queue_) + 1
           /\ \A i \in 1..Len(pending_queue_) : pending_queue_'[i] = pending_queue_[i]
           /\ pending_queue_'[Len(pending_queue_) + 1] =
                  [order |-> thread_posting_order_, task |-> t]
  <1> DEFINE e == [order |-> thread_posting_order_, task |-> t]
             R == [order : Nat, task : Task]
  <1>1. /\ pending_queue_' = Append(pending_queue_, e)
        /\ pending_queue_ \in Seq(R)
        /\ e \in R
    BY DEF PostTask, TypeOK
  <1>2. pending_queue_'[Len(pending_queue_) + 1] = e
    <2> HIDE DEF e, R
    <2> QED
      BY <1>1, AppendProperties
  <1>3. /\ Len(pending_queue_) \in Nat
        /\ Len(pending_queue_') = Len(pending_queue_) + 1
        /\ \A i \in 1..Len(pending_queue_) : pending_queue_'[i] = pending_queue_[i]
    <2> HIDE DEF e, R
    <2> QED
      BY <1>1, AppendProperties, LenProperties
  <1> QED
    BY <1>2, <1>3

\* The FIFO after GetPending.
LEMMA PendingTaken ==
    ASSUME TypeOK, GetPending
    PROVE  /\ Len(pending_queue_) \in Nat \ {0}
           /\ Len(pending_queue_') = Len(pending_queue_) - 1
           /\ \A i \in 1..Len(pending_queue_') : pending_queue_'[i] = pending_queue_[i + 1]
           /\ Head(pending_queue_) = pending_queue_[1]
           /\ pending_queue_[1].task \in Task /\ pending_queue_[1].order \in Nat
  <1>1. /\ pending_queue_ \in Seq([order : Nat, task : Task]) /\ pending_queue_ # <<>>
        /\ pending_queue_' = Tail(pending_queue_)
    BY DEF GetPending, TypeOK
  <1>2. /\ Len(pending_queue_) \in Nat \ {0}
        /\ Len(pending_queue_') = Len(pending_queue_) - 1
        /\ \A i \in 1..Len(pending_queue_') : pending_queue_'[i] = pending_queue_[i + 1]
        /\ Head(pending_queue_) = pending_queue_[1]
    BY <1>1, HeadTailProperties, LenProperties, EmptySeq
  <1>3. 1 \in 1..Len(pending_queue_)
    BY <1>2
  <1> QED
    BY <1>2, <1>3, EntryTypes

\* The keys of the map are never equal: a task that is inserted replaces nobody.
LEMMA DelayedAdded ==
    ASSUME Known, NEW p \in Poster, InsertDelayed(p)
    PROVE  delayed_queue_' = delayed_queue_ \cup {DelayedEntry(p)}
  <1>1. \A d \in delayed_queue_ : d.order # DelayedEntry(p).order
    <2> TAKE d \in delayed_queue_
    <2>1. d.order \in Nat /\ d.task \in Task /\ rank[d.task] \in Nat \cup {-1}
      BY EntryTypes DEF Known
    <2>2. d.order = rank[d.task] + 1 /\ rank[d.task] < posts /\ thread_posting_order_ = posts
      BY <2>1 DEF Known, OrderInv, DelayedInv, RankInv
    <2>3. posts \in Nat
      BY DEF Known, TypeOK
    <2> QED
      BY <2>1, <2>2, <2>3 DEF DelayedEntry
  <1> QED
    BY <1>1 DEF InsertDelayed, MapPut

\* Who waits after each step that changes the queues.
LEMMA WaitingAfterPost ==
    ASSUME TypeOK, NEW p \in Poster, NEW t \in Task, PostTask(p, t)
    PROVE  \A u \in Task : Waiting(u)' <=> Waiting(u) \/ u = t
  <1>0. /\ Len(pending_queue_) \in Nat
        /\ Len(pending_queue_') = Len(pending_queue_) + 1
        /\ \A i \in 1..Len(pending_queue_) : pending_queue_'[i] = pending_queue_[i]
        /\ pending_queue_'[Len(pending_queue_) + 1].task = t
    <2>1. [order |-> thread_posting_order_, task |-> t].task = t
      OBVIOUS
    <2> QED
      BY PendingAppended, <2>1, Zenon
  <1>1. delayed_queue_' = delayed_queue_
    BY DEF PostTask
  <1>2. \A i \in 1..Len(pending_queue_') :
            i \in 1..Len(pending_queue_) \/ i = Len(pending_queue_) + 1
    BY <1>0
  <1>3. /\ \A i \in 1..Len(pending_queue_) : i \in 1..Len(pending_queue_')
        /\ Len(pending_queue_) + 1 \in 1..Len(pending_queue_')
    BY <1>0
  <1> QED
    BY <1>0, <1>1, <1>2, <1>3 DEF Waiting

LEMMA WaitingAfterInsert ==
    ASSUME Known, NEW p \in Poster, InsertDelayed(p)
    PROVE  \A u \in Task : Waiting(u)' <=> Waiting(u) \/ u = ptask[p]
  <1>1. pending_queue_' = pending_queue_ /\ DelayedEntry(p).task = ptask[p]
    BY DEF InsertDelayed, DelayedEntry
  <1> QED
    BY <1>1, DelayedAdded DEF Waiting

LEMMA WaitingAfterGetPending ==
    ASSUME Known, GetPending
    PROVE  /\ Head(pending_queue_).task \in Task
           /\ Waiting(Head(pending_queue_).task)
           /\ \A u \in Task : Waiting(u)' <=> Waiting(u) /\ u # Head(pending_queue_).task
  <1> DEFINE h == pending_queue_[1].task
  <1>0. TypeOK
    BY DEF Known
  <1>1. delayed_queue_' = delayed_queue_ /\ Head(pending_queue_) = pending_queue_[1]
    BY <1>0, PendingTaken DEF GetPending
  <1>2. 1 \in 1..Len(pending_queue_) /\ h \in Task
    BY <1>0, PendingTaken
  <1>3. \A d \in delayed_queue_ : d.task # h
    BY <1>2 DEF Known, OrderInv, OneQueueInv
  <1>4. \A i \in 1..Len(pending_queue_) : i # 1 => pending_queue_[i].task # h
    BY <1>2, WaitingFacts
  <1>5. \A i \in 1..Len(pending_queue_') :
            i + 1 \in 1..Len(pending_queue_) /\ i + 1 # 1
            /\ pending_queue_'[i] = pending_queue_[i + 1]
    BY <1>0, PendingTaken
  <1>6. \A i \in 1..Len(pending_queue_) :
            i # 1 => i - 1 \in 1..Len(pending_queue_')
                     /\ pending_queue_'[i - 1] = pending_queue_[i]
    BY <1>0, PendingTaken
  <1>7. \A u \in Task : Waiting(u)' => Waiting(u) /\ u # h
    BY <1>1, <1>3, <1>4, <1>5 DEF Waiting
  <1>8. \A u \in Task : Waiting(u) /\ u # h => Waiting(u)'
    BY <1>1, <1>2, <1>6 DEF Waiting
  <1>9. Waiting(h)
    BY <1>2 DEF Waiting
  <1> QED
    BY <1>1, <1>2, <1>7, <1>8, <1>9

LEMMA WaitingAfterGetDelayed ==
    ASSUME Known, NEW d \in delayed_queue_, GetDelayed(d)
    PROVE  /\ d.task \in Task /\ Waiting(d.task)
           /\ \A u \in Task : Waiting(u)' <=> Waiting(u) /\ u # d.task
  <1>1. pending_queue_' = pending_queue_ /\ delayed_queue_' = delayed_queue_ \ {d}
    BY DEF GetDelayed
  <1>2. d.task \in Task
    BY EntryTypes DEF Known
  <1>3. \A i \in 1..Len(pending_queue_) : pending_queue_[i].task # d.task
    BY DEF Known, OrderInv, OneQueueInv
  <1>4. \A e \in delayed_queue_ : e # d => e.task # d.task
    BY DEF Known, TaskInv, PlaceInv
  <1> QED
    BY <1>1, <1>2, <1>3, <1>4 DEF Waiting

-----------------------------------------------------------------------------
LEMMA PostTaskKeepsTaskInv ==
    ASSUME Known, NEW p \in Poster, NEW t \in Task, PostTask(p, t)
    PROVE  TaskInv'
  <1> USE DEF Known, TaskInv
  <1> DEFINE n == Len(pending_queue_)
  <1>0. /\ n \in Nat /\ Len(pending_queue_') = n + 1
        /\ \A i \in 1..n : pending_queue_'[i] = pending_queue_[i]
        /\ pending_queue_'[n + 1].task = t
        /\ pending_queue_'[n + 1].order = thread_posting_order_
    <2>1. /\ [order |-> thread_posting_order_, task |-> t].task = t
          /\ [order |-> thread_posting_order_, task |-> t].order = thread_posting_order_
      OBVIOUS
    <2> QED
      BY PendingAppended, <2>1, Zenon
  <1>1. \A i \in 1..Len(pending_queue_') : i \in 1..n \/ i = n + 1
    BY <1>0
  <1>2. Fresh(t) /\ rank' = [rank EXCEPT ![t] = posts] /\ posts \in Nat
        /\ UNCHANGED <<delayed_queue_, ptask, pfire, due, started, run_task_>>
    BY DEF PostTask, Posted, worker, TypeOK
  <1>3. SortedInv'
    <2>1. \A i \in 1..n : pending_queue_[i].order < thread_posting_order_
                          /\ pending_queue_[i].order \in Nat
      <3> TAKE i \in 1..n
      <3>1. pending_queue_[i].task \in Task /\ pending_queue_[i].order \in Nat
        BY EntryTypes
      <3> QED
        BY <3>1 DEF OrderInv, RankInv, PendingInv
    <2> QED
      BY <1>0, <1>1, <2>1 DEF SortedInv
  <1>4. PlaceInv'
    <2>1. t \notin started
      BY <1>2 DEF PlaceInv, Fresh
    <2>2. \A u \in started : u \in Task /\ rank'[u] = rank[u] /\ ~Waiting(u)'
      BY <1>2, <2>1, WaitingAfterPost DEF PlaceInv, TypeOK
    <2> QED
      BY <1>2, <2>2 DEF PlaceInv
  <1>5. DueInv'
    <2>1. due[t] = Immediate
      BY <1>2 DEF DueInv
    <2>2. \A u \in Task : Fresh(u)' => Fresh(u)
      BY <1>2 DEF Fresh, TypeOK, NotPosted
    <2>3. \A i \in 1..Len(pending_queue_') : due[pending_queue_'[i].task] = Immediate
      BY <1>0, <1>1, <2>1 DEF DueInv
    <2> QED
      BY <1>2, <2>2, <2>3 DEF DueInv
  <1> QED
    BY <1>3, <1>4, <1>5

LEMMA PostDelayedKeepsTaskInv ==
    ASSUME Known, NEW p \in Poster, NEW t \in Task, NEW ms \in Delay,
           PostDelayedTask(p, t, ms)
    PROVE  TaskInv'
  <1> USE DEF Known, TaskInv
  <1>1. /\ Fresh(t) /\ due' = [due EXCEPT ![t] = now + ms]
        /\ ptask' = [ptask EXCEPT ![p] = t]
        /\ pfire' = [pfire EXCEPT ![p] = now + ms]
        /\ UNCHANGED <<pending_queue_, delayed_queue_, rank, started, run_task_>>
    BY DEF PostDelayedTask, worker, queue
  <1>2. SortedInv' /\ PlaceInv'
    BY <1>1 DEF SortedInv, PlaceInv, Waiting
  <1>3. ~Waiting(t)
    BY <1>1, WaitingFacts DEF Fresh
  <1>4. /\ \A i \in 1..Len(pending_queue_) :
               pending_queue_[i].task # t /\ pending_queue_[i].task \in Task
        /\ \A d \in delayed_queue_ : d.task # t /\ d.task \in Task
    BY <1>3, EntryTypes DEF Waiting
  <1>5. DueInv'
    <2>1. /\ \A i \in 1..Len(pending_queue_') : due'[pending_queue_'[i].task] = Immediate
          /\ \A d \in delayed_queue_' : due'[d.task] = d.fire_at
      BY <1>1, <1>4 DEF DueInv, TypeOK
    <2>2. \A q \in Poster : ptask'[q] # NoTask => due'[ptask'[q]] = pfire'[q]
      <3> TAKE q \in Poster
      <3>1. CASE q = p
        BY <1>1, <3>1 DEF TypeOK
      <3>2. CASE q # p
        BY <1>1, <3>2 DEF DueInv, TypeOK, Fresh
      <3> QED
        BY <3>1, <3>2
    <2>3. \A u \in Task : Fresh(u)' => u # t /\ Fresh(u)
      <3> TAKE u \in Task
      <3> HAVE Fresh(u)'
      <3>1. ptask'[p] = t
        BY <1>1 DEF TypeOK
      <3>2. \A q \in Poster : q # p => ptask'[q] = ptask[q]
        BY <1>1 DEF TypeOK
      <3>3. ptask[p] = NoTask
        BY DEF LifeInv, PostDelayedTask
      <3> QED
        BY <1>1, <3>1, <3>2, <3>3, NoTaskAssumption DEF Fresh
    <2>4. \A u \in Task : Fresh(u)' => due'[u] = Immediate
      BY <1>1, <2>3 DEF DueInv, TypeOK
    <2> QED
      BY <2>1, <2>2, <2>4 DEF DueInv
  <1> QED
    BY <1>2, <1>5

LEMMA InsertDelayedKeepsTaskInv ==
    ASSUME Known, NEW p \in Poster, InsertDelayed(p)
    PROVE  TaskInv'
  <1> USE DEF Known, TaskInv
  <1> DEFINE t == ptask[p]
             e == DelayedEntry(p)
  <1>1. /\ t \in Task /\ t # NoTask /\ rank[t] = NotPosted /\ posts \in Nat
        /\ rank' = [rank EXCEPT ![t] = posts]
        /\ ptask' = [ptask EXCEPT ![p] = NoTask]
        /\ UNCHANGED <<pending_queue_, pfire, due, started, run_task_>>
    BY NoTaskAssumption DEF InsertDelayed, Posted, worker, TypeOK, OrderInv, RankInv
  <1>2. delayed_queue_' = delayed_queue_ \cup {e} /\ e.task = t /\ e.fire_at = pfire[p]
    BY DelayedAdded DEF DelayedEntry
  <1>3. t \notin started /\ ~Waiting(t)
    BY <1>1, WaitingFacts DEF PlaceInv
  <1>4. SortedInv'
    BY <1>1 DEF SortedInv
  <1>5. PlaceInv'
    <2>1. \A u \in started : u \in Task /\ rank'[u] = rank[u] /\ ~Waiting(u)'
      BY <1>1, <1>3, WaitingAfterInsert DEF PlaceInv, TypeOK
    <2>2. \A d \in delayed_queue_ : d.task # t
      BY <1>3 DEF Waiting
    <2>3. \A c, d \in delayed_queue_' : c.task = d.task => c = d
      BY <1>2, <2>2 DEF PlaceInv
    <2> QED
      BY <1>1, <2>1, <2>3 DEF PlaceInv
  <1>6. DueInv'
    <2>1. due[t] = pfire[p]
      BY <1>1 DEF DueInv
    <2>2. \A d \in delayed_queue_' : due[d.task] = d.fire_at
      BY <1>2, <2>1 DEF DueInv
    <2>3. \A q \in Poster : ptask'[q] = ptask[q] \/ ptask'[q] = NoTask
      BY <1>1 DEF TypeOK
    <2>4. \A u \in Task : Fresh(u)' => Fresh(u)
      <3> TAKE u \in Task
      <3> HAVE Fresh(u)'
      <3>1. u # t
        BY <1>1 DEF Fresh, TypeOK, NotPosted
      <3>2. \A q \in Poster : q # p => ptask'[q] = ptask[q]
        BY <1>1 DEF TypeOK
      <3> QED
        BY <1>1, <3>1, <3>2 DEF Fresh, TypeOK
    <2> QED
      BY <1>1, <2>2, <2>3, <2>4 DEF DueInv
  <1> QED
    BY <1>4, <1>5, <1>6

\* A task leaves a queue and starts.
LEMMA StartKeepsTaskInv ==
    ASSUME Known, NEW t \in Task, Waiting(t), Starts(t),
           \A u \in Task : Waiting(u)' <=> Waiting(u) /\ u # t
    PROVE  /\ run_task_' # NoTask => run_task_' \in started'
           /\ \A u \in started' : rank'[u] # NotPosted /\ ~Waiting(u)'
           /\ \A u \in Task : Fresh(u)' => Fresh(u)
           /\ UNCHANGED <<due, ptask, pfire>>
  <1>1. /\ run_task_' = t /\ started' = started \cup {t}
        /\ UNCHANGED <<due, ptask, pfire, rank>>
    BY DEF Starts, calls
  <1>2. rank[t] # NotPosted
    BY WaitingFacts
  <1>3. started \subseteq Task
    BY DEF Known, TypeOK
  <1>4. \A u \in started' : rank'[u] # NotPosted /\ ~Waiting(u)'
    BY <1>1, <1>2, <1>3 DEF Known, TaskInv, PlaceInv
  <1>5. \A u \in Task : Fresh(u)' => Fresh(u)
    BY <1>1 DEF Fresh
  <1> QED
    BY <1>1, <1>4, <1>5

LEMMA GetPendingKeepsTaskInv ==
    ASSUME Known, GetPending
    PROVE  TaskInv'
  <1> USE DEF Known, TaskInv
  <1>1. /\ Len(pending_queue_) \in Nat \ {0}
        /\ Len(pending_queue_') = Len(pending_queue_) - 1
        /\ \A i \in 1..Len(pending_queue_') : pending_queue_'[i] = pending_queue_[i + 1]
        /\ delayed_queue_' = delayed_queue_
    BY PendingTaken DEF GetPending
  <1>2. \A i \in 1..Len(pending_queue_') : i + 1 \in 1..Len(pending_queue_) /\ i \in Nat
    BY <1>1
  <1>3. /\ run_task_' # NoTask => run_task_' \in started'
        /\ \A u \in started' : rank'[u] # NotPosted /\ ~Waiting(u)'
        /\ \A u \in Task : Fresh(u)' => Fresh(u)
        /\ UNCHANGED <<due, ptask, pfire>>
    BY WaitingAfterGetPending, StartKeepsTaskInv DEF GetPending
  <1>4. SortedInv'
    BY <1>1, <1>2 DEF SortedInv
  <1>5. PlaceInv'
    BY <1>1, <1>3 DEF PlaceInv
  <1>6. DueInv'
    BY <1>1, <1>2, <1>3 DEF DueInv
  <1> QED
    BY <1>4, <1>5, <1>6

LEMMA GetDelayedKeepsTaskInv ==
    ASSUME Known, NEW d \in delayed_queue_, GetDelayed(d)
    PROVE  TaskInv'
  <1> USE DEF Known, TaskInv
  <1>1. pending_queue_' = pending_queue_ /\ delayed_queue_' = delayed_queue_ \ {d}
    BY DEF GetDelayed
  <1>2. d.task \in Task /\ Waiting(d.task) /\ Starts(d.task)
        /\ \A u \in Task : Waiting(u)' <=> Waiting(u) /\ u # d.task
    BY WaitingAfterGetDelayed DEF GetDelayed
  <1>3. /\ run_task_' # NoTask => run_task_' \in started'
        /\ \A u \in started' : rank'[u] # NotPosted /\ ~Waiting(u)'
        /\ \A u \in Task : Fresh(u)' => Fresh(u)
        /\ UNCHANGED <<due, ptask, pfire>>
    BY <1>2, StartKeepsTaskInv
  <1>4. SortedInv'
    BY <1>1 DEF SortedInv
  <1>5. PlaceInv'
    BY <1>1, <1>3 DEF PlaceInv
  <1>6. DueInv'
    BY <1>1, <1>3 DEF DueInv
  <1> QED
    BY <1>4, <1>5, <1>6

LEMMA TaskInvStep == Known /\ [Next]_vars => TaskInv'
  <1> SUFFICES ASSUME Known, [Next]_vars PROVE TaskInv'
    OBVIOUS
  <1>1. ASSUME UNCHANGED <<pending_queue_, delayed_queue_, ptask, pfire, rank, due, started>>,
               run_task_' = run_task_ \/ run_task_' = NoTask
        PROVE  TaskInv'
    BY <1>1 DEF Known, TaskInv, SortedInv, PlaceInv, DueInv, Waiting, Fresh
  <1>2. CASE WorkerStarts \/ ReadTick \/ GetFinal \/ GetNothing \/ EnterWait
             \/ WaitSignalled \/ WaitTimesOut \/ WorkerStops \/ ThreadMainReturns
             \/ TaskReturns \/ Tick \/ UNCHANGED vars
    BY <1>1, <1>2 DEF WorkerStarts, ReadTick, GetFinal, GetNothing, EnterWait,
       WaitSignalled, WaitTimesOut, WorkerStops, ThreadMainReturns, TaskReturns, Tick,
       vars, queue, worker, calls, history
  <1>3. CASE Constructed \/ DeleteSetsQuit \/ DeleteNotifies \/ DeleteSeesStopped
    BY <1>1, <1>3 DEF Constructed, DeleteSetsQuit, DeleteNotifies, DeleteSeesStopped,
       OwnerGoes, queue, worker, calls, history
  <1>4. CASE \E p \in Poster : NotifyWake(p)
    BY <1>1, <1>4 DEF NotifyWake, queue, worker, history
  <1>5. CASE DeleteJoins
    <2>1. /\ Len(pending_queue_') = 0 /\ delayed_queue_' = {}
          /\ UNCHANGED <<ptask, pfire, rank, due, started, run_task_>>
      BY <1>5 DEF DeleteJoins, OwnerGoes, worker, calls, history
    <2>2. \A t : ~Waiting(t)'
      BY <2>1 DEF Waiting
    <2> QED
      BY <2>1, <2>2 DEF Known, TaskInv, SortedInv, PlaceInv, DueInv, Fresh
  <1> QED
    BY <1>2, <1>3, <1>4, <1>5, PostTaskKeepsTaskInv, PostDelayedKeepsTaskInv,
       InsertDelayedKeepsTaskInv, GetPendingKeepsTaskInv, GetDelayedKeepsTaskInv
    DEF Next, WorkerStep, GetNextTask, PostBegins, PostContinues, OwnerContinues,
        Terminated

LEMMA KnownInvariant == Spec => []Known
  <1>1. Init => TaskInv
    <2> SUFFICES ASSUME Init PROVE TaskInv
      OBVIOUS
    <2>1. Len(pending_queue_) = 0 /\ delayed_queue_ = {}
      BY DEF Init
    <2> QED
      BY <2>1 DEF Init, TaskInv, SortedInv, PlaceInv, DueInv
  <1>2. Known <=> TypeOK /\ OrderInv /\ LifeInv /\ TaskInv
    BY DEF Known
  <1> QED
    BY <1>1, <1>2, TaskInvStep, TypeCorrect, OrderInvariant, LifeInvariant, PTL DEF Spec

-----------------------------------------------------------------------------
(* Posting order.                                                          *)

\* Among the tasks that may start, posting order decides (StartsInPostingOrder).
THEOREM StartOrderCorrect == Spec => StartsInPostingOrder
  <1> DEFINE InOrder ==
        \A t \in started' \ started :
          \/ /\ due[t] = Immediate
             /\ \A d \in delayed_queue_ : DueFront(d) => rank[t] < rank[d.task]
          \/ /\ due[t] # Immediate
             /\ \A i \in 1..Len(pending_queue_) :
                    rank[t] < rank[pending_queue_[i].task]
  <1>1. Known /\ [Next]_vars => [InOrder]_vars
    <2> SUFFICES ASSUME Known, Next PROVE InOrder
      OBVIOUS
    <2>0. TypeOK /\ OrderInv /\ OrderIsPostingOrder
      BY OrderInvSuffices DEF Known
    <2>1. ASSUME started' = started PROVE InOrder
      BY <2>1
    <2>2. CASE GetPending
      <3> DEFINE h == pending_queue_[1]
      <3>1. /\ 1 \in 1..Len(pending_queue_) /\ Head(pending_queue_) = h
            /\ started' = started \cup {h.task}
        BY <2>0, <2>2, PendingTaken DEF GetPending, Starts
      <3>2. due[h.task] = Immediate
        BY <3>1 DEF Known, TaskInv, DueInv
      <3>3. \A d \in delayed_queue_ : DueFront(d) => rank[h.task] < rank[d.task]
        BY <2>0, <2>2, <3>1 DEF GetPending, PendingBefore, OrderIsPostingOrder
      <3> QED
        BY <3>1, <3>2, <3>3
    <2>3. ASSUME NEW d \in delayed_queue_, GetDelayed(d) PROVE InOrder
      <3>1. started' = started \cup {d.task}
        BY <2>3 DEF GetDelayed, Starts
      <3>2. due[d.task] # Immediate
        <4>1. due[d.task] = d.fire_at /\ d.fire_at \in Nat
          BY DEF Known, TaskInv, DueInv, TypeOK
        <4> QED
          BY <4>1 DEF Immediate
      <3>3. ASSUME NEW i \in 1..Len(pending_queue_)
            PROVE  rank[d.task] < rank[pending_queue_[i].task]
        <4>1. Len(pending_queue_) \in Nat
          BY <2>0 DEF TypeOK
        <4>2. 1 \in 1..Len(pending_queue_) /\ pending_queue_ # <<>>
          BY <4>1
        <4>3. Head(pending_queue_) = pending_queue_[1]
          BY <2>0, <4>2, HeadTailProperties DEF TypeOK
        <4>4. ~(pending_queue_[1].order < d.order)
          BY <2>3, <4>2, <4>3 DEF GetDelayed, PendingBefore
        <4>5. /\ pending_queue_[1].order \in Nat /\ pending_queue_[i].order \in Nat
              /\ d.order \in Nat
          BY <2>0, <4>2, EntryTypes
        <4>6. pending_queue_[1].order <= pending_queue_[i].order
          BY <4>1, <4>2, <4>5 DEF Known, TaskInv, SortedInv
        <4>7. /\ pending_queue_[i].order = rank[pending_queue_[i].task]
              /\ d.order = rank[d.task] + 1
          BY <2>0 DEF OrderInv, PendingInv, DelayedInv
        <4>8. rank[d.task] \in Int
          BY <2>0, EntryTypes
        <4> QED
          BY <4>4, <4>5, <4>6, <4>7, <4>8
      <3> QED
        BY <3>1, <3>2, <3>3
    <2>4. CASE ~GetPending /\ ~(\E d \in delayed_queue_ : GetDelayed(d))
      <3>1. started' = started
        BY <2>4 DEF Next, WorkerStep, GetNextTask, PostBegins, PostContinues,
           OwnerContinues, Terminated, WorkerStarts, ReadTick, GetFinal, GetNothing,
           EnterWait, WaitSignalled, WaitTimesOut, WorkerStops, ThreadMainReturns,
           TaskReturns, PostTask, PostDelayedTask, InsertDelayed, NotifyWake, Constructed,
           DeleteSetsQuit, DeleteNotifies, DeleteSeesStopped, DeleteJoins, OwnerGoes, Tick,
           vars, history
      <3> QED
        BY <2>1, <3>1
    <2> QED
      BY <2>2, <2>3, <2>4
  <1> QED
    BY <1>1, KnownInvariant, PTL DEF Spec, StartsInPostingOrder

-----------------------------------------------------------------------------
(* The refinement.                                                         *)

\* One task changes its phase.
LEMMA PhaseChanges ==
    ASSUME NEW t \in Task, NEW v,
           \A u \in Task : PhaseOf(u)' = IF u = t THEN v ELSE PhaseOf(u)
    PROVE  phase' = [phase EXCEPT ![t] = v]
  BY DEF phase

\* No task does.
LEMMA PhaseStays ==
    ASSUME UNCHANGED <<run_task_, started, rank, ptask, pending_queue_, delayed_queue_>>
    PROVE  phase' = phase /\ fifo' = fifo
  BY DEF phase, fifo, PhaseOf, Waiting

LEMMA RunningIsBusy == Known => (Base!Busy <=> wpc = "run")
  <1> SUFFICES ASSUME Known PROVE Base!Busy <=> wpc = "run"
    OBVIOUS
  <1>1. \A t \in Task : phase[t] = "running" <=> run_task_ = t
    BY DEF phase, PhaseOf
  <1>2. run_task_ \in Task \cup {NoTask} /\ (wpc = "run" <=> run_task_ # NoTask)
    BY DEF Known, TypeOK, LifeInv
  <1> QED
    BY <1>1, <1>2, NoTaskAssumption DEF Base!Busy

\* Whoever may post may post in the abstract specification.
LEMMA MayPostMaps ==
    ASSUME Known, NEW p \in Poster, MayPost(p)
    PROVE  Base!MayPost
  <1>1. opc \in {"constructing", "live"} \/ (wpc = "run" /\ opc # "deleted")
    BY DEF MayPost, Known, LifeInv
  <1>2. opc \in {"constructing", "live"} => state = "live"
    BY DEF state
  <1>3. opc \notin {"constructing", "live", "deleted"} => state = "deleting"
    BY DEF state, Known, TypeOK
  <1> QED
    BY <1>1, <1>2, <1>3, RunningIsBusy DEF Base!MayPost

LEMMA FreshIsNew ==
    ASSUME Known, NEW t \in Task, Fresh(t)
    PROVE  PhaseOf(t) = "new" /\ run_task_ # t /\ t \notin started /\ ~Waiting(t)
  <1>1. t \notin started /\ ~Waiting(t)
    BY WaitingFacts DEF Known, TaskInv, PlaceInv, Fresh
  <1>2. run_task_ # t
    BY <1>1, NoTaskAssumption DEF Known, TaskInv, PlaceInv
  <1> QED
    BY <1>1, <1>2 DEF PhaseOf, Fresh

LEMMA PostTaskMaps ==
    ASSUME Known, NEW p \in Poster, NEW t \in Task, PostTask(p, t)
    PROVE  Base!PostTask(t)
  <1>1. /\ MayPost(p) /\ Fresh(t) /\ rank' = [rank EXCEPT ![t] = posts] /\ posts \in Nat
        /\ UNCHANGED <<now, opc, due, started, run_task_, ptask>>
    BY DEF PostTask, Posted, worker, Known, TypeOK
  <1>2. phase[t] = "new"
    BY <1>1, FreshIsNew DEF phase
  <1>3. phase' = [phase EXCEPT ![t] = "queued"]
    <2>1. \A u \in Task : Waiting(u)' <=> Waiting(u) \/ u = t
      BY WaitingAfterPost DEF Known
    <2>2. \A u \in Task : u # t => rank'[u] = rank[u]
      BY <1>1 DEF Known, TypeOK
    <2>3. \A u \in Task : PhaseOf(u)' = IF u = t THEN "queued" ELSE PhaseOf(u)
      BY <1>1, <2>1, <2>2, FreshIsNew DEF PhaseOf
    <2> QED
      BY <2>3, PhaseChanges
  <1>4. fifo' = Append(fifo, t)
    <2> DEFINE n == Len(pending_queue_)
    <2>1. /\ n \in Nat /\ Len(pending_queue_') = n + 1
          /\ \A i \in 1..n : pending_queue_'[i] = pending_queue_[i]
          /\ pending_queue_'[n + 1].task = t
      <3>1. [order |-> thread_posting_order_, task |-> t].task = t
        OBVIOUS
      <3>2. TypeOK
        BY DEF Known
      <3> QED
        BY <3>1, <3>2, PendingAppended, Zenon
    <2>2. \A i \in 1..n : pending_queue_[i].task \in Task
      BY EntryTypes DEF Known
    <2>3. fifo \in Seq(Task) /\ Len(fifo) = n
      BY <2>1, <2>2 DEF fifo
    <2>4. fifo' = [i \in 1..(n + 1) |-> IF i = n + 1 THEN t ELSE pending_queue_[i].task]
      BY <2>1 DEF fifo
    <2> HIDE DEF n
    <2>5. \A i \in 1..n : fifo[i] = pending_queue_[i].task
      BY <2>1 DEF fifo, n
    <2>6. /\ Append(fifo, t) \in Seq(Task) /\ Len(Append(fifo, t)) = n + 1
          /\ \A i \in 1..n : Append(fifo, t)[i] = fifo[i]
          /\ Append(fifo, t)[n + 1] = t
      BY <2>3, AppendProperties
    <2>7. \A i \in 1..(n + 1) : i \in 1..n \/ i = n + 1
      BY <2>1
    <2>8. \A i \in 1..(n + 1) : fifo'[i] = Append(fifo, t)[i] /\ fifo'[i] \in Task
      BY <2>1, <2>2, <2>4, <2>5, <2>6, <2>7
    <2>9. fifo' \in Seq(Task) /\ Len(fifo') = n + 1
      BY <2>1, <2>4, <2>8
    <2> QED
      BY <2>6, <2>8, <2>9, SeqEqual
  <1>5. state' = state
    BY <1>1 DEF state
  <1> QED
    BY <1>1, <1>2, <1>3, <1>4, <1>5, MayPostMaps DEF Base!PostTask

LEMMA PostDelayedTaskMaps ==
    ASSUME Known, NEW p \in Poster, NEW t \in Task, NEW ms \in Delay,
           PostDelayedTask(p, t, ms)
    PROVE  Base!CallPostDelayedTask(t, ms)
  <1>1. /\ MayPost(p) /\ Fresh(t) /\ ptask' = [ptask EXCEPT ![p] = t]
        /\ due' = [due EXCEPT ![t] = now + ms] /\ ppc[p] = "idle"
        /\ UNCHANGED <<now, opc, pending_queue_, delayed_queue_, rank, started, run_task_>>
    BY DEF PostDelayedTask, worker, queue
  <1>2. phase[t] = "new"
    BY <1>1, FreshIsNew DEF phase
  <1>3. phase' = [phase EXCEPT ![t] = "called"]
    <2>1. ptask[p] = NoTask /\ ptask'[p] = t
      BY <1>1 DEF Known, LifeInv, TypeOK
    <2>2. \A q \in Poster : q # p => ptask'[q] = ptask[q]
      BY <1>1 DEF Known, TypeOK
    <2>3. \A u \in Task : (\E q \in Poster : ptask'[q] = u)
                          <=> (\E q \in Poster : ptask[q] = u) \/ u = t
      BY <2>1, <2>2, NoTaskAssumption
    <2>4. \A u \in Task : Waiting(u)' <=> Waiting(u)
      BY <1>1 DEF Waiting
    <2>5. rank[t] = NotPosted
      BY <1>1 DEF Fresh
    <2>6. \A u \in Task : PhaseOf(u)' = IF u = t THEN "called" ELSE PhaseOf(u)
      BY <1>1, <2>3, <2>4, <2>5, FreshIsNew DEF PhaseOf
    <2> QED
      BY <2>6, PhaseChanges
  <1>4. fifo' = fifo /\ state' = state
    BY <1>1 DEF fifo, state
  <1> QED
    BY <1>1, <1>2, <1>3, <1>4, MayPostMaps DEF Base!CallPostDelayedTask

LEMMA InsertDelayedMaps ==
    ASSUME Known, NEW p \in Poster, InsertDelayed(p)
    PROVE  ptask[p] \in Task /\ Base!PostDelayedTask(ptask[p])
  <1> DEFINE t == ptask[p]
  <1>1. /\ t \in Task /\ rank[t] = NotPosted /\ posts \in Nat
        /\ rank' = [rank EXCEPT ![t] = posts]
        /\ ptask' = [ptask EXCEPT ![p] = NoTask]
        /\ UNCHANGED <<now, opc, due, pending_queue_, started, run_task_>>
    BY NoTaskAssumption
    DEF InsertDelayed, Posted, worker, Known, TypeOK, OrderInv, RankInv
  <1>2. t \notin started /\ ~Waiting(t)
    BY <1>1, WaitingFacts DEF Known, TaskInv, PlaceInv
  <1>3. run_task_ # t
    BY <1>1, <1>2, NoTaskAssumption DEF Known, TaskInv, PlaceInv
  <1>4. phase[t] = "called"
    BY <1>1, <1>2, <1>3 DEF phase, PhaseOf
  <1>5. phase' = [phase EXCEPT ![t] = "queued"]
    <2>1. \A u \in Task : u # t =>
              ((\E q \in Poster : ptask'[q] = u) <=> (\E q \in Poster : ptask[q] = u))
      <3>1. ptask'[p] = NoTask /\ \A q \in Poster : q # p => ptask'[q] = ptask[q]
        BY <1>1 DEF Known, TypeOK
      <3> QED
        BY <3>1, NoTaskAssumption
    <2>2. \A u \in Task : u # t => rank'[u] = rank[u]
      BY <1>1 DEF Known, TypeOK
    <2>3. \A u \in Task : PhaseOf(u)' = IF u = t THEN "queued" ELSE PhaseOf(u)
      BY <1>1, <1>2, <1>3, <2>1, <2>2, WaitingAfterInsert DEF PhaseOf
    <2> HIDE DEF t
    <2> QED
      BY <1>1, <2>3, PhaseChanges
  <1>6. fifo' = fifo /\ state' = state
    BY <1>1 DEF fifo, state
  <1> QED
    BY <1>1, <1>4, <1>5, <1>6 DEF Base!PostDelayedTask

\* A task that waits starts: its phase, and that nothing else runs.
LEMMA StartMaps ==
    ASSUME Known, NEW t \in Task, Waiting(t), wpc = "lock", Starts(t),
           \A u \in Task : Waiting(u)' <=> Waiting(u) /\ u # t
    PROVE  /\ phase[t] = "queued" /\ phase' = [phase EXCEPT ![t] = "running"]
           /\ ~Base!Busy /\ state # "deleted"
           /\ UNCHANGED <<now, due, state>>
  <1>1. /\ run_task_' = t /\ started' = started \cup {t}
        /\ UNCHANGED <<now, due, opc, ptask, rank>>
    BY DEF Starts, calls
  <1>2. t \notin started /\ rank[t] # NotPosted
    BY WaitingFacts
  <1>3. run_task_ = NoTask /\ opc # "deleted" /\ ~Base!Busy
    BY RunningIsBusy DEF Known, LifeInv
  <1>4. phase[t] = "queued"
    BY <1>2, <1>3, NoTaskAssumption DEF phase, PhaseOf
  <1>5. \A u \in Task : PhaseOf(u)' = IF u = t THEN "running" ELSE PhaseOf(u)
    BY <1>1, <1>3, NoTaskAssumption DEF PhaseOf
  <1>6. state' = state /\ state # "deleted"
    BY <1>1, <1>3 DEF state, Known, TypeOK
  <1> QED
    BY <1>1, <1>3, <1>4, <1>5, <1>6, PhaseChanges

LEMMA GetPendingMaps ==
    ASSUME Known, GetPending
    PROVE  Base!StartImmediate
  <1> DEFINE h == Head(pending_queue_).task
             n == Len(pending_queue_)
  <1>0. TypeOK
    BY DEF Known
  <1>1. /\ phase' = [phase EXCEPT ![h] = "running"] /\ ~Base!Busy /\ state # "deleted"
        /\ UNCHANGED <<now, due, state>>
    BY WaitingAfterGetPending, StartMaps DEF GetPending
  <1>2. /\ n \in Nat \ {0} /\ Len(pending_queue_') = n - 1
        /\ \A i \in 1..(n - 1) : pending_queue_'[i] = pending_queue_[i + 1]
        /\ h = pending_queue_[1].task
    BY <1>0, PendingTaken, Zenon
  <1>3. \A i \in 1..n : pending_queue_[i].task \in Task
    BY <1>0, EntryTypes
  <1>4. fifo \in Seq(Task) /\ Len(fifo) = n /\ \A i \in 1..n : fifo[i] = pending_queue_[i].task
    BY <1>2, <1>3 DEF fifo
  <1>5. fifo' = [i \in 1..(n - 1) |-> pending_queue_[i + 1].task]
    BY <1>2 DEF fifo
  <1> HIDE DEF h, n
  <1>6. fifo # <<>> /\ Head(fifo) = fifo[1]
    BY <1>2, <1>4
  <1>7. Head(fifo) = h
    BY <1>2, <1>4, <1>6
  <1>8. /\ Tail(fifo) \in Seq(Task) /\ Len(Tail(fifo)) = n - 1
        /\ \A i \in 1..(n - 1) : Tail(fifo)[i] = fifo[i + 1]
    BY <1>4, <1>6, HeadTailProperties
  <1>9. \A i \in 1..(n - 1) : i + 1 \in 1..n
    BY <1>2
  <1>10. fifo' = Tail(fifo)
    <2>1. \A i \in 1..(n - 1) : fifo'[i] = Tail(fifo)[i] /\ fifo'[i] \in Task
      BY <1>3, <1>4, <1>5, <1>8, <1>9
    <2>2. fifo' \in Seq(Task) /\ Len(fifo') = n - 1
      BY <1>2, <1>5, <2>1
    <2> QED
      BY <1>8, <2>1, <2>2, SeqEqual
  <1> QED
    BY <1>1, <1>6, <1>7, <1>10 DEF Base!StartImmediate

LEMMA GetDelayedMaps ==
    ASSUME Known, NEW d \in delayed_queue_, GetDelayed(d)
    PROVE  d.task \in Task /\ Base!StartDelayed(d.task)
  <1>1. /\ d.task \in Task /\ phase[d.task] = "queued"
        /\ phase' = [phase EXCEPT ![d.task] = "running"]
        /\ ~Base!Busy /\ state # "deleted" /\ UNCHANGED <<now, due, state>>
    BY WaitingAfterGetDelayed, StartMaps DEF GetDelayed
  <1>2. due[d.task] = d.fire_at /\ d.fire_at \in Nat /\ d.fire_at <= tick /\ tick <= now
    BY DEF GetDelayed, DueFront, Known, TypeOK, LifeInv, TaskInv, DueInv
  <1>3. tick \in Nat /\ now \in Nat
    BY DEF Known, TypeOK
  <1>4. due[d.task] # Base!Immediate /\ due[d.task] <= now
    BY <1>2, <1>3 DEF Base!Immediate
  <1>5. fifo' = fifo
    BY DEF GetDelayed, fifo
  <1> QED
    BY <1>1, <1>4, <1>5 DEF Base!StartDelayed

LEMMA TaskReturnsMaps ==
    ASSUME Known, TaskReturns
    PROVE  run_task_ \in Task /\ Base!Finish(run_task_)
  <1>1. /\ run_task_ \in Task /\ run_task_ \in started /\ run_task_' = NoTask
        /\ UNCHANGED <<now, due, opc, started, rank, ptask, pending_queue_, delayed_queue_>>
    BY DEF TaskReturns, queue, calls, history, Known, TypeOK, LifeInv, TaskInv, PlaceInv
  <1>2. phase[run_task_] = "running"
    BY <1>1 DEF phase, PhaseOf
  <1>3. \A u \in Task : Waiting(u)' <=> Waiting(u)
    BY <1>1 DEF Waiting
  <1>4. \A u \in Task : PhaseOf(u)' = IF u = run_task_ THEN "done" ELSE PhaseOf(u)
    BY <1>1, <1>3, NoTaskAssumption DEF PhaseOf
  <1>5. phase' = [phase EXCEPT ![run_task_] = "done"]
    BY <1>1, <1>4, PhaseChanges
  <1>6. fifo' = fifo /\ state' = state
    BY <1>1 DEF fifo, state
  <1> QED
    BY <1>1, <1>2, <1>5, <1>6 DEF Base!Finish

LEMMA DeleteJoinsMaps ==
    ASSUME Known, DeleteJoins
    PROVE  Base!DeleteReturns
  <1>1. /\ opc = "joining" /\ opc' = "deleted" /\ wpc = "exited"
        /\ pending_queue_' = <<>> /\ delayed_queue_' = {}
        /\ UNCHANGED <<now, due, started, rank, ptask, run_task_>>
    BY DEF DeleteJoins, OwnerGoes, worker, calls, history
  <1>2. state = "deleting" /\ state' = "deleted"
    BY <1>1 DEF state
  <1>3. ~Base!Busy /\ run_task_ = NoTask
    BY <1>1, RunningIsBusy DEF Known, LifeInv
  <1>4. \A p \in Poster : ptask[p] = NoTask
    <2>1. \A p \in Client : ppc[p] = "idle"
      BY <1>1 DEF Known, LifeInv
    <2>2. ppc[Worker] = "idle"
      BY <1>1 DEF Known, LifeInv
    <2> QED
      BY <2>1, <2>2 DEF Known, LifeInv, Poster
  <1>5. \A t \in Task : phase[t] # "called"
    BY <1>4, NoTaskAssumption DEF phase, PhaseOf
  <1>6. \A t \in Task : ~Waiting(t)'
    BY <1>1 DEF Waiting
  <1>7. \A t \in Task : Waiting(t) => rank[t] # NotPosted /\ t \notin started
    BY WaitingFacts
  <1>8. \A t \in Task :
            PhaseOf(t)' = IF PhaseOf(t) = "queued" THEN "dropped" ELSE PhaseOf(t)
    BY <1>1, <1>3, <1>6, <1>7, NoTaskAssumption DEF PhaseOf
  <1>9. phase' = [t \in Task |-> IF phase[t] = "queued" THEN "dropped" ELSE phase[t]]
    BY <1>8 DEF phase
  <1>10. fifo' = <<>>
    BY <1>1 DEF fifo
  <1> QED
    BY <1>1, <1>2, <1>3, <1>5, <1>9, <1>10 DEF Base!DeleteReturns

\* Every behaviour of the queue is one that the API allows
\* (ImplementsTaskQueueBase): FIFO order, no overlap, no early start, nothing after
\* Delete.
THEOREM RefinesTaskQueueBase == Spec => ImplementsTaskQueueBase
  <1>1. Init => Base!Init
    <2> SUFFICES ASSUME Init PROVE Base!Init
      OBVIOUS
    <2>1. \A t \in Task : PhaseOf(t) = "new"
      BY NoTaskAssumption DEF Init, PhaseOf, Waiting
    <2>2. phase = [t \in Task |-> "new"]
      BY <2>1 DEF phase
    <2>3. fifo = <<>> /\ state = "live"
      BY DEF Init, fifo, state
    <2> QED
      BY <2>2, <2>3 DEF Init, Base!Init, Immediate, Base!Immediate
  <1>2. Known /\ [Next]_vars => [Base!Next]_(Base!vars)
    <2> SUFFICES ASSUME Known, [Next]_vars
                 PROVE  Base!Next \/ UNCHANGED <<now, phase, due, fifo, state>>
      BY DEF Base!vars
    <2>1. ASSUME UNCHANGED <<run_task_, started, rank, ptask, pending_queue_,
                             delayed_queue_, now, due>>,
                 state' = state
          PROVE  UNCHANGED <<now, phase, due, fifo, state>>
      BY <2>1, PhaseStays
    <2>2. CASE WorkerStarts \/ ReadTick \/ GetFinal \/ GetNothing \/ EnterWait
               \/ WaitSignalled \/ WaitTimesOut \/ WorkerStops \/ ThreadMainReturns
               \/ (\E p \in Poster : NotifyWake(p)) \/ UNCHANGED vars
      <3>1. UNCHANGED <<queue, now, run_task_, ptask, opc, history>>
        BY <2>2 DEF WorkerStarts, ReadTick, GetFinal, GetNothing, EnterWait,
           WaitSignalled, WaitTimesOut, WorkerStops, ThreadMainReturns, NotifyWake, vars,
           worker, calls
      <3> QED
        BY <2>1, <3>1 DEF queue, history, state
    <2>3. CASE Constructed \/ DeleteNotifies \/ DeleteSeesStopped
      <3>1. UNCHANGED <<queue, now, run_task_, ptask, history>>
        BY <2>3 DEF Constructed, DeleteNotifies, DeleteSeesStopped, OwnerGoes, worker,
           calls, queue
      <3>2. state' = state
        BY <2>3 DEF Constructed, DeleteNotifies, DeleteSeesStopped, OwnerGoes, state
      <3> QED
        BY <2>1, <3>1, <3>2 DEF queue, history
    <2>4. CASE DeleteSetsQuit
      <3>1. /\ opc = "live" /\ opc' = "quit"
            /\ UNCHANGED <<run_task_, started, rank, ptask, pending_queue_,
                           delayed_queue_, now, due>>
        BY <2>4 DEF DeleteSetsQuit, OwnerGoes, worker, calls, history
      <3>2. state = "live" /\ state' = "deleting"
        BY <3>1 DEF state
      <3>3. Base!Delete
        BY <3>1, <3>2, PhaseStays DEF Base!Delete
      <3> QED
        BY <3>3 DEF Base!Next
    <2>5. CASE Tick
      <3>1. /\ now < MaxTime /\ now' = now + 1
            /\ UNCHANGED <<run_task_, started, rank, ptask, pending_queue_,
                           delayed_queue_, due, opc>>
        BY <2>5 DEF Tick, queue, worker, calls, history
      <3>2. Base!Tick
        BY <3>1, PhaseStays DEF Base!Tick, state
      <3> QED
        BY <3>2 DEF Base!Next
    <2>6. ASSUME NEW p \in Poster, NEW t \in Task, PostTask(p, t) PROVE Base!Next
      BY <2>6, PostTaskMaps DEF Base!Next
    <2>7. ASSUME NEW p \in Poster, NEW t \in Task, NEW ms \in Delay,
                 PostDelayedTask(p, t, ms)
          PROVE  Base!Next
      BY <2>7, PostDelayedTaskMaps DEF Base!Next
    <2>8. ASSUME NEW p \in Poster, InsertDelayed(p) PROVE Base!Next
      BY <2>8, InsertDelayedMaps DEF Base!Next
    <2>9. CASE GetPending
      BY <2>9, GetPendingMaps DEF Base!Next
    <2>10. ASSUME NEW d \in delayed_queue_, GetDelayed(d) PROVE Base!Next
      BY <2>10, GetDelayedMaps DEF Base!Next
    <2>11. CASE TaskReturns
      BY <2>11, TaskReturnsMaps DEF Base!Next
    <2>12. CASE DeleteJoins
      BY <2>12, DeleteJoinsMaps DEF Base!Next
    <2> QED
      BY <2>2, <2>3, <2>4, <2>5, <2>6, <2>7, <2>8, <2>9, <2>10, <2>11, <2>12
      DEF Next, WorkerStep, GetNextTask, PostBegins, PostContinues, OwnerContinues,
          Terminated
  <1> QED
    BY <1>1, <1>2, KnownInvariant, PTL DEF Spec, ImplementsTaskQueueBase, Base!Spec
=============================================================================
