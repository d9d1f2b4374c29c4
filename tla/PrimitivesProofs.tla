--------------------------- MODULE PrimitivesProofs ---------------------------
(***************************************************************************)
(* Proofs about the two synchronisation primitives of rtc_base.            *)
(*                                                                         *)
(* ThreadHandle: Stop leaves no thread behind and loses no wake-up, for any   *)
(* number of starts and with or without concurrent callers of Suspend and  *)
(* WakeUp.  SwapQueue: the two sides never meet in a slot and the ring is  *)
(* a bounded FIFO, for any size and any number of items.                   *)
(***************************************************************************)
EXTENDS ThreadHandle, SwapQueue, SequenceTheorems, TLAPS

-----------------------------------------------------------------------------
(* ThreadHandle: one thread, and none after Stop.                          *)

\* How the status, the handle and the owner's position fit together.
HandleInv ==
    /\ TypeOK
    /\ \A t \in Thread : ~Exited(t) => t = thread_
    /\ status_ = "kStop" => thread_ = 0
    /\ opc \in {"create", "joined"} => thread_ = 0
    /\ opc = "create" => created < MaxStarts /\ status_ = "kPrepareStart"
    /\ opc = "join" => thread_ # 0
    /\ status_ = "kPrepareStart" => opc \in {"create", "started"}
    /\ status_ = "kPrepareStop" => opc \in {"join", "joined"}
    /\ opc = "started" => status_ = "kPrepareStart"
    /\ opc \in {"join", "joined"} => status_ \in {"kPrepareStop", "kStop"}

\* The part of HandleInv that is the property.
LEMMA HandleInvSuffices ==
    HandleInv => StoppedMeansExited /\ OneThread
  BY DEF HandleInv, StoppedMeansExited, OneThread, Thread

\* notify_one moves a thread from one place inside Run to another.
LEMMA WakeUpBodyFacts ==
    ASSUME TypeOK, WakeUpBody
    PROVE  /\ wpc' \in [Thread -> {"none", "begin", "check", "lock", "parked",
                                   "woken", "poll", "handle", "exited", "refused"}]
           /\ \A t \in Thread : Exited(t)' <=> Exited(t)
           /\ status_' \in Status
           /\ status_' # status_ => status_' = "kRunning" /\ Suspended
  BY DEF WakeUpBody, NotifyOne, TypeOK, Exited, Suspended, Status

\* One step of a thread keeps the invariant: it moves wpc[t] only.
LEMMA GoesKeepsInv ==
    ASSUME HandleInv, NEW t \in Thread,
           NEW from \in {"begin", "check", "lock", "parked", "woken", "poll", "handle"},
           NEW to \in {"check", "lock", "parked", "poll", "handle", "exited", "refused"},
           Goes(t, from, to)
    PROVE  HandleInv'
  <1>1. TypeOK'
    BY DEF HandleInv, Goes, TypeOK
  <1>2. \A u \in Thread : ~Exited(u)' => u = thread_
    BY DEF HandleInv, Goes, TypeOK, Exited
  <1>3. QED
    BY <1>1, <1>2 DEF HandleInv, Goes, Suspended

\* Every step of the thread keeps the invariant.
LEMMA RunStepKeepsInv ==
    ASSUME HandleInv, NEW t \in Thread, RunStep(t) \/ SpuriousWakeup(t)
    PROVE  HandleInv'
  <1>1. CASE RunBegins(t)
    BY <1>1, GoesKeepsInv DEF RunBegins
  <1>2. CASE CheckStatus(t)
    BY <1>2, GoesKeepsInv DEF CheckStatus
  <1>3. CASE LockAndWait(t)
    BY <1>3, GoesKeepsInv DEF LockAndWait
  <1>4. CASE WaitReturns(t) \/ SpuriousWakeup(t)
    BY <1>4, GoesKeepsInv DEF WaitReturns, SpuriousWakeup
  <1>5. CASE Poll(t)
    BY <1>5, GoesKeepsInv DEF Poll
  <1>6. CASE HandleReturns(t)
    BY <1>6, GoesKeepsInv DEF HandleReturns
  <1>7. QED
    BY <1>1, <1>2, <1>3, <1>4, <1>5, <1>6 DEF RunStep

\* HandleInv is an invariant.
LEMMA HandleInvariant == Spec => []HandleInv
  <1>1. Init => HandleInv
    <2> SUFFICES ASSUME Init PROVE HandleInv
      OBVIOUS
    <2>1. TypeOK
      <3>1. 0 \in 0..MaxStarts
        BY MaxStartsAssumption
      <3>2. QED
        BY <3>1, OthersCallAssumption DEF Init, TypeOK, Status
    <2>2. \A t \in Thread : Exited(t)
      BY DEF Init, Exited
    <2>3. QED
      BY <2>1, <2>2 DEF Init, HandleInv
  <1>2. HandleInv /\ [Next]_vars => HandleInv'
    <2> SUFFICES ASSUME HandleInv, [Next]_vars PROVE HandleInv'
      OBVIOUS
    <2> USE DEF HandleInv
    <2>1. CASE Start
      BY <2>1 DEF Start, SetStatus, Accepts, TypeOK, Status, Exited, Suspended
    <2>2. CASE CreateThread
      <3>1. created + 1 \in Thread /\ created + 1 \in 0..MaxStarts
        BY <2>2, MaxStartsAssumption DEF CreateThread, TypeOK, Thread
      <3>2. \A t \in Thread : Exited(t)
        BY <2>2 DEF CreateThread, Thread
      <3>3. TypeOK'
        BY <2>2, <3>1 DEF CreateThread, TypeOK
      <3>4. \A t \in Thread : ~Exited(t)' => t = thread_'
        BY <2>2, <3>1, <3>2 DEF CreateThread, Exited, TypeOK
      <3>5. QED
        BY <2>2, <3>1, <3>3, <3>4, MaxStartsAssumption
        DEF CreateThread, Suspended, TypeOK
    <2>3. CASE StartReturns
      BY <2>3 DEF StartReturns, SetStatus, Accepts, TypeOK, Status, Exited, Suspended
    <2>4. CASE Stop
      BY <2>4, WakeUpBodyFacts DEF Stop, TypeOK, Suspended
    <2>5. CASE PrepareStop
      BY <2>5 DEF PrepareStop, SetStatus, Accepts, TypeOK, Status, Exited, Suspended
    <2>6. CASE Join
      <3>1. thread_ \in Thread
        BY <2>6 DEF Join, TypeOK, Thread
      <3>2. \A t \in Thread : Exited(t)
        BY <2>6, <3>1 DEF Join
      <3>3. QED
        BY <2>6, <3>2, MaxStartsAssumption DEF Join, TypeOK, Exited, Suspended
    <2>7. CASE StopReturns
      BY <2>7 DEF StopReturns, SetStatus, Accepts, TypeOK, Status, Exited, Suspended
    <2>8. CASE Destroy
      <3>1. CASE status_ = "kRunning"
        BY <2>8, <3>1, WakeUpBodyFacts DEF Destroy, TypeOK, Suspended
      <3>2. CASE status_ # "kRunning"
        BY <2>8, <3>2 DEF Destroy, TypeOK, Status, Exited, Suspended
      <3>3. QED
        BY <3>1, <3>2
    <2>9. CASE Suspend \/ SuspendForCondition
      BY <2>9 DEF Suspend, SuspendForCondition, MayCall, TypeOK, Status, Exited,
         Suspended
    <2>10. CASE WakeUp
      <3>1. TypeOK'
        BY <2>10, WakeUpBodyFacts DEF WakeUp, TypeOK
      <3>2. /\ UNCHANGED <<thread_, opc, created, destroying>>
            /\ \A t \in Thread : ~Exited(t)' => t = thread_'
        BY <2>10, WakeUpBodyFacts DEF WakeUp
      <3>3. status_' = status_ \/ (status_' = "kRunning" /\ Suspended)
        BY <2>10, WakeUpBodyFacts DEF WakeUp
      <3>4. QED
        BY <3>1, <3>2, <3>3 DEF Suspended
    <2>11. CASE ConditionChanges
      BY <2>11 DEF ConditionChanges, TypeOK, Exited, Suspended
    <2>12. ASSUME NEW t \in Thread, RunStep(t) \/ SpuriousWakeup(t)
           PROVE HandleInv'
      BY <2>12, RunStepKeepsInv
    <2>13. CASE UNCHANGED vars
      BY <2>13 DEF vars, TypeOK, Exited, Suspended
    <2>14. QED
      BY <2>1, <2>2, <2>3, <2>4, <2>5, <2>6, <2>7, <2>8, <2>9, <2>10, <2>11,
         <2>12, <2>13 DEF Next, OwnerContinues, Terminated
  <1>3. QED
    BY <1>1, <1>2, PTL DEF Spec

\* kStop means that the thread has exited and was joined.
THEOREM StopCorrect == Spec => []StoppedMeansExited
  BY HandleInvariant, HandleInvSuffices, PTL

\* Two threads never run the loop of one object.
THEOREM OneThreadCorrect == Spec => []OneThread
  BY HandleInvariant, HandleInvSuffices, PTL

-----------------------------------------------------------------------------
(* No lost wake-up.                                                        *)

\* A parked thread is one that the next WakeUp notifies.  With one caller
\* nobody suspends the object inside Start, Stop and the destructor.
ParkInv ==
    /\ \A t \in Thread : wpc[t] = "parked" => \/ status_ = "kWait"
                                              \/ others /\ status_ = "kPrepareStop"
    /\ Suspended => \/ opc \in {"idle", "destroyed"}
                    \/ others /\ opc = "woke"

\* notify_one leaves no thread of a suspended object parked, since at most one
\* is in Run.
LEMMA WakeUpBodyUnparks ==
    ASSUME HandleInv, ParkInv, WakeUpBody
    PROVE  /\ \A t \in Thread : wpc'[t] = "parked" => others /\ status_' = "kPrepareStop"
           /\ status_' \notin {"kWait", "kWaitForCondition"}
  <1>1. \A t \in Thread : wpc[t] = "parked" => t = thread_
    BY DEF HandleInv, Exited
  <1>2. CASE Suspended
    <2>1. status_' = "kRunning" /\ NotifyOne
      BY <1>2 DEF WakeUpBody
    <2>2. CASE \A t \in Thread : wpc[t] # "parked"
      BY <2>1, <2>2 DEF NotifyOne
    <2>3. CASE \E t \in Thread : wpc[t] = "parked"
      <3>1. PICK t \in Thread : wpc[t] = "parked" /\ wpc' = [wpc EXCEPT ![t] = "woken"]
        BY <2>1, <2>3 DEF NotifyOne
      <3>2. ASSUME NEW u \in Thread PROVE wpc'[u] # "parked"
        BY <1>1, <3>1 DEF HandleInv, TypeOK
      <3>3. QED
        BY <2>1, <3>2
    <2>4. QED
      BY <2>2, <2>3
  <1>3. CASE ~Suspended
    BY <1>3 DEF WakeUpBody, Suspended, ParkInv
  <1>4. QED
    BY <1>2, <1>3

\* A step of a thread that parks it only in kWait keeps ParkInv.
LEMMA GoesKeepsPark ==
    ASSUME HandleInv, ParkInv, NEW t \in Thread, NEW from, NEW to,
           Goes(t, from, to), to = "parked" => status_ = "kWait"
    PROVE  ParkInv'
  BY DEF Goes, ParkInv, Suspended, HandleInv, TypeOK

\* Only LockAndWait parks a thread.
LEMMA RunStepKeepsPark ==
    ASSUME HandleInv, ParkInv, NEW t \in Thread, RunStep(t) \/ SpuriousWakeup(t)
    PROVE  ParkInv'
  <1>1. CASE RunBegins(t)
    BY <1>1, GoesKeepsPark DEF RunBegins
  <1>2. CASE CheckStatus(t)
    BY <1>2, GoesKeepsPark DEF CheckStatus
  <1>3. CASE LockAndWait(t)
    BY <1>3, GoesKeepsPark DEF LockAndWait
  <1>4. CASE WaitReturns(t) \/ SpuriousWakeup(t)
    BY <1>4, GoesKeepsPark DEF WaitReturns, SpuriousWakeup
  <1>5. CASE Poll(t)
    BY <1>5, GoesKeepsPark DEF Poll
  <1>6. CASE HandleReturns(t)
    BY <1>6, GoesKeepsPark DEF HandleReturns
  <1>7. QED
    BY <1>1, <1>2, <1>3, <1>4, <1>5, <1>6 DEF RunStep

\* ParkInv is preserved by every step.
LEMMA NextKeepsPark ==
    ASSUME HandleInv, ParkInv, [Next]_vars
    PROVE  ParkInv'
  <1> USE DEF ParkInv, Suspended
  <1>1. CASE Start
    BY <1>1 DEF Start, SetStatus, Accepts
  <1>2. CASE CreateThread
    <2>1. created + 1 \in Thread
      BY <1>2, MaxStartsAssumption DEF CreateThread, HandleInv, TypeOK, Thread
    <2>2. QED
      BY <1>2, <2>1 DEF CreateThread, HandleInv, TypeOK
  <1>3. CASE StartReturns
    BY <1>3 DEF StartReturns, SetStatus, Accepts, HandleInv
  <1>4. CASE Stop
    BY <1>4, WakeUpBodyUnparks DEF Stop
  <1>5. CASE PrepareStop
    BY <1>5 DEF PrepareStop, SetStatus, Accepts
  <1>6. CASE Join
    BY <1>6 DEF Join
  <1>7. CASE StopReturns
    <2>1. \A t \in Thread : wpc[t] # "parked"
      BY <1>7 DEF StopReturns, HandleInv, Exited, Thread
    <2>2. QED
      BY <1>7, <2>1 DEF StopReturns, SetStatus, Accepts, HandleInv
  <1>8. CASE Destroy
    <2>1. CASE status_ = "kRunning"
      BY <1>8, <2>1, WakeUpBodyUnparks DEF Destroy
    <2>2. CASE status_ # "kRunning"
      BY <1>8, <2>2 DEF Destroy
    <2>3. QED
      BY <2>1, <2>2
  <1>9. CASE Suspend \/ SuspendForCondition
    BY <1>9 DEF Suspend, SuspendForCondition, MayCall, HandleInv, TypeOK
  <1>10. CASE WakeUp
    BY <1>10, WakeUpBodyUnparks DEF WakeUp
  <1>11. CASE ConditionChanges \/ UNCHANGED vars
    BY <1>11 DEF ConditionChanges, vars
  <1>12. ASSUME NEW t \in Thread, RunStep(t) \/ SpuriousWakeup(t)
         PROVE ParkInv'
    BY <1>12, RunStepKeepsPark
  <1>13. QED
    BY <1>1, <1>2, <1>3, <1>4, <1>5, <1>6, <1>7, <1>8, <1>9, <1>10, <1>11,
       <1>12 DEF Next, OwnerContinues, Terminated

\* No wake-up of a suspended thread is lost, whoever suspends and wakes it,
\* except to a Suspend inside Stop.
THEOREM ParkedCorrect == Spec => []ParkedIsSuspended
  <1>1. Init => ParkInv
    BY DEF Init, ParkInv, Suspended
  <1>2. ParkInv => ParkedIsSuspended
    BY DEF ParkInv, ParkedIsSuspended
  <1>3. QED
    BY <1>1, <1>2, HandleInvariant, NextKeepsPark, PTL DEF Spec

-----------------------------------------------------------------------------
(* SwapQueue: the ring.                                                    *)

\* The two indices are num_elements_ apart, and what each side has seen in
\* num_elements_ stays true while it swaps: only the consumer decreases the
\* counter, only the producer increases it.
RingInv ==
    /\ SwapTypeOK
    /\ next_write_index_ = IF next_read_index_ + num_elements_ >= Size
                           THEN next_read_index_ + num_elements_ - Size
                           ELSE next_read_index_ + num_elements_
    /\ ppc \in {"swap", "publish"} => num_elements_ < Size
    /\ cpc \in {"swap", "release"} => num_elements_ > 0

\* RingInv is an invariant.
LEMMA RingInvariant == SwapSpec => []RingInv
  <1> USE SizeAssumption, MaxItemsAssumption
  <1>1. SwapInit => RingInv
    <2> SUFFICES ASSUME SwapInit PROVE RingInv
      OBVIOUS
    <2>1. queue_ \in [Slot -> Item \cup {Nothing}]
      BY DEF SwapInit
    <2>2. /\ 0 \in Slot /\ 0 \in 0..Size /\ 0 \in 0..MaxItems
          /\ ~(0 + 0 >= Size)
      BY DEF Slot
    <2>3. QED
      BY <2>1, <2>2 DEF SwapInit, RingInv, SwapTypeOK
  <1>2. RingInv /\ [SwapNext]_swapVars => RingInv'
    <2> SUFFICES ASSUME RingInv, [SwapNext]_swapVars PROVE RingInv'
      OBVIOUS
    <2> USE DEF RingInv, SwapTypeOK, producer, consumer
    <2>1. CASE Fill
      <3>1. offered + 1 \in Item /\ offered + 1 \in 0..MaxItems
        BY <2>1 DEF Fill, Item
      <3>2. QED
        BY <2>1, <3>1 DEF Fill
    <2>2. CASE Retry
      BY <2>2 DEF Retry
    <2>3. CASE InsertLoads
      <3>1. CASE InsertSeesFull
        BY <2>3, <3>1 DEF InsertLoads
      <3>2. CASE ~InsertSeesFull
        <4>1. num_elements_ < Size
          BY <3>2 DEF InsertSeesFull
        <4>2. QED
          BY <2>3, <3>2, <4>1 DEF InsertLoads
      <3>3. QED
        BY <3>1, <3>2
    <2>4. CASE InsertSwaps
      BY <2>4 DEF InsertSwaps
    <2>5. CASE InsertPublishes
      BY <2>5 DEF InsertPublishes, Advance, Slot
    <2>6. CASE RemoveLoads
      BY <2>6 DEF RemoveLoads
    <2>7. CASE RemoveSwaps
      BY <2>7 DEF RemoveSwaps
    <2>8. CASE RemoveReleases
      BY <2>8 DEF RemoveReleases, Advance, Slot
    <2>9. CASE Clear
      BY <2>9 DEF Clear, Slot
    <2>10. CASE UNCHANGED swapVars
      BY <2>10 DEF swapVars
    <2>11. QED
      BY <2>1, <2>2, <2>3, <2>4, <2>5, <2>6, <2>7, <2>8, <2>9, <2>10
      DEF SwapNext, ProducerStep, ConsumerStep
  <1>3. QED
    BY <1>1, <1>2, PTL DEF SwapSpec

\* The indices stay inside the ring and the counter within its size.
THEOREM SwapTypeCorrect == SwapSpec => []SwapTypeOK
  <1>1. RingInv => SwapTypeOK
    BY DEF RingInv
  <1>2. QED
    BY <1>1, RingInvariant, PTL

\* The producer and the consumer never swap with the same slot at once.
THEOREM SlotExclusiveCorrect == SwapSpec => []SlotExclusive
  <1>1. RingInv => SlotExclusive
    BY SizeAssumption DEF RingInv, SlotExclusive, SwapTypeOK, Slot
  <1>2. QED
    BY <1>1, RingInvariant, PTL

-----------------------------------------------------------------------------
(* Refinement: the ring implements BoundedFifo.  An Insert takes effect at *)
(* its fetch_add, a Remove at its fetch_sub, a failing call at its load.   *)

Val == Item \cup {Nothing}

\* What is in the slot that the producer has filled but not yet published.
PublishInv ==
    /\ RingInv
    /\ ppc \in {"insert", "swap"} => input \in Item
    /\ ppc = "publish" => queue_[next_write_index_] \in Item
    /\ ppc = "idle" /\ ~inserted => input \in Item

\* The elements as a sequence, and the slots that they occupy.
LEMMA ContentsFacts ==
    ASSUME RingInv
    PROVE  /\ contents \in Seq(Val)
           /\ Len(contents) = num_elements_
           /\ \A i \in 1..num_elements_ : SlotOf(i) \in Slot
           /\ \A i \in 1..num_elements_ :
                 num_elements_ < Size => SlotOf(i) # next_write_index_
           /\ \A i \in 1..num_elements_ : i # 1 => SlotOf(i) # next_read_index_
           /\ num_elements_ > 0 => SlotOf(1) = next_read_index_
  <1> USE SizeAssumption
  <1>1. \A i \in 1..num_elements_ :
            /\ SlotOf(i) \in Slot
            /\ num_elements_ < Size => SlotOf(i) # next_write_index_
            /\ i # 1 => SlotOf(i) # next_read_index_
    BY DEF RingInv, SwapTypeOK, SlotOf, Slot
  <1>2. num_elements_ > 0 => SlotOf(1) = next_read_index_
    BY DEF RingInv, SwapTypeOK, SlotOf, Slot
  <1>3. num_elements_ \in Nat
    BY DEF RingInv, SwapTypeOK
  <1>4. \A i \in 1..num_elements_ :
            (IF i = 1 /\ cpc = "release" THEN output ELSE queue_[SlotOf(i)]) \in Val
    BY <1>1 DEF RingInv, SwapTypeOK, Val
  <1>5. contents \in Seq(Val) /\ Len(contents) = num_elements_
    BY <1>3, <1>4 DEF contents
  <1>6. QED
    BY <1>1, <1>2, <1>5

\* PublishInv is an invariant.
LEMMA PublishInvariant == SwapSpec => []PublishInv
  <1> DEFINE Own == /\ ppc \in {"insert", "swap"} => input \in Item
                    /\ ppc = "publish" => queue_[next_write_index_] \in Item
                    /\ ppc = "idle" /\ ~inserted => input \in Item
  <1>1. SwapInit => Own
    BY DEF SwapInit
  <1>2. RingInv /\ Own /\ [SwapNext]_swapVars => Own'
    <2> SUFFICES ASSUME RingInv, Own, [SwapNext]_swapVars PROVE Own'
      OBVIOUS
    <2> USE DEF producer, consumer
    <2>1. CASE Fill
      <3>1. offered + 1 \in Item
        BY <2>1, MaxItemsAssumption DEF Fill, Item, RingInv, SwapTypeOK
      <3>2. QED
        BY <2>1, <3>1 DEF Fill
    <2>2. CASE Retry
      BY <2>2 DEF Retry
    <2>3. CASE InsertLoads
      <3>1. input \in Item /\ input' = input /\ ppc' \in {"idle", "swap"}
        BY <2>3 DEF InsertLoads
      <3>2. QED
        BY <3>1
    <2>4. CASE InsertSwaps
      BY <2>4 DEF InsertSwaps, RingInv, SwapTypeOK
    <2>5. CASE InsertPublishes
      BY <2>5 DEF InsertPublishes
    <2>6. CASE RemoveLoads \/ RemoveReleases \/ Clear
      BY <2>6 DEF RemoveLoads, RemoveReleases, Clear
    <2>7. CASE RemoveSwaps
      <3>1. ppc = "publish" => next_write_index_ # next_read_index_
        BY <2>7, SizeAssumption DEF RemoveSwaps, RingInv, SwapTypeOK, Slot
      <3>2. QED
        BY <2>7, <3>1 DEF RemoveSwaps, RingInv, SwapTypeOK
    <2>8. CASE UNCHANGED swapVars
      BY <2>8 DEF swapVars
    <2>9. QED
      BY <2>1, <2>2, <2>3, <2>4, <2>5, <2>6, <2>7, <2>8
      DEF SwapNext, ProducerStep, ConsumerStep
  <1>3. RingInv /\ Own <=> PublishInv
    BY DEF PublishInv
  <1>4. QED
    BY <1>1, <1>2, <1>3, RingInvariant, PTL DEF SwapSpec

\* Every behaviour of the ring is a behaviour of the bounded FIFO: what an
\* Insert publishes is what the Removes deliver, in order, once, and the calls
\* fail only when the FIFO is full or empty.
THEOREM RefinesBoundedFifo == SwapSpec => ImplementsBoundedFifo
  <1> USE SizeAssumption
  <1>1. SwapInit => Fifo!Init
    <2> SUFFICES ASSUME SwapInit PROVE Fifo!Init
      OBVIOUS
    <2>1. contents = <<>>
      BY DEF SwapInit, contents
    <2>2. QED
      BY <2>1 DEF SwapInit, Fifo!Init
  <1>2. PublishInv /\ PublishInv' /\ [SwapNext]_swapVars => [Fifo!Next]_(Fifo!vars)
    <2> SUFFICES ASSUME PublishInv, PublishInv', [SwapNext]_swapVars
                 PROVE  Fifo!Next \/ UNCHANGED <<contents, inserted, removed>>
      BY DEF Fifo!vars
    <2> USE DEF producer, consumer
    <2>0. RingInv /\ RingInv'
      BY DEF PublishInv
    <2>1. CASE Fill \/ Retry
      BY <2>1 DEF Fill, Retry, contents, SlotOf
    <2>2. CASE InsertLoads
      <3>1. contents' = contents
        BY <2>2 DEF InsertLoads, contents, SlotOf
      <3>2. CASE InsertSeesFull
        <4>1. Len(contents) = Size
          BY <2>0, <3>2, ContentsFacts DEF InsertSeesFull
        <4>2. Fifo!InsertFails
          BY <2>2, <3>1, <3>2, <4>1 DEF InsertLoads, Fifo!InsertFails
        <4>3. QED
          BY <4>2 DEF Fifo!Next
      <3>3. CASE ~InsertSeesFull
        BY <2>2, <3>1, <3>3 DEF InsertLoads
      <3>4. QED
        BY <3>2, <3>3
    <2>3. CASE InsertSwaps
      <3>1. \A i \in 1..num_elements_ :
                SlotOf(i) \in Slot /\ SlotOf(i) # next_write_index_
        BY <2>0, <2>3, ContentsFacts DEF InsertSwaps, RingInv
      <3>2. \A i \in 1..num_elements_ : queue_'[SlotOf(i)] = queue_[SlotOf(i)]
        BY <2>0, <2>3, <3>1 DEF InsertSwaps, RingInv, SwapTypeOK
      <3>3. contents' = contents
        BY <2>3, <3>2 DEF InsertSwaps, contents, SlotOf
      <3>4. QED
        BY <2>3, <3>3 DEF InsertSwaps
    <2>4. CASE InsertPublishes
      <3> DEFINE n == num_elements_
                 x == queue_[next_write_index_]
      <3>1. n \in Nat /\ n < Size /\ num_elements_' = n + 1
        BY <2>0, <2>4 DEF InsertPublishes, RingInv, SwapTypeOK
      <3>2. SlotOf(n + 1) = next_write_index_
        BY <2>0 DEF RingInv, SwapTypeOK, SlotOf, Slot
      <3>3. n + 1 = 1 => cpc # "release"
        BY <2>0 DEF RingInv, SwapTypeOK
      <3>4. /\ contents' = [i \in 1..(n + 1) |->
                  IF i = 1 /\ cpc = "release" THEN output ELSE queue_[SlotOf(i)]]
        BY <2>4, <3>1 DEF InsertPublishes, contents, SlotOf
      <3>5. contents' = Append(contents, x)
        BY <2>0, <3>1, <3>2, <3>3, <3>4, ContentsFacts DEF contents
      <3>6. Fifo!Insert(x)
        BY <2>0, <2>4, <3>1, <3>5, ContentsFacts DEF InsertPublishes, Fifo!Insert
      <3>7. x \in Item
        BY <2>4 DEF InsertPublishes, PublishInv
      <3>8. QED
        BY <3>6, <3>7 DEF Fifo!Next
    <2>5. CASE RemoveLoads
      <3>1. contents' = contents
        BY <2>5 DEF RemoveLoads, contents, SlotOf
      <3>2. CASE num_elements_ = 0
        <4>1. contents = <<>>
          BY <3>2 DEF contents
        <4>2. Fifo!RemoveFails
          BY <2>5, <3>1, <3>2, <4>1 DEF RemoveLoads, Fifo!RemoveFails
        <4>3. QED
          BY <4>2 DEF Fifo!Next
      <3>3. CASE num_elements_ # 0
        BY <2>5, <3>1, <3>3 DEF RemoveLoads
      <3>4. QED
        BY <3>2, <3>3
    <2>6. CASE RemoveSwaps
      <3>1. /\ num_elements_' = num_elements_ /\ next_read_index_' = next_read_index_
            /\ cpc = "swap" /\ cpc' = "release"
            /\ output' = queue_[next_read_index_]
            /\ queue_' = [queue_ EXCEPT ![next_read_index_] = output]
            /\ UNCHANGED <<inserted, removed>>
        BY <2>6 DEF RemoveSwaps
      <3>2. \A i \in 1..num_elements_ : i # 1 => queue_'[SlotOf(i)] = queue_[SlotOf(i)]
        BY <2>0, <3>1, ContentsFacts DEF RingInv, SwapTypeOK
      <3>3. SlotOf(1) = next_read_index_
        BY <2>0, <3>1, ContentsFacts DEF RingInv
      <3>4. contents' = contents
        BY <3>1, <3>2, <3>3 DEF contents, SlotOf
      <3>5. QED
        BY <3>1, <3>4
    <2>7. CASE RemoveReleases
      <3> DEFINE n == num_elements_
      <3>1. /\ n \in Nat /\ n > 0 /\ num_elements_' = n - 1
            /\ cpc = "release" /\ cpc' = "idle" /\ queue_' = queue_
            /\ removed' = output /\ inserted' = inserted
            /\ next_read_index_' = Advance(next_read_index_)
        BY <2>0, <2>7 DEF RemoveReleases, RingInv, SwapTypeOK
      <3>2. contents # <<>> /\ Head(contents) = output
        BY <2>0, <3>1, ContentsFacts DEF contents
      <3>3. \A i \in 1..(n - 1) : SlotOf(i)' = SlotOf(i + 1)
        BY <2>0, <3>1 DEF RingInv, SwapTypeOK, SlotOf, Slot, Advance
      <3>4. contents' = [i \in 1..(n - 1) |-> queue_[SlotOf(i + 1)]]
        BY <3>1, <3>3 DEF contents
      <3>5. contents' = Tail(contents)
        BY <2>0, <3>1, <3>4, ContentsFacts DEF contents
      <3>6. Fifo!Remove
        BY <3>1, <3>2, <3>5 DEF Fifo!Remove
      <3>7. QED
        BY <3>6 DEF Fifo!Next
    <2>8. CASE Clear
      <3>1. contents' = <<>>
        BY <2>8 DEF Clear, contents
      <3>2. QED
        BY <2>8, <3>1 DEF Clear, Fifo!Next, Fifo!Clear
    <2>9. CASE UNCHANGED swapVars
      BY <2>9 DEF swapVars, contents, SlotOf
    <2>10. QED
      BY <2>1, <2>2, <2>3, <2>4, <2>5, <2>6, <2>7, <2>8, <2>9
      DEF SwapNext, ProducerStep, ConsumerStep
  <1>3. QED
    BY <1>1, <1>2, PublishInvariant, PTL DEF SwapSpec, ImplementsBoundedFifo, Fifo!Spec
=============================================================================
