----------------------- MODULE TaskQueueLibeventProofs -----------------------
(***************************************************************************)
(* Proofs about TaskQueueLibevent for any tasks, posting threads, delays   *)
(* and pipe capacity of at least two bytes.                                *)
(***************************************************************************)
EXTENDS TaskQueueLibevent, SequenceTheorems, TLAPS

Run == "kRunTasks"
Quit == "kQuit"

\* All that the pipe can ever hold.
PipeContents == {<<>>, <<Run>>, <<Quit>>, <<Run, Quit>>, <<Quit, Run>>}

RunIn(s) == s \in {<<Run>>, <<Run, Quit>>, <<Quit, Run>>}
QuitIn(s) == s \in {<<Quit>>, <<Run, Quit>>, <<Quit, Run>>}

NobodyWrites == \A p \in Poster : ppc[p] # "write"
OneWrites == \E p \in Poster : /\ ppc[p] = "write"
                               /\ \A q \in Poster : ppc[q] = "write" => q = p

\* Where the one wake is while tasks are pending.
WakeInv ==
    \/ /\ pending_ = <<>>
       /\ ~RunIn(pipe) /\ NobodyWrites /\ wpc # "woken"
    \/ /\ pending_ # <<>>
       /\ \/ RunIn(pipe) /\ NobodyWrites /\ wpc # "woken"
          \/ ~RunIn(pipe) /\ OneWrites /\ wpc # "woken"
          \/ ~RunIn(pipe) /\ NobodyWrites /\ wpc = "woken"

\* kQuit is in the pipe only between the two steps of Delete.
QuitInv == QuitIn(pipe) => opc \in {"joining", "deleted"}

\* Who can still be inside a call.
LifeInv ==
    /\ run_task_ # NoTask => wpc \in {"run", "timer"}
    /\ wpc \notin {"run", "timer"} => ppc[Worker] = "idle"
    /\ opc # "live" => \A p \in Client : ppc[p] = "idle"
    /\ opc = "deleted" => wpc = "exited"

BasicType ==
    /\ wpc \in {"loop", "woken", "batch", "run", "timer", "exited"}
    /\ ppc \in [Poster -> {"idle", "write", "push", "add"}]
    /\ opc \in {"live", "writing", "joining", "deleted"}
    /\ pending_ \in Seq(Entry)

Inv == /\ BasicType
       /\ pipe \in PipeContents
       /\ WakeInv
       /\ QuitInv
       /\ LifeInv

-----------------------------------------------------------------------------
\* Sequences of one and two bytes.
LEMMA AppendToOne ==
    ASSUME NEW S, NEW a \in S, NEW b \in S
    PROVE  Append(<<a>>, b) = <<a, b>>
  <1> DEFINE s == Append(<<a>>, b)
  <1>1. /\ <<a>> \in Seq(S) /\ <<a, b>> \in Seq(S)
        /\ Len(<<a>>) = 1 /\ Len(<<a, b>>) = 2
    OBVIOUS
  <1>2. s \in Seq(S) /\ Len(s) = 2
    BY <1>1, AppendProperties
  <1>3. s[1] = a /\ s[2] = b
    BY <1>1, AppendProperties
  <1>4. \A i \in 1 .. 2 : s[i] = <<a, b>>[i]
    BY <1>3
  <1> HIDE DEF s
  <1>5. s = <<a, b>>
    BY <1>1, <1>2, <1>4, SeqEqual
  <1> QED
    BY <1>5 DEF s

LEMMA TailOfTwo ==
    ASSUME NEW S, NEW a \in S, NEW b \in S
    PROVE  Tail(<<a, b>>) = <<b>>
  <1>1. /\ <<b>> \in Seq(S) /\ <<a, b>> \in Seq(S)
        /\ Len(<<b>>) = 1 /\ Len(<<a, b>>) = 2
    OBVIOUS
  <1>2. Tail(<<a, b>>) \in Seq(S) /\ Len(Tail(<<a, b>>)) = 1
    BY <1>1, HeadTailProperties
  <1>3. Tail(<<a, b>>)[1] = b
    BY <1>1, HeadTailProperties
  <1> QED
    BY <1>1, <1>2, <1>3, SeqEqual

\* The contents of the pipe are five different sequences.
LEMMA PipeDistinct ==
    /\ <<Run>> # <<>> /\ <<Quit>> # <<>>
    /\ <<Run, Quit>> # <<>> /\ <<Quit, Run>> # <<>>
    /\ <<Run>> # <<Quit>> /\ <<Run, Quit>> # <<Quit, Run>>
    /\ <<Run>> # <<Run, Quit>> /\ <<Run>> # <<Quit, Run>>
    /\ <<Quit>> # <<Run, Quit>> /\ <<Quit>> # <<Quit, Run>>
    /\ Run # Quit
  BY DEF Run, Quit

LEMMA PipeEquations ==
    /\ Append(<<>>, Run) = <<Run>> /\ Append(<<>>, Quit) = <<Quit>>
    /\ Append(<<Quit>>, Run) = <<Quit, Run>>
    /\ Append(<<Run>>, Quit) = <<Run, Quit>>
    /\ Head(<<Run>>) = Run /\ Head(<<Run, Quit>>) = Run
    /\ Head(<<Quit>>) = Quit /\ Head(<<Quit, Run>>) = Quit
    /\ Tail(<<Run>>) = <<>> /\ Tail(<<Quit>>) = <<>>
    /\ Tail(<<Run, Quit>>) = <<Quit>> /\ Tail(<<Quit, Run>>) = <<Run>>
  <1>1. Run \in Byte /\ Quit \in Byte
    BY DEF Run, Quit, Byte
  <1>2. Append(<<>>, Run) = <<Run>> /\ Append(<<>>, Quit) = <<Quit>>
    OBVIOUS
  <1>3. /\ Append(<<Quit>>, Run) = <<Quit, Run>>
        /\ Append(<<Run>>, Quit) = <<Run, Quit>>
    BY <1>1, AppendToOne
  <1>4. /\ Head(<<Run>>) = Run /\ Head(<<Run, Quit>>) = Run
        /\ Head(<<Quit>>) = Quit /\ Head(<<Quit, Run>>) = Quit
    OBVIOUS
  <1>5. Tail(<<Run>>) = <<>> /\ Tail(<<Quit>>) = <<>>
    OBVIOUS
  <1>6. Tail(<<Run, Quit>>) = <<Quit>> /\ Tail(<<Quit, Run>>) = <<Run>>
    BY <1>1, TailOfTwo
  <1> QED
    BY <1>2, <1>3, <1>4, <1>5, <1>6

\* What a write() and a read() make of the contents of the pipe.
LEMMA PipeWritesRun ==
    ASSUME NEW s \in PipeContents, ~RunIn(s)
    PROVE  /\ Append(s, Run) \in PipeContents
           /\ RunIn(Append(s, Run))
           /\ QuitIn(Append(s, Run)) => QuitIn(s)
  <1>1. s = <<>> \/ s = <<Quit>>
    BY DEF PipeContents, RunIn
  <1> QED
    BY <1>1, PipeDistinct, PipeEquations, Zenon DEF PipeContents, RunIn, QuitIn

LEMMA PipeWritesQuit ==
    ASSUME NEW s \in PipeContents, ~QuitIn(s)
    PROVE  /\ Append(s, Quit) \in PipeContents
           /\ RunIn(Append(s, Quit)) <=> RunIn(s)
  <1>1. s = <<>> \/ s = <<Run>>
    BY DEF PipeContents, QuitIn
  <1> QED
    BY <1>1, PipeDistinct, PipeEquations, Zenon DEF PipeContents, RunIn, QuitIn

LEMMA PipeReads ==
    ASSUME NEW s \in PipeContents, s # <<>>
    PROVE  /\ Tail(s) \in PipeContents
           /\ QuitIn(Tail(s)) => QuitIn(s)
           /\ Head(s) = Quit => (RunIn(Tail(s)) <=> RunIn(s))
           /\ Head(s) # Quit => RunIn(s) /\ ~RunIn(Tail(s))
  <1> USE PipeDistinct, PipeEquations DEF PipeContents, RunIn, QuitIn
  <1>1. CASE s = <<Run>>
    BY <1>1, Zenon
  <1>2. CASE s = <<Quit>>
    BY <1>2, Zenon
  <1>3. CASE s = <<Run, Quit>>
    BY <1>3, Zenon
  <1>4. CASE s = <<Quit, Run>>
    BY <1>4, Zenon
  <1> QED
    BY <1>1, <1>2, <1>3, <1>4, Zenon

LEMMA EmptyPipe == <<>> \in PipeContents /\ ~RunIn(<<>>) /\ ~QuitIn(<<>>)
  BY DEF PipeContents, RunIn, QuitIn, Run, Quit

\* The pipe has room for everything that it can hold.
LEMMA PipeFits ==
    ASSUME NEW s \in PipeContents
    PROVE  s \in Seq(Byte) /\ Len(s) <= PipeCapacity
  <1>1. Run \in Byte /\ Quit \in Byte
    BY DEF Run, Quit, Byte
  <1>2. \A a, b \in Byte : /\ <<a, b>> \in Seq(Byte) /\ Len(<<a, b>>) = 2
                           /\ <<a>> \in Seq(Byte) /\ Len(<<a>>) = 1
    OBVIOUS
  <1>3. <<>> \in Seq(Byte) /\ Len(<<>>) = 0
    BY EmptySeq
  <1>4. /\ <<Run>> \in Seq(Byte) /\ Len(<<Run>>) = 1
        /\ <<Quit>> \in Seq(Byte) /\ Len(<<Quit>>) = 1
        /\ <<Run, Quit>> \in Seq(Byte) /\ Len(<<Run, Quit>>) = 2
        /\ <<Quit, Run>> \in Seq(Byte) /\ Len(<<Quit, Run>>) = 2
    BY <1>1, <1>2, Zenon
  <1>5. s \in Seq(Byte) /\ (Len(s) = 0 \/ Len(s) = 1 \/ Len(s) = 2)
    BY <1>3, <1>4, Zenon DEF PipeContents
  <1>6. 0 <= PipeCapacity /\ 1 <= PipeCapacity /\ 2 <= PipeCapacity
    BY ConstantsAssumption
  <1> QED
    BY <1>5, <1>6, Zenon

-----------------------------------------------------------------------------
LEMMA InvInit == Init => Inv
  BY EmptyPipe, WorkerAssumption
  DEF Init, Inv, BasicType, WakeInv, NobodyWrites, QuitInv, LifeInv, Poster

\* PostTask's critical section, and the write that may follow it.
LEMMA InvPush ==
    ASSUME Inv, NEW p \in Poster, NEW e \in Entry, Push(p, e),
           ppc[p] \in {"idle", "push"}, ppc[p] = "idle" => MayPost(p),
           UNCHANGED <<pipe, wpc, run_task_, opc>>
    PROVE  Inv'
  <1> USE DEF Inv
  <1>1. pending_' \in Seq(Entry) /\ pending_' # <<>>
    BY AppendProperties DEF Push, BasicType
  <1>2. BasicType'
    BY <1>1 DEF Push, BasicType
  <1>3. WakeInv'
    <2>1. CASE WritesByte
      <3>1. ~RunIn(pipe) /\ NobodyWrites /\ wpc # "woken"
        BY <2>1 DEF WakeInv, WritesByte
      <3>2. ppc' = [ppc EXCEPT ![p] = "write"]
        BY <2>1 DEF Push
      <3>3. OneWrites'
        BY <3>1, <3>2 DEF NobodyWrites, OneWrites, BasicType
      <3> QED
        BY <1>1, <3>1, <3>3 DEF WakeInv
    <2>2. CASE ~WritesByte
      <3>1. ppc' = [ppc EXCEPT ![p] = "idle"]
        BY <2>2 DEF Push
      <3>2. NobodyWrites => NobodyWrites'
        BY <3>1 DEF NobodyWrites, BasicType
      <3>3. OneWrites => OneWrites'
        BY <3>1 DEF OneWrites, BasicType
      <3> QED
        BY <1>1, <2>2, <3>2, <3>3 DEF WakeInv, WritesByte
    <2> QED
      BY <2>1, <2>2
  <1>4. LifeInv'
    BY WorkerAssumption DEF Push, LifeInv, MayPost, BasicType, Poster
  <1> QED
    BY <1>2, <1>3, <1>4 DEF QuitInv

LEMMA InvStep == Inv /\ TypeOK /\ [Next]_vars => Inv'
  <1> SUFFICES ASSUME Inv, TypeOK, [Next]_vars
               PROVE  Inv'
    OBVIOUS
  <1> USE DEF Inv
  <1>0. CASE UNCHANGED vars
    BY <1>0 DEF vars, calls, worker, history, BasicType, WakeInv, NobodyWrites,
                OneWrites, QuitInv, LifeInv
  <1>1. ASSUME NEW p \in Poster, NEW t \in Task, PostTask(p, t)
        PROVE  Inv'
    <2>1. [task |-> t, ms |-> Immediate, posted |-> 0] \in Entry
      BY DEF Entry
    <2> QED
      BY <1>1, <2>1, InvPush DEF PostTask, worker
  <1>2. ASSUME NEW p \in Poster, NEW t \in Task, NEW ms \in Delay,
               PostDelayedTask(p, t, ms)
        PROVE  Inv'
    <2>1. BasicType' /\ LifeInv'
      BY <1>2, WorkerAssumption
      DEF PostDelayedTask, BasicType, LifeInv, MayPost, Poster, worker
    <2>2. NobodyWrites => NobodyWrites'
      BY <1>2 DEF PostDelayedTask, NobodyWrites, BasicType
    <2>3. OneWrites => OneWrites'
      BY <1>2 DEF PostDelayedTask, OneWrites, BasicType
    <2> QED
      BY <1>2, <2>1, <2>2, <2>3 DEF PostDelayedTask, WakeInv, QuitInv, worker
  <1>3. ASSUME NEW p \in Poster, WriteByte(p)
        PROVE  Inv'
    <2>1. ~RunIn(pipe) /\ OneWrites /\ wpc # "woken" /\ pending_ # <<>>
      BY <1>3 DEF WriteByte, WakeInv, NobodyWrites
    <2>2. /\ pipe' \in PipeContents /\ RunIn(pipe')
          /\ QuitIn(pipe') => QuitIn(pipe)
      BY <1>3, <2>1, PipeWritesRun DEF WriteByte, Run
    <2>3. NobodyWrites'
      BY <1>3, <2>1 DEF WriteByte, OneWrites, NobodyWrites, BasicType
    <2>4. BasicType' /\ LifeInv'
      BY <1>3 DEF WriteByte, BasicType, LifeInv, Poster, worker
    <2> QED
      BY <1>3, <2>1, <2>2, <2>3, <2>4 DEF WriteByte, WakeInv, QuitInv, worker
  <1>4. ASSUME NEW p \in Poster, PushSetTimer(p)
        PROVE  Inv'
    <2>1. pentry[p] \in Entry
      BY <1>4 DEF PushSetTimer, TypeOK
    <2> QED
      BY <1>4, <2>1, InvPush DEF PushSetTimer, worker
  <1>5. CASE SetTimer
    <2>0. Worker \in Poster
      BY DEF Poster
    <2>1. BasicType' /\ LifeInv'
      BY <1>5, <2>0, WorkerAssumption DEF SetTimer, BasicType, LifeInv, Poster, worker
    <2>2. NobodyWrites => NobodyWrites'
      BY <1>5 DEF SetTimer, NobodyWrites, BasicType
    <2>3. OneWrites => OneWrites'
      BY <1>5 DEF SetTimer, OneWrites, BasicType
    <2> QED
      BY <1>5, <2>1, <2>2, <2>3 DEF SetTimer, WakeInv, QuitInv, worker
  <1>6. CASE ReadByte
    <2>0. UNCHANGED <<ppc, opc, pending_, run_task_>>
      BY <1>6 DEF ReadByte, WorkerUnchanged, calls
    <2>1. /\ pipe' \in PipeContents
          /\ QuitIn(pipe') => QuitIn(pipe)
          /\ Head(pipe) = Quit => (RunIn(pipe') <=> RunIn(pipe))
          /\ Head(pipe) # Quit => RunIn(pipe) /\ ~RunIn(pipe')
      BY <1>6, PipeReads DEF ReadByte
    <2>2. (NobodyWrites <=> NobodyWrites') /\ (OneWrites <=> OneWrites')
      BY <2>0 DEF NobodyWrites, OneWrites
    <2>3. CASE Head(pipe) = Quit
      <3>1. wpc' = wpc
        BY <1>6, <2>3 DEF ReadByte, Quit
      <3> QED
        BY <2>0, <2>1, <2>2, <2>3, <3>1 DEF BasicType, WakeInv, QuitInv, LifeInv
    <2>4. CASE Head(pipe) # Quit
      <3>1. wpc = "loop" /\ wpc' = "woken"
        BY <1>6, <2>4 DEF ReadByte, Quit
      <3>2. WakeInv'
        BY <2>0, <2>1, <2>2, <2>4, <3>1 DEF WakeInv
      <3> QED
        BY <2>0, <2>1, <3>1, <3>2 DEF BasicType, QuitInv, LifeInv
    <2> QED
      BY <2>3, <2>4
  <1>7. CASE SwapPending
    <2>0. /\ UNCHANGED <<ppc, opc, pipe, run_task_>>
          /\ wpc = "woken" /\ wpc' = "batch" /\ pending_' = <<>>
      BY <1>7 DEF SwapPending, WorkerUnchanged, calls
    <2>1. ~RunIn(pipe) /\ NobodyWrites
      BY <2>0 DEF WakeInv
    <2>2. WakeInv'
      BY <2>0, <2>1 DEF WakeInv, NobodyWrites
    <2>3. BasicType'
      BY <2>0, EmptySeq DEF BasicType
    <2> QED
      BY <2>0, <2>2, <2>3 DEF QuitInv, LifeInv
  <1>8. ASSUME BatchDone \/ RunFromBatch \/ RunSetTimer \/ ThreadMainReturns
               \/ (\E timer \in pending_timers_ : RunTimer(timer))
               \/ BatchTaskReturns \/ TimerTaskReturns
        PROVE  Inv'
    <2>0. /\ UNCHANGED <<ppc, opc, pipe, pending_>>
          /\ wpc # "woken" /\ wpc' # "woken" /\ wpc # "exited"
      BY <1>8
      DEF BatchDone, RunFromBatch, RunSetTimer, ThreadMainReturns, RunTimer,
          BatchTaskReturns, TimerTaskReturns, WorkerUnchanged, calls
    <2>1. WakeInv'
      BY <2>0 DEF WakeInv, NobodyWrites, OneWrites
    <2>2. BasicType'
      BY <1>8, <2>0
      DEF BasicType, BatchDone, RunFromBatch, RunSetTimer, ThreadMainReturns,
          RunTimer, BatchTaskReturns, TimerTaskReturns
    <2>3. LifeInv'
      BY <1>8, <2>0
      DEF LifeInv, BasicType, BatchDone, RunFromBatch, RunSetTimer,
          ThreadMainReturns, RunTimer, BatchTaskReturns, TimerTaskReturns
    <2> QED
      BY <2>0, <2>1, <2>2, <2>3 DEF QuitInv
  <1>9. CASE Delete
    BY <1>9
    DEF Delete, calls, worker, BasicType, WakeInv, NobodyWrites, OneWrites,
        QuitInv, LifeInv
  <1>10. CASE DeleteWrites
    <2>1. ~QuitIn(pipe)
      BY <1>10 DEF DeleteWrites, QuitInv
    <2>2. pipe' \in PipeContents /\ (RunIn(pipe') <=> RunIn(pipe))
      BY <1>10, <2>1, PipeWritesQuit DEF DeleteWrites, Quit
    <2> QED
      BY <1>10, <2>2
      DEF DeleteWrites, calls, worker, BasicType, WakeInv, NobodyWrites,
          OneWrites, QuitInv, LifeInv
  <1>11. CASE DeleteJoins
    <2>0. /\ UNCHANGED <<ppc, wpc, run_task_>> /\ wpc = "exited"
          /\ pending_' = <<>> /\ pipe' = <<>> /\ opc' = "deleted" /\ opc = "joining"
      BY <1>11 DEF DeleteJoins, calls, worker
    <2>1. \A p \in Poster : ppc[p] = "idle"
      BY <2>0 DEF LifeInv, Poster
    <2>2. WakeInv'
      BY <2>0, <2>1, EmptyPipe DEF WakeInv, NobodyWrites
    <2>3. BasicType'
      BY <2>0, EmptySeq DEF BasicType
    <2> QED
      BY <2>0, <2>2, <2>3, EmptyPipe DEF QuitInv, LifeInv
  <1>12. CASE Tick
    BY <1>12
    DEF Tick, calls, worker, BasicType, WakeInv, NobodyWrites, OneWrites,
        QuitInv, LifeInv
  <1>13. CASE Terminated
    BY <1>13, <1>0 DEF Terminated
  <1> QED
    BY <1>0, <1>1, <1>2, <1>3, <1>4, <1>5, <1>6, <1>7, <1>8, <1>9, <1>10, <1>11,
       <1>12, <1>13
    DEF Next, WorkerStep, TaskReturns, PostBegins, PostContinues, OwnerContinues

-----------------------------------------------------------------------------
(* Where the tasks are.                                                    *)

\* The entries that the worker has swapped out, then those that are pending.
Queue == tasks \o pending_

\* An entry that carries a delayed task notes when the task was posted.
TimedEntry(e) ==
    /\ e.ms # Immediate
    /\ due[e.task] <= MaxTime
    /\ due[e.task] - e.ms \in 0..now
    /\ e.posted = (due[e.task] - e.ms) % Time32Modulus

\* Calls of PostDelayedTask that have not come to the queue.
CallInv ==
    /\ \A p \in Poster : ppc[p] \in {"push", "add"} <=> pentry[p] # NoEntry
    /\ \A p \in Poster : pentry[p] # NoEntry =>
           pentry[p].task \notin posted /\ TimedEntry(pentry[p])
    /\ \A p, q \in Poster : pentry[p] # NoEntry /\ pentry[p].task = pentry[q].task => p = q

\* A task is in the queue once, until it starts or gets a timer.
QueueInv ==
    /\ \A i \in DOMAIN Queue :
           /\ Queue[i].task \in posted \ started
           /\ Queue[i].ms # Immediate => TimedEntry(Queue[i])
    /\ \A i, j \in DOMAIN Queue : Queue[i].task = Queue[j].task => i = j
    /\ wpc \notin {"batch", "run"} => tasks = <<>>

\* A timer does not expire before its task is due.
TimerInv ==
    \A timer \in pending_timers_ :
        /\ timer.task \in posted
        /\ \A i \in DOMAIN Queue : Queue[i].task # timer.task
        /\ timer.task \in started => wpc = "timer" /\ run_task_ = timer.task
        /\ due[timer.task] # Immediate
        /\ due[timer.task] <= timer.at
        /\ due[timer.task] <= MaxTime

\* The task that runs, and the tasks that wait.
RunInv ==
    /\ started \subseteq posted
    /\ run_task_ # NoTask <=> wpc \in {"run", "timer"}
    /\ run_task_ # NoTask => run_task_ \in started
    /\ \A t \in posted \ started :
           \/ \E i \in DOMAIN Queue : Queue[i].task = t
           \/ \E timer \in pending_timers_ : timer.task = t
           \/ wpc = "exited"

\* f has the tasks of q that are not delayed, in q's order.
Selects(q, f) ==
    /\ \A k \in DOMAIN f : \E i \in DOMAIN q : q[i].ms = Immediate /\ q[i].task = f[k]
    /\ \A i \in DOMAIN q : q[i].ms = Immediate => \E k \in DOMAIN f : f[k] = q[i].task
    /\ \A k, l \in DOMAIN f, i, j \in DOMAIN q :
           q[i].task = f[k] /\ q[j].task = f[l] => (k < l <=> i < j)

FifoInv == Selects(Queue, fifo)

TaskInv == CallInv /\ QueueInv /\ TimerInv /\ RunInv /\ FifoInv

LEMMA SelectsNothing == Selects(<<>>, <<>>)
  BY DEF Selects

LEMMA SelectsOrder ==
    ASSUME NEW q, NEW f, Selects(q, f), NEW k \in DOMAIN f, NEW l \in DOMAIN f,
           NEW i \in DOMAIN q, NEW j \in DOMAIN q, q[i].task = f[k], q[j].task = f[l]
    PROVE  k < l <=> i < j
  BY Zenon DEF Selects

\* A task at the end of both.
LEMMA SelectsAppend ==
    ASSUME NEW q \in Seq(Entry), NEW f \in Seq(Task), Selects(q, f),
           NEW e \in Entry, e.ms = Immediate, \A i \in DOMAIN q : q[i].task # e.task
    PROVE  Selects(Append(q, e), Append(f, e.task))
  <1> DEFINE q1 == Append(q, e)
             f1 == Append(f, e.task)
  <1>1. /\ Len(q) \in Nat /\ DOMAIN q = 1..Len(q)
        /\ Len(f) \in Nat /\ DOMAIN f = 1..Len(f)
    BY LenProperties
  <1>2. /\ DOMAIN q1 = 1..(Len(q) + 1) /\ q1[Len(q) + 1] = e
        /\ \A i \in 1..Len(q) : q1[i] = q[i]
    BY AppendProperties, LenProperties
  <1>3. e.task \in Task
    BY DEF Entry
  <1>4. /\ DOMAIN f1 = 1..(Len(f) + 1) /\ f1[Len(f) + 1] = e.task
        /\ \A k \in 1..Len(f) : f1[k] = f[k]
    BY <1>3, AppendProperties, LenProperties
  <1> HIDE DEF q1, f1
  <1>5. \A k \in DOMAIN f : f[k] # e.task
    BY DEF Selects
  <1>6. \A k \in DOMAIN f1 : \E i \in DOMAIN q1 : q1[i].ms = Immediate /\ q1[i].task = f1[k]
    <2> TAKE k \in DOMAIN f1
    <2>1. CASE k = Len(f) + 1
      BY <1>1, <1>2, <1>4, <2>1
    <2>2. CASE k \in 1..Len(f)
      BY <1>1, <1>2, <1>4, <2>2 DEF Selects
    <2> QED
      BY <1>1, <1>4, <2>1, <2>2
  <1>7. \A i \in DOMAIN q1 : q1[i].ms = Immediate => \E k \in DOMAIN f1 : f1[k] = q1[i].task
    <2> TAKE i \in DOMAIN q1
    <2>1. CASE i = Len(q) + 1
      BY <1>1, <1>2, <1>4, <2>1
    <2>2. ASSUME i \in 1..Len(q), q1[i].ms = Immediate
          PROVE  \E k \in DOMAIN f1 : f1[k] = q1[i].task
      <3>1. i \in DOMAIN q /\ q1[i] = q[i]
        BY <1>1, <1>2, <2>2
      <3>2. PICK k \in DOMAIN f : f[k] = q[i].task
        BY <2>2, <3>1, Zenon DEF Selects
      <3>3. k \in DOMAIN f1 /\ f1[k] = f[k]
        BY <1>1, <1>4
      <3> QED
        BY <3>1, <3>2, <3>3
    <2> QED
      BY <1>1, <1>2, <2>1, <2>2
  <1>8. ASSUME NEW k \in DOMAIN f1, NEW l \in DOMAIN f1, NEW i \in DOMAIN q1,
               NEW j \in DOMAIN q1, q1[i].task = f1[k], q1[j].task = f1[l]
        PROVE  k < l <=> i < j
    <2>1. (k = Len(f) + 1 <=> i = Len(q) + 1) /\ (l = Len(f) + 1 <=> j = Len(q) + 1)
      BY <1>1, <1>2, <1>4, <1>5, <1>8
    <2>2. CASE k \in DOMAIN f /\ l \in DOMAIN f
      <3>1. i \in DOMAIN q /\ j \in DOMAIN q
        BY <1>1, <1>2, <2>1, <2>2
      <3>2. q[i].task = f[k] /\ q[j].task = f[l]
        BY <1>1, <1>2, <1>4, <1>8, <2>2, <3>1
      <3> QED
        BY <2>2, <3>1, <3>2 DEF Selects
    <2> QED
      BY <1>1, <1>2, <1>4, <2>1, <2>2
  <1> QED
    BY <1>6, <1>7, <1>8 DEF Selects, q1, f1

\* A SetTimerTask at the end.
LEMMA SelectsAppendTimer ==
    ASSUME NEW q \in Seq(Entry), NEW f \in Seq(Task), Selects(q, f),
           NEW e \in Entry, e.ms # Immediate, \A i \in DOMAIN q : q[i].task # e.task
    PROVE  Selects(Append(q, e), f)
  <1> DEFINE q1 == Append(q, e)
  <1>1. /\ Len(q) \in Nat /\ DOMAIN q = 1..Len(q)
        /\ Len(f) \in Nat /\ DOMAIN f = 1..Len(f)
    BY LenProperties
  <1>2. /\ DOMAIN q1 = 1..(Len(q) + 1) /\ q1[Len(q) + 1] = e
        /\ \A i \in 1..Len(q) : q1[i] = q[i]
    BY AppendProperties, LenProperties
  <1> HIDE DEF q1
  <1>3. \A k \in DOMAIN f : f[k] # e.task
    BY DEF Selects
  <1>4. \A i \in DOMAIN q1 : i \in DOMAIN q \/ (q1[i] = e /\ i = Len(q) + 1)
    BY <1>1, <1>2
  <1>5. ASSUME NEW k \in DOMAIN f
        PROVE  \E i \in DOMAIN q1 : q1[i].ms = Immediate /\ q1[i].task = f[k]
    <2>1. PICK i \in DOMAIN q : q[i].ms = Immediate /\ q[i].task = f[k]
      BY DEF Selects
    <2>2. i \in DOMAIN q1 /\ q1[i] = q[i]
      BY <1>1, <1>2
    <2> QED
      BY <2>1, <2>2
  <1>6. \A i \in DOMAIN q1 : q1[i].ms = Immediate => \E k \in DOMAIN f : f[k] = q1[i].task
    BY <1>1, <1>2, <1>4 DEF Selects
  <1>7. ASSUME NEW k \in DOMAIN f, NEW l \in DOMAIN f, NEW i \in DOMAIN q1,
               NEW j \in DOMAIN q1, q1[i].task = f[k], q1[j].task = f[l]
        PROVE  k < l <=> i < j
    <2>1. i \in DOMAIN q /\ j \in DOMAIN q
      BY <1>3, <1>4, <1>7
    <2>2. q1[i] = q[i] /\ q1[j] = q[j]
      BY <1>1, <1>2, <2>1
    <2> QED
      BY <1>7, <2>1, <2>2, Zenon DEF Selects
  <1> QED
    BY <1>5, <1>6, <1>7 DEF Selects, q1

\* The first entry is a task ...
LEMMA SelectsHead ==
    ASSUME NEW q \in Seq(Entry), NEW f \in Seq(Task), Selects(q, f), q # <<>>,
           Head(q).ms = Immediate, \A i, j \in DOMAIN q : q[i].task = q[j].task => i = j
    PROVE  f # <<>> /\ Head(f) = Head(q).task /\ Selects(Tail(q), Tail(f))
  <1> DEFINE q1 == Tail(q)
             f1 == Tail(f)
  <1>1. /\ Len(q) \in Nat \ {0} /\ DOMAIN q = 1..Len(q) /\ Head(q) = q[1]
        /\ Len(f) \in Nat /\ DOMAIN f = 1..Len(f)
    BY LenProperties, EmptySeq
  <1>2. PICK k0 \in DOMAIN f : f[k0] = q[1].task
    <2>1. 1 \in DOMAIN q /\ q[1].ms = Immediate
      BY <1>1
    <2> QED
      BY <2>1, Zenon DEF Selects
  <1>3. k0 = 1
    <2> SUFFICES ASSUME k0 # 1 PROVE FALSE
      OBVIOUS
    <2>1. 1 \in DOMAIN f /\ 1 < k0
      BY <1>1, <1>2
    <2>2. PICK i \in DOMAIN q : q[i].task = f[1]
      BY <2>1 DEF Selects
    <2>3. 1 \in DOMAIN q
      BY <1>1
    <2>4. i < 1
      BY <1>1, <1>2, <2>1, <2>2, <2>3, SelectsOrder
    <2> QED
      BY <1>1, <2>2, <2>4
  <1>4. f # <<>> /\ Head(f) = f[1] /\ f[1] = q[1].task
    BY <1>2, <1>3
  <1>5. /\ DOMAIN q1 = 1..(Len(q) - 1) /\ \A i \in 1..(Len(q) - 1) : q1[i] = q[i + 1]
        /\ DOMAIN f1 = 1..(Len(f) - 1) /\ \A k \in 1..(Len(f) - 1) : f1[k] = f[k + 1]
    BY <1>4, HeadTailProperties, LenProperties
  <1> HIDE DEF q1, f1
  <1>6. \A k, l \in DOMAIN f : f[k] = f[l] => k = l
    <2> SUFFICES ASSUME NEW k \in DOMAIN f, NEW l \in DOMAIN f, f[k] = f[l], k < l
                 PROVE  FALSE
      BY <1>1
    <2>1. PICK i \in DOMAIN q : q[i].task = f[k]
      BY DEF Selects
    <2>2. i < i
      BY <2>1 DEF Selects
    <2> QED
      BY <1>1, <2>2
  <1>7. \A k \in DOMAIN f1 : \E i \in DOMAIN q1 : q1[i].ms = Immediate /\ q1[i].task = f1[k]
    <2> TAKE k \in DOMAIN f1
    <2>1. k + 1 \in DOMAIN f /\ f1[k] = f[k + 1] /\ k + 1 # 1
      BY <1>1, <1>5
    <2>2. PICK i \in DOMAIN q : q[i].ms = Immediate /\ q[i].task = f[k + 1]
      BY <2>1 DEF Selects
    <2>3. i # 1
      BY <1>1, <1>2, <1>3, <1>6, <2>1, <2>2
    <2>4. i - 1 \in DOMAIN q1 /\ q1[i - 1] = q[i]
      BY <1>1, <1>5, <2>2, <2>3
    <2> QED
      BY <2>1, <2>2, <2>4
  <1>8. \A i \in DOMAIN q1 : q1[i].ms = Immediate => \E k \in DOMAIN f1 : f1[k] = q1[i].task
    <2> SUFFICES ASSUME NEW i \in DOMAIN q1, q1[i].ms = Immediate
                 PROVE  \E k \in DOMAIN f1 : f1[k] = q1[i].task
      OBVIOUS
    <2>1. i + 1 \in DOMAIN q /\ q1[i] = q[i + 1] /\ i + 1 # 1
      BY <1>1, <1>5
    <2>2. PICK k \in DOMAIN f : f[k] = q[i + 1].task
      BY <2>1 DEF Selects
    <2>3. k # 1
      BY <1>1, <1>4, <2>1, <2>2
    <2>4. k - 1 \in DOMAIN f1 /\ f1[k - 1] = f[k]
      BY <1>1, <1>5, <2>2, <2>3
    <2> QED
      BY <2>1, <2>2, <2>4
  <1>9. ASSUME NEW k \in DOMAIN f1, NEW l \in DOMAIN f1, NEW i \in DOMAIN q1,
               NEW j \in DOMAIN q1, q1[i].task = f1[k], q1[j].task = f1[l]
        PROVE  k < l <=> i < j
    <2>1. /\ k + 1 \in DOMAIN f /\ l + 1 \in DOMAIN f
          /\ i + 1 \in DOMAIN q /\ j + 1 \in DOMAIN q
          /\ q[i + 1].task = f[k + 1] /\ q[j + 1].task = f[l + 1]
      BY <1>1, <1>5, <1>9, SMTT(20)
    <2>2. k + 1 < l + 1 <=> i + 1 < j + 1
      BY <2>1, SelectsOrder
    <2> QED
      BY <1>1, <1>5, <2>2
  <1> QED
    BY <1>1, <1>4, <1>7, <1>8, <1>9 DEF Selects, q1, f1

\* ... or a SetTimerTask.
LEMMA SelectsTail ==
    ASSUME NEW q \in Seq(Entry), NEW f \in Seq(Task), Selects(q, f), q # <<>>,
           Head(q).ms # Immediate
    PROVE  Selects(Tail(q), f)
  <1> DEFINE q1 == Tail(q)
  <1>1. /\ Len(q) \in Nat \ {0} /\ DOMAIN q = 1..Len(q) /\ Head(q) = q[1]
        /\ Len(f) \in Nat /\ DOMAIN f = 1..Len(f)
    BY LenProperties, EmptySeq
  <1>2. /\ DOMAIN q1 = 1..(Len(q) - 1) /\ \A i \in 1..(Len(q) - 1) : q1[i] = q[i + 1]
    BY HeadTailProperties, LenProperties
  <1> HIDE DEF q1
  <1>3. \A k \in DOMAIN f : \E i \in DOMAIN q1 : q1[i].ms = Immediate /\ q1[i].task = f[k]
    <2> TAKE k \in DOMAIN f
    <2>1. PICK i \in DOMAIN q : q[i].ms = Immediate /\ q[i].task = f[k]
      BY DEF Selects
    <2>2. i # 1
      BY <1>1, <2>1
    <2>3. i - 1 \in DOMAIN q1 /\ q1[i - 1] = q[i]
      BY <1>1, <1>2, <2>1, <2>2
    <2> QED
      BY <2>1, <2>3
  <1>4. \A i \in DOMAIN q1 : q1[i].ms = Immediate => \E k \in DOMAIN f : f[k] = q1[i].task
    <2> SUFFICES ASSUME NEW i \in DOMAIN q1, q1[i].ms = Immediate
                 PROVE  \E k \in DOMAIN f : f[k] = q1[i].task
      OBVIOUS
    <2>1. i + 1 \in DOMAIN q /\ q1[i] = q[i + 1]
      BY <1>1, <1>2
    <2> QED
      BY <2>1 DEF Selects
  <1>5. ASSUME NEW k \in DOMAIN f, NEW l \in DOMAIN f, NEW i \in DOMAIN q1,
               NEW j \in DOMAIN q1, q1[i].task = f[k], q1[j].task = f[l]
        PROVE  k < l <=> i < j
    <2>1. /\ i + 1 \in DOMAIN q /\ j + 1 \in DOMAIN q
          /\ q[i + 1].task = f[k] /\ q[j + 1].task = f[l]
      BY <1>1, <1>2, <1>5
    <2>2. k < l <=> i + 1 < j + 1
      BY <2>1, SelectsOrder
    <2> QED
      BY <1>1, <1>2, <2>2
  <1> QED
    BY <1>3, <1>4, <1>5 DEF Selects, q1

-----------------------------------------------------------------------------
(* What the steps do to the queue.                                         *)

LEMMA QueueType == TypeOK => Queue \in Seq(Entry)
  BY ConcatProperties DEF TypeOK, Queue

LEMMA QueueAppend ==
    ASSUME TypeOK, NEW e \in Entry, pending_' = Append(pending_, e), tasks' = tasks
    PROVE  Queue' = Append(Queue, e)
  <1>1. /\ tasks \in Seq(Entry) /\ pending_ \in Seq(Entry) /\ <<e>> \in Seq(Entry)
        /\ Queue \in Seq(Entry)
    BY QueueType DEF TypeOK
  <1>2. Append(pending_, e) = pending_ \o <<e>> /\ Append(Queue, e) = Queue \o <<e>>
    BY <1>1, AppendIsConcat
  <1>3. tasks \o (pending_ \o <<e>>) = (tasks \o pending_) \o <<e>>
    BY <1>1, ConcatAssociative
  <1> QED
    BY <1>2, <1>3 DEF Queue

LEMMA QueueSwapped ==
    ASSUME TypeOK, tasks = <<>>, tasks' = pending_, pending_' = <<>>
    PROVE  Queue' = Queue
  BY ConcatEmptySeq DEF TypeOK, Queue

\* The worker takes an entry off its batch.
LEMMA QueueTaken ==
    ASSUME TypeOK, tasks # <<>>, tasks' = Tail(tasks), pending_' = pending_
    PROVE  Queue # <<>> /\ Head(Queue) = Head(tasks) /\ Queue' = Tail(Queue)
           /\ Head(Queue) \in Entry
  <1>1. tasks \in Seq(Entry) /\ pending_ \in Seq(Entry) /\ Queue \in Seq(Entry)
    BY QueueType DEF TypeOK
  <1>2. /\ Head(tasks) = tasks[1] /\ Tail(tasks) \in Seq(Entry)
        /\ Len(tasks) \in Nat \ {0} /\ Len(Tail(tasks)) = Len(tasks) - 1
        /\ \A i \in 1..Len(tasks) - 1 : Tail(tasks)[i] = tasks[i + 1]
    BY <1>1, HeadTailProperties, LenProperties, EmptySeq
  <1>3. /\ Len(Queue) = Len(tasks) + Len(pending_) /\ Len(pending_) \in Nat
        /\ \A i \in 1..Len(Queue) : Queue[i] = IF i <= Len(tasks) THEN tasks[i]
                                               ELSE pending_[i - Len(tasks)]
    BY <1>1, ConcatProperties, LenProperties DEF Queue
  <1>4. Queue # <<>> /\ Head(Queue) = Queue[1] /\ Queue[1] = tasks[1]
    BY <1>1, <1>2, <1>3, EmptySeq
  <1>5. /\ Tail(Queue) \in Seq(Entry) /\ Len(Tail(Queue)) = Len(Queue) - 1
        /\ \A i \in 1..Len(Queue) - 1 : Tail(Queue)[i] = Queue[i + 1]
        /\ Head(Queue) \in Entry
    BY <1>1, <1>4, HeadTailProperties
  <1> DEFINE r == Tail(tasks) \o pending_
  <1>6. /\ r \in Seq(Entry) /\ Len(r) = Len(Queue) - 1
        /\ \A i \in 1..Len(r) : r[i] = IF i <= Len(tasks) - 1 THEN Tail(tasks)[i]
                                       ELSE pending_[i - (Len(tasks) - 1)]
    BY <1>1, <1>2, <1>3, ConcatProperties
  <1>7. Queue' = r
    BY DEF Queue
  <1> HIDE DEF r
  <1>8. \A i \in 1..Len(r) : r[i] = Tail(Queue)[i]
    <2> TAKE i \in 1..Len(r)
    <2>1. i \in 1..Len(Queue) - 1 /\ i + 1 \in 1..Len(Queue) /\ i \in Nat
      BY <1>2, <1>3, <1>6
    <2>2. CASE i <= Len(tasks) - 1
      <3>1. r[i] = tasks[i + 1] /\ Queue[i + 1] = tasks[i + 1]
        BY <1>2, <1>3, <1>6, <2>1, <2>2
      <3> QED
        BY <1>5, <2>1, <3>1
    <2>3. CASE ~(i <= Len(tasks) - 1)
      <3>1. r[i] = pending_[i + 1 - Len(tasks)] /\ Queue[i + 1] = pending_[i + 1 - Len(tasks)]
        <4>1. i - (Len(tasks) - 1) = i + 1 - Len(tasks) /\ ~(i + 1 <= Len(tasks))
          BY <1>2, <2>1, <2>3
        <4> QED
          BY <1>3, <1>6, <2>1, <2>3, <4>1
      <3> QED
        BY <1>5, <2>1, <3>1
    <2> QED
      BY <2>2, <2>3
  <1>9. r = Tail(Queue)
    BY <1>5, <1>6, <1>8, SeqEqual
  <1> QED
    BY <1>4, <1>5, <1>7, <1>9

-----------------------------------------------------------------------------
\* The conjuncts of TypeOK that Inv does not give.
CallType ==
    /\ pentry \in [Poster -> Entry \cup {NoEntry}]
    /\ \A p \in Poster : ppc[p] \in {"push", "add"} =>
         pentry[p] \in Entry /\ pentry[p].ms # Immediate

WorkerType ==
    /\ is_active_ \in BOOLEAN
    /\ pending_timers_ \subseteq [task : Task, at : Nat]
    /\ tasks \in Seq(Entry)
    /\ run_task_ \in Task \cup {NoTask}

HistoryType ==
    /\ now \in 0..MaxTime
    /\ posted \subseteq Task /\ started \subseteq Task
    /\ due \in [Task -> Nat \cup {Immediate}]
    /\ fifo \in Seq(Task)

LEMMA TypeParts ==
    ASSUME Inv, CallType, WorkerType, HistoryType
    PROVE  TypeOK
  BY PipeFits DEF Inv, BasicType, CallType, WorkerType, HistoryType, TypeOK

LEMMA PartsOfType == TypeOK => CallType /\ WorkerType /\ HistoryType
  BY DEF CallType, WorkerType, HistoryType, TypeOK

LEMMA EntryFields ==
    ASSUME NEW e \in Entry
    PROVE  /\ e.task \in Task /\ e.posted \in Nat
           /\ e.ms \in Nat \cup {Immediate}
  BY DEF Entry

LEMMA ClockType == now \in 0..MaxTime => Time32 \in Nat
  BY ConstantsAssumption DEF Time32

LEMMA RemainingType ==
    ASSUME now \in 0..MaxTime, NEW e \in Entry, e.ms # Immediate
    PROVE  Remaining(e) \in Nat
  <1>1. e.ms \in Nat /\ e.posted \in Nat
    BY EntryFields
  <1>2. (Time32 - e.posted) % Time32Modulus \in Nat
    BY <1>1, ClockType, ConstantsAssumption
  <1> QED
    BY <1>1, <1>2 DEF Remaining

\* A timer that is added has its type.
LEMMA AddTimerType ==
    ASSUME pending_timers_ \subseteq [task : Task, at : Nat],
           now \in 0..MaxTime, NEW t \in Task, NEW ms \in Nat, AddTimer(t, ms)
    PROVE  (pending_timers_ \subseteq [task : Task, at : Nat])'
  <1>1. now + ms \in Nat
    BY ConstantsAssumption
  <1>2. [task |-> t, at |-> now + ms] \in [task : Task, at : Nat]
    BY <1>1
  <1> QED
    BY <1>2, Zenon DEF AddTimer

LEMMA CallStep ==
    ASSUME TypeOK, Inv, [Next]_vars
    PROVE  CallType'
  <1> USE PartsOfType DEF CallType
  <1>0. ppc \in [Poster -> {"idle", "write", "push", "add"}]
    BY DEF Inv, BasicType
  <1>1. ASSUME NEW p \in Poster, NEW t \in Task, PostTask(p, t)
        PROVE  CallType'
    BY <1>0, <1>1 DEF PostTask, Push
  <1>2. ASSUME NEW p \in Poster, NEW t \in Task, NEW ms \in Delay,
               PostDelayedTask(p, t, ms)
        PROVE  CallType'
    <2>1. Time32 \in Nat /\ ms \in Nat
      BY ClockType, ConstantsAssumption DEF HistoryType
    <2>2. [task |-> t, ms |-> ms, posted |-> Time32] \in Entry
      BY <2>1 DEF Entry
    <2> DEFINE e == [task |-> t, ms |-> ms, posted |-> Time32]
    <2>3. pentry' = [pentry EXCEPT ![p] = e] /\ e \in Entry /\ e.ms # Immediate
      BY <1>2, <2>1, <2>2 DEF PostDelayedTask, Immediate
    <2>4. \A q \in Poster : q # p => ppc'[q] = ppc[q]
      BY <1>0, <1>2 DEF PostDelayedTask
    <2> HIDE DEF e
    <2> QED
      BY <2>3, <2>4
  <1>3. ASSUME NEW p \in Poster, WriteByte(p)
        PROVE  CallType'
    BY <1>0, <1>3 DEF WriteByte
  <1>4. ASSUME NEW p \in Poster, PushSetTimer(p)
        PROVE  CallType'
    <2>1. ppc'[p] \in {"idle", "write"} /\ \A q \in Poster : q # p => ppc'[q] = ppc[q]
      BY <1>0, <1>4 DEF PushSetTimer, Push
    <2>2. pentry' = [pentry EXCEPT ![p] = NoEntry]
      BY <1>4 DEF PushSetTimer
    <2> QED
      BY <2>1, <2>2
  <1>5. CASE SetTimer
    BY <1>0, <1>5 DEF SetTimer
  <1>6. CASE UNCHANGED calls
    BY <1>6 DEF calls
  <1> QED
    BY <1>1, <1>2, <1>3, <1>4, <1>5, <1>6
    DEF Next, WorkerStep, TaskReturns, PostBegins, PostContinues, OwnerContinues,
        ReadByte, SwapPending, BatchDone, RunFromBatch, RunSetTimer, RunTimer,
        ThreadMainReturns, BatchTaskReturns, TimerTaskReturns, WorkerUnchanged,
        Delete, DeleteWrites, DeleteJoins, Tick, Terminated, vars

LEMMA WorkerTypeStep ==
    ASSUME TypeOK, Inv, [Next]_vars
    PROVE  WorkerType'
  <1> USE PartsOfType DEF WorkerType
  <1>1. CASE UNCHANGED <<is_active_, pending_timers_, worker>>
    BY <1>1 DEF worker
  <1>2. CASE SetTimer
    <2>1. /\ pentry[Worker] \in Entry /\ pentry[Worker].ms # Immediate
          /\ now \in 0..MaxTime
      BY <1>2 DEF SetTimer, CallType, Poster, HistoryType
    <2>2. pentry[Worker].ms \in Nat
      BY <2>1, EntryFields
    <2> QED
      BY <1>2, <2>1, <2>2, AddTimerType, EntryFields DEF SetTimer, worker
  <1>3. CASE ReadByte
    BY <1>3 DEF ReadByte
  <1>4. CASE SwapPending
    BY <1>4 DEF SwapPending, Inv, BasicType
  <1>5. CASE BatchDone \/ BatchTaskReturns
    BY <1>5 DEF BatchDone, BatchTaskReturns
  <1>6. CASE RunFromBatch
    <2>1. Head(tasks) \in Entry /\ Tail(tasks) \in Seq(Entry)
      BY <1>6, HeadTailProperties DEF RunFromBatch
    <2>2. Head(tasks).task \in Task
      BY <2>1, EntryFields
    <2> QED
      BY <1>6, <2>1, <2>2 DEF RunFromBatch
  <1>7. CASE RunSetTimer
    <2>1. Head(tasks) \in Entry /\ Tail(tasks) \in Seq(Entry)
      BY <1>7, HeadTailProperties DEF RunSetTimer
    <2>2. now \in 0..MaxTime
      BY DEF HistoryType
    <2>3. Head(tasks).task \in Task /\ Remaining(Head(tasks)) \in Nat
      BY <1>7, <2>1, <2>2, EntryFields, RemainingType DEF RunSetTimer
    <2>4. (pending_timers_ \subseteq [task : Task, at : Nat])'
      BY <1>7, <2>2, <2>3, AddTimerType DEF RunSetTimer
    <2> QED
      BY <1>7, <2>1, <2>4 DEF RunSetTimer
  <1>8. ASSUME NEW timer \in pending_timers_, RunTimer(timer)
        PROVE  WorkerType'
    <2>1. timer.task \in Task
      OBVIOUS
    <2> QED
      BY <1>8, <2>1 DEF RunTimer
  <1>9. CASE TimerTaskReturns
    BY <1>9 DEF TimerTaskReturns
  <1>10. CASE ThreadMainReturns
    BY <1>10 DEF ThreadMainReturns
  <1> QED
    BY <1>1, <1>2, <1>3, <1>4, <1>5, <1>6, <1>7, <1>8, <1>9, <1>10
    DEF Next, WorkerStep, TaskReturns, PostBegins, PostContinues, OwnerContinues,
        PostTask, PostDelayedTask, WriteByte, PushSetTimer,
        Delete, DeleteWrites, DeleteJoins, Tick, Terminated, vars

LEMMA HistoryTypeStep ==
    ASSUME TypeOK, Inv, TaskInv, [Next]_vars
    PROVE  HistoryType'
  <1> USE PartsOfType DEF HistoryType
  <1>1. ASSUME NEW p \in Poster, NEW t \in Task, PostTask(p, t)
        PROVE  HistoryType'
    <2>1. Append(fifo, t) \in Seq(Task)
      BY AppendProperties
    <2> QED
      BY <1>1, <2>1 DEF PostTask, Push
  <1>2. ASSUME NEW p \in Poster, NEW t \in Task, NEW ms \in Delay,
               PostDelayedTask(p, t, ms)
        PROVE  HistoryType'
    <2>1. now + ms \in Nat
      BY ConstantsAssumption
    <2> QED
      BY <1>2, <2>1 DEF PostDelayedTask
  <1>3. ASSUME NEW p \in Poster, PushSetTimer(p)
        PROVE  HistoryType'
    <2>1. pentry[p].task \in Task
      BY <1>3, EntryFields DEF PushSetTimer, CallType
    <2> QED
      BY <1>3, <2>1 DEF PushSetTimer, Push
  <1>4. CASE SetTimer
    <2>1. pentry[Worker].task \in Task
      BY <1>4, EntryFields DEF SetTimer, CallType, Poster
    <2> QED
      BY <1>4, <2>1 DEF SetTimer
  <1>5. CASE RunFromBatch
    <2>1. Head(tasks) \in Entry
      BY <1>5, HeadTailProperties DEF RunFromBatch, WorkerType
    <2>2. Head(tasks).task \in Task
      BY <2>1, EntryFields
    <2>3. fifo # <<>>
      BY <1>5, QueueTaken, QueueType, SelectsHead DEF RunFromBatch, TaskInv, QueueInv, FifoInv
    <2>4. Tail(fifo) \in Seq(Task)
      BY <2>3, HeadTailProperties
    <2> QED
      BY <1>5, <2>2, <2>4 DEF RunFromBatch, WorkerUnchanged
  <1>6. ASSUME NEW timer \in pending_timers_, RunTimer(timer)
        PROVE  HistoryType'
    <2>1. timer.task \in Task
      BY DEF WorkerType
    <2> QED
      BY <1>6, <2>1 DEF RunTimer, WorkerUnchanged
  <1>7. CASE Tick
    BY <1>7, ConstantsAssumption DEF Tick, history
  <1>8. CASE UNCHANGED <<now, history>>
    BY <1>8 DEF history
  <1>9. CASE DeleteJoins
    BY <1>9, EmptySeq DEF DeleteJoins
  <1> QED
    BY <1>1, <1>2, <1>3, <1>4, <1>5, <1>6, <1>7, <1>8, <1>9
    DEF Next, WorkerStep, TaskReturns, PostBegins, PostContinues, OwnerContinues,
        WriteByte, ReadByte, SwapPending, BatchDone, RunSetTimer,
        ThreadMainReturns, BatchTaskReturns, TimerTaskReturns, WorkerUnchanged,
        Delete, DeleteWrites, Terminated, vars, history

LEMMA TypeInit == Init => TypeOK
  <1> SUFFICES ASSUME Init PROVE TypeOK
    OBVIOUS
  <1>1. CallType
    BY DEF Init, CallType
  <1>2. WorkerType
    BY EmptySeq DEF Init, WorkerType
  <1>3. HistoryType
    BY ConstantsAssumption, EmptySeq DEF Init, HistoryType
  <1> QED
    BY <1>1, <1>2, <1>3, InvInit, TypeParts

-----------------------------------------------------------------------------
(* The steps, by what they do to the tasks.                                *)

\* No task moves.
Quiet ==
    /\ Queue' = Queue
    /\ UNCHANGED <<posted, started, due, fifo, run_task_, pentry>>
    /\ now' \in {now, now + 1}
    /\ pending_timers_' = pending_timers_ \/ (pending_timers_' = {} /\ wpc' = "exited")
    /\ wpc \in {"run", "timer", "exited"} \/ wpc' \in {"run", "timer"} => wpc' = wpc
    /\ wpc' \notin {"batch", "run"} => tasks' = <<>>
    /\ \A p \in Poster : ppc[p] \in {"push", "add"} <=> ppc'[p] \in {"push", "add"}

LEMMA QuietStep ==
    ASSUME TypeOK, Inv, QueueInv,
           \/ ReadByte \/ SwapPending \/ BatchDone \/ ThreadMainReturns
           \/ \E p \in Poster : WriteByte(p)
           \/ Delete \/ DeleteWrites \/ Tick \/ UNCHANGED vars
    PROVE  Quiet
  <1>1. ASSUME UNCHANGED <<tasks, pending_>> PROVE Queue' = Queue
    BY <1>1 DEF Queue
  <1>2. wpc \notin {"batch", "run"} => tasks = <<>>
    BY DEF QueueInv
  <1>3. CASE ReadByte \/ BatchDone \/ ThreadMainReturns
    BY <1>1, <1>2, <1>3
    DEF ReadByte, BatchDone, ThreadMainReturns, WorkerUnchanged, calls, Quiet
  <1>4. CASE SwapPending
    <2>1. Queue' = Queue
      BY <1>2, <1>4, QueueSwapped DEF SwapPending
    <2> QED
      BY <1>4, <2>1 DEF SwapPending, WorkerUnchanged, calls, Quiet
  <1>5. ASSUME NEW p \in Poster, WriteByte(p) PROVE Quiet
    <2>1. \A q \in Poster : ppc[q] \in {"push", "add"} <=> ppc'[q] \in {"push", "add"}
      BY <1>5 DEF WriteByte, TypeOK
    <2> QED
      BY <1>1, <1>2, <1>5, <2>1 DEF WriteByte, worker, history, Quiet
  <1>6. CASE Delete \/ DeleteWrites \/ Tick \/ UNCHANGED vars
    BY <1>1, <1>2, <1>6 DEF Delete, DeleteWrites, Tick, vars, worker, calls, history, Quiet
  <1> QED
    BY <1>3, <1>4, <1>5, <1>6

LEMMA EntryQueued ==
    ASSUME TypeOK, NEW i \in DOMAIN Queue
    PROVE  Queue[i] \in Entry /\ Queue[i].task \in Task
  <1>1. Queue[i] \in Entry
    BY QueueType, ElementOfSeq
  <1> QED
    BY <1>1, EntryFields

LEMMA AppendMembers ==
    ASSUME NEW q \in Seq(Entry), NEW e \in Entry
    PROVE  /\ Append(q, e) \in Seq(Entry)
           /\ \A i \in DOMAIN q : i \in DOMAIN Append(q, e) /\ Append(q, e)[i] = q[i]
           /\ \E n \in DOMAIN Append(q, e) :
                  /\ n \notin DOMAIN q /\ Append(q, e)[n] = e
                  /\ \A i \in DOMAIN Append(q, e) : i = n \/ i \in DOMAIN q
  <1> DEFINE q1 == Append(q, e)
  <1>1. /\ q1 \in Seq(Entry) /\ Len(q) \in Nat /\ DOMAIN q = 1..Len(q)
        /\ DOMAIN q1 = 1..(Len(q) + 1) /\ q1[Len(q) + 1] = e
        /\ \A i \in 1..Len(q) : q1[i] = q[i]
    BY AppendProperties, LenProperties
  <1> HIDE DEF q1
  <1>2. Len(q) + 1 \in DOMAIN q1 /\ Len(q) + 1 \notin DOMAIN q
    BY <1>1
  <1>3. \A i \in DOMAIN q1 : i = Len(q) + 1 \/ i \in DOMAIN q
    BY <1>1
  <1>4. \A i \in DOMAIN q : i \in DOMAIN q1 /\ q1[i] = q[i]
    BY <1>1
  <1> QED
    BY <1>1, <1>2, <1>3, <1>4 DEF q1

LEMMA TailMembers ==
    ASSUME NEW q \in Seq(Entry), q # <<>>
    PROVE  /\ 1 \in DOMAIN q /\ Head(q) = q[1]
           /\ \A i \in DOMAIN Tail(q) : i + 1 \in DOMAIN q /\ i + 1 # 1 /\ Tail(q)[i] = q[i + 1]
           /\ \A i \in DOMAIN q : i = 1 \/ \E j \in DOMAIN Tail(q) : Tail(q)[j] = q[i]
           /\ \A i, j \in DOMAIN Tail(q) : i + 1 = j + 1 => i = j
  <1> DEFINE q1 == Tail(q)
  <1>1. /\ Len(q) \in Nat \ {0} /\ DOMAIN q = 1..Len(q) /\ Head(q) = q[1]
        /\ DOMAIN q1 = 1..(Len(q) - 1) /\ \A i \in 1..(Len(q) - 1) : q1[i] = q[i + 1]
    BY HeadTailProperties, LenProperties, EmptySeq
  <1> HIDE DEF q1
  <1>2. ASSUME NEW i \in DOMAIN q, i # 1 PROVE \E j \in DOMAIN q1 : q1[j] = q[i]
    <2>1. i - 1 \in DOMAIN q1 /\ q1[i - 1] = q[i]
      BY <1>1, <1>2
    <2> QED
      BY <2>1
  <1> QED
    BY <1>1, <1>2 DEF q1

\* An entry's account of its task stays true.
LEMMA TimedStays ==
    ASSUME TypeOK, NEW e \in Entry, TimedEntry(e), due'[e.task] = due[e.task],
           now' \in {now, now + 1}
    PROVE  TimedEntry(e)'
  <1>1. now \in Nat /\ e.ms \in Nat /\ due[e.task] \in Int /\ e.task \in Task
    BY ConstantsAssumption, EntryFields DEF TypeOK, TimedEntry, Immediate
  <1>2. due'[e.task] - e.ms \in 0..now'
    BY <1>1 DEF TimedEntry
  <1> QED
    BY <1>2 DEF TimedEntry

LEMMA CallFrame ==
    ASSUME TypeOK, CallInv, UNCHANGED pentry,
           \A p \in Poster : ppc[p] \in {"push", "add"} <=> ppc'[p] \in {"push", "add"},
           now' \in {now, now + 1},
           \A p \in Poster : pentry[p] # NoEntry =>
               /\ pentry[p].task \notin posted'
               /\ due'[pentry[p].task] = due[pentry[p].task]
    PROVE  CallInv'
  <1>1. ASSUME NEW p \in Poster, pentry[p] # NoEntry PROVE TimedEntry(pentry[p])'
    <2>1. pentry[p] \in Entry /\ TimedEntry(pentry[p])
      BY <1>1 DEF CallInv, TypeOK
    <2>2. PICK e \in Entry : e = pentry[p]
      BY <2>1
    <2>3. TimedEntry(e)'
      BY <1>1, <2>1, <2>2, TimedStays
    <2> QED
      BY <2>2, <2>3
  <1> QED
    BY <1>1 DEF CallInv

\* The queue keeps its entries, their tasks do not start, and time may pass.
LEMMA QueueFrame ==
    ASSUME TypeOK, QueueInv, Queue' = Queue, posted \subseteq posted',
           \A t \in posted : t \in started' => t \in started,
           \A t \in posted : due'[t] = due[t], now' \in {now, now + 1},
           wpc' \notin {"batch", "run"} => tasks' = <<>>
    PROVE  QueueInv'
  <1>1. ASSUME NEW i \in DOMAIN Queue, Queue[i].ms # Immediate PROVE TimedEntry(Queue[i])'
    <2>1. PICK e \in Entry : e = Queue[i]
      BY EntryQueued
    <2>2. TimedEntry(e) /\ e.task \in posted
      BY <1>1, <2>1 DEF QueueInv
    <2>3. TimedEntry(e)'
      BY <2>2, TimedStays
    <2> QED
      BY <2>1, <2>3
  <1> QED
    BY <1>1 DEF QueueInv

\* A new task is put at the end.
LEMMA QueueGrows ==
    ASSUME TypeOK, QueueInv, RunInv, NEW e \in Entry, Queue' = Append(Queue, e),
           e.task \notin posted, posted' = posted \cup {e.task},
           e.ms # Immediate => TimedEntry(e),
           UNCHANGED <<started, due, now, wpc, tasks>>
    PROVE  QueueInv'
  <1>1. /\ Queue \in Seq(Entry)
        /\ \A i \in DOMAIN Queue : i \in DOMAIN Queue' /\ Queue'[i] = Queue[i]
    BY QueueType, AppendMembers
  <1>2. PICK n \in DOMAIN Queue' :
            /\ n \notin DOMAIN Queue /\ Queue'[n] = e
            /\ \A i \in DOMAIN Queue' : i = n \/ i \in DOMAIN Queue
    BY <1>1, AppendMembers
  <1>3. e.ms # Immediate => TimedEntry(e)'
    BY DEF TimedEntry
  <1>4. ASSUME NEW i \in DOMAIN Queue, Queue[i].ms # Immediate PROVE TimedEntry(Queue[i])'
    <2>1. PICK d : d = Queue[i] /\ d = Queue'[i] /\ TimedEntry(d)
      BY <1>1, <1>4 DEF QueueInv
    <2> QED
      BY <2>1 DEF TimedEntry
  <1>5. \A i \in DOMAIN Queue' : /\ Queue'[i].task \in posted' \ started'
                                 /\ Queue'[i].ms # Immediate => TimedEntry(Queue[i])'
    <2> TAKE i \in DOMAIN Queue'
    <2>1. CASE i = n
      BY <1>2, <1>3, <2>1 DEF RunInv
    <2>2. CASE i \in DOMAIN Queue
      BY <1>1, <1>4, <2>2 DEF QueueInv
    <2> QED
      BY <1>2, <2>1, <2>2
  <1>6. ASSUME NEW i \in DOMAIN Queue', NEW j \in DOMAIN Queue',
               Queue'[i].task = Queue'[j].task
        PROVE  i = j
    <2>1. \A k \in DOMAIN Queue : Queue[k].task # e.task
      BY DEF QueueInv
    <2> QED
      BY <1>1, <1>2, <1>6, <2>1 DEF QueueInv
  <1> QED
    BY <1>5, <1>6 DEF QueueInv

\* The first entry is taken out.
LEMMA QueueShrinks ==
    ASSUME TypeOK, QueueInv, Queue # <<>>, Queue' = Tail(Queue),
           started' \subseteq started \cup {Head(Queue).task},
           UNCHANGED <<posted, due, now>>, wpc' \in {"batch", "run"}
    PROVE  /\ QueueInv'
           /\ \A i \in DOMAIN Queue' : Queue'[i].task # Head(Queue).task
  <1>1. /\ 1 \in DOMAIN Queue /\ Head(Queue) = Queue[1]
        /\ \A i \in DOMAIN Queue' :
               i + 1 \in DOMAIN Queue /\ i + 1 # 1 /\ Queue'[i] = Queue[i + 1]
        /\ \A i, j \in DOMAIN Queue' : i + 1 = j + 1 => i = j
    BY QueueType, TailMembers
  <1>2. ASSUME NEW i \in DOMAIN Queue'
        PROVE  /\ Queue'[i].task # Head(Queue).task
               /\ Queue'[i].task \in posted' \ started'
               /\ Queue'[i].ms # Immediate => TimedEntry(Queue[i])'
    <2>1. PICK k \in DOMAIN Queue : k = i + 1 /\ k # 1 /\ Queue'[i] = Queue[k]
      BY <1>1
    <2>2. Queue[k].task # Queue[1].task
      BY <1>1, <2>1 DEF QueueInv
    <2>3. Queue[k].task \in posted \ started
      BY <2>1 DEF QueueInv
    <2>4. PICK d : d = Queue[k] /\ d = Queue'[i] /\ (d.ms # Immediate => TimedEntry(d))
      BY <2>1 DEF QueueInv
    <2>5. d.ms # Immediate => TimedEntry(d)'
      BY <2>4 DEF TimedEntry
    <2> QED
      BY <1>1, <2>1, <2>2, <2>3, <2>4, <2>5
  <1>3. ASSUME NEW i \in DOMAIN Queue', NEW j \in DOMAIN Queue',
               Queue'[i].task = Queue'[j].task
        PROVE  i = j
    <2>1. i + 1 = j + 1
      BY <1>1, <1>3 DEF QueueInv
    <2> QED
      BY <1>1, <2>1
  <1> QED
    BY <1>2, <1>3 DEF QueueInv

LEMMA QuietKeeps == TypeOK /\ TaskInv /\ Quiet => TaskInv'
  <1> SUFFICES ASSUME TypeOK, TaskInv, Quiet PROVE TaskInv'
    OBVIOUS
  <1> USE DEF TaskInv
  <1>1. CallInv'
    BY CallFrame DEF Quiet, CallInv
  <1>2. QueueInv'
    BY QueueFrame DEF Quiet
  <1>3. TimerInv'
    BY DEF Quiet, TimerInv
  <1>4. RunInv'
    BY DEF Quiet, RunInv
  <1>5. FifoInv'
    BY DEF Quiet, FifoInv
  <1> QED
    BY <1>1, <1>2, <1>3, <1>4, <1>5

LEMMA PostTaskKeeps ==
    ASSUME TypeOK, TaskInv, NEW p \in Poster, NEW t \in Task, PostTask(p, t)
    PROVE  TaskInv'
  <1> USE DEF TaskInv
  <1> DEFINE e == [task |-> t, ms |-> Immediate, posted |-> 0]
  <1>1. e \in Entry /\ e.task = t /\ e.ms = Immediate
    BY DEF Entry
  <1>2. /\ pending_' = Append(pending_, e) /\ posted' = posted \cup {t}
        /\ fifo' = Append(fifo, t) /\ t \notin posted
        /\ \A q \in Poster : pentry[q].task # t
        /\ ppc[p] = "idle" /\ ppc' = [ppc EXCEPT ![p] = IF WritesByte THEN "write" ELSE "idle"]
        /\ UNCHANGED <<now, pending_timers_, wpc, tasks, run_task_, pentry, due, started>>
    BY DEF PostTask, Push, Fresh, worker
  <1> HIDE DEF e
  <1>3. Queue' = Append(Queue, e)
    BY <1>1, <1>2, QueueAppend
  <1>4. CallInv'
    <2>1. \A q \in Poster : ppc[q] \in {"push", "add"} <=> ppc'[q] \in {"push", "add"}
      BY <1>2 DEF TypeOK
    <2>2. \A q \in Poster : pentry[q] # NoEntry => pentry[q].task \notin posted'
      BY <1>2 DEF CallInv
    <2> QED
      BY <1>2, <2>1, <2>2, CallFrame
  <1>5. QueueInv'
    BY <1>1, <1>2, <1>3, QueueGrows
  <1>6. /\ \A i \in DOMAIN Queue : i \in DOMAIN Queue' /\ Queue'[i] = Queue[i]
        /\ \E n \in DOMAIN Queue' :
               Queue'[n].task = t /\ \A i \in DOMAIN Queue' : i = n \/ i \in DOMAIN Queue
    BY <1>1, <1>3, QueueType, AppendMembers
  <1>7. TimerInv'
    BY <1>2, <1>6 DEF TimerInv
  <1>8. RunInv'
    BY <1>2, <1>6 DEF RunInv
  <1>9. FifoInv'
    <2>1. \A i \in DOMAIN Queue : Queue[i].task # e.task
      BY <1>1, <1>2 DEF QueueInv
    <2> QED
      BY <1>1, <1>2, <1>3, <2>1, QueueType, SelectsAppend DEF FifoInv, TypeOK
  <1> QED
    BY <1>4, <1>5, <1>7, <1>8, <1>9

LEMMA PostDelayedKeeps ==
    ASSUME TypeOK, TaskInv, NEW p \in Poster, NEW t \in Task, NEW ms \in Delay,
           PostDelayedTask(p, t, ms)
    PROVE  TaskInv'
  <1> USE DEF TaskInv
  <1>1. now \in 0..MaxTime /\ ms \in Nat /\ now + ms <= MaxTime /\ Time32 \in Nat
    BY ConstantsAssumption, ClockType DEF PostDelayedTask, TypeOK
  <1>2. PICK e \in Entry : /\ e = [task |-> t, ms |-> ms, posted |-> Time32]
                           /\ e.task = t /\ e.ms = ms /\ e.posted = Time32
    <2> DEFINE d == [task |-> t, ms |-> ms, posted |-> Time32]
    <2>1. d \in Entry
      BY <1>1 DEF Entry
    <2>2. d.task = t /\ d.ms = ms /\ d.posted = Time32
      OBVIOUS
    <2> HIDE DEF d
    <2>3. \E e \in Entry : e = d /\ e.task = t /\ e.ms = ms /\ e.posted = Time32
      BY <2>1, <2>2
    <2> QED
      BY <2>3 DEF d
  <1>3. /\ pentry' = [pentry EXCEPT ![p] = e]
        /\ ppc[p] = "idle" /\ ppc' = [ppc EXCEPT ![p] = IF p = Worker THEN "add" ELSE "push"]
        /\ due' = [due EXCEPT ![t] = now + ms] /\ t \notin posted
        /\ \A q \in Poster : pentry[q].task # t
        /\ UNCHANGED <<now, pending_, pending_timers_, wpc, tasks, run_task_, posted, started,
                       fifo>>
    BY <1>2 DEF PostDelayedTask, Fresh, worker
  <1>4. due'[t] = now + ms /\ \A x \in Task \ {t} : due'[x] = due[x]
    BY <1>3 DEF TypeOK
  <1>5. e # NoEntry
    BY <1>2, NoTaskAssumption DEF NoEntry
  <1>6. TimedEntry(e)'
    <2>1. e.ms # Immediate
      BY <1>1, <1>2 DEF Immediate
    <2>2. due'[e.task] = now' + e.ms /\ due'[e.task] - e.ms = now'
      BY <1>1, <1>2, <1>3, <1>4
    <2>3. e.posted = now' % Time32Modulus
      BY <1>2, <1>3 DEF Time32
    <2> QED
      BY <1>1, <1>2, <1>3, <2>1, <2>2, <2>3 DEF TimedEntry
  <1>7. \A x \in posted : due'[x] = due[x]
    BY <1>3, <1>4 DEF TypeOK
  <1>8. CallInv'
    <2>1. pentry'[p] = e /\ \A q \in Poster \ {p} : pentry'[q] = pentry[q]
      BY <1>3 DEF TypeOK
    <2>2. /\ ppc'[p] \in {"push", "add"}
          /\ \A q \in Poster \ {p} : ppc'[q] = ppc[q]
      BY <1>3 DEF TypeOK
    <2>3. ASSUME NEW q \in Poster, pentry'[q] # NoEntry
          PROVE  pentry'[q].task \notin posted' /\ TimedEntry(pentry[q])'
      <3>1. CASE q = p
        BY <1>2, <1>3, <1>6, <2>1, <3>1
      <3>2. CASE q # p
        <4>1. PICK d \in Entry : /\ d = pentry[q] /\ d = pentry'[q]
                                 /\ d.task \notin posted /\ TimedEntry(d) /\ d.task # t
          BY <1>3, <2>1, <2>3, <3>2 DEF CallInv, TypeOK
        <4>2. due'[d.task] = due[d.task]
          BY <1>4, <4>1, EntryFields
        <4>3. TimedEntry(d)'
          BY <1>3, <4>1, <4>2, TimedStays
        <4> QED
          BY <1>3, <4>1, <4>3
      <3> QED
        BY <3>1, <3>2
    <2>4. ASSUME NEW q \in Poster, NEW r \in Poster, pentry'[q] # NoEntry,
                 pentry'[q].task = pentry'[r].task
          PROVE  q = r
      BY <1>2, <1>3, <2>1, <2>4 DEF CallInv
    <2>5. \A q \in Poster : ppc'[q] \in {"push", "add"} <=> pentry'[q] # NoEntry
      BY <1>5, <2>1, <2>2 DEF CallInv
    <2> QED
      BY <2>3, <2>4, <2>5 DEF CallInv
  <1>9. Queue' = Queue
    BY <1>3 DEF Queue
  <1>10. QueueInv'
    <2>1. wpc' \notin {"batch", "run"} => tasks' = <<>>
      BY <1>3 DEF QueueInv
    <2> QED
      BY <1>3, <1>7, <1>9, <2>1, QueueFrame
  <1>11. TimerInv'
    BY <1>3, <1>7, <1>9 DEF TimerInv
  <1>12. RunInv'
    BY <1>3, <1>9 DEF RunInv
  <1>13. FifoInv'
    BY <1>3, <1>9 DEF FifoInv
  <1> QED
    BY <1>8, <1>10, <1>11, <1>12, <1>13

\* The call of p leaves pentry.
LEMMA CallLeaves ==
    ASSUME TypeOK, CallInv, NEW p \in Poster, ppc[p] \in {"push", "add"},
           pentry' = [pentry EXCEPT ![p] = NoEntry], ppc'[p] \notin {"push", "add"},
           \A q \in Poster \ {p} : ppc'[q] = ppc[q],
           posted' = posted \cup {pentry[p].task}, UNCHANGED <<now, due>>
    PROVE  /\ CallInv'
           /\ pentry[p] \in Entry /\ TimedEntry(pentry[p]) /\ pentry[p].task \notin posted
  <1>1. pentry[p] # NoEntry
    BY DEF CallInv
  <1>2. pentry[p] \in Entry /\ TimedEntry(pentry[p]) /\ pentry[p].task \notin posted
    BY <1>1 DEF CallInv, TypeOK
  <1>3. pentry'[p] = NoEntry /\ \A q \in Poster \ {p} : pentry'[q] = pentry[q]
    BY DEF TypeOK
  <1>4. ASSUME NEW q \in Poster, pentry'[q] # NoEntry
        PROVE  pentry'[q].task \notin posted' /\ TimedEntry(pentry[q])'
    <2>1. PICK d : /\ q # p /\ d = pentry[q] /\ d = pentry'[q] /\ d.task # pentry[p].task
                   /\ d.task \notin posted /\ TimedEntry(d)
      BY <1>3, <1>4 DEF CallInv
    <2>2. TimedEntry(d)'
      BY <2>1 DEF TimedEntry
    <2> QED
      BY <2>1, <2>2
  <1>5. ASSUME NEW q \in Poster, NEW r \in Poster, pentry'[q] # NoEntry,
               pentry'[q].task = pentry'[r].task
        PROVE  q = r
    <2>1. q # p /\ pentry[q] # NoEntry /\ pentry'[q] = pentry[q] /\ pentry[q] \in Entry
      BY <1>3, <1>5 DEF TypeOK
    <2>2. r # p
      BY <1>3, <1>5, <2>1, EntryFields, NoTaskAssumption DEF NoEntry
    <2> QED
      BY <1>3, <1>5, <2>1, <2>2 DEF CallInv
  <1>6. \A q \in Poster : ppc'[q] \in {"push", "add"} <=> pentry'[q] # NoEntry
    BY <1>3 DEF CallInv
  <1> QED
    BY <1>2, <1>4, <1>5, <1>6 DEF CallInv

LEMMA PushSetTimerKeeps ==
    ASSUME TypeOK, TaskInv, NEW p \in Poster, PushSetTimer(p)
    PROVE  TaskInv'
  <1> USE DEF TaskInv
  <1>1. /\ ppc[p] = "push" /\ pentry' = [pentry EXCEPT ![p] = NoEntry]
        /\ ppc'[p] \notin {"push", "add"} /\ \A q \in Poster \ {p} : ppc'[q] = ppc[q]
        /\ pending_' = Append(pending_, pentry[p]) /\ posted' = posted \cup {pentry[p].task}
        /\ UNCHANGED <<now, pending_timers_, wpc, tasks, run_task_, due, started, fifo>>
    BY DEF PushSetTimer, Push, TypeOK, worker
  <1>2. /\ CallInv'
        /\ pentry[p] \in Entry /\ TimedEntry(pentry[p]) /\ pentry[p].task \notin posted
    BY <1>1, CallLeaves
  <1>3. PICK e \in Entry : e = pentry[p]
    BY <1>2
  <1>4. Queue' = Append(Queue, e) /\ e.ms # Immediate
    BY <1>1, <1>2, <1>3, QueueAppend DEF TimedEntry
  <1>5. QueueInv'
    BY <1>1, <1>2, <1>3, <1>4, QueueGrows
  <1>6. /\ \A i \in DOMAIN Queue : i \in DOMAIN Queue' /\ Queue'[i] = Queue[i]
        /\ \E n \in DOMAIN Queue' :
               Queue'[n] = e /\ \A i \in DOMAIN Queue' : i = n \/ i \in DOMAIN Queue
    BY <1>4, QueueType, AppendMembers
  <1>7. TimerInv'
    BY <1>1, <1>2, <1>3, <1>6 DEF TimerInv
  <1>8. RunInv'
    BY <1>1, <1>2, <1>3, <1>6 DEF RunInv
  <1>9. FifoInv'
    <2>1. \A i \in DOMAIN Queue : Queue[i].task # e.task
      BY <1>2, <1>3 DEF QueueInv
    <2> QED
      BY <1>1, <1>4, <2>1, QueueType, SelectsAppendTimer DEF FifoInv, TypeOK
  <1> QED
    BY <1>2, <1>5, <1>7, <1>8, <1>9

LEMMA SetTimerKeeps ==
    ASSUME TypeOK, TaskInv, SetTimer
    PROVE  TaskInv'
  <1> USE DEF TaskInv
  <1>1. Worker \in Poster
    BY DEF Poster
  <1>2. /\ ppc[Worker] = "add" /\ pentry' = [pentry EXCEPT ![Worker] = NoEntry]
        /\ ppc'[Worker] \notin {"push", "add"} /\ \A q \in Poster \ {Worker} : ppc'[q] = ppc[q]
        /\ posted' = posted \cup {pentry[Worker].task}
        /\ UNCHANGED <<now, pending_, wpc, tasks, run_task_, due, started, fifo>>
    BY <1>1 DEF SetTimer, TypeOK, worker
  <1>3. /\ CallInv'
        /\ pentry[Worker] \in Entry /\ TimedEntry(pentry[Worker])
        /\ pentry[Worker].task \notin posted
    BY <1>1, <1>2, CallLeaves
  <1>4. PICK e \in Entry : e = pentry[Worker]
    BY <1>3
  <1>5. pending_timers_' = pending_timers_ \cup {[task |-> e.task, at |-> now + e.ms]}
    BY <1>4 DEF SetTimer, AddTimer
  <1>6. Queue' = Queue
    BY <1>2 DEF Queue
  <1>7. QueueInv'
    <2>1. wpc' \notin {"batch", "run"} => tasks' = <<>>
      BY <1>2 DEF QueueInv
    <2>2. posted \subseteq posted'
      BY <1>2
    <2> QED
      BY <1>2, <1>6, <2>1, <2>2, QueueFrame
  <1>8. TimerInv'
    <2>1. /\ due[e.task] # Immediate /\ due[e.task] <= now + e.ms /\ due[e.task] <= MaxTime
          /\ e.task \notin started
      <3>1. now \in Nat /\ e.ms \in Nat /\ due[e.task] \in Int
        BY <1>3, <1>4, ConstantsAssumption, EntryFields DEF TypeOK, TimedEntry, Immediate
      <3> QED
        BY <1>3, <1>4, <3>1 DEF TimedEntry, Immediate, RunInv
    <2>2. \A i \in DOMAIN Queue : Queue[i].task # e.task
      BY <1>3, <1>4 DEF QueueInv
    <2>3. PICK new : new = [task |-> e.task, at |-> now + e.ms]
      OBVIOUS
    <2>4. new.task = e.task /\ new.at = now + e.ms
      BY <2>3
    <2> QED
      BY <1>2, <1>4, <1>5, <1>6, <2>1, <2>2, <2>3, <2>4 DEF TimerInv
  <1>9. RunInv'
    <2>1. \E timer \in pending_timers_' : timer.task = e.task
      <3>1. [task |-> e.task, at |-> now + e.ms].task = e.task
        OBVIOUS
      <3> QED
        BY <1>5, <3>1, Zenon
    <2>2. pending_timers_ \subseteq pending_timers_'
      BY <1>5
    <2> QED
      BY <1>2, <1>4, <1>6, <2>1, <2>2 DEF RunInv
  <1>10. FifoInv'
    BY <1>2, <1>6 DEF FifoInv
  <1> QED
    BY <1>3, <1>7, <1>8, <1>9, <1>10

\* Tasks start only when none is running, so that no timer's task has started.
LEMMA NoneRuns ==
    ASSUME TypeOK, TaskInv, wpc \notin {"run", "timer"}
    PROVE  run_task_ = NoTask /\ \A timer \in pending_timers_ : timer.task \notin started
  BY DEF TaskInv, RunInv, TimerInv

LEMMA RunFromBatchKeeps ==
    ASSUME TypeOK, TaskInv, RunFromBatch
    PROVE  /\ TaskInv'
           /\ Head(tasks) \in Entry /\ Head(tasks).task \in posted \ started
           /\ fifo # <<>> /\ Head(fifo) = Head(tasks).task
  <1> USE DEF TaskInv
  <1>1. /\ wpc = "batch" /\ wpc' = "run" /\ tasks # <<>> /\ tasks' = Tail(tasks)
        /\ Head(tasks).ms = Immediate /\ run_task_' = Head(tasks).task
        /\ started' = started \cup {Head(tasks).task} /\ fifo' = Tail(fifo)
        /\ UNCHANGED <<now, pending_, pending_timers_, ppc, pentry, posted, due>>
    BY DEF RunFromBatch, WorkerUnchanged, calls
  <1>2. /\ Queue # <<>> /\ Head(Queue) = Head(tasks) /\ Queue' = Tail(Queue)
        /\ Head(Queue) \in Entry
    BY <1>1, QueueTaken
  <1>3. PICK e \in Entry : e = Head(Queue) /\ e = Head(tasks)
    BY <1>2
  <1>4. /\ 1 \in DOMAIN Queue /\ e = Queue[1]
        /\ \A i \in DOMAIN Queue' : i + 1 \in DOMAIN Queue /\ Queue'[i] = Queue[i + 1]
        /\ \A i \in DOMAIN Queue : i = 1 \/ \E j \in DOMAIN Queue' : Queue'[j] = Queue[i]
    BY <1>2, <1>3, QueueType, TailMembers
  <1>5. e.task \in posted \ started
    BY <1>4 DEF QueueInv
  <1>6. QueueInv' /\ \A i \in DOMAIN Queue' : Queue'[i].task # e.task
    BY <1>1, <1>2, <1>3, QueueShrinks
  <1>7. CallInv'
    BY <1>1, CallFrame DEF CallInv
  <1>8. run_task_ = NoTask /\ \A timer \in pending_timers_ : timer.task \notin started
    BY <1>1, NoneRuns
  <1>9. TimerInv'
    <2>1. \A timer \in pending_timers_ : timer.task # e.task
      BY <1>4 DEF TimerInv
    <2>2. ASSUME NEW timer \in pending_timers_, NEW i \in DOMAIN Queue'
          PROVE  Queue'[i].task # timer.task
      BY <1>4 DEF TimerInv
    <2> QED
      BY <1>1, <1>3, <1>8, <2>1, <2>2 DEF TimerInv
  <1>10. RunInv'
    <2>1. run_task_' # NoTask
      BY <1>1, <1>3, EntryFields, NoTaskAssumption
    <2>2. ASSUME NEW t \in posted' \ started'
          PROVE  \/ \E i \in DOMAIN Queue' : Queue'[i].task = t
                 \/ \E timer \in pending_timers_' : timer.task = t
      <3>1. t \in posted \ started /\ t # e.task
        BY <1>1, <1>3
      <3>2. CASE \E i \in DOMAIN Queue : Queue[i].task = t
        BY <1>4, <3>1, <3>2
      <3>3. CASE \E timer \in pending_timers_ : timer.task = t
        BY <1>1, <3>3
      <3> QED
        BY <1>1, <3>1, <3>2, <3>3 DEF RunInv
    <2> QED
      BY <1>1, <1>3, <1>5, <2>1, <2>2 DEF RunInv
  <1>11. /\ fifo # <<>> /\ Head(fifo) = e.task /\ FifoInv'
    BY <1>1, <1>2, <1>3, QueueType, SelectsHead DEF FifoInv, QueueInv, TypeOK
  <1> QED
    BY <1>3, <1>5, <1>6, <1>7, <1>9, <1>10, <1>11

\* The clock's modulus cannot make a delay longer.
LEMMA ElapsedTime ==
    ASSUME NEW M \in Nat \ {0}, NEW x \in Nat, NEW y \in Nat, y <= x
    PROVE  ((x % M) - (y % M)) % M \in Nat /\ ((x % M) - (y % M)) % M <= x - y
  <1>1. ((x % M) - (y % M)) % M <= x - y
    BY SMTT(60)
  <1>2. (x % M) - (y % M) \in Int
    OBVIOUS
  <1> QED
    BY <1>1, <1>2

\* A timer that is set with the remaining delay does not expire early.
LEMMA RemainingLate ==
    ASSUME TypeOK, NEW e \in Entry, TimedEntry(e)
    PROVE  /\ due[e.task] # Immediate /\ due[e.task] <= MaxTime
           /\ due[e.task] <= now + Remaining(e)
  <1>1. now \in Nat /\ e.ms \in Nat /\ due[e.task] \in Int
    BY ConstantsAssumption, EntryFields DEF TypeOK, TimedEntry, Immediate
  <1>2. PICK y \in Nat : y = due[e.task] - e.ms /\ y <= now /\ e.posted = y % Time32Modulus
    BY <1>1 DEF TimedEntry
  <1>3. PICK elapsed \in Nat :
            elapsed = (Time32 - e.posted) % Time32Modulus /\ elapsed <= now - y
    <2>1. PICK M \in Nat \ {0} : M = Time32Modulus
      BY ConstantsAssumption
    <2>2. ((now % M) - (y % M)) % M \in Nat /\ ((now % M) - (y % M)) % M <= now - y
      BY <1>1, <1>2, ElapsedTime, Zenon
    <2>3. (Time32 - e.posted) % Time32Modulus = ((now % M) - (y % M)) % M
      BY <1>2, <2>1 DEF Time32
    <2> QED
      BY <2>2, <2>3
  <1>4. Remaining(e) = IF elapsed > e.ms THEN 0 ELSE e.ms - elapsed
    BY <1>3 DEF Remaining
  <1> QED
    BY <1>1, <1>2, <1>3, <1>4 DEF TimedEntry, Immediate

LEMMA RunSetTimerKeeps ==
    ASSUME TypeOK, TaskInv, RunSetTimer
    PROVE  TaskInv'
  <1> USE DEF TaskInv
  <1>1. /\ wpc = "batch" /\ wpc' = "batch" /\ tasks # <<>> /\ tasks' = Tail(tasks)
        /\ Head(tasks).ms # Immediate
        /\ AddTimer(Head(tasks).task, Remaining(Head(tasks)))
        /\ UNCHANGED <<now, pending_, ppc, pentry, posted, due, run_task_, started, fifo>>
    BY DEF RunSetTimer, WorkerUnchanged, calls
  <1>2. /\ Queue # <<>> /\ Head(Queue) = Head(tasks) /\ Queue' = Tail(Queue)
        /\ Head(Queue) \in Entry
    BY <1>1, QueueTaken
  <1>3. PICK e \in Entry : e = Head(Queue) /\ e = Head(tasks)
    BY <1>2
  <1>4. /\ 1 \in DOMAIN Queue /\ e = Queue[1]
        /\ \A i \in DOMAIN Queue' : i + 1 \in DOMAIN Queue /\ Queue'[i] = Queue[i + 1]
        /\ \A i \in DOMAIN Queue : i = 1 \/ \E j \in DOMAIN Queue' : Queue'[j] = Queue[i]
    BY <1>2, <1>3, QueueType, TailMembers
  <1>5. e.task \in posted \ started /\ TimedEntry(e)
    BY <1>1, <1>3, <1>4 DEF QueueInv
  <1>6. QueueInv' /\ \A i \in DOMAIN Queue' : Queue'[i].task # e.task
    BY <1>1, <1>2, <1>3, QueueShrinks
  <1>7. CallInv'
    BY <1>1, CallFrame DEF CallInv
  <1>8. PICK new : new.task = e.task /\ new.at = now + Remaining(e)
                   /\ pending_timers_' = pending_timers_ \cup {new}
    BY <1>1, <1>3 DEF AddTimer
  <1>9. TimerInv'
    <2>1. /\ due[e.task] # Immediate /\ due[e.task] <= new.at /\ due[e.task] <= MaxTime
      BY <1>5, <1>8, RemainingLate
    <2>2. ASSUME NEW timer \in pending_timers_, NEW i \in DOMAIN Queue'
          PROVE  Queue'[i].task # timer.task
      BY <1>4 DEF TimerInv
    <2> QED
      BY <1>1, <1>5, <1>6, <1>8, <2>1, <2>2 DEF TimerInv
  <1>10. RunInv'
    <2>1. ASSUME NEW t \in posted' \ started'
          PROVE  \/ \E i \in DOMAIN Queue' : Queue'[i].task = t
                 \/ \E timer \in pending_timers_' : timer.task = t
      <3>1. CASE t = e.task
        BY <1>8, <3>1
      <3>2. CASE t # e.task /\ \E i \in DOMAIN Queue : Queue[i].task = t
        BY <1>4, <3>2
      <3>3. CASE \E timer \in pending_timers_ : timer.task = t
        BY <1>8, <3>3
      <3> QED
        BY <1>1, <3>1, <3>2, <3>3 DEF RunInv
    <2> QED
      BY <1>1, <2>1 DEF RunInv
  <1>11. FifoInv'
    BY <1>1, <1>2, QueueType, SelectsTail DEF FifoInv, TypeOK
  <1> QED
    BY <1>6, <1>7, <1>9, <1>10, <1>11

LEMMA RunTimerKeeps ==
    ASSUME TypeOK, TaskInv, NEW timer \in pending_timers_, RunTimer(timer)
    PROVE  TaskInv'
  <1> USE DEF TaskInv
  <1>1. /\ wpc = "loop" /\ wpc' = "timer" /\ run_task_' = timer.task
        /\ started' = started \cup {timer.task}
        /\ UNCHANGED <<now, pending_, pending_timers_, tasks, ppc, pentry, posted, due, fifo>>
    BY DEF RunTimer, WorkerUnchanged, calls
  <1>2. timer.task \in Task /\ timer.task # NoTask
    BY NoTaskAssumption DEF TypeOK
  <1>3. run_task_ = NoTask /\ \A x \in pending_timers_ : x.task \notin started
    BY <1>1, NoneRuns
  <1>4. Queue' = Queue /\ \A i \in DOMAIN Queue : Queue[i].task # timer.task
    BY <1>1 DEF Queue, TimerInv
  <1>5. CallInv'
    BY <1>1, CallFrame DEF CallInv
  <1>6. QueueInv'
    <2>1. \A i \in DOMAIN Queue : Queue[i].task \in posted' \ started'
      BY <1>1, <1>4 DEF QueueInv
    <2>2. \A d : TimedEntry(d) => TimedEntry(d)'
      BY <1>1 DEF TimedEntry
    <2> QED
      BY <1>1, <1>4, <2>1, <2>2 DEF QueueInv
  <1>7. TimerInv'
    BY <1>1, <1>3, <1>4 DEF TimerInv
  <1>8. RunInv'
    BY <1>1, <1>2, <1>4 DEF RunInv, TimerInv
  <1>9. FifoInv'
    BY <1>1, <1>4 DEF FifoInv
  <1> QED
    BY <1>5, <1>6, <1>7, <1>8, <1>9

LEMMA ReturnKeeps ==
    ASSUME TypeOK, TaskInv, TaskReturns
    PROVE  TaskInv'
  <1> USE DEF TaskInv
  <1>1. /\ wpc \in {"run", "timer"} /\ wpc' = IF wpc = "run" THEN "batch" ELSE "loop"
        /\ run_task_' = NoTask
        /\ pending_timers_' = IF wpc = "run" THEN pending_timers_
                              ELSE {timer \in pending_timers_ : timer.task # run_task_}
        /\ UNCHANGED <<now, pending_, tasks, ppc, pentry, posted, due, started, fifo>>
    BY DEF TaskReturns, BatchTaskReturns, TimerTaskReturns, WorkerUnchanged, calls
  <1>2. Queue' = Queue
    BY <1>1 DEF Queue
  <1>3. CallInv'
    BY <1>1, CallFrame DEF CallInv
  <1>4. QueueInv'
    <2>1. wpc' \notin {"batch", "run"} => tasks' = <<>>
      BY <1>1 DEF QueueInv
    <2> QED
      BY <1>1, <1>2, <2>1, QueueFrame
  <1>5. TimerInv'
    BY <1>1, <1>2 DEF TimerInv
  <1>6. RunInv'
    <2>1. run_task_ \in started
      BY <1>1 DEF RunInv
    <2> QED
      BY <1>1, <1>2, <2>1 DEF RunInv
  <1>7. FifoInv'
    BY <1>1, <1>2 DEF FifoInv
  <1> QED
    BY <1>3, <1>4, <1>5, <1>6, <1>7

LEMMA DeleteJoinsKeeps ==
    ASSUME TypeOK, TaskInv, DeleteJoins
    PROVE  TaskInv'
  <1> USE DEF TaskInv
  <1>1. /\ wpc = "exited" /\ wpc' = "exited" /\ pending_' = <<>> /\ fifo' = <<>>
        /\ UNCHANGED <<now, pending_timers_, tasks, run_task_, ppc, pentry, posted, due,
                       started>>
    BY DEF DeleteJoins, worker, calls
  <1>2. tasks = <<>>
    BY <1>1 DEF QueueInv
  <1>3. Queue' = <<>>
    BY <1>1, <1>2 DEF Queue
  <1>4. CallInv'
    BY <1>1, CallFrame DEF CallInv
  <1>5. QueueInv' /\ TimerInv' /\ RunInv'
    BY <1>1, <1>2, <1>3 DEF QueueInv, TimerInv, RunInv
  <1>6. FifoInv'
    BY <1>1, <1>3, SelectsNothing DEF FifoInv
  <1> QED
    BY <1>4, <1>5, <1>6

LEMMA TaskInvStep ==
    ASSUME TypeOK, Inv, TaskInv, [Next]_vars
    PROVE  TaskInv'
  <1>1. ASSUME \/ ReadByte \/ SwapPending \/ BatchDone \/ ThreadMainReturns
               \/ \E p \in Poster : WriteByte(p)
               \/ Delete \/ DeleteWrites \/ Tick \/ UNCHANGED vars
        PROVE  TaskInv'
    BY <1>1, QuietStep, QuietKeeps DEF TaskInv
  <1>2. ASSUME NEW p \in Poster, PostBegins(p) PROVE TaskInv'
    BY <1>2, PostTaskKeeps, PostDelayedKeeps DEF PostBegins
  <1>3. ASSUME NEW p \in Poster, PushSetTimer(p) PROVE TaskInv'
    BY <1>3, PushSetTimerKeeps
  <1> QED
    BY <1>1, <1>2, <1>3, SetTimerKeeps, RunFromBatchKeeps, RunSetTimerKeeps, RunTimerKeeps,
       ReturnKeeps, DeleteJoinsKeeps
    DEF Next, WorkerStep, PostContinues, OwnerContinues, Terminated

LEMMA TaskInvInit == Init => TaskInv
  <1> SUFFICES ASSUME Init PROVE TaskInv
    OBVIOUS
  <1>1. Queue = <<>>
    BY DEF Init, Queue
  <1>2. CallInv
    BY DEF Init, CallInv
  <1>3. QueueInv /\ TimerInv /\ RunInv
    BY <1>1 DEF Init, QueueInv, TimerInv, RunInv
  <1>4. FifoInv
    BY <1>1, SelectsNothing DEF Init, FifoInv
  <1> QED
    BY <1>2, <1>3, <1>4 DEF TaskInv

\* The inductive invariant holds in every reachable state.
LEMMA InvCorrect == Spec => [](TypeOK /\ Inv /\ TaskInv)
  <1>1. TypeOK /\ Inv /\ TaskInv /\ [Next]_vars => (TypeOK /\ Inv /\ TaskInv)'
    <2> SUFFICES ASSUME TypeOK, Inv, TaskInv, [Next]_vars
                 PROVE  TypeOK' /\ Inv' /\ TaskInv'
      OBVIOUS
    <2>1. Inv' /\ TaskInv'
      BY InvStep, TaskInvStep
    <2>2. CallType' /\ WorkerType' /\ HistoryType'
      BY CallStep, WorkerTypeStep, HistoryTypeStep
    <2>3. TypeOK'
      BY <2>1, <2>2, PipeFits
      DEF Inv, BasicType, CallType, WorkerType, HistoryType, TypeOK
    <2> QED
      BY <2>1, <2>3
  <1> QED
    BY <1>1, InvInit, TypeInit, TaskInvInit, PTL DEF Spec

\* The variables keep their types and no PostTask meets a full pipe, whatever
\* the number of posters and tasks, as long as the pipe holds two bytes.
THEOREM TypeCorrect == Spec => []TypeOK
  BY InvCorrect, PTL

\* Exactly one wake is on its way while tasks are pending, and none otherwise:
\* PostTask may write one byte per batch and OnWakeup never finds an empty
\* batch, for any number of posters.
THEOREM WakeCorrect == Spec => []OneWakePerBatch
  <1>1. Inv => OneWakePerBatch
    <2> SUFFICES ASSUME Inv PROVE OneWakePerBatch
      OBVIOUS
    <2> DEFINE InPipe == {j \in DOMAIN pipe : pipe[j] = "kRunTasks"}
               Writers == {q \in Poster : ppc[q] = "write"}
    <2>1. \A w : w \in Wakes <=> \/ \E i \in InPipe : w = <<"pipe", i>>
                                 \/ \E p \in Writers : w = <<"poster", p>>
                                 \/ w = <<"worker", 0>> /\ wpc = "woken"
      BY Zenon DEF Wakes
    <2>2. RunIn(pipe) => \E i \in InPipe : \A j \in InPipe : j = i
      BY DEF RunIn, Run, Quit
    <2>3. ~RunIn(pipe) => InPipe = {}
      BY DEF RunIn, Run, Quit, Inv, PipeContents
    <2>4. /\ NobodyWrites => Writers = {}
          /\ OneWrites => \E p \in Writers : \A q \in Writers : q = p
      BY DEF NobodyWrites, OneWrites
    <2> HIDE DEF InPipe, Writers
    <2>5. CASE pending_ = <<>>
      <3>1. InPipe = {} /\ Writers = {} /\ wpc # "woken"
        BY <2>3, <2>4, <2>5 DEF Inv, WakeInv
      <3>2. \A w : w \notin Wakes
        BY <2>1, <3>1, Zenon
      <3> QED
        BY <2>5, <3>2 DEF OneWakePerBatch
    <2>6. CASE pending_ # <<>>
      <3>a. ASSUME RunIn(pipe) /\ NobodyWrites /\ wpc # "woken"
            PROVE  Wakes # {} /\ \A x, y \in Wakes : x = y
        <4>1. PICK i \in InPipe : \A j \in InPipe : j = i
          BY <2>2, <3>a
        <4>2. Writers = {} /\ wpc # "woken"
          BY <2>4, <3>a
        <4>3. Wakes = {<<"pipe", i>>}
          BY <2>1, <4>1, <4>2, Zenon
        <4> QED
          BY <4>3
      <3>b. ASSUME ~RunIn(pipe) /\ OneWrites /\ wpc # "woken"
            PROVE  Wakes # {} /\ \A x, y \in Wakes : x = y
        <4>1. PICK p \in Writers : \A q \in Writers : q = p
          BY <2>4, <3>b
        <4>2. InPipe = {} /\ wpc # "woken"
          BY <2>3, <3>b
        <4>3. Wakes = {<<"poster", p>>}
          BY <2>1, <4>1, <4>2, Zenon
        <4> QED
          BY <4>3
      <3>c. ASSUME ~RunIn(pipe) /\ NobodyWrites /\ wpc = "woken"
            PROVE  Wakes # {} /\ \A x, y \in Wakes : x = y
        <4>1. InPipe = {} /\ Writers = {} /\ wpc = "woken"
          BY <2>3, <2>4, <3>c
        <4>2. Wakes = {<<"worker", 0>>}
          BY <2>1, <4>1, Zenon
        <4> QED
          BY <4>2
      <3>2. Wakes # {} /\ \A x, y \in Wakes : x = y
        BY <2>6, <3>a, <3>b, <3>c DEF Inv, WakeInv
      <3> QED
        BY <2>6, <3>2, Zenon DEF OneWakePerBatch
    <2> QED
      BY <2>5, <2>6
  <1> QED
    BY <1>1, InvCorrect, PTL

\* Delete frees the object only when its worker has left it and no call is in
\* progress, for any number of posters.
THEOREM DeleteCorrect == Spec => []NoUseAfterDelete
  <1>1. Inv => NoUseAfterDelete
    BY DEF Inv, LifeInv, NoUseAfterDelete, Poster
  <1> QED
    BY <1>1, InvCorrect, PTL

-----------------------------------------------------------------------------
(* The queue is a TaskQueueBase.                                           *)

\* None of the tasks is lost, so that their phases are what they seem.
SeenPhase(t) ==
    IF run_task_ = t THEN "running"
    ELSE IF t \in started THEN "done"
    ELSE IF \E p \in Poster : pentry[p].task = t THEN "called"
    ELSE IF t \in posted THEN (IF opc = "deleted" THEN "dropped" ELSE "queued")
    ELSE "new"

LEMMA PhaseSeen ==
    ASSUME TypeOK, TaskInv, NEW t \in Task
    PROVE  PhaseOf(t) = SeenPhase(t)
  <1>1. ASSUME t \in posted \ started PROVE Waiting(t) \/ wpc = "exited"
    <2>1. ASSUME NEW i \in DOMAIN Queue, Queue[i].task = t PROVE Waiting(t)
      <3>1. /\ tasks \in Seq(Entry) /\ pending_ \in Seq(Entry)
            /\ Len(tasks) \in Nat /\ DOMAIN tasks = 1..Len(tasks)
            /\ Len(pending_) \in Nat /\ DOMAIN pending_ = 1..Len(pending_)
        BY LenProperties DEF TypeOK
      <3>2. /\ i \in 1..(Len(tasks) + Len(pending_))
            /\ Queue[i] = IF i <= Len(tasks) THEN tasks[i] ELSE pending_[i - Len(tasks)]
        BY <3>1, ConcatProperties, LenProperties DEF Queue
      <3>3. CASE i <= Len(tasks)
        BY <2>1, <3>1, <3>2, <3>3 DEF Waiting
      <3>4. CASE ~(i <= Len(tasks))
        <4>1. i - Len(tasks) \in DOMAIN pending_
          BY <3>1, <3>2, <3>4
        <4> QED
          BY <2>1, <3>2, <3>4, <4>1 DEF Waiting
      <3> QED
        BY <3>3, <3>4
    <2> QED
      BY <1>1, <2>1 DEF TaskInv, RunInv, Waiting
  <1>2. ASSUME NEW p \in Poster, pentry[p].task = t PROVE t \notin posted
    <2>1. pentry[p] # NoEntry
      BY <1>2, NoTaskAssumption DEF NoEntry
    <2> QED
      BY <1>2, <2>1 DEF TaskInv, CallInv
  <1>3. started \subseteq posted /\ (run_task_ = t => t \in started)
    BY NoTaskAssumption DEF TaskInv, RunInv
  <1>4. CASE run_task_ = t
    BY <1>2, <1>3, <1>4 DEF PhaseOf, SeenPhase
  <1>5. CASE run_task_ # t /\ t \in started
    BY <1>2, <1>3, <1>5 DEF PhaseOf, SeenPhase
  <1>6. CASE run_task_ # t /\ t \notin started /\ \E p \in Poster : pentry[p].task = t
    BY <1>2, <1>6 DEF PhaseOf, SeenPhase
  <1>7. CASE run_task_ # t /\ t \notin started /\ \A p \in Poster : pentry[p].task # t
    BY <1>1, <1>7 DEF PhaseOf, SeenPhase
  <1> QED
    BY <1>4, <1>5, <1>6, <1>7

LEMMA PhasesSeen == TypeOK /\ TaskInv => \A t \in Task : PhaseOf(t) = SeenPhase(t)
  BY PhaseSeen

LEMMA PhasesSeenNext ==
    (TypeOK /\ TaskInv)' => \A t \in Task : PhaseOf(t)' = SeenPhase(t)'
  <1>1. (TypeOK /\ TaskInv)' => (\A t \in Task : PhaseOf(t) = SeenPhase(t))'
    BY PhasesSeen, PTL
  <1> QED
    BY <1>1

LEMMA InitImplements == Init => Base!Init
  <1> SUFFICES ASSUME Init PROVE Base!Init
    OBVIOUS
  <1>1. TypeOK /\ TaskInv
    BY TypeInit, TaskInvInit
  <1>2. ASSUME NEW t \in Task PROVE PhaseOf(t) = "new"
    BY <1>1, PhaseSeen, NoTaskAssumption DEF Init, SeenPhase, NoEntry
  <1> QED
    BY <1>2 DEF Base!Init, Init, State, Immediate, Base!Immediate

\* A task runs when run_task_ says so.
LEMMA BusyWorker ==
    ASSUME TypeOK, TaskInv
    PROVE  Base!Busy <=> run_task_ # NoTask
  <1>1. \A t \in Task : PhaseOf(t) = "running" <=> run_task_ = t
    BY PhaseSeen DEF SeenPhase
  <1> QED
    BY <1>1, NoTaskAssumption DEF Base!Busy, TypeOK

\* Only one task changes its phase.
LEMMA OneMoves ==
    ASSUME NEW t \in Task, NEW ph, PhaseOf(t)' = ph,
           \A u \in Task \ {t} : PhaseOf(u)' = PhaseOf(u)
    PROVE  [u \in Task |-> PhaseOf(u)]' = [[u \in Task |-> PhaseOf(u)] EXCEPT ![t] = ph]
  OBVIOUS

\* What a step is to TaskQueueBase.
BaseStep == Base!Next \/ UNCHANGED Base!vars

\* The inductive invariant.
AllInv == TypeOK /\ Inv /\ TaskInv

LEMMA SamePhases ==
    ASSUME AllInv, AllInv', UNCHANGED <<run_task_, started, posted, pentry>>,
           (opc = "deleted") <=> (opc' = "deleted")
    PROVE  /\ \A t \in Task : PhaseOf(t)' = PhaseOf(t)
           /\ [t \in Task |-> PhaseOf(t)]' = [t \in Task |-> PhaseOf(t)]
  <1>1. \A t \in Task : SeenPhase(t)' = SeenPhase(t)
    BY DEF SeenPhase
  <1>2. \A t \in Task : PhaseOf(t)' = PhaseOf(t)
    BY <1>1, PhasesSeen, PhasesSeenNext DEF AllInv
  <1> QED
    BY <1>2

LEMMA QuietImplements ==
    ASSUME AllInv, AllInv',
           \/ ReadByte \/ SwapPending \/ BatchDone \/ ThreadMainReturns \/ RunSetTimer
           \/ \E p \in Poster : WriteByte(p)
           \/ Delete \/ DeleteWrites \/ Tick \/ UNCHANGED vars
    PROVE  BaseStep
  <1>1. UNCHANGED <<run_task_, started, posted, pentry, due, fifo>>
    BY DEF ReadByte, SwapPending, BatchDone, ThreadMainReturns, RunSetTimer, WorkerUnchanged,
           WriteByte, Delete, DeleteWrites, Tick, vars, worker, calls, history
  <1>2. \/ UNCHANGED <<now, State>> /\ (opc = "deleted" <=> opc' = "deleted")
        \/ Delete
        \/ Tick
    BY DEF ReadByte, SwapPending, BatchDone, ThreadMainReturns, RunSetTimer, WorkerUnchanged,
           WriteByte, DeleteWrites, vars, State
  <1>3. opc = "deleted" <=> opc' = "deleted"
    BY <1>2 DEF Delete, Tick
  <1>4. [t \in Task |-> PhaseOf(t)]' = [t \in Task |-> PhaseOf(t)]
    BY <1>1, <1>3, SamePhases
  <1>5. CASE UNCHANGED <<now, State>>
    BY <1>1, <1>4, <1>5 DEF BaseStep, Base!vars
  <1>6. CASE Delete
    <2>1. State = "live" /\ State' = "deleting" /\ now' = now
      BY <1>6 DEF Delete, State
    <2> QED
      BY <1>1, <1>4, <2>1 DEF BaseStep, Base!Next, Base!Delete
  <1>7. CASE Tick
    <2>1. State' = State /\ now < MaxTime /\ now' = now + 1
      BY <1>7 DEF Tick, State
    <2> QED
      BY <1>1, <1>4, <2>1 DEF BaseStep, Base!Next, Base!Tick
  <1> QED
    BY <1>2, <1>5, <1>6, <1>7

\* Who may post to the queue may post to the TaskQueueBase.
LEMMA MayPostImplements ==
    ASSUME AllInv, NEW p \in Poster, MayPost(p)
    PROVE  Base!MayPost
  <1>1. CASE p = Worker
    <2>1. run_task_ # NoTask
      BY <1>1 DEF MayPost
    <2>2. Base!Busy
      BY <2>1, BusyWorker DEF AllInv
    <2>3. opc # "deleted"
      BY <2>1 DEF AllInv, Inv, LifeInv
    <2> QED
      BY <2>2, <2>3 DEF Base!MayPost, State
  <1>2. CASE p # Worker
    BY <1>2 DEF MayPost, Base!MayPost, State
  <1> QED
    BY <1>1, <1>2

\* A task that nobody has posted is new.
LEMMA FreshIsNew ==
    ASSUME AllInv, NEW t \in Task, Fresh(t)
    PROVE  PhaseOf(t) = "new" /\ SeenPhase(t) = "new" /\ run_task_ # t /\ t \notin started
  <1>1. run_task_ # t /\ t \notin started
    BY NoTaskAssumption DEF AllInv, TaskInv, RunInv, Fresh
  <1>2. SeenPhase(t) = "new"
    BY <1>1 DEF SeenPhase, Fresh
  <1> QED
    BY <1>1, <1>2, PhaseSeen DEF AllInv

LEMMA PostTaskImplements ==
    ASSUME AllInv, AllInv', NEW p \in Poster, NEW t \in Task, PostTask(p, t)
    PROVE  BaseStep
  <1>1. /\ posted' = posted \cup {t} /\ fifo' = Append(fifo, t)
        /\ UNCHANGED <<now, opc, due, started, run_task_, pentry>>
        /\ MayPost(p) /\ Fresh(t)
    BY DEF PostTask, Push, worker
  <1>2. PhaseOf(t) = "new" /\ run_task_ # t /\ t \notin started
    BY <1>1, FreshIsNew
  <1>3. Base!MayPost
    BY <1>1, MayPostImplements
  <1>4. opc # "deleted"
    BY <1>1 DEF MayPost, AllInv, Inv, LifeInv
  <1>5. SeenPhase(t)' = "queued"
    BY <1>1, <1>2, <1>4 DEF SeenPhase, Fresh
  <1>6. \A u \in Task \ {t} : SeenPhase(u)' = SeenPhase(u)
    BY <1>1 DEF SeenPhase
  <1>7. [u \in Task |-> PhaseOf(u)]' = [[u \in Task |-> PhaseOf(u)] EXCEPT ![t] = "queued"]
    BY <1>5, <1>6, PhasesSeen, PhasesSeenNext, OneMoves DEF AllInv
  <1>8. Base!PostTask(t)
    BY <1>1, <1>2, <1>3, <1>7 DEF Base!PostTask, State
  <1> QED
    BY <1>8 DEF BaseStep, Base!Next

LEMMA PostDelayedTaskImplements ==
    ASSUME AllInv, AllInv', NEW p \in Poster, NEW t \in Task, NEW ms \in Delay,
           PostDelayedTask(p, t, ms)
    PROVE  BaseStep
  <1>1. /\ pentry' = [pentry EXCEPT ![p] = [task |-> t, ms |-> ms, posted |-> Time32]]
        /\ due' = [due EXCEPT ![t] = now + ms] /\ ppc[p] = "idle"
        /\ UNCHANGED <<now, opc, posted, started, run_task_, fifo>>
        /\ MayPost(p) /\ Fresh(t)
    BY DEF PostDelayedTask, worker
  <1>2. PhaseOf(t) = "new" /\ run_task_ # t /\ t \notin started
    BY <1>1, FreshIsNew
  <1>3. Base!MayPost
    BY <1>1, MayPostImplements
  <1>4. pentry[p] = NoEntry /\ pentry \in [Poster -> Entry \cup {NoEntry}]
    BY <1>1 DEF AllInv, TaskInv, CallInv, TypeOK
  <1>5. \A u \in Task : (\E q \in Poster : pentry'[q].task = u)
                            <=> u = t \/ \E q \in Poster : pentry[q].task = u
    <2>1. pentry'[p].task = t
      BY <1>1, <1>4
    <2>2. \A q \in Poster \ {p} : pentry'[q] = pentry[q]
      BY <1>1, <1>4
    <2>3. \A u \in Task : pentry[p].task # u
      BY <1>4, NoTaskAssumption DEF NoEntry
    <2> QED
      BY <2>1, <2>2, <2>3
  <1>6. SeenPhase(t)' = "called"
    BY <1>1, <1>2, <1>5 DEF SeenPhase
  <1>7. \A u \in Task \ {t} : SeenPhase(u)' = SeenPhase(u)
    BY <1>1, <1>5 DEF SeenPhase
  <1>8. [u \in Task |-> PhaseOf(u)]' = [[u \in Task |-> PhaseOf(u)] EXCEPT ![t] = "called"]
    BY <1>6, <1>7, PhasesSeen, PhasesSeenNext, OneMoves DEF AllInv
  <1>9. Base!CallPostDelayedTask(t, ms)
    BY <1>1, <1>2, <1>3, <1>8 DEF Base!CallPostDelayedTask, State
  <1> QED
    BY <1>9 DEF BaseStep, Base!Next

\* The call brings its task to the queue, as a SetTimerTask or as a timer.
LEMMA CallImplements ==
    ASSUME AllInv, AllInv', NEW p \in Poster, PushSetTimer(p) \/ (p = Worker /\ SetTimer)
    PROVE  BaseStep
  <1>1. ppc[p] \in {"push", "add"}
    BY DEF PushSetTimer, SetTimer
  <1>2. PICK e \in Entry : e = pentry[p]
    BY <1>1 DEF AllInv, TypeOK
  <1>3. PICK t \in Task : t = e.task
    BY DEF Entry
  <1>4. /\ pentry' = [pentry EXCEPT ![p] = NoEntry]
        /\ posted' = posted \cup {t}
        /\ UNCHANGED <<now, opc, due, started, run_task_, fifo>>
    BY <1>2, <1>3 DEF PushSetTimer, Push, SetTimer, worker
  <1>5. opc # "deleted"
    BY <1>1 DEF AllInv, Inv, LifeInv, Poster
  <1>6. pentry[p] # NoEntry /\ t \notin posted /\ pentry[p].task = t
        /\ \A q \in Poster : pentry[q].task = t => q = p
    BY <1>1, <1>2, <1>3 DEF AllInv, TaskInv, CallInv
  <1>7. t \notin started /\ run_task_ # t
    BY <1>6, NoTaskAssumption DEF AllInv, TaskInv, RunInv
  <1>8. /\ \A q \in Poster : pentry'[q].task # t
        /\ \A u \in Task \ {t} : (\E q \in Poster : pentry'[q].task = u)
                                     <=> \E q \in Poster : pentry[q].task = u
    <2>1. pentry'[p] = NoEntry /\ \A q \in Poster \ {p} : pentry'[q] = pentry[q]
      BY <1>4 DEF AllInv, TypeOK
    <2>2. \A u \in Task : pentry'[p].task # u
      BY <2>1, NoTaskAssumption DEF NoEntry
    <2> QED
      BY <1>6, <2>1, <2>2
  <1>9. SeenPhase(t) = "called" /\ SeenPhase(t)' = "queued"
    BY <1>4, <1>5, <1>6, <1>7, <1>8 DEF SeenPhase
  <1>10. \A u \in Task \ {t} : SeenPhase(u)' = SeenPhase(u)
    BY <1>4, <1>8 DEF SeenPhase
  <1>11. [u \in Task |-> PhaseOf(u)]' = [[u \in Task |-> PhaseOf(u)] EXCEPT ![t] = "queued"]
    BY <1>9, <1>10, PhasesSeen, PhasesSeenNext, OneMoves DEF AllInv
  <1>12. PhaseOf(t) = "called"
    BY <1>9, PhaseSeen DEF AllInv
  <1>13. Base!PostDelayedTask(t)
    BY <1>4, <1>11, <1>12 DEF Base!PostDelayedTask, State
  <1> QED
    BY <1>13 DEF BaseStep, Base!Next

\* A posted task that has not started waits, and is nobody's call.
LEMMA PostedIsQueued ==
    ASSUME AllInv, NEW t \in posted \ started, opc # "deleted"
    PROVE  /\ PhaseOf(t) = "queued" /\ run_task_ # t
           /\ \A p \in Poster : pentry[p].task # t
  <1>1. t \in Task
    BY DEF AllInv, TypeOK
  <1>2. \A p \in Poster : pentry[p].task # t
    BY <1>1, NoTaskAssumption DEF AllInv, TaskInv, CallInv, NoEntry
  <1>3. run_task_ # t
    BY <1>1, NoTaskAssumption DEF AllInv, TaskInv, RunInv
  <1>4. SeenPhase(t) = "queued"
    BY <1>2, <1>3 DEF SeenPhase
  <1> QED
    BY <1>1, <1>2, <1>3, <1>4, PhaseSeen DEF AllInv

\* A waiting task starts: its phase changes and no other.
LEMMA StartMoves ==
    ASSUME AllInv, AllInv', NEW t \in posted \ started, opc # "deleted",
           run_task_ = NoTask, run_task_' = t, started' = started \cup {t},
           UNCHANGED <<posted, pentry, opc>>
    PROVE  [u \in Task |-> PhaseOf(u)]' = [[u \in Task |-> PhaseOf(u)] EXCEPT ![t] = "running"]
  <1>1. t \in Task
    BY DEF AllInv, TypeOK
  <1>2. SeenPhase(t)' = "running"
    BY DEF SeenPhase
  <1>3. \A u \in Task \ {t} : SeenPhase(u)' = SeenPhase(u)
    BY NoTaskAssumption DEF SeenPhase
  <1> QED
    BY <1>1, <1>2, <1>3, PhasesSeen, PhasesSeenNext, OneMoves DEF AllInv

LEMMA RunFromBatchImplements ==
    ASSUME AllInv, AllInv', RunFromBatch
    PROVE  BaseStep
  <1>1. PICK t \in posted \ started : fifo # <<>> /\ Head(fifo) = t /\ Head(tasks).task = t
    BY RunFromBatchKeeps DEF AllInv
  <1>2. /\ run_task_' = t /\ started' = started \cup {t} /\ fifo' = Tail(fifo)
        /\ UNCHANGED <<now, posted, pentry, opc, due>> /\ wpc = "batch"
    BY <1>1 DEF RunFromBatch, WorkerUnchanged, calls
  <1>3. opc # "deleted" /\ run_task_ = NoTask
    BY <1>2, NoneRuns DEF AllInv, Inv, LifeInv
  <1>4. ~Base!Busy
    BY <1>3, BusyWorker DEF AllInv
  <1>5. [u \in Task |-> PhaseOf(u)]' = [[u \in Task |-> PhaseOf(u)] EXCEPT ![t] = "running"]
    BY <1>2, <1>3, StartMoves
  <1>6. Base!StartImmediate
    BY <1>1, <1>2, <1>3, <1>4, <1>5 DEF Base!StartImmediate, State
  <1> QED
    BY <1>6 DEF BaseStep, Base!Next

LEMMA RunTimerImplements ==
    ASSUME AllInv, AllInv', NEW timer \in pending_timers_, RunTimer(timer)
    PROVE  BaseStep
  <1>1. /\ run_task_' = timer.task /\ started' = started \cup {timer.task}
        /\ UNCHANGED <<now, posted, pentry, opc, due, fifo>> /\ wpc = "loop"
        /\ now >= timer.at \/ now = MaxTime
    BY DEF RunTimer, WorkerUnchanged, calls
  <1>2. opc # "deleted" /\ run_task_ = NoTask /\ timer.task \notin started
    BY <1>1, NoneRuns DEF AllInv, Inv, LifeInv
  <1>3. PICK t \in posted \ started : t = timer.task
    BY <1>2 DEF AllInv, TaskInv, TimerInv
  <1>4. t \in Task /\ timer.at \in Nat /\ now \in Nat
    BY ConstantsAssumption DEF AllInv, TypeOK
  <1>5. due[t] # Immediate /\ due[t] <= timer.at /\ due[t] <= MaxTime
    BY <1>3 DEF AllInv, TaskInv, TimerInv
  <1>6. due[t] <= now
    BY <1>1, <1>4, <1>5 DEF AllInv, TypeOK, Immediate
  <1>7. ~Base!Busy
    BY <1>2, BusyWorker DEF AllInv
  <1>8. PhaseOf(t) = "queued"
    BY <1>2, PostedIsQueued
  <1>9. [u \in Task |-> PhaseOf(u)]' = [[u \in Task |-> PhaseOf(u)] EXCEPT ![t] = "running"]
    BY <1>1, <1>2, <1>3, StartMoves
  <1>10. Base!StartDelayed(t)
    BY <1>1, <1>2, <1>4, <1>5, <1>6, <1>7, <1>8, <1>9
    DEF Base!StartDelayed, State, Immediate, Base!Immediate
  <1> QED
    BY <1>4, <1>10 DEF BaseStep, Base!Next

LEMMA ReturnImplements ==
    ASSUME AllInv, AllInv', TaskReturns
    PROVE  BaseStep
  <1>1. /\ run_task_' = NoTask /\ wpc \in {"run", "timer"}
        /\ UNCHANGED <<now, posted, started, pentry, opc, due, fifo>>
    BY DEF TaskReturns, BatchTaskReturns, TimerTaskReturns, WorkerUnchanged, calls
  <1>2. PICK t \in Task : run_task_ = t
    BY <1>1 DEF AllInv, TypeOK, TaskInv, RunInv
  <1>3. t \in started
    BY <1>2, NoTaskAssumption DEF AllInv, TaskInv, RunInv
  <1>4. SeenPhase(t) = "running" /\ SeenPhase(t)' = "done"
    BY <1>1, <1>2, <1>3, NoTaskAssumption DEF SeenPhase
  <1>5. \A u \in Task \ {t} : SeenPhase(u)' = SeenPhase(u)
    BY <1>1, <1>2, NoTaskAssumption DEF SeenPhase
  <1>6. [u \in Task |-> PhaseOf(u)]' = [[u \in Task |-> PhaseOf(u)] EXCEPT ![t] = "done"]
    BY <1>4, <1>5, PhasesSeen, PhasesSeenNext, OneMoves DEF AllInv
  <1>7. PhaseOf(t) = "running"
    BY <1>4, PhaseSeen DEF AllInv
  <1>8. Base!Finish(t)
    BY <1>1, <1>6, <1>7 DEF Base!Finish, State
  <1> QED
    BY <1>8 DEF BaseStep, Base!Next

LEMMA DeleteJoinsImplements ==
    ASSUME AllInv, AllInv', DeleteJoins
    PROVE  BaseStep
  <1>1. /\ opc = "joining" /\ wpc = "exited" /\ opc' = "deleted" /\ fifo' = <<>>
        /\ UNCHANGED <<now, run_task_, pentry, posted, due, started>>
    BY DEF DeleteJoins, worker, calls
  <1>2. ~Base!Busy /\ run_task_ = NoTask
    BY <1>1, NoneRuns, BusyWorker DEF AllInv
  <1>3. \A p \in Poster : ppc[p] = "idle"
    BY <1>1 DEF AllInv, Inv, LifeInv, Poster
  <1>4. \A p \in Poster : pentry[p] = NoEntry
    BY <1>3 DEF AllInv, TaskInv, CallInv
  <1>5. \A t \in Task, p \in Poster : pentry[p].task # t
    BY <1>4, NoTaskAssumption DEF NoEntry
  <1>6. \A t \in Task :
            /\ SeenPhase(t) # "called"
            /\ SeenPhase(t)' = IF SeenPhase(t) = "queued" THEN "dropped" ELSE SeenPhase(t)
    BY <1>1, <1>5 DEF SeenPhase
  <1>7. \A t \in Task :
            /\ PhaseOf(t) # "called"
            /\ PhaseOf(t)' = IF PhaseOf(t) = "queued" THEN "dropped" ELSE PhaseOf(t)
    BY <1>6, PhasesSeen, PhasesSeenNext DEF AllInv
  <1>8. State = "deleting" /\ State' = "deleted"
    BY <1>1 DEF State
  <1>9. Base!DeleteReturns
    BY <1>1, <1>2, <1>7, <1>8 DEF Base!DeleteReturns
  <1> QED
    BY <1>9 DEF BaseStep, Base!Next

LEMMA StepImplements == AllInv /\ AllInv' /\ [Next]_vars => BaseStep
  <1> SUFFICES ASSUME AllInv, AllInv', [Next]_vars PROVE BaseStep
    OBVIOUS
  <1>1. ASSUME NEW p \in Poster, PostBegins(p) PROVE BaseStep
    BY <1>1, PostTaskImplements, PostDelayedTaskImplements DEF PostBegins
  <1>2. ASSUME NEW p \in Poster, PostContinues(p) PROVE BaseStep
    BY <1>2, CallImplements, QuietImplements DEF PostContinues
  <1>3. CASE WorkerStep
    BY <1>3, QuietImplements, RunFromBatchImplements, RunTimerImplements DEF WorkerStep
  <1>4. CASE TaskReturns
    BY <1>4, ReturnImplements
  <1>5. CASE Delete \/ OwnerContinues \/ Tick \/ Terminated \/ UNCHANGED vars
    BY <1>5, QuietImplements, DeleteJoinsImplements DEF OwnerContinues, Terminated
  <1> QED
    BY <1>1, <1>2, <1>3, <1>4, <1>5 DEF Next

\* The queue implements TaskQueueBase (ImplementsTaskQueueBase), for any tasks,
\* posters, delays and any wrap of the 32-bit clock: PostTask's tasks run in
\* order, one task at a time, none early after the detour through SetTimerTask,
\* none lost and none started after Delete.
THEOREM RefinesTaskQueueBase == Spec => ImplementsTaskQueueBase
  <1>1. AllInv /\ AllInv' /\ [Next]_vars => [Base!Next]_(Base!vars)
    BY StepImplements DEF BaseStep
  <1> QED
    BY <1>1, InitImplements, InvCorrect, PTL
    DEF Spec, AllInv, ImplementsTaskQueueBase, Base!Spec
=============================================================================
