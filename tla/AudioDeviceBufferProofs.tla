----------------------- MODULE AudioDeviceBufferProofs -----------------------
(***************************************************************************)
(* Proofs about AudioDeviceBuffer for any interval, any number of starts   *)
(* and any amount of audio.                                                *)
(***************************************************************************)
EXTENDS AudioDeviceBuffer, SequenceTheorems, TLAPS

TaskType == {Reset(s) : s \in Side} \cup {LOG_START, LOG_STOP}

\* The types the arguments below need.
BufferType ==
    /\ mpc \in [call : {"none", "start", "stop"}, side : Side \cup {"none"}]
    /\ mpc.call # "none" => mpc.side \in Side
    /\ active \in [Side -> BOOLEAN]
    /\ fifo \in Seq(TaskType)
    /\ stats_ \in [Side -> Nat] /\ last_stats_ \in [Side -> Nat]
    /\ log_stats_ \in BOOLEAN

\* What the queue will have made of log_stats_ when it has run the tasks f.
Settles(f, log, on) ==
    /\ (\A i \in DOMAIN f : ~IsLog(f[i])) => log = on
    /\ \A i \in DOMAIN f :
         IsLog(f[i]) /\ (\A j \in DOMAIN f : j > i => ~IsLog(f[j]))
           => (f[i] = LOG_START) = on

\* The chains are numbered up to chain, each has at most one timer and the last
\* one has one while logging is on.
Chains ==
    /\ chain \in Nat
    /\ \A t \in timers : t.chain \in 1..chain
    /\ \A t, u \in timers : t.chain = u.chain => t = u
    /\ alive /\ log_stats_ => \E t \in timers : t.chain = chain

Inv == /\ BufferType
       /\ alive => Settles(fifo, log_stats_, Media)
       /\ Chains
       /\ StatsNeverRunBackwards

-----------------------------------------------------------------------------
LEMMA LogTasks ==
    /\ LOG_START # LOG_STOP
    /\ IsLog(LOG_START) /\ IsLog(LOG_STOP)
    /\ \A s \in Side : ~IsLog(Reset(s)) /\ Reset(s) \in TaskType
    /\ LOG_START \in TaskType /\ LOG_STOP \in TaskType
  BY DEF LOG_START, LOG_STOP, IsLog, Reset, TaskType

\* Posting a task that is not about logging changes nothing.
LEMMA SettlesReset ==
    ASSUME NEW f \in Seq(TaskType), NEW log, NEW on, Settles(f, log, on),
           NEW t \in TaskType, ~IsLog(t)
    PROVE  Settles(Append(f, t), log, on)
  <1> DEFINE g == Append(f, t)
  <1>1. /\ Len(g) = Len(f) + 1 /\ Len(f) \in Nat
        /\ \A i \in 1..Len(f) : g[i] = f[i]
        /\ g[Len(f) + 1] = t
        /\ DOMAIN f = 1..Len(f) /\ DOMAIN g = 1..Len(g)
    BY AppendProperties, LenProperties
  <1> HIDE DEF g
  <1>2. Settles(g, log, on)
    <2>1. (\A i \in DOMAIN g : ~IsLog(g[i])) => (\A i \in DOMAIN f : ~IsLog(f[i]))
      BY <1>1
    <2>2. ASSUME NEW i \in DOMAIN g, IsLog(g[i]),
                 \A j \in DOMAIN g : j > i => ~IsLog(g[j])
          PROVE  (g[i] = LOG_START) = on
      <3>1. i \in DOMAIN f /\ g[i] = f[i]
        BY <1>1, <2>2
      <3>2. \A j \in DOMAIN f : j > i => ~IsLog(f[j])
        BY <1>1, <2>2
      <3> QED
        BY <2>2, <3>1, <3>2 DEF Settles
    <2> QED
      BY <2>1, <2>2 DEF Settles
  <1> QED
    BY <1>2 DEF g

\* Posting LOG_START or LOG_STOP settles what logging will be.
LEMMA SettlesLog ==
    ASSUME NEW f \in Seq(TaskType), NEW log,
           NEW t \in {LOG_START, LOG_STOP}
    PROVE  Settles(Append(f, t), log, t = LOG_START)
  <1> DEFINE g == Append(f, t)
  <1>0. t \in TaskType /\ IsLog(t)
    BY LogTasks
  <1>1. /\ Len(g) = Len(f) + 1 /\ Len(f) \in Nat
        /\ g[Len(f) + 1] = t
        /\ DOMAIN g = 1..Len(g)
    BY <1>0, AppendProperties, LenProperties
  <1> HIDE DEF g
  <1>2. Settles(g, log, t = LOG_START)
    <2>1. Len(f) + 1 \in DOMAIN g /\ IsLog(g[Len(f) + 1])
      BY <1>0, <1>1
    <2>2. ASSUME NEW i \in DOMAIN g, IsLog(g[i]),
                 \A j \in DOMAIN g : j > i => ~IsLog(g[j])
          PROVE  g[i] = t
      BY <1>1, <2>1, <2>2
    <2> QED
      BY <2>1, <2>2 DEF Settles
  <1> QED
    BY <1>2 DEF g

\* Running the first task keeps what the rest settles.
LEMMA SettlesTail ==
    ASSUME NEW f \in Seq(TaskType), f # <<>>, NEW log, NEW on, NEW log2,
           Settles(f, log, on),
           IsLog(Head(f)) => log2 = (Head(f) = LOG_START),
           ~IsLog(Head(f)) => log2 = log
    PROVE  Settles(Tail(f), log2, on)
  <1> DEFINE g == Tail(f)
  <1>1. /\ Len(g) = Len(f) - 1 /\ Len(f) \in Nat /\ Len(f) # 0
        /\ \A i \in 1..Len(g) : g[i] = f[i + 1]
        /\ DOMAIN f = 1..Len(f) /\ DOMAIN g = 1..Len(g)
        /\ Head(f) = f[1]
    BY HeadTailProperties, LenProperties, EmptySeq
  <1> HIDE DEF g
  <1>2. Settles(g, log2, on)
    <2>1. ASSUME \A i \in DOMAIN g : ~IsLog(g[i])
          PROVE  log2 = on
      <3>1. \A i \in DOMAIN f : i > 1 => ~IsLog(f[i])
        <4> TAKE i \in DOMAIN f
        <4> HAVE i > 1
        <4>1. i - 1 \in DOMAIN g /\ g[i - 1] = f[i]
          BY <1>1
        <4> QED
          BY <2>1, <4>1
      <3>2. CASE IsLog(f[1])
        <4>1. (f[1] = LOG_START) = on
          BY <1>1, <3>1, <3>2 DEF Settles
        <4> QED
          BY <1>1, <3>2, <4>1
      <3>3. CASE ~IsLog(f[1])
        <4>1. \A i \in DOMAIN f : ~IsLog(f[i])
          BY <1>1, <3>1, <3>3
        <4> QED
          BY <1>1, <3>3, <4>1 DEF Settles
      <3> QED
        BY <3>2, <3>3
    <2>2. ASSUME NEW i \in DOMAIN g, IsLog(g[i]),
                 \A j \in DOMAIN g : j > i => ~IsLog(g[j])
          PROVE  (g[i] = LOG_START) = on
      <3>1. i + 1 \in DOMAIN f /\ f[i + 1] = g[i]
        BY <1>1
      <3>2. \A j \in DOMAIN f : j > i + 1 => ~IsLog(f[j])
        <4> TAKE j \in DOMAIN f
        <4> HAVE j > i + 1
        <4>1. j - 1 \in DOMAIN g /\ g[j - 1] = f[j] /\ j - 1 > i
          BY <1>1
        <4> QED
          BY <2>2, <4>1
      <3> QED
        BY <2>2, <3>1, <3>2 DEF Settles
    <2> QED
      BY <2>1, <2>2 DEF Settles
  <1> QED
    BY <1>2 DEF g
-----------------------------------------------------------------------------
LEMMA InvInit == Init => Inv
  <1> SUFFICES ASSUME Init PROVE Inv
    OBVIOUS
  <1>1. BufferType
    BY EmptySeq DEF Init, BufferType, Idle, Side
  <1>2. Settles(<<>>, FALSE, FALSE)
    BY DEF Settles
  <1>3. Media = FALSE
    BY DEF Init, Media
  <1>4. fifo = <<>> /\ log_stats_ = FALSE
    BY DEF Init
  <1>5. Settles(fifo, log_stats_, Media)
    BY <1>2, <1>3, <1>4
  <1>6. StatsNeverRunBackwards /\ Chains
    BY DEF Init, Chains, StatsNeverRunBackwards
  <1> QED
    BY <1>1, <1>5, <1>6 DEF Inv

LEMMA OtherSide == \A s \in Side : Other(s) \in Side /\ Other(s) # s
  BY DEF Other, Side

\* The sides are two.
LEMMA MediaOfSides ==
    ASSUME NEW s \in Side
    PROVE  Media <=> active[s] \/ active[Other(s)]
  BY OtherSide DEF Media, Side

LEMMA InvStart ==
    ASSUME Inv, NEW s \in Side, Start(s)
    PROVE  Inv'
  <1> USE DEF Inv
  <1>1. /\ alive /\ alive' /\ active' = [active EXCEPT ![s] = TRUE]
        /\ UNCHANGED <<timers, stats_, last_stats_, log_stats_, chain>>
        /\ mpc' = [call |-> "start", side |-> s]
    BY DEF Start, logging
  <1>2. active' \in [Side -> BOOLEAN] /\ Media'
    BY <1>1 DEF BufferType, Media
  <1>3. fifo' \in Seq(TaskType) /\ Settles(fifo', log_stats_, TRUE)
    <2>0. fifo \in Seq(TaskType) /\ Settles(fifo, log_stats_, Media)
      BY <1>1 DEF BufferType
    <2>1. CASE active[s]
      <3>1. fifo' = fifo \o <<>> /\ Media = TRUE
        BY <2>1 DEF Start, Media
      <3>2. fifo' = fifo
        BY <2>0, <3>1, ConcatEmptySeq
      <3> QED
        BY <2>0, <3>1, <3>2
    <2>2. CASE ~active[s] /\ active[Other(s)]
      <3>1. fifo' = fifo \o <<Reset(s)>> /\ Media = TRUE
        BY <2>2, OtherSide DEF Start, Media
      <3>2. fifo' = Append(fifo, Reset(s))
        BY <2>0, <3>1, LogTasks, AppendIsConcat
      <3>3. fifo' \in Seq(TaskType)
        BY <2>0, <3>2, LogTasks, AppendProperties
      <3> QED
        BY <2>0, <3>1, <3>2, <3>3, LogTasks, SettlesReset
    <2>3. CASE ~active[s] /\ ~active[Other(s)]
      <3>1. fifo' = fifo \o <<Reset(s), LOG_START>>
        BY <2>3 DEF Start
      <3>2. fifo' = Append(Append(fifo, Reset(s)), LOG_START)
        BY <2>0, <3>1, LogTasks
      <3>3. Append(fifo, Reset(s)) \in Seq(TaskType) /\ fifo' \in Seq(TaskType)
        BY <2>0, <3>2, LogTasks, AppendProperties
      <3> QED
        BY <3>2, <3>3, SettlesLog
    <2> QED
      BY <2>1, <2>2, <2>3
  <1>4. BufferType'
    BY <1>1, <1>2, <1>3 DEF BufferType
  <1> QED
    BY <1>1, <1>2, <1>3, <1>4 DEF Chains, StatsNeverRunBackwards

LEMMA InvStop ==
    ASSUME Inv, Stop
    PROVE  Inv'
  <1> USE DEF Inv
  <1> DEFINE s == mpc.side
  <1>0. s \in Side
    BY DEF Stop, BufferType
  <1>1. /\ alive' = alive /\ active' = [active EXCEPT ![s] = FALSE]
        /\ UNCHANGED <<timers, stats_, last_stats_, log_stats_, chain>>
        /\ mpc' = Idle
    BY DEF Stop, logging
  <1>2. active' \in [Side -> BOOLEAN] /\ (Media' <=> active[Other(s)])
    BY <1>0, <1>1, OtherSide DEF BufferType, Media, Side
  <1>3. /\ fifo' \in Seq(TaskType)
        /\ alive => Settles(fifo', log_stats_, Media')
    <2>0. fifo \in Seq(TaskType) /\ (alive => Settles(fifo, log_stats_, Media))
      BY DEF BufferType
    <2>a. Media \in BOOLEAN /\ Media' \in BOOLEAN
      BY DEF Media
    <2>1. CASE ~active[s] \/ active[Other(s)]
      <3>1. fifo' = fifo \o <<>>
        BY <2>1 DEF Stop, StopPosts
      <3>2. fifo' = fifo
        BY <2>0, <3>1, ConcatEmptySeq
      <3>3. Media <=> active[Other(s)]
        BY <1>0, <2>1, MediaOfSides
      <3>4. Media = Media'
        BY <1>2, <2>a, <3>3
      <3> QED
        BY <2>0, <3>2, <3>4
    <2>2. CASE active[s] /\ ~active[Other(s)]
      <3>1. fifo' = fifo \o <<LOG_STOP>>
        BY <2>2 DEF Stop, StopPosts
      <3>2. fifo' = Append(fifo, LOG_STOP)
        BY <2>0, <3>1, LogTasks, AppendIsConcat
      <3>3. fifo' \in Seq(TaskType)
        BY <2>0, <3>2, LogTasks, AppendProperties
      <3>4. Media' = FALSE
        BY <1>2, <2>2, <2>a
      <3>5. (LOG_STOP = LOG_START) = FALSE
        BY LogTasks
      <3>6. Settles(fifo', log_stats_, LOG_STOP = LOG_START)
        BY <2>0, <3>2, SettlesLog
      <3> QED
        BY <3>3, <3>4, <3>5, <3>6
    <2> QED
      BY <2>1, <2>2
  <1>4. BufferType'
    BY <1>1, <1>2, <1>3 DEF BufferType, Idle
  <1> QED
    BY <1>1, <1>3, <1>4 DEF Chains, StatsNeverRunBackwards

\* A report adds one timer, of its own chain.
LEMMA ReportChains ==
    ASSUME NEW c, NEW left, Report(c, left)
    PROVE  /\ left \subseteq timers'
           /\ \A t \in timers' : t \in left \/ t = [chain |-> c, at |-> now + Interval]
           /\ \E t \in timers' : t.chain = c
           /\ (\A t \in left : t.chain # c)
                /\ (\A t, u \in left : t.chain = u.chain => t = u)
              => \A t, u \in timers' : t.chain = u.chain => t = u
  <1> DEFINE new == [chain |-> c, at |-> now + Interval]
  <1>1. new.chain = c /\ timers' = left \cup {new}
    BY DEF Report
  <1> HIDE DEF new
  <1>2. /\ left \subseteq timers' /\ new \in timers'
        /\ \A t \in timers' : t \in left \/ t = new
    BY <1>1
  <1> QED
    BY <1>1, <1>2 DEF new

\* The tasks of the queue.
LEMMA InvTask ==
    ASSUME Inv, UNCHANGED <<mpc, active, alive>>,
           \/ \E s \in Side : ResetStats(s)
           \/ LogStart \/ LogStop
    PROVE  Inv'
  <1> USE DEF Inv
  <1>0. fifo \in Seq(TaskType) /\ fifo # <<>> /\ fifo' = Tail(fifo)
    BY DEF BufferType, ResetStats, LogStart, LogStop
  <1>1. fifo' \in Seq(TaskType)
    BY <1>0, HeadTailProperties
  <1>2. Media' = Media
    BY DEF Media
  <1>3. ASSUME NEW s \in Side, ResetStats(s)
        PROVE  Inv'
    <2>1. /\ Head(fifo) = Reset(s) /\ UNCHANGED <<log_stats_, timers, chain>>
          /\ last_stats_' = [last_stats_ EXCEPT ![s] = 0]
          /\ stats_' = [stats_ EXCEPT ![s] = 0]
      BY <1>3 DEF ResetStats, logging
    <2>2. ~IsLog(Head(fifo))
      BY <2>1, LogTasks
    <2>3. alive => Settles(fifo', log_stats_', Media')
      BY <1>0, <1>2, <2>1, <2>2, SettlesTail
    <2>4. BufferType' /\ StatsNeverRunBackwards'
      BY <1>1, <2>1 DEF BufferType, StatsNeverRunBackwards
    <2> QED
      BY <2>1, <2>3, <2>4 DEF Chains
  <1>4. CASE LogStart
    <2>1. /\ Head(fifo) = LOG_START /\ log_stats_' = TRUE
          /\ chain' = chain + 1 /\ Report(chain', timers)
          /\ stats_' = stats_ /\ last_stats_' = stats_
      BY <1>4 DEF LogStart, Report
    <2>2. IsLog(Head(fifo)) /\ (Head(fifo) = LOG_START) = TRUE
      BY <2>1, LogTasks
    <2>3. alive => Settles(fifo', log_stats_', Media')
      BY <1>0, <1>2, <2>1, <2>2, SettlesTail
    <2>4. BufferType' /\ StatsNeverRunBackwards'
      BY <1>1, <2>1 DEF BufferType, StatsNeverRunBackwards
    <2>5. Chains'
      BY <2>1, ReportChains DEF Chains
    <2> QED
      BY <2>3, <2>4, <2>5
  <1>5. CASE LogStop
    <2>1. /\ Head(fifo) = LOG_STOP /\ log_stats_' = FALSE
          /\ UNCHANGED <<timers, chain>>
          /\ stats_' = stats_ /\ last_stats_' = last_stats_
      BY <1>5 DEF LogStop
    <2>2. IsLog(Head(fifo)) /\ (Head(fifo) = LOG_START) = FALSE
      BY <2>1, LogTasks
    <2>3. alive => Settles(fifo', log_stats_', Media')
      BY <1>0, <1>2, <2>1, <2>2, SettlesTail
    <2>4. BufferType' /\ StatsNeverRunBackwards'
      BY <1>1, <2>1 DEF BufferType, StatsNeverRunBackwards
    <2> QED
      BY <2>1, <2>3, <2>4 DEF Chains
  <1> QED
    BY <1>3, <1>4, <1>5

LEMMA InvLogActive ==
    ASSUME Inv, NEW timer \in timers, LogActive(timer)
    PROVE  Inv'
  <1> USE DEF Inv
  <1>0. UNCHANGED <<mpc, active, alive, fifo, log_stats_, stats_, chain>>
    BY DEF LogActive, QueueUnchanged, main, logging
  <1>1. last_stats_' = stats_ \/ last_stats_' = last_stats_
    BY DEF LogActive, Report
  <1>2. BufferType' /\ StatsNeverRunBackwards'
    BY <1>0, <1>1 DEF BufferType, StatsNeverRunBackwards
  <1>3. Media' = Media
    BY <1>0 DEF Media
  <1>4. Chains'
    <2>1. CASE log_stats_
      <3>1. Report(timer.chain, timers \ {timer})
        BY <2>1 DEF LogActive
      <3>2. /\ timer.chain \in 1..chain
            /\ \A t \in timers \ {timer} : t.chain # timer.chain
        BY DEF Chains
      <3>3. /\ \A t \in timers' : t.chain \in 1..chain
            /\ \A t, u \in timers' : t.chain = u.chain => t = u
            /\ \A t \in timers : \E u \in timers' : u.chain = t.chain
        BY <3>1, <3>2, ReportChains DEF Chains
      <3> QED
        BY <1>0, <3>3 DEF Chains
    <2>2. CASE ~log_stats_
      BY <1>0, <2>2 DEF LogActive, Chains
    <2> QED
      BY <2>1, <2>2
  <1> QED
    BY <1>0, <1>2, <1>3, <1>4

\* The native threads only count.
LEMMA InvAudio ==
    ASSUME Inv,
           RequestPlayoutData \/ (\E loud \in BOOLEAN : SetRecordedBuffer(loud))
    PROVE  Inv'
  <1> USE DEF Inv
  <1>0. UNCHANGED <<mpc, active, alive, fifo, timers, log_stats_, last_stats_, chain>>
    BY DEF RequestPlayoutData, SetRecordedBuffer, main, queue, logging
  <1>1. PICK s \in Side : stats_' = [stats_ EXCEPT ![s] = @ + 1]
    BY DEF RequestPlayoutData, SetRecordedBuffer, Count, Side
  <1>2. BufferType' /\ StatsNeverRunBackwards'
    BY <1>0, <1>1 DEF BufferType, StatsNeverRunBackwards
  <1>3. Media' = Media
    BY <1>0 DEF Media
  <1> QED
    BY <1>0, <1>2, <1>3 DEF Chains

LEMMA InvStep == Inv /\ [Next]_vars => Inv'
  <1> SUFFICES ASSUME Inv, [Next]_vars
               PROVE  Inv'
    OBVIOUS
  <1>1. ASSUME UNCHANGED <<active, alive, fifo, timers, log_stats_, stats_,
                           last_stats_, chain>>,
               mpc' = mpc \/ mpc' = Idle
               \/ \E s \in Side : mpc' = [call |-> "stop", side |-> s]
        PROVE  Inv'
    <2>1. BufferType'
      BY <1>1 DEF Inv, BufferType, Idle, Side
    <2>2. Media' = Media
      BY <1>1 DEF Media
    <2> QED
      BY <1>1, <2>1, <2>2 DEF Inv, Chains, StatsNeverRunBackwards
  <1>2. CASE Destroy
    <2>1. /\ ~alive' /\ fifo' = <<>>
          /\ timers' = {}
          /\ UNCHANGED <<mpc, active, log_stats_, stats_, last_stats_, chain>>
      BY <1>2 DEF Destroy, logging
    <2>2. BufferType'
      BY <2>1, EmptySeq DEF Inv, BufferType
    <2> QED
      BY <2>1, <2>2 DEF Inv, Chains, StatsNeverRunBackwards
  <1>3. ASSUME NEW cb \in BOOLEAN, RegisterAudioCallback(cb)
        PROVE  Inv'
    BY <1>1, <1>3 DEF RegisterAudioCallback, queue, logging
  <1>4. ASSUME NEW s \in Side, NEW ok \in BOOLEAN, DeviceStops(s, ok)
        PROVE  Inv'
    BY <1>1, <1>4 DEF DeviceStops, queue, logging
  <1>5. ASSUME NEW ok \in BOOLEAN, DeviceStarts(ok)
        PROVE  Inv'
    BY <1>1, <1>5 DEF DeviceStarts, queue, logging
  <1>6. CASE Tick
    BY <1>1, <1>6 DEF Tick, main, queue, logging
  <1>7. CASE UNCHANGED vars
    BY <1>1, <1>7 DEF vars, main, queue, logging
  <1>8. ASSUME NEW s \in Side, ResetStats(s)
        PROVE  Inv'
    BY <1>8, InvTask DEF ResetStats, QueueUnchanged, main
  <1>9. CASE LogStart \/ LogStop
    BY <1>9, InvTask DEF LogStart, LogStop, QueueUnchanged, main
  <1> QED
    BY <1>2, <1>3, <1>4, <1>5, <1>6, <1>7, <1>8, <1>9, InvStart, InvStop,
       InvLogActive, InvAudio
    DEF Next, Destroyed

LEMMA InvCorrect == Spec => []Inv
  BY InvInit, InvStep, PTL DEF Spec

\* Between two reports the counters never run backwards, whatever the order of
\* starts, resets, audio callbacks and reports.
THEOREM StatsCorrect == Spec => []StatsNeverRunBackwards
  <1>1. Inv => StatsNeverRunBackwards
    BY DEF Inv
  <1> QED
    BY <1>1, InvCorrect, PTL

\* The Start and Stop methods post LOG_START and LOG_STOP so that logging is on
\* exactly when media is active, once the queue has caught up.
THEOREM LoggingCorrect == Spec => []LoggingFollowsMedia
  <1>1. Inv => LoggingFollowsMedia
    BY DEF Inv, Settles, LoggingFollowsMedia
  <1> QED
    BY <1>1, InvCorrect, PTL

\* Logging that is on has exactly one timer that carries on the chain of the
\* last LOG_START.
THEOREM TimerCorrect == Spec => []LoggingHasTimer
  <1>1. Chains => LoggingHasTimer
    <2> SUFFICES ASSUME Chains, alive, log_stats_
                 PROVE  \E timer \in timers : {t \in timers : t.chain = chain} = {timer}
      BY DEF LoggingHasTimer
    <2>1. PICK timer \in timers : timer.chain = chain
      BY DEF Chains
    <2>2. {t \in timers : t.chain = chain} = {timer}
      BY <2>1 DEF Chains
    <2> QED
      BY <2>2
  <1> QED
    BY <1>1, InvCorrect, PTL DEF Inv
-----------------------------------------------------------------------------
(* What StopRecording reports.                                             *)

\* Between the buffer's start and the device's, also after starts that failed, the
\* flag stands on silence.
SilenceInv ==
    /\ only_silence_recorded_ \in BOOLEAN /\ heard \in BOOLEAN
    /\ device \in [Side -> BOOLEAN]
    /\ SilenceIsOfThisRecording
    /\ mpc.call = "start" => active[mpc.side] /\ ~device[mpc.side]
    /\ active["rec"] /\ ~device["rec"] /\ mpc # [call |-> "stop", side |-> "rec"]
           => only_silence_recorded_

LEMMA SilenceInvStep == Inv /\ SilenceInv /\ [Next]_vars => SilenceInv'
  <1> SUFFICES ASSUME Inv, SilenceInv, [Next]_vars PROVE SilenceInv'
    OBVIOUS
  <1>0. BufferType
    BY DEF Inv
  <1> USE <1>0 DEF SilenceInv, SilenceIsOfThisRecording, BufferType
  <1>1. ASSUME UNCHANGED <<mpc, active, device, only_silence_recorded_, heard>>
        PROVE  SilenceInv'
    BY <1>1
  <1>2. ASSUME NEW s \in Side, Start(s) PROVE SilenceInv'
    <2>1. /\ mpc = Idle /\ ~device[s] /\ UNCHANGED <<device, heard>>
          /\ mpc' = [call |-> "start", side |-> s]
          /\ active' = [active EXCEPT ![s] = TRUE]
          /\ only_silence_recorded_' =
                 (only_silence_recorded_ \/ (s = "rec" /\ ~active[s]))
      BY <1>2 DEF Start, ClearsSilence
    <2>2. mpc # [call |-> "stop", side |-> "rec"]
      BY <2>1 DEF Idle
    <2>3. mpc'.side = s /\ mpc'.call = "start"
      BY <2>1
    <2>4. CASE s = "rec"
      BY <2>1, <2>2, <2>3, <2>4
    <2>5. CASE s = "play"
      BY <2>1, <2>2, <2>3, <2>5
    <2> QED
      BY <2>4, <2>5 DEF Side
  <1>3. ASSUME NEW ok \in BOOLEAN, DeviceStarts(ok) PROVE SilenceInv'
    <2>1. /\ mpc.call = "start" /\ mpc' = Idle /\ mpc.side \in Side
          /\ device' = [device EXCEPT ![mpc.side] = ok]
          /\ heard' = (heard /\ ~(ok /\ mpc.side = "rec"))
          /\ UNCHANGED <<active, only_silence_recorded_>>
      BY <1>3 DEF DeviceStarts
    <2>2. mpc'.call = "none" /\ mpc # [call |-> "stop", side |-> "rec"]
      BY <2>1 DEF Idle
    <2>3. CASE mpc.side = "rec"
      <3>1. only_silence_recorded_ = TRUE
        BY <2>1, <2>2, <2>3
      <3>2. CASE ok
        BY <2>1, <2>2, <2>3, <3>1, <3>2 DEF Side
      <3>3. CASE ~ok
        BY <2>1, <2>2, <2>3, <3>1, <3>3 DEF Side
      <3> QED
        BY <3>2, <3>3
    <2>4. CASE mpc.side # "rec"
      BY <2>1, <2>2, <2>4 DEF Side
    <2> QED
      BY <2>3, <2>4
  <1>4. ASSUME NEW s \in Side, NEW ok \in BOOLEAN, DeviceStops(s, ok)
        PROVE  SilenceInv'
    <2>1. /\ mpc = Idle /\ mpc' = [call |-> "stop", side |-> s]
          /\ device' = [device EXCEPT ![s] = device[s] /\ ~ok]
          /\ UNCHANGED <<active, only_silence_recorded_, heard>>
      BY <1>4 DEF DeviceStops, capture
    <2>2. mpc # [call |-> "stop", side |-> "rec"] /\ mpc'.call = "stop"
      BY <2>1 DEF Idle
    <2> QED
      BY <2>1, <2>2 DEF Side
  <1>5. CASE Stop
    <2>1. /\ mpc.call = "stop" /\ mpc' = Idle /\ mpc.side \in Side
          /\ active' = [active EXCEPT ![mpc.side] = FALSE]
          /\ UNCHANGED <<device, only_silence_recorded_, heard>>
      BY <1>5 DEF Stop, capture
    <2>2. mpc'.call = "none"
      BY <2>1 DEF Idle
    <2> QED
      BY <2>1, <2>2 DEF Side
  <1>6. ASSUME NEW loud \in BOOLEAN, SetRecordedBuffer(loud) PROVE SilenceInv'
    <2> DEFINE detected == loud /\ NextStatCount = 0
    <2>1. /\ device["rec"] /\ UNCHANGED <<mpc, active, device>>
          /\ only_silence_recorded_' = (only_silence_recorded_ /\ ~detected)
          /\ heard' = (heard \/ detected)
      BY <1>6 DEF SetRecordedBuffer, main
    <2> HIDE DEF detected
    <2> QED
      BY <2>1
  <1>7. CASE \/ \E cb \in BOOLEAN : RegisterAudioCallback(cb)
             \/ RequestPlayoutData \/ LogStart \/ LogStop \/ Tick
             \/ \E s \in Side : ResetStats(s)
             \/ \E timer \in timers : LogActive(timer)
             \/ UNCHANGED vars
    <2>1. UNCHANGED <<mpc, active, device, only_silence_recorded_, heard>>
      BY <1>7 DEF RegisterAudioCallback, RequestPlayoutData, LogStart, LogStop,
                  Tick, ResetStats, LogActive, QueueUnchanged, vars, main, capture
    <2> QED
      BY <1>1, <2>1
  <1>8. CASE Destroy
    <2>1. /\ mpc = Idle /\ ~Media /\ device' = [s \in Side |-> FALSE]
          /\ UNCHANGED <<mpc, active, only_silence_recorded_, heard>>
      BY <1>8 DEF Destroy, capture
    <2>2. mpc.call = "none" /\ ~active["rec"]
      BY <2>1 DEF Idle, Media, Side
    <2> QED
      BY <2>1, <2>2 DEF Side
  <1> QED
    BY <1>2, <1>3, <1>4, <1>5, <1>6, <1>7, <1>8 DEF Next, Destroyed

LEMMA SilenceInvariant == Spec => []SilenceInv
  <1>1. Init => SilenceInv
    <2> SUFFICES ASSUME Init PROVE SilenceInv
      OBVIOUS
    <2>1. /\ mpc.call = "none" /\ ~device["rec"] /\ ~active["rec"]
          /\ device \in [Side -> BOOLEAN]
      BY DEF Init, Idle, Side
    <2>2. only_silence_recorded_ \in BOOLEAN /\ heard \in BOOLEAN
      BY DEF Init
    <2> QED
      BY <2>1, <2>2 DEF SilenceInv, SilenceIsOfThisRecording
  <1> QED
    BY <1>1, InvCorrect, SilenceInvStep, PTL DEF Spec

\* The flag that StopRecording reports is about the recording that ends, whatever
\* starts failed before it (SilenceIsOfThisRecording).
THEOREM SilenceCorrect == Spec => []SilenceIsOfThisRecording
  <1>1. SilenceInv => SilenceIsOfThisRecording
    BY DEF SilenceInv
  <1> QED
    BY <1>1, SilenceInvariant, PTL
-----------------------------------------------------------------------------
(* Types.                                                                  *)

\* The LOG_STARTs among the tasks f can be numbered upwards between c and n: one
\* for each start that is not yet served.
Ranked(f, c, n) ==
    \E r \in [DOMAIN f -> Nat] :
        \A i \in DOMAIN f : f[i] = LOG_START =>
            /\ r[i] > c /\ r[i] <= n
            /\ \A j \in DOMAIN f : j < i /\ f[j] = LOG_START => r[j] < r[i]

LEMMA RankedEmpty == \A c, n : Ranked(<<>>, c, n)
  <1>1. [i \in {} |-> 0] \in [DOMAIN <<>> -> Nat] /\ DOMAIN <<>> = {}
    BY EmptySeq
  <1> QED
    BY <1>1 DEF Ranked

LEMMA RankedAppend ==
    ASSUME NEW f \in Seq(TaskType), NEW c \in Nat, NEW n \in Nat, NEW m \in Nat,
           Ranked(f, c, n), c <= n, n <= m,
           NEW t \in TaskType, t = LOG_START => n < m
    PROVE  Ranked(Append(f, t), c, m)
  <1> DEFINE g == Append(f, t)
  <1>1. /\ Len(g) = Len(f) + 1 /\ Len(f) \in Nat
        /\ \A i \in 1..Len(f) : g[i] = f[i]
        /\ g[Len(f) + 1] = t
        /\ DOMAIN f = 1..Len(f) /\ DOMAIN g = 1..Len(g)
    BY AppendProperties, LenProperties
  <1>2. PICK r \in [DOMAIN f -> Nat] :
          \A i \in DOMAIN f : f[i] = LOG_START =>
            /\ r[i] > c /\ r[i] <= n
            /\ \A j \in DOMAIN f : j < i /\ f[j] = LOG_START => r[j] < r[i]
    BY DEF Ranked
  <1> HIDE DEF g
  <1> DEFINE q == [i \in DOMAIN g |-> IF i \in DOMAIN f THEN r[i] ELSE m]
  <1>3. q \in [DOMAIN g -> Nat]
    BY <1>2
  <1>4. /\ \A i \in DOMAIN f : q[i] = r[i] /\ i \in DOMAIN g
        /\ q[Len(f) + 1] = m
        /\ \A i \in DOMAIN g : i \in DOMAIN f \/ i = Len(f) + 1
    BY <1>1
  <1> HIDE DEF q
  <1>5. ASSUME NEW i \in DOMAIN g, g[i] = LOG_START
        PROVE  /\ q[i] > c /\ q[i] <= m
               /\ \A j \in DOMAIN g : j < i /\ g[j] = LOG_START => q[j] < q[i]
    <2>1. CASE i \in DOMAIN f
      <3>1. f[i] = LOG_START /\ q[i] = r[i] /\ r[i] \in Nat
        BY <1>1, <1>2, <1>4, <1>5, <2>1
      <3>2. \A j \in DOMAIN g : j < i => j \in DOMAIN f /\ g[j] = f[j] /\ q[j] = r[j]
        BY <1>1, <1>4, <2>1
      <3> QED
        BY <1>2, <2>1, <3>1, <3>2
    <2>2. CASE i = Len(f) + 1
      <3>1. n < m /\ q[i] = m
        BY <1>1, <1>4, <1>5, <2>2
      <3>2. \A j \in DOMAIN g :
              j < i => j \in DOMAIN f /\ g[j] = f[j] /\ q[j] = r[j] /\ r[j] \in Nat
        BY <1>1, <1>2, <1>4, <2>2
      <3> QED
        BY <1>2, <3>1, <3>2
    <2> QED
      BY <1>4, <2>1, <2>2
  <1>6. Ranked(g, c, m)
    BY <1>3, <1>5 DEF Ranked
  <1> QED
    BY <1>6 DEF g

LEMMA RankedTail ==
    ASSUME NEW f \in Seq(TaskType), f # <<>>, NEW c \in Nat, NEW n \in Nat,
           Ranked(f, c, n)
    PROVE  /\ Ranked(Tail(f), c, n)
           /\ Head(f) = LOG_START => c < n /\ Ranked(Tail(f), c + 1, n)
  <1> DEFINE g == Tail(f)
  <1>1. /\ Len(g) = Len(f) - 1 /\ Len(f) \in Nat /\ Len(f) # 0
        /\ \A i \in 1..Len(g) : g[i] = f[i + 1]
        /\ DOMAIN f = 1..Len(f) /\ DOMAIN g = 1..Len(g)
        /\ Head(f) = f[1]
    BY HeadTailProperties, LenProperties, EmptySeq
  <1>2. PICK r \in [DOMAIN f -> Nat] :
          \A i \in DOMAIN f : f[i] = LOG_START =>
            /\ r[i] > c /\ r[i] <= n
            /\ \A j \in DOMAIN f : j < i /\ f[j] = LOG_START => r[j] < r[i]
    BY DEF Ranked
  <1> HIDE DEF g
  <1> DEFINE q == [i \in DOMAIN g |-> r[i + 1]]
  <1>3. \A i \in DOMAIN g : i + 1 \in DOMAIN f /\ g[i] = f[i + 1] /\ i \in Nat
    BY <1>1
  <1>4. q \in [DOMAIN g -> Nat]
    BY <1>2, <1>3
  <1>5. \A i \in DOMAIN g : q[i] = r[i + 1] /\ r[i + 1] \in Nat
    BY <1>2, <1>3
  <1> HIDE DEF q
  <1>6. ASSUME NEW i \in DOMAIN g, g[i] = LOG_START
        PROVE  /\ q[i] > c /\ q[i] <= n
               /\ \A j \in DOMAIN g : j < i /\ g[j] = LOG_START => q[j] < q[i]
               /\ f[1] = LOG_START => q[i] > c + 1
    <2>1. i + 1 \in DOMAIN f /\ f[i + 1] = LOG_START /\ q[i] = r[i + 1]
      BY <1>3, <1>5, <1>6
    <2>2. \A j \in DOMAIN g : j < i => j + 1 < i + 1
      BY <1>3
    <2>3. f[1] = LOG_START => r[1] > c /\ r[1] < r[i + 1] /\ r[1] \in Nat
      BY <1>1, <1>2, <2>1
    <2> QED
      BY <1>2, <1>3, <1>5, <2>1, <2>2, <2>3
  <1>7. Ranked(g, c, n)
    BY <1>4, <1>6 DEF Ranked
  <1>8. ASSUME f[1] = LOG_START
        PROVE  c < n /\ Ranked(g, c + 1, n)
    <2>1. c < n
      BY <1>1, <1>2, <1>8
    <2>2. Ranked(g, c + 1, n)
      BY <1>4, <1>6, <1>8 DEF Ranked
    <2> QED
      BY <2>1, <2>2
  <1> QED
    BY <1>1, <1>7, <1>8 DEF g

TimerType == [chain : 1..MaxStarts, at : 0..MaxTime + Interval]

LoggingType ==
    /\ now \in 0..MaxTime
    /\ timers \subseteq TimerType
    /\ starts \in 0..MaxStarts /\ chain \in 0..MaxStarts /\ chain <= starts
    /\ Ranked(fifo, chain, starts)

CountType ==
    /\ audio_transport_cb_ \in BOOLEAN /\ alive \in BOOLEAN
    /\ stats_ \in [Side -> 0..MaxSamples]
    /\ last_stats_ \in [Side -> 0..MaxSamples]
    /\ rec_stat_count_ \in 0..LevelPeriod - 1

LEMMA CountTypeStep == CountType /\ [Next]_vars => CountType'
  <1> SUFFICES ASSUME CountType, [Next]_vars PROVE CountType'
    OBVIOUS
  <1> USE ConstantsAssumption DEF CountType
  <1>1. ASSUME NEW cb \in BOOLEAN, RegisterAudioCallback(cb) PROVE CountType'
    BY <1>1 DEF RegisterAudioCallback, capture
  <1>2. ASSUME NEW s \in Side, Start(s) \/ ResetStats(s)
        PROVE  CountType'
    <2>1. CASE Start(s)
      BY <2>1 DEF Start
    <2>2. CASE ResetStats(s)
      BY <2>2 DEF ResetStats, QueueUnchanged, main, capture
    <2> QED
      BY <1>2, <2>1, <2>2
  <1>3. ASSUME NEW ok \in BOOLEAN,
               DeviceStarts(ok) \/ \E s \in Side : DeviceStops(s, ok)
        PROVE  CountType'
    BY <1>3 DEF DeviceStarts, DeviceStops, capture
  <1>4. CASE Stop \/ Destroy \/ Tick \/ UNCHANGED vars
    BY <1>4 DEF Stop, Destroy, Tick, vars, main, capture
  <1>5. ASSUME NEW loud \in BOOLEAN, SetRecordedBuffer(loud) PROVE CountType'
    BY <1>5 DEF SetRecordedBuffer, Count, NextStatCount, main, Side
  <1>6. CASE RequestPlayoutData
    BY <1>6 DEF RequestPlayoutData, Count, main, capture, Side
  <1>7. CASE LogStart \/ LogStop
    BY <1>7 DEF LogStart, LogStop, Report, QueueUnchanged, main, capture
  <1>8. ASSUME NEW timer \in timers, LogActive(timer) PROVE CountType'
    BY <1>8 DEF LogActive, Report, QueueUnchanged, main, capture
  <1> QED
    BY <1>1, <1>2, <1>3, <1>4, <1>5, <1>6, <1>7, <1>8 DEF Next, Destroyed

\* A report: what it schedules.
LEMMA ReportType ==
    ASSUME now \in 0..MaxTime, NEW c \in 1..MaxStarts,
           NEW left \in SUBSET TimerType, Report(c, left)
    PROVE  timers' \subseteq TimerType
  <1>1. [chain |-> c, at |-> now + Interval] \in TimerType
    BY ConstantsAssumption DEF TimerType
  <1> QED
    BY <1>1 DEF Report

LEMMA LoggingTypeStep == Inv /\ LoggingType /\ [Next]_vars => LoggingType'
  <1> SUFFICES ASSUME Inv, LoggingType, [Next]_vars PROVE LoggingType'
    OBVIOUS
  <1>0. fifo \in Seq(TaskType) /\ mpc.call \in {"none", "start", "stop"}
    BY DEF Inv, BufferType
  <1> USE ConstantsAssumption DEF LoggingType
  <1>1. ASSUME UNCHANGED <<timers, fifo, starts, logging>>, now' \in {now, now + 1},
               now' <= MaxTime
        PROVE  LoggingType'
    BY <1>1 DEF logging
  <1>2. ASSUME NEW s \in Side, Start(s) PROVE LoggingType'
    <2>1. starts' = starts + 1 /\ starts' \in 0..MaxStarts
          /\ UNCHANGED <<now, timers, logging>>
      BY <1>2 DEF Start
    <2>2. Ranked(fifo', chain, starts')
      <3>1. CASE active[s]
        <4>1. fifo' = fifo
          BY <1>0, <1>2, <3>1, ConcatEmptySeq DEF Start
        <4>2. \A m \in Nat : m <= starts => m <= starts'
          BY <2>1
        <4> QED
          BY <2>1, <4>1 DEF Ranked
      <3>2. CASE ~active[s] /\ active[Other(s)]
        <4>1. fifo' = Append(fifo, Reset(s))
          BY <1>0, <1>2, <3>2, LogTasks, AppendIsConcat DEF Start
        <4>2. Reset(s) # LOG_START /\ Reset(s) \in TaskType
          BY LogTasks
        <4> QED
          BY <1>0, <2>1, <4>1, <4>2, RankedAppend
      <3>3. CASE ~active[s] /\ ~active[Other(s)]
        <4>1. fifo' = fifo \o <<Reset(s), LOG_START>>
          BY <1>2, <3>3 DEF Start
        <4>2. fifo' = Append(Append(fifo, Reset(s)), LOG_START)
          BY <1>0, <4>1, LogTasks
        <4>3. Reset(s) # LOG_START /\ Reset(s) \in TaskType /\ LOG_START \in TaskType
          BY LogTasks
        <4>4. Append(fifo, Reset(s)) \in Seq(TaskType)
          BY <1>0, <4>3, AppendProperties
        <4>5. Ranked(Append(fifo, Reset(s)), chain, starts)
          BY <1>0, <4>3, RankedAppend
        <4> QED
          <5> DEFINE g == Append(fifo, Reset(s))
          <5>1. /\ chain \in Nat /\ starts \in Nat /\ starts + 1 \in Nat
                /\ chain <= starts /\ starts <= starts + 1 /\ starts < starts + 1
            OBVIOUS
          <5>2. g \in Seq(TaskType) /\ Ranked(g, chain, starts)
            BY <4>4, <4>5
          <5> HIDE DEF g
          <5>3. Ranked(Append(g, LOG_START), chain, starts + 1)
            BY ONLY <5>1, <5>2, <4>3, RankedAppend
          <5> QED
            BY <2>1, <4>2, <5>3 DEF g
      <3> QED
        BY <3>1, <3>2, <3>3
    <2> QED
      BY <2>1, <2>2 DEF logging
  <1>3. CASE Stop
    <2>1. UNCHANGED <<now, timers, starts, logging>>
      BY <1>3 DEF Stop
    <2>2. fifo' = fifo \o <<>> \/ fifo' = fifo \o <<LOG_STOP>>
      BY <1>3 DEF Stop, StopPosts
    <2>3. fifo' = fifo \/ fifo' = Append(fifo, LOG_STOP)
      BY <1>0, <2>2, LogTasks, ConcatEmptySeq, AppendIsConcat
    <2>4. LOG_STOP \in TaskType /\ LOG_STOP # LOG_START
      BY LogTasks
    <2>5. Ranked(Append(fifo, LOG_STOP), chain, starts)
      BY <1>0, <2>4, RankedAppend
    <2> QED
      BY <2>1, <2>3, <2>5 DEF logging
  <1>4. CASE Destroy
    <2>1. fifo' = <<>> /\ timers' = {} /\ UNCHANGED <<now, starts, logging>>
      BY <1>4 DEF Destroy
    <2>2. Ranked(<<>>, chain, starts)
      BY RankedEmpty
    <2> QED
      BY <2>1, <2>2 DEF logging
  <1>5. ASSUME NEW s \in Side, ResetStats(s) PROVE LoggingType'
    <2>1. /\ fifo # <<>> /\ fifo' = Tail(fifo)
          /\ UNCHANGED <<now, timers, starts, logging>>
      BY <1>5 DEF ResetStats, QueueUnchanged, main
    <2>2. Ranked(fifo', chain, starts)
      BY <1>0, <2>1, RankedTail
    <2> QED
      BY <2>1, <2>2 DEF logging
  <1>6. CASE LogStop
    <2>1. /\ fifo # <<>> /\ fifo' = Tail(fifo)
          /\ UNCHANGED <<now, timers, starts, chain>>
      BY <1>6 DEF LogStop, QueueUnchanged, main
    <2>2. Ranked(fifo', chain, starts)
      BY <1>0, <2>1, RankedTail
    <2> QED
      BY <2>1, <2>2
  <1>7. CASE LogStart
    <2>1. /\ fifo # <<>> /\ Head(fifo) = LOG_START /\ fifo' = Tail(fifo)
          /\ chain' = chain + 1 /\ UNCHANGED <<now, starts>>
          /\ Report(chain', timers)
      BY <1>7 DEF LogStart, QueueUnchanged, main
    <2>2. chain < starts /\ Ranked(fifo', chain + 1, starts)
      BY <1>0, <2>1, RankedTail
    <2>3. chain' \in 1..MaxStarts /\ chain' <= starts
      BY <2>1, <2>2
    <2>4. timers' \subseteq TimerType
      BY <2>1, <2>3, ReportType
    <2> QED
      BY <2>1, <2>2, <2>3, <2>4
  <1>8. ASSUME NEW timer \in timers, LogActive(timer) PROVE LoggingType'
    <2>1. /\ UNCHANGED <<now, starts, fifo, chain>>
          /\ timer.chain \in 1..MaxStarts
          /\ timers \ {timer} \in SUBSET TimerType
      BY <1>8 DEF LogActive, QueueUnchanged, main, logging, TimerType
    <2>2. timers' \subseteq TimerType
      <3>1. CASE log_stats_
        <4>1. Report(timer.chain, timers \ {timer})
          BY <1>8, <3>1 DEF LogActive
        <4> QED
          BY <2>1, <4>1, ReportType
      <3>2. CASE ~log_stats_
        BY <1>8, <2>1, <3>2 DEF LogActive, logging
      <3> QED
        BY <3>1, <3>2
    <2> QED
      BY <2>1, <2>2
  <1>9. CASE \/ \E cb \in BOOLEAN : RegisterAudioCallback(cb)
             \/ \E ok \in BOOLEAN : DeviceStarts(ok) \/ \E s \in Side : DeviceStops(s, ok)
             \/ \E loud \in BOOLEAN : SetRecordedBuffer(loud)
             \/ RequestPlayoutData \/ Tick \/ UNCHANGED vars
    <2>1. UNCHANGED <<timers, fifo, starts, logging>>
      BY <1>9 DEF RegisterAudioCallback, DeviceStops, DeviceStarts, SetRecordedBuffer,
                  RequestPlayoutData, Tick, vars, main, queue
    <2>2. now' \in {now, now + 1} /\ now' <= MaxTime
      BY <1>9 DEF RegisterAudioCallback, DeviceStops, DeviceStarts, SetRecordedBuffer,
                  RequestPlayoutData, Tick, vars
    <2> QED
      BY <1>1, <2>1, <2>2
  <1> QED
    BY <1>2, <1>3, <1>4, <1>5, <1>6, <1>7, <1>8, <1>9 DEF Next, Destroyed

\* Every variable of the audio buffer keeps its type, the bound on the counter of
\* level measurements that SetRecordedBuffer asserts included (TypeOK).
THEOREM TypeCorrect == Spec => []TypeOK
  <1> USE ConstantsAssumption
  <1>1. Init => LoggingType /\ CountType
    <2> SUFFICES ASSUME Init PROVE LoggingType /\ CountType
      OBVIOUS
    <2>1. Ranked(<<>>, 0, 0)
      BY RankedEmpty
    <2>2. LoggingType
      BY <2>1 DEF Init, LoggingType
    <2>3. CountType
      <3>1. /\ stats_ \in [Side -> 0..MaxSamples] /\ last_stats_ \in [Side -> 0..MaxSamples]
            /\ rec_stat_count_ \in 0..LevelPeriod - 1
        BY DEF Init
      <3>2. audio_transport_cb_ \in BOOLEAN /\ alive \in BOOLEAN
        BY DEF Init
      <3> QED
        BY <3>1, <3>2 DEF CountType
    <2> QED
      BY <2>2, <2>3
  <1>2. Inv /\ SilenceInv /\ LoggingType /\ CountType => TypeOK
    BY DEF Inv, BufferType, SilenceInv, LoggingType, CountType, TimerType, TaskType, TypeOK
  <1> QED
    BY <1>1, <1>2, InvCorrect, SilenceInvariant, LoggingTypeStep, CountTypeStep, PTL
    DEF Spec
=============================================================================
