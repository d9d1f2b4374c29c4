-------------------------- MODULE AudioDeviceBuffer --------------------------
(***************************************************************************)
(* modules/audio_device/audio_device_buffer.cc as AudioDeviceModuleImpl    *)
(* (audio_device_impl.cc) drives it.  Four threads meet here: the main     *)
(* thread starts and stops media, the native playout and recording threads *)
(* bring audio, and a task queue resets and logs the statistics.           *)
(*                                                                         *)
(* Playout and recording have the same code; Side stands for the two.      *)
(* The task queue is the contract of TaskQueueBase: posted tasks run in    *)
(* order, delayed ones not early, one task at a time.  A task is one step: *)
(* it has a single critical section and everything else it uses belongs to *)
(* the queue.  Peak levels, sample rates and buffer contents are left out, *)
(* and so is what only decides whether a report is printed: its number and *)
(* the time since the last one.  Every callback brings one unit of samples. *)
(***************************************************************************)
EXTENDS Integers, Sequences

CONSTANTS Interval,      \* kTimerIntervalInMilliseconds, in clock units
          LevelPeriod,   \* callbacks between two level measurements, 50
          MaxTime,       \* bound: the clock stands still at this instant
          MaxStarts,     \* bound: calls of StartPlayout and StartRecording
          MaxSamples     \* bound: samples counted between two resets

ASSUME ConstantsAssumption ==
    /\ Interval \in Nat \ {0}
    /\ LevelPeriod \in Nat \ {0}
    /\ MaxTime \in Nat /\ MaxStarts \in Nat /\ MaxSamples \in Nat

Side == {"play", "rec"}

VARIABLES
    now,                            \* rtc::TimeMillis()
    mpc,                            \* main thread: the call it is in
    active,                         \* playing_ and recording_
    device,                         \* audio_device_: Playing() and Recording()
    audio_transport_cb_,            \* whether one is registered
    fifo, timers,                   \* task_queue_: posted and delayed tasks
    stats_, last_stats_,            \* samples counted, and at the last log
    log_stats_,
    rec_stat_count_, only_silence_recorded_,
    alive,                          \* the object exists
    starts, chain, heard            \* history

main == <<mpc, active, device, audio_transport_cb_, alive, starts>>
queue == <<fifo, timers>>
logging == <<log_stats_, chain>>
capture == <<rec_stat_count_, only_silence_recorded_, heard>>
vars == <<now, main, queue, stats_, last_stats_, logging, capture>>

Idle == [call |-> "none", side |-> "none"]

Init ==
    /\ now = 0
    /\ mpc = Idle
    /\ active = [s \in Side |-> FALSE]
    /\ device = [s \in Side |-> FALSE]
    /\ audio_transport_cb_ = FALSE
    /\ fifo = <<>> /\ timers = {}
    /\ stats_ = [s \in Side |-> 0] /\ last_stats_ = [s \in Side |-> 0]
    /\ log_stats_ = FALSE
    /\ rec_stat_count_ = 0 /\ only_silence_recorded_ = TRUE
    /\ alive = TRUE
    /\ starts = 0 /\ chain = 0 /\ heard = FALSE

Media == \E s \in Side : active[s]
Other(s) == CHOOSE o \in Side : o # s
Reset(s) == <<"Reset", s>>
LOG_START == <<"LogStats", "LOG_START">>
LOG_STOP == <<"LogStats", "LOG_STOP">>

-----------------------------------------------------------------------------
(* The main thread.                                                        *)

\* RegisterAudioCallback, with a transport or with null
RegisterAudioCallback(cb) ==
    /\ alive /\ mpc = Idle
    /\ ~Media
    /\ audio_transport_cb_' = cb
    /\ UNCHANGED <<now, mpc, active, device, alive, starts, queue, stats_,
                   last_stats_, logging, capture>>

\* only_silence_recorded_ = true forgotten
Mut_ClearsSilenceNever(s) == FALSE

\* A new recording starts as silent.
ClearsSilence(s) == s = "rec"

\* AudioDeviceModuleImpl::StartPlayout and StartRecording up to the device:
\* AudioDeviceBuffer::StartPlayout and StartRecording, which do nothing when
\* their side is active already.
Start(s) ==
    /\ alive /\ mpc = Idle
    /\ ~device[s]
    /\ starts < MaxStarts
    /\ starts' = starts + 1
    /\ mpc' = [call |-> "start", side |-> s]
    /\ active' = [active EXCEPT ![s] = TRUE]
    /\ fifo' = fifo \o CASE active[s]                      -> <<>>
                         [] ~active[s] /\ active[Other(s)] -> <<Reset(s)>>
                         [] OTHER                          -> <<Reset(s), LOG_START>>
    /\ only_silence_recorded_' =
           (only_silence_recorded_ \/ (ClearsSilence(s) /\ ~active[s]))
    /\ UNCHANGED <<now, device, audio_transport_cb_, alive, timers, stats_,
                   last_stats_, logging, rec_stat_count_, heard>>

\* audio_device_->StartPlayout or StartRecording, which may fail.
DeviceStarts(ok) ==
    /\ mpc.call = "start"
    /\ mpc' = Idle
    /\ device' = [device EXCEPT ![mpc.side] = ok]
    /\ heard' = (heard /\ ~(ok /\ mpc.side = "rec"))
    /\ UNCHANGED <<now, active, audio_transport_cb_, alive, starts, queue,
                   stats_, last_stats_, logging, rec_stat_count_,
                   only_silence_recorded_>>

\* AudioDeviceModuleImpl::StopPlayout and StopRecording: the device first,
\* which goes on when it fails to stop, ...
DeviceStops(s, ok) ==
    /\ alive /\ mpc = Idle
    /\ mpc' = [call |-> "stop", side |-> s]
    /\ device' = [device EXCEPT ![s] = @ /\ ~ok]
    /\ UNCHANGED <<now, active, audio_transport_cb_, alive, starts, queue,
                   stats_, last_stats_, logging, capture>>

\* the other side not looked at
Mut_StopPostsAlways(s) == <<LOG_STOP>>

\* The last side that stops posts LOG_STOP.
StopPosts(s) == IF active[Other(s)] THEN <<>> ELSE <<LOG_STOP>>

\* ... then AudioDeviceBuffer::StopPlayout or StopRecording.
Stop ==
    /\ mpc.call = "stop"
    /\ mpc' = Idle
    /\ fifo' = fifo \o IF active[mpc.side] THEN StopPosts(mpc.side) ELSE <<>>
    /\ active' = [active EXCEPT ![mpc.side] = FALSE]
    /\ UNCHANGED <<now, device, audio_transport_cb_, alive, starts, timers,
                   stats_, last_stats_, logging, capture>>

\* The destructor, called with no media active (its RTC_DCHECKs); the module
\* has destroyed the device before.
Destroy ==
    /\ alive /\ mpc = Idle
    /\ ~Media
    /\ alive' = FALSE
    /\ device' = [s \in Side |-> FALSE]
    /\ fifo' = <<>> /\ timers' = {}
    /\ UNCHANGED <<now, mpc, active, audio_transport_cb_, starts, stats_,
                   last_stats_, logging, capture>>

-----------------------------------------------------------------------------
(* The native audio threads.                                               *)

Count(s) ==
    /\ stats_[s] < MaxSamples
    /\ stats_' = [stats_ EXCEPT ![s] = @ + 1]

NextStatCount == IF rec_stat_count_ + 1 >= LevelPeriod THEN 0
                                                        ELSE rec_stat_count_ + 1

\* SetRecordedBuffer and UpdateRecStats; loud says what the buffer holds.
SetRecordedBuffer(loud) ==
    /\ device["rec"]
    /\ Count("rec")
    /\ rec_stat_count_' = NextStatCount
    /\ LET detected == loud /\ NextStatCount = 0
       IN  /\ only_silence_recorded_' = (only_silence_recorded_ /\ ~detected)
           /\ heard' = (heard \/ detected)
    /\ UNCHANGED <<now, main, queue, last_stats_, logging>>

\* RequestPlayoutData and UpdatePlayStats; nothing without a transport.
RequestPlayoutData ==
    /\ device["play"]
    /\ audio_transport_cb_
    /\ Count("play")
    /\ UNCHANGED <<now, main, queue, last_stats_, logging, capture>>

-----------------------------------------------------------------------------
(* The task queue.                                                         *)

QueueUnchanged == UNCHANGED <<now, main, capture>>

\* last_stats_ not reset
Mut_ResetStatsHalf(s) ==
    /\ fifo # <<>> /\ Head(fifo) = Reset(s)
    /\ fifo' = Tail(fifo)
    /\ stats_' = [stats_ EXCEPT ![s] = 0]
    /\ UNCHANGED <<timers, last_stats_, logging>>
    /\ QueueUnchanged

\* ResetPlayStats and ResetRecStats
ResetStats(s) ==
    /\ fifo # <<>> /\ Head(fifo) = Reset(s)
    /\ fifo' = Tail(fifo)
    /\ last_stats_' = [last_stats_ EXCEPT ![s] = 0]
    /\ stats_' = [stats_ EXCEPT ![s] = 0]
    /\ UNCHANGED <<timers, logging>>
    /\ QueueUnchanged

\* The part of LogStats that runs when logging is on: a report, and the timer
\* for the next one of the same chain.
Report(c, left) ==
    /\ last_stats_' = stats_
    /\ timers' = left \cup {[chain |-> c, at |-> now + Interval]}

LogStart ==
    /\ fifo # <<>> /\ Head(fifo) = LOG_START
    /\ fifo' = Tail(fifo)
    /\ log_stats_' = TRUE
    /\ chain' = chain + 1
    /\ Report(chain', timers)
    /\ UNCHANGED stats_
    /\ QueueUnchanged

LogStop ==
    /\ fifo # <<>> /\ Head(fifo) = LOG_STOP
    /\ fifo' = Tail(fifo)
    /\ log_stats_' = FALSE
    /\ UNCHANGED <<timers, stats_, last_stats_, chain>>
    /\ QueueUnchanged

\* the next report not scheduled
Mut_LogActiveOnce(timer) ==
    /\ timer \in timers /\ timer.at <= now
    /\ timers' = timers \ {timer}
    /\ UNCHANGED <<fifo, stats_, last_stats_, logging>>
    /\ QueueUnchanged

\* A delayed LogStats(LOG_ACTIVE): it goes on when logging is on.
LogActive(timer) ==
    /\ timer \in timers /\ timer.at <= now
    /\ \/ /\ log_stats_
          /\ Report(timer.chain, timers \ {timer})
          /\ UNCHANGED <<fifo, stats_, log_stats_, chain>>
       \/ /\ ~log_stats_
          /\ timers' = timers \ {timer}
          /\ UNCHANGED <<fifo, stats_, last_stats_, logging>>
    /\ QueueUnchanged

Tick ==
    /\ now < MaxTime
    /\ now' = now + 1
    /\ UNCHANGED <<main, queue, stats_, last_stats_, logging, capture>>

-----------------------------------------------------------------------------
Destroyed == ~alive /\ UNCHANGED vars

Next ==
    \/ \E cb \in BOOLEAN : RegisterAudioCallback(cb)
    \/ \E s \in Side : Start(s) \/ ResetStats(s)
    \/ \E ok \in BOOLEAN : DeviceStarts(ok) \/ \E s \in Side : DeviceStops(s, ok)
    \/ Stop
    \/ Destroy
    \/ \E loud \in BOOLEAN : SetRecordedBuffer(loud)
    \/ RequestPlayoutData
    \/ LogStart \/ LogStop
    \/ \E timer \in timers : LogActive(timer)
    \/ Tick
    \/ Destroyed

Spec == Init /\ [][Next]_vars

-----------------------------------------------------------------------------
(* Properties.                                                             *)

\* Type invariant; rec_stat_count_ stays below the period (the RTC_DCHECK_LT
\* of SetRecordedBuffer).
TypeOK ==
    /\ now \in 0..MaxTime
    /\ mpc \in [call : {"none", "start", "stop"}, side : Side \cup {"none"}]
    /\ active \in [Side -> BOOLEAN] /\ device \in [Side -> BOOLEAN]
    /\ audio_transport_cb_ \in BOOLEAN /\ alive \in BOOLEAN
    /\ fifo \in Seq({Reset(s) : s \in Side} \cup {LOG_START, LOG_STOP})
    /\ timers \subseteq [chain : 1..MaxStarts, at : 0..MaxTime + Interval]
    /\ stats_ \in [Side -> 0..MaxSamples]
    /\ last_stats_ \in [Side -> 0..MaxSamples]
    /\ log_stats_ \in BOOLEAN
    /\ rec_stat_count_ \in 0..LevelPeriod - 1
    /\ only_silence_recorded_ \in BOOLEAN /\ heard \in BOOLEAN
    /\ starts \in 0..MaxStarts /\ chain \in 0..MaxStarts

\* LogStats subtracts last_stats_ from stats_ in unsigned arithmetic: the
\* counters never run backwards between two reports, in spite of resets that
\* are posted on one thread, run on another and race with the audio threads.
StatsNeverRunBackwards == \A s \in Side : last_stats_[s] <= stats_[s]

IsLog(task) == task \in {LOG_START, LOG_STOP}

\* Once the queue has worked off what is posted, logging is on exactly when
\* media is active: the tests of the other side's flag in the Start and Stop
\* methods post LOG_START and LOG_STOP at the right moments.
LoggingFollowsMedia ==
    alive =>
      /\ (\A i \in DOMAIN fifo : ~IsLog(fifo[i])) => log_stats_ = Media
      /\ \A i \in DOMAIN fifo :
           IsLog(fifo[i]) /\ (\A j \in DOMAIN fifo : j > i => ~IsLog(fifo[j]))
             => (fifo[i] = LOG_START) = Media

\* While logging is on, exactly one timer carries on what the last LOG_START
\* began: LOG_ACTIVE tasks that outlive a LOG_STOP, which nobody cancels, add
\* chains of their own and neither replace this one nor double it.
LoggingHasTimer ==
    alive /\ log_stats_ =>
      \E timer \in timers : {t \in timers : t.chain = chain} = {timer}

\* The WebRTC.Audio.RecordedOnlyZeros histogram is about this recording: the
\* flag that StopRecording reports says whether the native thread has detected
\* sound since the device was started, also after starts that failed.
SilenceIsOfThisRecording == device["rec"] => only_silence_recorded_ = ~heard
=============================================================================
