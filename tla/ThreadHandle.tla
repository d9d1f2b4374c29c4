----------------------------- MODULE ThreadHandle -----------------------------
(***************************************************************************)
(* rtc::ThreadHandle (rtc_base/platform_thread.{h,cc}): a thread that calls *)
(* Handle() in a loop and that can be started, suspended, suspended until a *)
(* condition holds, woken up, stopped and started again.                   *)
(*                                                                         *)
(* One owner calls Start, Stop and the destructor.  Suspend and WakeUp are *)
(* called by the owner between those calls and, in a behaviour in which    *)
(* others call, also by other threads or by Handle() itself at any moment. *)
(* Every critical section on mutex_ is one action, as is every unlocked    *)
(* access.                                                                 *)
(***************************************************************************)
EXTENDS Naturals, FiniteSets

CONSTANTS MaxStarts,   \* bound: how often Start creates a thread
          OthersCall   \* the values that others may have

ASSUME MaxStartsAssumption == MaxStarts \in Nat \ {0}
ASSUME OthersCallAssumption == OthersCall \subseteq BOOLEAN

Thread == 1..MaxStarts

VARIABLES
    status_,      \* ThreadStatus
    thread_,      \* handle of the current thread, 0 when there is none
    condition,    \* what end_wait_cond_() answers now
    wpc,          \* wpc[t]: where thread t is in Run
    opc,          \* where the owner is in Start, Stop or the destructor
    destroying,   \* the destructor was entered
    created,      \* number of threads created
    others        \* do other threads call Suspend and WakeUp, too?

vars == <<status_, thread_, condition, wpc, opc, destroying, created, others>>

Status == {"kPrepareStart", "kRunning", "kWait", "kWaitForCondition",
           "kPrepareStop", "kStop"}

\* The constructor.
Init ==
    /\ status_ = "kStop"
    /\ thread_ = 0
    /\ condition \in BOOLEAN
    /\ wpc = [t \in Thread |-> "none"]
    /\ opc = "idle"
    /\ destroying = FALSE
    /\ created = 0
    /\ others \in OthersCall

-----------------------------------------------------------------------------
(* SetStatus: which changes of status_ are accepted.                       *)

Accepts(new) ==
    CASE new = "kPrepareStart" -> status_ = "kStop"
      [] new = "kRunning" -> status_ \in {"kPrepareStart", "kWait", "kWaitForCondition"}
      [] new = "kPrepareStop" -> status_ \notin {"kPrepareStop", "kStop"}
      [] new = "kStop" -> status_ = "kPrepareStop"

SetStatus(new) == status_' = IF Accepts(new) THEN new ELSE status_

-----------------------------------------------------------------------------
(* The owner.                                                              *)

\* Start returns at once unless the thread is stopped.
Start ==
    /\ opc = "idle"
    /\ created < MaxStarts
    /\ SetStatus("kPrepareStart")
    /\ opc' = IF Accepts("kPrepareStart") THEN "create" ELSE "idle"
    /\ UNCHANGED <<thread_, condition, wpc, destroying, created, others>>

\* pthread_create: from here on the new thread runs.
CreateThread ==
    /\ opc = "create"
    /\ created' = created + 1
    /\ thread_' = created + 1
    /\ wpc' = [wpc EXCEPT ![created + 1] = "begin"]
    /\ opc' = "started"
    /\ UNCHANGED <<status_, condition, destroying, others>>

StartReturns ==
    /\ opc = "started"
    /\ SetStatus("kRunning")
    /\ opc' = "idle"
    /\ UNCHANGED <<thread_, condition, wpc, destroying, created, others>>

Suspended == status_ \in {"kWait", "kWaitForCondition"}

\* cond_.notify_one(): one thread in cond_.wait leaves it.  A thread in
\* wait_for is not shown: it looks at the status again in any case.
NotifyOne ==
    \/ \E t \in Thread : /\ wpc[t] = "parked"
                         /\ wpc' = [wpc EXCEPT ![t] = "woken"]
    \/ (\A t \in Thread : wpc[t] # "parked") /\ UNCHANGED wpc

\* The status is set but nobody is notified.
Mut_WakeUpSilently ==
    /\ IF Suspended THEN status_' = "kRunning" ELSE UNCHANGED status_
    /\ UNCHANGED wpc

\* The body of WakeUp.
WakeUpBody ==
    IF Suspended THEN status_' = "kRunning" /\ NotifyOne
                 ELSE UNCHANGED <<status_, wpc>>

\* Stop begins with WakeUp.
Stop ==
    /\ opc = "idle"
    /\ WakeUpBody
    /\ opc' = "woke"
    /\ UNCHANGED <<thread_, condition, destroying, created, others>>

PrepareStop ==
    /\ opc = "woke"
    /\ SetStatus("kPrepareStop")
    /\ opc' = IF Accepts("kPrepareStop") /\ thread_ # 0 THEN "join" ELSE "joined"
    /\ UNCHANGED <<thread_, condition, wpc, destroying, created, others>>

Exited(t) == wpc[t] \in {"none", "exited", "refused"}

Mut_JoinDoesNotWait ==
    /\ opc = "join"
    /\ thread_' = 0
    /\ opc' = "joined"
    /\ UNCHANGED <<status_, condition, wpc, destroying, created, others>>

\* pthread_join returns when the thread has exited.
Join ==
    /\ opc = "join"
    /\ Exited(thread_)
    /\ thread_' = 0
    /\ opc' = "joined"
    /\ UNCHANGED <<status_, condition, wpc, destroying, created, others>>

\* SetStatus(kStop) ends Stop, and the destructor that called it.
StopReturns ==
    /\ opc = "joined"
    /\ SetStatus("kStop")
    /\ opc' = IF destroying THEN "destroyed" ELSE "idle"
    /\ UNCHANGED <<thread_, condition, wpc, destroying, created, others>>

\* ~ThreadHandle stops the thread when the status is kRunning, and only then.
Destroy ==
    /\ opc = "idle"
    /\ destroying' = TRUE
    /\ IF status_ = "kRunning" THEN WakeUpBody /\ opc' = "woke"
                               ELSE opc' = "destroyed" /\ UNCHANGED <<status_, wpc>>
    /\ UNCHANGED <<thread_, condition, created, others>>

-----------------------------------------------------------------------------
(* Suspend and WakeUp.                                                     *)

MayCall == opc = "idle" \/ (others /\ ~destroying)

Suspend ==
    /\ MayCall
    /\ status_' = IF status_ = "kRunning" THEN "kWait" ELSE status_
    /\ UNCHANGED <<thread_, condition, wpc, opc, destroying, created, others>>

\* Suspend(wait_time_ms, condition) with a condition and a positive time.
SuspendForCondition ==
    /\ MayCall
    /\ status_' = IF status_ = "kRunning" THEN "kWaitForCondition" ELSE status_
    /\ IF status_ = "kRunning" THEN condition' \in BOOLEAN ELSE UNCHANGED condition
    /\ UNCHANGED <<thread_, wpc, opc, destroying, created, others>>

WakeUp ==
    /\ MayCall
    /\ WakeUpBody
    /\ UNCHANGED <<thread_, condition, opc, destroying, created, others>>

\* What the condition looks at changes under the caller's control.
ConditionChanges ==
    /\ opc # "destroyed"
    /\ condition' = ~condition
    /\ UNCHANGED <<status_, thread_, wpc, opc, destroying, created, others>>

-----------------------------------------------------------------------------
(* The thread: Run.                                                        *)

Goes(t, from, to) ==
    /\ opc # "destroyed"
    /\ wpc[t] = from
    /\ wpc' = [wpc EXCEPT ![t] = to]
    /\ UNCHANGED <<status_, thread_, condition, opc, destroying, created, others>>

\* Run goes on only if the thread is being started or runs.
RunBegins(t) ==
    Goes(t, "begin", IF status_ \in {"kPrepareStart", "kRunning"} THEN "check"
                                                                 ELSE "refused")

\* status_ is read without the lock ...
CheckStatus(t) == Goes(t, "check", IF status_ = "kRunning" THEN "handle" ELSE "lock")

\* ... and again with it.
LockAndWait(t) ==
    Goes(t, "lock", CASE status_ = "kWait" -> "parked"
                      [] status_ = "kWaitForCondition" -> "poll"
                      [] OTHER -> "handle")

\* cond_.wait(lk) returns after notify_one, or spuriously; there is no loop.
WaitReturns(t) == Goes(t, "woken", "handle")
SpuriousWakeup(t) == Goes(t, "parked", "handle")

\* while (kWaitForCondition && !end_wait_cond_()) wait_for(...)
Poll(t) ==
    Goes(t, "poll", IF status_ = "kWaitForCondition" /\ ~condition THEN "poll"
                                                                   ELSE "handle")

\* Handle() is the user's: it ends the loop when it likes, and does so when it
\* sees that a Stop is in progress (nothing else ends the loop).
HandleReturns(t) ==
    \/ status_ # "kPrepareStop" /\ Goes(t, "handle", "check")
    \/ Goes(t, "handle", "exited")

RunStep(t) == \/ RunBegins(t) \/ CheckStatus(t) \/ LockAndWait(t)
              \/ WaitReturns(t) \/ Poll(t) \/ HandleReturns(t)

-----------------------------------------------------------------------------
OwnerContinues == \/ CreateThread \/ StartReturns \/ PrepareStop \/ Join
                  \/ StopReturns

Terminated == opc = "destroyed" /\ UNCHANGED vars

Next ==
    \/ Start \/ Stop \/ Destroy \/ OwnerContinues
    \/ Suspend \/ SuspendForCondition \/ WakeUp \/ ConditionChanges
    \/ \E t \in Thread : RunStep(t) \/ SpuriousWakeup(t)
    \/ Terminated

Spec == Init /\ [][Next]_vars

\* The threads that can run are scheduled, Handle() returns, wait_for times
\* out.  No spurious wake-up is ever owed.
Fairness ==
    /\ WF_vars(OwnerContinues)
    /\ \A t \in Thread : WF_vars(RunStep(t))

FairSpec == Spec /\ Fairness

-----------------------------------------------------------------------------
(* Properties.                                                             *)

\* Every variable has its type.
TypeOK ==
    /\ status_ \in Status
    /\ thread_ \in 0..MaxStarts
    /\ condition \in BOOLEAN
    /\ wpc \in [Thread -> {"none", "begin", "check", "lock", "parked", "woken",
                           "poll", "handle", "exited", "refused"}]
    /\ opc \in {"idle", "create", "started", "woke", "join", "joined",
                "destroyed"}
    /\ destroying \in BOOLEAN
    /\ created \in 0..MaxStarts
    /\ others \in BOOLEAN

\* A thread that was reported stopped has exited and was joined: whatever the
\* callers of Suspend and WakeUp do meanwhile, kStop means that no thread is
\* left behind in Run.
StoppedMeansExited ==
    status_ = "kStop" => thread_ = 0 /\ \A t \in Thread : Exited(t)

\* Two threads never run the loop of one object.
OneThread == \A t, u \in Thread : ~Exited(t) /\ ~Exited(u) => t = u

\* WakeUp is never lost: a thread in cond_.wait that nobody has notified is
\* there because the object is suspended, so that the next WakeUp or Stop
\* notifies it.  Stop wakes and forbids in two critical sections: only a
\* Suspend of another thread that falls in between leaves the thread parked
\* while the object stops.
ParkedIsSuspended ==
    \A t \in Thread : wpc[t] = "parked" => \/ status_ = "kWait"
                                           \/ others /\ status_ = "kPrepareStop"

\* The comment on Suspend: "thread blocked until |WakeUp| is called".  While it
\* is suspended the thread has not left Run, so that WakeUp can resume it.
SuspendedIsAlive ==
    status_ = "kWait" /\ thread_ # 0 => wpc[thread_] # "refused"

\* Stop returns: its WakeUp takes a suspended thread out of its wait, so that
\* the join ends.
StopTerminates == (opc = "woke") ~> (opc \in {"idle", "destroyed"})

\* The same for an object that only its owner suspends: there Stop's WakeUp
\* cannot be undone before kPrepareStop is set.
OwnersStopTerminates == ~others => StopTerminates
=============================================================================
