---------------------------- MODULE AsyncInvoker ----------------------------
(***************************************************************************)
(* rtc::AsyncInvoker and its AsyncClosures (rtc_base/async_invoker.{h,cc}):*)
(* calls posted to rtc::Threads, each counted while its closure lives, and *)
(* a destructor that cancels the calls and waits for the closures.         *)
(*                                                                         *)
(* The threads outlive the invoker and do not quit.  Of a thread's queue   *)
(* only the set of this invoker's messages is kept: which one is next, and *)
(* when a delayed one is due, is the business of RtcThread.  The owner     *)
(* uses the invoker on the thread Home, where it destroys it, and functors *)
(* use it wherever they run, as the header asks for ("starting each chain  *)
(* of invocations on the same thread on which it will be destroyed").      *)
(* Identities of closures are used again, so that chains of functors that  *)
(* invoke functors have no end.                                            *)
(***************************************************************************)
EXTENDS Integers, FiniteSets

CONSTANTS Thread,   \* the rtc::Threads
          Home,     \* the one that owns the invoker
          NoThread, \* no thread
          Call      \* bound: the closures that are alive at the same time

ASSUME HomeAssumption == Home \in Thread /\ NoThread \notin Thread
ASSUME CallAssumption == IsFiniteSet(Call)

VARIABLES
    destroying_,
    pending_invocations_,
    invocation_complete_, \* the event is set
    at,      \* at[c]: what the closure c is to which thread
    pc,      \* pc[t]: where t is in a call on the invoker; "base" if in none
    target,  \* target[t]: the thread that t's AsyncInvoke is for
    todo,    \* todo[t]: the queues that t's Clear has still to clear
    next,    \* next[t]: where t goes after its Clear
    flush,   \* the Flush of the owner: its thread and whether it runs there
    owed     \* the calls that were pending on that thread when it was called

vars == <<destroying_, pending_invocations_, invocation_complete_, at, pc, target, todo,
          next, flush, owed>>

Free == [is |-> "free", on |-> NoThread]
Made(t) == [is |-> "made", on |-> t]             \* under construction
Queued(t) == [is |-> "queued", on |-> t]         \* a message in t's queue
Removed(t) == [is |-> "removed", on |-> t]       \* taken off it by Flush
Running(t) == [is |-> "running", on |-> t]       \* its functor runs
Releasing(t) == [is |-> "releasing", on |-> t]   \* about to be destroyed

NoFlush == [on |-> NoThread, started |-> FALSE]

Are(place) == {c \in Call : at[c] = place}

Init ==
    /\ destroying_ = FALSE
    /\ pending_invocations_ = 0
    /\ invocation_complete_ = FALSE
    /\ at = [c \in Call |-> Free]
    /\ pc = [t \in Thread |-> "base"]
    /\ target = [t \in Thread |-> Home]
    /\ todo = [t \in Thread |-> {}]
    /\ next = [t \in Thread |-> "base"]
    /\ flush = NoFlush
    /\ owed = {}

Goes(t, label) == pc' = [pc EXCEPT ![t] = label]

\* The thread is in its message loop, where Home may handle code of the owner.
Idle(t) ==
    /\ pc[t] = "base"
    /\ Are(Running(t)) = {}
    /\ ~(flush.on = t /\ flush.started)

\* Code that may use the invoker runs on t: a functor, or the owner's.
InCode(t) == (pc[t] = "base" /\ Are(Running(t)) # {}) \/ (t = Home /\ Idle(t))

-----------------------------------------------------------------------------
(* AsyncInvoke and AsyncInvokeDelayed.                                     *)

\* The closure is constructed, and counted ...
AsyncInvoke(t, u) ==
    /\ InCode(t)
    /\ \E c \in Are(Free) : at' = [at EXCEPT ![c] = Made(t)]
    /\ pending_invocations_' = pending_invocations_ + 1
    /\ target' = [target EXCEPT ![t] = u]
    /\ Goes(t, "check")
    /\ UNCHANGED <<destroying_, invocation_complete_, todo, next, flush, owed>>

Mut_RefusesNever == FALSE

Refuses == destroying_

\* ... DoInvoke gives it up if the invoker is being destroyed ...
DoInvoke(t) ==
    /\ pc[t] = "check"
    /\ IF Refuses
       THEN /\ at' = [c \in Call |-> IF at[c] = Made(t) THEN Releasing(t) ELSE at[c]]
            /\ Goes(t, "release")
       ELSE Goes(t, "post") /\ UNCHANGED at
    /\ UNCHANGED <<destroying_, pending_invocations_, invocation_complete_, target, todo,
                   next, flush, owed>>

\* ... and posts it otherwise.
Post(t) ==
    /\ pc[t] = "post"
    /\ at' = [c \in Call |-> IF at[c] = Made(t) THEN Queued(target[t]) ELSE at[c]]
    /\ Goes(t, "base")
    /\ UNCHANGED <<destroying_, pending_invocations_, invocation_complete_, target, todo,
                   next, flush, owed>>

-----------------------------------------------------------------------------
(* OnMessage and the end of a closure.                                     *)

\* OnMessage is called by the message loop.
OnMessage(t) ==
    /\ Idle(t)
    /\ \E c \in Are(Queued(t)) : at' = [at EXCEPT ![c] = Running(t)]
    /\ UNCHANGED <<destroying_, pending_invocations_, invocation_complete_, pc, target,
                   todo, next, flush, owed>>

FunctorReturns(t) ==
    /\ pc[t] = "base"
    /\ \E c \in Are(Running(t)) : at' = [at EXCEPT ![c] = Releasing(t)]
    /\ Goes(t, "release")
    /\ UNCHANGED <<destroying_, pending_invocations_, invocation_complete_, target, todo,
                   next, flush, owed>>

\* ~AsyncClosure: first the counter, which is the invoker's ...
Decrement(t) ==
    /\ pc[t] = "release"
    /\ \E c \in Are(Releasing(t)) : at' = [at EXCEPT ![c] = Free] /\ owed' = owed \ {c}
    /\ pending_invocations_' = pending_invocations_ - 1
    /\ Goes(t, "set")
    /\ UNCHANGED <<destroying_, invocation_complete_, target, todo, next, flush>>

\* ... then the event, which may outlive it.
Set(t) ==
    /\ pc[t] = "set"
    /\ invocation_complete_' = TRUE
    /\ Goes(t, "base")
    /\ UNCHANGED <<destroying_, pending_invocations_, at, target, todo, next, flush, owed>>

-----------------------------------------------------------------------------
(* Clear.                                                                  *)

Clears(t, S, label) ==
    /\ todo' = [todo EXCEPT ![t] = S]
    /\ next' = [next EXCEPT ![t] = label]
    /\ Goes(t, "clear")

Clear(t) ==
    /\ InCode(t)
    /\ Clears(t, Thread, "base")
    /\ UNCHANGED <<destroying_, pending_invocations_, invocation_complete_, at, target,
                   flush, owed>>

LeftAfterClear(S) == pending_invocations_ - Cardinality(S)

\* ThreadManager::Clear goes from queue to queue.  The closures in a queue are
\* destroyed under its lock, and whoever waits for the counter is signalled after
\* the last one: one step.
ClearQueue(t) ==
    /\ pc[t] = "clear"
    /\ \E u \in todo[t] :
           /\ todo' = [todo EXCEPT ![t] = @ \ {u}]
           /\ at' = [c \in Call |-> IF at[c] = Queued(u) THEN Free ELSE at[c]]
           /\ owed' = owed \ Are(Queued(u))
           /\ pending_invocations_' = LeftAfterClear(Are(Queued(u)))
           /\ invocation_complete_' = (invocation_complete_ \/ Are(Queued(u)) # {})
    /\ UNCHANGED <<destroying_, pc, target, next, flush>>

ClearReturns(t) ==
    /\ pc[t] = "clear"
    /\ todo[t] = {}
    /\ Goes(t, next[t])
    /\ UNCHANGED <<destroying_, pending_invocations_, invocation_complete_, at, target,
                   todo, next, flush, owed>>

-----------------------------------------------------------------------------
(* Flush, called by the owner.                                             *)

\* The messages of this invoker are removed from the queue of u ...
Removes(u) ==
    /\ flush' = [on |-> u, started |-> TRUE]
    /\ at' = [c \in Call |-> IF at[c] = Queued(u) THEN Removed(u) ELSE at[c]]

\* ... at once on Home; on another thread Flush is invoked, after the messages that
\* are ahead of it, while Home waits ...
Flush(u) ==
    /\ Idle(Home)
    /\ flush = NoFlush
    /\ ~destroying_
    /\ owed' = Are(Queued(u)) \cup Are(Running(u))
    /\ IF u = Home
       THEN Removes(u) /\ UNCHANGED pc
       ELSE /\ flush' = [on |-> u, started |-> FALSE]
            /\ Goes(Home, "invoke")
            /\ UNCHANGED at
    /\ UNCHANGED <<destroying_, pending_invocations_, invocation_complete_, target, todo,
                   next>>

FlushRuns(u) == flush.on = u /\ pc[u] = "base" /\ Are(Running(u)) = {}

FlushRemoves(u) ==
    /\ FlushRuns(u)
    /\ ~flush.started
    /\ Removes(u)
    /\ UNCHANGED <<destroying_, pending_invocations_, invocation_complete_, pc, target,
                   todo, next, owed>>

\* ... and sent, one after the other, to the thread itself, which handles them.
FlushSends(u) ==
    /\ FlushRuns(u)
    /\ flush.started
    /\ \E c \in Are(Removed(u)) : at' = [at EXCEPT ![c] = Running(u)]
    /\ UNCHANGED <<destroying_, pending_invocations_, invocation_complete_, pc, target,
                   todo, next, flush, owed>>

Mut_FlushedAtOnce(u) == TRUE

Flushed(u) == Are(Removed(u)) = {}

FlushReturns(u) ==
    /\ FlushRuns(u)
    /\ flush.started
    /\ Flushed(u)
    /\ flush' = NoFlush
    /\ Goes(Home, "base")
    /\ UNCHANGED <<destroying_, pending_invocations_, invocation_complete_, at, target,
                   todo, next, owed>>

-----------------------------------------------------------------------------
(* ~AsyncInvoker, on Home.                                                 *)

Destroy ==
    /\ Idle(Home)
    /\ flush = NoFlush
    /\ destroying_' = TRUE
    /\ Clears(Home, Thread, "test")
    /\ UNCHANGED <<pending_invocations_, invocation_complete_, at, target, flush, owed>>

Mut_StillPendingOffByOne == pending_invocations_ > 1

StillPending == pending_invocations_ > 0

Mut_LoopClearsNothing == {}

\* Thread::Current()->Clear(this)
LoopClears == {Home}

\* While invocations are pending, the queue of this thread is cleared before the
\* wait; then the destructor of the base class clears all of them once more.
TestPending ==
    /\ pc[Home] = "test"
    /\ IF StillPending THEN Clears(Home, LoopClears, "wait")
                       ELSE Clears(Home, Thread, "destroyed")
    /\ UNCHANGED <<destroying_, pending_invocations_, invocation_complete_, at, target,
                   flush, owed>>

Wait ==
    /\ pc[Home] = "wait"
    /\ invocation_complete_
    /\ invocation_complete_' = FALSE
    /\ Goes(Home, "test")
    /\ UNCHANGED <<destroying_, pending_invocations_, at, target, todo, next, flush, owed>>

-----------------------------------------------------------------------------
\* What t does by itself.
Continues(t) ==
    \/ DoInvoke(t) \/ Post(t) \/ Decrement(t) \/ Set(t)
    \/ ClearQueue(t) \/ ClearReturns(t)
    \/ FlushRemoves(t) \/ FlushSends(t) \/ FlushReturns(t)

Destructor == Destroy \/ TestPending \/ Wait

Next ==
    \/ \E t \in Thread :
           \/ Continues(t) \/ OnMessage(t) \/ FunctorReturns(t)
           \/ Clear(t) \/ Flush(t) \/ \E u \in Thread : AsyncInvoke(t, u)
    \/ Destructor

Spec == Init /\ [][Next]_vars

\* Threads are scheduled, functors return however often they invoke others, and
\* every message of a thread that goes on is handled.  Nobody has to call.
Fairness ==
    /\ \A t \in Thread : WF_vars(Continues(t)) /\ SF_vars(FunctorReturns(t))
                                               /\ SF_vars(OnMessage(t))
    /\ WF_vars(TestPending \/ Wait)

FairSpec == Spec /\ Fairness

-----------------------------------------------------------------------------
(* Properties.                                                             *)

\* Every variable has its type; the counter of closures never goes below zero.
TypeOK ==
    /\ destroying_ \in BOOLEAN
    /\ pending_invocations_ \in 0..Cardinality(Call)
    /\ invocation_complete_ \in BOOLEAN
    /\ at \in [Call -> [is : {"free", "made", "queued", "removed", "running", "releasing"},
                        on : Thread \cup {NoThread}]]
    /\ pc \in [Thread -> {"base", "check", "post", "release", "set", "clear", "invoke",
                          "test", "wait", "destroyed"}]
    /\ target \in [Thread -> Thread]
    /\ todo \in [Thread -> SUBSET Thread]
    /\ next \in [Thread -> {"base", "test", "wait", "destroyed"}]
    /\ flush \in [on : Thread \cup {NoThread}, started : BOOLEAN]
    /\ owed \subseteq Call

\* When the destructor has seen the counter at zero, no closure is left that could
\* still use the invoker: none is in a queue, runs, or is about to be posted by a
\* functor (~AsyncInvoker, "any calls executing will be allowed to complete before
\* AsyncInvoker destructs").
NoUseAfterDestroy ==
    next[Home] = "destroyed" => \A c \in Call : at[c] = Free

\* The destructor never waits for a signal that nobody will give: there is a
\* closure that is not in the queue of the thread that waits, or one that is gone
\* and about to signal.  Functors may post to that queue after ThreadManager::Clear.
WaitHasWaker ==
    pc[Home] = "wait" /\ ~invocation_complete_ =>
        \/ \E t \in Thread : pc[t] = "set"
        \/ \E c \in Call : at[c] \notin {Free, Queued(Home)}

\* When Flush returns, every call that was pending on the thread, or was running
\* there, has completed or was cleared by a functor ("wait for calls to complete
\* before returning").
FlushWaits == flush = NoFlush => owed = {}

\* The destructor returns, although functors that run meanwhile go on invoking
\* others: destroying_ breaks the chain.
DestroyReturns == destroying_ ~> pc[Home] = "destroyed"
=============================================================================
