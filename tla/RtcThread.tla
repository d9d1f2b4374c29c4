------------------------------ MODULE RtcThread ------------------------------
(***************************************************************************)
(* rtc::Thread (rtc_base/thread.{h,cc}) over a NullSocketServer: threads   *)
(* with a message queue each, whose handlers Post, PostDelayed and Send to *)
(* one another, and a thread of the platform, Owner, for which             *)
(* Thread::Current() is null and which stops and deletes them.  The build  *)
(* has RTC_DCHECK_IS_ON.                                                   *)
(*                                                                         *)
(* A critical section on crit_ is one action, as is every access to stop_, *)
(* to the clock and to the event of a socket server.  Messages are the     *)
(* QueuedTasks of PostTask, PostDelayedTask and Send; Clear, Peek,         *)
(* Dispose, Restart and wrapped threads are left out.                      *)
(***************************************************************************)
EXTENDS Integers, Sequences, FiniteSets

CONSTANTS Thread,     \* the rtc::Threads
          Owner,      \* a thread of the platform, no rtc::Thread
          MaxMsgs,    \* bound: messages ever posted or sent
          Delay,      \* delays passed to PostDelayedTask, a uint32_t
          IntMax,     \* the largest int
          MaxTime,    \* bound: the clock stands still at this instant
          Focus       \* bound: the threads that get delayed messages, quit,
                      \* are stopped and are deleted

ASSUME OwnerAssumption == Owner \notin Thread
ASSUME BoundAssumption == MaxMsgs \in Nat /\ MaxTime \in Nat
ASSUME DelayAssumption == Delay \subseteq Nat /\ IntMax \in Nat
ASSUME FocusAssumption == Focus \subseteq Thread

Actor == Thread \cup {Owner}
Msg == 1..MaxMsgs
NoMsg == 0
Forever == -1     \* kForever
Immediate == -1   \* due time of a message that is not delayed

VARIABLES
    now,               \* TimeMillis()
    stop_,             \* stop_[t]: IsQuitting()
    messages_,         \* messages_[t]: the messages that are ready
    delayed_messages_, \* delayed_messages_[t]: set of the delayed entries
    delayed_next_num_, \* delayed_next_num_[t]: number of the next entry
    event_,            \* event_[t]: the event of t's socket server is set
    send_graph_,       \* ThreadManager: who ever sent to whom
    pc,                \* pc[a]: where an actor is
    call,              \* call[a]: the call on an rtc::Thread that a is in
    cur,               \* cur[t]: the message that t dispatches
    msCurrent,         \* msCurrent[t]: the clock as Get last read it
    deadline,          \* deadline[t]: when the Wait of t times out
    aborted,           \* an RTC_CHECK has failed
    \* of the messages, for the properties
    used,              \* how many were posted or sent
    to,                \* to[m]: its thread
    due,               \* due[m]: its earliest start
    phase,             \* phase[m]: where it is in its life
    fifo               \* fifo[t]: its waiting messages that are not delayed, as posted

queue == <<messages_, delayed_messages_, delayed_next_num_>>
loop == <<cur, msCurrent, deadline>>
life == <<used, to, due, phase, fifo>>
vars == <<now, stop_, queue, event_, send_graph_, pc, call, loop, aborted, life>>

NoCall == [op |-> "none", to |-> Owner, msg |-> NoMsg, ready |-> FALSE, waited |-> FALSE]

\* The threads have been started and are about to look for messages.
Init ==
    /\ now = 0
    /\ stop_ = [t \in Thread |-> FALSE]
    /\ messages_ = [t \in Thread |-> <<>>]
    /\ delayed_messages_ = [t \in Thread |-> {}]
    /\ delayed_next_num_ = [t \in Thread |-> 0]
    /\ event_ = [t \in Thread |-> FALSE]
    /\ send_graph_ = {}
    /\ pc = [a \in Actor |-> IF a = Owner THEN "idle" ELSE "get"]
    /\ call = [a \in Actor |-> NoCall]
    /\ cur = [t \in Thread |-> NoMsg]
    /\ msCurrent = [t \in Thread |-> 0]
    /\ deadline = [t \in Thread |-> Forever]
    /\ aborted = FALSE
    /\ used = 0
    /\ to = [m \in Msg |-> Owner]
    /\ due = [m \in Msg |-> Immediate]
    /\ phase = [m \in Msg |-> "new"]
    /\ fifo = [t \in Thread |-> <<>>]

-----------------------------------------------------------------------------
(* Calls, by a handler that runs on a thread or by the owner.              *)

Rest(a) == IF a = Owner THEN "idle" ELSE "handler"

Goes(a, label) == pc' = [pc EXCEPT ![a] = label]

Returns(a) == Goes(a, Rest(a)) /\ call' = [call EXCEPT ![a] = NoCall]

\* Nobody but t itself calls t while it is being deleted, or afterwards.
MayUse(a, t) ==
    /\ pc[a] = Rest(a)
    /\ pc[t] # "deleted"
    /\ (call[Owner].op = "delete" /\ call[Owner].to = t) => a = t

Mut_WakeUpLost(t) == UNCHANGED event_

\* The WakeUp of t's socket server.
WakeUp(t) == event_' = [event_ EXCEPT ![t] = TRUE]

Enter(a, op, t, m, label) ==
    /\ call' = [call EXCEPT ![a] = [NoCall EXCEPT !.op = op, !.to = t, !.msg = m]]
    /\ Goes(a, label)

NewMessage(t, at, ph) ==
    /\ used < MaxMsgs
    /\ used' = used + 1
    /\ to' = [to EXCEPT ![used + 1] = t]
    /\ due' = [due EXCEPT ![used + 1] = at]
    /\ phase' = [phase EXCEPT ![used + 1] = ph]
    /\ UNCHANGED fifo

\* Post and PostDelayed look at IsQuitting() without the lock; a message for a
\* thread that quits is deleted.
Post(a, t, at) ==
    /\ MayUse(a, t)
    /\ IF stop_[t]
       THEN NewMessage(t, at, "refused") /\ UNCHANGED <<pc, call>>
       ELSE NewMessage(t, at, "called") /\ Enter(a, "post", t, used + 1, "push")
    /\ UNCHANGED <<now, stop_, queue, event_, send_graph_, loop, aborted>>

\* PostDelayed: the delay counts from the call.
PostDelayed(a, t, ms) ==
    t \in Focus /\ ms <= IntMax /\ now + ms <= MaxTime /\ Post(a, t, now + ms)

\* A delay that PostDelayed's int does not hold is negative there, and the
\* RTC_DCHECK of TimeAfter fails.
PostDelayedAborts(a, t, ms) ==
    /\ t \in Focus
    /\ ms > IntMax
    /\ used < MaxMsgs
    /\ MayUse(a, t)
    /\ aborted' = TRUE
    /\ UNCHANGED <<now, stop_, queue, event_, send_graph_, pc, call, loop, life>>

\* An entry of the priority queue.
Entry(t, m) == [run |-> due[m], num |-> delayed_next_num_[t], msg |-> m]

\* The message is added under the lock ...
Push(a) ==
    LET t == call[a].to
        m == call[a].msg
    IN  /\ pc[a] = "push"
        /\ IF due[m] = Immediate
           THEN /\ messages_' = [messages_ EXCEPT ![t] = Append(@, m)]
                /\ fifo' = [fifo EXCEPT ![t] = Append(@, m)]
                /\ UNCHANGED <<delayed_messages_, delayed_next_num_>>
           ELSE /\ delayed_messages_' = [delayed_messages_ EXCEPT ![t] = @ \cup {Entry(t, m)}]
                /\ delayed_next_num_' = [delayed_next_num_ EXCEPT ![t] = @ + 1]
                /\ UNCHANGED <<messages_, fifo>>
        /\ phase' = [phase EXCEPT ![m] = "queued"]
        /\ Goes(a, "wake")
        /\ UNCHANGED <<now, stop_, event_, send_graph_, call, loop, aborted,
                       used, to, due>>

\* ... and the socket server is woken without it.
WakeUpSocketServer(a) ==
    /\ pc[a] = "wake"
    /\ WakeUp(call[a].to)
    /\ IF call[a].op = "send" THEN Goes(a, "test") /\ UNCHANGED call ELSE Returns(a)
    /\ UNCHANGED <<now, stop_, queue, send_graph_, loop, aborted, life>>

-----------------------------------------------------------------------------
(* Send.                                                                   *)

\* S has all that its members ever sent to.
SendClosed(S) == \A e \in send_graph_ : e[1] \in S => e[2] \in S

\* all_targets, in the end: the least such set that has t.
Reach(t) == {v \in Thread : \A S \in SUBSET Thread : t \in S /\ SendClosed(S) => v \in S}

Mut_ClosesCycleNever(a, t) == FALSE

ClosesCycle(a, t) == a \in Thread /\ a \in Reach(t)

\* Send to a thread that quits fails the RTC_DCHECK or, when Quit falls between
\* the two looks at IsQuitting(), returns.  RegisterSendAndCheckForCycles aborts
\* if the call would close a cycle in the send graph.
Send(a, t) ==
    /\ a # t
    /\ MayUse(a, t)
    /\ IF ~stop_[t] /\ ~ClosesCycle(a, t)
       THEN /\ NewMessage(t, Immediate, "called")
            /\ Enter(a, "send", t, used + 1, "post")
            /\ send_graph_' = send_graph_ \cup (IF a = Owner THEN {} ELSE {<<a, t>>})
            /\ UNCHANGED aborted
       ELSE /\ \/ stop_[t] /\ NewMessage(t, Immediate, "refused") /\ UNCHANGED aborted
               \/ aborted' = TRUE /\ UNCHANGED life
            /\ UNCHANGED <<pc, call, send_graph_>>
    /\ UNCHANGED <<now, stop_, queue, event_, loop>>

\* the sender is told but not woken
Mut_CompletesSilently(a) == call' = [call EXCEPT ![a].ready = TRUE] /\ UNCHANGED event_

\* The cleanup of the task that Send posts, when the task is destroyed: the
\* sender a is told, and woken if it is an rtc::Thread.
Completes(a) ==
    /\ call' = [call EXCEPT ![a].ready = TRUE]
    /\ IF a = Owner THEN UNCHANGED event_ ELSE WakeUp(a)

\* PostTask inside Send: Post's own look at IsQuitting().
SendPosts(a) ==
    LET m == call[a].msg
    IN  /\ pc[a] = "post"
        /\ IF stop_[call[a].to]
           THEN /\ phase' = [phase EXCEPT ![m] = "refused"]
                /\ Completes(a)
                /\ Goes(a, "test")
           ELSE Goes(a, "push") /\ UNCHANGED <<phase, call, event_>>
        /\ UNCHANGED <<now, stop_, queue, send_graph_, loop, aborted, used, to, due, fifo>>

Mut_SendDoneOnAnyWake(a) == call[a].ready \/ call[a].waited

SendDone(a) == call[a].ready

\* while (!ready): tested under the target's lock.
SendTests(a) ==
    /\ pc[a] = "test"
    /\ IF SendDone(a)
       THEN IF call[a].waited THEN Goes(a, "rewake") /\ UNCHANGED call ELSE Returns(a)
       ELSE Goes(a, "blocked") /\ UNCHANGED call
    /\ UNCHANGED <<now, stop_, queue, event_, send_graph_, loop, aborted, life>>

\* An rtc::Thread waits for its own socket server, which others wake as well.
SendWaits(t) ==
    /\ pc[t] = "blocked"
    /\ event_[t]
    /\ event_' = [event_ EXCEPT ![t] = FALSE]
    /\ call' = [call EXCEPT ![t].waited = TRUE]
    /\ Goes(t, "test")
    /\ UNCHANGED <<now, stop_, queue, send_graph_, loop, aborted, life>>

\* The wake-ups that the loop has consumed are given back.
SendRewakes(t) ==
    /\ pc[t] = "rewake"
    /\ WakeUp(t)
    /\ Returns(t)
    /\ UNCHANGED <<now, stop_, queue, send_graph_, loop, aborted, life>>

\* Any other thread waits for done_event.
SendWaitsForDone ==
    /\ pc[Owner] = "blocked"
    /\ call[Owner].ready
    /\ Returns(Owner)
    /\ UNCHANGED <<now, stop_, queue, event_, send_graph_, loop, aborted, life>>

-----------------------------------------------------------------------------
(* The thread: ProcessMessages and Get.                                    *)

\* DelayedMessage::operator<: equal times in the order of posting.
Before(d, e) == d.run < e.run \/ (d.run = e.run /\ d.num < e.num)

Mut_TriggeredEarly(t) == {d \in delayed_messages_[t] : d.run <= msCurrent[t] + 1}

Triggered(t) == {d \in delayed_messages_[t] : d.run <= msCurrent[t]}

\* The order in which the priority queue gives up its entries.
PopOrders(S) ==
    {s \in [1..Cardinality(S) -> S] : \A i, j \in DOMAIN s : i < j => Before(s[i], s[j])}

\* Get, under the lock: the delayed messages that are due move to the queue, and
\* the first message is taken off it ...
GetTakes(t) ==
    /\ pc[t] = "get"
    /\ messages_[t] # <<>> \/ Triggered(t) # {}
    /\ \E s \in PopOrders(Triggered(t)) :
           LET ready == messages_[t] \o [i \in DOMAIN s |-> s[i].msg]
           IN  /\ messages_' = [messages_ EXCEPT ![t] = Tail(ready)]
               /\ cur' = [cur EXCEPT ![t] = Head(ready)]
               /\ phase' = [phase EXCEPT ![Head(ready)] = "running"]
               /\ fifo' = IF due[Head(ready)] = Immediate
                          THEN [fifo EXCEPT ![t] = Tail(@)] ELSE fifo
    /\ delayed_messages_' = [delayed_messages_ EXCEPT ![t] = @ \ Triggered(t)]
    /\ Goes(t, "handler")
    /\ msCurrent' = [msCurrent EXCEPT ![t] = 0]    \* of no use until Get is called again
    /\ UNCHANGED <<now, stop_, delayed_next_num_, event_, send_graph_, call, deadline,
                   aborted, used, to, due>>

\* a thread that quits does not look
Mut_NothingReadyIfQuitting(t) == stop_[t] \/ (messages_[t] = <<>> /\ Triggered(t) = {})

NothingReady(t) == messages_[t] = <<>> /\ Triggered(t) = {}

\* ... or there is none, and cmsDelayNext is the time to the next delayed one.
GetFindsNone(t) ==
    LET next == IF delayed_messages_[t] = {} THEN {Forever}
                ELSE {d.run - msCurrent[t] : d \in
                         {d \in delayed_messages_[t] :
                             \A e \in delayed_messages_[t] : d.run <= e.run}}
    IN  /\ pc[t] = "get"
        /\ NothingReady(t)
        /\ \E ms \in next : deadline' = [deadline EXCEPT ![t] = ms]
        /\ Goes(t, "none")
        /\ msCurrent' = [msCurrent EXCEPT ![t] = 0]
        /\ UNCHANGED <<now, stop_, queue, event_, send_graph_, call, cur, aborted, life>>

\* Then Get returns when IsQuitting() and waits otherwise.  (At MaxTime the clock
\* stands for every later instant, so that no wait lasts longer.)
GetQuitsOrWaits(t) ==
    /\ pc[t] = "none"
    /\ IF stop_[t]
       THEN Goes(t, "exited") /\ deadline' = [deadline EXCEPT ![t] = Forever]
       ELSE /\ Goes(t, "wait")
            /\ deadline' = [deadline EXCEPT ![t] = IF @ = Forever THEN Forever
                                                   ELSE IF now + @ > MaxTime THEN MaxTime
                                                   ELSE now + @]
    /\ UNCHANGED <<now, stop_, queue, event_, send_graph_, call, cur, msCurrent, aborted,
                   life>>

\* The socket server's Wait ends; the clock is read and Get looks again.
WaitReturns(t) ==
    /\ pc[t] = "wait"
    /\ \/ event_[t] /\ event_' = [event_ EXCEPT ![t] = FALSE]
       \/ deadline[t] # Forever /\ deadline[t] <= now /\ UNCHANGED event_
    /\ msCurrent' = [msCurrent EXCEPT ![t] = now]
    /\ deadline' = [deadline EXCEPT ![t] = Forever]
    /\ Goes(t, "get")
    /\ UNCHANGED <<now, stop_, queue, send_graph_, call, cur, aborted, life>>

\* The handler returns and its task is destroyed, which completes a Send; the
\* next Get reads the clock.
HandlerReturns(t) ==
    /\ pc[t] = "handler"
    /\ phase' = [phase EXCEPT ![cur[t]] = "done"]
    /\ cur' = [cur EXCEPT ![t] = NoMsg]
    /\ \/ \E a \in Actor : call[a].op = "send" /\ call[a].msg = cur[t] /\ Completes(a)
       \/ /\ \A a \in Actor : ~(call[a].op = "send" /\ call[a].msg = cur[t])
          /\ UNCHANGED <<call, event_>>
    /\ msCurrent' = [msCurrent EXCEPT ![t] = now]
    /\ Goes(t, "get")
    /\ UNCHANGED <<now, stop_, queue, send_graph_, deadline, aborted, used, to, due, fifo>>

-----------------------------------------------------------------------------
(* Quit, Stop and Delete.                                                  *)

\* Stop is Quit and Join; a handler may only Quit its own thread.
Quit(a, op, t) ==
    /\ t \in Focus
    /\ op = "quit" => a = t /\ ~stop_[t]
    /\ op # "quit" => a = Owner
    /\ MayUse(a, t)
    /\ op = "delete" => \A b \in Actor \ {t} : call[b].to # t
    /\ stop_' = [stop_ EXCEPT ![t] = TRUE]
    /\ Enter(a, op, t, NoMsg, "quit")
    /\ UNCHANGED <<now, queue, event_, send_graph_, loop, aborted, life>>

QuitWakes(a) ==
    /\ pc[a] = "quit"
    /\ WakeUp(call[a].to)
    /\ IF call[a].op = "quit" THEN Returns(a) ELSE Goes(a, "join") /\ UNCHANGED call
    /\ UNCHANGED <<now, stop_, queue, send_graph_, loop, aborted, life>>

\* pthread_join, if the thread was started; Delete goes on with DoDestroy, which
\* leaves the send graph and deletes the messages that are left.
Join ==
    LET t == call[Owner].to
    IN  /\ pc[Owner] = "join"
        /\ pc[t] \in {"exited", "stopped"}
        /\ call' = [call EXCEPT ![Owner] = NoCall]
        /\ IF call[Owner].op = "stop"
           THEN /\ pc' = [pc EXCEPT ![Owner] = "idle", ![t] = "stopped"]
                /\ UNCHANGED <<queue, send_graph_, phase, fifo>>
           ELSE /\ pc' = [pc EXCEPT ![Owner] = "idle", ![t] = "deleted"]
                /\ send_graph_' = {e \in send_graph_ : t \notin {e[1], e[2]}}
                /\ messages_' = [messages_ EXCEPT ![t] = <<>>]
                /\ delayed_messages_' = [delayed_messages_ EXCEPT ![t] = {}]
                /\ phase' = [m \in Msg |-> IF to[m] = t /\ phase[m] = "queued" THEN "dropped"
                                                                              ELSE phase[m]]
                /\ fifo' = [fifo EXCEPT ![t] = <<>>]
                /\ UNCHANGED delayed_next_num_
        /\ UNCHANGED <<now, stop_, event_, loop, aborted, used, to, due>>

\* Time passes when a delayed message gives it a meaning.
Tick ==
    /\ now < MaxTime
    /\ \E m \in Msg : due[m] # Immediate
    /\ now' = now + 1
    /\ UNCHANGED <<stop_, queue, event_, send_graph_, pc, call, loop, aborted, life>>

-----------------------------------------------------------------------------
Calls(a, t) ==
    \/ Post(a, t, Immediate)
    \/ \E ms \in Delay : PostDelayed(a, t, ms) \/ PostDelayedAborts(a, t, ms)
    \/ Send(a, t)
    \/ \E op \in {"quit", "stop", "delete"} : Quit(a, op, t)

CallContinues(a) ==
    Push(a) \/ WakeUpSocketServer(a) \/ SendPosts(a) \/ SendTests(a) \/ QuitWakes(a)

ThreadStep(t) ==
    \/ SendWaits(t) \/ SendRewakes(t)
    \/ GetTakes(t) \/ GetFindsNone(t) \/ GetQuitsOrWaits(t)
    \/ WaitReturns(t) \/ HandlerReturns(t)

\* A failed RTC_CHECK ends the process.
Next ==
    /\ ~aborted
    /\ \/ \E a \in Actor : CallContinues(a) \/ \E t \in Thread : Calls(a, t)
       \/ \E t \in Thread : ThreadStep(t)
       \/ SendWaitsForDone \/ Join \/ Tick

Spec == Init /\ [][Next]_vars

\* Threads are scheduled, handlers return, time passes.  Nobody has to call.
Fairness ==
    /\ \A t \in Thread : WF_vars(~aborted /\ (CallContinues(t) \/ ThreadStep(t)))
    /\ WF_vars(~aborted /\ (CallContinues(Owner) \/ SendWaitsForDone \/ Join))
    /\ WF_vars(~aborted /\ Tick)

FairSpec == Spec /\ Fairness

-----------------------------------------------------------------------------
(* Properties.                                                             *)

Place == {"idle", "get", "none", "wait", "handler", "exited", "stopped", "deleted",
          "push", "wake", "post", "test", "blocked", "rewake", "quit", "join"}

CallOnThread ==
    [op : {"none", "post", "send", "quit", "stop", "delete"}, to : Actor,
     msg : Msg \cup {NoMsg}, ready : BOOLEAN, waited : BOOLEAN]

DelayedMessage == [run : 0..MaxTime, num : Nat, msg : Msg]

Phase == {"new", "refused", "called", "queued", "running", "done", "dropped"}

\* Every variable has its type.
TypeOK ==
    /\ now \in 0..MaxTime
    /\ stop_ \in [Thread -> BOOLEAN]
    /\ messages_ \in [Thread -> Seq(Msg)]
    /\ delayed_messages_ \in [Thread -> SUBSET DelayedMessage]
    /\ delayed_next_num_ \in [Thread -> Nat]
    /\ event_ \in [Thread -> BOOLEAN]
    /\ send_graph_ \subseteq Thread \X Thread
    /\ pc \in [Actor -> Place]
    /\ call \in [Actor -> CallOnThread]
    /\ cur \in [Thread -> Msg \cup {NoMsg}]
    /\ msCurrent \in [Thread -> 0..MaxTime]
    /\ deadline \in [Thread -> 0..MaxTime \cup {Forever}]
    /\ aborted \in BOOLEAN
    /\ used \in 0..MaxMsgs
    /\ to \in [Msg -> Actor]
    /\ due \in [Msg -> 0..MaxTime \cup {Immediate}]
    /\ phase \in [Msg -> Phase]
    /\ fifo \in [Thread -> Seq(Msg)]

WakeComing(t) ==
    event_[t] \/ \E a \in Actor : pc[a] \in {"wake", "quit"} /\ call[a].to = t

\* No wake-up is lost: a thread that waits in its socket server with nobody about
\* to wake it has no message, is not asked to quit, and waits with a timeout if a
\* delayed message is there.  Post, DoDelayPost and Quit all signal after the
\* state they changed was visible, and Send consumes signals that were not for it.
NoLostWakeup ==
    \A t \in Thread :
        pc[t] = "wait" /\ ~WakeComing(t) =>
            /\ messages_[t] = <<>>
            /\ ~stop_[t]
            /\ delayed_messages_[t] # {} => deadline[t] # Forever

\* Send is synchronous: it returns when its message was handled, or was refused
\* because the thread quits, whatever else wakes the sender meanwhile.  The task
\* refers to variables on the sender's stack, so that an early return would leave
\* it with dangling references.
SendIsSynchronous ==
    [][\A a \in Actor : call[a].op = "send" /\ call'[a].op # "send"
           => phase'[call[a].msg] \in {"done", "refused"}]_vars

\* The send graph has no cycle, on which the comments of
\* RegisterSendAndCheckForCycles count for its loop to end: of any threads, one has
\* never sent to another of them.
SendGraphAcyclic ==
    \A S \in SUBSET Thread : S # {} => \E u \in S : \A v \in S : <<u, v>> \notin send_graph_

\* Threads do not wait for one another: of any threads, one is not inside a Send to
\* another of them, although a Delete makes the graph forget who sent to whom.
NoSendCycle ==
    \A S \in SUBSET Thread :
        S # {} => \E u \in S : ~(call[u].op = "send" /\ call[u].to \in S)

\* The loop of t has ended: its Get has returned false.
Exited(t) == pc[t] \in {"exited", "stopped", "deleted"}

\* t goes on by itself, or is about to be woken.
Awake(t) == ~Exited(t) /\ (pc[t] \in {"blocked", "wait"} => WakeComing(t))

\* Whoever is blocked in a Send, the threads that it waits for, directly or through
\* Sends of theirs, have one that is awake, or one whose loop has ended: neither a
\* cycle nor a wake-up that another Send has consumed makes all of them sleep.
SendChainMoves ==
    \A a \in Actor, S \in SUBSET Thread :
        /\ pc[a] = "blocked" /\ ~call[a].ready /\ call[a].to \in S
        /\ \A t \in S : call[t].op = "send" => call[t].to \in S
        => \E t \in S : Awake(t) \/ Exited(t)

State(t) == IF pc[t] = "deleted" THEN "deleted"
            ELSE IF call[Owner].op = "delete" /\ call[Owner].to = t THEN "deleting"
            ELSE "live"

InQueue(t, m) ==
    \/ \E i \in DOMAIN messages_[t] : messages_[t][i] = m
    \/ \E d \in delayed_messages_[t] : d.msg = m

\* A message as the queue of t has it; one that was lost would be new again.
PhaseOf(t, m) ==
    IF \/ to[m] # t
       \/ phase[m] = "refused"
       \/ phase[m] = "called" /\ due[m] = Immediate
       \/ phase[m] = "queued" /\ ~InQueue(t, m)
    THEN "new" ELSE phase[m]

DueOf(t, m) == IF to[m] # t \/ phase[m] = "refused" THEN Immediate ELSE due[m]

TQ(t) == INSTANCE TaskQueueBase WITH
    Task <- Msg,
    phase <- [m \in Msg |-> PhaseOf(t, m)],
    due <- [m \in Msg |-> DueOf(t, m)],
    fifo <- fifo[t],
    state <- State(t)

\* Each rtc::Thread is a TaskQueueBase: the messages posted or sent to it run in
\* order, one at a time, the delayed ones not early, none is lost, and none runs
\* after Delete.
ImplementsTaskQueueBase ==
    /\ \A t \in Thread : TQ(t)!Init
    /\ [][\A t \in Thread : [TQ(t)!Next]_(TQ(t)!vars)]_vars

\* The task of a's Send was pushed after the last look at its queue of a thread
\* whose loop has ended: nobody runs it, and it is deleted only with the thread.
Stranded(a) ==
    /\ call[a].op = "send" /\ phase[call[a].msg] = "queued"
    /\ Exited(call[a].to)

\* a waits for a stranded Send: its own, that of the thread that it sends to, of the
\* one that this thread sends to, and so on.
Held(a) ==
    \A S \in SUBSET Actor :
        a \in S /\ (\A u \in S : call[u].op = "send" => call[u].to \in S)
            => \E u \in S : Stranded(u)

\* Stop and Delete return: the thread sees stop_ whatever it was doing, waiting in
\* a Send included, because the send graph has no cycle.  Only a stranded Send that
\* the thread itself waits for can keep it from exiting.
StopReturns ==
    []<>(call[Owner].op \in {"stop", "delete"} => aborted \/ Held(call[Owner].to))

\* Every Send returns, although threads that wait in a Send handle nothing: only
\* the one kind of Send that is stranded, and those that wait for it, do not.
SendReturns ==
    \A a \in Actor : []<>(call[a].op = "send" => aborted \/ Held(a))

Ready(m) ==
    to[m] \in Thread /\ \E i \in DOMAIN messages_[to[m]] : messages_[to[m]][i] = m

\* t looks at its queue once more before its loop can end.
WillLook(t) == t \in Thread /\ pc[t] # "none" /\ ~Exited(t)

Quits(t) == t \in Thread /\ stop_[t]

\* A thread that has yet to look at its queue does not end its loop before the
\* messages that are ready have been handled, whoever quits.
LooksBeforeExit ==
    [][\A m \in Msg : Ready(m) /\ WillLook(to[m]) => WillLook(to[m])']_vars

\* What Quit leaves of "any pending Sends and *ready* Posts will be delivered
\* before Get returns false" (thread.h:217): the thread looks before it exits
\* (LooksBeforeExit), and no message that is ready waits for ever; nor does a
\* delayed one unless its thread quits.  A message that comes between Get's look at
\* the queue and its look at IsQuitting() has no such promise, even when its Post
\* was over before Quit was called.
ReadyIsDelivered ==
    /\ LooksBeforeExit
    /\ \A m \in Msg :
           []<>(phase[m] = "queued" =>
                   \/ aborted
                   \/ Held(to[m])
                   \/ Quits(to[m]) /\ (Ready(m) => ~WillLook(to[m])))
=============================================================================
