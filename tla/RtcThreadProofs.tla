--------------------------- MODULE RtcThreadProofs ---------------------------
(***************************************************************************)
(* Proofs about RtcThread for any number of threads, messages and delays:  *)
(* no wake-up is lost, Send is synchronous, and each thread refines        *)
(* TaskQueueBase.                                                          *)
(***************************************************************************)
EXTENDS RtcThread, SequenceTheorems, FunctionTheorems, FiniteSetTheorems, TLAPS

\* The positions inside a call on an rtc::Thread.
Calling == {"push", "wake", "post", "test", "blocked", "rewake", "quit", "join"}

InHandler == Calling \cup {"handler"}

Unpushed == {"post", "push"}

\* Where an actor is, by the call it is in, ...
PlaceOfCall(a) ==
    /\ pc[a] \in Calling <=> call[a].op # "none"
    /\ a = Owner => pc[a] \in Calling \cup {"idle"}
    /\ a \in Thread => pc[a] # "idle"
    /\ pc[a] = "push" => call[a].op \in {"post", "send"}
    /\ pc[a] = "wake" => call[a].op \in {"post", "send"}
    /\ pc[a] \in {"post", "test", "blocked", "rewake"} => call[a].op = "send"
    /\ pc[a] = "quit" => call[a].op \in {"quit", "stop", "delete"}
    /\ pc[a] = "join" => call[a].op \in {"stop", "delete"}
    /\ pc[a] = "rewake" => call[a].ready

\* ... and what the call is about.
SubjectOfCall(a) ==
    /\ call[a].op = "none" => call[a] = NoCall
    /\ call[a].op # "none" => call[a].to \in Thread
    /\ call[a].op \in {"stop", "delete"} => a = Owner
    /\ call[a].op = "quit" => a = call[a].to
    /\ call[a].op \in {"post", "send"} =>
           call[a].msg \in 1..used /\ to[call[a].msg] = call[a].to
    /\ call[a].op \in {"quit", "stop", "delete"} => call[a].msg = NoMsg

CallInv == \A a \in Actor : PlaceOfCall(a) /\ SubjectOfCall(a)

\* A message is posted or sent by one call; until it is pushed nobody else has it,
\* and the cleanup of a Send's task runs when the task is over.
SendInv ==
    /\ \A a, b \in Actor : call[a].msg = call[b].msg /\ call[a].msg # NoMsg => a = b
    /\ \A a \in Actor : pc[a] \in Unpushed =>
           phase[call[a].msg] = "called" /\ ~call[a].ready
    /\ \A a \in Actor : call[a].op = "send" =>
           /\ due[call[a].msg] = Immediate
           /\ call[a].ready <=> phase[call[a].msg] \in {"done", "refused"}

\* The message that a thread dispatches.
CurInv ==
    \A t \in Thread :
        /\ cur[t] # NoMsg <=> pc[t] \in InHandler
        /\ cur[t] # NoMsg => phase[cur[t]] = "running" /\ to[cur[t]] = t

\* What the life of a message says about where it is.
LifeOf(m) ==
    /\ phase[m] = "new" <=> m > used
    /\ m <= used => to[m] \in Thread
    /\ m > used => to[m] = Owner
    /\ phase[m] = "running" => cur[to[m]] = m
    /\ phase[m] = "called" => \E a \in Actor : call[a].msg = m /\ pc[a] \in Unpushed
    /\ phase[m] = "queued" => InQueue(to[m], m)

LifeInv == \A m \in Msg : LifeOf(m)

\* What is in the queue of t.
QueueOf(t) ==
    /\ \A i \in DOMAIN messages_[t] :
           /\ phase[messages_[t][i]] = "queued" /\ to[messages_[t][i]] = t
           /\ due[messages_[t][i]] <= now
    /\ \A i, j \in DOMAIN messages_[t] : messages_[t][i] = messages_[t][j] => i = j
    /\ \A d \in delayed_messages_[t] :
           /\ phase[d.msg] = "queued" /\ to[d.msg] = t
           /\ due[d.msg] = d.run
           /\ \A i \in DOMAIN messages_[t] : messages_[t][i] # d.msg
    /\ \A d, e \in delayed_messages_[t] : d.msg = e.msg => d = e
    /\ IsFiniteSet(delayed_messages_[t])
    /\ msCurrent[t] <= now

QueueInv == \A t \in Thread : QueueOf(t)

\* f is the sequence of the members of q that are in I.
Selects(q, I, f) ==
    /\ \A k \in DOMAIN f : f[k] \in I /\ \E i \in DOMAIN q : q[i] = f[k]
    /\ \A i \in DOMAIN q : q[i] \in I => \E k \in DOMAIN f : f[k] = q[i]
    /\ \A k, l \in DOMAIN f, i, j \in DOMAIN q :
           q[i] = f[k] /\ q[j] = f[l] => (k < l <=> i < j)

Undelayed == {m \in Msg : due[m] = Immediate}

FifoInv == \A t \in Thread : Selects(messages_[t], Undelayed, fifo[t])

\* Nobody uses a thread that is deleted, and only the thread itself one that is
\* being deleted.
DeleteInv ==
    \A t \in Thread :
        /\ pc[t] = "deleted" => \A a \in Actor : call[a].to # t
        /\ call[Owner].op = "delete" /\ call[Owner].to = t =>
               \A a \in Actor \ {t, Owner} : call[a].to # t

\* NoLostWakeup, from the moment on at which Get has found no message.
WakeOf(t) ==
    pc[t] \in {"none", "wait"} /\ ~WakeComing(t) =>
        /\ messages_[t] = <<>>
        /\ pc[t] = "wait" => ~stop_[t]
        /\ delayed_messages_[t] # {} => deadline[t] # Forever

WakeInv == \A t \in Thread : WakeOf(t)

Inv == /\ TypeOK /\ CallInv /\ SendInv /\ CurInv /\ LifeInv /\ QueueInv /\ FifoInv
       /\ DeleteInv /\ WakeInv

-----------------------------------------------------------------------------
(* Sequences and their selections.                                         *)

LEMMA SelectsNothing == ASSUME NEW I PROVE Selects(<<>>, I, <<>>)
  BY DEF Selects

\* A new member at the end of both.
LEMMA SelectsAppend ==
    ASSUME NEW S, NEW I, NEW q \in Seq(S), NEW f \in Seq(S), Selects(q, I, f),
           NEW m \in S, m \in I, \A i \in DOMAIN q : q[i] # m
    PROVE  Selects(Append(q, m), I, Append(f, m))
  <1> DEFINE q1 == Append(q, m)
             f1 == Append(f, m)
  <1>1. /\ Len(q) \in Nat /\ DOMAIN q = 1..Len(q)
        /\ Len(f) \in Nat /\ DOMAIN f = 1..Len(f)
    BY LenProperties
  <1>2. /\ DOMAIN q1 = 1..(Len(q) + 1) /\ q1[Len(q) + 1] = m
        /\ \A i \in 1..Len(q) : q1[i] = q[i]
    BY AppendProperties, LenProperties
  <1>3. /\ DOMAIN f1 = 1..(Len(f) + 1) /\ f1[Len(f) + 1] = m
        /\ \A i \in 1..Len(f) : f1[i] = f[i]
    BY AppendProperties, LenProperties
  <1> HIDE DEF q1, f1
  <1>4. \A k \in DOMAIN f : f[k] # m
    BY DEF Selects
  <1>5. \A k \in DOMAIN f1 : f1[k] \in I /\ \E i \in DOMAIN q1 : q1[i] = f1[k]
    <2> TAKE k \in DOMAIN f1
    <2>1. CASE k = Len(f) + 1
      BY <1>1, <1>2, <1>3, <2>1
    <2>2. CASE k \in 1..Len(f)
      BY <1>1, <1>2, <1>3, <2>2 DEF Selects
    <2> QED
      BY <1>1, <1>3, <2>1, <2>2
  <1>6. \A i \in DOMAIN q1 : q1[i] \in I => \E k \in DOMAIN f1 : f1[k] = q1[i]
    <2> TAKE i \in DOMAIN q1
    <2>1. CASE i = Len(q) + 1
      BY <1>1, <1>2, <1>3, <2>1
    <2>2. CASE i \in 1..Len(q)
      BY <1>1, <1>2, <1>3, <2>2 DEF Selects
    <2> QED
      BY <1>1, <1>2, <2>1, <2>2
  <1>7. ASSUME NEW k \in DOMAIN f1, NEW l \in DOMAIN f1,
               NEW i \in DOMAIN q1, NEW j \in DOMAIN q1, q1[i] = f1[k], q1[j] = f1[l]
        PROVE  k < l <=> i < j
    <2>1. (k = Len(f) + 1 <=> i = Len(q) + 1) /\ (l = Len(f) + 1 <=> j = Len(q) + 1)
      BY <1>1, <1>2, <1>3, <1>4, <1>7
    <2>2. CASE k \in DOMAIN f /\ l \in DOMAIN f
      <3>1. i \in DOMAIN q /\ j \in DOMAIN q
        BY <1>1, <1>2, <2>1, <2>2
      <3>2. q[i] = f[k] /\ q[j] = f[l]
        BY <1>1, <1>2, <1>3, <1>7, <2>2, <3>1
      <3> QED
        BY <2>2, <3>1, <3>2 DEF Selects
    <2> QED
      BY <1>1, <1>2, <1>3, <2>1, <2>2
  <1> QED
    BY <1>5, <1>6, <1>7 DEF Selects, q1, f1

\* Members at the end that are not selected.
LEMMA SelectsConcat ==
    ASSUME NEW S, NEW I, NEW q \in Seq(S), NEW f \in Seq(S), Selects(q, I, f),
           NEW r \in Seq(S), \A i \in DOMAIN r : r[i] \notin I
    PROVE  Selects(q \o r, I, f)
  <1> DEFINE q1 == q \o r
  <1>1. /\ Len(q) \in Nat /\ DOMAIN q = 1..Len(q)
        /\ Len(r) \in Nat /\ DOMAIN r = 1..Len(r)
        /\ Len(f) \in Nat /\ DOMAIN f = 1..Len(f)
    BY LenProperties
  <1>2. /\ DOMAIN q1 = 1..(Len(q) + Len(r))
        /\ \A i \in 1..(Len(q) + Len(r)) :
               q1[i] = IF i <= Len(q) THEN q[i] ELSE r[i - Len(q)]
    BY ConcatProperties, LenProperties
  <1> HIDE DEF q1
  <1>3. \A i \in DOMAIN q1 : q1[i] \in I => i \in DOMAIN q /\ q1[i] = q[i]
    BY <1>1, <1>2
  <1>4. \A i \in DOMAIN q : i \in DOMAIN q1 /\ q1[i] = q[i]
    BY <1>1, <1>2
  <1>5. \A k \in DOMAIN f : f[k] \in I /\ \E i \in DOMAIN q1 : q1[i] = f[k]
    BY <1>4 DEF Selects
  <1>6. \A i \in DOMAIN q1 : q1[i] \in I => \E k \in DOMAIN f : f[k] = q1[i]
    BY <1>3 DEF Selects
  <1>7. \A k, l \in DOMAIN f, i, j \in DOMAIN q1 :
            q1[i] = f[k] /\ q1[j] = f[l] => (k < l <=> i < j)
    BY <1>3 DEF Selects
  <1> QED
    BY <1>5, <1>6, <1>7 DEF Selects, q1

\* The first member is selected ...
LEMMA SelectsHead ==
    ASSUME NEW S, NEW I, NEW q \in Seq(S), NEW f \in Seq(S), Selects(q, I, f),
           q # <<>>, Head(q) \in I, \A i, j \in DOMAIN q : q[i] = q[j] => i = j
    PROVE  f # <<>> /\ Head(f) = Head(q) /\ Selects(Tail(q), I, Tail(f))
  <1> DEFINE q1 == Tail(q)
             f1 == Tail(f)
  <1>1. /\ Len(q) \in Nat \ {0} /\ DOMAIN q = 1..Len(q) /\ Head(q) = q[1]
        /\ Len(f) \in Nat /\ DOMAIN f = 1..Len(f)
    BY LenProperties, EmptySeq
  <1>2. PICK k0 \in DOMAIN f : f[k0] = q[1]
    BY <1>1 DEF Selects
  <1>3. k0 = 1
    <2> SUFFICES ASSUME k0 # 1 PROVE FALSE
      OBVIOUS
    <2>1. 1 \in DOMAIN f /\ 1 < k0
      BY <1>1, <1>2
    <2>2. PICK i \in DOMAIN q : q[i] = f[1]
      BY <2>1 DEF Selects
    <2>3. 1 \in DOMAIN q
      BY <1>1
    <2>4. \A k, l \in DOMAIN f : \A c, d \in DOMAIN q :
             q[c] = f[k] /\ q[d] = f[l] => (k < l <=> c < d)
      BY DEF Selects
    <2>5. 1 < k0 <=> i < 1
      BY <1>2, <2>1, <2>2, <2>3, <2>4
    <2> QED
      BY <1>1, <2>1, <2>2, <2>5
  <1>4. f # <<>> /\ Head(f) = f[1] /\ f[1] = q[1]
    BY <1>2, <1>3
  <1>5. /\ DOMAIN q1 = 1..(Len(q) - 1) /\ \A i \in 1..(Len(q) - 1) : q1[i] = q[i + 1]
        /\ DOMAIN f1 = 1..(Len(f) - 1) /\ \A i \in 1..(Len(f) - 1) : f1[i] = f[i + 1]
    BY <1>4, HeadTailProperties, LenProperties
  <1> HIDE DEF q1, f1
  <1>6. \A k, l \in DOMAIN f : f[k] = f[l] => k = l
    <2> SUFFICES ASSUME NEW k \in DOMAIN f, NEW l \in DOMAIN f, f[k] = f[l], k < l
                 PROVE  FALSE
      BY <1>1
    <2>1. PICK i \in DOMAIN q : q[i] = f[k]
      BY DEF Selects
    <2>2. i < i
      BY <2>1 DEF Selects
    <2> QED
      BY <1>1, <2>2
  <1>7. \A k \in DOMAIN f1 : f1[k] \in I /\ \E i \in DOMAIN q1 : q1[i] = f1[k]
    <2> TAKE k \in DOMAIN f1
    <2>1. k + 1 \in DOMAIN f /\ f1[k] = f[k + 1] /\ k + 1 # 1
      BY <1>1, <1>5
    <2>2. PICK i \in DOMAIN q : q[i] = f[k + 1]
      BY <2>1 DEF Selects
    <2>3. i # 1
      BY <1>1, <1>2, <1>3, <1>6, <2>1, <2>2
    <2>4. i - 1 \in DOMAIN q1 /\ q1[i - 1] = q[i]
      BY <1>1, <1>5, <2>2, <2>3
    <2> QED
      BY <2>1, <2>2, <2>4 DEF Selects
  <1>8. \A i \in DOMAIN q1 : q1[i] \in I => \E k \in DOMAIN f1 : f1[k] = q1[i]
    <2> SUFFICES ASSUME NEW i \in DOMAIN q1, q1[i] \in I
                 PROVE  \E k \in DOMAIN f1 : f1[k] = q1[i]
      OBVIOUS
    <2>1. i + 1 \in DOMAIN q /\ q1[i] = q[i + 1] /\ i + 1 # 1
      BY <1>1, <1>5
    <2>2. PICK k \in DOMAIN f : f[k] = q[i + 1]
      BY <2>1 DEF Selects
    <2>3. k # 1
      BY <1>1, <1>4, <2>1, <2>2
    <2>4. k - 1 \in DOMAIN f1 /\ f1[k - 1] = f[k]
      BY <1>1, <1>5, <2>2, <2>3
    <2> QED
      BY <2>1, <2>2, <2>4
  <1>9. ASSUME NEW k \in DOMAIN f1, NEW l \in DOMAIN f1,
               NEW i \in DOMAIN q1, NEW j \in DOMAIN q1, q1[i] = f1[k], q1[j] = f1[l]
        PROVE  k < l <=> i < j
    <2>1. /\ k + 1 \in DOMAIN f /\ l + 1 \in DOMAIN f
          /\ i + 1 \in DOMAIN q /\ j + 1 \in DOMAIN q
          /\ q[i + 1] = f[k + 1] /\ q[j + 1] = f[l + 1]
      BY <1>1, <1>5, <1>9
    <2>2. k + 1 < l + 1 <=> i + 1 < j + 1
      BY <2>1 DEF Selects
    <2> QED
      BY <1>1, <1>5, <2>2
  <1> QED
    BY <1>1, <1>4, <1>7, <1>8, <1>9 DEF Selects, q1, f1

\* ... or it is not.
LEMMA SelectsTail ==
    ASSUME NEW S, NEW I, NEW q \in Seq(S), NEW f \in Seq(S), Selects(q, I, f),
           q # <<>>, Head(q) \notin I
    PROVE  Selects(Tail(q), I, f)
  <1> DEFINE q1 == Tail(q)
  <1>1. /\ Len(q) \in Nat \ {0} /\ DOMAIN q = 1..Len(q) /\ Head(q) = q[1]
        /\ Len(f) \in Nat /\ DOMAIN f = 1..Len(f)
    BY LenProperties, EmptySeq
  <1>2. /\ DOMAIN q1 = 1..(Len(q) - 1) /\ \A i \in 1..(Len(q) - 1) : q1[i] = q[i + 1]
    BY HeadTailProperties, LenProperties
  <1> HIDE DEF q1
  <1>3. \A k \in DOMAIN f : f[k] \in I /\ \E i \in DOMAIN q1 : q1[i] = f[k]
    <2> TAKE k \in DOMAIN f
    <2>1. PICK i \in DOMAIN q : q[i] = f[k] /\ f[k] \in I
      BY DEF Selects
    <2>2. i # 1
      BY <1>1, <2>1
    <2>3. i - 1 \in DOMAIN q1 /\ q1[i - 1] = q[i]
      BY <1>1, <1>2, <2>1, <2>2
    <2> QED
      BY <2>1, <2>3
  <1>4. \A i \in DOMAIN q1 : q1[i] \in I => \E k \in DOMAIN f : f[k] = q1[i]
    <2> SUFFICES ASSUME NEW i \in DOMAIN q1, q1[i] \in I
                 PROVE  \E k \in DOMAIN f : f[k] = q1[i]
      OBVIOUS
    <2>1. i + 1 \in DOMAIN q /\ q1[i] = q[i + 1]
      BY <1>1, <1>2
    <2> QED
      BY <2>1 DEF Selects
  <1>5. ASSUME NEW k \in DOMAIN f, NEW l \in DOMAIN f,
               NEW i \in DOMAIN q1, NEW j \in DOMAIN q1, q1[i] = f[k], q1[j] = f[l]
        PROVE  k < l <=> i < j
    <2>1. /\ i + 1 \in DOMAIN q /\ j + 1 \in DOMAIN q
          /\ q[i + 1] = f[k] /\ q[j + 1] = f[l]
      BY <1>1, <1>2, <1>5
    <2>2. k < l <=> i + 1 < j + 1
      BY <2>1 DEF Selects
    <2> QED
      BY <1>1, <1>2, <2>2
  <1> QED
    BY <1>3, <1>4, <1>5 DEF Selects, q1

\* The priority queue gives up each of its entries once.
LEMMA Popped ==
    ASSUME NEW S, S \subseteq DelayedMessage, IsFiniteSet(S),
           NEW s \in PopOrders(S)
    PROVE  /\ Cardinality(S) \in Nat /\ DOMAIN s = 1..Cardinality(S)
           /\ \A i \in DOMAIN s : s[i] \in S
           /\ \A i, j \in DOMAIN s : s[i] = s[j] => i = j
           /\ \A d \in S : \E i \in DOMAIN s : s[i] = d
           /\ S # {} => Cardinality(S) > 0
  <1> DEFINE n == Cardinality(S)
  <1>1. n \in Nat
    BY FS_CardinalityType
  <1>2. s \in [1..n -> S] /\ \A i, j \in 1..n : i < j => Before(s[i], s[j])
    BY DEF PopOrders
  <1> HIDE DEF n
  <1>3. \A d \in S : d.run \in Int /\ d.num \in Nat
    BY BoundAssumption DEF DelayedMessage
  <1>4. \A i, j \in 1..n : s[i] = s[j] => i = j
    <2>1. \A d \in S : ~Before(d, d)
      BY <1>3 DEF Before
    <2> QED
      BY <1>1, <1>2, <2>1
  <1>5. s \in Injection(1..n, S)
    BY <1>2, <1>4, Fun_IsInj
  <1>6. Cardinality(1..n) = n
    BY <1>1, FS_Interval
  <1>7. s \in Surjection(1..n, S)
    BY <1>5, <1>6, FS_Injection DEF n
  <1>8. \A d \in S : \E i \in 1..n : s[i] = d
    BY <1>7 DEF Surjection
  <1>9. S # {} => n > 0
    BY <1>1, <1>8
  <1> QED
    BY <1>1, <1>2, <1>4, <1>8, <1>9 DEF n

-----------------------------------------------------------------------------
(* What Get takes.                                                         *)

\* The entries that are due leave delayed_messages_[t] as messages, all of them.
LEMMA PoppedMessages ==
    ASSUME TypeOK, QueueInv, NEW t \in Thread, NEW s \in PopOrders(Triggered(t))
    PROVE  LET r == [i \in DOMAIN s |-> s[i].msg]
           IN  /\ r \in Seq(Msg)
               /\ \A i \in DOMAIN r : \E d \in Triggered(t) : r[i] = d.msg
               /\ \A d \in Triggered(t) : \E i \in DOMAIN r : r[i] = d.msg
               /\ \A i, j \in DOMAIN r : r[i] = r[j] => i = j
               /\ Triggered(t) # {} => r # <<>>
  <1> DEFINE S == Triggered(t)
             r == [i \in DOMAIN s |-> s[i].msg]
  <1>1. /\ S \subseteq delayed_messages_[t] /\ IsFiniteSet(delayed_messages_[t])
        /\ delayed_messages_[t] \subseteq DelayedMessage
        /\ \A d, e \in delayed_messages_[t] : d.msg = e.msg => d = e
    BY DEF TypeOK, QueueInv, QueueOf, Triggered
  <1>2. IsFiniteSet(S)
    BY <1>1, FS_Subset
  <1> HIDE DEF S
  <1>3. S \subseteq DelayedMessage /\ s \in PopOrders(S)
    BY <1>1 DEF S
  <1>4. /\ Cardinality(S) \in Nat /\ DOMAIN s = 1..Cardinality(S)
        /\ \A i \in DOMAIN s : s[i] \in S
        /\ \A i, j \in DOMAIN s : s[i] = s[j] => i = j
        /\ \A d \in S : \E i \in DOMAIN s : s[i] = d
        /\ S # {} => Cardinality(S) > 0
    BY <1>2, <1>3, Popped
  <1>5. DOMAIN r = 1..Cardinality(S) /\ \A i \in DOMAIN r : r[i] = s[i].msg
    BY <1>4
  <1>6. r \in Seq(Msg)
    <2>1. \A i \in 1..Cardinality(S) : s[i].msg \in Msg
      BY <1>3, <1>4 DEF DelayedMessage
    <2> QED
      BY <1>4, <2>1, SeqDef
  <1>7. \A i \in DOMAIN r : \E d \in S : r[i] = d.msg
    BY <1>4, <1>5
  <1>8. \A d \in S : \E i \in DOMAIN r : r[i] = d.msg
    BY <1>4, <1>5
  <1>9. \A i, j \in DOMAIN r : r[i] = r[j] => i = j
    BY <1>1, <1>4, <1>5 DEF S
  <1>10. S # {} => r # <<>>
    <2>1. ASSUME S # {} PROVE 1 \in DOMAIN r
      BY <1>4, <1>5, <2>1
    <2> QED
      BY <2>1
  <1> QED
    BY <1>6, <1>7, <1>8, <1>9, <1>10 DEF S

\* Get takes message m and leaves q: m was in the queue and is no more, the others
\* are where they were or in q, and q has its undelayed messages as posted.
Takes(t, m, q) ==
    /\ messages_' = [messages_ EXCEPT ![t] = q]
    /\ cur' = [cur EXCEPT ![t] = m]
    /\ phase' = [phase EXCEPT ![m] = "running"]
    /\ phase[m] = "queued" /\ to[m] = t /\ due[m] <= now
    /\ \A i, j \in DOMAIN q : q[i] = q[j] => i = j
    /\ \A i \in DOMAIN q : q[i] # m /\ InQueue(t, q[i]) /\ due[q[i]] <= now
    /\ \A d \in delayed_messages_[t] \ Triggered(t) :
           d.msg # m /\ \A i \in DOMAIN q : q[i] # d.msg
    /\ \A x \in Msg : InQueue(t, x) /\ x # m =>
           \/ \E i \in DOMAIN q : q[i] = x
           \/ \E d \in delayed_messages_[t] \ Triggered(t) : d.msg = x
    /\ \/ /\ m \in Undelayed /\ fifo[t] # <<>> /\ Head(fifo[t]) = m
          /\ fifo' = [fifo EXCEPT ![t] = Tail(@)]
          /\ Selects(q, Undelayed, Tail(fifo[t]))
       \/ /\ m \notin Undelayed
          /\ fifo' = fifo
          /\ Selects(q, Undelayed, fifo[t])

LEMMA GetTakesOne ==
    ASSUME TypeOK, QueueInv, FifoInv, NEW t \in Thread, GetTakes(t)
    PROVE  \E m \in Msg, q \in Seq(Msg) : Takes(t, m, q)
  <1> DEFINE D == delayed_messages_[t]
             T == Triggered(t)
             p == messages_[t]
             f == fifo[t]
  <1>1. PICK s \in PopOrders(T) :
            LET ready == p \o [i \in DOMAIN s |-> s[i].msg]
            IN  /\ messages_' = [messages_ EXCEPT ![t] = Tail(ready)]
                /\ cur' = [cur EXCEPT ![t] = Head(ready)]
                /\ phase' = [phase EXCEPT ![Head(ready)] = "running"]
                /\ fifo' = IF due[Head(ready)] = Immediate
                           THEN [fifo EXCEPT ![t] = Tail(@)] ELSE fifo
    BY DEF GetTakes
  <1> DEFINE r == [i \in DOMAIN s |-> s[i].msg]
             R == p \o r
             m == Head(R)
             q == Tail(R)
  <1>2. /\ r \in Seq(Msg)
        /\ \A i \in DOMAIN r : \E d \in T : r[i] = d.msg
        /\ \A d \in T : \E i \in DOMAIN r : r[i] = d.msg
        /\ \A i, j \in DOMAIN r : r[i] = r[j] => i = j
        /\ T # {} => r # <<>>
    BY PoppedMessages
  <1>3. p \in Seq(Msg) /\ f \in Seq(Msg) /\ (p # <<>> \/ T # {}) /\ T \subseteq D
    BY DEF TypeOK, GetTakes, Triggered
  <1>4. Selects(p, Undelayed, f)
    BY DEF FifoInv
  <1>5. /\ \A i \in DOMAIN p : phase[p[i]] = "queued" /\ to[p[i]] = t /\ due[p[i]] <= now
        /\ \A i, j \in DOMAIN p : p[i] = p[j] => i = j
        /\ \A d \in D : /\ d.msg \in Msg /\ phase[d.msg] = "queued" /\ to[d.msg] = t
                        /\ due[d.msg] = d.run /\ d.run \in 0..MaxTime
                        /\ \A i \in DOMAIN p : p[i] # d.msg
        /\ \A d, e \in D : d.msg = e.msg => d = e
    BY DEF TypeOK, QueueInv, QueueOf, DelayedMessage
  <1>6. \A d \in T : d.run <= now
    <2>1. now \in Int /\ msCurrent[t] \in Int /\ msCurrent[t] <= now
      BY BoundAssumption DEF TypeOK, QueueInv, QueueOf
    <2> QED
      BY <1>3, <1>5, <2>1, BoundAssumption DEF Triggered
  <1>7. \A x : InQueue(t, x) <=> (\E i \in DOMAIN p : p[i] = x) \/ \E d \in D : d.msg = x
    BY DEF InQueue
  <1> HIDE DEF D, T, p, f, r
  <1>8. /\ Len(p) \in Nat /\ DOMAIN p = 1..Len(p) /\ Len(r) \in Nat /\ DOMAIN r = 1..Len(r)
        /\ R \in Seq(Msg) /\ Len(R) = Len(p) + Len(r) /\ DOMAIN R = 1..Len(R)
        /\ \A i \in 1..Len(R) : R[i] = IF i <= Len(p) THEN p[i] ELSE r[i - Len(p)]
    BY <1>2, <1>3, ConcatProperties, LenProperties
  <1>9. R # <<>>
    BY <1>2, <1>3, ConcatEqualIffEmpty
  <1> HIDE DEF R
  <1>10. /\ m \in Msg /\ q \in Seq(Msg) /\ m = R[1] /\ Len(R) > 0
         /\ DOMAIN q = 1..(Len(R) - 1) /\ \A i \in DOMAIN q : q[i] = R[i + 1]
    <2>1. Head(R) \in Msg /\ Tail(R) \in Seq(Msg) /\ Len(Tail(R)) = Len(R) - 1
          /\ \A i \in 1..Len(Tail(R)) : Tail(R)[i] = R[i + 1]
      BY <1>8, <1>9, HeadTailProperties
    <2>2. Len(R) > 0
      BY <1>8, <1>9
    <2>3. Head(R) = R[1]
      BY <1>8, <1>9
    <2>4. DOMAIN Tail(R) = 1..Len(Tail(R))
      BY <2>1, LenProperties
    <2> QED
      BY <2>1, <2>2, <2>3, <2>4
  <1>11. \A i \in DOMAIN R : (\E j \in DOMAIN p : R[i] = p[j]) \/ \E d \in T : R[i] = d.msg
    <2> SUFFICES ASSUME NEW i \in DOMAIN R
                 PROVE  (\E j \in DOMAIN p : R[i] = p[j]) \/ \E d \in T : R[i] = d.msg
      OBVIOUS
    <2>1. i \in 1..Len(R) /\ R[i] = IF i <= Len(p) THEN p[i] ELSE r[i - Len(p)]
      BY <1>8
    <2>2. CASE i <= Len(p)
      BY <1>8, <2>1, <2>2
    <2>3. CASE ~(i <= Len(p))
      <3>1. i - Len(p) \in DOMAIN r /\ R[i] = r[i - Len(p)]
        BY <1>8, <2>1, <2>3
      <3> QED
        BY <1>2, <3>1
    <2> QED
      BY <2>2, <2>3
  <1>12. /\ \A j \in DOMAIN p : \E i \in DOMAIN R : R[i] = p[j]
         /\ \A d \in T : \E i \in DOMAIN R : R[i] = d.msg
    <2>1. \A j \in DOMAIN p : j \in DOMAIN R /\ R[j] = p[j]
      BY <1>8
    <2>2. \A j \in DOMAIN r : j + Len(p) \in DOMAIN R /\ R[j + Len(p)] = r[j]
      BY <1>8
    <2> QED
      BY <1>2, <2>1, <2>2
  <1>13. \A i, j \in DOMAIN R : R[i] = R[j] => i = j
    <2> SUFFICES ASSUME NEW i \in DOMAIN R, NEW j \in DOMAIN R, R[i] = R[j], i < j
                 PROVE  FALSE
      BY <1>8
    <2>1. CASE j <= Len(p)
      BY <1>5, <1>8, <2>1
    <2>2. CASE i > Len(p)
      <3>1. /\ i - Len(p) \in DOMAIN r /\ R[i] = r[i - Len(p)]
            /\ j - Len(p) \in DOMAIN r /\ R[j] = r[j - Len(p)]
            /\ i - Len(p) # j - Len(p)
        BY <1>8, <2>2
      <3> QED
        BY <1>2, <3>1
    <2>3. CASE i <= Len(p) /\ j > Len(p)
      <3>1. i \in DOMAIN p /\ R[i] = p[i] /\ j - Len(p) \in DOMAIN r /\ R[j] = r[j - Len(p)]
        BY <1>8, <2>3
      <3>2. PICK d \in D : r[j - Len(p)] = d.msg
        BY <1>2, <1>3, <3>1
      <3> QED
        BY <1>5, <3>1, <3>2
    <2> QED
      BY <1>8, <2>1, <2>2, <2>3
  <1>14. \A i \in DOMAIN R : /\ R[i] \in Msg /\ InQueue(t, R[i]) /\ due[R[i]] <= now
                             /\ phase[R[i]] = "queued" /\ to[R[i]] = t
                             /\ \A d \in D \ T : d.msg # R[i]
    <2> TAKE i \in DOMAIN R
    <2>1. R[i] \in Msg
      BY <1>8, ElementOfSeq
    <2>2. CASE \E j \in DOMAIN p : R[i] = p[j]
      BY <1>5, <1>7, <2>1, <2>2
    <2>3. CASE \E d \in T : R[i] = d.msg
      BY <1>3, <1>5, <1>6, <1>7, <2>1, <2>3
    <2> QED
      BY <1>11, <2>2, <2>3
  <1>15. Selects(R, Undelayed, f)
    <2>1. \A i \in DOMAIN r : r[i] \notin Undelayed
      <3>1. \A d \in T : due[d.msg] # Immediate
        BY <1>3, <1>5, BoundAssumption DEF Immediate
      <3> QED
        BY <1>2, <3>1 DEF Undelayed
    <2> QED
      BY <1>2, <1>3, <1>4, <2>1, SelectsConcat DEF R
  <1>16. \A i \in DOMAIN q : i + 1 \in DOMAIN R /\ q[i] = R[i + 1] /\ i + 1 # 1
    BY <1>8, <1>10
  <1>17. 1 \in DOMAIN R /\ \A i \in DOMAIN R : i # 1 => i - 1 \in DOMAIN q /\ q[i - 1] = R[i]
    BY <1>8, <1>10
  <1>18. /\ \/ /\ m \in Undelayed /\ f # <<>> /\ Head(f) = m
               /\ fifo' = [fifo EXCEPT ![t] = Tail(@)]
               /\ Selects(q, Undelayed, Tail(f))
            \/ /\ m \notin Undelayed
               /\ fifo' = fifo
               /\ Selects(q, Undelayed, f)
    <2>1. CASE m \in Undelayed
      <3>1. f # <<>> /\ Head(f) = m /\ Selects(q, Undelayed, Tail(f))
        BY <1>3, <1>8, <1>9, <1>13, <1>15, <2>1, SelectsHead
      <3>2. fifo' = [fifo EXCEPT ![t] = Tail(@)]
        BY <1>1, <2>1 DEF Undelayed, R, r, p
      <3> QED
        BY <2>1, <3>1, <3>2
    <2>2. CASE m \notin Undelayed
      <3>1. Selects(q, Undelayed, f)
        BY <1>3, <1>8, <1>9, <1>15, <2>2, SelectsTail
      <3>2. fifo' = fifo
        BY <1>1, <1>10, <2>2 DEF Undelayed, R, r, p
      <3> QED
        BY <2>2, <3>1, <3>2
    <2> QED
      BY <2>1, <2>2
  <1>19. /\ messages_' = [messages_ EXCEPT ![t] = q]
         /\ cur' = [cur EXCEPT ![t] = m]
         /\ phase' = [phase EXCEPT ![m] = "running"]
    BY <1>1 DEF R, r, p
  <1> HIDE DEF m, q
  <1>20. \A i, j \in DOMAIN q : q[i] = q[j] => i = j
    BY <1>8, <1>10, <1>13, <1>16
  <1>21. \A i \in DOMAIN q : q[i] # m /\ InQueue(t, q[i]) /\ due[q[i]] <= now
    BY <1>10, <1>13, <1>14, <1>16, <1>17
  <1>22. \A d \in D \ T : d.msg # m /\ \A i \in DOMAIN q : q[i] # d.msg
    BY <1>10, <1>14, <1>16, <1>17
  <1>23. ASSUME NEW x \in Msg, InQueue(t, x), x # m
         PROVE  (\E i \in DOMAIN q : q[i] = x) \/ \E d \in D \ T : d.msg = x
    <2>1. ASSUME NEW i \in DOMAIN R, R[i] = x PROVE \E j \in DOMAIN q : q[j] = x
      BY <1>10, <1>17, <1>23, <2>1
    <2> QED
      BY <1>7, <1>12, <1>23, <2>1
  <1>24. phase[m] = "queued" /\ to[m] = t /\ due[m] <= now
    BY <1>10, <1>14, <1>17
  <1> QED
    BY <1>10, <1>18, <1>19, <1>20, <1>21, <1>22, <1>23, <1>24 DEF Takes, D, T, f

-----------------------------------------------------------------------------
(* Types.                                                                  *)

LEMMA PlaceType ==
    /\ "idle" \in Place /\ "get" \in Place /\ "none" \in Place /\ "wait" \in Place
    /\ "handler" \in Place /\ "exited" \in Place /\ "stopped" \in Place
    /\ "deleted" \in Place /\ "push" \in Place /\ "wake" \in Place /\ "post" \in Place
    /\ "test" \in Place /\ "blocked" \in Place /\ "rewake" \in Place /\ "quit" \in Place
    /\ "join" \in Place
    /\ \A a : Rest(a) \in Place
  BY DEF Place, Rest

LEMMA PhaseType ==
    /\ "refused" \in Phase /\ "called" \in Phase /\ "queued" \in Phase
    /\ "running" \in Phase /\ "done" \in Phase /\ "dropped" \in Phase /\ "new" \in Phase
  BY DEF Phase

\* The call records, as Enter, Completes and SendWaits make them.
LEMMA CallType ==
    /\ NoCall \in CallOnThread
    /\ \A op \in {"post", "send", "quit", "stop", "delete"}, t \in Thread,
          m \in Msg \cup {NoMsg} :
           [NoCall EXCEPT !.op = op, !.to = t, !.msg = m] \in CallOnThread
    /\ \A c \in CallOnThread : /\ [c EXCEPT !.ready = TRUE] \in CallOnThread
                               /\ [c EXCEPT !.waited = TRUE] \in CallOnThread
  BY DEF NoCall, CallOnThread, Actor

\* A new message is the next number.
LEMMA NewMessageType ==
    ASSUME TypeOK, NEW t \in Thread, NEW at \in 0..MaxTime \cup {Immediate},
           NEW ph \in {"refused", "called"}, NewMessage(t, at, ph)
    PROVE  /\ used + 1 \in Msg
           /\ used' \in 0..MaxMsgs /\ to' \in [Msg -> Actor]
           /\ due' \in [Msg -> 0..MaxTime \cup {Immediate}]
           /\ phase' \in [Msg -> Phase]
           /\ fifo' = fifo
  BY BoundAssumption, PhaseType DEF NewMessage, TypeOK, Msg, Actor

LEMMA EnterType ==
    ASSUME TypeOK, NEW a \in Actor, NEW op \in {"post", "send", "quit", "stop", "delete"},
           NEW t \in Thread, NEW m \in Msg \cup {NoMsg}, NEW label \in Place,
           Enter(a, op, t, m, label)
    PROVE  call' \in [Actor -> CallOnThread] /\ pc' \in [Actor -> Place]
  BY CallType DEF Enter, Goes, TypeOK

LEMMA CallsType ==
    ASSUME TypeOK, NEW a \in Actor, NEW t \in Thread, Calls(a, t)
    PROVE  TypeOK'
  <1>1. ASSUME NEW at \in 0..MaxTime \cup {Immediate}, Post(a, t, at) PROVE TypeOK'
    <2>1. CASE stop_[t]
      BY <1>1, <2>1, NewMessageType DEF Post, queue, loop, TypeOK
    <2>2. CASE ~stop_[t]
      <3>1. NewMessage(t, at, "called") /\ Enter(a, "post", t, used + 1, "push")
        BY <1>1, <2>2 DEF Post
      <3>2. used + 1 \in Msg
        BY <3>1, NewMessageType
      <3>3. call' \in [Actor -> CallOnThread] /\ pc' \in [Actor -> Place]
        BY <3>1, <3>2, EnterType, PlaceType
      <3> QED
        BY <1>1, <3>1, <3>3, NewMessageType DEF Post, queue, loop, TypeOK
    <2> QED
      BY <2>1, <2>2
  <1>2. CASE Post(a, t, Immediate)
    BY <1>1, <1>2
  <1>3. ASSUME NEW ms \in Delay, PostDelayed(a, t, ms) PROVE TypeOK'
    <2>1. now + ms \in 0..MaxTime
      BY <1>3, BoundAssumption, DelayAssumption DEF PostDelayed, TypeOK
    <2> QED
      BY <1>1, <1>3, <2>1 DEF PostDelayed
  <1>4. CASE Send(a, t)
    <2>1. CASE ~stop_[t] /\ ~ClosesCycle(a, t)
      <3>1. /\ NewMessage(t, Immediate, "called")
            /\ Enter(a, "send", t, used + 1, "post")
            /\ send_graph_' = send_graph_ \cup (IF a = Owner THEN {} ELSE {<<a, t>>})
            /\ UNCHANGED <<now, stop_, queue, event_, loop, aborted>>
        BY <1>4, <2>1 DEF Send
      <3>2. used + 1 \in Msg
        BY <3>1, NewMessageType
      <3>3. call' \in [Actor -> CallOnThread] /\ pc' \in [Actor -> Place]
        BY <3>1, <3>2, EnterType, PlaceType
      <3>4. send_graph_' \subseteq Thread \X Thread
        BY <3>1 DEF Actor, TypeOK
      <3> QED
        BY <3>1, <3>3, <3>4, NewMessageType DEF queue, loop, TypeOK
    <2>2. CASE stop_[t] \/ ClosesCycle(a, t)
      BY <1>4, <2>2, NewMessageType DEF Send, queue, loop, life, TypeOK
    <2> QED
      BY <2>1, <2>2
  <1>5. ASSUME NEW op \in {"quit", "stop", "delete"}, Quit(a, op, t) PROVE TypeOK'
    <2>1. call' \in [Actor -> CallOnThread] /\ pc' \in [Actor -> Place]
      BY <1>5, EnterType, PlaceType DEF Quit
    <2> QED
      BY <1>5, <2>1 DEF Quit, queue, loop, life, TypeOK
  <1>6. ASSUME NEW ms \in Delay, PostDelayedAborts(a, t, ms) PROVE TypeOK'
    BY <1>6 DEF PostDelayedAborts, queue, loop, life, TypeOK
  <1> QED
    BY <1>2, <1>3, <1>4, <1>5, <1>6 DEF Calls

LEMMA ReturnsType ==
    ASSUME TypeOK, NEW a \in Actor, Returns(a)
    PROVE  call' \in [Actor -> CallOnThread] /\ pc' \in [Actor -> Place]
  BY CallType, PlaceType DEF Returns, Goes, TypeOK

LEMMA CompletesType ==
    ASSUME TypeOK, NEW a \in Actor, Completes(a)
    PROVE  call' \in [Actor -> CallOnThread] /\ event_' \in [Thread -> BOOLEAN]
  BY CallType DEF Completes, WakeUp, TypeOK

LEMMA CallContinuesType ==
    ASSUME TypeOK, CallInv, NEW a \in Actor, CallContinues(a)
    PROVE  TypeOK'
  <1>1. CASE Push(a)
    <2> DEFINE t == call[a].to
               m == call[a].msg
    <2>1. t \in Thread /\ m \in Msg
      <3>1. call[a].op \in {"post", "send"}
        BY <1>1 DEF Push, CallInv, PlaceOfCall
      <3>2. t \in Thread /\ m \in 1..used
        BY <3>1 DEF CallInv, SubjectOfCall
      <3> QED
        BY <3>2, BoundAssumption DEF Msg, TypeOK
    <2>2. CASE due[m] = Immediate
      <3>1. /\ messages_' \in [Thread -> Seq(Msg)] /\ fifo' \in [Thread -> Seq(Msg)]
        <4>1. Append(messages_[t], m) \in Seq(Msg) /\ Append(fifo[t], m) \in Seq(Msg)
          BY <2>1, AppendProperties DEF TypeOK
        <4> QED
          BY <1>1, <2>2, <4>1 DEF Push, TypeOK
      <3> QED
        BY <1>1, <2>2, <3>1, PlaceType, PhaseType DEF Push, Goes, loop, TypeOK
    <2>3. CASE due[m] # Immediate
      <3>1. Entry(t, m) \in DelayedMessage
        BY <2>1, <2>3 DEF Entry, DelayedMessage, TypeOK
      <3>2. /\ delayed_messages_' \in [Thread -> SUBSET DelayedMessage]
            /\ delayed_next_num_' \in [Thread -> Nat]
        <4>1. /\ delayed_messages_' =
                     [delayed_messages_ EXCEPT ![t] = @ \cup {Entry(t, m)}]
              /\ delayed_next_num_' = [delayed_next_num_ EXCEPT ![t] = @ + 1]
          BY <1>1, <2>3 DEF Push
        <4>2. delayed_messages_[t] \cup {Entry(t, m)} \in SUBSET DelayedMessage
          BY <2>1, <3>1 DEF TypeOK
        <4>3. delayed_next_num_ \in [Thread -> Nat]
              /\ delayed_messages_ \in [Thread -> SUBSET DelayedMessage]
          BY DEF TypeOK
        <4>4. delayed_messages_' \in [Thread -> SUBSET DelayedMessage]
          BY <4>1, <4>2, <4>3
        <4> QED
          BY <4>1, <4>3, <4>4
      <3> QED
        BY <1>1, <2>3, <3>2, PlaceType, PhaseType DEF Push, Goes, loop, TypeOK
    <2> QED
      BY <2>2, <2>3
  <1>2. CASE WakeUpSocketServer(a)
    <2>1. event_' \in [Thread -> BOOLEAN]
      BY <1>2 DEF WakeUpSocketServer, WakeUp, TypeOK
    <2>2. pc' \in [Actor -> Place] /\ call' \in [Actor -> CallOnThread]
      BY <1>2, ReturnsType, PlaceType DEF WakeUpSocketServer, Goes, TypeOK
    <2> QED
      BY <1>2, <2>1, <2>2, SMTT(20) DEF WakeUpSocketServer, queue, loop, life, TypeOK
  <1>3. CASE SendPosts(a)
    <2>1. call' \in [Actor -> CallOnThread] /\ event_' \in [Thread -> BOOLEAN]
      BY <1>3, CompletesType DEF SendPosts, TypeOK
    <2>2. phase' \in [Msg -> Phase]
      BY <1>3, PhaseType DEF SendPosts, TypeOK
    <2>3. pc' \in [Actor -> Place]
      BY <1>3, PlaceType DEF SendPosts, Goes, TypeOK
    <2> QED
      BY <1>3, <2>1, <2>2, <2>3 DEF SendPosts, queue, loop, TypeOK
  <1>4. CASE SendTests(a)
    BY <1>4, ReturnsType, PlaceType DEF SendTests, Goes, queue, loop, life, TypeOK
  <1>5. CASE QuitWakes(a)
    BY <1>5, ReturnsType, PlaceType DEF QuitWakes, WakeUp, Goes, queue, loop, life, TypeOK
  <1> QED
    BY <1>1, <1>2, <1>3, <1>4, <1>5 DEF CallContinues

LEMMA ThreadStepType ==
    ASSUME TypeOK, QueueInv, FifoInv, NEW t \in Thread, ThreadStep(t)
    PROVE  TypeOK'
  <1> USE PlaceType, PhaseType
  <1>1. t \in Actor
    BY DEF Actor
  <1>2. CASE SendWaits(t)
    BY <1>2, CallType DEF SendWaits, Goes, queue, loop, life, TypeOK
  <1>3. CASE SendRewakes(t)
    BY <1>1, <1>3, ReturnsType DEF SendRewakes, WakeUp, queue, loop, life, TypeOK
  <1>4. CASE GetTakes(t)
    <2>1. PICK m \in Msg, q \in Seq(Msg) : Takes(t, m, q)
      BY <1>4, GetTakesOne
    <2>2. fifo' \in [Thread -> Seq(Msg)]
      <3>1. fifo[t] # <<>> => Tail(fifo[t]) \in Seq(Msg)
        BY HeadTailProperties DEF TypeOK
      <3>2. \/ fifo[t] # <<>> /\ fifo' = [fifo EXCEPT ![t] = Tail(@)]
            \/ fifo' = fifo
        BY <2>1 DEF Takes
      <3> QED
        BY <3>1, <3>2 DEF TypeOK
    <2>3. /\ messages_' \in [Thread -> Seq(Msg)] /\ cur' \in [Thread -> Msg \cup {NoMsg}]
          /\ phase' \in [Msg -> Phase]
      BY <2>1 DEF Takes, TypeOK
    <2>4. /\ delayed_messages_' \in [Thread -> SUBSET DelayedMessage]
          /\ pc' \in [Actor -> Place] /\ msCurrent' \in [Thread -> 0..MaxTime]
          /\ UNCHANGED <<now, stop_, delayed_next_num_, event_, send_graph_, call, deadline,
                         aborted, used, to, due>>
      <3>1. /\ delayed_messages_' = [delayed_messages_ EXCEPT ![t] = @ \ Triggered(t)]
            /\ pc' = [pc EXCEPT ![t] = "handler"]
            /\ msCurrent' = [msCurrent EXCEPT ![t] = 0]
            /\ UNCHANGED <<now, stop_, delayed_next_num_, event_, send_graph_, call,
                           deadline, aborted, used, to, due>>
        BY <1>4 DEF GetTakes, Goes
      <3>2. /\ delayed_messages_ \in [Thread -> SUBSET DelayedMessage]
            /\ delayed_messages_[t] \ Triggered(t) \in SUBSET DelayedMessage
        BY DEF TypeOK
      <3>3. delayed_messages_' \in [Thread -> SUBSET DelayedMessage]
        BY <3>1, <3>2
      <3>4. pc' \in [Actor -> Place]
        BY <1>1, <3>1 DEF TypeOK
      <3>5. msCurrent' \in [Thread -> 0..MaxTime]
        BY <3>1, BoundAssumption DEF TypeOK
      <3> QED
        BY <3>1, <3>3, <3>4, <3>5
    <2> QED
      BY <2>2, <2>3, <2>4 DEF TypeOK
  <1>5. CASE GetFindsNone(t)
    <2>1. PICK ms : /\ deadline' = [deadline EXCEPT ![t] = ms]
                    /\ \/ ms = Forever
                       \/ \E d \in delayed_messages_[t] : ms = d.run - msCurrent[t]
      BY <1>5 DEF GetFindsNone
    <2>2. \A d \in delayed_messages_[t] : d.run - msCurrent[t] \in 0..MaxTime
      <3>1. \A d \in delayed_messages_[t] :
                d.run \in 0..MaxTime /\ ~(d.run <= msCurrent[t])
        BY <1>5 DEF GetFindsNone, NothingReady, Triggered, TypeOK, DelayedMessage
      <3> QED
        BY <3>1, BoundAssumption DEF TypeOK
    <2>3. deadline' \in [Thread -> 0..MaxTime \cup {Forever}]
      BY <2>1, <2>2 DEF TypeOK
    <2>4. msCurrent' \in [Thread -> 0..MaxTime]
      BY <1>5, BoundAssumption DEF GetFindsNone, TypeOK
    <2> QED
      BY <1>5, <2>3, <2>4 DEF GetFindsNone, Goes, queue, life, TypeOK
  <1>6. CASE GetQuitsOrWaits(t)
    <2>1. deadline' \in [Thread -> 0..MaxTime \cup {Forever}]
      <3>1. deadline[t] \in 0..MaxTime \cup {Forever} /\ now \in 0..MaxTime
        BY DEF TypeOK
      <3>2. (IF deadline[t] = Forever THEN Forever
             ELSE IF now + deadline[t] > MaxTime THEN MaxTime ELSE now + deadline[t])
                \in 0..MaxTime \cup {Forever}
        BY <3>1, BoundAssumption
      <3> QED
        BY <1>6, <3>2 DEF GetQuitsOrWaits, TypeOK
    <2> QED
      BY <1>6, <2>1 DEF GetQuitsOrWaits, Goes, queue, life, TypeOK
  <1>7. CASE WaitReturns(t)
    BY <1>7 DEF WaitReturns, Goes, queue, life, TypeOK
  <1>8. CASE HandlerReturns(t)
    <2>1. call' \in [Actor -> CallOnThread] /\ event_' \in [Thread -> BOOLEAN]
      BY <1>8, CompletesType DEF HandlerReturns, TypeOK
    <2> QED
      BY <1>8, <2>1 DEF HandlerReturns, Goes, queue, TypeOK
  <1> QED
    BY <1>2, <1>3, <1>4, <1>5, <1>6, <1>7, <1>8 DEF ThreadStep

LEMMA OwnerStepType ==
    ASSUME TypeOK, SendWaitsForDone \/ Join \/ Tick \/ UNCHANGED vars
    PROVE  TypeOK'
  <1>1. CASE SendWaitsForDone
    BY <1>1, ReturnsType DEF SendWaitsForDone, queue, loop, life, TypeOK, Actor
  <1>2. CASE Join
    <2>1. call' \in [Actor -> CallOnThread] /\ pc' \in [Actor -> Place]
      BY <1>2, CallType, PlaceType DEF Join, TypeOK
    <2>2. CASE call[Owner].op = "stop"
      BY <1>2, <2>1, <2>2 DEF Join, queue, loop, TypeOK
    <2>3. CASE call[Owner].op # "stop"
      <3>1. /\ messages_' \in [Thread -> Seq(Msg)] /\ fifo' \in [Thread -> Seq(Msg)]
        <4>1. <<>> \in Seq(Msg)
          BY EmptySeq
        <4> QED
          BY <1>2, <2>3, <4>1 DEF Join, TypeOK
      <3>2. delayed_messages_' \in [Thread -> SUBSET DelayedMessage]
        <4>1. {} \in SUBSET DelayedMessage
          OBVIOUS
        <4>2. delayed_messages_' = [delayed_messages_ EXCEPT ![call[Owner].to] = {}]
          BY <1>2, <2>3 DEF Join
        <4>3. delayed_messages_ \in [Thread -> SUBSET DelayedMessage]
          BY DEF TypeOK
        <4> QED
          BY <4>1, <4>2, <4>3
      <3>3. phase' \in [Msg -> Phase]
        <4>1. phase' = [m \in Msg |-> IF to[m] = call[Owner].to /\ phase[m] = "queued"
                                      THEN "dropped" ELSE phase[m]]
          BY <1>2, <2>3, Zenon DEF Join
        <4> QED
          BY <4>1, PhaseType DEF TypeOK
      <3>4. send_graph_' \subseteq Thread \X Thread
        <4>1. send_graph_' = {e \in send_graph_ : call[Owner].to \notin {e[1], e[2]}}
          BY <1>2, <2>3, Zenon DEF Join
        <4> QED
          BY <4>1 DEF TypeOK
      <3> QED
        BY <1>2, <2>1, <2>3, <3>1, <3>2, <3>3, <3>4 DEF Join, loop, TypeOK
    <2> QED
      BY <2>2, <2>3
  <1>3. CASE Tick
    BY <1>3, BoundAssumption DEF Tick, queue, loop, life, TypeOK
  <1>4. CASE UNCHANGED vars
    BY <1>4 DEF vars, queue, loop, life, TypeOK
  <1> QED
    BY <1>1, <1>2, <1>3, <1>4

LEMMA TypeStep == TypeOK /\ CallInv /\ QueueInv /\ FifoInv /\ [Next]_vars => TypeOK'
  BY CallsType, CallContinuesType, ThreadStepType, OwnerStepType DEF Next

-----------------------------------------------------------------------------
(* Calls: where an actor is in one, and what it is about.                  *)

\* A call that the step leaves alone, or completes.
LEMMA CallFrame ==
    ASSUME TypeOK, CallInv, NEW b \in Actor, pc'[b] = pc[b],
           \/ call'[b] = call[b]
           \/ call[b].op # "none" /\ call'[b] = [call[b] EXCEPT !.ready = TRUE],
           used' \in {used, used + 1}, \A m \in 1..used : to'[m] = to[m]
    PROVE  PlaceOfCall(b)' /\ SubjectOfCall(b)'
  <1>1. call[b] \in CallOnThread /\ used \in Nat
    BY DEF TypeOK
  <1>2. /\ call'[b].op = call[b].op /\ call'[b].to = call[b].to /\ call'[b].msg = call[b].msg
        /\ call[b].op = "none" => call'[b] = call[b]
        /\ call[b].ready => call'[b].ready
    BY <1>1 DEF CallOnThread
  <1>3. PlaceOfCall(b)'
    BY <1>2 DEF CallInv, PlaceOfCall
  <1>4. SubjectOfCall(b)'
    BY <1>1, <1>2 DEF CallInv, SubjectOfCall
  <1> QED
    BY <1>3, <1>4

LEMMA CallReturned ==
    ASSUME TypeOK, NEW b \in Actor, pc'[b] = Rest(b), call'[b] = NoCall
    PROVE  PlaceOfCall(b)' /\ SubjectOfCall(b)'
  BY OwnerAssumption DEF PlaceOfCall, SubjectOfCall, Rest, NoCall, Calling

LEMMA CallEntered ==
    ASSUME TypeOK, NEW a \in Actor, NEW t \in Thread, NEW op, NEW m, NEW label,
           Enter(a, op, t, m, label),
           \/ op = "post" /\ label = "push" /\ m \in 1..used' /\ to'[m] = t
           \/ op = "send" /\ label = "post" /\ m \in 1..used' /\ to'[m] = t
           \/ op = "quit" /\ label = "quit" /\ m = NoMsg /\ a = t
           \/ op \in {"stop", "delete"} /\ label = "quit" /\ m = NoMsg /\ a = Owner
    PROVE  PlaceOfCall(a)' /\ SubjectOfCall(a)'
  <1>1. /\ pc'[a] = label /\ call'[a] = [NoCall EXCEPT !.op = op, !.to = t, !.msg = m]
    BY DEF Enter, Goes, TypeOK
  <1>2. call'[a].op = op /\ call'[a].to = t /\ call'[a].msg = m
    BY <1>1 DEF NoCall
  <1> QED
    BY <1>1, <1>2, OwnerAssumption DEF PlaceOfCall, SubjectOfCall, Calling

\* The number of a new message is the next.
LEMMA NewMessageNumber ==
    ASSUME TypeOK, NEW t, NEW at, NEW ph, NewMessage(t, at, ph)
    PROVE  /\ used \in Nat /\ used' = used + 1 /\ used + 1 \in Msg
           /\ to'[used + 1] = t /\ due'[used + 1] = at /\ phase'[used + 1] = ph
           /\ \A m \in Msg \ {used + 1} :
                  to'[m] = to[m] /\ due'[m] = due[m] /\ phase'[m] = phase[m]
           /\ \A m \in 1..used : m \in Msg /\ m # used + 1
  BY BoundAssumption DEF NewMessage, TypeOK, Msg

LEMMA CallsKeepCallInv ==
    ASSUME TypeOK, CallInv, NEW a \in Actor, NEW t \in Thread, Calls(a, t)
    PROVE  CallInv'
  <1> SUFFICES ASSUME NEW b \in Actor PROVE PlaceOfCall(b)' /\ SubjectOfCall(b)'
    BY DEF CallInv
  <1>1. ASSUME NEW op, NEW m, NEW label, Enter(a, op, t, m, label), b # a
        PROVE  pc'[b] = pc[b] /\ call'[b] = call[b]
    BY <1>1 DEF Enter, Goes, TypeOK
  <1>2. ASSUME NEW at, NEW ph, NewMessage(t, at, ph)
        PROVE  /\ used' \in {used, used + 1} /\ \A m \in 1..used : to'[m] = to[m]
               /\ used + 1 \in 1..used' /\ to'[used + 1] = t
    BY <1>2, NewMessageNumber
  <1>3. ASSUME NEW at, NEW ph, NewMessage(t, at, ph), UNCHANGED <<pc, call>>
        PROVE  PlaceOfCall(b)' /\ SubjectOfCall(b)'
    BY <1>2, <1>3, CallFrame
  <1>4. ASSUME NEW at, NEW ph, NewMessage(t, at, ph),
               \/ Enter(a, "post", t, used + 1, "push")
               \/ Enter(a, "send", t, used + 1, "post")
        PROVE  PlaceOfCall(b)' /\ SubjectOfCall(b)'
    <2>1. CASE b = a
      BY <1>2, <1>4, <2>1, CallEntered
    <2>2. CASE b # a
      BY <1>1, <1>2, <1>4, <2>2, CallFrame
    <2> QED
      BY <2>1, <2>2
  <1>5. ASSUME NEW at, Post(a, t, at) PROVE PlaceOfCall(b)' /\ SubjectOfCall(b)'
    BY <1>3, <1>4, <1>5 DEF Post
  <1>6. CASE Send(a, t)
    <2>1. CASE UNCHANGED <<pc, call, life>>
      BY <2>1, CallFrame DEF life
    <2> QED
      BY <1>3, <1>4, <1>6, <2>1 DEF Send
  <1>7. ASSUME NEW op \in {"quit", "stop", "delete"}, Quit(a, op, t)
        PROVE  PlaceOfCall(b)' /\ SubjectOfCall(b)'
    <2>1. /\ Enter(a, op, t, NoMsg, "quit") /\ UNCHANGED life
          /\ op = "quit" => a = t
          /\ op # "quit" => a = Owner
      BY <1>7 DEF Quit
    <2>2. CASE b = a
      BY <2>1, <2>2, CallEntered
    <2>3. CASE b # a
      BY <1>1, <2>1, <2>3, CallFrame DEF life
    <2> QED
      BY <2>2, <2>3
  <1>8. ASSUME NEW ms \in Delay, PostDelayedAborts(a, t, ms)
        PROVE  PlaceOfCall(b)' /\ SubjectOfCall(b)'
    BY <1>8, CallFrame DEF PostDelayedAborts, life
  <1> QED
    BY <1>5, <1>6, <1>7, <1>8 DEF Calls, PostDelayed

LEMMA CallInvStep == TypeOK /\ CallInv /\ [Next]_vars => CallInv'
  <1> SUFFICES ASSUME TypeOK, CallInv, [Next]_vars PROVE CallInv'
    OBVIOUS
  <1> SUFFICES ASSUME NEW b \in Actor PROVE PlaceOfCall(b)' /\ SubjectOfCall(b)'
    BY DEF CallInv
  <1> DEFINE Kept == PlaceOfCall(b)' /\ SubjectOfCall(b)'
  <1>1. ASSUME pc'[b] = pc[b], call'[b] = call[b], UNCHANGED <<used, to>> PROVE Kept
    BY <1>1, CallFrame
  <1>2. ASSUME NEW a \in Actor, Returns(a), UNCHANGED <<used, to>> PROVE Kept
    <2>1. CASE b = a
      BY <1>2, <2>1, CallReturned DEF Returns, Goes, TypeOK
    <2>2. CASE b # a
      BY <1>1, <1>2, <2>2 DEF Returns, Goes, TypeOK
    <2> QED
      BY <2>1, <2>2
  <1>3. ASSUME NEW a \in Actor, NEW label, Goes(a, label), UNCHANGED <<call, used, to>>,
               \/ /\ label \in {"wake", "test", "push", "blocked"}
                  /\ call[a].op = "send"
               \/ label = "wake" /\ call[a].op = "post"
               \/ label = "rewake" /\ call[a].op = "send" /\ call[a].ready
               \/ label = "join" /\ call[a].op \in {"stop", "delete"}
               \/ /\ label \in {"get", "none", "wait", "handler", "exited"}
                  /\ call[a].op = "none" /\ a # Owner
        PROVE  Kept
    <2>1. CASE b = a
      <3>1. pc'[b] = label /\ call'[b] = call[b]
        BY <1>3, <2>1 DEF Goes, TypeOK
      <3>2. PlaceOfCall(b)'
        BY <1>3, <2>1, <3>1 DEF PlaceOfCall, Calling
      <3>3. SubjectOfCall(b)'
        BY <1>3, <3>1 DEF CallInv, SubjectOfCall
      <3> QED
        BY <3>2, <3>3
    <2>2. CASE b # a
      BY <1>1, <1>3, <2>2 DEF Goes, TypeOK
    <2> QED
      BY <2>1, <2>2
  <1> HIDE DEF Kept
  <1>4. \A a \in Actor : PlaceOfCall(a) /\ SubjectOfCall(a)
    BY DEF CallInv
  <1>5. ASSUME NEW a \in Actor, NEW t \in Thread, Calls(a, t) PROVE Kept
    BY <1>5, CallsKeepCallInv DEF CallInv, Kept
  <1>6. ASSUME NEW a \in Actor, CallContinues(a) PROVE Kept
    <2>1. CASE Push(a)
      BY <1>3, <1>4, <1>6, <2>1 DEF Push, PlaceOfCall
    <2>2. CASE WakeUpSocketServer(a)
      BY <1>2, <1>3, <2>2 DEF WakeUpSocketServer, life
    <2>3. CASE SendPosts(a)
      <3>1. call[a].op = "send" /\ UNCHANGED <<used, to>>
        BY <1>4, <2>3 DEF SendPosts, PlaceOfCall
      <3>2. CASE ~stop_[call[a].to]
        BY <1>3, <2>3, <3>1, <3>2 DEF SendPosts
      <3>3. CASE stop_[call[a].to] /\ b # a
        BY <1>1, <2>3, <3>1, <3>3 DEF SendPosts, Completes, Goes, TypeOK
      <3>4. CASE stop_[call[a].to] /\ b = a
        <4>1. pc'[a] = "test" /\ call'[a] = [call[a] EXCEPT !.ready = TRUE]
          BY <2>3, <3>4 DEF SendPosts, Completes, Goes, TypeOK
        <4>2. /\ call'[a].op = "send" /\ call'[a].to = call[a].to
              /\ call'[a].msg = call[a].msg
          BY <3>1, <4>1 DEF TypeOK, CallOnThread
        <4>3. PlaceOfCall(a)'
          BY <1>4, <4>1, <4>2 DEF PlaceOfCall, Calling
        <4>4. SubjectOfCall(a)'
          BY <1>4, <3>1, <4>2 DEF SubjectOfCall
        <4> QED
          BY <3>4, <4>3, <4>4 DEF Kept
      <3> QED
        BY <3>2, <3>3, <3>4
    <2>4. CASE SendTests(a)
      <3>1. call[a].op = "send"
        BY <1>4, <2>4 DEF SendTests, PlaceOfCall
      <3> QED
        BY <1>2, <1>3, <2>4, <3>1 DEF SendTests, SendDone, life
    <2>5. CASE QuitWakes(a)
      <3>1. call[a].op \in {"quit", "stop", "delete"}
        BY <1>4, <2>5 DEF QuitWakes, PlaceOfCall
      <3> QED
        BY <1>2, <1>3, <2>5, <3>1 DEF QuitWakes, life
    <2> QED
      BY <1>6, <2>1, <2>2, <2>3, <2>4, <2>5 DEF CallContinues
  <1>7. ASSUME NEW t \in Thread, ThreadStep(t) PROVE Kept
    <2>1. t \in Actor /\ t # Owner
      BY OwnerAssumption DEF Actor
    <2>2. pc[t] \in {"get", "none", "wait", "handler"} => call[t].op = "none"
      BY <1>4, <2>1 DEF PlaceOfCall, Calling
    <2>3. CASE SendWaits(t)
      <3>1. call[t].op = "send" /\ UNCHANGED <<used, to>>
        BY <1>4, <2>1, <2>3 DEF SendWaits, PlaceOfCall, life
      <3>2. CASE b # t
        BY <1>1, <2>3, <3>1, <3>2 DEF SendWaits, Goes, TypeOK
      <3>3. CASE b = t
        <4>1. pc'[t] = "test" /\ call'[t] = [call[t] EXCEPT !.waited = TRUE]
          BY <2>1, <2>3 DEF SendWaits, Goes, TypeOK
        <4>2. /\ call'[t].op = "send" /\ call'[t].to = call[t].to
              /\ call'[t].msg = call[t].msg
          BY <2>1, <3>1, <4>1 DEF TypeOK, CallOnThread
        <4>3. PlaceOfCall(t)'
          BY <1>4, <2>1, <4>1, <4>2 DEF PlaceOfCall, Calling
        <4>4. SubjectOfCall(t)'
          BY <1>4, <2>1, <3>1, <4>2 DEF SubjectOfCall
        <4> QED
          BY <3>3, <4>3, <4>4 DEF Kept
      <3> QED
        BY <3>2, <3>3
    <2>4. CASE SendRewakes(t)
      BY <1>2, <2>1, <2>4 DEF SendRewakes, life
    <2>5. CASE GetTakes(t)
      BY <1>3, <2>1, <2>2, <2>5 DEF GetTakes
    <2>6. CASE GetFindsNone(t) \/ GetQuitsOrWaits(t)
      BY <1>3, <2>1, <2>2, <2>6 DEF GetFindsNone, GetQuitsOrWaits, life
    <2>7. CASE WaitReturns(t)
      BY <1>3, <2>1, <2>2, <2>7 DEF WaitReturns, life
    <2>8. CASE HandlerReturns(t)
      <3>1. call[t].op = "none" /\ UNCHANGED <<used, to>> /\ Goes(t, "get")
        BY <2>2, <2>8 DEF HandlerReturns
      <3>2. CASE UNCHANGED call
        BY <1>3, <2>1, <3>1, <3>2
      <3>3. ASSUME NEW a \in Actor, call[a].op = "send", Completes(a) PROVE Kept
        <4>1. a # t /\ call'[t] = call[t]
          BY <2>1, <3>1, <3>3 DEF Completes, TypeOK
        <4>2. CASE b = t
          <5>1. pc'[t] = "get"
            BY <2>1, <3>1 DEF Goes, TypeOK
          <5>2. PlaceOfCall(t)'
            BY <2>1, <3>1, <4>1, <5>1 DEF PlaceOfCall, Calling
          <5>3. SubjectOfCall(t)'
            BY <1>4, <2>1, <3>1, <4>1 DEF SubjectOfCall
          <5> QED
            BY <4>2, <5>2, <5>3 DEF Kept
        <4>3. CASE b # t
          <5>1. pc'[b] = pc[b]
            BY <3>1, <4>3 DEF Goes, TypeOK
          <5>2. call'[b] = call[b] \/ (b = a /\ call'[b] = [call[b] EXCEPT !.ready = TRUE])
            BY <3>3 DEF Completes, TypeOK
          <5> QED
            BY <3>1, <3>3, <5>1, <5>2, CallFrame DEF Kept
        <4> QED
          BY <4>2, <4>3
      <3> QED
        BY <2>8, <3>2, <3>3 DEF HandlerReturns
    <2> QED
      BY <1>7, <2>3, <2>4, <2>5, <2>6, <2>7, <2>8 DEF ThreadStep
  <1>8. CASE SendWaitsForDone
    BY <1>2, <1>8 DEF SendWaitsForDone, life, Actor, Kept
  <1>9. CASE Join
    <2> DEFINE t == call[Owner].to
    <2>1. /\ Owner \in Actor /\ call[Owner].op \in {"stop", "delete"}
      BY <1>4, <1>9 DEF Join, PlaceOfCall, Actor
    <2>2. t \in Thread /\ t \in Actor /\ t # Owner
      BY <1>4, <2>1, OwnerAssumption DEF SubjectOfCall, Actor
    <2>3. call[t].op = "none" /\ call[t] = NoCall
      <3>1. pc[t] \in {"exited", "stopped"}
        BY <1>9 DEF Join
      <3> QED
        BY <1>4, <2>2, <3>1 DEF PlaceOfCall, SubjectOfCall, Calling
    <2>4. /\ pc' \in {[pc EXCEPT ![Owner] = "idle", ![t] = "stopped"],
                      [pc EXCEPT ![Owner] = "idle", ![t] = "deleted"]}
          /\ call' = [call EXCEPT ![Owner] = NoCall]
          /\ UNCHANGED <<used, to>>
      BY <1>9 DEF Join
    <2>5. CASE b = Owner
      BY <2>1, <2>2, <2>4, <2>5, CallReturned DEF Rest, TypeOK, Kept
    <2>6. CASE b = t
      <3>1. pc'[b] \in {"stopped", "deleted"} /\ call'[b] = NoCall
        BY <2>1, <2>2, <2>3, <2>4, <2>6 DEF TypeOK
      <3> QED
        BY <2>2, <2>6, <3>1 DEF PlaceOfCall, SubjectOfCall, NoCall, Calling, Kept
    <2>7. CASE b # Owner /\ b # t
      BY <1>1, <2>4, <2>7 DEF TypeOK, Kept
    <2> QED
      BY <2>5, <2>6, <2>7
  <1>10. CASE Tick \/ UNCHANGED vars
    BY <1>1, <1>10 DEF Tick, vars, life, Kept
  <1> QED
    BY <1>5, <1>6, <1>7, <1>8, <1>9, <1>10 DEF Next, Kept

-----------------------------------------------------------------------------
(* The steps, by what they do to the messages.                             *)

\* Actor a moves, and no message does.
Quiet(a) ==
    /\ UNCHANGED <<queue, life, cur>>
    /\ now' \in {now, now + 1}
    /\ \A t \in Thread : msCurrent'[t] \in {msCurrent[t], 0, now}
    /\ \A b \in Actor \ {a} : pc'[b] = pc[b] /\ call'[b] = call[b]
    /\ pc[a] \in Unpushed <=> pc'[a] \in Unpushed
    /\ pc'[a] \in Unpushed => call'[a] = call[a]
    /\ call'[a].msg \in {call[a].msg, NoMsg}
    /\ call'[a].op = "send" => /\ call[a].op = "send"
                               /\ call'[a].msg = call[a].msg
                               /\ call'[a].ready = call[a].ready
    /\ a \in Thread => (pc[a] \in InHandler <=> pc'[a] \in InHandler)

\* A message for t is refused, ...
Refused(t, at) ==
    /\ NewMessage(t, at, "refused")
    /\ UNCHANGED <<now, queue, loop, pc, call>>

\* ... or a is about to push it.
Called(a, t, at, op, label) ==
    /\ NewMessage(t, at, "called") /\ Enter(a, op, t, used + 1, label)
    /\ op \in {"post", "send"} /\ label \in Unpushed
    /\ at = Immediate \/ (at \in 0..MaxTime /\ \E ms \in Delay : at = now + ms)
    /\ op = "send" => at = Immediate
    /\ MayUse(a, t)
    /\ UNCHANGED <<now, queue, loop>>

LEMMA PlaceValues ==
    /\ Unpushed = {"post", "push"}
    /\ InHandler = {"push", "wake", "post", "test", "blocked", "rewake", "quit", "join",
                    "handler"}
  BY DEF Unpushed, InHandler, Calling

\* A call that returns, or moves on.
LEMMA ReturnIsQuiet ==
    ASSUME TypeOK, NEW a \in Actor, Returns(a), UNCHANGED <<now, queue, life, loop>>,
           pc[a] \in InHandler \ (Unpushed \cup {"handler"})
    PROVE  Quiet(a)
  <1>1. /\ pc'[a] = Rest(a) /\ call'[a] = NoCall
        /\ \A b \in Actor \ {a} : pc'[b] = pc[b] /\ call'[b] = call[b]
    BY DEF Returns, Goes, TypeOK
  <1>2. NoCall.msg = NoMsg /\ NoCall.op = "none"
    BY DEF NoCall
  <1>3. Rest(a) \notin Unpushed /\ (a \in Thread => Rest(a) \in InHandler)
    BY PlaceValues, OwnerAssumption DEF Rest
  <1> QED
    BY <1>1, <1>2, <1>3 DEF Quiet, loop

LEMMA MoveIsQuiet ==
    ASSUME TypeOK, NEW a \in Actor, NEW label, Goes(a, label),
           UNCHANGED <<call, queue, life, cur, now>>,
           \A t \in Thread : msCurrent'[t] \in {msCurrent[t], 0, now},
           pc[a] \in Unpushed <=> label \in Unpushed,
           a \in Thread => (pc[a] \in InHandler <=> label \in InHandler)
    PROVE  Quiet(a)
  <1>1. pc'[a] = label /\ \A b \in Actor \ {a} : pc'[b] = pc[b]
    BY DEF Goes, TypeOK
  <1> QED
    BY <1>1 DEF Quiet

LEMMA CallsSort ==
    ASSUME TypeOK, NEW a \in Actor, NEW t \in Thread, Calls(a, t)
    PROVE  \/ Quiet(a)
           \/ \E at : Refused(t, at)
           \/ \E at, op, label : Called(a, t, at, op, label)
  <1>1. CASE Post(a, t, Immediate)
    <2>1. CASE stop_[t]
      BY <1>1, <2>1 DEF Post, Refused
    <2>2. CASE ~stop_[t]
      <3>1. Called(a, t, Immediate, "post", "push")
        BY <1>1, <2>2, PlaceValues DEF Post, Called
      <3> QED
        BY <3>1
    <2> QED
      BY <2>1, <2>2
  <1>2. ASSUME NEW ms \in Delay, PostDelayed(a, t, ms)
        PROVE  \/ \E at : Refused(t, at)
               \/ \E at, op, label : Called(a, t, at, op, label)
    <2>1. now + ms \in 0..MaxTime
      BY <1>2, BoundAssumption, DelayAssumption DEF PostDelayed, TypeOK
    <2>2. CASE stop_[t]
      BY <1>2, <2>2 DEF PostDelayed, Post, Refused
    <2>3. CASE ~stop_[t]
      <3>1. Called(a, t, now + ms, "post", "push")
        BY <1>2, <2>1, <2>3, PlaceValues DEF PostDelayed, Post, Called
      <3> QED
        BY <3>1
    <2> QED
      BY <2>2, <2>3
  <1>3. CASE Send(a, t)
    <2>1. CASE ~stop_[t] /\ ~ClosesCycle(a, t)
      <3>1. Called(a, t, Immediate, "send", "post")
        BY <1>3, <2>1, PlaceValues DEF Send, Called
      <3> QED
        BY <3>1
    <2>2. CASE NewMessage(t, Immediate, "refused") /\ UNCHANGED <<pc, call>>
      BY <1>3, <2>2 DEF Send, Refused
    <2>3. CASE UNCHANGED <<pc, call, life>>
      BY <1>3, <2>3 DEF Send, Quiet, loop
    <2> QED
      BY <1>3, <2>1, <2>2, <2>3 DEF Send
  <1>4. ASSUME NEW op \in {"quit", "stop", "delete"}, Quit(a, op, t) PROVE Quiet(a)
    <2>1. /\ pc[a] = Rest(a) /\ pc'[a] = "quit"
          /\ call'[a] = [NoCall EXCEPT !.op = op, !.to = t, !.msg = NoMsg]
          /\ \A b \in Actor \ {a} : pc'[b] = pc[b] /\ call'[b] = call[b]
          /\ UNCHANGED <<now, queue, loop, life>>
      BY <1>4 DEF Quit, Enter, Goes, MayUse, TypeOK
    <2>2. call'[a].op = op /\ call'[a].msg = NoMsg
      BY <2>1 DEF NoCall
    <2>3. Rest(a) \notin Unpushed /\ (a \in Thread => Rest(a) \in InHandler)
      BY PlaceValues, OwnerAssumption DEF Rest
    <2> QED
      BY <2>1, <2>2, <2>3, PlaceValues DEF Quiet, loop
  <1>5. ASSUME NEW ms \in Delay, PostDelayedAborts(a, t, ms) PROVE Quiet(a)
    BY <1>5 DEF PostDelayedAborts, Quiet, loop
  <1> QED
    BY <1>1, <1>2, <1>3, <1>4, <1>5 DEF Calls

\* A Send is refused by the second look at IsQuitting().
SendRefused(a) == SendPosts(a) /\ stop_[call[a].to]

LEMMA CallContinuesSort ==
    ASSUME TypeOK, CallInv, NEW a \in Actor, CallContinues(a)
    PROVE  Quiet(a) \/ Push(a) \/ SendRefused(a)
  <1>1. CASE WakeUpSocketServer(a)
    BY <1>1, ReturnIsQuiet, MoveIsQuiet, PlaceValues DEF WakeUpSocketServer, loop
  <1>2. CASE SendPosts(a) /\ ~stop_[call[a].to]
    BY <1>2, MoveIsQuiet, PlaceValues DEF SendPosts, loop, life
  <1>3. CASE SendTests(a)
    BY <1>3, ReturnIsQuiet, MoveIsQuiet, PlaceValues DEF SendTests, loop
  <1>4. CASE QuitWakes(a)
    BY <1>4, ReturnIsQuiet, MoveIsQuiet, PlaceValues DEF QuitWakes, loop
  <1> QED
    BY <1>1, <1>2, <1>3, <1>4 DEF CallContinues, SendRefused

LEMMA ThreadStepSort ==
    ASSUME TypeOK, NEW t \in Thread, ThreadStep(t)
    PROVE  Quiet(t) \/ GetTakes(t) \/ HandlerReturns(t)
  <1>1. t \in Actor
    BY DEF Actor
  <1>2. CASE SendWaits(t)
    <2>1. /\ pc[t] = "blocked" /\ pc'[t] = "test"
          /\ call'[t] = [call[t] EXCEPT !.waited = TRUE]
          /\ \A b \in Actor \ {t} : pc'[b] = pc[b] /\ call'[b] = call[b]
          /\ UNCHANGED <<now, queue, loop, life>>
      BY <1>1, <1>2 DEF SendWaits, Goes, TypeOK
    <2>2. /\ call'[t].op = call[t].op /\ call'[t].msg = call[t].msg
          /\ call'[t].ready = call[t].ready
      BY <1>1, <2>1 DEF TypeOK, CallOnThread
    <2> QED
      BY <2>1, <2>2, PlaceValues DEF Quiet, loop
  <1>3. CASE SendRewakes(t)
    BY <1>1, <1>3, ReturnIsQuiet, PlaceValues DEF SendRewakes
  <1>4. CASE GetFindsNone(t)
    <2>1. \A u \in Thread : msCurrent'[u] \in {msCurrent[u], 0, now}
      BY <1>4 DEF GetFindsNone, TypeOK
    <2> QED
      BY <1>1, <1>4, <2>1, MoveIsQuiet, PlaceValues DEF GetFindsNone
  <1>5. CASE GetQuitsOrWaits(t)
    BY <1>1, <1>5, MoveIsQuiet, PlaceValues DEF GetQuitsOrWaits
  <1>6. CASE WaitReturns(t)
    <2>1. \A u \in Thread : msCurrent'[u] \in {msCurrent[u], 0, now}
      BY <1>6 DEF WaitReturns, TypeOK
    <2> QED
      BY <1>1, <1>6, <2>1, MoveIsQuiet, PlaceValues DEF WaitReturns
  <1> QED
    BY <1>2, <1>3, <1>4, <1>5, <1>6 DEF ThreadStep

\* Every step is one of these.
LEMMA StepsSort ==
    ASSUME TypeOK, CallInv, [Next]_vars
    PROVE  \/ \E a \in Actor : Quiet(a) \/ Push(a) \/ SendRefused(a)
           \/ \E t \in Thread : \E at : Refused(t, at)
           \/ \E a \in Actor, t \in Thread : \E at, op, label : Called(a, t, at, op, label)
           \/ \E t \in Thread : GetTakes(t) \/ HandlerReturns(t)
           \/ Join
  <1>1. Owner \in Actor /\ Thread \subseteq Actor
    BY DEF Actor
  <1>2. CASE SendWaitsForDone
    <2>1. Quiet(Owner)
      BY <1>1, <1>2, ReturnIsQuiet, PlaceValues DEF SendWaitsForDone
    <2> QED
      BY <1>1, <2>1
  <1>3. CASE Tick \/ UNCHANGED vars
    <2>1. Quiet(Owner)
      BY <1>3 DEF Tick, vars, Quiet, loop
    <2> QED
      BY <1>1, <2>1
  <1>4. ASSUME NEW a \in Actor, NEW t \in Thread, Calls(a, t)
        PROVE  \/ Quiet(a)
               \/ \E at : Refused(t, at)
               \/ \E at, op, label : Called(a, t, at, op, label)
    BY <1>4, CallsSort
  <1>5. ASSUME NEW a \in Actor, CallContinues(a)
        PROVE  Quiet(a) \/ Push(a) \/ SendRefused(a)
    BY <1>5, CallContinuesSort
  <1>6. ASSUME NEW t \in Thread, ThreadStep(t)
        PROVE  Quiet(t) \/ GetTakes(t) \/ HandlerReturns(t)
    BY <1>6, ThreadStepSort
  <1> QED
    BY <1>1, <1>2, <1>3, <1>4, <1>5, <1>6 DEF Next

-----------------------------------------------------------------------------
(* Calls and their messages.                                               *)

\* Posting and sending have a message, an old one; nothing else has.
LEMMA CallMessage ==
    ASSUME TypeOK, CallInv, NEW b \in Actor
    PROVE  /\ call[b].msg \in 0..used
           /\ call[b].op \in {"post", "send"} <=> call[b].msg # NoMsg
           /\ pc[b] \in Unpushed => call[b].op \in {"post", "send"}
           /\ call[b].msg # NoMsg => call[b].msg \in Msg /\ to[call[b].msg] = call[b].to
                                     /\ call[b].to \in Thread
  <1>1. /\ used \in 0..MaxMsgs
        /\ call[b].op \in {"none", "post", "send", "quit", "stop", "delete"}
    BY DEF TypeOK, CallOnThread
  <1>2. NoCall.msg = NoMsg /\ NoMsg = 0
    BY DEF NoCall, NoMsg
  <1>3. PlaceOfCall(b) /\ SubjectOfCall(b)
    BY DEF CallInv
  <1>4. pc[b] \in Unpushed => call[b].op \in {"post", "send"}
    BY <1>3 DEF PlaceOfCall, Unpushed
  <1> QED
    BY <1>1, <1>2, <1>3, <1>4, BoundAssumption DEF SubjectOfCall, Msg

\* The message that a is about to push.
LEMMA PushedMessage ==
    ASSUME TypeOK, CallInv, SendInv, NEW a \in Actor, pc[a] \in Unpushed
    PROVE  /\ call[a].msg \in Msg /\ call[a].msg # NoMsg /\ phase[call[a].msg] = "called"
           /\ ~call[a].ready /\ to[call[a].msg] = call[a].to /\ call[a].to \in Thread
           /\ \A b \in Actor \ {a} : call[b].msg # call[a].msg
  BY CallMessage DEF SendInv

\* The message that t dispatches.
LEMMA DispatchedMessage ==
    ASSUME TypeOK, CurInv, NEW t \in Thread, pc[t] = "handler"
    PROVE  cur[t] \in Msg /\ phase[cur[t]] = "running" /\ to[cur[t]] = t
  BY PlaceValues DEF TypeOK, CurInv

\* What Called leaves.
LEMMA CalledMessage ==
    ASSUME TypeOK, NEW a \in Actor, NEW t \in Thread, NEW at, NEW op, NEW label,
           Called(a, t, at, op, label)
    PROVE  /\ pc'[a] = label /\ call'[a].op = op /\ call'[a].to = t
           /\ call'[a].msg = used + 1 /\ call'[a].ready = FALSE
           /\ \A b \in Actor \ {a} : pc'[b] = pc[b] /\ call'[b] = call[b]
           /\ label \in Unpushed
  <1>1. /\ pc'[a] = label
        /\ call'[a] = [NoCall EXCEPT !.op = op, !.to = t, !.msg = used + 1]
        /\ \A b \in Actor \ {a} : pc'[b] = pc[b] /\ call'[b] = call[b]
    BY DEF Called, Enter, Goes, TypeOK
  <1> QED
    BY <1>1 DEF Called, NoCall

\* The call of a Send that is completed.
LEMMA CompletedCall ==
    ASSUME TypeOK, NEW a \in Actor, Completes(a)
    PROVE  /\ call'[a].op = call[a].op /\ call'[a].to = call[a].to
           /\ call'[a].msg = call[a].msg /\ call'[a].ready = TRUE
           /\ \A b \in Actor \ {a} : call'[b] = call[b]
  <1>1. call'[a] = [call[a] EXCEPT !.ready = TRUE] /\ call[a] \in CallOnThread
    BY DEF Completes, TypeOK
  <1>2. \A b \in Actor \ {a} : call'[b] = call[b]
    BY DEF Completes, TypeOK
  <1> QED
    BY <1>1, <1>2 DEF CallOnThread

\* What Join leaves of the calls.
LEMMA JoinedCall ==
    ASSUME TypeOK, CallInv, Join
    PROVE  LET t == call[Owner].to
           IN  /\ Owner \in Actor /\ t \in Thread /\ t \in Actor /\ t # Owner
               /\ pc[Owner] = "join" /\ pc[t] \in {"exited", "stopped"}
               /\ pc'[Owner] = "idle" /\ pc'[t] \in {"stopped", "deleted"}
               /\ call'[Owner] = NoCall /\ call[t] = NoCall
               /\ \A b \in Actor \ {Owner} : call'[b] = call[b]
               /\ \A b \in Actor \ {Owner, t} : pc'[b] = pc[b]
               /\ \/ call[Owner].op = "stop" /\ pc'[t] = "stopped"
                  \/ call[Owner].op = "delete" /\ pc'[t] = "deleted"
  <1> DEFINE t == call[Owner].to
  <1>1. /\ Owner \in Actor /\ pc[Owner] = "join" /\ pc[t] \in {"exited", "stopped"}
    BY DEF Join, Actor
  <1>2. call[Owner].op \in {"stop", "delete"}
    BY <1>1 DEF CallInv, PlaceOfCall
  <1>3. t \in Thread /\ t \in Actor /\ t # Owner
    BY <1>1, <1>2, OwnerAssumption DEF CallInv, SubjectOfCall, Actor
  <1>4. call[t] = NoCall
    BY <1>1, <1>3 DEF CallInv, PlaceOfCall, SubjectOfCall, Calling
  <1>5. /\ call' = [call EXCEPT ![Owner] = NoCall]
        /\ \/ call[Owner].op = "stop" /\ pc' = [pc EXCEPT ![Owner] = "idle", ![t] = "stopped"]
           \/ call[Owner].op = "delete" /\ pc' = [pc EXCEPT ![Owner] = "idle", ![t] = "deleted"]
    BY <1>2 DEF Join
  <1> QED
    BY <1>1, <1>3, <1>4, <1>5 DEF TypeOK

LEMMA SendInvStep ==
    TypeOK /\ CallInv /\ SendInv /\ CurInv /\ LifeInv /\ QueueInv /\ FifoInv /\ [Next]_vars
        => SendInv'
  <1> SUFFICES ASSUME TypeOK, CallInv, SendInv, CurInv, LifeInv, QueueInv, FifoInv,
                      [Next]_vars
               PROVE  SendInv'
    OBVIOUS
  <1>1. ASSUME NEW a \in Actor, Quiet(a) PROVE SendInv'
    <2>1. \A b \in Actor : call'[b].msg \in {call[b].msg, NoMsg}
      BY <1>1 DEF Quiet
    <2>2. \A b \in Actor : pc'[b] \in Unpushed => pc[b] \in Unpushed /\ call'[b] = call[b]
      BY <1>1 DEF Quiet
    <2>3. \A b \in Actor : call'[b].op = "send" =>
              call[b].op = "send" /\ call'[b].msg = call[b].msg /\ call'[b].ready = call[b].ready
      BY <1>1 DEF Quiet
    <2>4. UNCHANGED <<phase, due>>
      BY <1>1 DEF Quiet, life
    <2> QED
      BY <2>1, <2>2, <2>3, <2>4 DEF SendInv
  <1>2. \A b \in Actor : call[b].msg \in 0..used /\ (call[b].msg # NoMsg => call[b].msg \in Msg)
    BY CallMessage
  <1>3. \A b \in Actor : pc[b] \in Unpushed \/ call[b].op = "send" => call[b].msg # NoMsg
    BY CallMessage
  <1>4. ASSUME NEW t \in Thread, NEW at, Refused(t, at) PROVE SendInv'
    <2>1. \A m \in Msg \ {used + 1} : due'[m] = due[m] /\ phase'[m] = phase[m]
      BY <1>4, NewMessageNumber DEF Refused
    <2>2. used \in Nat /\ UNCHANGED <<pc, call>>
      BY <1>4, NewMessageNumber DEF Refused
    <2> QED
      BY <1>2, <1>3, <2>1, <2>2 DEF SendInv
  <1>5. ASSUME NEW a \in Actor, NEW t \in Thread, NEW at, NEW op, NEW label,
               Called(a, t, at, op, label)
        PROVE  SendInv'
    <2>1. /\ used \in Nat /\ used + 1 \in Msg
          /\ due'[used + 1] = at /\ phase'[used + 1] = "called"
          /\ \A m \in Msg \ {used + 1} : due'[m] = due[m] /\ phase'[m] = phase[m]
      BY <1>5, NewMessageNumber DEF Called
    <2>2. /\ call'[a].msg = used + 1 /\ call'[a].ready = FALSE /\ call'[a].op = op
          /\ \A b \in Actor \ {a} : pc'[b] = pc[b] /\ call'[b] = call[b]
          /\ op = "send" => at = Immediate
      <3>1. op = "send" => at = Immediate
        BY <1>5 DEF Called
      <3> QED
        BY <1>5, <3>1, CalledMessage
    <2>3. \A b \in Actor : call[b].msg # used + 1
      BY <1>2, <2>1
    <2>4. \A b, c \in Actor : call'[b].msg = call'[c].msg /\ call'[b].msg # NoMsg => b = c
      BY <2>2, <2>3 DEF SendInv
    <2>5. ASSUME NEW b \in Actor, pc'[b] \in Unpushed
          PROVE  phase'[call'[b].msg] = "called" /\ ~call'[b].ready
      BY <1>2, <1>3, <2>1, <2>2, <2>3, <2>5 DEF SendInv
    <2>6. ASSUME NEW b \in Actor, call'[b].op = "send"
          PROVE  /\ due'[call'[b].msg] = Immediate
                 /\ call'[b].ready <=> phase'[call'[b].msg] \in {"done", "refused"}
      BY <1>2, <1>3, <2>1, <2>2, <2>3, <2>6 DEF SendInv
    <2> QED
      BY <2>4, <2>5, <2>6 DEF SendInv
  <1>6. ASSUME NEW a \in Actor, Push(a) PROVE SendInv'
    <2>1. /\ call[a].msg \in Msg /\ ~call[a].ready
          /\ \A b \in Actor \ {a} : call[b].msg # call[a].msg
      BY <1>6, PushedMessage, PlaceValues DEF Push
    <2>2. /\ phase' = [phase EXCEPT ![call[a].msg] = "queued"]
          /\ UNCHANGED <<call, due>> /\ pc'[a] = "wake"
          /\ \A b \in Actor \ {a} : pc'[b] = pc[b]
      BY <1>6 DEF Push, Goes, TypeOK
    <2>3. \A b \in Actor \ {a} : phase'[call[b].msg] = phase[call[b].msg]
      BY <2>1, <2>2 DEF TypeOK
    <2> QED
      BY <2>1, <2>2, <2>3, PlaceValues DEF SendInv
  <1>7. ASSUME NEW a \in Actor, SendRefused(a) PROVE SendInv'
    <2>1. /\ call[a].msg \in Msg /\ \A b \in Actor \ {a} : call[b].msg # call[a].msg
      BY <1>7, PushedMessage, PlaceValues DEF SendRefused, SendPosts
    <2>2. /\ phase' = [phase EXCEPT ![call[a].msg] = "refused"]
          /\ UNCHANGED due /\ pc'[a] = "test" /\ Completes(a)
          /\ \A b \in Actor \ {a} : pc'[b] = pc[b]
      BY <1>7 DEF SendRefused, SendPosts, Goes, TypeOK
    <2>3. /\ \A b \in Actor \ {a} : phase'[call[b].msg] = phase[call[b].msg]
          /\ phase'[call[a].msg] = "refused"
      BY <2>1, <2>2 DEF TypeOK
    <2>4. /\ call'[a].op = call[a].op /\ call'[a].msg = call[a].msg /\ call'[a].ready
          /\ \A b \in Actor \ {a} : call'[b] = call[b]
      BY <2>2, CompletedCall
    <2>5. \A b, c \in Actor : call'[b].msg = call'[c].msg /\ call'[b].msg # NoMsg => b = c
      BY <2>1, <2>4 DEF SendInv
    <2>6. \A b \in Actor : pc'[b] \in Unpushed => b # a /\ pc[b] \in Unpushed
      BY <2>2, PlaceValues
    <2>7. ASSUME NEW b \in Actor, call'[b].op = "send"
          PROVE  /\ due'[call'[b].msg] = Immediate
                 /\ call'[b].ready <=> phase'[call'[b].msg] \in {"done", "refused"}
      BY <2>2, <2>3, <2>4, <2>7 DEF SendInv
    <2> QED
      BY <2>3, <2>4, <2>5, <2>6, <2>7 DEF SendInv
  <1>8. ASSUME NEW t \in Thread, GetTakes(t) PROVE SendInv'
    <2>1. PICK m \in Msg, q \in Seq(Msg) : Takes(t, m, q)
      BY <1>8, GetTakesOne
    <2>2. /\ UNCHANGED <<call, due>> /\ t \in Actor
          /\ pc'[t] = "handler" /\ \A b \in Actor \ {t} : pc'[b] = pc[b]
      BY <1>8 DEF GetTakes, Goes, TypeOK, Actor
    <2>3. \A x \in Msg : phase'[x] = phase[x] \/ (phase[x] = "queued" /\ phase'[x] = "running")
      BY <2>1 DEF Takes, TypeOK
    <2> QED
      BY <1>2, <1>3, <2>2, <2>3, PlaceValues DEF SendInv
  <1>9. ASSUME NEW t \in Thread, HandlerReturns(t) PROVE SendInv'
    <2>1. cur[t] \in Msg /\ phase[cur[t]] = "running"
      BY <1>9, DispatchedMessage DEF HandlerReturns
    <2>2. /\ UNCHANGED due /\ t \in Actor
          /\ pc'[t] = "get" /\ \A b \in Actor \ {t} : pc'[b] = pc[b]
          /\ phase' = [phase EXCEPT ![cur[t]] = "done"]
      BY <1>9 DEF HandlerReturns, Goes, TypeOK, Actor
    <2>3. /\ \A x \in Msg : x # cur[t] => phase'[x] = phase[x]
          /\ \A x \in Msg : phase[x] # "running" => phase'[x] = phase[x]
          /\ phase'[cur[t]] = "done"
      BY <2>1, <2>2 DEF TypeOK
    <2>4. CASE UNCHANGED call /\ \A a \in Actor : ~(call[a].op = "send" /\ call[a].msg = cur[t])
      BY <1>2, <1>3, <2>2, <2>3, <2>4, PlaceValues DEF SendInv
    <2>5. ASSUME NEW a \in Actor, call[a].op = "send", call[a].msg = cur[t], Completes(a)
          PROVE  SendInv'
      <3>1. /\ call'[a].op = call[a].op /\ call'[a].msg = call[a].msg /\ call'[a].ready
            /\ \A b \in Actor \ {a} : call'[b] = call[b]
        BY <2>5, CompletedCall
      <3>2. \A b, c \in Actor : call'[b].msg = call'[c].msg /\ call'[b].msg # NoMsg => b = c
        BY <3>1 DEF SendInv
      <3>3. pc[a] \notin Unpushed
        BY <2>1, <2>5 DEF SendInv
      <3>4. ASSUME NEW b \in Actor, pc'[b] \in Unpushed
            PROVE  phase'[call'[b].msg] = "called" /\ ~call'[b].ready
        <4>1. b # t /\ b # a /\ pc[b] \in Unpushed /\ call'[b] = call[b]
          BY <2>2, <3>1, <3>3, <3>4, PlaceValues
        <4> QED
          BY <1>2, <1>3, <2>3, <4>1 DEF SendInv
      <3>5. ASSUME NEW b \in Actor, call'[b].op = "send"
            PROVE  /\ due'[call'[b].msg] = Immediate
                   /\ call'[b].ready <=> phase'[call'[b].msg] \in {"done", "refused"}
        <4>1. CASE b = a
          BY <2>2, <2>3, <2>5, <3>1, <4>1 DEF SendInv
        <4>2. CASE b # a
          <5>1. call'[b] = call[b] /\ call[b].msg \in Msg /\ call[b].msg # cur[t]
            BY <1>2, <1>3, <2>5, <3>1, <3>5, <4>2 DEF SendInv
          <5> QED
            BY <2>2, <2>3, <3>5, <5>1 DEF SendInv
        <4> QED
          BY <4>1, <4>2
      <3> QED
        BY <3>2, <3>4, <3>5 DEF SendInv
    <2> QED
      BY <1>9, <2>4, <2>5 DEF HandlerReturns
  <1>10. CASE Join
    <2>1. /\ Owner \in Actor /\ pc'[Owner] = "idle" /\ call'[Owner] = NoCall
          /\ \A b \in Actor \ {Owner} :
                 call'[b] = call[b] /\ (pc'[b] \in Unpushed => pc[b] \in Unpushed)
      BY <1>10, JoinedCall, PlaceValues
    <2>2. \A x \in Msg : phase'[x] = phase[x] \/ (phase[x] = "queued" /\ phase'[x] = "dropped")
      BY <1>10 DEF Join, TypeOK
    <2>3. NoCall.msg = NoMsg /\ NoCall.op = "none" /\ "idle" \notin Unpushed
      BY PlaceValues DEF NoCall
    <2>4. UNCHANGED due
      BY <1>10 DEF Join
    <2>5. \A b, c \in Actor : call'[b].msg = call'[c].msg /\ call'[b].msg # NoMsg => b = c
      BY <2>1, <2>3 DEF SendInv
    <2> QED
      BY <1>2, <1>3, <2>1, <2>2, <2>3, <2>4, <2>5 DEF SendInv
  <1> QED
    BY <1>1, <1>4, <1>5, <1>6, <1>7, <1>8, <1>9, <1>10, StepsSort

-----------------------------------------------------------------------------
(* The message that a thread dispatches.                                   *)

LEMMA CurInvStep ==
    TypeOK /\ CallInv /\ SendInv /\ CurInv /\ LifeInv /\ QueueInv /\ FifoInv /\ [Next]_vars
        => CurInv'
  <1> SUFFICES ASSUME TypeOK, CallInv, SendInv, CurInv, LifeInv, QueueInv, FifoInv,
                      [Next]_vars, NEW u \in Thread
               PROVE  /\ cur'[u] # NoMsg <=> pc'[u] \in InHandler
                      /\ cur'[u] # NoMsg => phase'[cur'[u]] = "running" /\ to'[cur'[u]] = u
    BY DEF CurInv
  <1>1. u \in Actor /\ u # Owner /\ cur[u] \in Msg \cup {NoMsg}
    BY OwnerAssumption DEF Actor, TypeOK
  <1>2. /\ cur[u] # NoMsg <=> pc[u] \in InHandler
        /\ cur[u] # NoMsg => phase[cur[u]] = "running" /\ to[cur[u]] = u
    BY DEF CurInv
  <1> DEFINE Goal == /\ cur'[u] # NoMsg <=> pc'[u] \in InHandler
                     /\ cur'[u] # NoMsg => phase'[cur'[u]] = "running" /\ to'[cur'[u]] = u
  <1>3. ASSUME cur'[u] = cur[u], pc[u] \in InHandler <=> pc'[u] \in InHandler,
               \A m \in Msg : phase[m] = "running" /\ to[m] = u =>
                                  phase'[m] = "running" /\ to'[m] = to[m]
        PROVE  Goal
    BY <1>1, <1>2, <1>3
  <1> HIDE DEF Goal
  <1>4. ASSUME NEW a \in Actor, Quiet(a) PROVE Goal
    BY <1>1, <1>3, <1>4 DEF Quiet, life
  <1>5. ASSUME NEW t \in Thread, NEW at, NEW ph, NewMessage(t, at, ph)
        PROVE  \A m \in Msg : phase[m] = "running" => phase'[m] = "running" /\ to'[m] = to[m]
    <2>1. phase[used + 1] = "new"
      BY <1>5, NewMessageNumber DEF LifeInv, LifeOf
    <2> QED
      BY <1>5, <2>1, NewMessageNumber
  <1>6. ASSUME NEW t \in Thread, NEW at, Refused(t, at) PROVE Goal
    BY <1>3, <1>5, <1>6 DEF Refused, loop
  <1>7. ASSUME NEW a \in Actor, NEW t \in Thread, NEW at, NEW op, NEW label,
               Called(a, t, at, op, label)
        PROVE  Goal
    <2>1. cur' = cur /\ NewMessage(t, at, "called") /\ pc[a] = Rest(a)
      BY <1>7 DEF Called, loop, MayUse
    <2>2. /\ pc'[a] \in Unpushed
          /\ \A b \in Actor \ {a} : pc'[b] = pc[b] /\ call'[b] = call[b]
      BY <1>7, CalledMessage
    <2>3. pc[u] \in InHandler <=> pc'[u] \in InHandler
      <3>1. CASE u = a
        <4>1. Rest(a) = "handler"
          BY <3>1, OwnerAssumption DEF Rest
        <4> QED
          BY <2>1, <2>2, <3>1, <4>1, PlaceValues
      <3>2. CASE u # a
        BY <1>1, <2>2, <3>2
      <3> QED
        BY <3>1, <3>2
    <2> QED
      BY <1>3, <1>5, <2>1, <2>3
  <1>8. ASSUME NEW a \in Actor, Push(a) PROVE Goal
    <2>1. call[a].msg \in Msg /\ phase[call[a].msg] = "called"
      BY <1>8, PushedMessage, PlaceValues DEF Push
    <2>2. /\ phase' = [phase EXCEPT ![call[a].msg] = "queued"]
          /\ cur' = cur /\ to' = to /\ pc[a] = "push" /\ pc'[a] = "wake"
          /\ \A b \in Actor \ {a} : pc'[b] = pc[b]
      BY <1>8 DEF Push, Goes, loop, TypeOK
    <2>3. \A m \in Msg : phase[m] = "running" => phase'[m] = "running"
      BY <2>1, <2>2 DEF TypeOK
    <2> QED
      BY <1>1, <1>3, <2>2, <2>3, PlaceValues
  <1>9. ASSUME NEW a \in Actor, SendRefused(a) PROVE Goal
    <2>1. call[a].msg \in Msg /\ phase[call[a].msg] = "called"
      BY <1>9, PushedMessage, PlaceValues DEF SendRefused, SendPosts
    <2>2. /\ phase' = [phase EXCEPT ![call[a].msg] = "refused"]
          /\ cur' = cur /\ to' = to /\ pc[a] = "post" /\ pc'[a] = "test"
          /\ \A b \in Actor \ {a} : pc'[b] = pc[b]
      BY <1>9 DEF SendRefused, SendPosts, Goes, loop, TypeOK
    <2>3. \A m \in Msg : phase[m] = "running" => phase'[m] = "running"
      BY <2>1, <2>2 DEF TypeOK
    <2> QED
      BY <1>1, <1>3, <2>2, <2>3, PlaceValues
  <1>10. ASSUME NEW t \in Thread, GetTakes(t) PROVE Goal
    <2>1. PICK m \in Msg, q \in Seq(Msg) : Takes(t, m, q)
      BY <1>10, GetTakesOne
    <2>2. /\ cur' = [cur EXCEPT ![t] = m] /\ to' = to /\ to[m] = t /\ phase[m] = "queued"
          /\ phase' = [phase EXCEPT ![m] = "running"]
          /\ pc' = [pc EXCEPT ![t] = "handler"]
      BY <1>10, <2>1 DEF GetTakes, Goes, Takes
    <2>3. \A x \in Msg : phase[x] = "running" => phase'[x] = "running"
      BY <2>2 DEF TypeOK
    <2>4. CASE u = t
      <3>1. cur'[u] = m /\ pc'[u] = "handler" /\ phase'[m] = "running" /\ to'[m] = u
        BY <1>1, <2>2, <2>4 DEF TypeOK
      <3>2. m # NoMsg
        BY DEF Msg, NoMsg
      <3> QED
        BY <3>1, <3>2, PlaceValues DEF Goal
    <2>5. CASE u # t
      <3>1. cur'[u] = cur[u] /\ pc'[u] = pc[u]
        BY <1>1, <2>2, <2>5 DEF TypeOK
      <3> QED
        BY <1>3, <2>2, <2>3, <3>1
    <2> QED
      BY <2>4, <2>5
  <1>11. ASSUME NEW t \in Thread, HandlerReturns(t) PROVE Goal
    <2>1. cur[t] \in Msg /\ phase[cur[t]] = "running" /\ to[cur[t]] = t
      BY <1>11, DispatchedMessage DEF HandlerReturns
    <2>2. /\ cur' = [cur EXCEPT ![t] = NoMsg] /\ to' = to
          /\ phase' = [phase EXCEPT ![cur[t]] = "done"]
          /\ pc' = [pc EXCEPT ![t] = "get"]
      BY <1>11 DEF HandlerReturns, Goes
    <2>3. CASE u = t
      <3>1. cur'[u] = NoMsg /\ pc'[u] = "get"
        BY <1>1, <2>2, <2>3 DEF TypeOK
      <3> QED
        BY <3>1, PlaceValues DEF Goal
    <2>4. CASE u # t
      <3>1. cur'[u] = cur[u] /\ pc'[u] = pc[u]
        BY <1>1, <2>2, <2>4 DEF TypeOK
      <3>2. \A x \in Msg : phase[x] = "running" /\ to[x] = u => phase'[x] = "running"
        BY <2>1, <2>2, <2>4 DEF TypeOK
      <3> QED
        BY <1>3, <2>2, <3>1, <3>2
    <2> QED
      BY <2>3, <2>4
  <1>12. ASSUME Join PROVE Goal
    <2>1. cur' = cur /\ to' = to
      BY <1>12 DEF Join, loop
    <2>2. \A x \in Msg : phase[x] = "running" => phase'[x] = "running"
      BY <1>12 DEF Join
    <2>3. pc[u] \in InHandler <=> pc'[u] \in InHandler
      BY <1>1, <1>12, JoinedCall, PlaceValues
    <2> QED
      BY <1>3, <2>1, <2>2, <2>3
  <1> QED
    BY <1>4, <1>6, <1>7, <1>8, <1>9, <1>10, <1>11, <1>12, StepsSort DEF Goal

-----------------------------------------------------------------------------
(* What the life of a message says about where it is.                      *)

\* A message that the step leaves alone.
LEMMA LifeFrame ==
    ASSUME NEW m \in Msg, LifeOf(m), phase'[m] = phase[m], to'[m] = to[m],
           m > used <=> m > used', m <= used <=> m <= used',
           phase[m] = "running" => cur'[to[m]] = cur[to[m]],
           phase[m] = "called" =>
               \A a \in Actor : call[a].msg = m /\ pc[a] \in Unpushed =>
                                    call'[a].msg = m /\ pc'[a] \in Unpushed,
           phase[m] = "queued" => (InQueue(to[m], m) => InQueue(to[m], m)')
    PROVE  LifeOf(m)'
  BY DEF LifeOf

LEMMA LifeInvStep ==
    TypeOK /\ CallInv /\ SendInv /\ CurInv /\ LifeInv /\ QueueInv /\ FifoInv /\ [Next]_vars
        => LifeInv'
  <1> SUFFICES ASSUME TypeOK, CallInv, SendInv, CurInv, LifeInv, QueueInv, FifoInv,
                      [Next]_vars, NEW x \in Msg
               PROVE  LifeOf(x)'
    BY DEF LifeInv
  <1>1. LifeOf(x) /\ used \in 0..MaxMsgs /\ x \in Nat /\ MaxMsgs \in Nat
    BY BoundAssumption DEF LifeInv, TypeOK, Msg
  <1>2. UNCHANGED <<messages_, delayed_messages_>> => \A t \in Thread : (InQueue(t, x) => InQueue(t, x)')
    BY DEF InQueue
  <1>3. phase[x] = "queued" \/ phase[x] = "running" => to[x] \in Thread
    BY <1>1 DEF LifeOf
  <1>4. ASSUME NEW a \in Actor, Quiet(a) PROVE LifeOf(x)'
    <2>1. UNCHANGED <<messages_, delayed_messages_, used, to, phase, cur>>
      BY <1>4 DEF Quiet, queue, life
    <2>2. \A b \in Actor : call[b].msg = x /\ pc[b] \in Unpushed =>
                               call'[b].msg = x /\ pc'[b] \in Unpushed
      BY <1>4 DEF Quiet
    <2> QED
      BY <1>1, <1>2, <1>3, <2>1, <2>2, LifeFrame
  <1>5. ASSUME NEW t \in Thread, NEW at, NEW ph \in {"refused", "called"},
               NewMessage(t, at, ph), UNCHANGED <<queue, loop>>,
               \A b \in Actor : call[b].msg = x /\ pc[b] \in Unpushed =>
                                    call'[b].msg = x /\ pc'[b] \in Unpushed,
               ph = "called" => \E a \in Actor : call'[a].msg = used + 1 /\ pc'[a] \in Unpushed
        PROVE  LifeOf(x)'
    <2>1. used' = used + 1 /\ UNCHANGED <<messages_, delayed_messages_, cur>>
      BY <1>5, NewMessageNumber DEF queue, loop
    <2>2. CASE x = used + 1
      <3>1. phase'[x] = ph /\ to'[x] = t
        BY <1>5, <2>2, NewMessageNumber
      <3> QED
        BY <1>1, <1>5, <2>1, <2>2, <3>1 DEF LifeOf
    <2>3. CASE x # used + 1
      <3>1. phase'[x] = phase[x] /\ to'[x] = to[x]
        BY <1>5, <2>3, NewMessageNumber
      <3>2. (x > used <=> x > used') /\ (x <= used <=> x <= used')
        BY <1>1, <2>1, <2>3
      <3> QED
        BY <1>1, <1>2, <1>3, <1>5, <2>1, <3>1, <3>2, LifeFrame
    <2> QED
      BY <2>2, <2>3
  <1>6. ASSUME NEW t \in Thread, NEW at, Refused(t, at) PROVE LifeOf(x)'
    BY <1>5, <1>6 DEF Refused
  <1>7. ASSUME NEW a \in Actor, NEW t \in Thread, NEW at, NEW op, NEW label,
               Called(a, t, at, op, label)
        PROVE  LifeOf(x)'
    <2>1. /\ pc'[a] \in Unpushed /\ call'[a].msg = used + 1
          /\ \A b \in Actor \ {a} : pc'[b] = pc[b] /\ call'[b] = call[b]
      BY <1>7, CalledMessage
    <2>2. pc[a] \notin Unpushed
      BY <1>7, PlaceValues DEF Called, MayUse, Rest
    <2>3. NewMessage(t, at, "called") /\ UNCHANGED <<queue, loop>>
      BY <1>7 DEF Called
    <2> QED
      BY <1>5, <2>1, <2>2, <2>3
  <1>8. ASSUME NEW a \in Actor, Push(a) PROVE LifeOf(x)'
    <2>1. PICK m \in Msg, t \in Thread :
              /\ m = call[a].msg /\ t = call[a].to /\ phase[m] = "called" /\ to[m] = t
              /\ \A b \in Actor \ {a} : call[b].msg # m
      BY <1>8, PushedMessage, PlaceValues DEF Push
    <2>2. /\ phase' = [phase EXCEPT ![m] = "queued"] /\ UNCHANGED <<call, cur, used, to>>
          /\ \A b \in Actor \ {a} : pc'[b] = pc[b]
      BY <1>8, <2>1 DEF Push, Goes, loop, TypeOK
    <2>3. /\ InQueue(t, m)'
          /\ \A u \in Thread : InQueue(u, x) => InQueue(u, x)'
      <3>1. CASE due[m] = Immediate
        <4>1. /\ messages_' = [messages_ EXCEPT ![t] = Append(@, m)]
              /\ delayed_messages_' = delayed_messages_
          BY <1>8, <2>1, <3>1 DEF Push
        <4>2. /\ Len(messages_[t]) \in Nat /\ DOMAIN messages_[t] = 1..Len(messages_[t])
              /\ DOMAIN Append(messages_[t], m) = 1..(Len(messages_[t]) + 1)
              /\ \A i \in 1..Len(messages_[t]) : Append(messages_[t], m)[i] = messages_[t][i]
              /\ Append(messages_[t], m)[Len(messages_[t]) + 1] = m
          BY <2>1, AppendProperties, LenProperties DEF TypeOK
        <4>3. messages_'[t] = Append(messages_[t], m)
              /\ \A u \in Thread \ {t} : messages_'[u] = messages_[u]
          BY <2>1, <4>1 DEF TypeOK
        <4>4. \A i \in DOMAIN messages_[t] :
                  i \in DOMAIN messages_'[t] /\ messages_'[t][i] = messages_[t][i]
          BY <4>2, <4>3
        <4>5. \E i \in DOMAIN messages_'[t] : messages_'[t][i] = m
          BY <4>2, <4>3
        <4> QED
          BY <4>1, <4>3, <4>4, <4>5 DEF InQueue
      <3>2. CASE due[m] # Immediate
        <4>1. /\ messages_' = messages_
              /\ delayed_messages_' =
                     [delayed_messages_ EXCEPT ![t] = @ \cup {Entry(t, m)}]
          BY <1>8, <2>1, <3>2 DEF Push
        <4>2. /\ Entry(t, m) \in delayed_messages_'[t] /\ Entry(t, m).msg = m
              /\ \A u \in Thread : delayed_messages_[u] \subseteq delayed_messages_'[u]
          BY <2>1, <4>1 DEF TypeOK, Entry
        <4> QED
          BY <4>1, <4>2 DEF InQueue
      <3> QED
        BY <3>1, <3>2
    <2>4. CASE x = m
      <3>1. phase'[x] = "queued" /\ to'[x] = t
        BY <2>1, <2>2, <2>4 DEF TypeOK
      <3>2. ~(x > used)
        BY <1>1, <2>1, <2>4 DEF LifeOf
      <3> QED
        BY <1>1, <2>1, <2>2, <2>3, <2>4, <3>1, <3>2 DEF LifeOf
    <2>5. CASE x # m
      <3>1. phase'[x] = phase[x]
        BY <2>2, <2>5 DEF TypeOK
      <3>2. \A b \in Actor : call[b].msg = x /\ pc[b] \in Unpushed =>
                                 call'[b].msg = x /\ pc'[b] \in Unpushed
        BY <2>1, <2>2, <2>5
      <3> QED
        BY <1>1, <1>3, <2>2, <2>3, <3>1, <3>2, LifeFrame
    <2> QED
      BY <2>4, <2>5
  <1>9. ASSUME NEW a \in Actor, SendRefused(a) PROVE LifeOf(x)'
    <2> DEFINE m == call[a].msg
    <2>1. m \in Msg /\ phase[m] = "called"
      BY <1>9, PushedMessage, PlaceValues DEF SendRefused, SendPosts
    <2>2. /\ phase' = [phase EXCEPT ![m] = "refused"]
          /\ UNCHANGED <<messages_, delayed_messages_, cur, used, to>>
          /\ Completes(a) /\ \A b \in Actor \ {a} : pc'[b] = pc[b]
      BY <1>9 DEF SendRefused, SendPosts, Goes, queue, loop, TypeOK
    <2>3. \A b \in Actor \ {a} : call'[b] = call[b]
      BY <2>2, CompletedCall
    <2> HIDE DEF m
    <2>4. CASE x = m
      <3>1. phase'[x] = "refused"
        BY <2>2, <2>4 DEF TypeOK
      <3> QED
        BY <1>1, <2>1, <2>2, <2>4, <3>1 DEF LifeOf
    <2>5. CASE x # m
      <3>1. phase'[x] = phase[x]
        BY <2>2, <2>5 DEF TypeOK
      <3>2. \A b \in Actor : call[b].msg = x /\ pc[b] \in Unpushed =>
                                 call'[b].msg = x /\ pc'[b] \in Unpushed
        BY <2>2, <2>3, <2>5 DEF m
      <3> QED
        BY <1>1, <1>2, <1>3, <2>2, <3>1, <3>2, LifeFrame
    <2> QED
      BY <2>4, <2>5
  <1>10. ASSUME NEW t \in Thread, GetTakes(t) PROVE LifeOf(x)'
    <2>1. PICK m \in Msg, q \in Seq(Msg) : Takes(t, m, q)
      BY <1>10, GetTakesOne
    <2>2. /\ cur' = [cur EXCEPT ![t] = m] /\ to[m] = t /\ phase[m] = "queued"
          /\ phase' = [phase EXCEPT ![m] = "running"]
          /\ messages_' = [messages_ EXCEPT ![t] = q]
      BY <2>1 DEF Takes
    <2>3. /\ UNCHANGED <<used, to, call>> /\ pc[t] = "get" /\ t \in Actor
          /\ delayed_messages_' = [delayed_messages_ EXCEPT ![t] = @ \ Triggered(t)]
          /\ \A b \in Actor \ {t} : pc'[b] = pc[b]
      BY <1>10 DEF GetTakes, Goes, TypeOK, Actor
    <2>4. CASE x = m
      <3>1. phase'[x] = "running" /\ cur'[t] = m
        BY <2>2, <2>4 DEF TypeOK
      <3> QED
        BY <1>1, <2>2, <2>3, <2>4, <3>1 DEF LifeOf
    <2>5. CASE x # m
      <3>1. phase'[x] = phase[x]
        BY <2>2, <2>5 DEF TypeOK
      <3>2. ASSUME phase[x] = "running" PROVE cur'[to[x]] = cur[to[x]]
        <4>1. cur[to[x]] = x /\ x # NoMsg /\ to[x] \in Thread
          BY <1>1, <1>3, <3>2 DEF LifeOf, Msg, NoMsg
        <4>2. to[x] # t
          BY <2>3, <4>1, PlaceValues DEF CurInv
        <4> QED
          BY <2>2, <4>1, <4>2 DEF TypeOK
      <3>3. \A b \in Actor : call[b].msg = x /\ pc[b] \in Unpushed =>
                                 call'[b].msg = x /\ pc'[b] \in Unpushed
        BY <2>3, PlaceValues
      <3>4. ASSUME phase[x] = "queued", InQueue(to[x], x) PROVE InQueue(to[x], x)'
        <4>1. CASE to[x] = t
          <5>1. messages_'[t] = q /\ delayed_messages_'[t] = delayed_messages_[t] \ Triggered(t)
            BY <2>2, <2>3 DEF TypeOK
          <5>2. \/ \E i \in DOMAIN q : q[i] = x
                \/ \E d \in delayed_messages_[t] \ Triggered(t) : d.msg = x
            BY <2>1, <2>5, <3>4, <4>1 DEF Takes
          <5>3. InQueue(t, x)'
            BY <5>1, <5>2 DEF InQueue
          <5> QED
            BY <2>3, <4>1, <5>3
        <4>2. CASE to[x] # t
          <5>1. /\ messages_'[to[x]] = messages_[to[x]]
                /\ delayed_messages_'[to[x]] = delayed_messages_[to[x]]
            BY <1>3, <2>2, <2>3, <3>4, <4>2 DEF TypeOK
          <5> QED
            BY <2>3, <3>4, <5>1 DEF InQueue
        <4> QED
          BY <4>1, <4>2
      <3>5. (InQueue(to[x], x))' <=> InQueue(to[x], x)'
        OBVIOUS
      <3> QED
        BY <1>1, <2>3, <3>1, <3>2, <3>3, <3>4, LifeFrame
    <2> QED
      BY <2>4, <2>5
  <1>11. ASSUME NEW t \in Thread, HandlerReturns(t) PROVE LifeOf(x)'
    <2>1. cur[t] \in Msg /\ phase[cur[t]] = "running" /\ to[cur[t]] = t
      BY <1>11, DispatchedMessage DEF HandlerReturns
    <2>2. /\ cur' = [cur EXCEPT ![t] = NoMsg] /\ phase' = [phase EXCEPT ![cur[t]] = "done"]
          /\ pc[t] = "handler" /\ t \in Actor /\ \A b \in Actor \ {t} : pc'[b] = pc[b]
          /\ UNCHANGED <<messages_, delayed_messages_, used, to>>
      BY <1>11 DEF HandlerReturns, Goes, queue, TypeOK, Actor
    <2>3. \A b \in Actor : call'[b].msg = call[b].msg
      BY <1>11, CompletedCall DEF HandlerReturns
    <2>4. CASE x = cur[t]
      <3>1. phase'[x] = "done"
        BY <2>2, <2>4 DEF TypeOK
      <3> QED
        BY <1>1, <2>1, <2>2, <2>4, <3>1 DEF LifeOf
    <2>5. CASE x # cur[t]
      <3>1. phase'[x] = phase[x]
        BY <2>2, <2>5 DEF TypeOK
      <3>2. ASSUME phase[x] = "running" PROVE cur'[to[x]] = cur[to[x]]
        <4>1. cur[to[x]] = x /\ to[x] \in Thread
          BY <1>1, <1>3, <3>2 DEF LifeOf
        <4> QED
          BY <2>2, <2>5, <4>1 DEF TypeOK
      <3>3. \A b \in Actor : call[b].msg = x /\ pc[b] \in Unpushed =>
                                 call'[b].msg = x /\ pc'[b] \in Unpushed
        BY <2>2, <2>3, PlaceValues
      <3> QED
        BY <1>1, <1>2, <1>3, <2>2, <3>1, <3>2, <3>3, LifeFrame
    <2> QED
      BY <2>4, <2>5
  <1>12. ASSUME Join PROVE LifeOf(x)'
    <2> DEFINE t == call[Owner].to
    <2>1. \A b \in Actor : call[b].msg = x /\ pc[b] \in Unpushed =>
                               call'[b].msg = x /\ pc'[b] \in Unpushed
      BY <1>12, JoinedCall, PlaceValues
    <2>2. UNCHANGED <<cur, used, to>>
      BY <1>12 DEF Join, loop
    <2>3. CASE call[Owner].op = "stop"
      <3>1. UNCHANGED <<messages_, delayed_messages_, phase>>
        BY <1>12, <2>3 DEF Join, queue
      <3> QED
        BY <1>1, <1>2, <1>3, <2>1, <2>2, <3>1, LifeFrame
    <2>4. CASE call[Owner].op # "stop"
      <3>1. /\ phase'[x] = IF to[x] = t /\ phase[x] = "queued" THEN "dropped" ELSE phase[x]
            /\ messages_' = [messages_ EXCEPT ![t] = <<>>]
            /\ delayed_messages_' = [delayed_messages_ EXCEPT ![t] = {}]
        BY <1>12, <2>4 DEF Join
      <3>2. CASE to[x] = t /\ phase[x] = "queued"
        <4>1. phase'[x] = "dropped" /\ phase[x] # "new"
          BY <3>1, <3>2
        <4> QED
          BY <1>1, <2>2, <4>1 DEF LifeOf
      <3>3. CASE ~(to[x] = t /\ phase[x] = "queued")
        <4>1. phase'[x] = phase[x]
          BY <3>1, <3>3
        <4>2. ASSUME phase[x] = "queued", InQueue(to[x], x) PROVE InQueue(to[x], x)'
          <5>1. /\ messages_'[to[x]] = messages_[to[x]]
                /\ delayed_messages_'[to[x]] = delayed_messages_[to[x]]
            BY <1>3, <3>1, <3>3, <4>2 DEF TypeOK
          <5> QED
            BY <2>2, <4>2, <5>1 DEF InQueue
        <4> QED
          BY <1>1, <2>1, <2>2, <4>1, <4>2, LifeFrame
      <3> QED
        BY <3>2, <3>3
    <2> QED
      BY <2>3, <2>4
  <1> QED
    BY <1>4, <1>6, <1>7, <1>8, <1>9, <1>10, <1>11, <1>12, StepsSort

-----------------------------------------------------------------------------
(* The queues.                                                             *)

\* A message in a queue is not one of those that other steps deal with.
LEMMA QueuedMessage ==
    ASSUME TypeOK, QueueInv, NEW t \in Thread
    PROVE  /\ \A i \in DOMAIN messages_[t] :
                  /\ messages_[t][i] \in Msg /\ phase[messages_[t][i]] = "queued"
                  /\ to[messages_[t][i]] = t
           /\ \A d \in delayed_messages_[t] :
                  /\ d \in DelayedMessage /\ d.msg \in Msg /\ phase[d.msg] = "queued"
                  /\ to[d.msg] = t
  BY DEF TypeOK, QueueInv, QueueOf, DelayedMessage

\* The queue of t is left alone.
LEMMA QueueFrame ==
    ASSUME TypeOK, QueueInv, NEW t \in Thread,
           messages_'[t] = messages_[t], delayed_messages_'[t] = delayed_messages_[t],
           \A m \in Msg : phase[m] = "queued" /\ to[m] = t =>
                              phase'[m] = "queued" /\ to'[m] = t /\ due'[m] = due[m],
           now' \in {now, now + 1}, msCurrent'[t] \in {msCurrent[t], 0, now}
    PROVE  QueueOf(t)'
  <1>1. /\ now \in Nat /\ now <= now' /\ now' \in Nat /\ msCurrent[t] \in Nat
        /\ \A m \in Msg : due[m] \in Int
    BY BoundAssumption DEF TypeOK, Immediate
  <1>2. QueueOf(t)
    BY DEF QueueInv
  <1>3. msCurrent'[t] <= now'
    BY <1>1, <1>2 DEF QueueOf
  <1>4. \A i \in DOMAIN messages_[t] : due[messages_[t][i]] <= now'
    BY <1>1, <1>2, QueuedMessage DEF QueueOf
  <1> QED
    BY <1>2, <1>3, <1>4, QueuedMessage DEF QueueOf

LEMMA QueueInvStep ==
    TypeOK /\ CallInv /\ SendInv /\ CurInv /\ LifeInv /\ QueueInv /\ FifoInv /\ [Next]_vars
        => QueueInv'
  <1> SUFFICES ASSUME TypeOK, CallInv, SendInv, CurInv, LifeInv, QueueInv, FifoInv,
                      [Next]_vars, NEW u \in Thread
               PROVE  QueueOf(u)'
    BY DEF QueueInv
  <1>1. ASSUME NEW a \in Actor, Quiet(a) PROVE QueueOf(u)'
    BY <1>1, QueueFrame DEF Quiet, queue, life
  <1>2. ASSUME NEW t \in Thread, NEW at, NEW ph, NewMessage(t, at, ph),
               UNCHANGED <<now, queue, loop>>
        PROVE  QueueOf(u)'
    <2>1. phase[used + 1] = "new"
      BY <1>2, NewMessageNumber DEF LifeInv, LifeOf
    <2>2. \A m \in Msg : phase[m] = "queued" =>
              phase'[m] = "queued" /\ to'[m] = to[m] /\ due'[m] = due[m]
      BY <1>2, <2>1, NewMessageNumber
    <2> QED
      BY <1>2, <2>2, QueueFrame DEF queue, loop
  <1>3. ASSUME NEW a \in Actor, Push(a) PROVE QueueOf(u)'
    <2>1. PICK m \in Msg, t \in Thread :
              m = call[a].msg /\ t = call[a].to /\ phase[m] = "called" /\ to[m] = t
      BY <1>3, PushedMessage, PlaceValues DEF Push
    <2>2. /\ phase' = [phase EXCEPT ![m] = "queued"] /\ UNCHANGED <<now, msCurrent, to, due>>
      BY <1>3, <2>1 DEF Push, loop
    <2>3. /\ phase'[m] = "queued" /\ \A x \in Msg : phase[x] = "queued" => phase'[x] = "queued"
      BY <2>2 DEF TypeOK
    <2>4. CASE u # t
      <3>1. messages_'[u] = messages_[u] /\ delayed_messages_'[u] = delayed_messages_[u]
        BY <1>3, <2>1, <2>4 DEF Push, TypeOK
      <3> QED
        BY <2>2, <2>3, <3>1, QueueFrame
    <2>5. CASE u = t
      <3> DEFINE p == messages_[t]
                 D == delayed_messages_[t]
      <3>1. QueueOf(t) /\ p \in Seq(Msg) /\ now \in Nat
        BY BoundAssumption DEF QueueInv, TypeOK
      <3>2. /\ \A i \in DOMAIN p : p[i] \in Msg /\ phase[p[i]] = "queued" /\ p[i] # m
            /\ \A d \in D : d.msg \in Msg /\ phase[d.msg] = "queued" /\ d.msg # m
        BY <2>1, QueuedMessage
      <3>3. CASE due[m] = Immediate
        <4>1. messages_'[t] = Append(p, m) /\ delayed_messages_'[t] = D
          BY <1>3, <2>1, <3>3 DEF Push, TypeOK
        <4>2. /\ Len(p) \in Nat /\ DOMAIN p = 1..Len(p)
              /\ DOMAIN Append(p, m) = 1..(Len(p) + 1)
              /\ \A i \in 1..Len(p) : Append(p, m)[i] = p[i]
              /\ Append(p, m)[Len(p) + 1] = m
          BY <3>1, AppendProperties, LenProperties
        <4>3. \A i \in DOMAIN Append(p, m) :
                  \/ i = Len(p) + 1 /\ Append(p, m)[i] = m
                  \/ i \in DOMAIN p /\ Append(p, m)[i] = p[i]
          BY <4>2
        <4>4. due[m] <= now
          BY <3>1, <3>3 DEF Immediate
        <4>5. \A i \in DOMAIN Append(p, m) :
                  /\ phase'[Append(p, m)[i]] = "queued" /\ to[Append(p, m)[i]] = t
                  /\ due[Append(p, m)[i]] <= now
                  /\ \A d \in D : Append(p, m)[i] # d.msg
          BY <2>1, <2>3, <3>1, <3>2, <4>3, <4>4 DEF QueueOf
        <4>6. \A i, j \in DOMAIN Append(p, m) : Append(p, m)[i] = Append(p, m)[j] => i = j
          BY <3>1, <3>2, <4>3 DEF QueueOf
        <4>7. QueueOf(t)'
          BY <2>2, <2>3, <3>1, <3>2, <4>1, <4>5, <4>6 DEF QueueOf
        <4> QED
          BY <2>5, <4>7
      <3>4. CASE due[m] # Immediate
        <4> DEFINE e == Entry(t, m)
        <4>1. messages_'[t] = p /\ delayed_messages_'[t] = D \cup {e}
          BY <1>3, <2>1, <3>4 DEF Push, TypeOK
        <4>2. e.msg = m /\ e.run = due[m]
          BY DEF Entry
        <4> HIDE DEF e
        <4>3. IsFiniteSet(D \cup {e})
          BY <3>1, FS_AddElement DEF QueueOf
        <4>4. \A d \in D \cup {e} :
                  /\ phase'[d.msg] = "queued" /\ to[d.msg] = t /\ due[d.msg] = d.run
                  /\ \A i \in DOMAIN p : p[i] # d.msg
          BY <2>1, <2>3, <3>1, <3>2, <4>2 DEF QueueOf
        <4>5. \A d, f \in D \cup {e} : d.msg = f.msg => d = f
          BY <3>1, <3>2, <4>2 DEF QueueOf
        <4>6. QueueOf(t)'
          BY <2>2, <2>3, <3>1, <3>2, <4>1, <4>3, <4>4, <4>5 DEF QueueOf
        <4> QED
          BY <2>5, <4>6
      <3> QED
        BY <3>3, <3>4
    <2> QED
      BY <2>4, <2>5
  <1>4. ASSUME NEW a \in Actor, SendRefused(a) PROVE QueueOf(u)'
    <2>1. call[a].msg \in Msg /\ phase[call[a].msg] = "called"
      BY <1>4, PushedMessage, PlaceValues DEF SendRefused, SendPosts
    <2>2. /\ phase' = [phase EXCEPT ![call[a].msg] = "refused"]
          /\ UNCHANGED <<now, messages_, delayed_messages_, msCurrent, to, due>>
      BY <1>4 DEF SendRefused, SendPosts, queue, loop
    <2>3. \A x \in Msg : phase[x] = "queued" => phase'[x] = "queued"
      BY <2>1, <2>2 DEF TypeOK
    <2> QED
      BY <2>2, <2>3, QueueFrame
  <1>5. ASSUME NEW t \in Thread, GetTakes(t) PROVE QueueOf(u)'
    <2>1. PICK m \in Msg, q \in Seq(Msg) : Takes(t, m, q)
      BY <1>5, GetTakesOne
    <2>2. /\ phase' = [phase EXCEPT ![m] = "running"] /\ to[m] = t
          /\ messages_' = [messages_ EXCEPT ![t] = q]
      BY <2>1 DEF Takes
    <2>3. /\ UNCHANGED <<now, to, due>>
          /\ delayed_messages_' = [delayed_messages_ EXCEPT ![t] = @ \ Triggered(t)]
          /\ msCurrent' = [msCurrent EXCEPT ![t] = 0]
      BY <1>5 DEF GetTakes
    <2>4. \A x \in Msg : x # m => phase'[x] = phase[x]
      BY <2>2 DEF TypeOK
    <2>5. CASE u # t
      <3>1. /\ messages_'[u] = messages_[u] /\ delayed_messages_'[u] = delayed_messages_[u]
            /\ msCurrent'[u] = msCurrent[u]
        BY <2>2, <2>3, <2>5 DEF TypeOK
      <3>2. \A x \in Msg : phase[x] = "queued" /\ to[x] = u => phase'[x] = "queued"
        BY <2>2, <2>4, <2>5
      <3> QED
        BY <2>3, <3>1, <3>2, QueueFrame
    <2>6. CASE u = t
      <3> DEFINE D == delayed_messages_[t] \ Triggered(t)
      <3>1. messages_'[t] = q /\ delayed_messages_'[t] = D /\ msCurrent'[t] = 0
        BY <2>2, <2>3 DEF TypeOK
      <3>2. QueueOf(t) /\ now \in Nat /\ 0 <= now
        BY BoundAssumption DEF QueueInv, TypeOK
      <3>3. IsFiniteSet(D)
        BY <3>2, FS_Subset DEF QueueOf
      <3>4. \A i \in DOMAIN q : q[i] \in Msg /\ phase[q[i]] = "queued" /\ to[q[i]] = t
        BY <2>1, QueuedMessage DEF Takes, InQueue
      <3>5. \A i \in DOMAIN q :
                /\ phase'[q[i]] = "queued" /\ to[q[i]] = t /\ due[q[i]] <= now
                /\ \A d \in D : q[i] # d.msg
        BY <2>1, <2>4, <3>4 DEF Takes
      <3>6. \A d \in D : /\ phase'[d.msg] = "queued" /\ to[d.msg] = t /\ due[d.msg] = d.run
        BY <2>1, <2>4, <3>2, QueuedMessage DEF Takes, QueueOf
      <3>7. /\ \A i, j \in DOMAIN q : q[i] = q[j] => i = j
            /\ \A d, e \in D : d.msg = e.msg => d = e
        BY <2>1, <3>2 DEF Takes, QueueOf
      <3> HIDE DEF D
      <3>8. QueueOf(t)'
        BY <2>3, <3>1, <3>2, <3>3, <3>5, <3>6, <3>7 DEF QueueOf
      <3> QED
        BY <2>6, <3>8
    <2> QED
      BY <2>5, <2>6
  <1>6. ASSUME NEW t \in Thread, HandlerReturns(t) PROVE QueueOf(u)'
    <2>1. cur[t] \in Msg /\ phase[cur[t]] = "running"
      BY <1>6, DispatchedMessage DEF HandlerReturns
    <2>2. /\ phase' = [phase EXCEPT ![cur[t]] = "done"]
          /\ UNCHANGED <<now, messages_, delayed_messages_, to, due>>
          /\ msCurrent' = [msCurrent EXCEPT ![t] = now]
      BY <1>6 DEF HandlerReturns, queue
    <2>3. /\ \A x \in Msg : phase[x] = "queued" => phase'[x] = "queued"
          /\ msCurrent'[u] \in {msCurrent[u], now}
      BY <2>1, <2>2 DEF TypeOK
    <2> QED
      BY <2>2, <2>3, QueueFrame
  <1>7. ASSUME Join PROVE QueueOf(u)'
    <2>1. UNCHANGED <<now, msCurrent, to, due>>
      BY <1>7 DEF Join, loop
    <2>2. CASE call[Owner].op = "stop"
      BY <1>7, <2>1, <2>2, QueueFrame DEF Join, queue
    <2>3. CASE call[Owner].op # "stop"
      <3>1. PICK t \in Thread : t = call[Owner].to
        BY <1>7, JoinedCall
      <3>2. /\ \A x \in Msg : to[x] # t => phase'[x] = phase[x]
            /\ messages_' = [messages_ EXCEPT ![t] = <<>>]
            /\ delayed_messages_' = [delayed_messages_ EXCEPT ![t] = {}]
        BY <1>7, <2>3, <3>1 DEF Join
      <3>3. CASE u # t
        <4>1. messages_'[u] = messages_[u] /\ delayed_messages_'[u] = delayed_messages_[u]
          BY <3>2, <3>3 DEF TypeOK
        <4> QED
          BY <2>1, <3>2, <3>3, <4>1, QueueFrame
      <3>4. CASE u = t
        <4>1. messages_'[u] = <<>> /\ delayed_messages_'[u] = {}
          BY <3>2, <3>4 DEF TypeOK
        <4>2. IsFiniteSet({}) /\ msCurrent[u] <= now
          BY FS_EmptySet DEF QueueInv, QueueOf
        <4> QED
          BY <2>1, <4>1, <4>2 DEF QueueOf
      <3> QED
        BY <3>3, <3>4
    <2> QED
      BY <2>2, <2>3
  <1> QED
    BY <1>1, <1>2, <1>3, <1>4, <1>5, <1>6, <1>7, StepsSort DEF Refused, Called

-----------------------------------------------------------------------------
(* The order of posting.                                                   *)

\* Only the members of q matter.
LEMMA SelectsSame ==
    ASSUME NEW q, NEW I, NEW J, NEW f, Selects(q, I, f),
           \A i \in DOMAIN q : q[i] \in I <=> q[i] \in J
    PROVE  Selects(q, J, f)
  BY DEF Selects

LEMMA FifoInvStep ==
    TypeOK /\ CallInv /\ SendInv /\ CurInv /\ LifeInv /\ QueueInv /\ FifoInv /\ [Next]_vars
        => FifoInv'
  <1> SUFFICES ASSUME TypeOK, CallInv, SendInv, CurInv, LifeInv, QueueInv, FifoInv,
                      [Next]_vars, NEW u \in Thread
               PROVE  Selects(messages_[u], Undelayed, fifo[u])'
    BY DEF FifoInv
  <1>1. Selects(messages_[u], Undelayed, fifo[u])
    BY DEF FifoInv
  <1>2. ASSUME messages_'[u] = messages_[u], fifo'[u] = fifo[u], due' = due
        PROVE  Selects(messages_[u], Undelayed, fifo[u])'
    BY <1>1, <1>2 DEF Undelayed
  <1>3. ASSUME NEW a \in Actor, Quiet(a) PROVE Selects(messages_[u], Undelayed, fifo[u])'
    BY <1>2, <1>3 DEF Quiet, queue, life
  <1>4. ASSUME NEW t \in Thread, NEW at, NEW ph, NewMessage(t, at, ph), UNCHANGED queue
        PROVE  Selects(messages_[u], Undelayed, fifo[u])'
    <2>1. fifo' = fifo
      BY <1>4 DEF NewMessage
    <2>2. phase[used + 1] = "new"
      BY <1>4, NewMessageNumber DEF LifeInv, LifeOf
    <2>3. \A m \in Msg : phase[m] = "queued" => due'[m] = due[m]
      BY <1>4, <2>2, NewMessageNumber
    <2>4. \A i \in DOMAIN messages_[u] :
              messages_[u][i] \in Undelayed <=> messages_[u][i] \in Undelayed'
      BY <2>3, QueuedMessage DEF Undelayed
    <2>5. Selects(messages_[u], Undelayed', fifo[u])
      BY <1>1, <2>4, SelectsSame
    <2> QED
      BY <1>4, <2>1, <2>5 DEF queue
  <1>5. ASSUME NEW a \in Actor, Push(a) PROVE Selects(messages_[u], Undelayed, fifo[u])'
    <2>1. PICK m \in Msg, t \in Thread :
              m = call[a].msg /\ t = call[a].to /\ phase[m] = "called" /\ to[m] = t
      BY <1>5, PushedMessage, PlaceValues DEF Push
    <2>2. due' = due /\ Undelayed' = Undelayed
      BY <1>5 DEF Push, Undelayed
    <2>3. CASE due[m] = Immediate /\ u = t
      <3>1. messages_'[u] = Append(messages_[u], m) /\ fifo'[u] = Append(fifo[u], m)
        BY <1>5, <2>1, <2>3 DEF Push, TypeOK
      <3>2. m \in Undelayed /\ \A i \in DOMAIN messages_[u] : messages_[u][i] # m
        BY <2>1, <2>3, QueuedMessage DEF Undelayed
      <3>3. Selects(Append(messages_[u], m), Undelayed, Append(fifo[u], m))
        BY <1>1, <3>2, SelectsAppend DEF TypeOK
      <3> QED
        BY <2>2, <3>1, <3>3
    <2>4. CASE due[m] # Immediate \/ u # t
      <3>1. messages_'[u] = messages_[u] /\ fifo'[u] = fifo[u]
        BY <1>5, <2>1, <2>4 DEF Push, TypeOK
      <3> QED
        BY <1>2, <2>2, <3>1
    <2> QED
      BY <2>3, <2>4
  <1>6. ASSUME NEW a \in Actor, SendRefused(a) PROVE Selects(messages_[u], Undelayed, fifo[u])'
    BY <1>2, <1>6 DEF SendRefused, SendPosts, queue
  <1>7. ASSUME NEW t \in Thread, GetTakes(t) PROVE Selects(messages_[u], Undelayed, fifo[u])'
    <2>1. PICK m \in Msg, q \in Seq(Msg) : Takes(t, m, q)
      BY <1>7, GetTakesOne
    <2>2. due' = due /\ Undelayed' = Undelayed
      BY <1>7 DEF GetTakes, Undelayed
    <2>3. CASE u # t
      BY <1>2, <2>1, <2>2, <2>3 DEF Takes, TypeOK
    <2>4. CASE u = t
      <3>1. messages_'[t] = q /\ Selects(q, Undelayed, fifo'[t])
        BY <2>1 DEF Takes, TypeOK
      <3> QED
        BY <2>2, <2>4, <3>1
    <2> QED
      BY <2>3, <2>4
  <1>8. ASSUME NEW t \in Thread, HandlerReturns(t)
        PROVE  Selects(messages_[u], Undelayed, fifo[u])'
    BY <1>2, <1>8 DEF HandlerReturns, queue
  <1>9. ASSUME Join PROVE Selects(messages_[u], Undelayed, fifo[u])'
    <2>1. due' = due
      BY <1>9 DEF Join
    <2>2. CASE call[Owner].op = "stop" \/ u # call[Owner].to
      <3>1. messages_'[u] = messages_[u] /\ fifo'[u] = fifo[u]
        BY <1>9, <2>2 DEF Join, queue, TypeOK
      <3> QED
        BY <1>2, <2>1, <3>1
    <2>3. CASE call[Owner].op # "stop" /\ u = call[Owner].to
      <3>1. messages_'[u] = <<>> /\ fifo'[u] = <<>>
        BY <1>9, <2>3 DEF Join, TypeOK
      <3> QED
        BY <3>1, SelectsNothing
    <2> QED
      BY <2>2, <2>3
  <1> QED
    BY <1>3, <1>4, <1>5, <1>6, <1>7, <1>8, <1>9, StepsSort DEF Refused, Called

-----------------------------------------------------------------------------
(* Deleting a thread.                                                      *)

\* The thread that a call is about, before and after a step other than Join.
LEMMA CallTargets ==
    ASSUME TypeOK, CallInv, [Next]_vars, ~Join, NEW b \in Actor
    PROVE  /\ \/ call'[b].to \in {call[b].to, Owner}
              \/ \E t \in Thread : call'[b].to = t /\ MayUse(b, t)
           /\ call'[b].op = "delete" =>
                  \/ call[b].op = "delete" /\ call'[b].to = call[b].to
                  \/ \E t \in Thread : call'[b].to = t /\ Quit(b, "delete", t)
           /\ pc'[b] = "deleted" => pc[b] = "deleted"
  <1> DEFINE Goal ==
           /\ \/ call'[b].to \in {call[b].to, Owner}
              \/ \E t \in Thread : call'[b].to = t /\ MayUse(b, t)
           /\ call'[b].op = "delete" =>
                  \/ call[b].op = "delete" /\ call'[b].to = call[b].to
                  \/ \E t \in Thread : call'[b].to = t /\ Quit(b, "delete", t)
           /\ pc'[b] = "deleted" => pc[b] = "deleted"
  <1>1. ASSUME call'[b].to = call[b].to, call'[b].op = call[b].op,
               pc'[b] = "deleted" => pc[b] = "deleted"
        PROVE  Goal
    BY <1>1
  <1>2. ASSUME NEW a \in Actor, Returns(a) PROVE Goal
    <2>1. CASE b = a
      <3>1. pc'[b] = Rest(b) /\ call'[b] = NoCall
        BY <1>2, <2>1 DEF Returns, Goes, TypeOK
      <3>2. call'[b].to = Owner /\ call'[b].op = "none" /\ pc'[b] # "deleted"
        BY <3>1 DEF NoCall, Rest
      <3> QED
        BY <3>2
    <2>2. CASE b # a
      BY <1>1, <1>2, <2>2 DEF Returns, Goes, TypeOK
    <2> QED
      BY <2>1, <2>2
  <1>3. ASSUME NEW a \in Actor, NEW label, label # "deleted", Goes(a, label),
               call' = call \/ (\E c \in Actor : Completes(c))
        PROVE  Goal
    <2>1. call'[b].to = call[b].to /\ call'[b].op = call[b].op
      BY <1>3, CompletedCall
    <2>2. pc'[b] = "deleted" => pc[b] = "deleted"
      BY <1>3 DEF Goes, TypeOK
    <2> QED
      BY <1>1, <2>1, <2>2
  <1>4. ASSUME NEW a \in Actor, NEW t \in Thread, NEW op, NEW m, NEW label,
               Enter(a, op, t, m, label), MayUse(a, t), label # "deleted",
               op = "delete" => Quit(a, "delete", t)
        PROVE  Goal
    <2>1. CASE b = a
      <3>1. pc'[b] = label
            /\ call'[b] = [NoCall EXCEPT !.op = op, !.to = t, !.msg = m]
        BY <1>4, <2>1 DEF Enter, Goes, TypeOK
      <3>2. call'[b].to = t /\ call'[b].op = op
        BY <3>1 DEF NoCall
      <3> QED
        BY <1>4, <2>1, <3>1, <3>2
    <2>2. CASE b # a
      BY <1>1, <1>4, <2>2 DEF Enter, Goes, TypeOK
    <2> QED
      BY <2>1, <2>2
  <1>5. ASSUME UNCHANGED <<pc, call>> PROVE Goal
    BY <1>1, <1>5
  <1> HIDE DEF Goal
  <1>6. ASSUME NEW a \in Actor, NEW t \in Thread, Calls(a, t) PROVE Goal
    <2>1. ASSUME NEW at, Post(a, t, at) PROVE Goal
      BY <1>4, <1>5, <2>1 DEF Post
    <2>2. CASE Send(a, t)
      BY <1>4, <1>5, <2>2 DEF Send
    <2>3. ASSUME NEW op \in {"quit", "stop", "delete"}, Quit(a, op, t) PROVE Goal
      <3>1. Enter(a, op, t, NoMsg, "quit") /\ MayUse(a, t)
        BY <2>3 DEF Quit
      <3> QED
        BY <1>4, <2>3, <3>1
    <2>4. ASSUME NEW ms \in Delay, PostDelayedAborts(a, t, ms) PROVE Goal
      BY <1>5, <2>4 DEF PostDelayedAborts
    <2> QED
      BY <1>6, <2>1, <2>2, <2>3, <2>4 DEF Calls, PostDelayed
  <1>7. ASSUME NEW a \in Actor, CallContinues(a) PROVE Goal
    BY <1>2, <1>3, <1>7 DEF CallContinues, Push, WakeUpSocketServer, SendPosts, SendTests,
       QuitWakes
  <1>8. ASSUME NEW t \in Thread, ThreadStep(t) PROVE Goal
    <2>1. t \in Actor
      BY DEF Actor
    <2>2. CASE SendWaits(t)
      <3>1. /\ pc' = [pc EXCEPT ![t] = "test"]
            /\ call' = [call EXCEPT ![t].waited = TRUE]
        BY <2>2 DEF SendWaits, Goes
      <3>2. call'[b].to = call[b].to /\ call'[b].op = call[b].op
        BY <3>1 DEF TypeOK, CallOnThread
      <3>3. pc'[b] = "deleted" => pc[b] = "deleted"
        BY <3>1 DEF TypeOK
      <3> QED
        BY <1>1, <3>2, <3>3
    <2>3. CASE SendRewakes(t) \/ GetTakes(t) \/ GetFindsNone(t)
      BY <1>2, <1>3, <2>1, <2>3 DEF SendRewakes, GetTakes, GetFindsNone
    <2>4. CASE GetQuitsOrWaits(t) \/ WaitReturns(t) \/ HandlerReturns(t)
      BY <1>3, <2>1, <2>4 DEF GetQuitsOrWaits, WaitReturns, HandlerReturns
    <2> QED
      BY <1>8, <2>2, <2>3, <2>4 DEF ThreadStep
  <1>9. ASSUME SendWaitsForDone PROVE Goal
    BY <1>2, <1>9 DEF SendWaitsForDone, Actor
  <1>10. ASSUME Tick \/ UNCHANGED vars PROVE Goal
    BY <1>5, <1>10 DEF Tick, vars
  <1> QED
    BY <1>6, <1>7, <1>8, <1>9, <1>10 DEF Next, Goal

LEMMA DeleteInvStep == TypeOK /\ CallInv /\ DeleteInv /\ [Next]_vars => DeleteInv'
  <1> SUFFICES ASSUME TypeOK, CallInv, DeleteInv, [Next]_vars, NEW t \in Thread
               PROVE  /\ pc'[t] = "deleted" => \A a \in Actor : call'[a].to # t
                      /\ call'[Owner].op = "delete" /\ call'[Owner].to = t =>
                             \A a \in Actor \ {t, Owner} : call'[a].to # t
    BY DEF DeleteInv
  <1>1. t \in Actor /\ Owner \in Actor /\ t # Owner
    BY OwnerAssumption DEF Actor
  <1>2. CASE Join
    <2>1. PICK u \in Thread : u = call[Owner].to
      BY <1>2, JoinedCall
    <2>2. /\ call'[Owner] = NoCall /\ call[u] = NoCall
          /\ \A b \in Actor \ {Owner} : call'[b] = call[b]
          /\ \A b \in Actor \ {Owner, u} : pc'[b] = pc[b]
          /\ pc'[u] = "deleted" => call[Owner].op = "delete"
      BY <1>2, <2>1, JoinedCall
    <2>3. NoCall.op = "none" /\ NoCall.to = Owner
      BY DEF NoCall
    <2>4. ASSUME pc'[t] = "deleted", NEW a \in Actor PROVE call'[a].to # t
      <3>1. CASE a = Owner
        BY <1>1, <2>2, <2>3, <3>1
      <3>2. CASE t # u /\ a # Owner
        BY <1>1, <2>2, <2>4, <3>2 DEF DeleteInv
      <3>3. CASE t = u /\ a # Owner
        BY <1>1, <2>1, <2>2, <2>3, <2>4, <3>3 DEF DeleteInv
      <3> QED
        BY <3>1, <3>2, <3>3
    <2> QED
      BY <2>2, <2>3, <2>4
  <1>3. CASE ~Join
    <2>1. ASSUME pc'[t] = "deleted", NEW a \in Actor PROVE call'[a].to # t
      <3>1. pc[t] = "deleted"
        BY <1>1, <1>3, <2>1, CallTargets
      <3> QED
        BY <1>1, <1>3, <3>1, CallTargets DEF DeleteInv, MayUse
    <2>2. ASSUME call'[Owner].op = "delete", call'[Owner].to = t,
                 NEW a \in Actor \ {t, Owner}
          PROVE  call'[a].to # t
      <3>1. CASE call[Owner].op = "delete" /\ call[Owner].to = t
        BY <1>1, <1>3, <3>1, CallTargets DEF DeleteInv, MayUse
      <3>2. CASE Quit(Owner, "delete", t)
        <4>1. \A b \in Actor \ {t} : call[b].to # t
          BY <3>2 DEF Quit
        <4>2. call'[a] = call[a]
          BY <3>2 DEF Quit, Enter, TypeOK
        <4> QED
          BY <4>1, <4>2
      <3> QED
        BY <1>1, <1>3, <2>2, <3>1, <3>2, CallTargets
    <2> QED
      BY <2>1, <2>2
  <1> QED
    BY <1>2, <1>3

-----------------------------------------------------------------------------
(* Wake-ups.                                                               *)

\* A wake-up that is coming is still coming, or has come.
LEMMA WakeStillComing ==
    ASSUME NEW t \in Thread, WakeComing(t), event_[t] => event_'[t],
           \A a \in Actor : pc[a] \in {"wake", "quit"} /\ call[a].to = t =>
               event_'[t] \/ (pc'[a] = pc[a] /\ call'[a].to = t)
    PROVE  WakeComing(t)'
  BY DEF WakeComing

\* Nothing happens to a waiting thread.
LEMMA WakeFrame ==
    ASSUME NEW t \in Thread, WakeOf(t), pc'[t] = pc[t] \/ pc'[t] \notin {"none", "wait"},
           messages_'[t] = messages_[t], delayed_messages_'[t] = delayed_messages_[t],
           stop_'[t] = stop_[t], deadline'[t] = deadline[t],
           WakeComing(t) => WakeComing(t)'
    PROVE  WakeOf(t)'
  BY DEF WakeOf

LEMMA CallsKeepWakeInv ==
    ASSUME TypeOK, WakeInv, NEW a \in Actor, NEW u \in Thread, Calls(a, u)
    PROVE  WakeInv'
  <1> SUFFICES ASSUME NEW t \in Thread PROVE WakeOf(t)'
    BY DEF WakeInv
  <1>1. WakeOf(t) /\ t \in Actor
    BY DEF WakeInv, Actor
  <1>2. ASSUME UNCHANGED <<pc, call, event_, stop_, queue, loop>> PROVE WakeOf(t)'
    BY <1>1, <1>2 DEF WakeOf, WakeComing, queue, loop
  <1>3. pc[a] = Rest(a) /\ Rest(a) \notin {"none", "wait", "wake", "quit"}
    BY DEF Calls, PostDelayed, PostDelayedAborts, Post, Send, Quit, MayUse, Rest
  <1>4. ASSUME NEW op, NEW m, NEW label, Enter(a, op, u, m, label),
               label \notin {"none", "wait"},
               UNCHANGED <<event_, queue, loop>>,
               stop_'[t] = stop_[t] \/ (t = u /\ label = "quit")
        PROVE  WakeOf(t)'
    <2>1. /\ pc'[a] = label /\ call'[a] = [NoCall EXCEPT !.op = op, !.to = u, !.msg = m]
          /\ \A b \in Actor \ {a} : pc'[b] = pc[b] /\ call'[b] = call[b]
      BY <1>4 DEF Enter, Goes, TypeOK
    <2>2. call'[a].to = u
      BY <2>1 DEF NoCall
    <2>3. WakeComing(t) => WakeComing(t)'
      BY <1>3, <1>4, <2>1, WakeStillComing
    <2>4. CASE stop_'[t] = stop_[t]
      <3>1. pc'[t] = pc[t] \/ pc'[t] \notin {"none", "wait"}
        BY <1>1, <1>4, <2>1
      <3> QED
        BY <1>1, <1>4, <2>3, <2>4, <3>1, WakeFrame DEF queue, loop
    <2>5. CASE t = u /\ label = "quit"
      BY <2>1, <2>2, <2>5 DEF WakeOf, WakeComing
    <2> QED
      BY <1>4, <2>4, <2>5
  <1>5. ASSUME NEW at, Post(a, u, at) PROVE WakeOf(t)'
    BY <1>2, <1>4, <1>5 DEF Post
  <1>6. CASE Send(a, u)
    BY <1>2, <1>4, <1>6 DEF Send
  <1>7. ASSUME NEW op \in {"quit", "stop", "delete"}, Quit(a, op, u) PROVE WakeOf(t)'
    <2>1. stop_'[t] = stop_[t] \/ t = u
      BY <1>7 DEF Quit, TypeOK
    <2>2. Enter(a, op, u, NoMsg, "quit") /\ UNCHANGED <<event_, queue, loop>>
      BY <1>7 DEF Quit
    <2> QED
      BY <1>4, <2>1, <2>2
  <1>8. ASSUME NEW ms \in Delay, PostDelayedAborts(a, u, ms) PROVE WakeOf(t)'
    BY <1>2, <1>8 DEF PostDelayedAborts
  <1> QED
    BY <1>5, <1>6, <1>7, <1>8 DEF Calls, PostDelayed

LEMMA CallContinuesKeepsWakeInv ==
    ASSUME TypeOK, CallInv, WakeInv, NEW a \in Actor, CallContinues(a)
    PROVE  WakeInv'
  <1> SUFFICES ASSUME NEW t \in Thread PROVE WakeOf(t)'
    BY DEF WakeInv
  <1>1. WakeOf(t) /\ t \in Actor
    BY DEF WakeInv, Actor
  <1>2. /\ \A b \in Actor \ {a} : pc'[b] = pc[b] /\ call'[b] = call[b]
        /\ pc'[a] \notin {"none", "wait"} /\ UNCHANGED <<stop_, loop>>
        /\ \A u \in Thread : event_[u] => event_'[u]
    <2>1. ASSUME Returns(a) PROVE /\ \A b \in Actor \ {a} : pc'[b] = pc[b] /\ call'[b] = call[b]
                                  /\ pc'[a] \notin {"none", "wait"}
      BY <2>1 DEF Returns, Goes, Rest, TypeOK
    <2>2. ASSUME NEW label, Goes(a, label), label \notin {"none", "wait"}
          PROVE  /\ \A b \in Actor \ {a} : pc'[b] = pc[b]
                 /\ pc'[a] \notin {"none", "wait"}
      BY <2>2 DEF Goes, TypeOK
    <2>3. CASE Push(a)
      BY <2>2, <2>3 DEF Push
    <2>4. CASE WakeUpSocketServer(a)
      BY <2>1, <2>2, <2>4 DEF WakeUpSocketServer, WakeUp, TypeOK
    <2>5. CASE SendPosts(a)
      BY <2>2, <2>5, CompletedCall DEF SendPosts, Completes, WakeUp, TypeOK
    <2>6. CASE SendTests(a)
      BY <2>1, <2>2, <2>6 DEF SendTests
    <2>7. CASE QuitWakes(a)
      BY <2>1, <2>2, <2>7 DEF QuitWakes, WakeUp, TypeOK
    <2> QED
      BY <2>3, <2>4, <2>5, <2>6, <2>7 DEF CallContinues
  <1>3. pc[a] \in {"wake", "quit"} /\ call[a].to = t => event_'[t]
    BY DEF CallContinues, Push, WakeUpSocketServer, SendPosts, SendTests, QuitWakes, WakeUp,
       TypeOK
  <1>4. WakeComing(t) => WakeComing(t)'
    BY <1>2, <1>3, WakeStillComing
  <1>5. pc'[t] = pc[t] \/ pc'[t] \notin {"none", "wait"}
    BY <1>1, <1>2
  <1>6. CASE messages_'[t] = messages_[t] /\ delayed_messages_'[t] = delayed_messages_[t]
    BY <1>1, <1>2, <1>4, <1>5, <1>6, WakeFrame DEF loop
  <1>7. CASE Push(a) /\ t = call[a].to
    <2>1. pc'[a] = "wake" /\ call' = call
      BY <1>7 DEF Push, Goes, TypeOK
    <2> QED
      BY <1>7, <2>1 DEF WakeOf, WakeComing
  <1>8. CASE ~Push(a) \/ t # call[a].to
    BY <1>6, <1>8 DEF CallContinues, Push, WakeUpSocketServer, SendPosts, SendTests,
       QuitWakes, queue, TypeOK
  <1> QED
    BY <1>7, <1>8

LEMMA ThreadStepKeepsWakeInv ==
    ASSUME TypeOK, CallInv, QueueInv, FifoInv, WakeInv, NEW u \in Thread, ThreadStep(u)
    PROVE  WakeInv'
  <1> SUFFICES ASSUME NEW t \in Thread PROVE WakeOf(t)'
    BY DEF WakeInv
  <1>1. WakeOf(t) /\ t \in Actor /\ u \in Actor
    BY DEF WakeInv, Actor
  <1>2. /\ pc[u] \notin {"wake", "quit"} /\ UNCHANGED stop_
        /\ \A b \in Actor \ {u} : pc'[b] = pc[b] /\ call'[b].to = call[b].to
    <2>1. CASE SendRewakes(u)
      BY <2>1 DEF SendRewakes, Returns, Goes, TypeOK
    <2>2. CASE SendWaits(u)
      BY <2>2 DEF SendWaits, Goes, TypeOK
    <2>3. CASE GetTakes(u) \/ GetFindsNone(u) \/ GetQuitsOrWaits(u) \/ WaitReturns(u)
      BY <2>3 DEF GetTakes, GetFindsNone, GetQuitsOrWaits, WaitReturns, Goes, TypeOK
    <2>4. CASE HandlerReturns(u)
      BY <2>4, CompletedCall DEF HandlerReturns, Goes, TypeOK
    <2> QED
      BY <2>1, <2>2, <2>3, <2>4 DEF ThreadStep
  <1>3. CASE t # u
    <2>1. event_[t] => event_'[t]
      BY <1>3 DEF ThreadStep, SendWaits, SendRewakes, GetTakes, GetFindsNone,
         GetQuitsOrWaits, WaitReturns, HandlerReturns, Completes, WakeUp, TypeOK
    <2>2. WakeComing(t) => WakeComing(t)'
      BY <1>2, <2>1, WakeStillComing
    <2>3. messages_'[t] = messages_[t] /\ delayed_messages_'[t] = delayed_messages_[t]
      BY <1>3 DEF ThreadStep, SendWaits, SendRewakes, GetTakes, GetFindsNone,
         GetQuitsOrWaits, WaitReturns, HandlerReturns, queue, TypeOK
    <2>4. deadline'[t] = deadline[t]
      BY <1>3 DEF ThreadStep, SendWaits, SendRewakes, GetTakes, GetFindsNone,
         GetQuitsOrWaits, WaitReturns, HandlerReturns, loop, TypeOK
    <2> QED
      BY <1>1, <1>2, <1>3, <2>2, <2>3, <2>4, WakeFrame
  <1>4. CASE t = u
    <2>1. ASSUME pc'[t] \notin {"none", "wait"} PROVE WakeOf(t)'
      BY <2>1 DEF WakeOf
    <2>2. CASE SendWaits(u) \/ SendRewakes(u) \/ GetTakes(u) \/ WaitReturns(u)
               \/ HandlerReturns(u)
      BY <1>1, <1>4, <2>1, <2>2 DEF SendWaits, SendRewakes, Returns, Rest, GetTakes,
         WaitReturns, HandlerReturns, Goes, TypeOK
    <2>3. CASE GetFindsNone(u)
      <3>1. /\ messages_'[t] = <<>> /\ delayed_messages_'[t] = delayed_messages_[t]
            /\ pc'[t] = "none"
        BY <1>1, <1>4, <2>3 DEF GetFindsNone, NothingReady, queue, Goes, TypeOK
      <3>2. ASSUME delayed_messages_[t] # {} PROVE deadline'[t] # Forever
        <4>1. PICK d \in delayed_messages_[t] : deadline'[t] = d.run - msCurrent[t]
          BY <1>4, <2>3, <3>2 DEF GetFindsNone, TypeOK
        <4>2. d.run \in Nat /\ msCurrent[t] \in Nat /\ ~(d.run <= msCurrent[t])
          BY <1>4, <2>3, BoundAssumption DEF GetFindsNone, NothingReady, Triggered, TypeOK,
             DelayedMessage
        <4> QED
          BY <4>1, <4>2 DEF Forever
      <3> QED
        BY <3>1, <3>2 DEF WakeOf
    <2>4. CASE GetQuitsOrWaits(u)
      <3>1. /\ pc[t] = "none" /\ UNCHANGED <<messages_, delayed_messages_, event_, call, stop_>>
            /\ pc'[t] \in {"exited", "wait"}
            /\ pc'[t] = "wait" => ~stop_[t]
        BY <1>1, <1>4, <2>4 DEF GetQuitsOrWaits, queue, Goes, TypeOK
      <3>2. WakeComing(t) => WakeComing(t)'
        BY <1>2, <3>1, <1>4, WakeStillComing
      <3>3. ASSUME pc'[t] = "wait", deadline[t] # Forever PROVE deadline'[t] # Forever
        <4>1. /\ deadline[t] \in 0..MaxTime /\ now \in Nat
              /\ deadline'[t] = IF now + deadline[t] > MaxTime THEN MaxTime
                                ELSE now + deadline[t]
          BY <1>1, <1>4, <2>4, <3>1, <3>3, BoundAssumption DEF GetQuitsOrWaits, Goes, TypeOK
        <4> QED
          BY <4>1, BoundAssumption DEF Forever
      <3> QED
        BY <1>1, <3>1, <3>2, <3>3 DEF WakeOf
    <2> QED
      BY <2>2, <2>3, <2>4 DEF ThreadStep
  <1> QED
    BY <1>3, <1>4

LEMMA WakeInvStep ==
    TypeOK /\ CallInv /\ QueueInv /\ FifoInv /\ WakeInv /\ [Next]_vars => WakeInv'
  <1> SUFFICES ASSUME TypeOK, CallInv, QueueInv, FifoInv, WakeInv, [Next]_vars
               PROVE  WakeInv'
    OBVIOUS
  <1>1. ASSUME SendWaitsForDone \/ Tick \/ UNCHANGED vars, NEW t \in Thread
        PROVE  WakeOf(t)'
    <2>1. WakeOf(t) /\ t \in Actor /\ Owner \in Actor /\ t # Owner
      BY OwnerAssumption DEF WakeInv, Actor
    <2>2. /\ UNCHANGED <<stop_, messages_, delayed_messages_, event_, deadline>>
          /\ \A b \in Actor \ {Owner} : pc'[b] = pc[b] /\ call'[b] = call[b]
          /\ pc[Owner] = "blocked" \/ (pc'[Owner] = pc[Owner] /\ call'[Owner] = call[Owner])
      BY <1>1 DEF SendWaitsForDone, Tick, vars, queue, loop, Returns, Goes, TypeOK
    <2>3. WakeComing(t) => WakeComing(t)'
      BY <2>2, WakeStillComing
    <2> QED
      BY <2>1, <2>2, <2>3, WakeFrame
  <1>2. ASSUME Join, NEW t \in Thread PROVE WakeOf(t)'
    <2>1. PICK u \in Thread : u = call[Owner].to
      BY <1>2, JoinedCall
    <2>2. /\ pc[Owner] = "join" /\ pc'[u] \in {"stopped", "deleted"}
          /\ pc[u] \in {"exited", "stopped"}
          /\ \A b \in Actor \ {Owner} : call'[b] = call[b]
          /\ \A b \in Actor \ {Owner, u} : pc'[b] = pc[b]
      BY <1>2, <2>1, JoinedCall
    <2>3. CASE t = u
      BY <2>2, <2>3 DEF WakeOf
    <2>4. CASE t # u
      <3>1. WakeOf(t) /\ t \in Actor /\ t # Owner
        BY OwnerAssumption DEF WakeInv, Actor
      <3>2. /\ UNCHANGED <<stop_, event_, deadline>>
            /\ messages_'[t] = messages_[t] /\ delayed_messages_'[t] = delayed_messages_[t]
        BY <1>2, <2>1, <2>4 DEF Join, queue, loop, TypeOK
      <3>3. WakeComing(t) => WakeComing(t)'
        BY <2>2, <3>2, WakeStillComing
      <3> QED
        BY <2>2, <2>4, <3>1, <3>2, <3>3, WakeFrame
    <2> QED
      BY <2>3, <2>4
  <1> QED
    BY <1>1, <1>2, CallsKeepWakeInv, CallContinuesKeepsWakeInv, ThreadStepKeepsWakeInv
    DEF Next, WakeInv

-----------------------------------------------------------------------------
(* The invariant, and what follows from it.                                *)

LEMMA InitInv == Init => Inv
  <1> SUFFICES ASSUME Init PROVE Inv
    OBVIOUS
  <1>1. TypeOK
    <2>1. <<>> \in Seq(Msg)
      BY EmptySeq
    <2>2. call \in [Actor -> CallOnThread] /\ pc \in [Actor -> Place]
      BY CallType, PlaceType DEF Init
    <2>3. to \in [Msg -> Actor] /\ phase \in [Msg -> Phase]
      BY PhaseType DEF Init, Actor
    <2>4. messages_ \in [Thread -> Seq(Msg)] /\ fifo \in [Thread -> Seq(Msg)]
      BY <2>1 DEF Init
    <2>5. /\ now \in 0..MaxTime /\ used \in 0..MaxMsgs
          /\ msCurrent \in [Thread -> 0..MaxTime] /\ delayed_next_num_ \in [Thread -> Nat]
      BY BoundAssumption DEF Init
    <2>6. /\ stop_ \in [Thread -> BOOLEAN] /\ event_ \in [Thread -> BOOLEAN]
          /\ aborted \in BOOLEAN /\ send_graph_ \subseteq Thread \X Thread
          /\ delayed_messages_ \in [Thread -> SUBSET DelayedMessage]
      BY DEF Init
    <2>7. /\ cur \in [Thread -> Msg \cup {NoMsg}]
          /\ deadline \in [Thread -> 0..MaxTime \cup {Forever}]
          /\ due \in [Msg -> 0..MaxTime \cup {Immediate}]
      BY DEF Init
    <2> QED
      BY <2>2, <2>3, <2>4, <2>5, <2>6, <2>7 DEF TypeOK
  <1>2. \A a \in Actor : /\ call[a] = NoCall /\ pc[a] \in {"idle", "get"}
                         /\ a = Owner <=> pc[a] = "idle"
    BY DEF Init
  <1>3. NoCall.op = "none" /\ NoCall.msg = NoMsg /\ NoCall.to = Owner
    BY DEF NoCall
  <1>4. CallInv
    BY <1>2, <1>3, OwnerAssumption DEF CallInv, PlaceOfCall, SubjectOfCall, Calling
  <1>5. SendInv
    BY <1>2, <1>3, PlaceValues DEF SendInv
  <1>6. \A t \in Thread : t \in Actor /\ t # Owner
    BY OwnerAssumption DEF Actor
  <1>7. CurInv
    BY <1>2, <1>6, PlaceValues DEF CurInv, Init
  <1>8. LifeInv
    <2>1. \A m \in Msg : m > 0 /\ ~(m <= 0)
      BY BoundAssumption DEF Msg
    <2> QED
      BY <2>1 DEF Init, LifeInv, LifeOf
  <1>9. QueueInv
    BY FS_EmptySet DEF Init, QueueInv, QueueOf
  <1>10. FifoInv
    BY SelectsNothing DEF Init, FifoInv
  <1>11. DeleteInv
    BY <1>2, <1>3, <1>6 DEF DeleteInv
  <1>12. WakeInv
    BY <1>2, <1>6 DEF WakeInv, WakeOf
  <1> QED
    BY <1>1, <1>4, <1>5, <1>7, <1>8, <1>9, <1>10, <1>11, <1>12 DEF Inv

\* Inv is inductive.
THEOREM InvCorrect == Spec => []Inv
  <1>1. Inv /\ [Next]_vars => Inv'
    BY TypeStep, CallInvStep, SendInvStep, CurInvStep, LifeInvStep, QueueInvStep,
       FifoInvStep, DeleteInvStep, WakeInvStep DEF Inv
  <1> QED
    BY InitInv, <1>1, PTL DEF Spec

\* Every variable keeps its type (TypeOK): Push, Get, HandlerReturns and the others
\* find the messages and entries where the code expects them.
THEOREM TypeCorrect == Spec => []TypeOK
  <1>1. Inv => TypeOK
    BY DEF Inv
  <1> QED
    BY <1>1, InvCorrect, PTL

\* No wake-up is lost (NoLostWakeup), for any number of threads and messages.
THEOREM WakeupCorrect == Spec => []NoLostWakeup
  <1>1. Inv => NoLostWakeup
    BY DEF Inv, WakeInv, WakeOf, NoLostWakeup
  <1> QED
    BY <1>1, InvCorrect, PTL

\* Only a Send whose task is over returns.
LEMMA SendEndsDone ==
    ASSUME Inv, [Next]_vars, NEW a \in Actor, call[a].op = "send", call'[a].op # "send"
    PROVE  phase'[call[a].msg] \in {"done", "refused"}
  <1>1. TypeOK /\ CallInv /\ SendInv
    BY DEF Inv
  <1>2. PlaceOfCall(a) /\ call[a].op # "none"
    BY <1>1 DEF CallInv
  <1>3. ASSUME call[a].ready, UNCHANGED life
        PROVE  phase'[call[a].msg] \in {"done", "refused"}
    BY <1>1, <1>3 DEF SendInv, life
  <1>4. ASSUME NEW b \in Actor, b # a, Returns(b) PROVE FALSE
    BY <1>1, <1>4 DEF Returns, TypeOK
  <1>5. ASSUME NEW b \in Actor, Completes(b) PROVE FALSE
    BY <1>1, <1>5, CompletedCall
  <1>6. ASSUME NEW b \in Actor, NEW t \in Thread, Calls(b, t) PROVE FALSE
    <2>1. pc[b] = Rest(b)
      BY <1>6 DEF Calls, PostDelayed, PostDelayedAborts, Post, Send, Quit, MayUse
    <2>2. b # a
      BY <1>2, <2>1 DEF PlaceOfCall, Calling, Rest
    <2>3. call'[a] = call[a]
      BY <1>1, <1>6, <2>2 DEF Calls, PostDelayed, PostDelayedAborts, Post, Send, Quit, Enter,
         TypeOK
    <2> QED
      BY <2>3
  <1>7. ASSUME NEW b \in Actor, CallContinues(b)
        PROVE  phase'[call[a].msg] \in {"done", "refused"}
    <2>1. CASE Push(b) \/ SendPosts(b)
      BY <1>5, <2>1 DEF Push, SendPosts
    <2>2. CASE WakeUpSocketServer(b)
      BY <1>4, <2>2 DEF WakeUpSocketServer
    <2>3. CASE SendTests(b)
      BY <1>3, <1>4, <2>3 DEF SendTests, SendDone
    <2>4. CASE QuitWakes(b)
      BY <1>4, <2>4 DEF QuitWakes
    <2> QED
      BY <1>7, <2>1, <2>2, <2>3, <2>4 DEF CallContinues
  <1>8. ASSUME NEW t \in Thread, ThreadStep(t)
        PROVE  phase'[call[a].msg] \in {"done", "refused"}
    <2>1. t \in Actor
      BY DEF Actor
    <2>2. CASE SendWaits(t)
      <3>1. call' = [call EXCEPT ![t].waited = TRUE]
        BY <2>2 DEF SendWaits
      <3>2. call'[a].op = call[a].op
        BY <1>1, <3>1 DEF TypeOK, CallOnThread
      <3> QED
        BY <3>2
    <2>3. CASE SendRewakes(t)
      BY <1>2, <1>3, <1>4, <2>1, <2>3 DEF SendRewakes, PlaceOfCall
    <2>4. CASE GetTakes(t) \/ GetFindsNone(t) \/ GetQuitsOrWaits(t) \/ WaitReturns(t)
      BY <2>4 DEF GetTakes, GetFindsNone, GetQuitsOrWaits, WaitReturns
    <2>5. CASE HandlerReturns(t)
      BY <1>5, <2>5 DEF HandlerReturns
    <2> QED
      BY <1>8, <2>2, <2>3, <2>4, <2>5 DEF ThreadStep
  <1>9. CASE SendWaitsForDone
    BY <1>3, <1>4, <1>9 DEF SendWaitsForDone, Actor
  <1>10. CASE Join
    <2>1. a # Owner
      BY <1>1, <1>10, JoinedCall DEF CallInv, PlaceOfCall
    <2> QED
      BY <1>1, <1>10, <2>1, JoinedCall
  <1>11. CASE Tick \/ UNCHANGED vars
    BY <1>11 DEF Tick, vars
  <1> QED
    BY <1>6, <1>7, <1>8, <1>9, <1>10, <1>11 DEF Next

\* Send is synchronous (SendIsSynchronous): whatever wakes the sender, it goes on
\* only when its task was run, or refused by a thread that quits.
THEOREM SendCorrect == Spec => SendIsSynchronous
  <1>1. Inv /\ [Next]_vars =>
            [\A a \in Actor : call[a].op = "send" /\ call'[a].op # "send"
                => phase'[call[a].msg] \in {"done", "refused"}]_vars
    BY SendEndsDone
  <1> QED
    BY <1>1, InvCorrect, PTL DEF Spec, SendIsSynchronous

\* A thread with a message that is ready does not leave its loop: it looks at the
\* queue before it asks whether to quit.
LEMMA ReadyKeepsLooking ==
    ASSUME Inv, [Next]_vars, NEW t \in Thread, messages_[t] # <<>>, WillLook(t)
    PROVE  WillLook(t)'
  <1>1. TypeOK /\ CallInv /\ t \in Actor /\ t # Owner
    BY OwnerAssumption DEF Inv, Actor
  <1>2. pc[t] \notin {"none", "exited", "stopped", "deleted"}
    BY DEF WillLook, Exited
  <1> DEFINE Goal == pc'[t] \notin {"none", "exited", "stopped", "deleted"}
  <1>3. ASSUME NEW a \in Actor, NEW label, Goes(a, label),
               label \notin {"none", "exited", "stopped", "deleted"}
        PROVE  Goal
    BY <1>1, <1>2, <1>3 DEF Goes, TypeOK
  <1>4. ASSUME NEW a \in Actor, NEW label, Goes(a, label), a # t PROVE Goal
    BY <1>1, <1>2, <1>4 DEF Goes, TypeOK
  <1>5. ASSUME UNCHANGED pc PROVE Goal
    BY <1>2, <1>5
  <1>6. ASSUME NEW a \in Actor, Returns(a) PROVE Goal
    BY <1>3, <1>6 DEF Returns, Rest
  <1> HIDE DEF Goal
  <1>7. ASSUME NEW a \in Actor, NEW u \in Thread, Calls(a, u) PROVE Goal
    BY <1>3, <1>5, <1>7 DEF Calls, PostDelayed, PostDelayedAborts, Post, Send, Quit, Enter
  <1>8. ASSUME NEW a \in Actor, CallContinues(a) PROVE Goal
    BY <1>3, <1>6, <1>8 DEF CallContinues, Push, WakeUpSocketServer, SendPosts, SendTests,
       QuitWakes
  <1>9. ASSUME NEW u \in Thread, ThreadStep(u) PROVE Goal
    <2>1. u \in Actor
      BY DEF Actor
    <2>2. CASE SendWaits(u) \/ SendRewakes(u)
      BY <1>3, <1>6, <2>1, <2>2 DEF SendWaits, SendRewakes
    <2>3. CASE GetTakes(u) \/ WaitReturns(u) \/ HandlerReturns(u)
      BY <1>3, <2>1, <2>3 DEF GetTakes, WaitReturns, HandlerReturns
    <2>4. CASE GetFindsNone(u)
      BY <1>4, <2>1, <2>4 DEF GetFindsNone, NothingReady
    <2>5. CASE GetQuitsOrWaits(u)
      <3>1. u # t
        BY <1>2, <2>5 DEF GetQuitsOrWaits
      <3> QED
        BY <1>4, <2>1, <2>5, <3>1 DEF GetQuitsOrWaits
    <2> QED
      BY <1>9, <2>2, <2>3, <2>4, <2>5 DEF ThreadStep
  <1>10. ASSUME SendWaitsForDone PROVE Goal
    BY <1>6, <1>10 DEF SendWaitsForDone, Actor
  <1>11. ASSUME Join PROVE Goal
    <2>1. t # call[Owner].to
      BY <1>2, <1>11 DEF Join
    <2>2. pc'[t] = pc[t]
      BY <1>1, <1>11, <2>1 DEF Join, TypeOK
    <2> QED
      BY <1>2, <2>2 DEF Goal
  <1>12. ASSUME Tick \/ UNCHANGED vars PROVE Goal
    BY <1>5, <1>12 DEF Tick, vars
  <1>13. Goal
    BY <1>7, <1>8, <1>9, <1>10, <1>11, <1>12 DEF Next
  <1> QED
    BY <1>13 DEF Goal, WillLook, Exited

\* Where a queued message belongs does not change.
LEMMA QueuedStays ==
    ASSUME Inv, [Next]_vars, NEW m \in Msg, phase[m] = "queued"
    PROVE  to'[m] = to[m]
  <1>1. TypeOK /\ CallInv /\ LifeOf(m)
    BY DEF Inv, LifeInv
  <1>2. m # used + 1
    BY <1>1 DEF LifeOf, TypeOK
  <1>3. ASSUME NEW t, NEW at, NEW ph, NewMessage(t, at, ph) PROVE to'[m] = to[m]
    BY <1>1, <1>2, <1>3 DEF NewMessage, TypeOK
  <1>4. ASSUME NEW a \in Actor, NEW t \in Thread, Calls(a, t) PROVE to'[m] = to[m]
    BY <1>3, <1>4 DEF Calls, PostDelayed, PostDelayedAborts, Post, Send, Quit, life
  <1>5. ASSUME NEW a \in Actor, CallContinues(a) PROVE to'[m] = to[m]
    BY <1>5 DEF CallContinues, Push, WakeUpSocketServer, SendPosts, SendTests, QuitWakes,
       life
  <1>6. ASSUME NEW t \in Thread, ThreadStep(t) PROVE to'[m] = to[m]
    BY <1>6 DEF ThreadStep, SendWaits, SendRewakes, GetTakes, GetFindsNone,
       GetQuitsOrWaits, WaitReturns, HandlerReturns, life
  <1>7. CASE SendWaitsForDone \/ Join \/ Tick \/ UNCHANGED vars
    BY <1>7 DEF SendWaitsForDone, Join, Tick, vars, life
  <1> QED
    BY <1>4, <1>5, <1>6, <1>7 DEF Next

\* A thread that has yet to look at its queue handles what is ready before its loop
\* ends (LooksBeforeExit), for any number of threads, messages and quits.
THEOREM LooksCorrect == Spec => LooksBeforeExit
  <1>1. ASSUME Inv, [Next]_vars, NEW m \in Msg, Ready(m), WillLook(to[m])
        PROVE  WillLook(to[m])'
    <2>1. to[m] \in Thread
      BY <1>1 DEF WillLook
    <2>2. phase[m] = "queued" /\ messages_[to[m]] # <<>>
      BY <1>1, <2>1, QueuedMessage DEF Inv, Ready
    <2>3. to'[m] = to[m]
      BY <1>1, <2>2, QueuedStays
    <2>4. \A t \in Thread : messages_[t] # <<>> /\ WillLook(t) => WillLook(t)'
      BY <1>1, ReadyKeepsLooking
    <2> QED
      BY <1>1, <2>1, <2>2, <2>3, <2>4 DEF WillLook, Exited
  <1>2. Inv /\ [Next]_vars =>
            [\A m \in Msg : Ready(m) /\ WillLook(to[m]) => WillLook(to[m])']_vars
    BY <1>1
  <1> QED
    BY <1>2, InvCorrect, PTL DEF Spec, LooksBeforeExit

-----------------------------------------------------------------------------
(* The send graph.                                                         *)

\* Of any threads in S, one has no edge to another.
HasSink(G, S) == \E u \in S : \A v \in S : <<u, v>> \notin G

\* A thread inside a Send to another is in the graph.
GraphInv ==
    /\ SendGraphAcyclic
    /\ \A u \in Thread : call[u].op = "send" => <<u, call[u].to>> \in send_graph_

\* What RegisterSendAndCheckForCycles finds is closed.
LEMMA ReachClosed ==
    ASSUME NEW t \in Thread, send_graph_ \subseteq Thread \X Thread
    PROVE  /\ t \in Reach(t) /\ Reach(t) \subseteq Thread
           /\ \A u \in Reach(t), v \in Thread : <<u, v>> \in send_graph_ => v \in Reach(t)
  <1>1. t \in Reach(t) /\ Reach(t) \subseteq Thread
    BY DEF Reach
  <1>2. ASSUME NEW u \in Reach(t), NEW v \in Thread, <<u, v>> \in send_graph_,
               NEW S \in SUBSET Thread, t \in S, SendClosed(S)
        PROVE  v \in S
    <2>1. u \in S
      BY <1>2 DEF Reach
    <2> QED
      BY <1>2, <2>1 DEF SendClosed
  <1> QED
    BY <1>1, <1>2 DEF Reach

\* The edge that a Send adds closes no cycle: "We may now insert source -> target".
LEMMA EdgeKeepsSinks ==
    ASSUME TypeOK, SendGraphAcyclic, NEW a \in Thread, NEW t \in Thread, a \notin Reach(t),
           NEW S \in SUBSET Thread, S # {}
    PROVE  HasSink(send_graph_ \cup {<<a, t>>}, S)
  <1> DEFINE R == Reach(t)
  <1>1. /\ t \in R /\ R \subseteq Thread
        /\ \A u \in R, v \in Thread : <<u, v>> \in send_graph_ => v \in R
    BY ReachClosed DEF TypeOK
  <1>2. a \notin R
    OBVIOUS
  <1> HIDE DEF R
  <1>3. CASE t \notin S
    <2>1. PICK u \in S : \A v \in S : <<u, v>> \notin send_graph_
      BY DEF SendGraphAcyclic
    <2>2. \A v \in S : <<u, v>> # <<a, t>>
      BY <1>3
    <2> QED
      BY <2>1, <2>2 DEF HasSink
  <1>4. CASE t \in S
    <2>1. S \cap R # {} /\ S \cap R \in SUBSET Thread
      BY <1>1, <1>4
    <2>2. PICK u \in S \cap R : \A v \in S \cap R : <<u, v>> \notin send_graph_
      BY <2>1 DEF SendGraphAcyclic
    <2>3. \A v \in S : <<u, v>> \notin send_graph_
      BY <1>1, <2>2
    <2>4. \A v \in S : <<u, v>> # <<a, t>>
      BY <1>2, <2>2
    <2> QED
      BY <2>2, <2>3, <2>4 DEF HasSink
  <1> QED
    BY <1>3, <1>4

\* A call that goes on, or is new and no Send.
LEMMA SendStays ==
    ASSUME TypeOK, CallInv, [Next]_vars, ~Join, \A a \in Thread, t \in Thread : ~Send(a, t),
           NEW b \in Thread, call'[b].op = "send"
    PROVE  call[b].op = "send" /\ call'[b].to = call[b].to
  <1>0. b \in Actor /\ b # Owner
    BY OwnerAssumption DEF Actor
  <1>1. ASSUME NEW a \in Actor, Returns(a)
        PROVE  call[b].op = "send" /\ call'[b].to = call[b].to
    <2>1. b # a
      BY <1>0, <1>1 DEF Returns, NoCall, TypeOK
    <2> QED
      BY <1>0, <1>1, <2>1 DEF Returns, TypeOK
  <1>2. ASSUME call' = call \/ (\E c \in Actor : Completes(c))
        PROVE  call[b].op = "send" /\ call'[b].to = call[b].to
    BY <1>0, <1>2, CompletedCall
  <1>3. ASSUME NEW a \in Actor, NEW t \in Thread, NEW op, NEW m, NEW label,
               Enter(a, op, t, m, label), op # "send" \/ a # b
        PROVE  call[b].op = "send" /\ call'[b].to = call[b].to
    <2>1. b # a
      BY <1>0, <1>3 DEF Enter, NoCall, TypeOK
    <2> QED
      BY <1>0, <1>3, <2>1 DEF Enter, TypeOK
  <1>4. ASSUME NEW a \in Actor, NEW t \in Thread, Calls(a, t)
        PROVE  call[b].op = "send" /\ call'[b].to = call[b].to
    <2>1. ASSUME NEW at, Post(a, t, at)
          PROVE  call[b].op = "send" /\ call'[b].to = call[b].to
      BY <1>2, <1>3, <2>1 DEF Post
    <2>2. CASE Send(a, t)
      <3>1. a = Owner
        BY <2>2 DEF Actor
      <3> QED
        BY <1>0, <1>2, <1>3, <2>2, <3>1 DEF Send
    <2>3. ASSUME NEW op \in {"quit", "stop", "delete"}, Quit(a, op, t)
          PROVE  call[b].op = "send" /\ call'[b].to = call[b].to
      BY <1>3, <2>3 DEF Quit
    <2>4. ASSUME NEW ms \in Delay, PostDelayedAborts(a, t, ms)
          PROVE  call[b].op = "send" /\ call'[b].to = call[b].to
      BY <1>2, <2>4 DEF PostDelayedAborts
    <2> QED
      BY <1>4, <2>1, <2>2, <2>3, <2>4 DEF Calls, PostDelayed
  <1>5. ASSUME NEW a \in Actor, CallContinues(a)
        PROVE  call[b].op = "send" /\ call'[b].to = call[b].to
    BY <1>1, <1>2, <1>5 DEF CallContinues, Push, WakeUpSocketServer, SendPosts, SendTests,
       QuitWakes
  <1>6. ASSUME NEW t \in Thread, ThreadStep(t)
        PROVE  call[b].op = "send" /\ call'[b].to = call[b].to
    <2>1. t \in Actor
      BY DEF Actor
    <2>2. CASE SendWaits(t)
      BY <1>0, <2>2 DEF SendWaits, TypeOK, CallOnThread
    <2>3. CASE SendRewakes(t) \/ GetTakes(t) \/ GetFindsNone(t)
      BY <1>1, <1>2, <2>1, <2>3 DEF SendRewakes, GetTakes, GetFindsNone
    <2>4. CASE GetQuitsOrWaits(t) \/ WaitReturns(t) \/ HandlerReturns(t)
      BY <1>2, <2>4 DEF GetQuitsOrWaits, WaitReturns, HandlerReturns
    <2> QED
      BY <1>6, <2>2, <2>3, <2>4 DEF ThreadStep
  <1>7. CASE SendWaitsForDone
    BY <1>1, <1>7 DEF SendWaitsForDone, Actor
  <1>8. CASE Tick \/ UNCHANGED vars
    BY <1>2, <1>8 DEF Tick, vars
  <1> QED
    BY <1>4, <1>5, <1>6, <1>7, <1>8 DEF Next

\* Only Send and the Join of Delete change the graph.
LEMMA GraphStays ==
    ASSUME [Next]_vars, ~Join, \A a \in Thread, t \in Thread : ~Send(a, t)
    PROVE  send_graph_' = send_graph_
  <1>1. ASSUME NEW a \in Actor, NEW t \in Thread, Calls(a, t)
        PROVE  send_graph_' = send_graph_
    BY <1>1 DEF Actor, Calls, PostDelayed, PostDelayedAborts, Post, Send, Quit
  <1>2. ASSUME NEW a \in Actor, CallContinues(a) PROVE send_graph_' = send_graph_
    BY <1>2 DEF CallContinues, Push, WakeUpSocketServer, SendPosts, SendTests, QuitWakes
  <1>3. ASSUME NEW t \in Thread, ThreadStep(t) PROVE send_graph_' = send_graph_
    BY <1>3 DEF ThreadStep, SendWaits, SendRewakes, GetTakes, GetFindsNone, GetQuitsOrWaits,
                WaitReturns, HandlerReturns
  <1> QED
    BY <1>1, <1>2, <1>3 DEF Next, SendWaitsForDone, Tick, vars

LEMMA GraphInvStep == Inv /\ GraphInv /\ [Next]_vars => GraphInv'
  <1> SUFFICES ASSUME Inv, GraphInv, [Next]_vars PROVE GraphInv'
    OBVIOUS
  <1>1. TypeOK /\ CallInv /\ DeleteInv
    BY DEF Inv
  <1>2. ASSUME NEW a \in Thread, NEW t \in Thread, Send(a, t) PROVE GraphInv'
    <2>0. a # Owner /\ a \in Actor /\ Thread \subseteq Actor
      BY OwnerAssumption DEF Actor
    <2>1. CASE UNCHANGED <<call, send_graph_>>
      BY <2>1 DEF GraphInv, SendGraphAcyclic
    <2>2. CASE ~stop_[t] /\ ~ClosesCycle(a, t)
      <3>1. /\ call' = [call EXCEPT ![a] = [NoCall EXCEPT !.op = "send", !.to = t,
                                                          !.msg = used + 1]]
            /\ send_graph_' = send_graph_ \cup {<<a, t>>}
        BY <1>2, <2>0, <2>2 DEF Send, Enter
      <3>2. call'[a].to = t /\ \A u \in Thread \ {a} : call'[u] = call[u]
        BY <1>1, <2>0, <3>1 DEF TypeOK, NoCall
      <3>3. a \notin Reach(t)
        BY <2>2 DEF ClosesCycle
      <3>4. SendGraphAcyclic'
        BY <1>1, <3>1, <3>3, EdgeKeepsSinks DEF GraphInv, SendGraphAcyclic, HasSink
      <3> QED
        BY <3>1, <3>2, <3>4 DEF GraphInv
    <2> QED
      BY <1>2, <2>1, <2>2 DEF Send
  <1>3. CASE Join
    <2>1. PICK t \in Thread : t = call[Owner].to
      BY <1>1, <1>3, JoinedCall
    <2>2. /\ call[t] = NoCall
          /\ \A b \in Thread : call'[b] = call[b]
      BY <1>1, <1>3, <2>1, JoinedCall, OwnerAssumption DEF Actor
    <2>3. CASE call[Owner].op # "delete"
      <3>1. send_graph_' = send_graph_
        BY <1>1, <1>3, <2>3 DEF Join, CallInv, PlaceOfCall, Actor
      <3> QED
        BY <2>2, <3>1 DEF GraphInv, SendGraphAcyclic
    <2>4. CASE call[Owner].op = "delete"
      <3>1. send_graph_' = {e \in send_graph_ : t \notin {e[1], e[2]}}
        BY <1>3, <2>1, <2>4 DEF Join
      <3>2. \A b \in Thread \ {t} : call[b].to # t
        BY <1>1, <2>1, <2>4, OwnerAssumption DEF DeleteInv, Actor
      <3>3. ASSUME NEW u \in Thread, call'[u].op = "send"
            PROVE  <<u, call'[u].to>> \in send_graph_'
        <4>1. u # t
          BY <2>2, <3>3 DEF NoCall
        <4>2. call'[u].to = call[u].to /\ call[u].to # t
          BY <2>2, <3>2, <4>1
        <4>3. <<u, call[u].to>> \in send_graph_
          BY <2>2, <3>3 DEF GraphInv
        <4> QED
          BY <3>1, <4>1, <4>2, <4>3
      <3>4. SendGraphAcyclic'
        BY <3>1 DEF GraphInv, SendGraphAcyclic
      <3> QED
        BY <3>3, <3>4 DEF GraphInv
    <2> QED
      BY <2>3, <2>4
  <1>4. CASE ~Join /\ \A a \in Thread, t \in Thread : ~Send(a, t)
    <2>1. send_graph_' = send_graph_
      BY <1>4, GraphStays
    <2>2. \A u \in Thread : call'[u].op = "send" =>
              call[u].op = "send" /\ call'[u].to = call[u].to
      BY <1>1, <1>4, SendStays
    <2> QED
      BY <2>1, <2>2 DEF GraphInv, SendGraphAcyclic
  <1> QED
    BY <1>2, <1>3, <1>4

LEMMA GraphInvInit == Init => GraphInv
  BY DEF Init, GraphInv, SendGraphAcyclic, NoCall, Actor

LEMMA GraphCorrect == Spec => []GraphInv
  BY GraphInvInit, GraphInvStep, InvCorrect, PTL DEF Spec

\* The send graph never has a cycle (SendGraphAcyclic), so that the loop of
\* RegisterSendAndCheckForCycles ends, for any number of threads, deleted ones
\* included.
THEOREM SendGraphCorrect == Spec => []SendGraphAcyclic
  <1>1. GraphInv => SendGraphAcyclic
    BY DEF GraphInv
  <1> QED
    BY <1>1, GraphCorrect, PTL

\* Threads never wait for one another in Send (NoSendCycle), for any number of
\* threads: what the check of the send graph is for.
THEOREM NoSendCycleCorrect == Spec => []NoSendCycle
  <1>1. GraphInv => NoSendCycle
    BY DEF GraphInv, SendGraphAcyclic, NoSendCycle
  <1> QED
    BY <1>1, GraphCorrect, PTL

-----------------------------------------------------------------------------
(* Each thread is a TaskQueueBase.                                         *)

LEMMA InitImplements == ASSUME Init, NEW t \in Thread PROVE TQ(t)!Init
  <1>1. \A m \in Msg : to[m] = Owner /\ Owner # t
    BY OwnerAssumption DEF Init
  <1>2. \A m \in Msg : PhaseOf(t, m) = "new" /\ DueOf(t, m) = -1
    BY <1>1 DEF PhaseOf, DueOf, Immediate
  <1>3. State(t) = "live"
    <2>1. pc[t] = "get" /\ call[Owner] = NoCall
      BY OwnerAssumption DEF Init, Actor
    <2> QED
      BY <2>1 DEF State, NoCall
  <1> QED
    BY <1>2, <1>3 DEF Init, TQ!Init, TQ!Immediate

\* Nothing happens to the queue of t.
LEMMA Stutters ==
    ASSUME NEW t \in Thread, UNCHANGED <<now, State(t)>>, fifo'[t] = fifo[t],
           \A m \in Msg : PhaseOf(t, m)' = PhaseOf(t, m) /\ DueOf(t, m)' = DueOf(t, m)
    PROVE  UNCHANGED TQ(t)!vars
  BY DEF TQ!vars

\* None of the messages is lost, so that their phases are what they seem.
LEMMA PhaseSeen ==
    ASSUME LifeInv, NEW t \in Thread, NEW m \in Msg
    PROVE  PhaseOf(t, m) = IF \/ to[m] # t
                              \/ phase[m] = "refused"
                              \/ phase[m] = "called" /\ due[m] = Immediate
                           THEN "new" ELSE phase[m]
  BY DEF LifeInv, LifeOf, PhaseOf

\* The one message of t that runs is the one it dispatches.
LEMMA BusyThread ==
    ASSUME TypeOK, LifeInv, CurInv, NEW t \in Thread
    PROVE  TQ(t)!Busy <=> pc[t] \in InHandler
  <1>1. TQ(t)!Busy <=> \E m \in Msg : PhaseOf(t, m) = "running"
    BY DEF TQ!Busy
  <1>2. ASSUME NEW m \in Msg, PhaseOf(t, m) = "running" PROVE pc[t] \in InHandler
    <2>1. to[m] = t /\ phase[m] = "running"
      BY <1>2, PhaseSeen
    <2>2. cur[t] = m /\ m # NoMsg
      BY <2>1 DEF LifeInv, LifeOf, Msg, NoMsg
    <2> QED
      BY <2>2 DEF CurInv
  <1>3. ASSUME pc[t] \in InHandler PROVE \E m \in Msg : PhaseOf(t, m) = "running"
    <2>1. cur[t] \in Msg /\ phase[cur[t]] = "running" /\ to[cur[t]] = t
      BY <1>3 DEF CurInv, TypeOK
    <2>2. PhaseOf(t, cur[t]) = "running"
      BY <2>1, PhaseSeen
    <2> QED
      BY <2>1, <2>2
  <1> QED
    BY <1>1, <1>2, <1>3

LEMMA PhaseSeenNext ==
    ASSUME LifeInv', NEW t \in Thread, NEW m \in Msg
    PROVE  PhaseOf(t, m)' = IF \/ to'[m] # t
                               \/ phase'[m] = "refused"
                               \/ phase'[m] = "called" /\ due'[m] = Immediate
                            THEN "new" ELSE phase'[m]
  BY DEF LifeInv, LifeOf, PhaseOf

\* A message that is left alone looks the same.
LEMMA SameView ==
    ASSUME LifeInv, LifeInv', NEW t \in Thread, NEW m \in Msg,
           phase'[m] = phase[m], to'[m] = to[m], due'[m] = due[m]
    PROVE  PhaseOf(t, m)' = PhaseOf(t, m) /\ DueOf(t, m)' = DueOf(t, m)
  BY PhaseSeen, PhaseSeenNext DEF DueOf

\* Only Join ends a Delete, and a deleted thread stays deleted.
LEMMA DeleteStays ==
    ASSUME TypeOK, CallInv, [Next]_vars, ~Join, NEW b \in Actor
    PROVE  /\ pc[b] = "deleted" => pc'[b] = "deleted"
           /\ call[b].op = "delete" => call'[b].op = "delete" /\ call'[b].to = call[b].to
  <1> DEFINE Goal ==
           /\ pc[b] = "deleted" => pc'[b] = "deleted"
           /\ call[b].op = "delete" => call'[b].op = "delete" /\ call'[b].to = call[b].to
  <1>1. ASSUME NEW a \in Actor, pc[a] # "deleted", call[a].op # "delete",
               \A c \in Actor \ {a} : pc'[c] = pc[c] /\ call'[c] = call[c]
        PROVE  Goal
    BY <1>1
  <1>2. ASSUME NEW a \in Actor, pc[a] # "deleted", NEW label, Goes(a, label),
               call' = call \/ (\E c \in Actor : Completes(c))
        PROVE  Goal
    <2>1. call'[b].to = call[b].to /\ call'[b].op = call[b].op
      BY <1>2, CompletedCall
    <2>2. pc[b] = "deleted" => pc'[b] = "deleted"
      BY <1>2 DEF Goes, TypeOK
    <2> QED
      BY <2>1, <2>2
  <1>3. ASSUME UNCHANGED <<pc, call>> PROVE Goal
    BY <1>3
  <1> HIDE DEF Goal
  <1>4. ASSUME NEW a \in Actor, Returns(a), pc[a] # "deleted", call[a].op # "delete"
        PROVE  Goal
    BY <1>1, <1>4 DEF Returns, Goes, TypeOK
  <1>5. ASSUME NEW a \in Actor, pc[a] \in {"wake", "test", "rewake", "blocked"}
        PROVE  pc[a] # "deleted" /\ call[a].op # "delete"
    BY <1>5 DEF CallInv, PlaceOfCall
  <1>6. ASSUME NEW a \in Actor, NEW t \in Thread, NEW op, NEW m, NEW label,
               Enter(a, op, t, m, label), MayUse(a, t)
        PROVE  Goal
    <2>1. pc[a] \in {"idle", "handler"}
      BY <1>6 DEF MayUse, Rest
    <2>2. call[a].op # "delete"
      BY <2>1 DEF CallInv, PlaceOfCall, Calling
    <2> QED
      BY <1>1, <1>6, <2>1, <2>2 DEF Enter, Goes, TypeOK
  <1>7. ASSUME NEW a \in Actor, NEW t \in Thread, Calls(a, t) PROVE Goal
    <2>1. ASSUME NEW at, Post(a, t, at) PROVE Goal
      BY <1>3, <1>6, <2>1 DEF Post
    <2>2. CASE Send(a, t)
      BY <1>3, <1>6, <2>2 DEF Send
    <2>3. ASSUME NEW op \in {"quit", "stop", "delete"}, Quit(a, op, t) PROVE Goal
      BY <1>6, <2>3 DEF Quit
    <2>4. ASSUME NEW ms \in Delay, PostDelayedAborts(a, t, ms) PROVE Goal
      BY <1>3, <2>4 DEF PostDelayedAborts
    <2> QED
      BY <1>7, <2>1, <2>2, <2>3, <2>4 DEF Calls, PostDelayed
  <1>8. ASSUME NEW a \in Actor, CallContinues(a) PROVE Goal
    <2>1. CASE Push(a) \/ SendPosts(a)
      BY <1>2, <2>1 DEF Push, SendPosts
    <2>2. CASE WakeUpSocketServer(a) \/ SendTests(a)
      BY <1>2, <1>4, <1>5, <2>2 DEF WakeUpSocketServer, SendTests
    <2>3. CASE QuitWakes(a)
      BY <1>2, <1>4, <2>3 DEF QuitWakes
    <2> QED
      BY <1>8, <2>1, <2>2, <2>3 DEF CallContinues
  <1>9. ASSUME NEW t \in Thread, ThreadStep(t) PROVE Goal
    <2>1. t \in Actor
      BY DEF Actor
    <2>2. CASE SendWaits(t)
      BY <1>1, <1>5, <2>1, <2>2 DEF SendWaits, Goes, TypeOK
    <2>3. CASE SendRewakes(t)
      BY <1>4, <1>5, <2>1, <2>3 DEF SendRewakes
    <2>4. CASE GetTakes(t) \/ GetFindsNone(t)
      BY <1>2, <2>1, <2>4 DEF GetTakes, GetFindsNone
    <2>5. CASE GetQuitsOrWaits(t) \/ WaitReturns(t) \/ HandlerReturns(t)
      BY <1>2, <2>1, <2>5 DEF GetQuitsOrWaits, WaitReturns, HandlerReturns
    <2> QED
      BY <1>9, <2>2, <2>3, <2>4, <2>5 DEF ThreadStep
  <1>10. ASSUME SendWaitsForDone PROVE Goal
    <2>1. Owner \in Actor
      BY DEF Actor
    <2> QED
      BY <1>4, <1>5, <1>10, <2>1 DEF SendWaitsForDone
  <1>11. ASSUME Tick \/ UNCHANGED vars PROVE Goal
    BY <1>3, <1>11 DEF Tick, vars
  <1> QED
    BY <1>7, <1>8, <1>9, <1>10, <1>11 DEF Next, Goal

\* The life of the thread as its users see it.
LEMMA StateSteps ==
    ASSUME TypeOK, CallInv, [Next]_vars, ~Join, NEW t \in Thread
    PROVE  \/ State(t)' = State(t)
           \/ /\ Quit(Owner, "delete", t)
              /\ State(t) = "live" /\ State(t)' = "deleting"
  <1>1. t \in Actor /\ Owner \in Actor /\ t # Owner
    BY OwnerAssumption DEF Actor
  <1>2. pc'[t] = "deleted" <=> pc[t] = "deleted"
    BY <1>1, CallTargets, DeleteStays
  <1>3. CASE call[Owner].op = "delete"
    <2>1. call'[Owner].op = "delete" /\ call'[Owner].to = call[Owner].to
      BY <1>1, <1>3, DeleteStays
    <2> QED
      BY <1>2, <1>3, <2>1 DEF State
  <1>4. CASE call[Owner].op # "delete" /\ Quit(Owner, "delete", t)
    <2>1. pc[t] # "deleted"
      BY <1>4 DEF Quit, MayUse
    <2>2. State(t)' \in {"live", "deleting"} /\ State(t) = "live"
      BY <1>2, <1>4, <2>1 DEF State
    <2> QED
      BY <1>4, <2>2
  <1>5. CASE call[Owner].op # "delete" /\ ~Quit(Owner, "delete", t)
    <2>1. ~(call'[Owner].op = "delete" /\ call'[Owner].to = t)
      BY <1>1, <1>5, CallTargets
    <2> QED
      BY <1>2, <1>5, <2>1 DEF State
  <1> QED
    BY <1>3, <1>4, <1>5

LEMMA ClockSteps == ASSUME [Next]_vars PROVE now' = now \/ Tick
  <1>1. ASSUME NEW a \in Actor, NEW t \in Thread, Calls(a, t) PROVE now' = now
    BY <1>1 DEF Calls, Post, PostDelayed, PostDelayedAborts, Send, Quit
  <1>2. ASSUME NEW a \in Actor, CallContinues(a) PROVE now' = now
    BY <1>2 DEF CallContinues, Push, WakeUpSocketServer, SendPosts, SendTests, QuitWakes
  <1>3. ASSUME NEW t \in Thread, ThreadStep(t) PROVE now' = now
    BY <1>3 DEF ThreadStep, SendWaits, SendRewakes, GetTakes, GetFindsNone, GetQuitsOrWaits,
                WaitReturns, HandlerReturns
  <1> QED
    BY <1>1, <1>2, <1>3 DEF Next, SendWaitsForDone, Join, vars

\* A step that a message takes is not the one that begins to delete a thread.
LEMMA StateKept ==
    ASSUME TypeOK, CallInv, [Next]_vars, ~Join, NEW t \in Thread, phase' # phase
    PROVE  UNCHANGED <<now, State(t)>>
  <1>1. ~Quit(Owner, "delete", t) /\ ~Tick
    BY DEF Quit, Tick, life
  <1> QED
    BY <1>1, StateSteps, ClockSteps

\* One message moves.
LEMMA OneMoves ==
    ASSUME NEW t \in Thread, NEW n \in Msg, NEW ph, PhaseOf(t, n)' = ph,
           \A m \in Msg \ {n} : PhaseOf(t, m)' = PhaseOf(t, m)
    PROVE  [m \in Msg |-> PhaseOf(t, m)]' = [[m \in Msg |-> PhaseOf(t, m)] EXCEPT ![n] = ph]
  OBVIOUS

\* What t does, as a TaskQueueBase.
TQStep(t) == TQ(t)!Next \/ UNCHANGED TQ(t)!vars

LEMMA QuietImplements ==
    ASSUME Inv, Inv', [Next]_vars, ~Join, NEW t \in Thread, NEW a \in Actor, Quiet(a)
    PROVE  TQStep(t)
  <1>1. TypeOK /\ CallInv /\ LifeInv /\ LifeInv'
    BY DEF Inv
  <1>2. \A m \in Msg : PhaseOf(t, m)' = PhaseOf(t, m) /\ DueOf(t, m)' = DueOf(t, m)
    BY <1>1, SameView DEF Quiet, life
  <1>3. fifo'[t] = fifo[t]
    BY DEF Quiet, life
  <1>4. CASE Tick
    <2>1. State(t)' = State(t) /\ now < MaxTime /\ now' = now + 1
      BY <1>4 DEF Tick, State
    <2> QED
      BY <1>2, <1>3, <2>1 DEF TQStep, TQ!Next, TQ!Tick
  <1>5. CASE now' = now /\ State(t)' = State(t)
    BY <1>2, <1>3, <1>5, Stutters DEF TQStep
  <1>6. CASE now' = now /\ State(t) = "live" /\ State(t)' = "deleting"
    BY <1>2, <1>3, <1>6 DEF TQStep, TQ!Next, TQ!Delete
  <1> QED
    BY <1>1, <1>4, <1>5, <1>6, StateSteps, ClockSteps

\* A new message, before and after.
LEMMA NewView ==
    ASSUME Inv, Inv', NEW t \in Thread, NEW v \in Thread, NEW at, NEW ph,
           NewMessage(v, at, ph), ph \in {"refused", "called"}, NEW n \in Msg, n = used + 1
    PROVE  /\ phase' # phase /\ fifo' = fifo
           /\ PhaseOf(t, n) = "new" /\ DueOf(t, n) = Immediate
           /\ \A m \in Msg \ {n} :
                  PhaseOf(t, m)' = PhaseOf(t, m) /\ DueOf(t, m)' = DueOf(t, m)
           /\ v # t \/ ph = "refused" \/ at = Immediate =>
                  PhaseOf(t, n)' = "new" /\ DueOf(t, n)' = Immediate
           /\ v = t /\ ph = "called" /\ at # Immediate =>
                  PhaseOf(t, n)' = "called" /\ DueOf(t, n)' = at
  <1>1. TypeOK /\ LifeInv /\ LifeInv'
    BY DEF Inv
  <1>2. n > used
    BY <1>1 DEF TypeOK
  <1>3. phase[n] = "new" /\ to[n] = Owner /\ Owner # t
    BY <1>1, <1>2, OwnerAssumption DEF LifeInv, LifeOf
  <1>4. /\ phase'[n] = ph /\ to'[n] = v /\ due'[n] = at
        /\ \A m \in Msg \ {n} : phase'[m] = phase[m] /\ to'[m] = to[m] /\ due'[m] = due[m]
    BY <1>1 DEF NewMessage, TypeOK
  <1>5. PhaseOf(t, n) = "new" /\ DueOf(t, n) = Immediate
    BY <1>3 DEF PhaseOf, DueOf
  <1>6. \A m \in Msg \ {n} : PhaseOf(t, m)' = PhaseOf(t, m) /\ DueOf(t, m)' = DueOf(t, m)
    BY <1>1, <1>4, SameView
  <1>7. PhaseOf(t, n)' = IF v # t \/ ph = "refused" \/ (ph = "called" /\ at = Immediate)
                         THEN "new" ELSE ph
    BY <1>1, <1>4, PhaseSeenNext
  <1>8. DueOf(t, n)' = IF v # t \/ ph = "refused" THEN Immediate ELSE at
    BY <1>4 DEF DueOf
  <1>9. fifo' = fifo /\ phase' # phase
    BY <1>3, <1>4 DEF NewMessage
  <1> QED
    BY <1>5, <1>6, <1>7, <1>8, <1>9

\* A message that is refused, and an immediate one that is not pushed yet, are not
\* seen; a delayed one was called.
LEMMA NewImplements ==
    ASSUME Inv, Inv', [Next]_vars, ~Join, NEW t \in Thread, NEW v \in Thread, NEW at,
           \/ Refused(v, at)
           \/ \E a \in Actor : \E op, label : Called(a, v, at, op, label)
    PROVE  TQStep(t)
  <1>1. TypeOK /\ CallInv /\ LifeInv /\ CurInv
    BY DEF Inv
  <1>2. PICK ph \in {"refused", "called"} :
            NewMessage(v, at, ph) /\ (Refused(v, at) => ph = "refused")
    BY DEF Refused, Called
  <1>3. PICK n \in Msg : n = used + 1
    BY <1>1, <1>2, BoundAssumption DEF NewMessage, TypeOK, Msg
  <1>4. UNCHANGED <<now, State(t)>> /\ fifo' = fifo
    BY <1>1, <1>2, <1>3, StateKept, NewView
  <1>5. CASE v # t \/ ph = "refused" \/ at = Immediate
    <2>1. \A m \in Msg : PhaseOf(t, m)' = PhaseOf(t, m) /\ DueOf(t, m)' = DueOf(t, m)
      BY <1>2, <1>3, <1>5, NewView
    <2> QED
      BY <1>4, <2>1, Stutters DEF TQStep
  <1>6. CASE v = t /\ ph = "called" /\ at # Immediate
    <2>1. PICK a \in Actor : \E op, label : Called(a, v, at, op, label)
      <3>1. CASE Refused(v, at)
        BY <1>2, <1>6, <3>1
      <3> QED
        BY <3>1
    <2>2. MayUse(a, t) /\ \E ms \in Delay : at = now + ms
      BY <1>6, <2>1 DEF Called
    <2>3. PICK ms \in Delay : at = now + ms
      BY <2>2
    <2>4. TQ(t)!MayPost
      <3>1. CASE a = t
        <4>1. pc[t] \in InHandler /\ pc[t] # "deleted"
          BY <2>2, <3>1, OwnerAssumption, PlaceValues DEF MayUse, Rest
        <4> QED
          BY <1>1, <4>1, BusyThread DEF TQ!MayPost, State
      <3>2. CASE a # t
        BY <2>2, <3>2 DEF MayUse, TQ!MayPost, State
      <3> QED
        BY <3>1, <3>2
    <2>5. /\ PhaseOf(t, n) = "new"
          /\ PhaseOf(t, n)' = "called" /\ DueOf(t, n)' = now + ms
          /\ \A m \in Msg \ {n} :
                 PhaseOf(t, m)' = PhaseOf(t, m) /\ DueOf(t, m)' = DueOf(t, m)
      BY <1>2, <1>3, <1>6, <2>3, NewView
    <2>6. [m \in Msg |-> DueOf(t, m)]' =
              [[m \in Msg |-> DueOf(t, m)] EXCEPT ![n] = now + ms]
      BY <2>5
    <2>7. TQ(t)!CallPostDelayedTask(n, ms)
      BY <1>4, <2>4, <2>5, <2>6, OneMoves DEF TQ!CallPostDelayedTask
    <2> QED
      BY <2>7 DEF TQStep, TQ!Next
  <1> QED
    BY <1>2, <1>5, <1>6

\* Only one message changes its phase.
LEMMA PhaseMoves ==
    ASSUME Inv, Inv', NEW t \in Thread, NEW n \in Msg, NEW ph,
           phase' = [phase EXCEPT ![n] = ph], UNCHANGED <<to, due>>,
           ph # "refused", ph # "called"
    PROVE  /\ \A m \in Msg \ {n} : PhaseOf(t, m)' = PhaseOf(t, m)
           /\ to[n] # t => PhaseOf(t, n)' = PhaseOf(t, n)
           /\ to[n] = t => PhaseOf(t, n)' = ph
           /\ phase[n] # "refused" => \A m \in Msg : DueOf(t, m)' = DueOf(t, m)
  <1>1. TypeOK /\ LifeInv /\ LifeInv'
    BY DEF Inv
  <1>2. phase'[n] = ph /\ \A m \in Msg \ {n} : phase'[m] = phase[m]
    BY <1>1 DEF TypeOK
  <1>3. \A m \in Msg \ {n} : PhaseOf(t, m)' = PhaseOf(t, m) /\ DueOf(t, m)' = DueOf(t, m)
    BY <1>1, <1>2, SameView
  <1>4. to[n] # t => PhaseOf(t, n)' = PhaseOf(t, n)
    BY DEF PhaseOf
  <1>5. to[n] = t => PhaseOf(t, n)' = ph
    BY <1>1, <1>2, PhaseSeenNext
  <1>6. phase[n] # "refused" => DueOf(t, n)' = DueOf(t, n)
    BY <1>2 DEF DueOf
  <1> QED
    BY <1>3, <1>4, <1>5, <1>6

\* A push is PostTask, or the end of PostDelayedTask.
LEMMA PushImplements ==
    ASSUME Inv, Inv', [Next]_vars, ~Join, NEW t \in Thread, NEW a \in Actor, Push(a)
    PROVE  TQStep(t)
  <1>1. TypeOK /\ CallInv /\ SendInv /\ LifeInv /\ CurInv /\ DeleteInv
    BY DEF Inv
  <1>2. PICK m \in Msg : m = call[a].msg /\ phase[m] = "called" /\ to[m] = call[a].to
    BY <1>1, PushedMessage, PlaceValues DEF Push
  <1>3. phase' = [phase EXCEPT ![m] = "queued"] /\ UNCHANGED <<to, due>>
    BY <1>2 DEF Push
  <1>4. UNCHANGED <<now, State(t)>>
    <2>1. phase' # phase
      BY <1>1, <1>2, <1>3 DEF TypeOK
    <2> QED
      BY <1>1, <2>1, StateKept
  <1>5. /\ \A x \in Msg \ {m} : PhaseOf(t, x)' = PhaseOf(t, x)
        /\ \A x \in Msg : DueOf(t, x)' = DueOf(t, x)
        /\ to[m] # t => PhaseOf(t, m)' = PhaseOf(t, m)
        /\ to[m] = t => PhaseOf(t, m)' = "queued"
    BY <1>2, <1>3, PhaseMoves
  <1>6. CASE to[m] # t
    <2>1. fifo'[t] = fifo[t]
      BY <1>1, <1>2, <1>6 DEF Push, TypeOK
    <2> QED
      BY <1>4, <1>5, <1>6, <2>1, Stutters DEF TQStep
  <1>7. CASE to[m] = t /\ due[m] = Immediate
    <2>1. fifo'[t] = Append(fifo[t], m)
      BY <1>1, <1>2, <1>7 DEF Push, TypeOK
    <2>2. PhaseOf(t, m) = "new"
      BY <1>2, <1>7 DEF PhaseOf
    <2>3. TQ(t)!MayPost
      <3>1. a \in {t, Owner} \/ State(t) = "live"
        BY <1>1, <1>2, <1>7 DEF DeleteInv, State
      <3>2. State(t) # "deleted"
        BY <1>1, <1>2, <1>7 DEF DeleteInv, State
      <3>3. CASE a = t
        <4>1. pc[t] \in InHandler
          BY <3>3, PlaceValues DEF Push
        <4> QED
          BY <1>1, <3>2, <4>1, BusyThread DEF TQ!MayPost, State
      <3>4. CASE a = Owner
        <4>1. call[Owner].op # "delete"
          BY <1>1, <3>4 DEF Push, CallInv, PlaceOfCall
        <4> QED
          BY <3>2, <4>1 DEF TQ!MayPost, State
      <3> QED
        BY <3>1, <3>3, <3>4 DEF TQ!MayPost
    <2>4. TQ(t)!PostTask(m)
      BY <1>4, <1>5, <1>7, <2>1, <2>2, <2>3, OneMoves DEF TQ!PostTask
    <2> QED
      BY <2>4 DEF TQStep, TQ!Next
  <1>8. CASE to[m] = t /\ due[m] # Immediate
    <2>1. fifo'[t] = fifo[t]
      BY <1>1, <1>2, <1>8 DEF Push, TypeOK
    <2>2. PhaseOf(t, m) = "called"
      BY <1>2, <1>8 DEF PhaseOf
    <2>3. TQ(t)!PostDelayedTask(m)
      BY <1>4, <1>5, <1>8, <2>1, <2>2, OneMoves DEF TQ!PostDelayedTask
    <2> QED
      BY <2>3 DEF TQStep, TQ!Next
  <1> QED
    BY <1>6, <1>7, <1>8

\* The task of a Send that is refused was never seen.
LEMMA RefusalImplements ==
    ASSUME Inv, Inv', [Next]_vars, ~Join, NEW t \in Thread, NEW a \in Actor, SendRefused(a)
    PROVE  TQStep(t)
  <1>1. TypeOK /\ CallInv /\ SendInv /\ LifeInv /\ LifeInv'
    BY DEF Inv
  <1>2. PICK m \in Msg : m = call[a].msg /\ phase[m] = "called"
    BY <1>1, PushedMessage, PlaceValues DEF SendRefused, SendPosts
  <1>3. due[m] = Immediate
    BY <1>1, <1>2 DEF SendRefused, SendPosts, CallInv, PlaceOfCall, SendInv
  <1>4. /\ phase' = [phase EXCEPT ![m] = "refused"]
        /\ UNCHANGED <<to, due, fifo>>
    BY <1>2 DEF SendRefused, SendPosts
  <1>5. phase'[m] = "refused" /\ \A x \in Msg \ {m} : phase'[x] = phase[x]
    BY <1>1, <1>4 DEF TypeOK
  <1>6. UNCHANGED <<now, State(t)>>
    BY <1>1, <1>2, <1>5, StateKept
  <1>7. \A x \in Msg \ {m} : PhaseOf(t, x)' = PhaseOf(t, x) /\ DueOf(t, x)' = DueOf(t, x)
    BY <1>1, <1>4, <1>5, SameView
  <1>8. PhaseOf(t, m)' = PhaseOf(t, m) /\ DueOf(t, m)' = DueOf(t, m)
    BY <1>2, <1>3, <1>4, <1>5 DEF PhaseOf, DueOf
  <1> QED
    BY <1>4, <1>6, <1>7, <1>8, Stutters DEF TQStep

\* Get starts the first immediate message, or a delayed one whose time has come.
LEMMA TakeImplements ==
    ASSUME Inv, Inv', [Next]_vars, ~Join, NEW t \in Thread, NEW u \in Thread, GetTakes(u)
    PROVE  TQStep(t)
  <1>1. TypeOK /\ CallInv /\ QueueInv /\ FifoInv /\ LifeInv /\ CurInv
    BY DEF Inv
  <1>2. PICK m \in Msg, q \in Seq(Msg) : Takes(u, m, q)
    BY <1>1, GetTakesOne
  <1>3. /\ phase[m] = "queued" /\ to[m] = u /\ due[m] <= now
        /\ phase' = [phase EXCEPT ![m] = "running"] /\ UNCHANGED <<to, due>>
    BY <1>2 DEF Takes, GetTakes
  <1>4. UNCHANGED <<now, State(t)>>
    <2>1. phase' # phase
      BY <1>1, <1>3 DEF TypeOK
    <2> QED
      BY <1>1, <2>1, StateKept
  <1>5. /\ \A x \in Msg \ {m} : PhaseOf(t, x)' = PhaseOf(t, x)
        /\ \A x \in Msg : DueOf(t, x)' = DueOf(t, x)
        /\ u # t => PhaseOf(t, m)' = PhaseOf(t, m)
        /\ u = t => PhaseOf(t, m)' = "running"
    BY <1>3, PhaseMoves
  <1>6. CASE u # t
    <2>1. fifo'[t] = fifo[t]
      BY <1>1, <1>2, <1>6 DEF Takes, TypeOK
    <2> QED
      BY <1>4, <1>5, <1>6, <2>1, Stutters DEF TQStep
  <1>7. CASE u = t
    <2>1. State(t) # "deleted" /\ ~TQ(t)!Busy
      <3>1. pc[t] = "get"
        BY <1>7 DEF GetTakes
      <3> QED
        BY <1>1, <3>1, BusyThread, PlaceValues DEF State
    <2>2. CASE m \in Undelayed
      <3>1. fifo[t] # <<>> /\ Head(fifo[t]) = m /\ fifo'[t] = Tail(fifo[t])
        BY <1>1, <1>2, <1>7, <2>2 DEF Takes, TypeOK
      <3>2. TQ(t)!StartImmediate
        BY <1>4, <1>5, <1>7, <2>1, <3>1, OneMoves DEF TQ!StartImmediate
      <3> QED
        BY <3>2 DEF TQStep, TQ!Next
    <2>3. CASE m \notin Undelayed
      <3>1. fifo' = fifo
        BY <1>2, <2>3 DEF Takes
      <3>2. PhaseOf(t, m) = "queued" /\ DueOf(t, m) = due[m] /\ due[m] # Immediate
        BY <1>1, <1>3, <1>7, <2>3, PhaseSeen DEF DueOf, Undelayed
      <3>3. TQ(t)!StartDelayed(m)
        BY <1>3, <1>4, <1>5, <1>7, <2>1, <3>1, <3>2, OneMoves
           DEF TQ!StartDelayed, TQ!Immediate, Immediate
      <3> QED
        BY <3>3 DEF TQStep, TQ!Next
    <2> QED
      BY <2>2, <2>3
  <1> QED
    BY <1>6, <1>7

\* A handler that returns finishes the message it was called with.
LEMMA ReturnImplements ==
    ASSUME Inv, Inv', [Next]_vars, ~Join, NEW t \in Thread, NEW u \in Thread,
           HandlerReturns(u)
    PROVE  TQStep(t)
  <1>1. TypeOK /\ CallInv /\ LifeInv /\ CurInv
    BY DEF Inv
  <1>2. PICK m \in Msg : m = cur[u] /\ phase[m] = "running" /\ to[m] = u
    BY <1>1, DispatchedMessage DEF HandlerReturns
  <1>3. phase' = [phase EXCEPT ![m] = "done"] /\ UNCHANGED <<to, due, fifo>>
    BY <1>2 DEF HandlerReturns
  <1>4. UNCHANGED <<now, State(t)>>
    <2>1. phase' # phase
      BY <1>1, <1>2, <1>3 DEF TypeOK
    <2> QED
      BY <1>1, <2>1, StateKept
  <1>5. /\ \A x \in Msg \ {m} : PhaseOf(t, x)' = PhaseOf(t, x)
        /\ \A x \in Msg : DueOf(t, x)' = DueOf(t, x)
        /\ u # t => PhaseOf(t, m)' = PhaseOf(t, m)
        /\ u = t => PhaseOf(t, m)' = "done"
    <2>1. UNCHANGED <<to, due>>
      BY <1>3
    <2>2. /\ \A x \in Msg \ {m} : PhaseOf(t, x)' = PhaseOf(t, x)
          /\ to[m] # t => PhaseOf(t, m)' = PhaseOf(t, m)
          /\ to[m] = t => PhaseOf(t, m)' = "done"
          /\ phase[m] # "refused" => \A x \in Msg : DueOf(t, x)' = DueOf(t, x)
      BY <1>3, <2>1, PhaseMoves
    <2> QED
      BY <1>2, <2>2
  <1>6. CASE u # t
    BY <1>3, <1>4, <1>5, <1>6, Stutters DEF TQStep
  <1>7. CASE u = t
    <2>1. PhaseOf(t, m) = "running"
      BY <1>1, <1>2, <1>7, PhaseSeen
    <2>2. TQ(t)!Finish(m)
      BY <1>3, <1>4, <1>5, <1>7, <2>1, OneMoves DEF TQ!Finish
    <2> QED
      BY <2>2 DEF TQStep, TQ!Next
  <1> QED
    BY <1>6, <1>7

\* The join of a Delete is its return: the thread runs nothing, nobody is about to
\* push a message to it, and what is left in its queue is dropped.
LEMMA JoinImplements ==
    ASSUME Inv, Inv', NEW t \in Thread, Join
    PROVE  TQStep(t)
  <1>1. TypeOK /\ CallInv /\ LifeInv /\ LifeInv' /\ CurInv /\ DeleteInv
    BY DEF Inv
  <1>2. PICK u \in Thread :
            /\ u = call[Owner].to /\ Owner \in Actor /\ u \in Actor /\ u # Owner
            /\ pc[Owner] = "join" /\ pc[u] \in {"exited", "stopped"}
            /\ call'[Owner] = NoCall
            /\ \A b \in Actor \ {Owner, u} : pc'[b] = pc[b]
            /\ \/ call[Owner].op = "stop" /\ pc'[u] = "stopped"
               \/ call[Owner].op = "delete" /\ pc'[u] = "deleted"
    BY <1>1, JoinedCall
  <1>3. UNCHANGED <<now, to, due>> /\ call'[Owner].op = "none"
    BY <1>2 DEF Join, NoCall
  <1>4. t \in Actor /\ t # Owner
    BY OwnerAssumption DEF Actor
  <1>5. CASE call[Owner].op = "stop"
    <2>1. UNCHANGED <<phase, fifo>>
      BY <1>5 DEF Join
    <2>2. pc'[t] = "deleted" <=> pc[t] = "deleted"
      BY <1>2, <1>4, <1>5
    <2>3. State(t)' = State(t)
      BY <1>3, <1>5, <2>2 DEF State
    <2>4. \A m \in Msg : PhaseOf(t, m)' = PhaseOf(t, m) /\ DueOf(t, m)' = DueOf(t, m)
      BY <1>1, <1>3, <2>1, SameView
    <2> QED
      BY <1>3, <2>1, <2>3, <2>4, Stutters DEF TQStep
  <1>6. CASE call[Owner].op = "delete"
    <2>1. /\ fifo' = [fifo EXCEPT ![u] = <<>>]
          /\ phase' = [m \in Msg |-> IF to[m] = u /\ phase[m] = "queued" THEN "dropped"
                                                                        ELSE phase[m]]
      BY <1>2, <1>6 DEF Join
    <2>2. ASSUME NEW m \in Msg
          PROVE  DueOf(t, m)' = DueOf(t, m)
      BY <1>3, <2>1 DEF DueOf
    <2>3. CASE u # t
      <3>1. pc'[t] = pc[t] /\ fifo'[t] = fifo[t]
        BY <1>1, <1>2, <1>4, <2>1, <2>3 DEF TypeOK
      <3>2. State(t)' = State(t)
        BY <1>2, <1>3, <2>3, <3>1 DEF State
      <3>3. ASSUME NEW m \in Msg PROVE PhaseOf(t, m)' = PhaseOf(t, m)
        <4>1. CASE to[m] # t
          BY <1>3, <4>1 DEF PhaseOf
        <4>2. CASE to[m] = t
          <5>1. phase'[m] = phase[m]
            BY <2>1, <2>3, <4>2
          <5> QED
            BY <1>1, <1>3, <5>1, SameView
        <4> QED
          BY <4>1, <4>2
      <3> QED
        BY <1>3, <2>2, <3>1, <3>2, <3>3, Stutters DEF TQStep
    <2>4. CASE u = t
      <3>1. State(t) = "deleting" /\ State(t)' = "deleted"
        BY <1>2, <1>6, <2>4 DEF State
      <3>2. ~TQ(t)!Busy
        BY <1>1, <1>2, <2>4, BusyThread, PlaceValues
      <3>3. ASSUME NEW m \in Msg, PhaseOf(t, m) = "called" PROVE FALSE
        <4>1. to[m] = t /\ phase[m] = "called"
          BY <1>1, <3>3, PhaseSeen
        <4>2. PICK a \in Actor : call[a].msg = m /\ pc[a] \in Unpushed
          BY <1>1, <4>1 DEF LifeInv, LifeOf
        <4>3. call[a].to = t
          BY <1>1, <4>1, <4>2, CallMessage DEF Msg, NoMsg
        <4>4. a \in {t, Owner}
          BY <1>1, <1>2, <1>6, <2>4, <4>3 DEF DeleteInv
        <4> QED
          BY <1>2, <2>4, <4>2, <4>4, PlaceValues
      <3>4. ASSUME NEW m \in Msg
            PROVE  PhaseOf(t, m)' = IF PhaseOf(t, m) = "queued" THEN "dropped"
                                    ELSE PhaseOf(t, m)
        <4>1. phase'[m] = IF to[m] = t /\ phase[m] = "queued" THEN "dropped" ELSE phase[m]
          BY <2>1, <2>4
        <4> QED
          BY <1>1, <1>3, <4>1, PhaseSeen, PhaseSeenNext
      <3>5. fifo'[t] = <<>>
        BY <1>1, <2>1, <2>4 DEF TypeOK
      <3>6. TQ(t)!DeleteReturns
        BY <1>3, <2>2, <3>1, <3>2, <3>3, <3>4, <3>5 DEF TQ!DeleteReturns
      <3> QED
        BY <3>6 DEF TQStep, TQ!Next
    <2> QED
      BY <2>3, <2>4
  <1> QED
    BY <1>2, <1>5, <1>6

LEMMA StepImplements ==
    ASSUME Inv, Inv', [Next]_vars, NEW t \in Thread
    PROVE  TQStep(t)
  <1>1. TypeOK /\ CallInv
    BY DEF Inv
  <1>2. CASE Join
    BY <1>2, JoinImplements
  <1>3. CASE ~Join
    <2>1. ASSUME NEW a \in Actor, Quiet(a) \/ Push(a) \/ SendRefused(a) PROVE TQStep(t)
      BY <1>3, <2>1, QuietImplements, PushImplements, RefusalImplements
    <2>2. ASSUME NEW v \in Thread, NEW at, Refused(v, at) PROVE TQStep(t)
      BY <1>3, <2>2, NewImplements
    <2>3. ASSUME NEW a \in Actor, NEW v \in Thread, NEW at, NEW op, NEW label,
                 Called(a, v, at, op, label)
          PROVE  TQStep(t)
      BY <1>3, <2>3, NewImplements
    <2>4. ASSUME NEW u \in Thread, GetTakes(u) \/ HandlerReturns(u) PROVE TQStep(t)
      BY <1>3, <2>4, TakeImplements, ReturnImplements
    <2> QED
      BY <1>1, <1>3, <2>1, <2>2, <2>3, <2>4, StepsSort
  <1> QED
    BY <1>2, <1>3

\* Each rtc::Thread implements TaskQueueBase (ImplementsTaskQueueBase), however
\* many threads post and send to one another.
THEOREM RefinesTaskQueueBase == Spec => ImplementsTaskQueueBase
  <1>1. Init => \A t \in Thread : TQ(t)!Init
    BY InitImplements
  <1>2. Inv /\ Inv' /\ [Next]_vars =>
            [\A t \in Thread : [TQ(t)!Next]_(TQ(t)!vars)]_vars
    BY StepImplements DEF TQStep
  <1> QED
    BY <1>1, <1>2, InvCorrect, PTL DEF Spec, ImplementsTaskQueueBase

-----------------------------------------------------------------------------
(* Chains of Sends.                                                        *)

\* A sender that was told that its task is over has been woken, ...
WokenInv == \A t \in Thread : pc[t] = "blocked" /\ call[t].ready => event_[t]

\* ... and tasks are dropped only with their thread.
DroppedInv == \A m \in Msg : phase[m] = "dropped" => pc[to[m]] = "deleted"

LEMMA WokenInvStep == Inv /\ WokenInv /\ [Next]_vars => WokenInv'
  <1> SUFFICES ASSUME Inv, WokenInv, [Next]_vars, NEW t \in Thread,
                      pc'[t] = "blocked", call'[t].ready
               PROVE  event_'[t]
    BY DEF WokenInv
  <1>0. TypeOK /\ CallInv /\ t \in Actor /\ t # Owner
    BY OwnerAssumption DEF Inv, Actor
  <1>1. ASSUME pc[t] = "blocked", call'[t].ready = call[t].ready, event_[t] => event_'[t]
        PROVE  event_'[t]
    BY <1>1 DEF WokenInv
  <1>2. ASSUME NEW a \in Actor, Completes(a), pc[t] = "blocked" PROVE event_'[t]
    <2>1. CASE a = t
      BY <1>0, <1>2, <2>1 DEF Completes, WakeUp, TypeOK
    <2>2. CASE a # t
      <3>1. call'[t] = call[t]
        BY <1>0, <1>2, <2>2, CompletedCall
      <3>2. event_[t] => event_'[t]
        BY <1>0, <1>2, <2>2 DEF Completes, WakeUp, TypeOK
      <3> QED
        BY <1>1, <1>2, <3>1, <3>2
    <2> QED
      BY <2>1, <2>2
  <1>3. ASSUME NEW a \in Actor, NEW label, label # "blocked", Goes(a, label)
        PROVE  a # t /\ pc[t] = "blocked"
    BY <1>0, <1>3 DEF Goes, TypeOK
  <1>4. ASSUME NEW a \in Actor, Returns(a)
        PROVE  pc[t] = "blocked" /\ call'[t] = call[t]
    <2>1. Rest(a) # "blocked" /\ Goes(a, Rest(a))
      BY <1>4 DEF Returns, Rest
    <2>2. a # t /\ pc[t] = "blocked"
      BY <1>3, <2>1
    <2> QED
      BY <1>0, <1>4, <2>2 DEF Returns, TypeOK
  <1>5. ASSUME NEW u \in Thread, WakeUp(u) PROVE event_[t] => event_'[t]
    BY <1>0, <1>5 DEF WakeUp, TypeOK
  <1>6. ASSUME NEW a \in Actor, NEW u \in Thread, Calls(a, u) PROVE event_'[t]
    <2>1. UNCHANGED event_
      BY <1>6 DEF Calls, PostDelayed, PostDelayedAborts, Post, Send, Quit
    <2>2. ASSUME NEW op, NEW m, NEW label, label # "blocked", Enter(a, op, u, m, label)
          PROVE  pc[t] = "blocked" /\ call'[t] = call[t]
      BY <1>0, <1>3, <2>2 DEF Enter, TypeOK
    <2>3. pc[t] = "blocked" /\ call'[t] = call[t]
      BY <1>6, <2>2 DEF Calls, PostDelayed, PostDelayedAborts, Post, Send, Quit
    <2> QED
      BY <1>1, <2>1, <2>3
  <1>7. ASSUME NEW a \in Actor, CallContinues(a) PROVE event_'[t]
    <2>1. CASE Push(a)
      BY <1>1, <1>3, <2>1 DEF Push
    <2>2. CASE WakeUpSocketServer(a) \/ QuitWakes(a)
      <3>1. call[a].to \in Thread
        BY <1>0, <2>2 DEF WakeUpSocketServer, QuitWakes, CallInv, PlaceOfCall, SubjectOfCall,
                          Calling
      <3>2. event_[t] => event_'[t]
        BY <1>5, <2>2, <3>1 DEF WakeUpSocketServer, QuitWakes
      <3> QED
        BY <1>1, <1>3, <1>4, <2>2, <3>2 DEF WakeUpSocketServer, QuitWakes
    <2>3. CASE SendPosts(a)
      BY <1>1, <1>2, <1>3, <2>3 DEF SendPosts
    <2>4. CASE SendTests(a)
      <3>1. CASE a = t
        BY <1>0, <1>3, <1>4, <2>4, <3>1 DEF SendTests, SendDone
      <3>2. CASE a # t
        <4>1. pc[t] = "blocked" /\ call'[t] = call[t]
          BY <1>0, <1>3, <1>4, <2>4, <3>2 DEF SendTests, Goes, TypeOK
        <4> QED
          BY <1>1, <2>4, <4>1 DEF SendTests
      <3> QED
        BY <3>1, <3>2
    <2> QED
      BY <1>7, <2>1, <2>2, <2>3, <2>4 DEF CallContinues
  <1>8. ASSUME NEW u \in Thread, ThreadStep(u) PROVE event_'[t]
    <2>0. u \in Actor
      BY DEF Actor
    <2>1. CASE SendWaits(u)
      <3>1. u # t /\ pc[t] = "blocked"
        BY <1>3, <2>0, <2>1 DEF SendWaits
      <3> QED
        BY <1>0, <1>1, <2>1, <3>1 DEF SendWaits, TypeOK
    <2>2. CASE SendRewakes(u)
      BY <1>1, <1>4, <1>5, <2>0, <2>2 DEF SendRewakes
    <2>3. CASE GetTakes(u) \/ GetFindsNone(u)
      BY <1>1, <1>3, <2>0, <2>3 DEF GetTakes, GetFindsNone
    <2>4. CASE GetQuitsOrWaits(u)
      BY <1>1, <1>3, <2>0, <2>4 DEF GetQuitsOrWaits
    <2>5. CASE WaitReturns(u)
      <3>1. u # t /\ pc[t] = "blocked"
        BY <1>3, <2>0, <2>5 DEF WaitReturns
      <3> QED
        BY <1>0, <1>1, <2>5, <3>1 DEF WaitReturns, TypeOK
    <2>6. CASE HandlerReturns(u)
      BY <1>1, <1>2, <1>3, <2>0, <2>6 DEF HandlerReturns
    <2> QED
      BY <1>8, <2>1, <2>2, <2>3, <2>4, <2>5, <2>6 DEF ThreadStep
  <1>9. CASE SendWaitsForDone
    BY <1>1, <1>4, <1>9 DEF SendWaitsForDone, Actor
  <1>10. CASE Join
    <2>1. call'[t] = call[t] /\ pc[t] = "blocked"
      BY <1>0, <1>10, JoinedCall
    <2> QED
      BY <1>1, <1>10, <2>1 DEF Join
  <1>11. CASE Tick \/ UNCHANGED vars
    BY <1>1, <1>11 DEF Tick, vars
  <1> QED
    BY <1>6, <1>7, <1>8, <1>9, <1>10, <1>11 DEF Next

\* Only the Join of Delete drops a message.
LEMMA DroppedBefore ==
    ASSUME Inv, [Next]_vars, ~Join, NEW m \in Msg, phase'[m] = "dropped"
    PROVE  phase[m] = "dropped" /\ to'[m] = to[m]
  <1>0. TypeOK /\ CallInv /\ CurInv /\ QueueInv /\ FifoInv
    BY DEF Inv
  <1>1. ASSUME NEW u, NEW at, NEW ph, ph # "dropped", NewMessage(u, at, ph)
        PROVE  phase[m] = "dropped" /\ to'[m] = to[m]
    BY <1>0, <1>1, NewMessageNumber
  <1>2. ASSUME NEW x, NEW ph, ph # "dropped", phase' = [phase EXCEPT ![x] = ph], to' = to
        PROVE  phase[m] = "dropped" /\ to'[m] = to[m]
    BY <1>0, <1>2 DEF TypeOK
  <1>3. ASSUME NEW a \in Actor, Quiet(a) \/ Push(a) \/ SendRefused(a)
        PROVE  phase[m] = "dropped" /\ to'[m] = to[m]
    BY <1>2, <1>3 DEF Quiet, life, Push, SendRefused, SendPosts
  <1>4. ASSUME NEW u \in Thread, GetTakes(u) \/ HandlerReturns(u)
        PROVE  phase[m] = "dropped" /\ to'[m] = to[m]
    <2>1. CASE GetTakes(u)
      BY <1>2, <2>1 DEF GetTakes
    <2>2. CASE HandlerReturns(u)
      BY <1>2, <2>2 DEF HandlerReturns
    <2> QED
      BY <1>4, <2>1, <2>2
  <1>5. ASSUME NEW t \in Thread, NEW at, Refused(t, at)
        PROVE  phase[m] = "dropped" /\ to'[m] = to[m]
    BY <1>1, <1>5 DEF Refused
  <1>6. ASSUME NEW a \in Actor, NEW t \in Thread, NEW at, NEW op, NEW label,
               Called(a, t, at, op, label)
        PROVE  phase[m] = "dropped" /\ to'[m] = to[m]
    BY <1>1, <1>6 DEF Called
  <1> QED
    BY <1>0, <1>3, <1>4, <1>5, <1>6, StepsSort

LEMMA DroppedInvStep == Inv /\ DroppedInv /\ [Next]_vars => DroppedInv'
  <1> SUFFICES ASSUME Inv, DroppedInv, [Next]_vars, NEW m \in Msg, phase'[m] = "dropped"
               PROVE  pc'[to'[m]] = "deleted"
    BY DEF DroppedInv
  <1>0. TypeOK /\ CallInv
    BY DEF Inv
  <1>1. CASE Join
    <2>1. PICK t \in Thread : t = call[Owner].to
      BY <1>0, <1>1, JoinedCall
    <2>2. /\ pc[t] # "deleted" /\ pc[Owner] = "join" /\ to' = to
          /\ \A b \in Actor \ {Owner, t} : pc'[b] = pc[b]
          /\ \/ call[Owner].op = "stop"
             \/ call[Owner].op = "delete" /\ pc'[t] = "deleted"
      BY <1>0, <1>1, <2>1, JoinedCall DEF Join
    <2>3. phase[m] = "dropped" \/ (to[m] = t /\ call[Owner].op = "delete")
      BY <1>0, <1>1, <2>1, <2>2 DEF Join, TypeOK
    <2>4. CASE phase[m] = "dropped"
      <3>1. pc[to[m]] = "deleted" /\ to[m] \in Actor
        BY <1>0, <2>4 DEF DroppedInv, TypeOK
      <3> QED
        BY <2>2, <3>1
    <2> QED
      BY <2>2, <2>3, <2>4
  <1>2. CASE ~Join
    <2>1. phase[m] = "dropped" /\ to'[m] = to[m]
      BY <1>2, DroppedBefore
    <2>2. pc[to[m]] = "deleted" /\ to[m] \in Actor
      BY <1>0, <2>1 DEF DroppedInv, TypeOK
    <2> QED
      BY <1>0, <1>2, <2>1, <2>2, DeleteStays
  <1> QED
    BY <1>1, <1>2

\* The target of a blocked Send that is in no Send of its own is awake, or gone.
LEMMA TargetMoves ==
    ASSUME Inv, DroppedInv, NEW a \in Actor, pc[a] = "blocked", ~call[a].ready,
           NEW v \in Thread, v = call[a].to, call[v].op # "send"
    PROVE  Awake(v) \/ Exited(v)
  <1>0. /\ TypeOK /\ CallInv /\ SendInv /\ CurInv /\ LifeInv /\ QueueInv /\ WakeInv
        /\ v \in Actor /\ v # Owner
    BY OwnerAssumption DEF Inv, Actor
  <1>1. call[a].op = "send"
    BY <1>0 DEF CallInv, PlaceOfCall
  <1>2. PICK m \in Msg : m = call[a].msg
    BY <1>0, <1>1, CallMessage
  <1>3. /\ m \in 1..used /\ to[m] = v /\ due[m] = Immediate
        /\ phase[m] \notin {"done", "refused"}
    BY <1>0, <1>1, <1>2 DEF CallInv, SubjectOfCall, SendInv
  <1>4. phase[m] # "new" /\ phase[m] # "called"
    <2>1. phase[m] # "new"
      BY <1>0, <1>3 DEF LifeInv, LifeOf, TypeOK
    <2>2. ASSUME phase[m] = "called" PROVE FALSE
      <3>1. PICK b \in Actor : call[b].msg = m /\ pc[b] \in Unpushed
        BY <1>0, <2>2 DEF LifeInv, LifeOf
      <3>2. b = a
        BY <1>0, <1>2, <3>1 DEF SendInv, Msg, NoMsg
      <3> QED
        BY <3>1, <3>2 DEF Unpushed
    <2> QED
      BY <2>1, <2>2
  <1>5. pc[v] # "blocked"
    BY <1>0 DEF CallInv, PlaceOfCall
  <1>6. CASE phase[m] = "dropped"
    BY <1>3, <1>6 DEF DroppedInv, Exited
  <1>7. CASE phase[m] = "running"
    <2>1. cur[v] = m /\ m # NoMsg
      BY <1>0, <1>3, <1>7 DEF LifeInv, LifeOf, Msg, NoMsg
    <2>2. pc[v] \in InHandler
      BY <1>0, <2>1 DEF CurInv
    <2> QED
      BY <1>5, <2>2, PlaceValues DEF Awake, Exited
  <1>8. CASE phase[m] = "queued"
    <2>1. InQueue(v, m)
      BY <1>0, <1>3, <1>8 DEF LifeInv, LifeOf
    <2>2. \A d \in delayed_messages_[v] : d.msg # m
      BY <1>0, <1>3 DEF QueueInv, QueueOf, TypeOK, DelayedMessage, Immediate
    <2>3. messages_[v] # <<>>
      BY <1>0, <2>1, <2>2 DEF InQueue, TypeOK
    <2>4. pc[v] = "wait" => WakeComing(v)
      BY <1>0, <2>3 DEF WakeInv, WakeOf
    <2> QED
      BY <1>5, <2>4 DEF Awake
  <1> QED
    BY <1>0, <1>3, <1>4, <1>6, <1>7, <1>8 DEF TypeOK, Phase

\* In a chain of Sends somebody is awake, or gone (SendChainMoves), for any number
\* of threads: a Send is never blocked by threads that all sleep.
THEOREM SendChainCorrect == Spec => []SendChainMoves
  <1>1. Inv /\ NoSendCycle /\ WokenInv /\ DroppedInv => SendChainMoves
    <2> SUFFICES ASSUME Inv, NoSendCycle, WokenInv, DroppedInv,
                        NEW a \in Actor, NEW S \in SUBSET Thread,
                        pc[a] = "blocked", ~call[a].ready, call[a].to \in S,
                        \A t \in S : call[t].op = "send" => call[t].to \in S
                 PROVE  \E t \in S : Awake(t) \/ Exited(t)
      BY DEF SendChainMoves
    <2>0. CallInv /\ S \subseteq Actor
      BY DEF Inv, Actor
    <2> DEFINE W == {t \in S : call[t].op = "send"}
    <2>1. CASE W = {}
      BY <2>1, TargetMoves
    <2>2. CASE W # {}
      <3>1. PICK u \in W : ~(call[u].op = "send" /\ call[u].to \in W)
        BY <2>2 DEF NoSendCycle
      <3>2. u \in S /\ u \in Thread /\ call[u].op = "send" /\ call[u].to \in S \ W
        BY <3>1
      <3>3. CASE pc[u] # "blocked"
        <4>1. pc[u] \in Calling
          BY <2>0, <3>2 DEF CallInv, PlaceOfCall
        <4>2. pc[u] # "wait" /\ ~Exited(u)
          BY <4>1 DEF Calling, Exited
        <4> QED
          BY <3>2, <3>3, <4>2 DEF Awake
      <3>4. CASE pc[u] = "blocked" /\ call[u].ready
        BY <3>2, <3>4 DEF WokenInv, Awake, WakeComing, Exited
      <3>5. CASE pc[u] = "blocked" /\ ~call[u].ready
        <4>1. PICK v \in S : v = call[u].to /\ call[v].op # "send"
          BY <3>2
        <4>2. Awake(v) \/ Exited(v)
          BY <2>0, <3>2, <3>5, <4>1, TargetMoves
        <4> QED
          BY <4>2
      <3> QED
        BY <3>3, <3>4, <3>5
    <2> QED
      BY <2>1, <2>2
  <1>2. Init => WokenInv /\ DroppedInv
    BY DEF Init, WokenInv, DroppedInv, Actor
  <1> QED
    BY <1>1, <1>2, WokenInvStep, DroppedInvStep, InvCorrect, NoSendCycleCorrect, PTL DEF Spec
=============================================================================
