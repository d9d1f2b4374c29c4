------------------------- MODULE AsyncInvokerProofs -------------------------
(***************************************************************************)
(* Proofs about AsyncInvoker, for any set of threads and any number of     *)
(* closures.                                                               *)
(***************************************************************************)
EXTENDS AsyncInvoker, FiniteSetTheorems, TLAPS

\* The closures that exist.
Live == {c \in Call : at[c] # Free}

\* The counter counts them.
CountInv == TypeOK /\ pending_invocations_ = Cardinality(Live)

\* A set of closures is finite, and not larger than Call.
LEMMA SomeCalls ==
    ASSUME NEW S \in SUBSET Call
    PROVE  IsFiniteSet(S) /\ Cardinality(S) \in 0..Cardinality(Call)
  <1>1. /\ IsFiniteSet(S) /\ Cardinality(S) <= Cardinality(Call)
        /\ Cardinality(S) \in Nat /\ Cardinality(Call) \in Nat
    BY CallAssumption, FS_Subset, FS_CardinalityType
  <1>2. QED
    BY <1>1

\* Initially there are none.
LEMMA InitCounts == Init => CountInv
  <1> SUFFICES ASSUME Init PROVE CountInv
    OBVIOUS
  <1>1. Live = {}
    BY DEF Init, Live
  <1>2. pending_invocations_ = Cardinality(Live)
    BY <1>1, FS_EmptySet DEF Init
  <1>3. 0 \in 0..Cardinality(Call)
    BY CallAssumption, FS_CardinalityType
  <1>4. QED
    BY <1>2, <1>3, HomeAssumption DEF Init, CountInv, TypeOK, Free, NoFlush

\* Every step counts the closures it creates or destroys.
LEMMA NextCounts == CountInv /\ [Next]_vars => CountInv'
  <1> SUFFICES ASSUME CountInv, [Next]_vars PROVE CountInv'
    OBVIOUS
  <1> USE HomeAssumption
  <1> DEFINE Typed ==
        /\ destroying_ \in BOOLEAN
        /\ invocation_complete_ \in BOOLEAN
        /\ at \in [Call -> [is : {"free", "made", "queued", "removed", "running",
                                  "releasing"},
                            on : Thread \cup {NoThread}]]
        /\ pc \in [Thread -> {"base", "check", "post", "release", "set", "clear",
                              "invoke", "test", "wait", "destroyed"}]
        /\ target \in [Thread -> Thread]
        /\ todo \in [Thread -> SUBSET Thread]
        /\ next \in [Thread -> {"base", "test", "wait", "destroyed"}]
        /\ flush \in [on : Thread \cup {NoThread}, started : BOOLEAN]
        /\ owed \subseteq Call
  <1>t. Typed /\ pending_invocations_ = Cardinality(Live)
    BY DEF CountInv, TypeOK
  <1>l. IsFiniteSet(Live) /\ Cardinality(Live) \in Nat
    BY SomeCalls DEF Live
  <1>e. ASSUME Typed', pending_invocations_' = Cardinality(Live') PROVE CountInv'
    <2>1. Live' \in SUBSET Call
      BY DEF Live
    <2>2. Cardinality(Live') \in 0..Cardinality(Call)
      BY <2>1, SomeCalls
    <2>3. QED
      BY <1>e, <2>2 DEF CountInv, TypeOK
  <1>s. ASSUME Typed', pending_invocations_' = pending_invocations_, Live' = Live
        PROVE  CountInv'
    BY <1>e, <1>s, <1>t
  <1>1. ASSUME NEW t \in Thread, NEW u \in Thread, AsyncInvoke(t, u) PROVE CountInv'
    <2>1. PICK c \in Are(Free) : at' = [at EXCEPT ![c] = Made(t)]
      BY <1>1 DEF AsyncInvoke
    <2>2. Live' = Live \cup {c} /\ c \notin Live
      BY <2>1, <1>t DEF Live, Are, Made, Free
    <2>3. Cardinality(Live') = Cardinality(Live) + 1
      BY <2>2, <1>l, FS_AddElement
    <2>4. Typed'
      BY <2>1, <1>1, <1>t DEF AsyncInvoke, Goes, Made
    <2>5. QED
      BY <2>3, <2>4, <1>1, <1>t, <1>e DEF AsyncInvoke
  <1>2. ASSUME NEW t \in Thread, DoInvoke(t) PROVE CountInv'
    <2>1. Live' = Live
      BY <1>2, <1>t DEF DoInvoke, Live, Made, Free, Releasing
    <2>2. Typed'
      BY <1>2, <1>t DEF DoInvoke, Goes, Made, Releasing
    <2>3. QED
      BY <2>1, <2>2, <1>2, <1>s DEF DoInvoke
  <1>3. ASSUME NEW t \in Thread, Post(t) PROVE CountInv'
    <2>1. Live' = Live
      BY <1>3, <1>t DEF Post, Live, Made, Free, Queued
    <2>2. Typed'
      BY <1>3, <1>t DEF Post, Goes, Made, Queued
    <2>3. QED
      BY <2>1, <2>2, <1>3, <1>s DEF Post
  <1>4. ASSUME NEW t \in Thread, OnMessage(t) PROVE CountInv'
    <2>1. Live' = Live
      BY <1>4, <1>t DEF OnMessage, Live, Are, Free, Queued, Running
    <2>2. Typed'
      BY <1>4, <1>t DEF OnMessage, Are, Running
    <2>3. QED
      BY <2>1, <2>2, <1>4, <1>s DEF OnMessage
  <1>5. ASSUME NEW t \in Thread, FunctorReturns(t) PROVE CountInv'
    <2>1. Live' = Live
      BY <1>5, <1>t DEF FunctorReturns, Live, Are, Free, Running, Releasing
    <2>2. Typed'
      BY <1>5, <1>t DEF FunctorReturns, Goes, Are, Releasing
    <2>3. QED
      BY <2>1, <2>2, <1>5, <1>s DEF FunctorReturns
  <1>6. ASSUME NEW t \in Thread, Decrement(t) PROVE CountInv'
    <2>1. PICK c \in Are(Releasing(t)) : at' = [at EXCEPT ![c] = Free] /\ owed' = owed \ {c}
      BY <1>6 DEF Decrement
    <2>2. Live' = Live \ {c} /\ c \in Live
      BY <2>1, <1>t DEF Live, Are, Releasing, Free
    <2>3. Cardinality(Live') = Cardinality(Live) - 1
      BY <2>2, <1>l, FS_RemoveElement
    <2>4. Typed'
      BY <2>1, <1>6, <1>t DEF Decrement, Goes, Free
    <2>5. QED
      BY <2>3, <2>4, <1>6, <1>t, <1>e DEF Decrement
  <1>7. ASSUME NEW t \in Thread, Set(t) PROVE CountInv'
    BY <1>7, <1>t, <1>s DEF Set, Goes, Live
  <1>8. ASSUME NEW t \in Thread, Clear(t) PROVE CountInv'
    BY <1>8, <1>t, <1>s DEF Clear, Clears, Goes, Live
  <1>9. ASSUME NEW t \in Thread, ClearQueue(t) PROVE CountInv'
    <2>1. PICK u \in todo[t] :
              /\ todo' = [todo EXCEPT ![t] = @ \ {u}]
              /\ at' = [c \in Call |-> IF at[c] = Queued(u) THEN Free ELSE at[c]]
              /\ owed' = owed \ Are(Queued(u))
              /\ pending_invocations_' = pending_invocations_ - Cardinality(Are(Queued(u)))
              /\ invocation_complete_' = (invocation_complete_ \/ Are(Queued(u)) # {})
      BY <1>9 DEF ClearQueue, LeftAfterClear
    <2>2. Live' = Live \ Are(Queued(u)) /\ Live \cap Are(Queued(u)) = Are(Queued(u))
      BY <2>1, <1>t DEF Live, Are, Queued, Free
    <2>3. Cardinality(Live') = Cardinality(Live) - Cardinality(Are(Queued(u)))
      BY <2>2, <1>l, FS_Difference
    <2>4. Typed'
      BY <2>1, <1>9, <1>t DEF ClearQueue, Free
    <2>5. QED
      BY <2>1, <2>3, <2>4, <1>t, <1>e
  <1>10. ASSUME NEW t \in Thread, ClearReturns(t) PROVE CountInv'
    BY <1>10, <1>t, <1>s DEF ClearReturns, Goes, Live
  <1>11. ASSUME NEW u \in Thread, Flush(u) PROVE CountInv'
    <2>1. Live' = Live
      BY <1>11, <1>t DEF Flush, Removes, Live, Free, Queued, Removed
    <2>2. Typed'
      <3>1. owed' \subseteq Call
        <4>1. Are(Queued(u)) \subseteq Call /\ Are(Running(u)) \subseteq Call
          BY DEF Are
        <4>2. QED
          BY <1>11, <4>1 DEF Flush
      <3>2. flush' \in [on : Thread \cup {NoThread}, started : BOOLEAN]
        <4>1. flush' = [on |-> u, started |-> TRUE] \/ flush' = [on |-> u, started |-> FALSE]
          BY <1>11 DEF Flush, Removes
        <4>2. /\ [on |-> u, started |-> TRUE] \in [on : Thread \cup {NoThread}, started : BOOLEAN]
              /\ [on |-> u, started |-> FALSE] \in [on : Thread \cup {NoThread}, started : BOOLEAN]
          OBVIOUS
        <4>3. QED
          BY <4>1, <4>2
      <3>3. at' \in [Call -> [is : {"free", "made", "queued", "removed", "running",
                                    "releasing"},
                              on : Thread \cup {NoThread}]]
        BY <1>11, <1>t DEF Flush, Removes, Removed
      <3>4. pc' \in [Thread -> {"base", "check", "post", "release", "set", "clear",
                                "invoke", "test", "wait", "destroyed"}]
        BY <1>11, <1>t DEF Flush, Goes
      <3>5. QED
        BY <1>11, <1>t, <3>1, <3>2, <3>3, <3>4 DEF Flush
    <2>3. QED
      BY <2>1, <2>2, <1>11, <1>s DEF Flush
  <1>12. ASSUME NEW u \in Thread, FlushRemoves(u) PROVE CountInv'
    <2>1. Live' = Live
      BY <1>12, <1>t DEF FlushRemoves, Removes, Live, Free, Queued, Removed
    <2>2. Typed'
      BY <1>12, <1>t DEF FlushRemoves, Removes, Removed
    <2>3. QED
      BY <2>1, <2>2, <1>12, <1>s DEF FlushRemoves
  <1>13. ASSUME NEW u \in Thread, FlushSends(u) PROVE CountInv'
    <2>1. Live' = Live
      BY <1>13, <1>t DEF FlushSends, Live, Are, Free, Removed, Running
    <2>2. Typed'
      BY <1>13, <1>t DEF FlushSends, Are, Running
    <2>3. QED
      BY <2>1, <2>2, <1>13, <1>s DEF FlushSends
  <1>14. ASSUME NEW u \in Thread, FlushReturns(u) PROVE CountInv'
    BY <1>14, <1>t, <1>s DEF FlushReturns, Goes, Live, NoFlush
  <1>15. CASE Destroy
    BY <1>15, <1>t, <1>s DEF Destroy, Clears, Goes, Live
  <1>16. CASE TestPending
    BY <1>16, <1>t, <1>s DEF TestPending, Clears, Goes, Live, LoopClears
  <1>17. CASE Wait
    BY <1>17, <1>t, <1>s DEF Wait, Goes, Live
  <1>18. CASE UNCHANGED vars
    BY <1>18, <1>t, <1>s DEF vars, Live
  <1>19. QED
    BY <1>1, <1>2, <1>3, <1>4, <1>5, <1>6, <1>7, <1>8, <1>9, <1>10, <1>11, <1>12, <1>13,
       <1>14, <1>15, <1>16, <1>17, <1>18 DEF Next, Continues, Destructor

\* The counter is the number of closures, and every variable has its type.
LEMMA CountInvariant == Spec => []CountInv
  BY InitCounts, NextCounts, PTL DEF Spec

\* Every variable has its type: the counter of closures never goes below zero.
THEOREM TypeCorrect == Spec => []TypeOK
  <1>1. CountInv => TypeOK
    BY DEF CountInv
  <1>2. QED
    BY <1>1, CountInvariant, PTL

\* Where Home is while the invoker is being destroyed; once the counter was zero
\* there is no closure, and nobody is left who could make one.
DestroyInv ==
    /\ pc[Home] \in {"test", "wait", "destroyed"} => destroying_
    /\ pc[Home] = "clear" /\ next[Home] # "base" => destroying_
    /\ destroying_ => flush = NoFlush
    /\ next[Home] = "destroyed" => /\ pc[Home] \in {"clear", "destroyed"}
                                   /\ destroying_
                                   /\ \A c \in Call : at[c] = Free

\* A thread of the invoker's calls other than Home has no part in the destructor.
LEMMA NextKeepsDestroy == CountInv /\ DestroyInv /\ [Next]_vars => DestroyInv'
  <1> SUFFICES ASSUME CountInv, DestroyInv, [Next]_vars PROVE DestroyInv'
    OBVIOUS
  <1> USE HomeAssumption
  <1>t. /\ at \in [Call -> [is : {"free", "made", "queued", "removed", "running",
                                  "releasing"},
                            on : Thread \cup {NoThread}]]
        /\ pc \in [Thread -> {"base", "check", "post", "release", "set", "clear",
                              "invoke", "test", "wait", "destroyed"}]
        /\ next \in [Thread -> {"base", "test", "wait", "destroyed"}]
    BY DEF CountInv, TypeOK
  <1>1. ASSUME NEW t \in Thread, NEW u \in Thread, AsyncInvoke(t, u) PROVE DestroyInv'
    <2>1. next[Home] # "destroyed"
      BY <1>1 DEF DestroyInv, AsyncInvoke, InCode, Idle, Are, Running, Free
    <2>2. QED
      BY <2>1, <1>1, <1>t DEF DestroyInv, AsyncInvoke, Goes
  <1>2. ASSUME NEW t \in Thread, DoInvoke(t) PROVE DestroyInv'
    BY <1>2, <1>t DEF DestroyInv, DoInvoke, Goes, Made, Releasing, Free
  <1>3. ASSUME NEW t \in Thread, Post(t) PROVE DestroyInv'
    BY <1>3, <1>t DEF DestroyInv, Post, Goes, Made, Free
  <1>4. ASSUME NEW t \in Thread, OnMessage(t) PROVE DestroyInv'
    BY <1>4, <1>t DEF DestroyInv, OnMessage, Are, Queued, Free
  <1>5. ASSUME NEW t \in Thread, FunctorReturns(t) PROVE DestroyInv'
    BY <1>5, <1>t DEF DestroyInv, FunctorReturns, Goes, Are, Running, Free
  <1>6. ASSUME NEW t \in Thread, Decrement(t) PROVE DestroyInv'
    BY <1>6, <1>t DEF DestroyInv, Decrement, Goes, Are, Releasing, Free
  <1>7. ASSUME NEW t \in Thread, Set(t) PROVE DestroyInv'
    BY <1>7, <1>t DEF DestroyInv, Set, Goes
  <1>8. ASSUME NEW t \in Thread, Clear(t) PROVE DestroyInv'
    <2>1. next[Home] # "destroyed"
      BY <1>8 DEF DestroyInv, Clear, InCode, Idle, Are, Running, Free
    <2>2. QED
      BY <2>1, <1>8, <1>t DEF DestroyInv, Clear, Clears, Goes
  <1>9. ASSUME NEW t \in Thread, ClearQueue(t) PROVE DestroyInv'
    BY <1>9, <1>t DEF DestroyInv, ClearQueue, Queued, Free
  <1>10. ASSUME NEW t \in Thread, ClearReturns(t) PROVE DestroyInv'
    BY <1>10, <1>t DEF DestroyInv, ClearReturns, Goes
  <1>11. ASSUME NEW u \in Thread, Flush(u) PROVE DestroyInv'
    BY <1>11, <1>t DEF DestroyInv, Flush, Removes, Idle, Goes
  <1>12. ASSUME NEW u \in Thread, FlushRemoves(u) \/ FlushSends(u) \/ FlushReturns(u)
         PROVE  DestroyInv'
    <2>1. ~destroying_
      BY <1>12 DEF DestroyInv, NoFlush, FlushRemoves, FlushSends, FlushReturns, FlushRuns
    <2>2. CASE FlushRemoves(u)
      BY <2>1, <2>2, <1>t DEF DestroyInv, FlushRemoves, Removes
    <2>3. CASE FlushSends(u)
      BY <2>1, <2>3, <1>t DEF DestroyInv, FlushSends
    <2>4. CASE FlushReturns(u)
      BY <2>1, <2>4, <1>t DEF DestroyInv, FlushReturns, Goes
    <2>5. QED
      BY <1>12, <2>2, <2>3, <2>4
  <1>13. CASE Destroy
    BY <1>13, <1>t DEF DestroyInv, Destroy, Idle, Clears, Goes
  <1>14. CASE TestPending
    <2>1. CASE StillPending
      BY <1>14, <2>1, <1>t DEF DestroyInv, TestPending, Clears, Goes
    <2>2. CASE ~StillPending
      <3>1. IsFiniteSet(Live) /\ Cardinality(Live) \in Nat
        BY SomeCalls DEF Live
      <3>2. Live = {}
        BY <2>2, <3>1, FS_EmptySet DEF CountInv, StillPending
      <3>3. \A c \in Call : at[c] = Free
        BY <3>2 DEF Live
      <3>4. QED
        BY <1>14, <2>2, <3>3, <1>t DEF DestroyInv, TestPending, Clears, Goes
    <2>3. QED
      BY <2>1, <2>2
  <1>15. CASE Wait
    BY <1>15, <1>t DEF DestroyInv, Wait, Goes
  <1>16. CASE UNCHANGED vars
    BY <1>16 DEF DestroyInv, vars
  <1>17. QED
    BY <1>1, <1>2, <1>3, <1>4, <1>5, <1>6, <1>7, <1>8, <1>9, <1>10, <1>11, <1>12, <1>13,
       <1>14, <1>15, <1>16 DEF Next, Continues, Destructor

\* No closure outlives the invoker it uses.
THEOREM DestroyCorrect == Spec => []NoUseAfterDestroy
  <1>1. Init => DestroyInv
    BY HomeAssumption DEF Init, DestroyInv
  <1>2. DestroyInv => NoUseAfterDestroy
    BY DEF DestroyInv, NoUseAfterDestroy
  <1>3. QED
    BY <1>1, <1>2, CountInvariant, NextKeepsDestroy, PTL DEF Spec

\* Somebody will set the event: a closure is gone and about to signal, or there is
\* one that the wait does not keep from being destroyed.
Waker ==
    \/ \E t \in Thread : pc[t] = "set"
    \/ \E c \in Call : at[c] \notin {Free, Queued(Home)}

Signal == invocation_complete_ \/ Waker

\* A thread other than Home that makes a closure runs a functor.  From the test of
\* the counter on there is a closure, and when the queue of Home has been cleared
\* the event is set or will be.
WakerInv ==
    /\ \A t \in Thread \ {Home} :
           pc[t] \in {"check", "post"} => \E c \in Call : at[c] = Running(t)
    /\ pc[Home] = "wait" => Signal
    /\ pc[Home] = "clear" /\ next[Home] = "wait" =>
           /\ todo[Home] = {} => Signal
           /\ todo[Home] # {} => todo[Home] = {Home}
                                 /\ (Signal \/ \E c \in Call : at[c] = Queued(Home))

\* Every step keeps WakerInv.
LEMMA NextKeepsWaker ==
    CountInv /\ DestroyInv /\ WakerInv /\ [Next]_vars => WakerInv'
  <1> SUFFICES ASSUME CountInv, DestroyInv, WakerInv, [Next]_vars PROVE WakerInv'
    OBVIOUS
  <1> USE HomeAssumption
  <1>t. /\ at \in [Call -> [is : {"free", "made", "queued", "removed", "running",
                                  "releasing"},
                            on : Thread \cup {NoThread}]]
        /\ pc \in [Thread -> {"base", "check", "post", "release", "set", "clear",
                              "invoke", "test", "wait", "destroyed"}]
        /\ next \in [Thread -> {"base", "test", "wait", "destroyed"}]
        /\ todo \in [Thread -> SUBSET Thread]
    BY DEF CountInv, TypeOK
  <1> USE DEF WakerInv, Signal, Waker
  <1>1. ASSUME NEW t \in Thread, NEW u \in Thread, AsyncInvoke(t, u) PROVE WakerInv'
    <2>1. PICK c \in Are(Free) : at' = [at EXCEPT ![c] = Made(t)]
      BY <1>1 DEF AsyncInvoke
    <2>2. t # Home => \E d \in Call : at[d] = Running(t) /\ d # c
      BY <1>1, <2>1 DEF AsyncInvoke, InCode, Are, Running, Free
    <2>3. at'[c] \notin {Free, Queued(Home)} /\ c \in Call
      BY <2>1, <1>t DEF Are, Made, Free, Queued
    <2>4. \A d \in Call : d # c => at'[d] = at[d]
      BY <2>1, <1>t
    <2>5. \A v \in Thread \ {Home} : pc'[v] \in {"check", "post"} =>
              \E d \in Call : at[d] = Running(v) /\ d # c
      <3>1. \A d \in Call, v \in Thread : at[d] = Running(v) => d # c
        BY <2>1 DEF Are, Running, Free
      <3>2. \A v \in Thread : v # t => pc'[v] = pc[v]
        BY <1>1, <1>t DEF AsyncInvoke, Goes
      <3>3. QED
        BY <2>2, <3>1, <3>2
    <2>6. QED
      BY <1>1, <2>3, <2>4, <2>5, <1>t DEF AsyncInvoke, Goes
  <1>2. ASSUME NEW t \in Thread, DoInvoke(t) PROVE WakerInv'
    <2>1. \A c \in Call : (at[c] \in {Free, Queued(Home)} \/ at[c].is = "running")
                              => at'[c] = at[c]
      BY <1>2, <1>t DEF DoInvoke, Made, Free, Queued
    <2>2. \A c \in Call : at[c] \notin {Free, Queued(Home)}
                              => at'[c] \notin {Free, Queued(Home)}
      BY <1>2, <1>t DEF DoInvoke, Made, Releasing, Free, Queued
    <2>3. QED
      BY <1>2, <2>1, <2>2, <1>t DEF DoInvoke, Goes, Running
  <1>3. ASSUME NEW t \in Thread, Post(t) PROVE WakerInv'
    <2>1. \A c \in Call : at[c].is # "made" => at'[c] = at[c]
      BY <1>3, <1>t DEF Post, Made
    <2>2. CASE t = Home
      BY <1>3, <2>1, <2>2, <1>t DEF Post, Goes, Running
    <2>3. CASE t # Home
      <3>1. PICK d \in Call : at[d] = Running(t)
        BY <1>3, <2>3 DEF Post
      <3>2. at'[d] \notin {Free, Queued(Home)}
        BY <3>1, <2>1 DEF Running, Free, Queued
      <3>3. QED
        BY <1>3, <2>1, <2>3, <3>2, <1>t DEF Post, Goes, Running
    <2>4. QED
      BY <2>2, <2>3
  <1>4. ASSUME NEW t \in Thread, OnMessage(t) PROVE WakerInv'
    <2>1. PICK c \in Are(Queued(t)) : at' = [at EXCEPT ![c] = Running(t)]
      BY <1>4 DEF OnMessage
    <2>2. at'[c] \notin {Free, Queued(Home)} /\ c \in Call /\ at[c].is = "queued"
      BY <2>1, <1>t DEF Are, Running, Free, Queued
    <2>3. \A d \in Call : d # c => at'[d] = at[d]
      BY <2>1, <1>t
    <2>4. QED
      BY <1>4, <2>2, <2>3, <1>t DEF OnMessage, Running
  <1>5. ASSUME NEW t \in Thread, FunctorReturns(t) PROVE WakerInv'
    <2>1. PICK c \in Are(Running(t)) : at' = [at EXCEPT ![c] = Releasing(t)]
      BY <1>5 DEF FunctorReturns
    <2>2. at'[c] \notin {Free, Queued(Home)} /\ c \in Call /\ at[c] = Running(t)
      BY <2>1, <1>t DEF Are, Releasing, Free, Queued
    <2>3. \A d \in Call : d # c => at'[d] = at[d]
      BY <2>1, <1>t
    <2>4. QED
      BY <1>5, <2>2, <2>3, <1>t DEF FunctorReturns, Goes, Running
  <1>6. ASSUME NEW t \in Thread, Decrement(t) PROVE WakerInv'
    <2>1. PICK c \in Are(Releasing(t)) : at' = [at EXCEPT ![c] = Free]
      BY <1>6 DEF Decrement
    <2>2. \A d \in Call : at[d].is = "running" => at'[d] = at[d]
      BY <2>1, <1>t DEF Are, Releasing
    <2>3. pc'[t] = "set"
      BY <1>6, <1>t DEF Decrement, Goes
    <2>4. QED
      BY <1>6, <2>2, <2>3, <1>t DEF Decrement, Goes, Running
  <1>7. ASSUME NEW t \in Thread, Set(t) PROVE WakerInv'
    BY <1>7, <1>t DEF Set, Goes
  <1>8. ASSUME NEW t \in Thread, Clear(t) PROVE WakerInv'
    BY <1>8, <1>t DEF Clear, Clears, Goes, InCode, Idle
  <1>9. ASSUME NEW t \in Thread, ClearQueue(t) PROVE WakerInv'
    <2>1. PICK u \in todo[t] :
              /\ todo' = [todo EXCEPT ![t] = @ \ {u}]
              /\ at' = [c \in Call |-> IF at[c] = Queued(u) THEN Free ELSE at[c]]
              /\ invocation_complete_' = (invocation_complete_ \/ Are(Queued(u)) # {})
      BY <1>9 DEF ClearQueue
    <2>2. \A c \in Call : at[c].is # "queued" => at'[c] = at[c]
      BY <2>1, <1>t DEF Queued
    <2>3. CASE Are(Queued(u)) # {}
      <3>1. invocation_complete_'
        BY <2>1, <2>3
      <3>2. pc' = pc /\ next' = next
        BY <1>9 DEF ClearQueue
      <3>3. \A v \in Thread, c \in Call : at[c] = Running(v) => at'[c] = Running(v)
        BY <2>2 DEF Running
      <3>4. pc[Home] = "clear" /\ next[Home] = "wait" => todo'[Home] \in {{}, {Home}}
        BY <2>1, <1>t
      <3>5. QED
        BY <3>1, <3>2, <3>3, <3>4
    <2>4. CASE Are(Queued(u)) = {}
      <3>1. \A c \in Call : at'[c] = at[c] /\ at[c] # Queued(u)
        BY <2>1, <2>4, <1>t DEF Are
      <3>2. QED
        BY <1>9, <2>1, <2>4, <3>1, <1>t DEF ClearQueue
    <2>5. QED
      BY <2>3, <2>4
  <1>10. ASSUME NEW t \in Thread, ClearReturns(t) PROVE WakerInv'
    BY <1>10, <1>t DEF ClearReturns, Goes
  <1>11. ASSUME NEW u \in Thread,
                Flush(u) \/ FlushRemoves(u) \/ FlushSends(u) \/ FlushReturns(u)
         PROVE  WakerInv'
    <2>1. ~destroying_
      BY <1>11 DEF DestroyInv, NoFlush, Flush, FlushRemoves, FlushSends, FlushReturns,
                   FlushRuns
    <2>2. pc[Home] # "wait" /\ ~(pc[Home] = "clear" /\ next[Home] = "wait")
      BY <2>1 DEF DestroyInv
    <2>3. \A c \in Call : at[c].is = "running" => at'[c] = at[c]
      BY <1>11, <1>t DEF Flush, FlushRemoves, FlushSends, FlushReturns, Removes, Are,
                         Queued, Removed
    <2>4. QED
      BY <1>11, <2>2, <2>3, <1>t
      DEF Flush, FlushRemoves, FlushSends, FlushReturns, Goes, Running
  <1>12. CASE Destroy
    BY <1>12, <1>t DEF Destroy, Clears, Goes
  <1>13. CASE TestPending
    <2>1. CASE StillPending
      <3>1. Live # {}
        BY <2>1, FS_EmptySet DEF CountInv, StillPending
      <3>2. PICK c \in Call : at[c] # Free
        BY <3>1 DEF Live
      <3>3. QED
        BY <1>13, <2>1, <3>2, <1>t DEF TestPending, Clears, Goes, LoopClears
    <2>2. CASE ~StillPending
      BY <1>13, <2>2, <1>t DEF TestPending, Clears, Goes
    <2>3. QED
      BY <2>1, <2>2
  <1>14. CASE Wait
    BY <1>14, <1>t DEF Wait, Goes
  <1>15. CASE UNCHANGED vars
    BY <1>15 DEF vars
  <1>16. QED
    BY <1>1, <1>2, <1>3, <1>4, <1>5, <1>6, <1>7, <1>8, <1>9, <1>10, <1>11, <1>12, <1>13,
       <1>14, <1>15 DEF Next, Continues, Destructor

\* The destructor never waits for a signal that nobody will give.
THEOREM WaitCorrect == Spec => []WaitHasWaker
  <1>1. Init => DestroyInv /\ WakerInv
    BY HomeAssumption DEF Init, DestroyInv, WakerInv
  <1>2. WakerInv => WaitHasWaker
    BY DEF WakerInv, WaitHasWaker, Signal, Waker
  <1>3. QED
    BY <1>1, <1>2, CountInvariant, NextKeepsDestroy, NextKeepsWaker, PTL DEF Spec

\* The place of a call that Flush owes: it waits in the queue until Flush runs,
\* then it is one of the removed ones, and it ends on that thread.
Owed(c) ==
    /\ flush.on \in Thread
    /\ \/ at[c] = Queued(flush.on) /\ ~flush.started
       \/ at[c] \in {Removed(flush.on), Running(flush.on), Releasing(flush.on)}

\* A thread is making, or destroying, at most one closure, and only where its
\* position says so; Home waits while Flush is on another thread.
FlushInv ==
    /\ \A t \in Thread, c \in Call :
           /\ at[c] = Made(t) => pc[t] \in {"check", "post"}
           /\ at[c] = Releasing(t) => pc[t] = "release"
           /\ \A d \in Call : at[c] = Made(t) /\ at[d] = Made(t) => c = d
           /\ \A d \in Call : at[c] = Releasing(t) /\ at[d] = Releasing(t) => c = d
    /\ flush.on \in Thread \ {Home} => pc[Home] = "invoke"
    /\ \A c \in owed : Owed(c)

\* Every step keeps FlushInv.
LEMMA NextKeepsFlush == CountInv /\ FlushInv /\ [Next]_vars => FlushInv'
  <1> SUFFICES ASSUME CountInv, FlushInv, [Next]_vars PROVE FlushInv'
    OBVIOUS
  <1> USE HomeAssumption
  <1>t. /\ at \in [Call -> [is : {"free", "made", "queued", "removed", "running",
                                  "releasing"},
                            on : Thread \cup {NoThread}]]
        /\ pc \in [Thread -> {"base", "check", "post", "release", "set", "clear",
                              "invoke", "test", "wait", "destroyed"}]
        /\ flush \in [on : Thread \cup {NoThread}, started : BOOLEAN]
        /\ owed \subseteq Call
    BY DEF CountInv, TypeOK
  <1> USE DEF FlushInv, Owed, Free, Made, Queued, Removed, Running, Releasing
  <1>1. ASSUME NEW t \in Thread, NEW u \in Thread, AsyncInvoke(t, u) PROVE FlushInv'
    <2>1. pc[t] = "base"
      BY <1>1 DEF AsyncInvoke, InCode, Idle
    <2>2. QED
      BY <1>1, <2>1, <1>t DEF AsyncInvoke, Are, Goes
  <1>2. ASSUME NEW t \in Thread, DoInvoke(t) PROVE FlushInv'
    BY <1>2, <1>t DEF DoInvoke, Goes
  <1>3. ASSUME NEW t \in Thread, Post(t) PROVE FlushInv'
    BY <1>3, <1>t DEF Post, Goes
  <1>4. ASSUME NEW t \in Thread, OnMessage(t) PROVE FlushInv'
    BY <1>4, <1>t DEF OnMessage, Are
  <1>5. ASSUME NEW t \in Thread, FunctorReturns(t) PROVE FlushInv'
    BY <1>5, <1>t DEF FunctorReturns, Are, Goes
  <1>6. ASSUME NEW t \in Thread, Decrement(t) PROVE FlushInv'
    BY <1>6, <1>t DEF Decrement, Are, Goes
  <1>7. ASSUME NEW t \in Thread, Set(t) PROVE FlushInv'
    BY <1>7, <1>t DEF Set, Goes
  <1>8. ASSUME NEW t \in Thread, Clear(t) PROVE FlushInv'
    <2>1. pc[t] = "base"
      BY <1>8 DEF Clear, InCode, Idle
    <2>2. QED
      BY <1>8, <2>1, <1>t DEF Clear, Clears, Goes
  <1>9. ASSUME NEW t \in Thread, ClearQueue(t) PROVE FlushInv'
    BY <1>9, <1>t DEF ClearQueue, Are
  <1>10. ASSUME NEW t \in Thread, ClearReturns(t) PROVE FlushInv'
    BY <1>10, <1>t DEF ClearReturns, Goes
  <1>11. ASSUME NEW u \in Thread, Flush(u) PROVE FlushInv'
    <2>1. CASE u = Home
      BY <1>11, <2>1, <1>t DEF Flush, Removes, Idle, Are
    <2>2. CASE u # Home
      BY <1>11, <2>2, <1>t DEF Flush, Idle, Goes, Are
    <2>3. QED
      BY <2>1, <2>2
  <1>12. ASSUME NEW u \in Thread, FlushRemoves(u) PROVE FlushInv'
    BY <1>12, <1>t DEF FlushRemoves, FlushRuns, Removes
  <1>13. ASSUME NEW u \in Thread, FlushSends(u) PROVE FlushInv'
    BY <1>13, <1>t DEF FlushSends, FlushRuns, Are
  <1>14. ASSUME NEW u \in Thread, FlushReturns(u) PROVE FlushInv'
    <2>1. owed = {}
      BY <1>14, <1>t DEF FlushReturns, FlushRuns, Flushed, Are
    <2>2. pc[Home] \in {"base", "invoke"}
      BY <1>14 DEF FlushReturns, FlushRuns
    <2>3. QED
      BY <1>14, <2>1, <2>2, <1>t DEF FlushReturns, NoFlush, Goes
  <1>15. CASE Destroy
    BY <1>15, <1>t DEF Destroy, Idle, NoFlush, Clears, Goes
  <1>16. CASE TestPending
    BY <1>16, <1>t DEF TestPending, Clears, Goes
  <1>17. CASE Wait
    BY <1>17, <1>t DEF Wait, Goes
  <1>18. CASE UNCHANGED vars
    BY <1>18 DEF vars
  <1>19. QED
    BY <1>1, <1>2, <1>3, <1>4, <1>5, <1>6, <1>7, <1>8, <1>9, <1>10, <1>11, <1>12, <1>13,
       <1>14, <1>15, <1>16, <1>17, <1>18 DEF Next, Continues, Destructor

\* Flush returns only when the calls that it found have completed.
THEOREM FlushCorrect == Spec => []FlushWaits
  <1>1. Init => FlushInv
    BY HomeAssumption DEF Init, FlushInv, NoFlush, Free, Made, Releasing
  <1>2. FlushInv => FlushWaits
    BY HomeAssumption DEF FlushInv, Owed, FlushWaits, NoFlush
  <1>3. QED
    BY <1>1, <1>2, CountInvariant, NextKeepsFlush, PTL DEF Spec
=============================================================================
