------------------------------- MODULE SwapQueue -------------------------------
(***************************************************************************)
(* webrtc::SwapQueue (rtc_base/swap_queue.h): a lock-free ring of elements *)
(* between one producer and one consumer, synchronised by the atomic       *)
(* num_elements_ alone.                                                    *)
(*                                                                         *)
(* One action per access to shared state: the load of num_elements_, the   *)
(* swap with a slot, the atomic update of num_elements_.  The index of each *)
(* side is private to it and moves with that side's last shared access.    *)
(* The acquire/release pairs order the swaps with the counter, so the      *)
(* accesses are modelled as sequentially consistent.                       *)
(***************************************************************************)
EXTENDS Naturals, Sequences

CONSTANTS Size,      \* queue_.size()
          MaxItems   \* bound: number of items the producer has to offer

ASSUME SizeAssumption == Size \in Nat \ {0}
ASSUME MaxItemsAssumption == MaxItems \in Nat

Nothing == 0               \* an "empty" T: nothing of value for the consumer
Item == 1..MaxItems        \* the "full" Ts, in the order they are offered
Slot == 0..(Size - 1)

VARIABLES
    queue_, num_elements_,
    next_write_index_,      \* producer only
    next_read_index_,       \* consumer only
    ppc, input,             \* the producer: position in Insert, its T
    cpc, output,            \* the consumer: position in Remove, its T
    offered,                \* number of items the producer has filled
    inserted, removed       \* last results of Insert and Remove

producer == <<next_write_index_, ppc, input, offered, inserted>>
consumer == <<next_read_index_, cpc, output, removed>>
swapVars == <<queue_, num_elements_, producer, consumer>>

SwapInit ==
    /\ queue_ = [i \in Slot |-> Nothing]
    /\ num_elements_ = 0
    /\ next_write_index_ = 0 /\ next_read_index_ = 0
    /\ ppc = "idle" /\ input = Nothing
    /\ cpc = "idle" /\ output = Nothing
    /\ offered = 0
    /\ inserted = TRUE /\ removed = Nothing

\* ++index; if (index == queue_.size()) index = 0;
Advance(i) == IF i + 1 = Size THEN 0 ELSE i + 1

-----------------------------------------------------------------------------
(* Insert.                                                                 *)

\* The producer fills its T; a T that was refused keeps its item.
Fill ==
    /\ ppc = "idle" /\ inserted
    /\ offered < MaxItems
    /\ offered' = offered + 1
    /\ input' = offered + 1
    /\ ppc' = "insert"
    /\ UNCHANGED <<queue_, num_elements_, next_write_index_, inserted, consumer>>

Retry ==
    /\ ppc = "idle" /\ ~inserted
    /\ ppc' = "insert"
    /\ UNCHANGED <<queue_, num_elements_, next_write_index_, input, offered,
                   inserted, consumer>>

Mut_InsertSeesFullLate == num_elements_ > Size

\* Insert loads num_elements_ and compares it with queue_.size().
InsertSeesFull == num_elements_ = Size

InsertLoads ==
    /\ ppc = "insert"
    /\ IF InsertSeesFull THEN ppc' = "idle" /\ inserted' = FALSE
                         ELSE ppc' = "swap" /\ UNCHANGED inserted
    /\ UNCHANGED <<queue_, num_elements_, next_write_index_, input, offered,
                   consumer>>

InsertSwaps ==
    /\ ppc = "swap"
    /\ queue_' = [queue_ EXCEPT ![next_write_index_] = input]
    /\ input' = queue_[next_write_index_]
    /\ ppc' = "publish"
    /\ UNCHANGED <<num_elements_, next_write_index_, offered, inserted, consumer>>

\* fetch_add, then the producer's own index.
InsertPublishes ==
    /\ ppc = "publish"
    /\ num_elements_' = num_elements_ + 1
    /\ next_write_index_' = Advance(next_write_index_)
    /\ inserted' = TRUE
    /\ ppc' = "idle"
    /\ UNCHANGED <<queue_, input, offered, consumer>>

-----------------------------------------------------------------------------
(* Remove and Clear.                                                       *)

\* The consumer hands back an emptied T.
RemoveLoads ==
    /\ cpc = "idle"
    /\ output' = Nothing
    /\ IF num_elements_ = 0 THEN removed' = Nothing /\ UNCHANGED cpc
                            ELSE cpc' = "swap" /\ UNCHANGED removed
    /\ UNCHANGED <<queue_, num_elements_, next_read_index_, producer>>

RemoveSwaps ==
    /\ cpc = "swap"
    /\ queue_' = [queue_ EXCEPT ![next_read_index_] = output]
    /\ output' = queue_[next_read_index_]
    /\ cpc' = "release"
    /\ UNCHANGED <<num_elements_, next_read_index_, removed, producer>>

\* fetch_sub, then the consumer's own index.
RemoveReleases ==
    /\ cpc = "release"
    /\ num_elements_' = num_elements_ - 1
    /\ next_read_index_' = Advance(next_read_index_)
    /\ removed' = output
    /\ cpc' = "idle"
    /\ UNCHANGED <<queue_, output, producer>>

\* The read index is reset with the counter.
Mut_ClearResetsIndex ==
    /\ cpc = "idle"
    /\ num_elements_' = 0
    /\ next_read_index_' = 0
    /\ UNCHANGED <<queue_, cpc, output, removed, producer>>

\* Clear exchanges num_elements_ with 0 and skips the dropped elements.
Clear ==
    /\ cpc = "idle"
    /\ num_elements_' = 0
    /\ next_read_index_' =
         IF next_read_index_ + num_elements_ >= Size
         THEN next_read_index_ + num_elements_ - Size
         ELSE next_read_index_ + num_elements_
    /\ UNCHANGED <<queue_, cpc, output, removed, producer>>

-----------------------------------------------------------------------------
ProducerStep == InsertLoads \/ InsertSwaps \/ InsertPublishes
ConsumerStep == RemoveLoads \/ RemoveSwaps \/ RemoveReleases

SwapNext == Fill \/ Retry \/ ProducerStep \/ ConsumerStep \/ Clear

SwapSpec == SwapInit /\ [][SwapNext]_swapVars

-----------------------------------------------------------------------------
(* Properties.                                                             *)

\* Every variable has its type, the indices within the ring and the counter
\* within its size (the DCHECKs of Clear, Insert and Remove).
SwapTypeOK ==
    /\ queue_ \in [Slot -> Item \cup {Nothing}]
    /\ num_elements_ \in 0..Size
    /\ next_write_index_ \in Slot /\ next_read_index_ \in Slot
    /\ ppc \in {"idle", "insert", "swap", "publish"}
    /\ cpc \in {"idle", "swap", "release"}
    /\ input \in Item \cup {Nothing} /\ output \in Item \cup {Nothing}
    /\ offered \in 0..MaxItems
    /\ inserted \in BOOLEAN /\ removed \in Item \cup {Nothing}

\* "It's safe for the producer and the consumer to access the queue
\* concurrently": they are never inside swap() on the same slot.
SlotExclusive ==
    ppc = "swap" /\ cpc = "swap" => next_write_index_ # next_read_index_

\* The slot of the i-th element, counted from the oldest.
SlotOf(i) == IF next_read_index_ + i - 1 >= Size
             THEN next_read_index_ + i - 1 - Size
             ELSE next_read_index_ + i - 1

\* The elements in the ring, oldest first.  The one that a Remove in progress
\* has swapped out is the oldest until fetch_sub.
contents == [i \in 1..num_elements_ |->
               IF i = 1 /\ cpc = "release" THEN output ELSE queue_[SlotOf(i)]]

Fifo == INSTANCE BoundedFifo

\* The queue is the bounded FIFO of BoundedFifo, its failures included.
ImplementsBoundedFifo == Fifo!Spec
=============================================================================
