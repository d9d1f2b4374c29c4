----------------------------- MODULE BoundedFifo -----------------------------
(***************************************************************************)
(* What a SwapQueue is to its users (the class comment of                  *)
(* rtc_base/swap_queue.h): a FIFO of fixed size between one producer and   *)
(* one consumer, whose Insert fails exactly when it is full, whose Remove  *)
(* fails exactly when it is empty and which the consumer may clear.        *)
(***************************************************************************)
EXTENDS Naturals, Sequences

CONSTANTS Size, Item, Nothing

VARIABLES contents,      \* the elements, oldest first
          inserted,      \* what the last Insert returned
          removed        \* what the last Remove delivered, or Nothing

vars == <<contents, inserted, removed>>

Init ==
    /\ contents = <<>>
    /\ inserted = TRUE
    /\ removed = Nothing

Insert(x) ==
    /\ Len(contents) < Size
    /\ contents' = Append(contents, x)
    /\ inserted' = TRUE
    /\ UNCHANGED removed

InsertFails ==
    /\ Len(contents) = Size
    /\ inserted' = FALSE
    /\ UNCHANGED <<contents, removed>>

Remove ==
    /\ contents # <<>>
    /\ removed' = Head(contents)
    /\ contents' = Tail(contents)
    /\ UNCHANGED inserted

RemoveFails ==
    /\ contents = <<>>
    /\ removed' = Nothing
    /\ UNCHANGED <<contents, inserted>>

Clear ==
    /\ contents' = <<>>
    /\ UNCHANGED <<inserted, removed>>

Next == (\E x \in Item : Insert(x)) \/ InsertFails \/ Remove \/ RemoveFails \/ Clear

Spec == Init /\ [][Next]_vars
=============================================================================
