---------------------------- MODULE BoundedFifo ----------------------------
(***************************************************************************)
(* What a ptr_queue_t promises its callers: a first-in first-out list of   *)
(* at most Capacity pointers.  An enqueue that reports success appended    *)
(* its pointer, one that reports a timeout stored nothing; a dequeue hands *)
(* the oldest pointer to exactly one caller, or returns NULL and leaves    *)
(* the list alone.  PtrQueue.tla shows that the ring buffer, mutex and     *)
(* condition variables of ptr_queue.c implement this.                      *)
(***************************************************************************)
EXTENDS Naturals, Sequences

CONSTANTS
  Producers,   \* threads that call ptr_queue_enqueue
  Consumers,   \* threads that call ptr_queue_dequeue
  Items,       \* pointers that can be stored
  Null,        \* the NULL a dequeue returns on timeout
  Capacity     \* max_size

VARIABLES
  items,       \* the pointers stored, oldest first
  ack,         \* whether the last enqueue of each producer stored its pointer
  got          \* what the last dequeue of each consumer returned

fifoVars == <<items, ack, got>>

Init ==
  /\ items = <<>>
  /\ ack = [p \in Producers |-> FALSE]
  /\ got = [c \in Consumers |-> Null]

Put(p, d) ==
  /\ Len(items) < Capacity
  /\ items' = Append(items, d)
  /\ ack' = [ack EXCEPT ![p] = TRUE]
  /\ UNCHANGED got

Refuse(p) ==
  /\ ack' = [ack EXCEPT ![p] = FALSE]
  /\ UNCHANGED <<items, got>>

Take(c) ==
  /\ items # <<>>
  /\ got' = [got EXCEPT ![c] = Head(items)]
  /\ items' = Tail(items)
  /\ UNCHANGED ack

Miss(c) ==
  /\ got' = [got EXCEPT ![c] = Null]
  /\ UNCHANGED <<items, ack>>

Next ==
  \/ \E p \in Producers : Refuse(p) \/ \E d \in Items : Put(p, d)
  \/ \E c \in Consumers : Take(c) \/ Miss(c)

Spec == Init /\ [][Next]_fifoVars
=============================================================================
