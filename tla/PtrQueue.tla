----------------------------- MODULE PtrQueue -----------------------------
(***************************************************************************)
(* src/src/ptr_queue.c: a ring of max_size pointers shared by threads,     *)
(* guarded by one mutex and two condition variables (full: producers wait  *)
(* on it, empty: consumers wait on it).  Every call carries a deadline.    *)
(*                                                                         *)
(* A thread's control state is pc[t]:                                      *)
(*   idle     outside the queue                                            *)
(*   lock     at pthread_mutex_lock                                        *)
(*   test     mutex held, at the while condition                           *)
(*   park     mutex held, about to call pthread_cond_timedwait             *)
(*   wait     on the condition variable, mutex released                    *)
(*   woken    removed from it (signal or spurious), wants the mutex again  *)
(*   expired  the wait ended by its deadline, wants the mutex again        *)
(*   giveup   mutex held, timedwait returned ETIMEDOUT                     *)
(*   commit   mutex held, left the loop: store or fetch the pointer        *)
(***************************************************************************)
EXTENDS Integers, Sequences, FiniteSets

CONSTANTS
  Producers,   \* threads that call ptr_queue_enqueue
  Consumers,   \* threads that call ptr_queue_dequeue
  MaxSize,     \* max_size
  Items,       \* pointers the callers store
  Null,        \* NULL
  Free         \* the mutex has no owner

Threads == Producers \cup Consumers
Slots == 0 .. MaxSize - 1

ASSUME MaxSizeAssumption == MaxSize \in Nat \ {0}
ASSUME ThreadsAssumption == /\ Producers \cap Consumers = {}
                            /\ Free \notin Threads
                            /\ IsFiniteSet(Threads)
ASSUME NullAssumption == Null \notin Items

VARIABLES
  queue,   \* the array; malloc leaves arbitrary contents
  front, rear, size,
  mutex,   \* its owner, or Free
  pc,
  data,    \* argument of each producer's call
  late,    \* the deadline of the thread's current call has passed
  stored,  \* producer's last call returned 0
  got      \* what the consumer's last call returned

ringVars == <<queue, front, rear, size>>
vars == <<queue, front, rear, size, mutex, pc, data, late, stored, got>>

Init ==
  /\ queue \in [Slots -> Items \cup {Null}]
  /\ front = 0 /\ rear = 0 /\ size = 0
  /\ mutex = Free
  /\ pc = [t \in Threads |-> "idle"]
  /\ data = [p \in Producers |-> Null]
  /\ late = [t \in Threads |-> FALSE]
  /\ stored = [p \in Producers |-> FALSE]
  /\ got = [c \in Consumers |-> Null]
-----------------------------------------------------------------------------
(* The deadline: now plus timeout_ms, carried into the seconds.            *)
DeadlineRawNsec(usec, ms) == (usec + (ms % 1000) * 1000) * 1000

DeadlineSec(sec, usec, ms) == sec + ms \div 1000
                                  + DeadlineRawNsec(usec, ms) \div 1000000000

DeadlineNsec(usec, ms) == DeadlineRawNsec(usec, ms) % 1000000000
-----------------------------------------------------------------------------
SuccPastEnd(i) == IF i + 1 > MaxSize THEN 0 ELSE i + 1   \* mutant: > for >=

Succ(i) == (i + 1) % MaxSize

(* Mutant: off by one at both ends.                                        *)
MustWaitLate(t) == IF t \in Producers THEN size > MaxSize ELSE size < 0

(* The loop condition of each side: producers wait while the ring is full, *)
(* consumers while it is empty.                                            *)
MustWait(t) == IF t \in Producers THEN size >= MaxSize ELSE size <= 0

Waiting(S) == {t \in S : pc[t] = "wait"}

Goto(t, label) == pc' = [pc EXCEPT ![t] = label]

(* Mutant: signals only when the ring was empty (was full).                *)
SignalOnEdge(t, label, S) ==
  IF Waiting(S) = {} \/ (S = Consumers /\ size > 0) \/ (S = Producers /\ size < MaxSize)
  THEN Goto(t, label)
  ELSE \E w \in Waiting(S) : pc' = [pc EXCEPT ![t] = label, ![w] = "woken"]

(* Thread t leaves with `label` and pthread_cond_signal wakes one of the   *)
(* threads of S that wait, if any does.                                    *)
GotoAndSignal(t, label, S) ==
  IF Waiting(S) = {}
  THEN Goto(t, label)
  ELSE \E w \in Waiting(S) : pc' = [pc EXCEPT ![t] = label, ![w] = "woken"]

(* A deadline belongs to one call.                                        *)
Returned(t) == late' = [late EXCEPT ![t] = FALSE]

CallEnqueue(p, d) ==
  /\ pc[p] = "idle"
  /\ Goto(p, "lock")
  /\ data' = [data EXCEPT ![p] = d]
  /\ UNCHANGED <<ringVars, mutex, late, stored, got>>

CallDequeue(c) ==
  /\ pc[c] = "idle"
  /\ Goto(c, "lock")
  /\ UNCHANGED <<ringVars, mutex, data, late, stored, got>>

(* Mutant: `if` for `while`, a woken thread does not test again.           *)
AcquireNoRetest(t) ==
  /\ pc[t] \in {"lock", "woken", "expired"}
  /\ mutex = Free
  /\ mutex' = t
  /\ Goto(t, CASE pc[t] = "lock" -> "test" [] pc[t] = "woken" -> "commit"
               [] pc[t] = "expired" -> "giveup")
  /\ UNCHANGED <<ringVars, data, late, stored, got>>

(* pthread_mutex_lock, and the re-acquisition inside cond_timedwait: with  *)
(* ETIMEDOUT the thread leaves the loop, otherwise it tests again.         *)
Acquire(t) ==
  /\ pc[t] \in {"lock", "woken", "expired"}
  /\ mutex = Free
  /\ mutex' = t
  /\ Goto(t, IF pc[t] = "expired" THEN "giveup" ELSE "test")
  /\ UNCHANGED <<ringVars, data, late, stored, got>>

Test(t) ==
  /\ pc[t] = "test"
  /\ Goto(t, IF MustWait(t) THEN "park" ELSE "commit")
  /\ UNCHANGED <<ringVars, mutex, data, late, stored, got>>

Park(t) ==
  /\ pc[t] = "park"
  /\ Goto(t, "wait")
  /\ mutex' = Free
  /\ UNCHANGED <<ringVars, data, late, stored, got>>

DeadlinePasses(t) ==
  /\ pc[t] \in {"lock", "test", "park", "wait", "woken"}
  /\ ~late[t]
  /\ late' = [late EXCEPT ![t] = TRUE]
  /\ UNCHANGED <<ringVars, mutex, pc, data, stored, got>>

Expire(t) ==
  /\ pc[t] = "wait"
  /\ late[t]
  /\ Goto(t, "expired")
  /\ UNCHANGED <<ringVars, mutex, data, late, stored, got>>

SpuriousWake(t) ==
  /\ pc[t] = "wait"
  /\ Goto(t, "woken")
  /\ UNCHANGED <<ringVars, mutex, data, late, stored, got>>

(* Mutant: the early return leaves the mutex locked.                       *)
GiveUpLocked(t) ==
  /\ pc[t] = "giveup"
  /\ Goto(t, "idle")
  /\ stored' = IF t \in Producers THEN [stored EXCEPT ![t] = FALSE] ELSE stored
  /\ got' = IF t \in Consumers THEN [got EXCEPT ![t] = Null] ELSE got
  /\ Returned(t)
  /\ UNCHANGED <<ringVars, mutex, data>>

(* ETIMEDOUT: unlock and return 1 or NULL, whatever the ring holds by now. *)
GiveUp(t) ==
  /\ pc[t] = "giveup"
  /\ mutex' = Free
  /\ Goto(t, "idle")
  /\ stored' = IF t \in Producers THEN [stored EXCEPT ![t] = FALSE] ELSE stored
  /\ got' = IF t \in Consumers THEN [got EXCEPT ![t] = Null] ELSE got
  /\ Returned(t)
  /\ UNCHANGED <<ringVars, data>>

Enqueue(p) ==
  /\ pc[p] = "commit"
  /\ queue' = [queue EXCEPT ![rear] = data[p]]
  /\ rear' = Succ(rear)
  /\ size' = size + 1
  /\ GotoAndSignal(p, "idle", Consumers)
  /\ mutex' = Free
  /\ stored' = [stored EXCEPT ![p] = TRUE]
  /\ Returned(p)
  /\ UNCHANGED <<front, data, got>>

(* Mutant: front is advanced before the fetch.                             *)
DequeueNextSlot(c) ==
  /\ pc[c] = "commit"
  /\ got' = [got EXCEPT ![c] = queue[Succ(front)]]
  /\ front' = Succ(front)
  /\ size' = size - 1
  /\ GotoAndSignal(c, "idle", Producers)
  /\ mutex' = Free
  /\ Returned(c)
  /\ UNCHANGED <<queue, rear, data, stored>>

Dequeue(c) ==
  /\ pc[c] = "commit"
  /\ got' = [got EXCEPT ![c] = queue[front]]
  /\ front' = Succ(front)
  /\ size' = size - 1
  /\ GotoAndSignal(c, "idle", Producers)
  /\ mutex' = Free
  /\ Returned(c)
  /\ UNCHANGED <<queue, rear, data, stored>>

InCall(t) == Acquire(t) \/ Test(t) \/ Park(t) \/ Expire(t) \/ GiveUp(t)

Next ==
  \/ \E p \in Producers : (\E d \in Items : CallEnqueue(p, d)) \/ Enqueue(p)
  \/ \E c \in Consumers : CallDequeue(c) \/ Dequeue(c)
  \/ \E t \in Threads : InCall(t) \/ DeadlinePasses(t) \/ SpuriousWake(t)

Spec == Init /\ [][Next]_vars

(* Threads inside a call are scheduled, the clock advances, and a thread   *)
(* that keeps finding the mutex free sooner or later gets it.  A wait that *)
(* starts over and over after its deadline ends by it at last: the kernel  *)
(* returns at once unless a signal gets in between.  Nothing obliges a     *)
(* thread to make a new call or a wait to wake spuriously.                 *)
Fairness ==
  /\ \A t \in Threads : /\ SF_vars(Acquire(t))
                        /\ WF_vars(Test(t) \/ Park(t) \/ GiveUp(t))
                        /\ WF_vars(DeadlinePasses(t))
                        /\ SF_vars(Expire(t))
  /\ \A p \in Producers : WF_vars(Enqueue(p))
  /\ \A c \in Consumers : WF_vars(Dequeue(c))

FairSpec == Spec /\ Fairness
-----------------------------------------------------------------------------
TypeOK ==
  /\ queue \in [Slots -> Items \cup {Null}]
  /\ front \in Slots /\ rear \in Slots /\ size \in 0 .. MaxSize
  /\ mutex \in Threads \cup {Free}
  /\ pc \in [Threads -> {"idle", "lock", "test", "park", "wait", "woken",
                         "expired", "giveup", "commit"}]
  /\ data \in [Producers -> Items \cup {Null}]
  /\ late \in [Threads -> BOOLEAN]
  /\ stored \in [Producers -> BOOLEAN]
  /\ got \in [Consumers -> Items \cup {Null}]

(* The two indices and the counter never drift apart: rear is always size  *)
(* slots after front, so a producer writes only a free slot and a consumer *)
(* reads only a filled one.                                                *)
RingConsistent == rear = (front + size) % MaxSize

(* The mutex is held by exactly the thread that is between acquiring and   *)
(* releasing it: no early return forgets it, nobody works without it.      *)
MutexHeld ==
  \A t \in Threads :
    mutex = t <=> pc[t] \in {"test", "park", "giveup", "commit"}

(* What a thread found at its loop condition is still true when it acts on *)
(* it, several steps later: room for the store, a pointer for the fetch,   *)
(* and still a full (empty) ring when it starts to wait.                   *)
DecisionStable ==
  \A t \in Threads : /\ pc[t] = "commit" => ~MustWait(t)
                     /\ pc[t] = "park" => MustWait(t)

(* No lost wakeup: while a consumer sleeps, every pointer in the ring has  *)
(* a consumer on its way to it, and while a producer sleeps every free     *)
(* slot has a producer on its way to it; so nobody sleeps until its        *)
(* deadline beside work that nobody else is about to take.                 *)
OnTheWay(S) == {t \in S : pc[t] \in {"woken", "test", "commit"}}

NoLostWakeup ==
  /\ Waiting(Consumers) # {} => size <= Cardinality(OnTheWay(Consumers))
  /\ Waiting(Producers) # {}
       => MaxSize - size <= Cardinality(OnTheWay(Producers))

(* The ring, mutex and condition variables implement the bounded FIFO.     *)
Contents == [i \in 1 .. size |-> queue[(front + i - 1) % MaxSize]]

Fifo == INSTANCE BoundedFifo
          WITH items <- Contents, ack <- stored, Capacity <- MaxSize

ImplementsFifo == Fifo!Spec

(* Every call returns, even if the ring stays full or empty for ever: the  *)
(* deadline ends the wait and the mutex is always given back.              *)
CallsReturn == \A t \in Threads : pc[t] = "lock" ~> pc[t] = "idle"
=============================================================================
