-------------------------- MODULE PtrQueueProofs --------------------------
(***************************************************************************)
(* Proofs about PtrQueue for every set of threads, every pointer set and   *)
(* every max_size > 0.  The inductive invariant IndInv adds to the checked *)
(* invariants only that a producer inside a call carries a real pointer.   *)
(***************************************************************************)
EXTENDS PtrQueue, SequenceTheorems, FiniteSetTheorems, TLAPS

InCallStates == {"lock", "test", "park", "wait", "woken", "expired",
                 "giveup", "commit"}

DataGiven == \A p \in Producers : pc[p] \in InCallStates => data[p] \in Items

IndInv == TypeOK /\ RingConsistent /\ MutexHeld /\ DecisionStable /\ DataGiven
-----------------------------------------------------------------------------
(* Remainders below twice the modulus need one subtraction at most.        *)
LEMMA ModOnce ==
  ASSUME NEW N \in Nat \ {0}, NEW a \in 0 .. 2 * N - 1
  PROVE  a % N = IF a < N THEN a ELSE a - N
<1>1. CASE a \in 0 .. N - 1
  <2>1. a % N = a  BY <1>1, SMT
  <2> QED  BY <1>1, <2>1
<1>2. CASE a \in N .. 2 * N - 1
  <2>1. a % N = a - N  BY <1>2, SMT
  <2> QED  BY <1>2, <2>1
<1> QED  BY <1>1, <1>2

(* An index stepped through the ring stays an index of it.                 *)
LEMMA SuccInSlots ==
  ASSUME NEW i \in Slots
  PROVE  Succ(i) \in Slots /\ Succ(i) = IF i = MaxSize - 1 THEN 0 ELSE i + 1
<1>1. i + 1 \in 0 .. 2 * MaxSize - 1
  BY MaxSizeAssumption DEF Slots
<1>2. (i + 1) % MaxSize = IF i + 1 < MaxSize THEN i + 1 ELSE (i + 1) - MaxSize
  BY <1>1, ModOnce, MaxSizeAssumption, Zenon
<1>3. Succ(i) = IF i = MaxSize - 1 THEN 0 ELSE i + 1
  BY <1>2, MaxSizeAssumption DEF Slots, Succ
<1> QED
  BY <1>3, MaxSizeAssumption DEF Slots

(* Stepping rear with size (a store) or front against size (a fetch) keeps *)
(* the indices consistent.                                                 *)
LEMMA StoreConsistent ==
  ASSUME NEW f \in Slots, NEW n \in 0 .. MaxSize, NEW r \in Slots,
         n < MaxSize, r = (f + n) % MaxSize
  PROVE  Succ(r) = (f + (n + 1)) % MaxSize
<1>1. f + n \in 0 .. 2 * MaxSize - 1 /\ f + (n + 1) \in 0 .. 2 * MaxSize - 1
  BY MaxSizeAssumption DEF Slots
<1>2. (f + n) % MaxSize = IF f + n < MaxSize THEN f + n ELSE (f + n) - MaxSize
  BY <1>1, ModOnce, MaxSizeAssumption, Zenon
<1>3. (f + (n + 1)) % MaxSize
        = IF f + (n + 1) < MaxSize THEN f + (n + 1)
                                     ELSE (f + (n + 1)) - MaxSize
  BY <1>1, ModOnce, MaxSizeAssumption, Zenon
<1> QED
  BY <1>2, <1>3, SuccInSlots, MaxSizeAssumption DEF Slots

LEMMA FetchConsistent ==
  ASSUME NEW f \in Slots, NEW n \in 0 .. MaxSize, 0 < n
  PROVE  (Succ(f) + (n - 1)) % MaxSize = (f + n) % MaxSize
<1>1. f + n \in 0 .. 2 * MaxSize - 1
        /\ Succ(f) + (n - 1) \in 0 .. 2 * MaxSize - 1
  BY SuccInSlots, MaxSizeAssumption DEF Slots
<1>2. (f + n) % MaxSize = IF f + n < MaxSize THEN f + n ELSE (f + n) - MaxSize
  BY <1>1, ModOnce, MaxSizeAssumption, Zenon
<1>3. (Succ(f) + (n - 1)) % MaxSize
        = IF Succ(f) + (n - 1) < MaxSize THEN Succ(f) + (n - 1)
                                         ELSE (Succ(f) + (n - 1)) - MaxSize
  BY <1>1, ModOnce, MaxSizeAssumption, Zenon
<1> QED
  BY <1>2, <1>3, SuccInSlots, MaxSizeAssumption DEF Slots
-----------------------------------------------------------------------------
LEMMA InitInv == Init => IndInv
<1> SUFFICES ASSUME Init PROVE IndInv
  OBVIOUS
<1>1. TypeOK
  BY MaxSizeAssumption DEF Init, TypeOK, Slots
<1>2. RingConsistent
  BY ModOnce, MaxSizeAssumption DEF Init, RingConsistent
<1>3. MutexHeld /\ DecisionStable /\ DataGiven
  BY ThreadsAssumption
  DEF Init, MutexHeld, DecisionStable, DataGiven, InCallStates, Threads
<1> QED
  BY <1>1, <1>2, <1>3 DEF IndInv
-----------------------------------------------------------------------------
(* A step that leaves the ring and the data alone preserves IndInv when it *)
(* keeps the types and the relation between pc and mutex.                  *)
LEMMA QuietStep ==
  ASSUME IndInv, UNCHANGED <<ringVars, data>>, TypeOK',  MutexHeld',
         \A t \in Threads : pc'[t] \in {"commit", "park"} =>
             \/ pc'[t] = pc[t]
             \/ pc[t] = "test" /\ pc'[t] = IF MustWait(t) THEN "park" ELSE "commit",
         \A p \in Producers : pc'[p] \in InCallStates => pc[p] \in InCallStates
  PROVE  IndInv'
<1>1. RingConsistent'
  BY DEF IndInv, RingConsistent, ringVars
<1>2. \A t \in Threads : MustWait(t)' <=> MustWait(t)
  BY DEF MustWait, ringVars
<1>3. DecisionStable'
  BY <1>2, Zenon DEF IndInv, DecisionStable
<1>4. DataGiven'
  BY DEF IndInv, DataGiven
<1> QED
  BY <1>1, <1>3, <1>4 DEF IndInv

(* The calls a thread makes from outside.                                  *)
LEMMA CallEnqueueInv ==
  ASSUME IndInv, NEW p \in Producers, NEW d \in Items, CallEnqueue(p, d)
  PROVE  IndInv'
<1> USE DEF CallEnqueue, Goto, ringVars, IndInv
<1>1. p \in Threads
  BY DEF Threads
<1>2. TypeOK'
  BY <1>1 DEF TypeOK
<1>3. RingConsistent'
  BY DEF RingConsistent
<1>4. MutexHeld'
  BY <1>1 DEF MutexHeld, TypeOK
<1>5. DecisionStable'
  BY <1>1 DEF DecisionStable, MustWait, TypeOK
<1>6. DataGiven'
  BY DEF DataGiven, InCallStates, TypeOK
<1> QED
  BY <1>2, <1>3, <1>4, <1>5, <1>6

LEMMA CallDequeueInv ==
  ASSUME IndInv, NEW c \in Consumers, CallDequeue(c)
  PROVE  IndInv'
<1> USE DEF CallDequeue, Goto, ringVars, IndInv
<1>1. c \in Threads /\ c \notin Producers
  BY ThreadsAssumption DEF Threads
<1>2. TypeOK'
  BY <1>1 DEF TypeOK
<1>3. MutexHeld'
  BY <1>1 DEF MutexHeld, TypeOK
<1>4. \A p \in Producers : pc'[p] = pc[p]
  BY <1>1 DEF TypeOK
<1> QED
  BY <1>1, <1>2, <1>3, <1>4, QuietStep DEF TypeOK

(* Steps of one thread inside a call that leave the ring alone.            *)
LEMMA QuietInCall ==
  ASSUME IndInv, NEW t \in Threads,
         InCall(t) \/ DeadlinePasses(t) \/ SpuriousWake(t)
  PROVE  IndInv'
<1> USE DEF Goto, ringVars, IndInv
<1>1. CASE Acquire(t)
  <2>1. TypeOK'
    BY <1>1 DEF TypeOK, Acquire
  <2>2. MutexHeld'
    BY <1>1, ThreadsAssumption DEF MutexHeld, TypeOK, Acquire
  <2> QED
    BY <1>1, <2>1, <2>2, QuietStep DEF TypeOK, Acquire, InCallStates, Threads
<1>2. CASE Test(t)
  <2>1. TypeOK'
    BY <1>2 DEF TypeOK, Test
  <2>2. MutexHeld'
    BY <1>2 DEF MutexHeld, TypeOK, Test
  <2> QED
    BY <1>2, <2>1, <2>2, QuietStep DEF TypeOK, Test, InCallStates, Threads
<1>3. CASE Park(t)
  <2>1. TypeOK'
    BY <1>3 DEF TypeOK, Park
  <2>2. MutexHeld'
    BY <1>3, ThreadsAssumption DEF MutexHeld, TypeOK, Park
  <2> QED
    BY <1>3, <2>1, <2>2, QuietStep DEF TypeOK, Park, InCallStates, Threads
<1>4. CASE Expire(t)
  <2>1. TypeOK'
    BY <1>4 DEF TypeOK, Expire
  <2>2. MutexHeld'
    BY <1>4 DEF MutexHeld, TypeOK, Expire
  <2> QED
    BY <1>4, <2>1, <2>2, QuietStep DEF TypeOK, Expire, InCallStates, Threads
<1>5. CASE GiveUp(t)
  <2>1. TypeOK'
    BY <1>5 DEF TypeOK, GiveUp, Returned
  <2>2. MutexHeld'
    BY <1>5, ThreadsAssumption DEF MutexHeld, TypeOK, GiveUp
  <2> QED
    BY <1>5, <2>1, <2>2, QuietStep DEF TypeOK, GiveUp, InCallStates, Threads
<1>6. CASE DeadlinePasses(t)
  <2>1. TypeOK'
    BY <1>6 DEF TypeOK, DeadlinePasses
  <2>2. MutexHeld'
    BY <1>6 DEF MutexHeld, DeadlinePasses
  <2> QED
    BY <1>6, <2>1, <2>2, QuietStep DEF DeadlinePasses
<1>7. CASE SpuriousWake(t)
  <2>1. TypeOK'
    BY <1>7 DEF TypeOK, SpuriousWake
  <2>2. MutexHeld'
    BY <1>7 DEF MutexHeld, TypeOK, SpuriousWake
  <2> QED
    BY <1>7, <2>1, <2>2, QuietStep
    DEF TypeOK, SpuriousWake, InCallStates, Threads
<1> QED
  BY <1>1, <1>2, <1>3, <1>4, <1>5, <1>6, <1>7 DEF InCall
-----------------------------------------------------------------------------
(* What GotoAndSignal does to the control states: t moves to label, at     *)
(* most one waiter of S becomes woken, everybody else stays.               *)
LEMMA SignalEffect ==
  ASSUME TypeOK, NEW t \in Threads, NEW label, NEW S, S \subseteq Threads,
         pc[t] # "wait", GotoAndSignal(t, label, S)
  PROVE  /\ DOMAIN pc' = Threads
         /\ pc'[t] = label
         /\ \A u \in Threads \ {t} :
              pc'[u] = pc[u] \/ (pc[u] = "wait" /\ pc'[u] = "woken")
<1>1. CASE Waiting(S) = {}
  BY <1>1 DEF GotoAndSignal, Goto, TypeOK
<1>2. CASE Waiting(S) # {}
  <2>1. PICK w \in Waiting(S) :
          pc' = [pc EXCEPT ![t] = label, ![w] = "woken"]
    BY <1>2 DEF GotoAndSignal
  <2>2. w \in Threads /\ pc[w] = "wait" /\ w # t
    BY DEF Waiting
  <2> QED
    BY <2>1, <2>2 DEF TypeOK
<1> QED
  BY <1>1, <1>2

(* A commit by the mutex owner t changes the ring; the invariant parts     *)
(* about control states follow from SignalEffect alone.                    *)
LEMMA CommitControl ==
  ASSUME IndInv, NEW t \in Threads, NEW S, S \subseteq Threads,
         pc[t] = "commit", GotoAndSignal(t, "idle", S), mutex' = Free,
         UNCHANGED data
  PROVE  /\ pc' \in [Threads -> {"idle", "lock", "test", "park", "wait",
                                "woken", "expired", "giveup", "commit"}]
         /\ MutexHeld' /\ DecisionStable' /\ DataGiven'
<1>1. /\ DOMAIN pc' = Threads
      /\ pc'[t] = "idle"
      /\ \A u \in Threads \ {t} :
           pc'[u] = pc[u] \/ (pc[u] = "wait" /\ pc'[u] = "woken")
  BY SignalEffect DEF IndInv
<1>2. \A u \in Threads \ {t} :
        pc[u] \notin {"test", "park", "giveup", "commit"}
  BY DEF IndInv, MutexHeld
<1>3. pc' = [u \in Threads |-> pc'[u]]
  <2>1. CASE Waiting(S) = {}
    BY <2>1 DEF GotoAndSignal, Goto, IndInv, TypeOK
  <2>2. CASE Waiting(S) # {}
    BY <2>2 DEF GotoAndSignal, IndInv, TypeOK
  <2> QED
    BY <2>1, <2>2
<1>4. \A u \in Threads :
        pc'[u] \in {"idle", "lock", "test", "park", "wait",
                   "woken", "expired", "giveup", "commit"}
  BY <1>1 DEF IndInv, TypeOK
<1>5. MutexHeld'
  BY <1>1, <1>2, ThreadsAssumption DEF MutexHeld
<1>6. DecisionStable'
  BY <1>1, <1>2 DEF DecisionStable
<1>7. DataGiven'
  BY <1>1, ThreadsAssumption DEF DataGiven, IndInv, InCallStates, Threads
<1> QED
  BY <1>3, <1>4, <1>5, <1>6, <1>7

LEMMA EnqueueInv ==
  ASSUME IndInv, NEW p \in Producers, Enqueue(p)
  PROVE  IndInv'
<1>1. p \in Threads /\ Consumers \subseteq Threads
  BY DEF Threads
<1>2. size < MaxSize
  BY <1>1, MaxSizeAssumption
  DEF Enqueue, IndInv, DecisionStable, MustWait, TypeOK
<1>3. data[p] \in Items
  BY DEF Enqueue, IndInv, DataGiven, InCallStates
<1>4. /\ pc' \in [Threads -> {"idle", "lock", "test", "park", "wait",
                             "woken", "expired", "giveup", "commit"}]
      /\ MutexHeld' /\ DecisionStable' /\ DataGiven'
  BY <1>1, CommitControl DEF Enqueue
<1>5. RingConsistent'
  BY <1>2, StoreConsistent DEF IndInv, RingConsistent, TypeOK, Enqueue
<1>6. rear' \in Slots
  BY SuccInSlots DEF Enqueue, IndInv, TypeOK
<1>7. size' \in 0 .. MaxSize
  BY <1>2, MaxSizeAssumption DEF Enqueue, IndInv, TypeOK
<1>8. TypeOK'
  BY <1>1, <1>3, <1>4, <1>6, <1>7 DEF Enqueue, Returned, IndInv, TypeOK
<1> QED
  BY <1>4, <1>5, <1>8 DEF IndInv

LEMMA DequeueInv ==
  ASSUME IndInv, NEW c \in Consumers, Dequeue(c)
  PROVE  IndInv'
<1>1. c \in Threads /\ c \notin Producers /\ Producers \subseteq Threads
  BY ThreadsAssumption DEF Threads
<1>2. 0 < size
  BY <1>1 DEF Dequeue, IndInv, DecisionStable, MustWait, TypeOK
<1>4. /\ pc' \in [Threads -> {"idle", "lock", "test", "park", "wait",
                             "woken", "expired", "giveup", "commit"}]
      /\ MutexHeld' /\ DecisionStable' /\ DataGiven'
  BY <1>1, CommitControl DEF Dequeue
<1>5. RingConsistent'
  BY <1>2, FetchConsistent DEF IndInv, RingConsistent, TypeOK, Dequeue
<1>6. front' \in Slots
  BY SuccInSlots DEF Dequeue, IndInv, TypeOK
<1>7. size' \in 0 .. MaxSize
  BY <1>2, MaxSizeAssumption DEF Dequeue, IndInv, TypeOK
<1>8. TypeOK'
  BY <1>1, <1>4, <1>6, <1>7 DEF Dequeue, Returned, IndInv, TypeOK
<1> QED
  BY <1>4, <1>5, <1>8 DEF IndInv
-----------------------------------------------------------------------------
LEMMA StepInv == IndInv /\ [Next]_vars => IndInv'
<1> SUFFICES ASSUME IndInv, [Next]_vars PROVE IndInv'
  OBVIOUS
<1>1. ASSUME NEW p \in Producers, NEW d \in Items, CallEnqueue(p, d)
      PROVE  IndInv'
  BY <1>1, CallEnqueueInv
<1>2. ASSUME NEW p \in Producers, Enqueue(p) PROVE IndInv'
  BY <1>2, EnqueueInv
<1>3. ASSUME NEW c \in Consumers, CallDequeue(c) PROVE IndInv'
  BY <1>3, CallDequeueInv
<1>4. ASSUME NEW c \in Consumers, Dequeue(c) PROVE IndInv'
  BY <1>4, DequeueInv
<1>5. ASSUME NEW t \in Threads,
             InCall(t) \/ DeadlinePasses(t) \/ SpuriousWake(t)
      PROVE  IndInv'
  BY <1>5, QuietInCall
<1>6. CASE UNCHANGED vars
  BY <1>6 DEF vars, IndInv, TypeOK, RingConsistent, MutexHeld,
              DecisionStable, MustWait, DataGiven
<1> QED
  BY <1>1, <1>2, <1>3, <1>4, <1>5, <1>6 DEF Next

LEMMA Invariance == Spec => []IndInv
BY InitInv, StepInv, PTL DEF Spec

(* For any threads and any ring size: every variable keeps its type, and   *)
(* the indices and the counter their ranges.                               *)
THEOREM TypeCorrect == Spec => []TypeOK
<1>1. IndInv => TypeOK
  BY DEF IndInv
<1> QED  BY <1>1, Invariance, PTL

(* The two indices and the counter never drift apart.                      *)
THEOREM IndicesAgree == Spec => []RingConsistent
<1>1. IndInv => RingConsistent
  BY DEF IndInv
<1> QED  BY <1>1, Invariance, PTL

(* The mutex is held by the thread that is inside, on every path out.      *)
THEOREM MutexOwned == Spec => []MutexHeld
<1>1. IndInv => MutexHeld
  BY DEF IndInv
<1> QED  BY <1>1, Invariance, PTL

(* What a thread found at its loop condition is still true when it stores, *)
(* fetches or starts to wait.                                              *)
THEOREM DecisionsHold == Spec => []DecisionStable
<1>1. IndInv => DecisionStable
  BY DEF IndInv
<1> QED  BY <1>1, Invariance, PTL
-----------------------------------------------------------------------------
(* The refinement: Contents behaves as the list of BoundedFifo.            *)

(* The slot of the i-th pointer when front = f, without the remainder.     *)
LEMMA SlotOf ==
  ASSUME NEW f \in Slots, NEW i \in 1 .. MaxSize + 1
  PROVE  /\ (f + i - 1) % MaxSize \in Slots
         /\ (f + i - 1) % MaxSize = IF f + (i - 1) < MaxSize
                                  THEN f + (i - 1) ELSE (f + (i - 1)) - MaxSize
<1>1. f + (i - 1) \in 0 .. 2 * MaxSize - 1
  BY MaxSizeAssumption DEF Slots
<1>2. (f + (i - 1)) % MaxSize = IF f + (i - 1) < MaxSize
                                THEN f + (i - 1) ELSE (f + (i - 1)) - MaxSize
  BY <1>1, ModOnce, MaxSizeAssumption, Zenon
<1> QED
  BY <1>1, <1>2, MaxSizeAssumption DEF Slots

(* Contents is a list of size pointers.                                    *)
LEMMA ContentsList ==
  TypeOK => Contents \in Seq(Items \cup {Null}) /\ Len(Contents) = size
<1> SUFFICES ASSUME TypeOK
             PROVE  Contents \in Seq(Items \cup {Null}) /\ Len(Contents) = size
  OBVIOUS
<1>1. \A i \in 1 .. size : queue[(front + i - 1) % MaxSize] \in Items \cup {Null}
  BY SlotOf, MaxSizeAssumption DEF TypeOK
<1>2. size \in Nat
  BY MaxSizeAssumption DEF TypeOK
<1> QED
  BY <1>1, <1>2 DEF Contents

(* A store at rear appends.                                                *)
LEMMA StoreAppends ==
  ASSUME TypeOK, TypeOK', RingConsistent, size < MaxSize, NEW d \in Items,
         queue' = [queue EXCEPT ![rear] = d], size' = size + 1,
         front' = front
  PROVE  Contents' = Append(Contents, d)
<1>1. ASSUME NEW i \in 1 .. size
      PROVE  /\ queue'[(front + i - 1) % MaxSize]
                  = queue[(front + i - 1) % MaxSize]
             /\ (front + i - 1) % MaxSize \in Slots
  <2>1. i \in 1 .. MaxSize + 1 /\ size + 1 \in 1 .. MaxSize + 1
    BY MaxSizeAssumption DEF TypeOK
  <2>2. rear = IF front + size < MaxSize
               THEN front + size ELSE (front + size) - MaxSize
    <3>1. front + size \in 0 .. 2 * MaxSize - 1
      BY MaxSizeAssumption DEF TypeOK, Slots
    <3> QED
      BY <3>1, ModOnce, MaxSizeAssumption DEF RingConsistent
  <2>3. (front + i - 1) % MaxSize # rear
    <3>1. (front + i - 1) % MaxSize
            = IF front + (i - 1) < MaxSize
              THEN front + (i - 1) ELSE (front + (i - 1)) - MaxSize
      BY <2>1, SlotOf, Zenon DEF TypeOK
    <3> DEFINE slot == (front + i - 1) % MaxSize
    <3>2. slot = IF front + (i - 1) < MaxSize
                 THEN front + (i - 1) ELSE (front + (i - 1)) - MaxSize
      BY <3>1
    <3> HIDE DEF slot
    <3>3. slot # rear
      BY <2>2, <3>2, MaxSizeAssumption DEF TypeOK, Slots
    <3> QED
      BY <3>3 DEF slot
  <2>4. (front + i - 1) % MaxSize \in Slots
    BY <2>1, SlotOf DEF TypeOK
  <2> QED
    BY <2>3, <2>4 DEF TypeOK
<1>2. queue'[rear] = d
  BY DEF TypeOK
<1>3. front + (size + 1) - 1 = front + size
  BY MaxSizeAssumption DEF TypeOK, Slots
<1>4. size \in Nat
  BY MaxSizeAssumption DEF TypeOK
<1>5. ASSUME NEW i \in 1 .. size + 1
      PROVE  queue'[(front + i - 1) % MaxSize]
               = IF i = size + 1 THEN d ELSE queue[(front + i - 1) % MaxSize]
  BY <1>1, <1>2, <1>3, <1>4 DEF RingConsistent
<1>6. /\ Append(Contents, d) \in Seq(Items \cup {Null})
      /\ Len(Append(Contents, d)) = size + 1
      /\ \A i \in 1 .. size + 1 :
           Append(Contents, d)[i] = IF i = size + 1 THEN d ELSE Contents[i]
  BY ContentsList, AppendProperties, <1>4
<1>7. Contents' \in Seq(Items \cup {Null}) /\ Len(Contents') = size + 1
  <2>1. (TypeOK => Contents \in Seq(Items \cup {Null}) /\ Len(Contents) = size)'
    BY ContentsList, PTL
  <2> QED
    BY <2>1
<1>8. \A i \in 1 .. size + 1 : Contents'[i] = Append(Contents, d)[i]
  BY <1>4, <1>5, <1>6 DEF Contents
<1> QED
  BY <1>6, <1>7, <1>8, SeqEqual

(* A fetch at front removes the head.                                      *)
LEMMA FetchTakesHead ==
  ASSUME TypeOK, TypeOK', 0 < size,
         queue' = queue, size' = size - 1, front' = Succ(front)
  PROVE  /\ Contents # <<>>
         /\ queue[front] = Head(Contents)
         /\ Contents' = Tail(Contents)
<1>1. size \in Nat /\ front + 1 - 1 = front
  BY MaxSizeAssumption DEF TypeOK, Slots
<1>2. (front + 1 - 1) % MaxSize = front
  <2>1. front \in 0 .. 2 * MaxSize - 1 /\ front < MaxSize
    BY MaxSizeAssumption DEF TypeOK, Slots
  <2>2. front % MaxSize = IF front < MaxSize THEN front ELSE front - MaxSize
    BY <2>1, ModOnce, MaxSizeAssumption, Zenon
  <2> QED
    BY <1>1, <2>1, <2>2
<1>3. Contents # <<>> /\ Head(Contents) = queue[front]
  BY <1>1, <1>2, ContentsList DEF Contents
<1>4. ASSUME NEW i \in 1 .. size - 1
      PROVE  (Succ(front) + i - 1) % MaxSize = (front + (i + 1) - 1) % MaxSize
  <2>1. i \in 1 .. MaxSize + 1 /\ i + 1 \in 1 .. MaxSize + 1
    BY MaxSizeAssumption DEF TypeOK
  <2>2. (Succ(front) + i - 1) % MaxSize
          = IF Succ(front) + (i - 1) < MaxSize
            THEN Succ(front) + (i - 1) ELSE (Succ(front) + (i - 1)) - MaxSize
    BY <2>1, SlotOf, SuccInSlots, Zenon DEF TypeOK
  <2>3. (front + (i + 1) - 1) % MaxSize
          = IF front + ((i + 1) - 1) < MaxSize
            THEN front + ((i + 1) - 1) ELSE (front + ((i + 1) - 1)) - MaxSize
    BY <2>1, SlotOf, Zenon DEF TypeOK
  <2>4. Succ(front) = IF front = MaxSize - 1 THEN 0 ELSE front + 1
    BY SuccInSlots DEF TypeOK
  <2> QED
    BY <2>2, <2>3, <2>4, MaxSizeAssumption DEF TypeOK, Slots
<1>5. /\ Tail(Contents) \in Seq(Items \cup {Null})
      /\ Len(Tail(Contents)) = size - 1
      /\ \A i \in 1 .. size - 1 : Tail(Contents)[i] = Contents[i + 1]
  BY <1>3, ContentsList, HeadTailProperties
<1>6. Contents' \in Seq(Items \cup {Null}) /\ Len(Contents') = size - 1
  <2>1. (TypeOK => Contents \in Seq(Items \cup {Null}) /\ Len(Contents) = size)'
    BY ContentsList, PTL
  <2> QED
    BY <2>1
<1>7. \A i \in 1 .. size - 1 :
        Contents[i + 1] = queue[(front + (i + 1) - 1) % MaxSize]
  BY <1>1 DEF Contents
<1>8. \A i \in 1 .. size - 1 : Contents'[i] = Tail(Contents)[i]
  BY <1>4, <1>5, <1>7 DEF Contents
<1> QED
  BY <1>3, <1>5, <1>6, <1>8, SeqEqual
-----------------------------------------------------------------------------
(* Each step is a step of BoundedFifo or leaves its variables alone.       *)
LEMMA RingUnchanged ==
  ASSUME UNCHANGED ringVars
  PROVE  Contents' = Contents
BY DEF ringVars, Contents

LEMMA QuietRefines ==
  ASSUME UNCHANGED <<ringVars, stored, got>>
  PROVE  UNCHANGED Fifo!fifoVars
BY RingUnchanged DEF Fifo!fifoVars

LEMMA GiveUpRefines ==
  ASSUME IndInv, NEW t \in Threads, GiveUp(t)
  PROVE  Fifo!Next
<1>1. Contents' = Contents
  BY RingUnchanged DEF GiveUp
<1>2. CASE t \in Producers
  <2>1. Fifo!Refuse(t)
    BY <1>1, <1>2, ThreadsAssumption DEF GiveUp, Fifo!Refuse
  <2> QED
    BY <1>2, <2>1 DEF Fifo!Next
<1>3. CASE t \in Consumers
  <2>1. Fifo!Miss(t)
    BY <1>1, <1>3, ThreadsAssumption DEF GiveUp, Fifo!Miss
  <2> QED
    BY <1>3, <2>1 DEF Fifo!Next
<1> QED
  BY <1>2, <1>3 DEF Threads

LEMMA EnqueueRefines ==
  ASSUME IndInv, IndInv', NEW p \in Producers, Enqueue(p)
  PROVE  Fifo!Next
<1>1. p \in Threads
  BY DEF Threads
<1>2. size < MaxSize
  BY <1>1, MaxSizeAssumption
  DEF Enqueue, IndInv, DecisionStable, MustWait, TypeOK
<1>3. data[p] \in Items
  BY DEF Enqueue, IndInv, DataGiven, InCallStates
<1>4. Contents' = Append(Contents, data[p])
  BY <1>2, <1>3, StoreAppends DEF Enqueue, IndInv
<1>5. Len(Contents) < MaxSize
  BY <1>2, ContentsList DEF IndInv
<1>6. Fifo!Put(p, data[p])
  BY <1>4, <1>5 DEF Enqueue, Fifo!Put
<1> QED
  BY <1>3, <1>6 DEF Fifo!Next

LEMMA DequeueRefines ==
  ASSUME IndInv, IndInv', NEW c \in Consumers, Dequeue(c)
  PROVE  Fifo!Next
<1>1. c \in Threads /\ c \notin Producers
  BY ThreadsAssumption DEF Threads
<1>2. 0 < size
  BY <1>1 DEF Dequeue, IndInv, DecisionStable, MustWait, TypeOK
<1>3. /\ Contents # <<>>
      /\ queue[front] = Head(Contents)
      /\ Contents' = Tail(Contents)
  BY <1>2, FetchTakesHead DEF Dequeue, IndInv
<1>4. Fifo!Take(c)
  BY <1>3 DEF Dequeue, Fifo!Take
<1> QED
  BY <1>4 DEF Fifo!Next

LEMMA StepRefines ==
  IndInv /\ IndInv' /\ [Next]_vars => [Fifo!Next]_Fifo!fifoVars
<1> SUFFICES ASSUME IndInv, IndInv', [Next]_vars
             PROVE  [Fifo!Next]_Fifo!fifoVars
  OBVIOUS
<1>1. ASSUME NEW p \in Producers, NEW d \in Items, CallEnqueue(p, d)
      PROVE  UNCHANGED Fifo!fifoVars
  BY <1>1, QuietRefines DEF CallEnqueue
<1>2. ASSUME NEW p \in Producers, Enqueue(p) PROVE Fifo!Next
  BY <1>2, EnqueueRefines
<1>3. ASSUME NEW c \in Consumers, CallDequeue(c)
      PROVE  UNCHANGED Fifo!fifoVars
  BY <1>3, QuietRefines DEF CallDequeue
<1>4. ASSUME NEW c \in Consumers, Dequeue(c) PROVE Fifo!Next
  BY <1>4, DequeueRefines
<1>5. ASSUME NEW t \in Threads,
             InCall(t) \/ DeadlinePasses(t) \/ SpuriousWake(t)
      PROVE  [Fifo!Next]_Fifo!fifoVars
  <2>1. CASE GiveUp(t)
    BY <2>1, GiveUpRefines
  <2>2. CASE ~GiveUp(t)
    BY <1>5, <2>2, QuietRefines
    DEF InCall, Acquire, Test, Park, Expire, DeadlinePasses, SpuriousWake
  <2> QED
    BY <2>1, <2>2
<1>6. CASE UNCHANGED vars
  BY <1>6, QuietRefines DEF vars, ringVars
<1> QED
  BY <1>1, <1>2, <1>3, <1>4, <1>5, <1>6 DEF Next

(* ptr_queue.c implements the bounded FIFO, for any number of producers    *)
(* and consumers and any ring size: nothing is lost, duplicated, reordered *)
(* or handed out before it was stored, and a timeout changes nothing.      *)
THEOREM Refinement == Spec => ImplementsFifo
<1>1. Init => Fifo!Init
  <2> SUFFICES ASSUME Init PROVE Fifo!Init
    OBVIOUS
  <2>1. Contents = <<>>
    BY DEF Init, Contents
  <2> QED
    BY <2>1 DEF Init, Fifo!Init
<1>2. Init => IndInv
  BY InitInv
<1>3. IndInv /\ [Next]_vars => IndInv'
  BY StepInv
<1>4. IndInv /\ IndInv' /\ [Next]_vars => [Fifo!Next]_Fifo!fifoVars
  BY StepRefines
<1> QED
  BY <1>1, <1>2, <1>3, <1>4, PTL DEF Spec, ImplementsFifo, Fifo!Spec
-----------------------------------------------------------------------------
(* No lost wakeup.  For one side S, `need` is what a sleeper of S would    *)
(* miss: the pointers for consumers, the free slots for producers.         *)
Heading == {"woken", "test", "commit"}

LEMMA OnTheWayFinite ==
  ASSUME NEW S, S \subseteq Threads
  PROVE  /\ IsFiniteSet(OnTheWay(S)) /\ IsFiniteSet(OnTheWay(S)')
         /\ Cardinality(OnTheWay(S)) \in Nat
         /\ Cardinality(OnTheWay(S)') \in Nat
<1>1. OnTheWay(S) \subseteq Threads /\ OnTheWay(S)' \subseteq Threads
  BY DEF OnTheWay
<1>2. IsFiniteSet(OnTheWay(S)) /\ IsFiniteSet(OnTheWay(S)')
  BY <1>1, FS_Subset, ThreadsAssumption
<1> QED
  BY <1>2, FS_CardinalityType

(* A step of t that keeps `need`: t may join or leave the sleepers and     *)
(* those on their way, but leaves the latter, or falls asleep, only when   *)
(* there is nothing to miss.                                               *)
LEMMA SideQuiet ==
  ASSUME TypeOK, NEW S, S \subseteq Threads, NEW t \in Threads, NEW label,
         pc' = [pc EXCEPT ![t] = label], NEW need \in Int,
         Waiting(S) # {} => need <= Cardinality(OnTheWay(S)),
         t \in S => \/ need <= 0
                    \/ label # "wait" /\ (pc[t] \in Heading => label \in Heading)
  PROVE  Waiting(S)' # {} => need <= Cardinality(OnTheWay(S)')
<1>1. CASE need <= 0
  BY <1>1, OnTheWayFinite
<1>2. CASE ~(need <= 0)
  <2>1. Waiting(S)' \subseteq Waiting(S)
    BY <1>2 DEF Waiting, TypeOK
  <2>2. OnTheWay(S) \subseteq OnTheWay(S)'
    BY <1>2 DEF OnTheWay, Heading, TypeOK
  <2>3. Cardinality(OnTheWay(S)) <= Cardinality(OnTheWay(S)')
    BY <2>2, OnTheWayFinite, FS_Subset
  <2> QED
    BY <2>1, <2>3, OnTheWayFinite
<1> QED
  BY <1>1, <1>2

(* A commit raises the need of the other side and signals it.              *)
LEMMA SideSignalled ==
  ASSUME TypeOK, NEW S, S \subseteq Threads, NEW t \in Threads \ S,
         GotoAndSignal(t, "idle", S), NEW need \in Int,
         Waiting(S) # {} => need <= Cardinality(OnTheWay(S))
  PROVE  Waiting(S)' # {} => need + 1 <= Cardinality(OnTheWay(S)')
<1>1. CASE Waiting(S) = {}
  <2>1. Waiting(S)' = {}
    BY <1>1 DEF Waiting, GotoAndSignal, Goto, TypeOK
  <2> QED
    BY <2>1
<1>2. CASE Waiting(S) # {}
  <2>1. PICK w \in Waiting(S) :
          pc' = [pc EXCEPT ![t] = "idle", ![w] = "woken"]
    BY <1>2 DEF GotoAndSignal
  <2>2. w \in S /\ w \notin OnTheWay(S)
    BY DEF Waiting, OnTheWay
  <2>3. OnTheWay(S)' = OnTheWay(S) \cup {w}
    BY <2>1, <2>2 DEF OnTheWay, TypeOK
  <2>4. Cardinality(OnTheWay(S)') = Cardinality(OnTheWay(S)) + 1
    BY <2>2, <2>3, OnTheWayFinite, FS_AddElement
  <2> QED
    BY <1>2, <2>4, OnTheWayFinite
<1> QED
  BY <1>1, <1>2

(* The committing thread leaves its own side, and so does what it took.    *)
LEMMA SideServed ==
  ASSUME TypeOK, NEW S, S \subseteq Threads, NEW T, T \subseteq Threads,
         S \cap T = {}, NEW t \in S, pc[t] = "commit",
         GotoAndSignal(t, "idle", T), NEW need \in Int,
         Waiting(S) # {} => need <= Cardinality(OnTheWay(S))
  PROVE  Waiting(S)' # {} => need - 1 <= Cardinality(OnTheWay(S)')
<1>1. /\ DOMAIN pc' = Threads
      /\ pc'[t] = "idle"
      /\ \A u \in S \ {t} : pc'[u] = pc[u]
  <2>1. CASE Waiting(T) = {}
    BY <2>1 DEF GotoAndSignal, Goto, TypeOK
  <2>2. CASE Waiting(T) # {}
    <3>1. PICK w \in Waiting(T) :
            pc' = [pc EXCEPT ![t] = "idle", ![w] = "woken"]
      BY <2>2 DEF GotoAndSignal
    <3>2. w \in Threads /\ w \notin S
      BY DEF Waiting
    <3> QED
      BY <3>1, <3>2 DEF TypeOK
  <2> QED
    BY <2>1, <2>2
<1>2. Waiting(S)' = Waiting(S)
  BY <1>1 DEF Waiting
<1>3. OnTheWay(S)' = OnTheWay(S) \ {t} /\ t \in OnTheWay(S)
  BY <1>1 DEF OnTheWay
<1>4. Cardinality(OnTheWay(S)') = Cardinality(OnTheWay(S)) - 1
  BY <1>3, OnTheWayFinite, FS_RemoveElement
<1> QED
  BY <1>2, <1>4, OnTheWayFinite
LEMMA QuietWakeups ==
  ASSUME IndInv, NoLostWakeup, NEW t \in Threads, NEW label,
         pc' = [pc EXCEPT ![t] = label], size' = size,
         \/ MustWait(t)
         \/ label # "wait" /\ (pc[t] \in Heading => label \in Heading)
  PROVE  NoLostWakeup'
<1>1. /\ size \in Int /\ MaxSize - size \in Int
      /\ Consumers \subseteq Threads /\ Producers \subseteq Threads
  BY MaxSizeAssumption DEF IndInv, TypeOK, Threads
<1>2. Waiting(Consumers)' # {} => size <= Cardinality(OnTheWay(Consumers)')
  <2>1. t \in Consumers =>
          \/ size <= 0
          \/ label # "wait" /\ (pc[t] \in Heading => label \in Heading)
    BY ThreadsAssumption DEF MustWait
  <2>2. Waiting(Consumers) # {} => size <= Cardinality(OnTheWay(Consumers))
    BY DEF NoLostWakeup
  <2>3. TypeOK
    BY DEF IndInv
  <2> QED
    BY <1>1, <2>1, <2>2, <2>3, SideQuiet
<1>3. Waiting(Producers)' # {}
        => MaxSize - size <= Cardinality(OnTheWay(Producers)')
  <2>1. t \in Producers =>
          \/ MaxSize - size <= 0
          \/ label # "wait" /\ (pc[t] \in Heading => label \in Heading)
    BY MaxSizeAssumption DEF MustWait, IndInv, TypeOK
  <2>2. Waiting(Producers) # {}
          => MaxSize - size <= Cardinality(OnTheWay(Producers))
    BY DEF NoLostWakeup
  <2>3. TypeOK
    BY DEF IndInv
  <2> QED
    BY <1>1, <2>1, <2>2, <2>3, SideQuiet
<1> QED
  BY <1>2, <1>3 DEF NoLostWakeup

LEMMA EnqueueWakeups ==
  ASSUME IndInv, NoLostWakeup, NEW p \in Producers, Enqueue(p)
  PROVE  NoLostWakeup'
<1>1. /\ size \in Int /\ MaxSize - size \in Int /\ MaxSize \in Int
      /\ Consumers \subseteq Threads /\ Producers \subseteq Threads
      /\ p \in Threads \ Consumers
      /\ Producers \cap Consumers = {}
  BY MaxSizeAssumption, ThreadsAssumption DEF IndInv, TypeOK, Threads
<1>2. Waiting(Consumers)' # {} => size + 1 <= Cardinality(OnTheWay(Consumers)')
  BY <1>1, SideSignalled DEF IndInv, NoLostWakeup, Enqueue
<1>3. Waiting(Producers)' # {}
        => (MaxSize - size) - 1 <= Cardinality(OnTheWay(Producers)')
  BY <1>1, SideServed DEF IndInv, NoLostWakeup, Enqueue
<1>4. size' = size + 1 /\ MaxSize - size' = (MaxSize - size) - 1
  BY <1>1 DEF Enqueue
<1> QED
  BY <1>2, <1>3, <1>4 DEF NoLostWakeup

LEMMA DequeueWakeups ==
  ASSUME IndInv, NoLostWakeup, NEW c \in Consumers, Dequeue(c)
  PROVE  NoLostWakeup'
<1>1. /\ size \in Int /\ MaxSize - size \in Int /\ MaxSize \in Int
      /\ Consumers \subseteq Threads /\ Producers \subseteq Threads
      /\ c \in Threads \ Producers
      /\ Consumers \cap Producers = {}
  BY MaxSizeAssumption, ThreadsAssumption DEF IndInv, TypeOK, Threads
<1>2. Waiting(Producers)' # {}
        => (MaxSize - size) + 1 <= Cardinality(OnTheWay(Producers)')
  BY <1>1, SideSignalled DEF IndInv, NoLostWakeup, Dequeue
<1>3. Waiting(Consumers)' # {} => size - 1 <= Cardinality(OnTheWay(Consumers)')
  BY <1>1, SideServed DEF IndInv, NoLostWakeup, Dequeue
<1>4. size' = size - 1 /\ MaxSize - size' = (MaxSize - size) + 1
  BY <1>1 DEF Dequeue
<1> QED
  BY <1>2, <1>3, <1>4 DEF NoLostWakeup

LEMMA StepWakeups == IndInv /\ NoLostWakeup /\ [Next]_vars => NoLostWakeup'
<1> SUFFICES ASSUME IndInv, NoLostWakeup, [Next]_vars PROVE NoLostWakeup'
  OBVIOUS
<1> USE DEF Goto, ringVars, Heading
<1>1. ASSUME NEW p \in Producers, NEW d \in Items, CallEnqueue(p, d)
      PROVE  NoLostWakeup'
  BY <1>1, QuietWakeups DEF CallEnqueue, Threads
<1>2. ASSUME NEW p \in Producers, Enqueue(p) PROVE NoLostWakeup'
  BY <1>2, EnqueueWakeups
<1>3. ASSUME NEW c \in Consumers, CallDequeue(c) PROVE NoLostWakeup'
  BY <1>3, QuietWakeups DEF CallDequeue, Threads
<1>4. ASSUME NEW c \in Consumers, Dequeue(c) PROVE NoLostWakeup'
  BY <1>4, DequeueWakeups
<1>5. ASSUME NEW t \in Threads, InCall(t) PROVE NoLostWakeup'
  <2>1. CASE Acquire(t)
    BY <2>1, QuietWakeups DEF Acquire
  <2>2. CASE Test(t)
    BY <2>2, QuietWakeups DEF Test
  <2>3. CASE Park(t)
    BY <2>3, QuietWakeups DEF Park, IndInv, DecisionStable
  <2>4. CASE Expire(t)
    BY <2>4, QuietWakeups DEF Expire
  <2>5. CASE GiveUp(t)
    BY <2>5, QuietWakeups DEF GiveUp
  <2> QED
    BY <1>5, <2>1, <2>2, <2>3, <2>4, <2>5 DEF InCall
<1>6. ASSUME NEW t \in Threads, SpuriousWake(t) PROVE NoLostWakeup'
  BY <1>6, QuietWakeups DEF SpuriousWake
<1>7. ASSUME NEW t \in Threads, DeadlinePasses(t) PROVE NoLostWakeup'
  BY <1>7 DEF DeadlinePasses, NoLostWakeup, Waiting, OnTheWay
<1>8. CASE UNCHANGED vars
  BY <1>8 DEF vars, NoLostWakeup, Waiting, OnTheWay
<1> QED
  BY <1>1, <1>2, <1>3, <1>4, <1>5, <1>6, <1>7, <1>8 DEF Next

(* Signalling one waiter per commit is enough, whatever the number of      *)
(* threads, timeouts and spurious wakeups: nobody sleeps beside a pointer  *)
(* or a free slot that nobody else is on the way to.                       *)
THEOREM NoWakeupIsLost == Spec => []NoLostWakeup
<1>1. Init => IndInv /\ NoLostWakeup
  <2>1. Init => Waiting(Consumers) = {} /\ Waiting(Producers) = {}
    BY DEF Init, Waiting, Threads
  <2> QED
    BY <2>1, InitInv DEF NoLostWakeup
<1>2. IndInv /\ [Next]_vars => IndInv'
  BY StepInv
<1>3. IndInv /\ NoLostWakeup /\ [Next]_vars => NoLostWakeup'
  BY StepWakeups
<1> QED
  BY <1>1, <1>2, <1>3, PTL DEF Spec
-----------------------------------------------------------------------------
(* Division with remainder.                                                *)
LEMMA DivMod ==
  ASSUME NEW a \in Nat, NEW n \in Nat, 0 < n
  PROVE  /\ a = (a \div n) * n + (a % n)
         /\ a % n \in Nat /\ a % n < n /\ a \div n \in Nat
BY SMT

(* The deadline of lines 20-26 (and 44-50) is now + timeout_ms exactly,    *)
(* its nanoseconds are in range, as pthread_cond_timedwait requires, and   *)
(* the product before the carry fits the 32-bit tv_nsec of the target.     *)
THEOREM DeadlineExact ==
  ASSUME NEW sec \in Nat, NEW usec \in Nat, usec < 1000000, NEW ms \in Nat
  PROVE  /\ DeadlineRawNsec(usec, ms) < 2147483648
         /\ DeadlineNsec(usec, ms) \in Nat
         /\ DeadlineNsec(usec, ms) < 1000000000
         /\ DeadlineSec(sec, usec, ms) * 1000000000 + DeadlineNsec(usec, ms)
              = sec * 1000000000 + usec * 1000 + ms * 1000000
<1> DEFINE r == ms % 1000
           q == ms \div 1000
           raw == (usec + r * 1000) * 1000
           carry == raw \div 1000000000
           nsec == raw % 1000000000
<1>1. r \in Nat /\ r < 1000 /\ q \in Nat /\ ms = q * 1000 + r
  BY DivMod, SMT
<1>2. /\ DeadlineRawNsec(usec, ms) = raw
      /\ DeadlineSec(sec, usec, ms) = (sec + q) + carry
      /\ DeadlineNsec(usec, ms) = nsec
  BY SMT DEF DeadlineRawNsec, DeadlineSec, DeadlineNsec
<1> HIDE DEF r, q
<1>3. raw \in Nat /\ raw <= 1998999000
  BY <1>1, SMT
<1>4. raw = usec * 1000 + r * 1000000
  BY <1>1, SMT
<1> HIDE DEF raw
<1>5. /\ nsec \in Nat /\ nsec < 1000000000 /\ carry \in Nat
      /\ raw = carry * 1000000000 + nsec
  BY <1>3, DivMod, SMT
<1> HIDE DEF carry, nsec
<1>6. ((sec + q) + carry) * 1000000000 + nsec
        = sec * 1000000000 + usec * 1000 + ms * 1000000
  BY <1>1, <1>4, <1>5, SMT
<1> QED
  BY <1>2, <1>3, <1>5, <1>6, SMT
=============================================================================
