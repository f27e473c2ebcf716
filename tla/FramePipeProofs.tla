-------------------------- MODULE FramePipeProofs --------------------------
(***************************************************************************)
(* Proofs about FramePipe for any sets of buffers and packets, any queue   *)
(* capacities and any number of failures.                                  *)
(***************************************************************************)
EXTENDS FramePipe, SequenceTheorems, FiniteSetTheorems, TLAPS

One(b) == IF b THEN 1 ELSE 0

(* Each thread is at a label of its own, with a packet where it needs one; *)
(* an abort takes all threads along; the device goes with the v4l2 thread. *)
Control ==
  /\ pc["v4l2"] \in {"top", "read", "put", "drop", "recycle", "ref", "done", "aborted"}
  /\ \A c \in Consumers :
       pc[c] \in {"top", "deq", "work", "unref", "release", "done", "aborted"}
  /\ pc["v4l2"] \notin {"top", "done", "aborted"} => pkt["v4l2"] \in Pkts
  /\ \A c \in Consumers : pc[c] \in {"work", "unref", "release"} => pkt[c] \in Pkts
  /\ \A t \in Threads : pc[t] = "aborted" <=> main = "aborted"
  /\ devGone => ~run /\ pc["v4l2"] \in {"done", "aborted"}

Refs(p) ==
  Queued("disp", p) + Queued("rknn", p) + Cardinality(Holders(p)) + lost[p]

Counted == \A p \in Pkts : rc[p] = Refs(p)

(* Only a frame has references, and the thread that dropped the last one   *)
(* is alone with it.                                                       *)
ReleasedOnce ==
  /\ \A p \in Pkts \ Filled : rc[p] = 0
  /\ \A p \in Pkts, t \in Threads : t \in Releasing(p) => p \in Filled /\ rc[p] = 0
  /\ \A p \in Pkts : \A t, u \in Releasing(p) : t = u
  /\ \A p \in Filled : rc[p] = 0 => Releasing(p) # {}

(* The packet the v4l2 thread reads into is nobody else's.                 *)
Private ==
  At("v4l2", "read") => live[pkt["v4l2"]] /\ fd[pkt["v4l2"]] = NoBuf

OneBuffer ==
  /\ \A p, q \in Filled : fd[p] = fd[q] => p = q
  /\ \A p \in Filled : fd[p] \notin driver

HeapOK == Counted /\ ReleasedOnce /\ Private /\ OneBuffer

IndInv == TypeOK /\ Control /\ (Sound => HeapOK)
-----------------------------------------------------------------------------
(* Counting.                                                               *)
LEMMA ThreadCount ==
  ASSUME NEW S \in SUBSET Threads
  PROVE  Cardinality(S) = One("v4l2" \in S) + One("disp" \in S) + One("rknn" \in S)
<1>1. Threads = {"v4l2", "disp", "rknn"}
  BY DEF Threads, Consumers
<1>2. /\ IsFiniteSet({}) /\ Cardinality({}) = 0
      /\ IsFiniteSet(S \cap {"v4l2"})
  BY FS_EmptySet, FS_Singleton, FS_Subset
<1>3. Cardinality(S \cap {"v4l2"}) = One("v4l2" \in S)
  <2>1. CASE "v4l2" \in S
    <3>1. S \cap {"v4l2"} = {"v4l2"}
      BY <2>1
    <3> QED  BY <2>1, <3>1, FS_Singleton DEF One
  <2>2. CASE "v4l2" \notin S
    <3>1. S \cap {"v4l2"} = {}
      BY <2>2
    <3> QED  BY <2>2, <3>1, FS_EmptySet DEF One
  <2> QED  BY <2>1, <2>2
<1>4. /\ IsFiniteSet(S \cap {"v4l2", "disp"})
      /\ Cardinality(S \cap {"v4l2", "disp"}) = One("v4l2" \in S) + One("disp" \in S)
  <2>1. CASE "disp" \in S
    <3>1. S \cap {"v4l2", "disp"} = (S \cap {"v4l2"}) \cup {"disp"}
      BY <2>1
    <3>2. "disp" \notin S \cap {"v4l2"}
      OBVIOUS
    <3>3. /\ IsFiniteSet((S \cap {"v4l2"}) \cup {"disp"})
          /\ Cardinality((S \cap {"v4l2"}) \cup {"disp"}) = Cardinality(S \cap {"v4l2"}) + 1
      BY <1>2, <3>2, FS_AddElement
    <3> QED  BY <1>3, <2>1, <3>1, <3>3 DEF One
  <2>2. CASE "disp" \notin S
    <3>1. S \cap {"v4l2", "disp"} = S \cap {"v4l2"}
      BY <2>2
    <3> QED  BY <1>2, <1>3, <2>2, <3>1 DEF One
  <2> QED  BY <2>1, <2>2
<1>5. CASE "rknn" \in S
  <2>1. S = (S \cap {"v4l2", "disp"}) \cup {"rknn"}
    BY <1>1, <1>5
  <2> QED  BY <1>4, <1>5, <2>1, FS_AddElement DEF One
<1>6. CASE "rknn" \notin S
  <2>1. S = S \cap {"v4l2", "disp"}
    BY <1>1, <1>6
  <2> QED  BY <1>4, <1>6, <2>1 DEF One
<1> QED  BY <1>5, <1>6

Count(q, p) == Cardinality({i \in DOMAIN q : q[i] = p})

LEMMA CountType ==
  ASSUME NEW S, NEW q \in Seq(S), NEW p
  PROVE  /\ IsFiniteSet({i \in DOMAIN q : q[i] = p}) /\ Count(q, p) \in Nat
         /\ \A i \in 1 .. Len(q) : q[i] = p => Count(q, p) > 0
<1>1. DOMAIN q = 1 .. Len(q) /\ Len(q) \in Nat
  BY LenProperties
<1>2. IsFiniteSet(1 .. Len(q))
  BY <1>1, FS_Interval
<1>3. IsFiniteSet({i \in DOMAIN q : q[i] = p})
  BY <1>1, <1>2, FS_Subset
<1>4. Count(q, p) \in Nat
  BY <1>3, FS_CardinalityType DEF Count
<1>5. ASSUME NEW i \in 1 .. Len(q), q[i] = p PROVE Count(q, p) > 0
  <2>1. i \in {j \in DOMAIN q : q[j] = p}
    BY <1>1, <1>5
  <2>2. Count(q, p) # 0
    BY <1>3, <2>1, FS_EmptySet DEF Count
  <2> QED  BY <1>4, <2>2
<1> QED  BY <1>3, <1>4, <1>5

LEMMA CountAppend ==
  ASSUME NEW S, NEW q \in Seq(S), NEW e \in S, NEW p
  PROVE  Count(Append(q, e), p) = Count(q, p) + One(e = p)
<1> DEFINE I == {i \in DOMAIN q : q[i] = p}
           J == {i \in DOMAIN Append(q, e) : Append(q, e)[i] = p}
<1>1. /\ DOMAIN q = 1 .. Len(q) /\ Len(q) \in Nat
      /\ DOMAIN Append(q, e) = 1 .. Len(q) + 1
      /\ \A i \in 1 .. Len(q) : Append(q, e)[i] = q[i]
      /\ Append(q, e)[Len(q) + 1] = e
  BY LenProperties, AppendProperties
<1>2. IsFiniteSet(I) /\ Count(q, p) \in Nat
  BY CountType
<1>5. Count(q, p) = Cardinality(I) /\ Count(Append(q, e), p) = Cardinality(J)
  BY DEF Count
<1>3. CASE e = p
  <2>1. J = I \cup {Len(q) + 1} /\ Len(q) + 1 \notin I
    BY <1>1, <1>3
  <2>2. Cardinality(J) = Cardinality(I) + 1
    BY <1>2, <2>1, FS_AddElement
  <2> HIDE DEF I, J
  <2> QED  BY <1>3, <1>5, <2>2 DEF One
<1>4. CASE e # p
  <2>1. J = I
    BY <1>1, <1>4
  <2> HIDE DEF I, J
  <2> QED  BY <1>2, <1>4, <1>5, <2>1 DEF One
<1> QED  BY <1>3, <1>4

LEMMA CountTail ==
  ASSUME NEW S, NEW q \in Seq(S), q # <<>>, NEW p
  PROVE  Count(Tail(q), p) = Count(q, p) - One(Head(q) = p)
<1> DEFINE I == {i \in DOMAIN q : q[i] = p}
           J == {i \in DOMAIN Tail(q) : Tail(q)[i] = p}
           f == [i \in J |-> i + 1]
<1>1. /\ DOMAIN q = 1 .. Len(q) /\ Len(q) \in Nat /\ Len(q) > 0
      /\ DOMAIN Tail(q) = 1 .. Len(q) - 1
      /\ \A i \in 1 .. Len(q) - 1 : Tail(q)[i] = q[i + 1]
      /\ Head(q) = q[1]
  BY LenProperties, HeadTailProperties, EmptySeq
<1>2. IsFiniteSet(I) /\ IsFiniteSet(J) /\ Tail(q) \in Seq(S)
  <2>1. Tail(q) \in Seq(S)
    BY HeadTailProperties
  <2> QED  BY <2>1, CountType
<1>3. Cardinality(J) = Cardinality(I \ {1})
  <2>1. f \in Bijection(J, I \ {1})
    <3>1. f \in [J -> I \ {1}]
      BY <1>1
    <3>2. \A a, b \in J : f[a] = f[b] => a = b
      BY <1>1
    <3>3. \A i \in I \ {1} : \E a \in J : f[a] = i
      <4> SUFFICES ASSUME NEW i \in I \ {1} PROVE \E a \in J : f[a] = i
        OBVIOUS
      <4>1. i - 1 \in J /\ f[i - 1] = i
        BY <1>1
      <4> QED  BY <4>1
    <3> QED  BY <3>1, <3>2, <3>3 DEF Bijection, Injection, Surjection, IsInjective
  <2>2. ExistsBijection(J, I \ {1})
    BY <2>1 DEF ExistsBijection
  <2> QED  BY <1>2, <2>2, FS_Bijection
<1>4. Cardinality(I \ {1}) = IF 1 \in I THEN Cardinality(I) - 1 ELSE Cardinality(I)
  BY <1>2, FS_RemoveElement
<1>5. 1 \in I <=> Head(q) = p
  BY <1>1
<1>6. Cardinality(I) \in Nat
  BY <1>2, FS_CardinalityType
<1>7. Count(q, p) = Cardinality(I) /\ Count(Tail(q), p) = Cardinality(J)
  BY DEF Count
<1> HIDE DEF I, J
<1> QED  BY <1>3, <1>4, <1>5, <1>6, <1>7 DEF One
-----------------------------------------------------------------------------
(* Types and control, which hold also after the use of a dead packet.      *)
LEMMA InitControl == Init => TypeOK /\ Control
<1> SUFFICES ASSUME Init PROVE TypeOK /\ Control
  OBVIOUS
<1>1. \A c \in Consumers : queue[c] = <<>> /\ Len(queue[c]) <= Cap[c]
  BY CapAssumption, EmptySeq DEF Init, Consumers, Cap
<1>2. <<>> \in Seq(Pkts)
  BY EmptySeq
<1>3. TypeOK
  <2>1. pkt \in [Threads -> Pkts \cup {NoPkt}] /\ queue \in [Consumers -> Seq(Pkts)]
    BY <1>2 DEF Init
  <2>2. errs \in 0 .. MaxErrs
    BY ErrAssumption DEF Init
  <2>3. /\ live \in [Pkts -> BOOLEAN] /\ rc \in [Pkts -> Int]
        /\ fd \in [Pkts -> Bufs \cup {NoBuf}] /\ lost \in [Pkts -> Nat]
    BY DEF Init
  <2>4. pc \in [Threads -> {"top"}] /\ stage \in Consumers
    BY DEF Init, Consumers
  <2>5. /\ run \in BOOLEAN /\ main \in {"loop", "exited", "aborted"} /\ driver \subseteq Bufs
        /\ devGone \in BOOLEAN /\ devFault \in BOOLEAN /\ stale \in BOOLEAN
    BY DEF Init
  <2> QED  BY <1>1, <2>1, <2>2, <2>3, <2>4, <2>5 DEF TypeOK
<1>4. Control
  BY DEF Init, Control, Threads, Consumers
<1> QED  BY <1>3, <1>4

LEMMA PublishTypes == ASSUME TypeOK, Control, Publish PROVE TypeOK' /\ Control'
<1> USE DEF Publish, At, Goto, AfterStage, ctl, heap, dev, Threads
<1>1. pkt["v4l2"] \in Pkts /\ stage \in Consumers /\ queue[stage] \in Seq(Pkts)
  BY DEF TypeOK, Control
<1>2. /\ Append(queue[stage], pkt["v4l2"]) \in Seq(Pkts)
      /\ Len(Append(queue[stage], pkt["v4l2"])) = Len(queue[stage]) + 1
  BY <1>1, AppendProperties
<1>3. Cap[stage] \in Nat /\ Len(queue[stage]) \in Nat
  BY <1>1, CapAssumption, LenProperties DEF Cap, Consumers
<1>4. queue' \in [Consumers -> Seq(Pkts)] /\ \A c \in Consumers : Len(queue'[c]) <= Cap[c]
  BY <1>1, <1>2, <1>3 DEF TypeOK
<1>5. TypeOK'
  BY <1>4 DEF TypeOK
<1>6. Control'
  BY DEF Control, Consumers, TypeOK
<1> QED  BY <1>5, <1>6

LEMMA CaptureTypes == ASSUME TypeOK, Control, Capture PROVE TypeOK' /\ Control'
<1> USE NullAssumption, ErrAssumption
    DEF At, Goto, EnvFails, ctl, heap, dev, Threads, Consumers
<1>1. CASE Alloc
  BY <1>1 DEF Alloc, TypeOK, Control
<1>2. CASE ReadFrame
  BY <1>2 DEF ReadFrame, TypeOK, Control
<1>3. CASE ReadFails \/ PublishTimesOut
  BY <1>3 DEF ReadFails, PublishTimesOut, TypeOK, Control
<1>4. CASE Drop
  BY <1>4 DEF Drop, Unref, AfterStage, TypeOK, Control
<1>5. CASE Recycle
  BY <1>5 DEF Recycle, Release, AfterStage, TypeOK, Control
<1>6. CASE RefAgain
  BY <1>6 DEF RefAgain, TypeOK, Control
<1>7. CASE DestroyDevice
  BY <1>7 DEF DestroyDevice, TypeOK, Control
<1> QED
  BY <1>1, <1>2, <1>3, <1>4, <1>5, <1>6, <1>7, PublishTypes DEF Capture

LEMMA TakeTypes == ASSUME TypeOK, Control, NEW c \in Consumers, TakeFrame(c) PROVE TypeOK' /\ Control'
<1> USE DEF TakeFrame, At, Goto, ctl, heap, dev, Threads
<1>1. queue[c] \in Seq(Pkts) /\ queue[c] # <<>>
  BY DEF TypeOK
<1>2. /\ Head(queue[c]) \in Pkts
      /\ Tail(queue[c]) \in Seq(Pkts) /\ Len(Tail(queue[c])) = Len(queue[c]) - 1
  BY <1>1, HeadTailProperties
<1>3. Cap[c] \in Nat /\ Len(queue[c]) \in Nat
  BY <1>1, CapAssumption, LenProperties DEF Cap, Consumers
<1>4. queue' \in [Consumers -> Seq(Pkts)] /\ \A d \in Consumers : Len(queue'[d]) <= Cap[d]
  BY <1>1, <1>2, <1>3 DEF TypeOK
<1>5. TypeOK'
  BY <1>2, <1>4 DEF TypeOK
<1>6. Control'
  BY <1>2 DEF Control, Consumers, TypeOK
<1> QED  BY <1>5, <1>6

LEMMA ConsumeTypes == ASSUME TypeOK, Control, NEW c \in Consumers, Consume(c) PROVE TypeOK' /\ Control'
<1> USE NullAssumption, ErrAssumption
    DEF At, Goto, EnvFails, ctl, heap, dev, Threads, Consumers
<1>1. CASE CheckRun(c) \/ TakeTimesOut(c)
  <2>1. TypeOK'
    BY <1>1, SMTT(30) DEF CheckRun, TakeTimesOut, TypeOK
  <2>2. Control'
    BY <1>1 DEF CheckRun, TakeTimesOut, TypeOK, Control
  <2> QED  BY <2>1, <2>2
<1>5. CASE Convert(c)
  BY <1>5 DEF Convert, TypeOK, Control
<1>2. CASE ConvertFails(c)
  <2>1. TypeOK'
    <3>1. errs' \in 0 .. MaxErrs
      <4>1. errs' = errs \/ (errs < MaxErrs /\ errs' = errs + 1)
        BY <1>2 DEF ConvertFails
      <4>2. errs \in 0 .. MaxErrs
        BY DEF TypeOK
      <4> QED  BY <4>1, <4>2
    <3>2. lost' \in [Pkts -> Nat]
      <4>1. /\ lost' = [lost EXCEPT ![pkt[c]] = @ + 1] /\ lost \in [Pkts -> Nat]
            /\ pkt[c] \in Pkts
        BY <1>2 DEF ConvertFails, TypeOK, Control
      <4> QED  BY <4>1
    <3>3. stale' \in BOOLEAN
      BY <1>2 DEF ConvertFails
    <3>4. pc' = [pc EXCEPT ![c] = "top"] /\ c \in Threads
          /\ UNCHANGED <<ctl, pkt, stage, live, rc, fd, dev, queue>>
      BY <1>2 DEF ConvertFails
    <3>5. pc' \in [Threads -> {"top", "read", "put", "drop", "recycle", "ref", "deq",
                               "work", "unref", "release", "done", "aborted"}]
      BY <3>4 DEF TypeOK
    <3> QED  BY <3>1, <3>2, <3>3, <3>4, <3>5 DEF TypeOK
  <2>2. Control'
    BY <1>2 DEF ConvertFails, TypeOK, Control
  <2> QED  BY <2>1, <2>2
<1>3. CASE DropFrame(c)
  BY <1>3 DEF DropFrame, Unref, TypeOK, Control
<1>4. CASE ReleaseFrame(c)
  BY <1>4 DEF ReleaseFrame, Release, TypeOK, Control
<1> QED
  BY <1>1, <1>2, <1>3, <1>4, <1>5, TakeTypes DEF Consume

LEMMA ControlInductive == TypeOK /\ Control /\ [Next]_vars => TypeOK' /\ Control'
<1> SUFFICES ASSUME TypeOK, Control, [Next]_vars PROVE TypeOK' /\ Control'
  OBVIOUS
<1>1. CASE Interrupt \/ Exit
  <2>1. TypeOK'
    BY <1>1 DEF Interrupt, Exit, ctl, heap, dev, TypeOK
  <2>2. Control'
    BY <1>1 DEF Interrupt, Exit, ctl, heap, dev, At, TypeOK, Control, Threads, Consumers
  <2> QED  BY <2>1, <2>2
<1>2. CASE UNCHANGED vars
  BY <1>2 DEF vars, ctl, heap, dev, TypeOK, Control
<1> QED  BY <1>1, <1>2, CaptureTypes, ConsumeTypes DEF Next
-----------------------------------------------------------------------------
(* References.                                                             *)
LEMMA RefTypes ==
  ASSUME TypeOK, NEW p \in Pkts
  PROVE  /\ Queued("disp", p) \in Nat /\ Queued("rknn", p) \in Nat
         /\ Cardinality(Holders(p)) \in Nat /\ lost[p] \in Nat
         /\ \A t \in Holders(p) : Cardinality(Holders(p)) > 0
<1>1. \A c \in Consumers : Queued(c, p) \in Nat
  <2>1. \A c \in Consumers : queue[c] \in Seq(Pkts)
    BY DEF TypeOK
  <2>2. \A c \in Consumers : Count(queue[c], p) \in Nat
    BY <2>1, CountType
  <2> QED  BY <2>2 DEF Count, Queued
<1>2. Holders(p) \in SUBSET Threads
  BY DEF Holders
<1>3. Cardinality(Holders(p))
        = One("v4l2" \in Holders(p)) + One("disp" \in Holders(p)) + One("rknn" \in Holders(p))
  BY <1>2, ThreadCount
<1>4. Threads = {"v4l2", "disp", "rknn"}
  BY DEF Threads, Consumers
<1>5. /\ Cardinality(Holders(p)) \in Nat
      /\ \A t \in Threads : t \in Holders(p) => Cardinality(Holders(p)) > 0
  BY <1>3, <1>4 DEF One
<1>6. lost[p] \in Nat
  BY DEF TypeOK
<1> QED
  BY <1>1, <1>2, <1>5, <1>6 DEF Consumers

(* A step of one thread changes what that thread holds.                    *)
LEMMA HoldersChange ==
  ASSUME NEW p, NEW t \in Threads,
         \A u \in Threads \ {t} : u \in Holders(p)' <=> u \in Holders(p)
  PROVE  Cardinality(Holders(p))'
           = Cardinality(Holders(p)) + One(t \in Holders(p)') - One(t \in Holders(p))
<1>1. Holders(p) \in SUBSET Threads /\ Holders(p)' \in SUBSET Threads
  BY DEF Holders
<1>2. Cardinality(Holders(p))
        = One("v4l2" \in Holders(p)) + One("disp" \in Holders(p)) + One("rknn" \in Holders(p))
  BY <1>1, ThreadCount
<1>3. Cardinality(Holders(p)')
        = One("v4l2" \in Holders(p)') + One("disp" \in Holders(p)') + One("rknn" \in Holders(p)')
  BY <1>1, ThreadCount
<1>4. Threads = {"v4l2", "disp", "rknn"}
  BY DEF Threads, Consumers
<1> QED
  BY <1>2, <1>3, <1>4 DEF One

(* A packet somebody refers to is a frame.                                 *)
LEMMA ReferredIsFrame ==
  ASSUME TypeOK, HeapOK, NEW p \in Pkts
  PROVE  /\ rc[p] \in Nat /\ lost[p] <= rc[p]
         /\ \A t \in Holders(p) : rc[p] > 0 /\ p \in Filled
         /\ \A c \in Consumers : Queued(c, p) > 0 => rc[p] > 0 /\ p \in Filled
<1>1. rc[p] = Queued("disp", p) + Queued("rknn", p) + Cardinality(Holders(p)) + lost[p]
  BY DEF HeapOK, Counted, Refs
<1>2. rc[p] > 0 => p \in Filled
  BY DEF HeapOK, ReleasedOnce
<1> QED  BY <1>1, <1>2, RefTypes DEF Consumers

(* Steps that change neither the heap nor a queue, nor what the threads    *)
(* hold.                                                                   *)
LEMMA QuietStep ==
  ASSUME HeapOK, UNCHANGED <<heap, queue>>, driver' \subseteq driver,
         \A p \in Pkts : Holders(p)' = Holders(p) /\ Releasing(p)' = Releasing(p),
         At("v4l2", "read")' => At("v4l2", "read") /\ pkt'["v4l2"] = pkt["v4l2"]
  PROVE  HeapOK'
<1>1. Filled' = Filled /\ Filled \subseteq Pkts
  BY DEF Filled, heap
<1>2. Counted'
  BY DEF HeapOK, Counted, Refs, Queued, heap
<1>3. ReleasedOnce'
  BY <1>1 DEF HeapOK, ReleasedOnce, heap
<1>4. Private'
  BY DEF HeapOK, Private, heap
<1>5. OneBuffer'
  BY <1>1 DEF HeapOK, OneBuffer, heap
<1> QED  BY <1>2, <1>3, <1>4, <1>5 DEF HeapOK

LEMMA QuietCapture ==
  ASSUME TypeOK, Control, HeapOK, ReadFails \/ PublishTimesOut \/ DestroyDevice
  PROVE  HeapOK'
<1> USE DEF At, Goto, Threads, Consumers, TypeOK, Control
<1>1. \A p \in Pkts : Holders(p)' = Holders(p) /\ Releasing(p)' = Releasing(p)
  BY DEF ReadFails, PublishTimesOut, DestroyDevice, Holders, Releasing
<1>2. /\ UNCHANGED <<heap, queue>> /\ driver' \subseteq driver
      /\ At("v4l2", "read")' => At("v4l2", "read") /\ pkt'["v4l2"] = pkt["v4l2"]
  BY DEF ReadFails, PublishTimesOut, DestroyDevice, dev
<1> QED  BY <1>1, <1>2, QuietStep

LEMMA QuietConsume ==
  ASSUME TypeOK, Control, HeapOK, NEW c \in Consumers,
         CheckRun(c) \/ TakeTimesOut(c) \/ Convert(c)
  PROVE  HeapOK'
<1> USE DEF At, Goto, Threads, Consumers, TypeOK, Control
<1>1. \A p \in Pkts : Holders(p)' = Holders(p) /\ Releasing(p)' = Releasing(p)
  BY DEF CheckRun, TakeTimesOut, Convert, Holders, Releasing
<1>2. /\ UNCHANGED <<heap, queue>> /\ driver' \subseteq driver
      /\ At("v4l2", "read")' => At("v4l2", "read") /\ pkt'["v4l2"] = pkt["v4l2"]
  BY DEF CheckRun, TakeTimesOut, Convert, dev
<1> QED  BY <1>1, <1>2, QuietStep
-----------------------------------------------------------------------------
(* malloc returns a chunk nobody refers to.                                *)
LEMMA AllocHeap == ASSUME TypeOK, Control, HeapOK, Alloc PROVE HeapOK'
<1> USE DEF At, Goto
<1>1. PICK p \in Pkts :
        /\ ~live[p] /\ pc["v4l2"] = "top" /\ pc' = [pc EXCEPT !["v4l2"] = "read"]
        /\ pkt' = [pkt EXCEPT !["v4l2"] = p]
        /\ live' = [live EXCEPT ![p] = TRUE]
        /\ rc' = [rc EXCEPT ![p] = 0]
        /\ fd' = [fd EXCEPT ![p] = NoBuf]
        /\ lost' = [lost EXCEPT ![p] = 0]
        /\ UNCHANGED <<driver, queue>>
  BY DEF Alloc, dev
<1>2. rc[p] = 0 /\ lost[p] = 0
  BY <1>1, ReferredIsFrame, RefTypes DEF HeapOK, ReleasedOnce, Filled
<1>3. UNCHANGED <<rc, lost>>
  BY <1>1, <1>2 DEF TypeOK
<1>4. Filled' = Filled /\ Filled \subseteq Pkts \ {p} /\ \A q \in Filled : fd'[q] = fd[q]
  BY <1>1 DEF Filled, TypeOK
<1>5. \A q \in Pkts : Holders(q)' = Holders(q) /\ Releasing(q)' = Releasing(q)
  BY <1>1 DEF Holders, Releasing, TypeOK, Threads, Consumers
<1>6. Counted'
  BY <1>1, <1>3, <1>5 DEF HeapOK, Counted, Refs, Queued
<1>7. ReleasedOnce'
  BY <1>3, <1>4, <1>5 DEF HeapOK, ReleasedOnce
<1>8. Private'
  BY <1>1 DEF Private, TypeOK, Threads
<1>9. OneBuffer'
  BY <1>1, <1>4 DEF HeapOK, OneBuffer
<1> QED  BY <1>6, <1>7, <1>8, <1>9 DEF HeapOK

(* The private packet becomes a frame with one reference.                  *)
LEMMA ReadHeap == ASSUME TypeOK, Control, HeapOK, ReadFrame PROVE HeapOK'
<1> DEFINE p == pkt["v4l2"]
<1>1. PICK b \in driver :
        /\ driver' = driver \ {b} /\ fd' = [fd EXCEPT ![p] = b]
        /\ pc["v4l2"] = "read" /\ pc' = [pc EXCEPT !["v4l2"] = "put"]
        /\ rc' = [rc EXCEPT ![p] = @ + 1]
        /\ UNCHANGED <<pkt, live, lost, queue>>
  BY DEF ReadFrame, At, Goto
<1>2. p \in Pkts /\ live[p] /\ fd[p] = NoBuf /\ b \in Bufs /\ b # NoBuf
  BY <1>1, NullAssumption DEF HeapOK, Private, Control, TypeOK, At
<1>3. p \notin Filled /\ rc[p] = 0
  BY <1>2 DEF Filled, HeapOK, ReleasedOnce
<1> HIDE DEF p
<1>4. Filled' = Filled \cup {p} /\ Filled \subseteq Pkts
      /\ \A q \in Filled : fd'[q] = fd[q] /\ fd'[p] = b
  BY <1>1, <1>2, <1>3 DEF Filled, TypeOK
<1>5. /\ \A q \in Pkts : Releasing(q)' = Releasing(q)
      /\ \A q \in Pkts : \A u \in Threads \ {"v4l2"} : u \in Holders(q)' <=> u \in Holders(q)
      /\ \A q \in Pkts : "v4l2" \notin Holders(q) /\ ("v4l2" \in Holders(q)' <=> q = p)
  BY <1>1 DEF p, Holders, Releasing, TypeOK, Threads, Consumers
<1>6. Counted'
  <2> SUFFICES ASSUME NEW q \in Pkts PROVE rc'[q] = Refs(q)'
    BY DEF Counted
  <2>1. Cardinality(Holders(q))' = Cardinality(Holders(q)) + One(q = p) - One(FALSE)
    BY <1>5, HoldersChange DEF Threads, One
  <2>2. rc'[q] = rc[q] + One(q = p)
    BY <1>1, <1>2 DEF One, TypeOK
  <2>3. Queued("disp", q)' = Queued("disp", q) /\ Queued("rknn", q)' = Queued("rknn", q)
        /\ lost'[q] = lost[q]
    BY <1>1 DEF Queued
  <2>4. rc[q] = Refs(q)
    BY DEF HeapOK, Counted
  <2> QED  BY <2>1, <2>2, <2>3, <2>4, RefTypes DEF Refs, One
<1>7. ReleasedOnce'
  BY <1>1, <1>2, <1>3, <1>4, <1>5 DEF HeapOK, ReleasedOnce, TypeOK
<1>8. Private'
  BY <1>1 DEF Private, At, TypeOK, Threads
<1>9. OneBuffer'
  <2>1. /\ \A q, r \in Filled : fd[q] = fd[r] => q = r
        /\ \A q \in Filled : fd[q] \notin driver
    BY DEF HeapOK, OneBuffer
  <2>2. \A q \in Filled : fd'[q] = fd[q] /\ fd'[q] # b
    BY <1>4, <2>1
  <2>3. driver' = driver \ {b} /\ fd'[p] = b
    BY <1>1, <1>2 DEF TypeOK
  <2>4. \A q, r \in Filled' : fd'[q] = fd'[r] => q = r
    BY <1>4, <2>1, <2>2, <2>3
  <2>5. \A q \in Filled' : fd'[q] \notin driver'
    BY <1>4, <2>1, <2>2, <2>3
  <2> QED  BY <2>4, <2>5 DEF OneBuffer
<1> QED  BY <1>6, <1>7, <1>8, <1>9 DEF HeapOK

(* A reference moves from the v4l2 thread into a queue.                    *)
LEMMA PublishHeap == ASSUME TypeOK, Control, HeapOK, Publish PROVE HeapOK'
<1> DEFINE p == pkt["v4l2"]
<1>1. /\ pc["v4l2"] = "put" /\ pc' \in {[pc EXCEPT !["v4l2"] = l] : l \in {"ref", "top"}}
      /\ queue' = [queue EXCEPT ![stage] = Append(@, p)]
      /\ UNCHANGED <<pkt, heap, driver>>
  BY DEF Publish, At, Goto, AfterStage, dev
<1>2. p \in Pkts /\ stage \in Consumers /\ queue[stage] \in Seq(Pkts)
  BY <1>1 DEF Control, TypeOK
<1> HIDE DEF p
<1>3. Filled' = Filled /\ Filled \subseteq Pkts
  BY <1>1 DEF Filled, heap
<1>4. /\ \A q \in Pkts : Releasing(q)' = Releasing(q)
      /\ \A q \in Pkts : \A u \in Threads \ {"v4l2"} : u \in Holders(q)' <=> u \in Holders(q)
      /\ \A q \in Pkts : "v4l2" \notin Holders(q)' /\ ("v4l2" \in Holders(q) <=> q = p)
  BY <1>1 DEF p, Holders, Releasing, TypeOK, Threads, Consumers
<1>5. Counted'
  <2> SUFFICES ASSUME NEW q \in Pkts PROVE rc'[q] = Refs(q)'
    BY DEF Counted
  <2>1. Cardinality(Holders(q))' = Cardinality(Holders(q)) - One(q = p)
    BY <1>4, HoldersChange, RefTypes DEF Threads, One
  <2>2. Count(Append(queue[stage], p), q) = Count(queue[stage], q) + One(q = p)
    BY <1>2, CountAppend DEF One
  <2>3. Queued("disp", q)' + Queued("rknn", q)' = Queued("disp", q) + Queued("rknn", q) + One(q = p)
    <3>1. CASE stage = "disp"
      <4>1. Queued("disp", q)' = Queued("disp", q) + One(q = p) /\ Queued("rknn", q)' = Queued("rknn", q)
        BY <1>1, <2>2, <3>1 DEF Queued, Count, TypeOK, Consumers
      <4> QED  BY <4>1, RefTypes DEF One
    <3>2. CASE stage = "rknn"
      <4>1. Queued("rknn", q)' = Queued("rknn", q) + One(q = p) /\ Queued("disp", q)' = Queued("disp", q)
        BY <1>1, <2>2, <3>2 DEF Queued, Count, TypeOK, Consumers
      <4> QED  BY <4>1, RefTypes DEF One
    <3> QED  BY <1>2, <3>1, <3>2 DEF Consumers
  <2>4. rc[q] = Refs(q) /\ UNCHANGED <<rc, lost>>
    BY <1>1 DEF HeapOK, Counted, heap
  <2> QED  BY <2>1, <2>3, <2>4, RefTypes DEF Refs, One
<1>6. ReleasedOnce'
  BY <1>1, <1>3, <1>4 DEF HeapOK, ReleasedOnce, heap
<1>7. Private'
  BY <1>1 DEF Private, At, TypeOK, Threads
<1>8. OneBuffer'
  BY <1>1, <1>3 DEF HeapOK, OneBuffer, heap
<1> QED  BY <1>5, <1>6, <1>7, <1>8 DEF HeapOK

(* A reference moves from a queue to its consumer.                         *)
LEMMA TakeHeap ==
  ASSUME TypeOK, Control, HeapOK, NEW c \in Consumers, TakeFrame(c)
  PROVE  HeapOK'
<1> DEFINE p == Head(queue[c])
<1>1. /\ pc[c] = "deq" /\ pc' = [pc EXCEPT ![c] = "work"]
      /\ pkt' = [pkt EXCEPT ![c] = p]
      /\ queue[c] # <<>> /\ queue' = [queue EXCEPT ![c] = Tail(@)]
      /\ UNCHANGED <<heap, driver>>
  BY DEF TakeFrame, At, Goto, dev
<1>2. queue[c] \in Seq(Pkts) /\ p \in Pkts
  BY <1>1, HeadTailProperties DEF TypeOK
<1> HIDE DEF p
<1>3. Filled' = Filled /\ Filled \subseteq Pkts
  BY <1>1 DEF Filled, heap
<1>4. /\ \A q \in Pkts : Releasing(q)' = Releasing(q)
      /\ \A q \in Pkts : \A u \in Threads \ {c} : u \in Holders(q)' <=> u \in Holders(q)
      /\ \A q \in Pkts : c \notin Holders(q) /\ (c \in Holders(q)' <=> q = p)
  BY <1>1 DEF Holders, Releasing, TypeOK, Threads
<1>5. Counted'
  <2> SUFFICES ASSUME NEW q \in Pkts PROVE rc'[q] = Refs(q)'
    BY DEF Counted
  <2>1. Cardinality(Holders(q))' = Cardinality(Holders(q)) + One(q = p)
    BY <1>4, HoldersChange, RefTypes DEF Threads, One
  <2>2. Count(Tail(queue[c]), q) = Count(queue[c], q) - One(q = p)
    BY <1>1, <1>2, CountTail DEF One, p
  <2>3. Queued("disp", q)' + Queued("rknn", q)' = Queued("disp", q) + Queued("rknn", q) - One(q = p)
    <3>1. CASE c = "disp"
      <4>1. Queued("disp", q)' = Queued("disp", q) - One(q = p) /\ Queued("rknn", q)' = Queued("rknn", q)
        BY <1>1, <2>2, <3>1 DEF Queued, Count, TypeOK, Consumers
      <4> QED  BY <4>1, RefTypes DEF One
    <3>2. CASE c = "rknn"
      <4>1. Queued("rknn", q)' = Queued("rknn", q) - One(q = p) /\ Queued("disp", q)' = Queued("disp", q)
        BY <1>1, <2>2, <3>2 DEF Queued, Count, TypeOK, Consumers
      <4> QED  BY <4>1, RefTypes DEF One
    <3> QED  BY <3>1, <3>2 DEF Consumers
  <2>4. rc[q] = Refs(q) /\ UNCHANGED <<rc, lost>>
    BY <1>1 DEF HeapOK, Counted, heap
  <2> QED  BY <2>1, <2>3, <2>4, RefTypes DEF Refs, One
<1>6. ReleasedOnce'
  BY <1>1, <1>3, <1>4 DEF HeapOK, ReleasedOnce, heap
<1>7. Private'
  BY <1>1 DEF HeapOK, Private, At, TypeOK, Threads, Consumers, heap
<1>8. OneBuffer'
  BY <1>1, <1>3 DEF HeapOK, OneBuffer, heap
<1> QED  BY <1>5, <1>6, <1>7, <1>8 DEF HeapOK

(* image_pkt_unref by a thread that holds a reference: the thread that     *)
(* takes the count to zero goes on to release the packet.                  *)
LEMMA UnrefHeap ==
  ASSUME TypeOK, HeapOK, NEW t \in Threads, NEW release, NEW next,
         pc[t] \in {"drop", "unref"}, pkt[t] \in Pkts,
         release \in {"recycle", "release"}, next \in {"ref", "top"},
         Unref(t, release, next)
  PROVE  HeapOK' /\ stale' = stale
<1> DEFINE p == pkt[t]
<1>1. /\ rc' = [rc EXCEPT ![p] = @ - 1] /\ stale' = (stale \/ ~live[p])
      /\ pc' = [pc EXCEPT ![t] = IF rc[p] = 1 THEN release ELSE next]
      /\ UNCHANGED <<pkt, live, fd, lost, driver, queue>>
  BY DEF Unref, Goto, dev
<1>2. t \in Holders(p) /\ p \in Pkts
  BY DEF Holders
<1> HIDE DEF p
<1>3. rc[p] \in Nat /\ rc[p] > 0 /\ p \in Filled /\ live[p]
  BY <1>2, ReferredIsFrame DEF Filled
<1>4. Filled' = Filled /\ Filled \subseteq Pkts
  BY <1>1 DEF Filled
<1>5. /\ \A q \in Pkts \ {p} : Releasing(q)' = Releasing(q)
      /\ \A q \in {p} : Releasing(q)' = IF rc[q] = 1 THEN Releasing(q) \cup {t} ELSE Releasing(q)
      /\ \A q \in Pkts : \A u \in Threads \ {t} : u \in Holders(q)' <=> u \in Holders(q)
      /\ \A q \in Pkts : t \notin Holders(q)' /\ (t \in Holders(q) <=> q = p)
  BY <1>1 DEF p, Holders, Releasing, TypeOK
<1>6. Counted'
  <2> SUFFICES ASSUME NEW q \in Pkts PROVE rc'[q] = Refs(q)'
    BY DEF Counted
  <2>1. Cardinality(Holders(q))' = Cardinality(Holders(q)) - One(q = p)
    BY <1>5, HoldersChange, RefTypes DEF One
  <2>2. rc'[q] = rc[q] - One(q = p)
    BY <1>1, <1>2 DEF One, TypeOK
  <2>3. Queued("disp", q)' = Queued("disp", q) /\ Queued("rknn", q)' = Queued("rknn", q)
        /\ lost'[q] = lost[q]
    BY <1>1 DEF Queued
  <2>4. rc[q] = Refs(q)
    BY DEF HeapOK, Counted
  <2> QED  BY <2>1, <2>2, <2>3, <2>4, RefTypes DEF Refs, One
<1>7. ReleasedOnce'
  <2>1. Releasing(p) = {}
    BY <1>2, <1>3 DEF HeapOK, ReleasedOnce, Releasing
  <2>2. rc'[p] = rc[p] - 1 /\ \A q \in Pkts \ {p} : rc'[q] = rc[q]
    BY <1>1, <1>2 DEF TypeOK
  <2>3. rc'[p] = 0 <=> rc[p] = 1
    BY <1>3, <2>2
  <2>4. \A q \in {p} : Releasing(q)' = IF rc'[q] = 0 THEN {t} ELSE {}
    BY <1>5, <2>1, <2>3
  <2>5. \A q \in Pkts \ Filled' : rc'[q] = 0
    BY <1>3, <1>4, <2>2 DEF HeapOK, ReleasedOnce
  <2>6. \A q \in Pkts, u \in Threads : u \in Releasing(q)' => q \in Filled' /\ rc'[q] = 0
    BY <1>3, <1>4, <1>5, <2>2, <2>4 DEF HeapOK, ReleasedOnce
  <2>7. \A q \in Pkts : \A u, v \in Releasing(q)' : u = v
    BY <1>5, <2>4 DEF HeapOK, ReleasedOnce
  <2>8. \A q \in Filled' : rc'[q] = 0 => Releasing(q)' # {}
    BY <1>4, <1>5, <2>2, <2>4 DEF HeapOK, ReleasedOnce
  <2> QED  BY <2>5, <2>6, <2>7, <2>8 DEF ReleasedOnce
<1>8. Private'
  BY <1>1 DEF HeapOK, Private, At, TypeOK
<1>9. OneBuffer'
  BY <1>1, <1>4 DEF HeapOK, OneBuffer
<1>10. stale' = stale
  BY <1>1, <1>3 DEF TypeOK
<1> QED  BY <1>6, <1>7, <1>8, <1>9, <1>10 DEF HeapOK

(* The thread that releases a packet is alone with it.                     *)
LEMMA ReleaseHeap ==
  ASSUME TypeOK, HeapOK, NEW t \in Threads, NEW next,
         pc[t] \in {"recycle", "release"}, pkt[t] \in Pkts, next \in {"ref", "top"},
         Release(t, next), main' # "aborted"
  PROVE  HeapOK' /\ stale' = stale
<1> DEFINE p == pkt[t]
<1>1. /\ live' = [live EXCEPT ![p] = FALSE] /\ stale' = (stale \/ ~live[p])
      /\ pc' = [pc EXCEPT ![t] = next]
      /\ driver' \subseteq driver \cup {fd[p]}
      /\ UNCHANGED <<pkt, rc, fd, lost, queue>>
  BY DEF Release, Goto
<1>2. t \in Releasing(p) /\ p \in Pkts
  BY DEF Releasing
<1> HIDE DEF p
<1>3. p \in Filled /\ rc[p] = 0 /\ live[p] /\ Releasing(p) = {t}
  BY <1>2 DEF HeapOK, ReleasedOnce, Filled
<1>4. Filled' = Filled \ {p} /\ Filled \subseteq Pkts
  BY <1>1, <1>2 DEF Filled, TypeOK
<1>5. /\ \A q \in Pkts : Releasing(q)' = Releasing(q) \ {t}
      /\ \A q \in Pkts \ {p} : t \notin Releasing(q)
      /\ \A q \in Pkts : Holders(q)' = Holders(q)
  BY <1>1 DEF p, Holders, Releasing, TypeOK
<1>6. Counted'
  BY <1>1, <1>5 DEF HeapOK, Counted, Refs, Queued
<1>7. ReleasedOnce'
  BY <1>1, <1>3, <1>4, <1>5 DEF HeapOK, ReleasedOnce
<1>8. Private'
  BY <1>1, <1>2, <1>3 DEF HeapOK, Private, At, TypeOK, Filled, Threads
<1>9. OneBuffer'
  BY <1>1, <1>3, <1>4 DEF HeapOK, OneBuffer
<1>10. stale' = stale
  BY <1>1, <1>3 DEF TypeOK
<1> QED  BY <1>6, <1>7, <1>8, <1>9, <1>10 DEF HeapOK

(* The second reference, as long as the packet still has its first.        *)
LEMMA RefAgainHeap ==
  ASSUME TypeOK, Control, HeapOK, RefAgain, ~stale'
  PROVE  HeapOK'
<1> DEFINE p == pkt["v4l2"]
<1>1. /\ pc["v4l2"] = "ref" /\ pc' = [pc EXCEPT !["v4l2"] = "put"]
      /\ rc' = [rc EXCEPT ![p] = @ + 1] /\ ~(rc[p] < 1)
      /\ UNCHANGED <<pkt, live, fd, lost, driver, queue>>
  BY DEF RefAgain, At, Goto, dev
<1>2. p \in Pkts
  BY <1>1 DEF Control
<1> HIDE DEF p
<1>3. rc[p] \in Nat /\ rc[p] > 0 /\ p \in Filled
  BY <1>1, <1>2, ReferredIsFrame DEF HeapOK, ReleasedOnce
<1>4. Filled' = Filled /\ Filled \subseteq Pkts
  BY <1>1 DEF Filled
<1>5. /\ \A q \in Pkts : Releasing(q)' = Releasing(q)
      /\ \A q \in Pkts : \A u \in Threads \ {"v4l2"} : u \in Holders(q)' <=> u \in Holders(q)
      /\ \A q \in Pkts : "v4l2" \notin Holders(q) /\ ("v4l2" \in Holders(q)' <=> q = p)
  BY <1>1 DEF p, Holders, Releasing, TypeOK, Threads
<1>6. Counted'
  <2> SUFFICES ASSUME NEW q \in Pkts PROVE rc'[q] = Refs(q)'
    BY DEF Counted
  <2>1. Cardinality(Holders(q))' = Cardinality(Holders(q)) + One(q = p)
    BY <1>5, HoldersChange, RefTypes DEF Threads, One
  <2>2. rc'[q] = rc[q] + One(q = p)
    BY <1>1, <1>2 DEF One, TypeOK
  <2>3. Queued("disp", q)' = Queued("disp", q) /\ Queued("rknn", q)' = Queued("rknn", q)
        /\ lost'[q] = lost[q]
    BY <1>1 DEF Queued
  <2>4. rc[q] = Refs(q)
    BY DEF HeapOK, Counted
  <2> QED  BY <2>1, <2>2, <2>3, <2>4, RefTypes DEF Refs, One
<1>7. ReleasedOnce'
  <2>1. Releasing(p) = {}
    BY <1>2, <1>3 DEF HeapOK, ReleasedOnce, Releasing
  <2>2. rc'[p] = rc[p] + 1 /\ \A q \in Pkts \ {p} : rc'[q] = rc[q]
    BY <1>1, <1>2 DEF TypeOK
  <2> QED  BY <1>2, <1>3, <1>4, <1>5, <2>1, <2>2 DEF HeapOK, ReleasedOnce
<1>8. Private'
  BY <1>1 DEF Private, At, TypeOK, Threads
<1>9. OneBuffer'
  BY <1>1, <1>4 DEF HeapOK, OneBuffer
<1> QED  BY <1>6, <1>7, <1>8, <1>9 DEF HeapOK

(* A failed conversion forgets its reference.                              *)
LEMMA ConvertFailsHeap ==
  ASSUME TypeOK, Control, HeapOK, NEW c \in Consumers, ConvertFails(c)
  PROVE  HeapOK' /\ stale' = stale
<1> DEFINE p == pkt[c]
<1>1. /\ pc[c] = "work" /\ pc' = [pc EXCEPT ![c] = "top"]
      /\ lost' = [lost EXCEPT ![p] = @ + 1] /\ stale' = (stale \/ ~live[p])
      /\ UNCHANGED <<pkt, live, rc, fd, driver, queue>>
  BY DEF ConvertFails, At, Goto, dev
<1>2. p \in Pkts /\ c \in Threads /\ c \in Holders(p)
  BY <1>1 DEF Control, Threads, Holders
<1> HIDE DEF p
<1>3. p \in Filled /\ live[p]
  BY <1>2, ReferredIsFrame DEF Filled
<1>4. Filled' = Filled /\ Filled \subseteq Pkts
  BY <1>1 DEF Filled
<1>5. /\ \A q \in Pkts : Releasing(q)' = Releasing(q)
      /\ \A q \in Pkts : \A u \in Threads \ {c} : u \in Holders(q)' <=> u \in Holders(q)
      /\ \A q \in Pkts : c \notin Holders(q)' /\ (c \in Holders(q) <=> q = p)
  BY <1>1 DEF p, Holders, Releasing, TypeOK, Threads
<1>6. Counted'
  <2> SUFFICES ASSUME NEW q \in Pkts PROVE rc'[q] = Refs(q)'
    BY DEF Counted
  <2>1. Cardinality(Holders(q))' = Cardinality(Holders(q)) - One(q = p)
    BY <1>2, <1>5, HoldersChange, RefTypes DEF One
  <2>2. lost'[q] = lost[q] + One(q = p)
    BY <1>1, <1>2 DEF One, TypeOK
  <2>3. Queued("disp", q)' = Queued("disp", q) /\ Queued("rknn", q)' = Queued("rknn", q)
        /\ rc'[q] = rc[q]
    BY <1>1 DEF Queued
  <2>4. rc[q] = Refs(q)
    BY DEF HeapOK, Counted
  <2> QED  BY <2>1, <2>2, <2>3, <2>4, RefTypes DEF Refs, One
<1>7. ReleasedOnce'
  BY <1>1, <1>4, <1>5 DEF HeapOK, ReleasedOnce
<1>8. Private'
  BY <1>1 DEF HeapOK, Private, At, TypeOK, Threads, Consumers
<1>9. OneBuffer'
  BY <1>1, <1>4 DEF HeapOK, OneBuffer
<1>10. stale' = stale
  BY <1>1, <1>3 DEF TypeOK
<1> QED  BY <1>6, <1>7, <1>8, <1>9, <1>10 DEF HeapOK
-----------------------------------------------------------------------------
(* Soundness is lost for ever.                                             *)
LEMMA SoundBefore == ASSUME TypeOK, [Next]_vars, Sound' PROVE Sound
<1> USE DEF Sound, ctl, heap, dev, TypeOK
<1>1. CASE Capture
  BY <1>1 DEF Capture, Alloc, ReadFrame, ReadFails, Publish, PublishTimesOut, Drop, Recycle, RefAgain,
     DestroyDevice, Unref, Release
<1>2. ASSUME NEW c \in Consumers, Consume(c) PROVE Sound
  BY <1>2 DEF Consume, CheckRun, TakeFrame, TakeTimesOut, Convert, ConvertFails, DropFrame, ReleaseFrame,
     Unref, Release
<1>3. CASE Interrupt \/ Exit \/ UNCHANGED vars
  BY <1>3 DEF Interrupt, Exit, vars
<1> QED  BY <1>1, <1>2, <1>3 DEF Next

LEMMA HeapStep == ASSUME IndInv, [Next]_vars, Sound' PROVE HeapOK'
<1> USE DEF At
<1>1. TypeOK /\ Control /\ HeapOK
  BY SoundBefore DEF IndInv
<1>2. AfterStage \in {"ref", "top"} /\ "v4l2" \in Threads /\ Consumers \subseteq Threads
  BY DEF AfterStage, Threads
<1>3. CASE Drop \/ Recycle
  <2>1. pkt["v4l2"] \in Pkts
    BY <1>1, <1>3 DEF Drop, Recycle, Control
  <2>2. CASE Drop
    BY <1>1, <1>2, <2>1, <2>2, UnrefHeap DEF Drop
  <2>3. CASE Recycle
    BY <1>1, <1>2, <2>1, <2>3, ReleaseHeap DEF Recycle, Sound
  <2> QED  BY <1>3, <2>2, <2>3
<1>4. ASSUME NEW c \in Consumers, DropFrame(c) \/ ReleaseFrame(c) PROVE HeapOK'
  <2>1. pkt[c] \in Pkts
    BY <1>1, <1>4 DEF DropFrame, ReleaseFrame, Control
  <2>2. CASE DropFrame(c)
    BY <1>1, <1>2, <2>1, <2>2, UnrefHeap DEF DropFrame
  <2>3. CASE ReleaseFrame(c)
    BY <1>1, <1>2, <2>1, <2>3, ReleaseHeap DEF ReleaseFrame, Sound
  <2> QED  BY <1>4, <2>2, <2>3
<1>5. CASE RefAgain
  BY <1>1, <1>5, RefAgainHeap DEF Sound
<1>6. CASE Interrupt \/ Exit \/ UNCHANGED vars
  <2>1. UNCHANGED <<pc, pkt, heap, queue, driver>>
    BY <1>6 DEF Interrupt, Exit, vars, dev
  <2>2. \A p \in Pkts : Holders(p)' = Holders(p) /\ Releasing(p)' = Releasing(p)
    BY <2>1 DEF Holders, Releasing
  <2> QED  BY <1>1, <2>1, <2>2, QuietStep
<1> QED
  BY <1>1, <1>3, <1>4, <1>5, <1>6, AllocHeap, ReadHeap, PublishHeap, QuietCapture, TakeHeap, QuietConsume,
     ConvertFailsHeap DEF Next, Capture, Consume

LEMMA InitHeap == Init => HeapOK
<1> SUFFICES ASSUME Init PROVE HeapOK
  OBVIOUS
<1>1. Filled = {}
  BY DEF Init, Filled
<1>2. Counted
  <2> SUFFICES ASSUME NEW p \in Pkts PROVE rc[p] = Refs(p)
    BY DEF Counted
  <2>1. Holders(p) = {}
    BY DEF Init, Holders
  <2>2. \A c \in Consumers : {i \in DOMAIN queue[c] : queue[c][i] = p} = {}
    BY EmptySeq, LenProperties DEF Init
  <2>3. Queued("disp", p) = 0 /\ Queued("rknn", p) = 0
    BY <2>2, FS_EmptySet DEF Queued, Consumers
  <2> QED  BY <2>1, <2>3, FS_EmptySet DEF Init, Refs
<1>3. ReleasedOnce
  BY <1>1 DEF Init, ReleasedOnce, Releasing
<1>4. Private /\ OneBuffer
  BY <1>1 DEF Init, Private, OneBuffer, At, Threads
<1> QED  BY <1>2, <1>3, <1>4 DEF HeapOK

LEMMA Inductive ==
  /\ Init => IndInv
  /\ IndInv /\ [Next]_vars => IndInv'
BY InitControl, InitHeap, ControlInductive, HeapStep DEF IndInv
-----------------------------------------------------------------------------
LEMMA CountsFromInv == IndInv => RefsCounted
<1> SUFFICES ASSUME IndInv, Sound, NEW p \in Filled
             PROVE  /\ rc[p] = Queued("disp", p) + Queued("rknn", p) + Cardinality(Holders(p)) + lost[p]
                    /\ Cardinality(Releasing(p)) = (IF rc[p] = 0 THEN 1 ELSE 0)
  BY DEF RefsCounted
<1>1. p \in Pkts /\ HeapOK
  BY DEF IndInv, Filled
<1>2. CASE rc[p] = 0
  <2>1. PICK t \in Releasing(p) : TRUE
    BY <1>1, <1>2 DEF HeapOK, ReleasedOnce
  <2>2. Releasing(p) = {t}
    BY <1>1, <2>1 DEF HeapOK, ReleasedOnce
  <2>3. Cardinality(Releasing(p)) = 1
    BY <2>2, FS_Singleton
  <2> QED  BY <1>1, <1>2, <2>3 DEF HeapOK, Counted, Refs
<1>3. CASE rc[p] # 0
  <2>1. Releasing(p) = {}
    BY <1>1, <1>3 DEF HeapOK, ReleasedOnce, Releasing
  <2>2. Cardinality(Releasing(p)) = 0
    BY <2>1, FS_EmptySet
  <2> QED  BY <1>1, <1>3, <2>2 DEF HeapOK, Counted, Refs
<1> QED  BY <1>2, <1>3

LEMMA OwnersFromInv == IndInv => BuffersOwned
<1> SUFFICES ASSUME IndInv, Sound, NEW b \in Bufs
             PROVE  LET owners == {p \in Filled : fd[p] = b} IN
                    Cardinality(owners) <= 1 /\ (b \in driver => owners = {})
  BY DEF BuffersOwned
<1> DEFINE owners == {p \in Filled : fd[p] = b}
<1>1. /\ \A p, q \in owners : p = q
      /\ b \in driver => owners = {}
  BY DEF IndInv, HeapOK, OneBuffer
<1>2. owners = {} \/ \E p : owners = {p}
  BY <1>1
<1>3. Cardinality(owners) \in {0, 1}
  BY <1>2, FS_EmptySet, FS_Singleton
<1> QED  BY <1>1, <1>3

LEMMA StableFromInv == IndInv => FrameStable
<1> SUFFICES ASSUME IndInv, Sound, NEW c \in Consumers, At(c, "work")
             PROVE  live[pkt[c]] /\ fd[pkt[c]] \notin driver \cup {NoBuf}
  BY DEF FrameStable
<1>1. pkt[c] \in Pkts /\ c \in Holders(pkt[c])
  BY DEF IndInv, Control, At, Holders, Threads
<1>2. pkt[c] \in Filled
  BY <1>1, ReferredIsFrame DEF IndInv
<1> QED  BY <1>2 DEF Filled, IndInv, HeapOK, OneBuffer

LEMMA Invariance == Spec => []IndInv
BY Inductive, PTL DEF Spec

(* For any number of buffers, packets, slots and failures: every variable  *)
(* keeps its type and no queue outgrows its capacity, whatever a dead      *)
(* packet is used for.                                                     *)
THEOREM TypeCorrect == Spec => []TypeOK
<1>1. IndInv => TypeOK
  BY DEF IndInv
<1> QED  BY <1>1, Invariance, PTL

(* Until a dead packet is used, ref_count of every frame is the number of  *)
(* references to it, and one thread releases it when that is zero.         *)
THEOREM ReferencesExact == Spec => []RefsCounted
BY Invariance, CountsFromInv, PTL

(* Until then, each buffer is at the driver or in one packet: the driver   *)
(* never gets back what a packet still uses.                               *)
THEOREM BuffersExclusive == Spec => []BuffersOwned
BY Invariance, OwnersFromInv, PTL

(* Until then, the frame a consumer reads is allocated and out of the      *)
(* camera's reach.                                                         *)
THEOREM FramesUntouched == Spec => []FrameStable
BY Invariance, StableFromInv, PTL
-----------------------------------------------------------------------------
(* A consumer, and a thread that drops or releases, has a live packet.     *)
LEMMA UsedIsLive ==
  ASSUME IndInv, Sound, NEW t \in Threads, pkt[t] \in Pkts,
         pc[t] \in {"drop", "unref", "work", "recycle", "release"}
  PROVE  live[pkt[t]]
<1>1. t \in Holders(pkt[t]) \/ t \in Releasing(pkt[t])
  BY DEF Holders, Releasing
<1>2. pkt[t] \in Filled
  BY <1>1, ReferredIsFrame DEF IndInv, HeapOK, ReleasedOnce
<1> QED  BY <1>2 DEF Filled

(* Who may be the first to use a dead packet, or the destroyed device.     *)
LEMMA FaultStep ==
  ASSUME IndInv, [Next]_vars
  PROVE  /\ stale' /\ ~stale => At("v4l2", "ref") /\ rc[pkt["v4l2"]] = 0
         /\ devFault' /\ ~devFault => ~run /\ At("v4l2", "done")
<1> USE DEF At
<1>1. CASE RefAgain
  <2>1. pkt["v4l2"] \in Pkts /\ devFault' = devFault /\ main # "aborted"
    BY <1>1 DEF RefAgain, IndInv, Control, Threads, dev
  <2>2. stale' /\ ~stale => rc[pkt["v4l2"]] < 1
    BY <1>1 DEF RefAgain
  <2>3. ~stale => rc[pkt["v4l2"]] \in Nat
    BY <2>1, ReferredIsFrame DEF IndInv, Sound
  <2> QED  BY <1>1, <2>1, <2>2, <2>3 DEF RefAgain
<1>2. ASSUME NEW t \in Threads, NEW release, NEW next, pc[t] \in {"drop", "unref"}, pkt[t] \in Pkts,
             Unref(t, release, next)
      PROVE  (stale' => stale) /\ devFault' = devFault
  <2>1. main # "aborted"
    BY <1>2 DEF IndInv, Control
  <2>2. ~stale => live[pkt[t]]
    BY <1>2, <2>1, UsedIsLive DEF Sound
  <2> QED  BY <1>2, <2>2 DEF Unref, dev
<1>3. ASSUME NEW t \in Threads, NEW next, pc[t] \in {"recycle", "release"}, pkt[t] \in Pkts,
             Release(t, next)
      PROVE  (stale' => stale) /\ (devFault' /\ ~devFault => ~run /\ At("v4l2", "done"))
  <2>1. main # "aborted" /\ "v4l2" \in Threads
    BY <1>3 DEF IndInv, Control, Threads
  <2>2. ~stale => live[pkt[t]]
    BY <1>3, <2>1, UsedIsLive DEF Sound
  <2>3. devGone => ~run /\ pc["v4l2"] = "done"
    BY <2>1 DEF IndInv, Control
  <2> QED  BY <1>3, <2>2, <2>3 DEF Release
<1>4. CASE Capture
  <2>1. CASE Drop \/ Recycle
    BY <1>2, <1>3, <2>1 DEF Drop, Recycle, IndInv, Control, Threads
  <2>2. CASE Alloc \/ ReadFrame \/ ReadFails \/ Publish \/ PublishTimesOut \/ DestroyDevice
    BY <2>2 DEF Alloc, ReadFrame, ReadFails, Publish, PublishTimesOut, DestroyDevice, dev
  <2> QED  BY <1>1, <1>4, <2>1, <2>2 DEF Capture
<1>5. ASSUME NEW c \in Consumers, Consume(c)
      PROVE  (stale' => stale) /\ (devFault' /\ ~devFault => ~run /\ At("v4l2", "done"))
  <2>1. c \in Threads
    BY DEF Threads
  <2>2. CASE DropFrame(c) \/ ReleaseFrame(c)
    BY <1>2, <1>3, <2>1, <2>2 DEF DropFrame, ReleaseFrame, IndInv, Control
  <2>3. CASE Convert(c) \/ ConvertFails(c)
    <3>1. main # "aborted" /\ pkt[c] \in Pkts /\ pc[c] = "work"
      BY <2>1, <2>3 DEF Convert, ConvertFails, IndInv, Control
    <3>2. ~stale => live[pkt[c]]
      BY <2>1, <3>1, UsedIsLive DEF Sound
    <3>3. stale' = (stale \/ ~live[pkt[c]]) /\ devFault' = devFault
      BY <2>3 DEF Convert, ConvertFails, dev
    <3> QED  BY <3>2, <3>3
  <2>4. CASE CheckRun(c) \/ TakeFrame(c) \/ TakeTimesOut(c)
    BY <2>4 DEF CheckRun, TakeFrame, TakeTimesOut, dev
  <2> QED  BY <1>5, <2>2, <2>3, <2>4 DEF Consume
<1>6. CASE Interrupt \/ Exit \/ UNCHANGED vars
  BY <1>6 DEF Interrupt, Exit, vars, dev
<1> QED  BY <1>4, <1>5, <1>6 DEF Next

(* The second reference of the v4l2 thread is the only place where a dead  *)
(* packet is used first, and nothing uses the destroyed device but threads *)
(* that outlive the v4l2 thread after SIGINT.                              *)
THEOREM FaultsTraced == Spec => FaultOrigin
<1>1. IndInv /\ [Next]_vars =>
        [/\ stale' /\ ~stale => At("v4l2", "ref") /\ rc[pkt["v4l2"]] = 0
         /\ devFault' /\ ~devFault => ~run /\ At("v4l2", "done")]_vars
  BY FaultStep
<1> QED  BY <1>1, Invariance, PTL DEF Spec, FaultOrigin
-----------------------------------------------------------------------------
(* Leaks.                                                                  *)
ForgottenRefs == {p \in Filled : Forgotten(p)}

Leaks ==
  Cardinality(ForgottenPackets) + Cardinality(ForgottenBuffers) + Cardinality(ForgottenRefs)

LEMMA Grows ==
  ASSUME NEW S, NEW T, NEW x, IsFiniteSet(S), T \subseteq S \cup {x}
  PROVE  /\ Cardinality(S) \in Nat /\ Cardinality(T) \in Nat
         /\ Cardinality(T) <= Cardinality(S) + 1
         /\ T \subseteq S => Cardinality(T) <= Cardinality(S)
<1>1. /\ IsFiniteSet(S \cup {x})
      /\ Cardinality(S \cup {x}) = IF x \in S THEN Cardinality(S) ELSE Cardinality(S) + 1
  BY FS_AddElement
<1>2. IsFiniteSet(T) /\ Cardinality(T) <= Cardinality(S \cup {x})
  BY <1>1, FS_Subset
<1>3. T \subseteq S => Cardinality(T) <= Cardinality(S)
  BY FS_Subset
<1> QED  BY <1>1, <1>2, <1>3, FS_CardinalityType

LEMMA LeaksFinite ==
  /\ IsFiniteSet(ForgottenPackets) /\ IsFiniteSet(ForgottenBuffers) /\ IsFiniteSet(ForgottenRefs)
  /\ Cardinality(ForgottenPackets) \in Nat /\ Cardinality(ForgottenBuffers) \in Nat
  /\ Cardinality(ForgottenRefs) \in Nat
<1>1. /\ ForgottenPackets \in SUBSET Pkts /\ ForgottenRefs \in SUBSET Pkts
      /\ ForgottenBuffers \in SUBSET Bufs
  BY DEF ForgottenPackets, ForgottenRefs, ForgottenBuffers, Filled
<1>2. IsFiniteSet(ForgottenPackets) /\ IsFiniteSet(ForgottenBuffers) /\ IsFiniteSet(ForgottenRefs)
  BY <1>1, FiniteAssumption, FS_Subset
<1> QED  BY <1>2, FS_CardinalityType

(* A step without a failure leaks nothing, one with a failure at most one  *)
(* thing.                                                                  *)
NothingLeaks ==
  /\ ForgottenPackets' \subseteq ForgottenPackets
  /\ ForgottenBuffers' \subseteq ForgottenBuffers
  /\ ForgottenRefs' \subseteq ForgottenRefs

OneLeaks ==
  \/ \E x : /\ ForgottenPackets' \subseteq ForgottenPackets \cup {x}
            /\ ForgottenBuffers' \subseteq ForgottenBuffers
            /\ ForgottenRefs' \subseteq ForgottenRefs
  \/ \E x : /\ ForgottenPackets' \subseteq ForgottenPackets
            /\ ForgottenBuffers' \subseteq ForgottenBuffers \cup {x}
            /\ ForgottenRefs' \subseteq ForgottenRefs
  \/ \E x : /\ ForgottenPackets' \subseteq ForgottenPackets
            /\ ForgottenBuffers' \subseteq ForgottenBuffers
            /\ ForgottenRefs' \subseteq ForgottenRefs \cup {x}

LEMMA LeaksCounted ==
  ASSUME Leaks <= errs, errs \in Nat,
         (NothingLeaks /\ errs' = errs) \/ (OneLeaks /\ errs' = errs + 1)
  PROVE  Leaks' <= errs'
<1> USE LeaksFinite
<1>1. CASE NothingLeaks /\ errs' = errs
  <2>1. /\ Cardinality(ForgottenPackets') \in Nat /\ Cardinality(ForgottenPackets') <= Cardinality(ForgottenPackets)
        /\ Cardinality(ForgottenBuffers') \in Nat /\ Cardinality(ForgottenBuffers') <= Cardinality(ForgottenBuffers)
        /\ Cardinality(ForgottenRefs') \in Nat /\ Cardinality(ForgottenRefs') <= Cardinality(ForgottenRefs)
    BY <1>1, Grows DEF NothingLeaks
  <2> QED  BY <1>1, <2>1 DEF Leaks
<1>2. ASSUME OneLeaks, errs' = errs + 1
      PROVE  /\ Cardinality(ForgottenPackets') \in Nat /\ Cardinality(ForgottenBuffers') \in Nat
             /\ Cardinality(ForgottenRefs') \in Nat
             /\ Cardinality(ForgottenPackets') + Cardinality(ForgottenBuffers') + Cardinality(ForgottenRefs')
                  <= Leaks + 1
  <2>1. CASE \E x : /\ ForgottenPackets' \subseteq ForgottenPackets \cup {x}
                    /\ ForgottenBuffers' \subseteq ForgottenBuffers
                    /\ ForgottenRefs' \subseteq ForgottenRefs
    <3>1. /\ Cardinality(ForgottenPackets') <= Cardinality(ForgottenPackets) + 1
          /\ Cardinality(ForgottenBuffers') <= Cardinality(ForgottenBuffers)
          /\ Cardinality(ForgottenRefs') <= Cardinality(ForgottenRefs)
          /\ Cardinality(ForgottenPackets') \in Nat /\ Cardinality(ForgottenBuffers') \in Nat
          /\ Cardinality(ForgottenRefs') \in Nat
      BY <2>1, Grows
    <3> QED  BY <3>1 DEF Leaks
  <2>2. CASE \E x : /\ ForgottenPackets' \subseteq ForgottenPackets
                    /\ ForgottenBuffers' \subseteq ForgottenBuffers \cup {x}
                    /\ ForgottenRefs' \subseteq ForgottenRefs
    <3>1. /\ Cardinality(ForgottenPackets') <= Cardinality(ForgottenPackets)
          /\ Cardinality(ForgottenBuffers') <= Cardinality(ForgottenBuffers) + 1
          /\ Cardinality(ForgottenRefs') <= Cardinality(ForgottenRefs)
          /\ Cardinality(ForgottenPackets') \in Nat /\ Cardinality(ForgottenBuffers') \in Nat
          /\ Cardinality(ForgottenRefs') \in Nat
      BY <2>2, Grows
    <3> QED  BY <3>1 DEF Leaks
  <2>3. CASE \E x : /\ ForgottenPackets' \subseteq ForgottenPackets
                    /\ ForgottenBuffers' \subseteq ForgottenBuffers
                    /\ ForgottenRefs' \subseteq ForgottenRefs \cup {x}
    <3>1. /\ Cardinality(ForgottenPackets') <= Cardinality(ForgottenPackets)
          /\ Cardinality(ForgottenBuffers') <= Cardinality(ForgottenBuffers)
          /\ Cardinality(ForgottenRefs') <= Cardinality(ForgottenRefs) + 1
          /\ Cardinality(ForgottenPackets') \in Nat /\ Cardinality(ForgottenBuffers') \in Nat
          /\ Cardinality(ForgottenRefs') \in Nat
      BY <2>3, Grows
    <3> QED  BY <3>1 DEF Leaks
  <2> QED  BY <1>2, <2>1, <2>2, <2>3 DEF OneLeaks
<1> QED  BY <1>1, <1>2 DEF Leaks

(* The buffer goes to the driver, unless QBUF fails.                       *)
LEMMA ReleaseLeaks ==
  ASSUME IndInv, Sound, ~devGone, NEW t \in Threads, NEW next,
         pc[t] \in {"recycle", "release"}, pkt[t] \in Pkts, next \in {"ref", "top"},
         Release(t, next), main' # "aborted"
  PROVE  (NothingLeaks /\ errs' = errs) \/ (OneLeaks /\ errs' = errs + 1)
<1> DEFINE p == pkt[t]
<1> USE DEF IndInv
<1>1. t \in Releasing(p) /\ p \in Pkts
  BY DEF Releasing
<1>2. live' = [live EXCEPT ![p] = FALSE] /\ UNCHANGED <<pkt, rc, fd, lost>>
      /\ pc' = [pc EXCEPT ![t] = next]
      /\ \/ driver' = driver \cup ({fd[p]} \cap Bufs) /\ errs' = errs
         \/ driver' = driver /\ errs' = errs + 1
  BY DEF Release, Goto, EnvFails
<1> HIDE DEF p
<1>3. p \in Filled /\ Filled' = Filled \ {p} /\ fd[p] \in Bufs
  BY <1>1, <1>2 DEF HeapOK, ReleasedOnce, Filled, TypeOK
<1>4. ForgottenPackets' \subseteq ForgottenPackets
  BY <1>1, <1>2 DEF ForgottenPackets, TypeOK, At, Threads
<1>5. ForgottenRefs' \subseteq ForgottenRefs
  BY <1>2, <1>3 DEF ForgottenRefs, Forgotten
<1>6. ForgottenBuffers' \subseteq ForgottenBuffers \cup {fd[p]}
  BY <1>2, <1>3 DEF ForgottenBuffers
<1>7. fd[p] \in driver' => ForgottenBuffers' \subseteq ForgottenBuffers
  BY <1>6 DEF ForgottenBuffers
<1> QED  BY <1>2, <1>3, <1>4, <1>5, <1>6, <1>7 DEF NothingLeaks, OneLeaks

LEMMA CaptureLeaks ==
  ASSUME IndInv, Sound, Sound', ~devGone', Capture
  PROVE  (NothingLeaks /\ errs' = errs) \/ (OneLeaks /\ errs' = errs + 1)
<1> USE DEF At, Goto, dev, heap, IndInv, HeapOK, NothingLeaks, ForgottenPackets, ForgottenBuffers,
            ForgottenRefs, Forgotten, Filled
<1>1. CASE Alloc
  <2>1. PICK p \in Pkts :
          /\ ~live[p] /\ pc["v4l2"] = "top" /\ pc' = [pc EXCEPT !["v4l2"] = "read"]
          /\ pkt' = [pkt EXCEPT !["v4l2"] = p] /\ live' = [live EXCEPT ![p] = TRUE]
          /\ fd' = [fd EXCEPT ![p] = NoBuf] /\ lost' = [lost EXCEPT ![p] = 0]
          /\ UNCHANGED <<driver, errs>>
    BY <1>1 DEF Alloc
  <2>2. Filled' = Filled /\ p \notin Filled /\ \A q \in Filled : fd'[q] = fd[q] /\ lost'[q] = lost[q]
    BY <2>1 DEF TypeOK
  <2>3. ForgottenPackets' \subseteq ForgottenPackets
    BY <2>1 DEF TypeOK, Threads
  <2> QED  BY <2>1, <2>2, <2>3
<1>2. CASE ReadFrame
  <2> DEFINE p == pkt["v4l2"]
  <2>1. PICK b \in driver :
          /\ driver' = driver \ {b} /\ fd' = [fd EXCEPT ![p] = b]
          /\ pc["v4l2"] = "read" /\ pc' = [pc EXCEPT !["v4l2"] = "put"]
          /\ UNCHANGED <<pkt, live, lost, errs>>
    BY <1>2 DEF ReadFrame
  <2>2. p \in Pkts /\ p \notin Filled /\ live[p] /\ b \in Bufs /\ b # NoBuf
    BY <2>1, NullAssumption DEF Private, Control, TypeOK
  <2>3. lost[p] = 0
    BY <2>2, ReferredIsFrame, RefTypes DEF ReleasedOnce
  <2> HIDE DEF p
  <2>4. Filled' = Filled \cup {p} /\ fd'[p] = b /\ \A q \in Filled : fd'[q] = fd[q]
    BY <2>1, <2>2 DEF TypeOK
  <2>5. ForgottenPackets' \subseteq ForgottenPackets
    BY <2>1, <2>2 DEF TypeOK, Threads, p
  <2> QED  BY <2>1, <2>3, <2>4, <2>5
<1>3. CASE ReadFails
  BY <1>3 DEF ReadFails, EnvFails, OneLeaks, TypeOK
<1>4. CASE Publish \/ PublishTimesOut \/ RefAgain
  BY <1>4 DEF Publish, PublishTimesOut, RefAgain, TypeOK
<1>5. CASE Drop
  BY <1>5 DEF Drop, Unref, TypeOK
<1>6. CASE Recycle
  <2>1. /\ pc["v4l2"] \in {"recycle", "release"} /\ pkt["v4l2"] \in Pkts /\ "v4l2" \in Threads
        /\ AfterStage \in {"ref", "top"} /\ Release("v4l2", AfterStage)
    BY <1>6 DEF Recycle, Control, Threads, AfterStage
  <2>2. main' # "aborted" /\ ~devGone
    BY <2>1 DEF Release, Sound
  <2> HIDE DEF NothingLeaks, IndInv
  <2> QED  BY <2>1, <2>2, ReleaseLeaks
<1>7. CASE DestroyDevice
  BY <1>7 DEF DestroyDevice
<1> QED  BY <1>1, <1>2, <1>3, <1>4, <1>5, <1>6, <1>7 DEF Capture

LEMMA ConsumeLeaks ==
  ASSUME IndInv, Sound, Sound', ~devGone, NEW c \in Consumers, Consume(c)
  PROVE  (NothingLeaks /\ errs' = errs) \/ (OneLeaks /\ errs' = errs + 1)
<1> USE DEF At, Goto, dev, heap, IndInv, HeapOK
<1>1. CASE CheckRun(c) \/ TakeFrame(c) \/ TakeTimesOut(c) \/ Convert(c) \/ DropFrame(c)
  <2>1. UNCHANGED <<live, fd, lost, driver, errs>> /\ pc'["v4l2"] = pc["v4l2"] /\ pkt'["v4l2"] = pkt["v4l2"]
    BY <1>1 DEF CheckRun, TakeFrame, TakeTimesOut, Convert, DropFrame, Unref, Consumers, Threads, TypeOK
  <2> QED
    BY <2>1 DEF NothingLeaks, ForgottenPackets, ForgottenBuffers, ForgottenRefs, Forgotten, Filled
<1>2. CASE ConvertFails(c)
  <2>1. /\ UNCHANGED <<live, fd, driver>> /\ pc'["v4l2"] = pc["v4l2"] /\ pkt'["v4l2"] = pkt["v4l2"]
        /\ lost' = [lost EXCEPT ![pkt[c]] = @ + 1] /\ errs' = errs + 1
    BY <1>2 DEF ConvertFails, EnvFails, Consumers, Threads, TypeOK
  <2>2. Filled' = Filled /\ Filled \subseteq Pkts
    BY <2>1 DEF Filled
  <2>3. ForgottenRefs' \subseteq ForgottenRefs \cup {pkt[c]}
    BY <2>1, <2>2 DEF ForgottenRefs, Forgotten, TypeOK
  <2>4. ForgottenPackets' \subseteq ForgottenPackets /\ ForgottenBuffers' \subseteq ForgottenBuffers
    BY <2>1, <2>2 DEF ForgottenPackets, ForgottenBuffers
  <2> QED  BY <2>1, <2>3, <2>4 DEF OneLeaks
<1>3. CASE ReleaseFrame(c)
  BY <1>3, ReleaseLeaks DEF ReleaseFrame, Control, Threads, Sound
<1> QED  BY <1>1, <1>2, <1>3 DEF Consume

LeaksBounded == Sound /\ ~devGone => Leaks <= errs

LEMMA LeaksStep == ASSUME IndInv, LeaksBounded, [Next]_vars PROVE LeaksBounded'
<1> SUFFICES ASSUME Sound', ~devGone' PROVE Leaks' <= errs'
  BY DEF LeaksBounded
<1>1. Sound /\ errs \in Nat
  BY SoundBefore, ErrAssumption DEF IndInv, TypeOK
<1>2. ~devGone
  BY DEF Next, Capture, Alloc, ReadFrame, ReadFails, Publish, PublishTimesOut, Drop, Recycle, RefAgain,
     DestroyDevice, Unref, Release, Consume, CheckRun, TakeFrame, TakeTimesOut, Convert, ConvertFails,
     DropFrame, ReleaseFrame, Interrupt, Exit, vars, dev
<1>3. CASE Interrupt \/ Exit \/ UNCHANGED vars
  <2>1. UNCHANGED <<pc, pkt, heap, driver, errs>>
    BY <1>3 DEF Interrupt, Exit, vars, dev
  <2>2. NothingLeaks /\ errs' = errs
    BY <2>1 DEF NothingLeaks, ForgottenPackets, ForgottenBuffers, ForgottenRefs, Forgotten, Filled, At, heap
  <2> QED  BY <1>1, <1>2, <2>2, LeaksCounted DEF LeaksBounded
<1>4. CASE Capture \/ \E c \in Consumers : Consume(c)
  <2>1. (NothingLeaks /\ errs' = errs) \/ (OneLeaks /\ errs' = errs + 1)
    BY <1>1, <1>2, <1>4, CaptureLeaks, ConsumeLeaks
  <2> QED  BY <1>1, <1>2, <2>1, LeaksCounted DEF LeaksBounded
<1> QED  BY <1>3, <1>4 DEF Next

(* For any finite sets of buffers and packets: until a dead packet is used *)
(* or the device destroyed, every forgotten packet, reference and buffer   *)
(* is the trace of a failure of its own.                                   *)
THEOREM LeaksTraced == Spec => []LeaksAreFailures
<1>1. Init => LeaksBounded
  <2> SUFFICES ASSUME Init PROVE Leaks <= errs
    BY DEF LeaksBounded
  <2>1. ForgottenPackets = {} /\ ForgottenBuffers = {} /\ ForgottenRefs = {}
    BY DEF Init, ForgottenPackets, ForgottenBuffers, ForgottenRefs, Filled
  <2> QED  BY <2>1, FS_EmptySet DEF Init, Leaks
<1>2. LeaksBounded => LeaksAreFailures
  BY DEF LeaksBounded, Leaks, LeaksAreFailures, ForgottenRefs
<1> QED  BY <1>1, <1>2, LeaksStep, Invariance, PTL DEF Spec
=============================================================================
