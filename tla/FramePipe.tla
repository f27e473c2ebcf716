----------------------------- MODULE FramePipe -----------------------------
(***************************************************************************)
(* The life of a camera frame: src/main.cpp's v4l2, rknn and disp threads, *)
(* the reference counted packet of src/src/image_pkt.c and the buffer      *)
(* exchange with the driver of src/src/v4l2_device.c.                      *)
(*                                                                         *)
(* The v4l2 thread allocates a packet, dequeues a driver buffer into it    *)
(* and publishes it twice, to the disp queue and then to the rknn queue,   *)
(* taking one reference for each.  A consumer converts the frame and drops *)
(* its reference; the last one queues the buffer back at the driver and    *)
(* frees the packet.  A queue is the bounded FIFO that PtrQueue            *)
(* implements: an enqueue fails only after waiting on a full queue.        *)
(*                                                                         *)
(* A freed packet keeps its contents until malloc hands it out again.      *)
(* `stale` records that a packet was used after its last reference was     *)
(* dropped; what a build does from then on is open (old contents, another  *)
(* packet's, an abort by free), so no property says anything about it: the *)
(* old contents are one outcome, kept to show where it leads.              *)
(***************************************************************************)
EXTENDS Integers, Sequences, FiniteSets

CONSTANTS
  Bufs,       \* the driver's buffers (v4l2_device_create: 4)
  Pkts,       \* chunks malloc can return for an image_pkt_t
  DispCap,    \* capacity of disp_queue (4)
  RknnCap,    \* capacity of rknn_queue (2)
  EnvErrors,  \* which calls to the outside may fail
  MaxErrs,    \* bound: how many failures the outside produces
  NoPkt, NoBuf

Consumers == {"disp", "rknn"}
Threads == Consumers \cup {"v4l2"}
Cap == [disp |-> DispCap, rknn |-> RknnCap]

ASSUME CapAssumption == DispCap \in Nat \ {0} /\ RknnCap \in Nat \ {0}
ASSUME ErrAssumption == /\ EnvErrors \subseteq {"dqbuf", "import", "qbuf"}
                        /\ MaxErrs \in Nat
ASSUME NullAssumption == NoPkt \notin Pkts /\ NoBuf \notin Bufs
ASSUME FiniteAssumption == IsFiniteSet(Bufs) /\ IsFiniteSet(Pkts)

VARIABLES
  run,        \* main_loop_run
  main,       \* "loop", "exited" after the joins, or "aborted"
  pc, pkt,    \* of each thread: where it is, its img_pkt
  stage,      \* the queue the v4l2 thread is publishing to
  live,       \* the chunk is allocated
  rc, fd,     \* ref_count and dma_fd of the chunk
  lost,       \* references to the chunk an error path forgot to drop
  driver,     \* buffers queued at the driver
  queue,      \* disp_queue and rknn_queue
  devGone,    \* v4l2_device_destroy was called
  devFault,   \* the device was used afterwards
  stale,      \* a packet was used after its last reference was dropped
  errs        \* failures of the outside so far

heap == <<live, rc, fd, lost>>
ctl == <<run, main>>
dev == <<driver, devGone, devFault>>
vars == <<ctl, pc, pkt, stage, heap, dev, queue, stale, errs>>

Init ==
  /\ run = TRUE /\ main = "loop"
  /\ pc = [t \in Threads |-> "top"]
  /\ pkt = [t \in Threads |-> NoPkt]
  /\ stage = "disp"
  /\ live = [p \in Pkts |-> FALSE]
  /\ rc = [p \in Pkts |-> 0]
  /\ fd = [p \in Pkts |-> NoBuf]
  /\ lost = [p \in Pkts |-> 0]
  /\ driver = Bufs
  /\ queue = [c \in Consumers |-> <<>>]
  /\ devGone = FALSE /\ devFault = FALSE
  /\ stale = FALSE
  /\ errs = 0
-----------------------------------------------------------------------------
At(t, label) == pc[t] = label
Goto(t, label) == pc' = [pc EXCEPT ![t] = label]

(* A call to the driver or to RGA fails.                                   *)
EnvFails(kind) ==
  /\ kind \in EnvErrors
  /\ errs < MaxErrs
  /\ errs' = errs + 1

(* Mutant: released one reference too early.                               *)
UnrefEarly(t, release, next) ==
  LET p == pkt[t] IN
  /\ rc' = [rc EXCEPT ![p] = @ - 1]
  /\ stale' = (stale \/ ~live[p])
  /\ Goto(t, IF rc[p] <= 2 THEN release ELSE next)
  /\ UNCHANGED <<ctl, pkt, stage, live, fd, lost, dev, queue, errs>>

(* image_pkt_unref of thread t's packet: decrement, and continue at        *)
(* `release` when that was the last reference.                             *)
Unref(t, release, next) ==
  LET p == pkt[t] IN
  /\ rc' = [rc EXCEPT ![p] = @ - 1]
  /\ stale' = (stale \/ ~live[p])
  /\ Goto(t, IF rc[p] = 1 THEN release ELSE next)
  /\ UNCHANGED <<ctl, pkt, stage, live, fd, lost, dev, queue, errs>>

(* Mutant: the packet has no release callback, its buffer is not queued.   *)
ReleaseNoQbuf(t, next) ==
  /\ live' = [live EXCEPT ![pkt[t]] = FALSE]
  /\ stale' = (stale \/ ~live[pkt[t]])
  /\ Goto(t, next)
  /\ UNCHANGED <<ctl, pkt, stage, rc, fd, lost, dev, queue, errs>>

(* Mutant: the buffer goes back to the driver, the packet is not freed.    *)
ReleaseNoFree(t, next) ==
  /\ driver' = IF devGone THEN driver ELSE driver \cup ({fd[pkt[t]]} \cap Bufs)
  /\ Goto(t, next)
  /\ UNCHANGED <<ctl, pkt, stage, heap, devGone, devFault, queue, stale, errs>>

(* The release callback and free: the buffer goes back to the driver       *)
(* (QBUF of a buffer that is already there changes nothing), unless QBUF   *)
(* fails or the device is gone by now.  Freeing a free chunk, or calling   *)
(* into a freed device, may also abort the process.                        *)
Release(t, next) ==
  LET p == pkt[t]
      late == devGone /\ fd[p] # NoBuf IN
  /\ live' = [live EXCEPT ![p] = FALSE]
  /\ stale' = (stale \/ ~live[p])
  /\ devFault' = (devFault \/ late)
  /\ \/ Goto(t, next) /\ UNCHANGED main
     \/ /\ late \/ ~live[p]
        /\ main' = "aborted"
        /\ pc' = [u \in Threads |-> "aborted"]
  /\ \/ /\ driver' = IF devGone THEN driver ELSE driver \cup ({fd[p]} \cap Bufs)
        /\ UNCHANGED errs
     \/ EnvFails("qbuf") /\ fd[p] # NoBuf /\ ~devGone /\ UNCHANGED driver
  /\ UNCHANGED <<run, pkt, stage, rc, fd, lost, devGone, queue>>
-----------------------------------------------------------------------------
(* The v4l2 thread.                                                        *)

(* malloc and memset of the next packet.                                   *)
Alloc ==
  /\ At("v4l2", "top") /\ run
  /\ \E p \in {q \in Pkts : ~live[q]} :
       /\ pkt' = [pkt EXCEPT !["v4l2"] = p]
       /\ live' = [live EXCEPT ![p] = TRUE]
       /\ rc' = [rc EXCEPT ![p] = 0]
       /\ fd' = [fd EXCEPT ![p] = NoBuf]
       /\ lost' = [lost EXCEPT ![p] = 0]
  /\ Goto("v4l2", "read")
  /\ UNCHANGED <<ctl, stage, dev, queue, stale, errs>>

(* DQBUF delivers a filled buffer; the packet takes it and, still private  *)
(* to this thread, its first reference.                                    *)
ReadFrame ==
  /\ At("v4l2", "read")
  /\ \E b \in driver :
       /\ driver' = driver \ {b}
       /\ fd' = [fd EXCEPT ![pkt["v4l2"]] = b]
  /\ rc' = [rc EXCEPT ![pkt["v4l2"]] = @ + 1]
  /\ stage' = "disp"
  /\ Goto("v4l2", "put")
  /\ UNCHANGED <<ctl, pkt, live, lost, devGone, devFault, queue, stale, errs>>

(* DQBUF fails: `continue`, and the packet is forgotten.                   *)
ReadFails ==
  /\ At("v4l2", "read")
  /\ EnvFails("dqbuf")
  /\ Goto("v4l2", "top")
  /\ UNCHANGED <<ctl, pkt, stage, heap, dev, queue, stale>>

AfterStage == IF stage = "disp" THEN "ref" ELSE "top"

(* Mutant: a full queue takes one more.                                    *)
PublishUnbounded ==
  /\ At("v4l2", "put")
  /\ queue' = [queue EXCEPT ![stage] = Append(@, pkt["v4l2"])]
  /\ Goto("v4l2", AfterStage)
  /\ UNCHANGED <<ctl, pkt, stage, heap, dev, stale, errs>>

Publish ==
  /\ At("v4l2", "put")
  /\ Len(queue[stage]) < Cap[stage]
  /\ queue' = [queue EXCEPT ![stage] = Append(@, pkt["v4l2"])]
  /\ Goto("v4l2", AfterStage)
  /\ UNCHANGED <<ctl, pkt, stage, heap, dev, stale, errs>>

(* Mutants: a refused packet keeps its reference; it is recycled at once.  *)
PublishForgets ==
  /\ At("v4l2", "put")
  /\ Len(queue[stage]) >= Cap[stage]
  /\ Goto("v4l2", AfterStage)
  /\ UNCHANGED <<ctl, pkt, stage, heap, dev, queue, stale, errs>>

PublishRecycles ==
  /\ At("v4l2", "put")
  /\ Len(queue[stage]) >= Cap[stage]
  /\ Goto("v4l2", "recycle")
  /\ UNCHANGED <<ctl, pkt, stage, heap, dev, queue, stale, errs>>

PublishTimesOut ==
  /\ At("v4l2", "put")
  /\ Len(queue[stage]) >= Cap[stage]
  /\ Goto("v4l2", "drop")
  /\ UNCHANGED <<ctl, pkt, stage, heap, dev, queue, stale, errs>>

Drop == At("v4l2", "drop") /\ Unref("v4l2", "recycle", AfterStage)

Recycle == At("v4l2", "recycle") /\ Release("v4l2", AfterStage)

(* The reference for the rknn queue, taken after the packet was published  *)
(* to (or refused by) the disp queue.  If the count had reached zero by    *)
(* then the packet is being freed or is free, and zero becomes one.        *)
RefAgain ==
  LET p == pkt["v4l2"] IN
  /\ At("v4l2", "ref")
  /\ rc' = [rc EXCEPT ![p] = @ + 1]
  /\ stale' = (stale \/ rc[p] < 1)
  /\ stage' = "rknn"
  /\ Goto("v4l2", "put")
  /\ UNCHANGED <<ctl, pkt, live, fd, lost, dev, queue, errs>>

DestroyDevice ==
  /\ At("v4l2", "top") /\ ~run
  /\ devGone' = TRUE
  /\ driver' = {}
  /\ Goto("v4l2", "done")
  /\ UNCHANGED <<ctl, pkt, stage, heap, devFault, queue, stale, errs>>
-----------------------------------------------------------------------------
(* A consumer c: the disp or the rknn thread.                              *)

CheckRunIgnored(c) ==   \* mutant: while (1)
  /\ At(c, "top")
  /\ Goto(c, "deq")
  /\ UNCHANGED <<ctl, pkt, stage, heap, dev, queue, stale, errs>>

CheckRun(c) ==
  /\ At(c, "top")
  /\ Goto(c, IF run THEN "deq" ELSE "done")
  /\ UNCHANGED <<ctl, pkt, stage, heap, dev, queue, stale, errs>>

TakeFrame(c) ==
  /\ At(c, "deq")
  /\ queue[c] # <<>>
  /\ pkt' = [pkt EXCEPT ![c] = Head(queue[c])]
  /\ queue' = [queue EXCEPT ![c] = Tail(@)]
  /\ Goto(c, "work")
  /\ UNCHANGED <<ctl, stage, heap, dev, stale, errs>>

TakeTimesOut(c) ==
  /\ At(c, "deq")
  /\ queue[c] = <<>>
  /\ Goto(c, "top")
  /\ UNCHANGED <<ctl, pkt, stage, heap, dev, queue, stale, errs>>

(* The frame was converted (and committed to the screen), or there is no   *)
(* model to run: the reference is dropped next.                            *)
Convert(c) ==
  /\ At(c, "work")
  /\ Goto(c, "unref")
  /\ stale' = (stale \/ ~live[pkt[c]])
  /\ UNCHANGED <<ctl, pkt, stage, heap, dev, queue, errs>>

(* Import, check or conversion failed: goto release_buffer, past the unref.*)
(* Once the device is destroyed the dma_fd is closed, and an import fails. *)
ConvertFails(c) ==
  /\ At(c, "work")
  /\ EnvFails("import") \/ (devGone /\ UNCHANGED errs)
  /\ lost' = [lost EXCEPT ![pkt[c]] = @ + 1]
  /\ stale' = (stale \/ ~live[pkt[c]])
  /\ Goto(c, "top")
  /\ UNCHANGED <<ctl, pkt, stage, live, rc, fd, dev, queue>>

DropFrame(c) == At(c, "unref") /\ Unref(c, "release", "top")

ReleaseFrame(c) == At(c, "release") /\ Release(c, "top")
-----------------------------------------------------------------------------
(* The main thread: SIGINT clears main_loop_run, the joins end the process.*)
Interrupt ==
  /\ main = "loop" /\ run
  /\ run' = FALSE
  /\ UNCHANGED <<main, pc, pkt, stage, heap, dev, queue, stale, errs>>

Exit ==
  /\ main = "loop" /\ ~run
  /\ \A t \in Threads : At(t, "done")
  /\ main' = "exited"
  /\ UNCHANGED <<run, pc, pkt, stage, heap, dev, queue, stale, errs>>

Capture ==
  \/ Alloc \/ ReadFrame \/ ReadFails \/ Publish \/ PublishTimesOut
  \/ Drop \/ Recycle \/ RefAgain \/ DestroyDevice

Consume(c) ==
  \/ CheckRun(c) \/ TakeFrame(c) \/ TakeTimesOut(c)
  \/ Convert(c) \/ ConvertFails(c) \/ DropFrame(c) \/ ReleaseFrame(c)

Next == Capture \/ (\E c \in Consumers : Consume(c)) \/ Interrupt \/ Exit

Spec == Init /\ [][Next]_vars

(* Every thread is scheduled and the camera fills the buffers it has; a    *)
(* signal or a failure is never obliged to happen.                         *)
Fairness ==
  /\ WF_vars(Capture) /\ WF_vars(Exit)
  /\ \A c \in Consumers : WF_vars(Consume(c))

FairSpec == Spec /\ Fairness
-----------------------------------------------------------------------------
TypeOK ==
  /\ run \in BOOLEAN /\ main \in {"loop", "exited", "aborted"}
  /\ pc \in [Threads -> {"top", "read", "put", "drop", "recycle", "ref", "deq",
                         "work", "unref", "release", "done", "aborted"}]
  /\ pkt \in [Threads -> Pkts \cup {NoPkt}]
  /\ stage \in Consumers
  /\ live \in [Pkts -> BOOLEAN] /\ rc \in [Pkts -> Int]
  /\ fd \in [Pkts -> Bufs \cup {NoBuf}] /\ lost \in [Pkts -> Nat]
  /\ driver \subseteq Bufs
  /\ queue \in [Consumers -> Seq(Pkts)]
  /\ \A c \in Consumers : Len(queue[c]) <= Cap[c]
  /\ devGone \in BOOLEAN /\ devFault \in BOOLEAN /\ stale \in BOOLEAN
  /\ errs \in 0 .. MaxErrs

(* What holds of frames holds until a dead packet is used or the process   *)
(* is aborted.                                                             *)
Sound == ~stale /\ main # "aborted"

Queued(c, p) == Cardinality({i \in DOMAIN queue[c] : queue[c][i] = p})

Holders(p) == {t \in Threads : pkt[t] = p /\ pc[t] \in {"put", "drop", "work", "unref"}}

Releasing(p) == {t \in Threads : pkt[t] = p /\ pc[t] \in {"recycle", "release"}}

Filled == {p \in Pkts : live[p] /\ fd[p] # NoBuf}

(* The reference count of every frame is the number of references there    *)
(* are: queued, in the hands of a thread, or forgotten by an error path.   *)
(* It reaches zero for exactly one thread, which alone releases the frame. *)
RefsCounted ==
  Sound => \A p \in Filled :
    /\ rc[p] = Queued("disp", p) + Queued("rknn", p)
                 + Cardinality(Holders(p)) + lost[p]
    /\ Cardinality(Releasing(p)) = (IF rc[p] = 0 THEN 1 ELSE 0)

(* A buffer is at the driver or in at most one packet: the driver never    *)
(* gets back a buffer that a packet still uses.                            *)
BuffersOwned ==
  Sound /\ ~devGone => \A b \in Bufs :
    LET owners == {p \in Filled : fd[p] = b} IN
    /\ Cardinality(owners) <= 1
    /\ b \in driver => owners = {}

(* A frame is not touched while a consumer reads it: its packet is         *)
(* allocated and the camera cannot write its buffer.                       *)
FrameStable ==
  Sound => \A c \in Consumers :
    At(c, "work") => /\ live[pkt[c]]
                     /\ fd[pkt[c]] \notin driver \cup {NoBuf}

(* Nothing leaks on the normal paths: every forgotten packet, reference    *)
(* and buffer is the trace of one failure of the driver or of RGA.         *)
ForgottenPackets ==
  {p \in Pkts : live[p] /\ fd[p] = NoBuf /\ ~(At("v4l2", "read") /\ pkt["v4l2"] = p)}

Forgotten(p) == lost[p] > 0

ForgottenBuffers == {b \in Bufs \ driver : \A p \in Filled : fd[p] # b}

LeaksAreFailures ==
  Sound /\ ~devGone =>
    Cardinality(ForgottenPackets) + Cardinality(ForgottenBuffers)
      + Cardinality({p \in Filled : Forgotten(p)}) <= errs

(* Where lifetimes can break: the first use of a dead packet is the v4l2   *)
(* thread's second reference, never an access by a consumer, and the       *)
(* device is used after its destruction only while the program stops.      *)
FaultOrigin ==
  [][/\ stale' /\ ~stale => At("v4l2", "ref") /\ rc[pkt["v4l2"]] = 0
     /\ devFault' /\ ~devFault => ~run /\ At("v4l2", "done")]_vars

(* The preview keeps going: as long as the program runs, frames keep       *)
(* reaching the screen (src/README.md: "Screen preview").                  *)
PreviewContinues == []<>(At("disp", "unref") \/ ~run \/ stale)

(* After SIGINT the program ends, except when the v4l2 thread is blocked   *)
(* in DQBUF for ever: both consumers are gone and every buffer sits in a   *)
(* frame they left in their queues.                                        *)
Stranded ==
  /\ At("v4l2", "read") /\ driver = {}
  /\ \A c \in Consumers : At(c, "done")
  /\ \A b \in Bufs : \E c \in Consumers : \E i \in DOMAIN queue[c] : fd[queue[c][i]] = b

ShutdownCompletes == ~run ~> (main # "loop" \/ Stranded \/ stale)

(* Each captured frame goes through RGA to the screen and to the model     *)
(* (src/README.md:4-6), so what the NPU thread takes from its queue is a   *)
(* frame that still exists.                                                *)
NpuGetsFrames == At("rknn", "work") => live[pkt["rknn"]]
=============================================================================
