-------------------------- MODULE SmartCamProofs --------------------------
(***************************************************************************)
(* Proofs about SmartCam: the composition implements both of its           *)
(* components, for any values of the constants, so what is proved of them  *)
(* holds of the running program.                                           *)
(***************************************************************************)
EXTENDS SmartCam, TLAPS

FP == INSTANCE FramePipeProofs
RP == INSTANCE ResultPipeProofs
        WITH pc <- rpc, queue <- rqueue, errs <- failed, MaxErrs <- MaxErrs + 1
-----------------------------------------------------------------------------
(* What is assumed of the program's constants is what the components need. *)
LEMMA FrameConstants ==
  FP!CapAssumption /\ FP!ErrAssumption /\ FP!NullAssumption /\ FP!FiniteAssumption
<1>1. FP!CapAssumption
  BY PartsAssumption DEF PartsAssumption, F!CapAssumption, FP!CapAssumption
<1>2. FP!ErrAssumption
  BY PartsAssumption DEF PartsAssumption, F!ErrAssumption, FP!ErrAssumption
<1>3. FP!NullAssumption
  BY PartsAssumption DEF PartsAssumption, F!NullAssumption, FP!NullAssumption
<1>4. FP!FiniteAssumption
  BY PartsAssumption
  DEF PartsAssumption, F!FiniteAssumption, FP!FiniteAssumption, F!IsFiniteSet, FP!IsFiniteSet
<1> QED  BY <1>1, <1>2, <1>3, <1>4

LEMMA ResultConstants == RP!BoundAssumption /\ RP!NoGrpAssumption
<1>1. RP!BoundAssumption
  BY PartsAssumption, FrameConstants
  DEF PartsAssumption, R!BoundAssumption, RP!BoundAssumption, FP!ErrAssumption
<1>2. RP!NoGrpAssumption
  BY PartsAssumption
  DEF PartsAssumption, R!NoGrpAssumption, RP!NoGrpAssumption, R!Groups, RP!Groups, R!Results, RP!Results,
      R!Uses, RP!Uses
<1> QED  BY <1>1, <1>2
-----------------------------------------------------------------------------
(* Every step is a step of FramePipe or leaves it alone.                   *)
LEMMA FrameSteps == [Next]_vars => [F!Next]_(F!vars)
<1> SUFFICES ASSUME [Next]_vars PROVE F!Next \/ UNCHANGED F!vars
  OBVIOUS
<1> USE DEF F!Consumers, F!Consume, frames, F!vars, F!ctl, F!heap, F!dev
<1>1. CASE Capture
  BY <1>1 DEF Capture, F!Next
<1>2. ASSUME NEW c \in F!Consumers, Loop(c) \/ Starve(c) \/ Handle(c) PROVE F!Next
  <2>1. F!Consume(c)
    BY <1>2 DEF Loop, Starve, Handle
  <2> QED  BY <2>1 DEF F!Next
<1>3. CASE Feed \/ FeedFails
  <2>1. F!Consume("rknn")
    BY <1>3 DEF Feed, FeedFails
  <2> QED  BY <2>1 DEF F!Next
<1>4. CASE Show \/ ShowFails
  <2>1. F!Consume("disp")
    BY <1>4 DEF Show, ShowFails
  <2> QED  BY <2>1 DEF F!Next
<1>5. CASE Infer \/ Post \/ Look \/ Uart
  <2>1. UNCHANGED <<run, frames>>
    BY <1>5 DEF Infer, R!Detect, R!Skip, Post, R!Post, R!PostTimesOut, Look, R!DispTake, Uart, R!Begin,
       R!UartTake, R!UartSend, R!Stop
  <2> QED  BY <2>1
<1>6. CASE Interrupt \/ Exit
  BY <1>6 DEF Interrupt, Exit, F!Next
<1>7. CASE UNCHANGED vars
  BY <1>7 DEF vars
<1> QED  BY <1>1, <1>2, <1>3, <1>4, <1>5, <1>6, <1>7 DEF Next, Rknn, Disp

(* And a step of ResultPipe or one that leaves that alone: frames come and *)
(* go without it.                                                          *)
LEMMA ResultSteps == [Next]_vars => [R!Next]_(R!vars)
<1> SUFFICES ASSUME [Next]_vars PROVE R!Next \/ UNCHANGED R!vars
  OBVIOUS
<1> USE DEF R!Next, R!Infer, R!Display, R!Serial
<1>1. CASE Capture \/ Exit \/ Feed \/ \E c \in {"disp", "rknn"} : Handle(c)
  <2>1. UNCHANGED <<run, results>>
    BY <1>1 DEF Capture, F!Capture, F!Alloc, F!ReadFrame, F!ReadFails, F!Publish, F!PublishTimesOut, F!Drop,
       F!Recycle, F!RefAgain, F!DestroyDevice, F!Unref, F!Release, F!ctl, Exit, F!Exit, Feed, F!Convert,
       Handle, F!TakeFrame, F!DropFrame, F!ReleaseFrame
  <2> QED  BY <2>1 DEF results, R!vars, R!screen, R!memory
<1>2. ASSUME NEW c \in {"disp", "rknn"}, Loop(c) \/ Starve(c) PROVE R!Next
  BY <1>2 DEF Loop, Starve
<1>3. CASE FeedFails \/ Infer \/ Post
  BY <1>3 DEF FeedFails, Infer, Post
<1>4. CASE Look \/ Show \/ ShowFails
  BY <1>4 DEF Look, Show, ShowFails
<1>5. CASE Uart \/ Interrupt
  BY <1>5 DEF Uart, Interrupt
<1>6. CASE UNCHANGED vars
  BY <1>6 DEF vars, results, R!vars, R!screen, R!memory
<1> QED  BY <1>1, <1>2, <1>3, <1>4, <1>5, <1>6 DEF Next, Rknn, Disp

(* For any values of the constants: the program's frames live as FramePipe *)
(* says ...                                                                *)
THEOREM ImplementsFramePipe == Spec => F!Spec
BY FrameSteps, PTL DEF Spec, Init, F!Spec

(* ... and its results as ResultPipe says (ImplementsResults without the   *)
(* fairness), although results are made, shown and dropped where frames    *)
(* are handled.                                                            *)
THEOREM ImplementsResultPipe == Spec => R!Spec
BY ResultSteps, PTL DEF Spec, Init, R!Spec
-----------------------------------------------------------------------------
(* The instances with the components' theorems are those of the program.   *)
LEMMA SameFrames == [F!Next]_(F!vars) => [FP!Next]_(FP!vars)
<1> SUFFICES ASSUME [F!Next]_(F!vars) PROVE FP!Next \/ UNCHANGED FP!vars
  OBVIOUS
<1> USE DEF F!At, FP!At, F!Goto, FP!Goto, F!EnvFails, FP!EnvFails, F!ctl, FP!ctl,
            F!heap, FP!heap, F!dev, FP!dev, F!Threads, FP!Threads, F!Consumers,
            FP!Consumers, F!Cap, FP!Cap, F!AfterStage, FP!AfterStage
<1>1. F!Capture => FP!Capture
  <2>1. F!Alloc \/ F!ReadFrame \/ F!ReadFails \/ F!DestroyDevice
          => FP!Alloc \/ FP!ReadFrame \/ FP!ReadFails \/ FP!DestroyDevice
    BY DEF F!Alloc, FP!Alloc, F!ReadFrame, FP!ReadFrame, F!ReadFails, FP!ReadFails,
           F!DestroyDevice, FP!DestroyDevice
  <2>2. F!Publish \/ F!PublishTimesOut \/ F!RefAgain
          => FP!Publish \/ FP!PublishTimesOut \/ FP!RefAgain
    BY DEF F!Publish, FP!Publish, F!PublishTimesOut, FP!PublishTimesOut, F!RefAgain,
           FP!RefAgain
  <2>3. F!Drop \/ F!Recycle => FP!Drop \/ FP!Recycle
    BY DEF F!Drop, FP!Drop, F!Recycle, FP!Recycle, F!Unref, FP!Unref, F!Release, FP!Release
  <2> QED  BY <2>1, <2>2, <2>3 DEF F!Capture, FP!Capture
<1>2. ASSUME NEW c \in F!Consumers, F!Consume(c) PROVE FP!Consume(c)
  <2>1. F!CheckRun(c) \/ F!TakeFrame(c) \/ F!TakeTimesOut(c)
          => FP!CheckRun(c) \/ FP!TakeFrame(c) \/ FP!TakeTimesOut(c)
    BY DEF F!CheckRun, FP!CheckRun, F!TakeFrame, FP!TakeFrame, F!TakeTimesOut,
           FP!TakeTimesOut
  <2>2. F!Convert(c) \/ F!ConvertFails(c) => FP!Convert(c) \/ FP!ConvertFails(c)
    BY DEF F!Convert, FP!Convert, F!ConvertFails, FP!ConvertFails
  <2>3. F!DropFrame(c) \/ F!ReleaseFrame(c) => FP!DropFrame(c) \/ FP!ReleaseFrame(c)
    BY DEF F!DropFrame, FP!DropFrame, F!ReleaseFrame, FP!ReleaseFrame, F!Unref, FP!Unref,
           F!Release, FP!Release
  <2> QED  BY <1>2, <2>1, <2>2, <2>3 DEF F!Consume, FP!Consume
<1>3. F!Interrupt \/ F!Exit => FP!Interrupt \/ FP!Exit
  BY DEF F!Interrupt, FP!Interrupt, F!Exit, FP!Exit
<1>4. UNCHANGED F!vars => UNCHANGED FP!vars
  BY DEF F!vars, FP!vars
<1> QED  BY <1>1, <1>2, <1>3, <1>4 DEF F!Next, FP!Next

LEMMA SameResults == [R!Next]_(R!vars) => [RP!Next]_(RP!vars)
<1> SUFFICES ASSUME [R!Next]_(R!vars) PROVE RP!Next \/ UNCHANGED RP!vars
  OBVIOUS
<1> USE DEF R!At, RP!At, R!Goto, RP!Goto, R!screen, RP!screen, R!memory, RP!memory,
            R!Uses, RP!Uses, R!Results, RP!Results, R!Groups, RP!Groups, R!Cap, RP!Cap,
            R!AfterPost, RP!AfterPost, R!TakeInfo, RP!TakeInfo, R!Delete, RP!Delete
<1>1. \A t : /\ R!Begin(t) => RP!Begin(t)
             /\ R!Skip(t) => RP!Skip(t)
             /\ R!Stop(t) => RP!Stop(t)
  BY DEF R!Begin, RP!Begin, R!Skip, RP!Skip, R!Stop, RP!Stop
<1>2. \A u \in R!Uses : R!Post(u) \/ R!PostTimesOut(u) => RP!Post(u) \/ RP!PostTimesOut(u)
  BY DEF R!Post, RP!Post, R!PostTimesOut, RP!PostTimesOut
<1>3. R!Detect \/ R!DispTake \/ R!DispFails => RP!Detect \/ RP!DispTake \/ RP!DispFails
  BY DEF R!Detect, RP!Detect, R!DispTake, RP!DispTake, R!DispFails, RP!DispFails
<1>4. R!DispShow => RP!DispShow
  BY DEF R!DispShow, RP!DispShow
<1>5. R!UartTake \/ R!UartSend \/ R!Interrupt => RP!UartTake \/ RP!UartSend \/ RP!Interrupt
  BY DEF R!UartTake, RP!UartTake, R!UartSend, RP!UartSend, R!Interrupt, RP!Interrupt
<1>6. UNCHANGED R!vars => UNCHANGED RP!vars
  BY DEF R!vars, RP!vars
<1> QED
  BY <1>1, <1>2, <1>3, <1>4, <1>5, <1>6
  DEF R!Next, RP!Next, R!Infer, RP!Infer, R!Display, RP!Display, R!Serial, RP!Serial
-----------------------------------------------------------------------------
LEMMA FramesAsProved == Spec => FP!Spec
<1>1. F!Init => FP!Init
  BY DEF F!Init, FP!Init, F!Threads, FP!Threads, F!Consumers, FP!Consumers
<1> QED  BY <1>1, ImplementsFramePipe, SameFrames, PTL DEF F!Spec, FP!Spec

LEMMA ResultsAsProved == Spec => RP!Spec
<1>1. R!Init => RP!Init
  BY DEF R!Init, RP!Init, R!Uses, RP!Uses, R!Groups, RP!Groups, R!Results, RP!Results
<1> QED  BY <1>1, ImplementsResultPipe, SameResults, PTL DEF R!Spec, RP!Spec

(* In the whole program: reference counts are exact, a buffer has one      *)
(* owner and a frame is not touched while a consumer reads it, until a     *)
(* dead packet is used (FramePipe).                                        *)
THEOREM FramesSafe == Spec => [](F!RefsCounted /\ F!BuffersOwned /\ F!FrameStable)
<1>1. FP!Spec => [](FP!RefsCounted /\ FP!BuffersOwned /\ FP!FrameStable)
  BY FP!ReferencesExact, FP!BuffersExclusive, FP!FramesUntouched, FrameConstants, PTL
<1> USE DEF F!Sound, FP!Sound, F!Filled, FP!Filled, F!At, FP!At, F!Consumers, FP!Consumers
<1>2. FP!RefsCounted => F!RefsCounted
  BY DEF F!RefsCounted, FP!RefsCounted, F!Queued, FP!Queued, F!Holders, FP!Holders, F!Releasing,
     FP!Releasing, F!Threads, FP!Threads, F!Cardinality, FP!Cardinality, F!IsFiniteSet, FP!IsFiniteSet
<1>3. FP!BuffersOwned => F!BuffersOwned
  BY DEF F!BuffersOwned, FP!BuffersOwned, F!Cardinality, FP!Cardinality, F!IsFiniteSet, FP!IsFiniteSet
<1>4. FP!FrameStable => F!FrameStable
  BY DEF F!FrameStable, FP!FrameStable
<1> QED  BY <1>1, <1>2, <1>3, <1>4, FramesAsProved, PTL

(* In the whole program: every copy of a result has one owner, was deleted *)
(* once or is one of the leaks, which are bounded, and a result goes to    *)
(* one output (ResultPipe), whatever became of the frame it was found in.  *)
THEOREM ResultsSafe == Spec => [](R!GroupOwned /\ R!OneOutputPerResult /\ R!LeaksCounted)
<1>1. RP!Spec => [](RP!GroupOwned /\ RP!OneOutputPerResult /\ RP!LeaksCounted)
  BY RP!CopiesOwned, RP!OutputsDisjoint, RP!LeaksStayCounted, ResultConstants, PTL
<1>2. RP!GroupOwned => R!GroupOwned
  BY DEF R!GroupOwned, RP!GroupOwned, R!Groups, RP!Groups, R!Results, RP!Results, R!Uses, RP!Uses, R!One,
     RP!One, R!InHand, RP!InHand, R!At, RP!At, R!Queued, RP!Queued, R!Cardinality, RP!Cardinality,
     R!IsFiniteSet, RP!IsFiniteSet
<1>3. RP!OneOutputPerResult => R!OneOutputPerResult
  BY DEF R!OneOutputPerResult, RP!OneOutputPerResult
<1>4. RP!LeaksCounted => R!LeaksCounted
  BY DEF R!LeaksCounted, RP!LeaksCounted, R!Cardinality, RP!Cardinality, R!IsFiniteSet, RP!IsFiniteSet
<1> QED  BY <1>1, <1>2, <1>3, <1>4, ResultsAsProved, PTL
-----------------------------------------------------------------------------
(* Where a thread is in the one component tells where it is in the other:  *)
(* the disp thread decides about a result with a frame in its hands, the   *)
(* rknn thread posts one with empty hands.                                 *)
Together ==
  /\ rpc["disp"] = "top" => pc["disp"] \in {"top", "unref", "release"}
  /\ rpc["disp"] = "in" => pc["disp"] \in {"deq", "work"}
  /\ rpc["disp"] = "show" => pc["disp"] = "work"
  /\ rpc["disp"] = "done" <=> pc["disp"] = "done"
  /\ rpc["rknn"] \in {"top", "info", "uart"} => pc["rknn"] = "top"
  /\ rpc["rknn"] = "in" => pc["rknn"] \in {"deq", "work", "unref", "release", "top"}
  /\ rpc["rknn"] = "done" <=> pc["rknn"] = "done"
  /\ main = "exited" => ~run /\ \A t \in {"rknn", "disp", "uart"} : rpc[t] = "done"

Coupled == main # "aborted" => Together

Domains ==
  /\ DOMAIN pc = {"v4l2", "disp", "rknn"} /\ DOMAIN rpc = {"rknn", "disp", "uart"}
  /\ rpc["rknn"] \in {"top", "in", "info", "uart", "done"}
  /\ rpc["disp"] \in {"top", "in", "show", "done"}

LEMMA DomainsHold == Spec => []Domains
<1>1. FP!Spec => []FP!IndInv
  BY FP!Invariance, FrameConstants
<1>2. RP!Spec => []RP!IndInv
  BY RP!Invariance, ResultConstants
<1>3. FP!IndInv /\ RP!IndInv => Domains
  BY DEF FP!IndInv, FP!TypeOK, FP!Threads, FP!Consumers, RP!IndInv, RP!TypeOK, RP!Control, Domains
<1> QED  BY <1>1, <1>2, <1>3, FramesAsProved, ResultsAsProved, PTL

(* The rknn thread's steps leave the disp thread where it is and the other *)
(* way round.                                                              *)
LEMMA CoupledRknn ==
  ASSUME Domains, Together, Rknn, main' # "aborted"
  PROVE  Together'
<1> USE DEF Domains, R!At, R!Goto, F!At, F!Goto, F!ctl, F!Consumers
<1>1. CASE Loop("rknn")
  BY <1>1 DEF Loop, F!CheckRun, R!Begin, R!Stop, Together
<1>2. CASE Starve("rknn") \/ FeedFails
  BY <1>2 DEF Starve, FeedFails, F!TakeTimesOut, F!ConvertFails, R!Skip, Together
<1>3. CASE Handle("rknn") \/ Feed
  BY <1>3 DEF Handle, Feed, F!TakeFrame, F!DropFrame, F!ReleaseFrame, F!Unref, F!Release, F!Convert, results,
     Together
<1>4. CASE Infer
  BY <1>4 DEF Infer, R!Detect, R!Skip, frames, Together
<1>5. CASE Post
  BY <1>5 DEF Post, R!Post, R!PostTimesOut, R!Uses, R!AfterPost, frames, Together
<1> QED  BY <1>1, <1>2, <1>3, <1>4, <1>5 DEF Rknn

LEMMA CoupledDisp ==
  ASSUME Domains, Together, Disp, main' # "aborted"
  PROVE  Together'
<1> USE DEF Domains, R!At, R!Goto, F!At, F!Goto, F!ctl, F!Consumers
<1>1. CASE Loop("disp")
  BY <1>1 DEF Loop, F!CheckRun, R!Begin, R!Stop, Together
<1>2. CASE Starve("disp")
  BY <1>2 DEF Starve, F!TakeTimesOut, R!Skip, Together
<1>3. CASE Handle("disp")
  BY <1>3 DEF Handle, F!TakeFrame, F!DropFrame, F!ReleaseFrame, F!Unref, F!Release, results, Together
<1>4. CASE Look
  BY <1>4 DEF Look, R!DispTake, frames, Together
<1>5. CASE Show
  BY <1>5 DEF Show, F!Convert, R!DispShow, Together
<1>6. CASE ShowFails
  BY <1>6 DEF ShowFails, F!ConvertFails, R!DispFails, Together
<1> QED  BY <1>1, <1>2, <1>3, <1>4, <1>5, <1>6 DEF Disp

LEMMA CoupledStep == ASSUME Domains, Coupled, [Next]_vars PROVE Coupled'
<1> SUFFICES ASSUME main' # "aborted" PROVE Together'
  BY DEF Coupled
<1> USE DEF Domains, R!At, R!Goto, F!At, F!Goto, F!ctl
<1>1. Together
  BY DEF Coupled, Next, vars, frames
<1>2. CASE Capture
  BY <1>1, <1>2 DEF Capture, F!Capture, F!Alloc, F!ReadFrame, F!ReadFails, F!Publish, F!PublishTimesOut, F!Drop,
     F!Recycle, F!RefAgain, F!DestroyDevice, F!Unref, F!Release, results, Together
<1>3. CASE Uart
  BY <1>1, <1>3 DEF Uart, R!Begin, R!UartTake, R!UartSend, R!Stop, frames, Together
<1>4. CASE Interrupt \/ Exit
  BY <1>1, <1>4 DEF Interrupt, Exit, F!Interrupt, F!Exit, R!Interrupt, F!Threads, F!Consumers, results, Together
<1>5. CASE UNCHANGED vars
  BY <1>1, <1>5 DEF vars, frames, results, Together
<1> QED  BY <1>1, <1>2, <1>3, <1>4, <1>5, CoupledRknn, CoupledDisp DEF Next

LEMMA CoupledHolds == Spec => []Coupled
<1>1. Init => Coupled
  BY DEF Init, F!Init, F!Threads, F!Consumers, R!Init, Coupled, Together
<1> QED  BY <1>1, CoupledStep, DomainsHold, PTL DEF Spec

(* The disp thread decides about an overlay: its frame is allocated, and   *)
(* its buffer not at the driver.                                           *)
OverlayOnFrame ==
  F!Sound /\ R!At("disp", "show") =>
    /\ live[pkt["disp"]]
    /\ fd[pkt["disp"]] \notin driver \cup {NoBuf}

(* The frame that the disp thread decides to draw an overlay on is         *)
(* allocated and out of the camera's reach until it is on the screen.      *)
THEOREM OverlayHasFrame == Spec => []OverlayOnFrame
<1>1. F!FrameStable /\ Coupled => OverlayOnFrame
  BY DEF F!FrameStable, F!Sound, F!At, F!Consumers, R!At, Coupled, Together, OverlayOnFrame
<1> QED  BY <1>1, FramesSafe, CoupledHolds, PTL

(* A rknn thread that posts holds no packet and releases none.             *)
PostsEmptyHanded ==
  main # "aborted" /\ (R!At("rknn", "info") \/ R!At("rknn", "uart")) =>
    \A p \in Pkts : "rknn" \notin F!Holders(p) \cup F!Releasing(p)

(* A post may wait a second for room in each result queue.  The rknn       *)
(* thread has let go of its frame by then, so full result queues never     *)
(* keep a buffer from the camera.                                          *)
THEOREM PostsHoldNoFrame == Spec => []PostsEmptyHanded
<1>1. Coupled => PostsEmptyHanded
  BY DEF Coupled, Together, PostsEmptyHanded, R!At, F!Holders, F!Releasing
<1> QED  BY <1>1, CoupledHolds, PTL

(* After the joins a copy is in a queue, the overlay, deleted or leaked.   *)
LeftAtExit ==
  main = "exited" =>
    \A g \in R!Groups : g[1] <= made =>
      R!Queued(g) + R!One(detGrp = g) + freed[g] + R!One(g \in leaked) = 1

(* When main has joined the threads, no copy of a result is in anybody's   *)
(* hands: each was deleted once, leaked, or is the overlay or in a queue.  *)
THEOREM NothingInHandAtExit == Spec => []LeftAtExit
<1>1. RP!Spec => []RP!IndInv
  BY RP!Invariance, ResultConstants
<1>2. RP!IndInv => /\ newGrp # NoGrp => rpc["disp"] = "show"
                   /\ uartGrp # NoGrp => rpc["uart"] = "send"
                   /\ made \in Int /\ freed \in [R!Groups -> Nat] /\ NoGrp \notin R!Groups
  BY ResultConstants
  DEF RP!IndInv, RP!Control, RP!At, RP!TypeOK, R!Groups, RP!Groups, R!Results, RP!Results, R!Uses, RP!Uses,
      RP!NoGrpAssumption
<1>3. R!GroupOwned /\ RP!IndInv /\ Coupled => LeftAtExit
  <2> SUFFICES ASSUME R!GroupOwned, RP!IndInv, Coupled, main = "exited", NEW g \in R!Groups, g[1] <= made
               PROVE  R!Queued(g) + R!One(detGrp = g) + freed[g] + R!One(g \in leaked) = 1
    BY DEF LeftAtExit
  <2>1. ~R!InHand(g) /\ newGrp # g /\ uartGrp # g
    BY <1>2 DEF Coupled, Together, R!InHand, R!At
  <2>2. R!One(R!InHand(g)) = 0 /\ R!One(newGrp = g) = 0 /\ R!One(uartGrp = g) = 0
    BY <2>1 DEF R!One
  <2>3. R!One(R!InHand(g)) + R!Queued(g) + R!One(newGrp = g) + R!One(detGrp = g)
          + R!One(uartGrp = g) + freed[g] + R!One(g \in leaked) = 1
    BY DEF R!GroupOwned
  <2>4. R!Queued(g) \in {0, 1}
    <3>1. RP!Queued(g) \in {0, 1}
      BY RP!QueuedOnce, ResultConstants
      DEF RP!IndInv, RP!One, R!Groups, RP!Groups, R!Results, RP!Results, R!Uses, RP!Uses
    <3> QED
      BY <3>1 DEF R!Queued, RP!Queued, R!Cardinality, RP!Cardinality, R!IsFiniteSet, RP!IsFiniteSet
  <2>5. R!One(detGrp = g) \in {0, 1} /\ R!One(g \in leaked) \in {0, 1} /\ freed[g] \in Nat
    BY <1>2 DEF R!One
  <2> QED  BY <2>2, <2>3, <2>4, <2>5
<1> QED  BY <1>1, <1>3, ResultsAsProved, ResultsSafe, CoupledHolds, PTL
=============================================================================
