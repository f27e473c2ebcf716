------------------------------ MODULE SmartCam ------------------------------
(***************************************************************************)
(* The running program: FramePipe and ResultPipe composed.  src/main.cpp's *)
(* rknn thread is a consumer of frames in one and the producer of results  *)
(* in the other, its disp thread consumes both; the two components meet in *)
(* the loops of these threads and in main_loop_run.                        *)
(*                                                                         *)
(* ResultPipe takes it for granted that frames keep reaching the disp      *)
(* thread and lets the model produce a result whenever it likes.  Here     *)
(* frames come from the camera, a result follows a converted frame, and    *)
(* the composition is shown to implement ResultPipe, its fairness included *)
(* as long as no dead packet is used.                                      *)
(***************************************************************************)
EXTENDS Integers, Sequences, FiniteSets

CONSTANTS
  Bufs, Pkts, DispCap, RknnCap, EnvErrors, MaxErrs, NoPkt, NoBuf,  \* FramePipe
  InfoCap, UartCap, Lifespan, MaxResults, NoGrp                    \* ResultPipe

VARIABLES
  run, main, pc, pkt, stage, live, rc, fd, lost, driver, queue, devGone,
  devFault, stale, errs,                                           \* FramePipe
  rpc, made, objects, rqueue, newGrp, detGrp, life, uartGrp, freed, leaked,
  draws, sent, drawn, failed                                       \* ResultPipe

F == INSTANCE FramePipe

(* Besides the failures of the outside, one import may fail after the      *)
(* device is gone.                                                         *)
R == INSTANCE ResultPipe
       WITH pc <- rpc, queue <- rqueue, errs <- failed, MaxErrs <- MaxErrs + 1

ASSUME PartsAssumption ==
  /\ F!CapAssumption /\ F!ErrAssumption /\ F!NullAssumption /\ F!FiniteAssumption
  /\ R!BoundAssumption /\ R!NoGrpAssumption

frames == <<main, pc, pkt, stage, live, rc, fd, lost, driver, queue, devGone,
            devFault, stale, errs>>
results == <<rpc, made, objects, rqueue, newGrp, detGrp, life, uartGrp, freed,
             leaked, draws, sent, drawn, failed>>
vars == <<run, frames, results>>

Init == F!Init /\ R!Init
-----------------------------------------------------------------------------
(* The top of a consumer's loop.                                           *)
Loop(c) ==
  /\ R!At(c, "top")
  /\ F!CheckRun(c)
  /\ R!Begin(c) \/ R!Stop(c)

Starve(c) == F!TakeTimesOut(c) /\ R!Skip(c)

(* Steps that concern the frame only.                                      *)
Handle(c) ==
  /\ F!TakeFrame(c) \/ F!DropFrame(c) \/ F!ReleaseFrame(c)
  /\ UNCHANGED results

(* The rknn thread: the frame goes to the model and is released before the *)
(* model runs, which gives a result or fails.                              *)
Feed == F!Convert("rknn") /\ UNCHANGED results

FeedFails == F!ConvertFails("rknn") /\ R!Skip("rknn")

(* The model runs after the frame was let go, on the copy in its own memory. *)
Infer ==
  /\ F!At("rknn", "top")
  /\ R!Detect \/ R!Skip("rknn")
  /\ UNCHANGED frames

Post ==
  /\ \E u \in R!Uses : R!Post(u) \/ R!PostTimesOut(u)
  /\ UNCHANGED frames
-----------------------------------------------------------------------------
(* The disp thread, with a frame in hand, looks for a result; the frame's  *)
(* conversion decides what becomes of the result.                          *)
Look ==
  /\ F!At("disp", "work")
  /\ R!DispTake
  /\ UNCHANGED frames

Show == F!Convert("disp") /\ R!DispShow

ShowFails == F!ConvertFails("disp") /\ R!DispFails
-----------------------------------------------------------------------------
UartNeverStops ==   \* mutant: while (1)
  /\ R!Begin("uart") \/ R!UartTake \/ R!UartSend
  /\ UNCHANGED frames

Uart ==
  /\ R!Begin("uart") \/ R!UartTake \/ R!UartSend \/ R!Stop("uart")
  /\ UNCHANGED frames

Capture == F!Capture /\ UNCHANGED results

Interrupt == F!Interrupt /\ R!Interrupt

(* main joins the uart thread too.                                         *)
Exit == R!At("uart", "done") /\ F!Exit /\ UNCHANGED results

Rknn == Loop("rknn") \/ Starve("rknn") \/ Handle("rknn") \/ Feed \/ FeedFails \/ Infer \/ Post
Disp == Loop("disp") \/ Starve("disp") \/ Handle("disp") \/ Look \/ Show \/ ShowFails

Next ==
  /\ main # "aborted"
  /\ Capture \/ Rknn \/ Disp \/ Uart \/ Interrupt \/ Exit

Spec == Init /\ [][Next]_vars

(* Every thread is scheduled and the camera fills the buffers it has, as   *)
(* in FramePipe; nothing is assumed about results.                         *)
FairSpec ==
  /\ Spec
  /\ WF_vars(Capture) /\ WF_vars(Rknn) /\ WF_vars(Disp) /\ WF_vars(Uart) /\ WF_vars(Exit)
-----------------------------------------------------------------------------
(* The program is a correct ResultPipe: its steps are that component's or  *)
(* leave it alone, and its threads are as fair as ResultPipe takes them to *)
(* be.  In particular frames keep coming, although the camera gets a       *)
(* buffer back only once both consumers, of which one is at times busy     *)
(* with the model, have let go of it.  The fairness ends, as what          *)
(* ProgramEnds promises does, once a dead packet was used: the second      *)
(* reference that comes too late (src/main.cpp:203) can stop the program.  *)
ImplementsResults == R!Spec /\ (R!Fairness \/ <>~F!Sound)

(* After SIGINT main joins all four threads, also when SIGINT came while    *)
(* the rknn thread was posting to full queues or the uart thread sending,   *)
(* unless the v4l2 thread is stranded in DQBUF.                             *)
ProgramEnds == ~run ~> (main # "loop" \/ F!Stranded \/ stale)
=============================================================================
