--------------------------- MODULE StartupProofs ---------------------------
(***************************************************************************)
(* Proofs about Startup for any model, any number of scanout and of camera *)
(* buffers: the order of initialization and teardown, and the transfer of  *)
(* VideoDevice's and DrmDisplay's theorems to the whole process.           *)
(***************************************************************************)
EXTENDS Startup, TLAPS

VP == INSTANCE VideoDeviceProofs WITH BufCount <- CamBufs, MostBufs <- CamMost
DP == INSTANCE DrmDisplayProofs WITH BufCount <- Scanouts

Full == {"map", "dmabuf", "fb"}

ThreadsUp == {"threads", "loop", "join", "cleanup"}
Over == {"return", "killed"}

(* How far main is tells what it has brought up.                           *)
MainInv ==
  /\ pc \in {"rga", "runner", "signal", "display", "camera", "queues"} \cup ThreadsUp
       => serial = "ready"
  /\ pc \in {"display", "camera", "queues"} \cup ThreadsUp => handled
  /\ pc \in {"signal", "display", "camera", "queues"} => rphase \in {"ready", "null"}
  /\ pc \in {"camera", "queues"} => phase = "idle"
  /\ pc = "queues" => vstep \in {"live", "failed"}
  /\ pc \notin ThreadsUp \cup Over => queues = "none"
  /\ pc \in ThreadsUp => queues = "ready"
  /\ queues = "cleaned" => pc \in Over

(* No thread exists before ThreadsUp, and none is active at the end.       *)
ThreadInv ==
  /\ DOMAIN thr = Threads
  /\ pc \notin ThreadsUp \cup Over => thr = [t \in Threads |-> "none"]
  /\ pc = "cleanup" \/ pc \in Over => Active = {}
  /\ pc \in {"board", "serial", "rga", "runner", "signal", "display", "camera", "queues"}
       \cup ThreadsUp \cup Over

(* The devices of threads that are in charge of one.                       *)
DeviceInv ==
  /\ pc \in ThreadsUp => phase \in {"idle", "draw"}
  /\ pc \in ThreadsUp /\ thr["rknn"] # "done" => rphase \in {"ready", "null"}
  /\ pc \in ThreadsUp /\ thr["v4l2"] # "done" => vstep \in {"live", "failed"}
  /\ thr["rknn"] = "done" => rphase \in {"gone", "null"}
  /\ thr["v4l2"] = "done" => vstep = "gone"
  /\ vstep = "gone" => ~run

(* drm_display_init completes its buffers in order (DrmDisplay).           *)
ScreenInv ==
  /\ made \in Nat /\ DOMAIN buf = D!Bufs
  /\ phase \in {"init", "buffers"} => \A b \in D!Bufs : b < made => buf[b] = Full
  /\ phase \in {"idle", "draw"} => D!BuffersComplete

IndInv == MainInv /\ ThreadInv /\ DeviceInv /\ ScreenInv
-----------------------------------------------------------------------------
USE DEF ThreadsUp, Over, Active

LEMMA ThreadNames == Threads = {"v4l2", "rknn", "disp", "uart"}
BY DEF Threads, Creation

LEMMA InitInv == ASSUME DevicesAssumption PROVE Init => IndInv
<1> SUFFICES ASSUME Init PROVE IndInv
  OBVIOUS
<1>1. MainInv /\ ThreadInv /\ DeviceInv
  BY ThreadNames DEF Init, R!Init, D!Init, V!Init, MainInv, ThreadInv, DeviceInv
<1>2. \A b \in D!Bufs : ~(b < 0)
  BY DEF D!Bufs, D!BufCountAssumption, DevicesAssumption
<1>3. ScreenInv
  BY <1>2 DEF Init, D!Init, ScreenInv
<1> QED  BY <1>1, <1>3 DEF IndInv

(* Steps of main that touch no device.                                     *)
LEMMA MainSteps ==
  ASSUME IndInv,
         CheckBoard \/ OpenSerial \/ InitRga \/ InstallHandler \/ InitQueues
           \/ LeaveLoop \/ Join \/ CleanQueues
  PROVE  IndInv'
BY ThreadNames DEF CheckBoard, OpenSerial, InitRga, InstallHandler, InitQueues, LeaveLoop, Join,
   CleanQueues, Main, runner, display, camera, IndInv, MainInv, ThreadInv, DeviceInv, ScreenInv,
   D!BuffersComplete

LEMMA RunnerStep == ASSUME IndInv, CreateRunner PROVE IndInv'
<1>1. rphase' \in {"create", "ready", "null"}
  BY DEF CreateRunner, R!CreateCall, R!CreateFails
<1> QED
  BY <1>1, ThreadNames DEF CreateRunner, display, camera, IndInv, MainInv, ThreadInv, DeviceInv,
     ScreenInv, D!BuffersComplete

(* Each turn of the loop completes one buffer or ends it.                  *)
LEMMA DisplayStep == ASSUME DevicesAssumption, IndInv, InitDisplay PROVE IndInv'
<1>1. ScreenInv'
  <2>1. CASE D!GetBuffer
    BY <2>1 DEF D!GetBuffer, D!screen, D!Obtained, D!Bufs, D!BuffersComplete, Full, IndInv, ScreenInv,
       D!BufCountAssumption, DevicesAssumption
  <2>2. CASE D!InitCall \/ D!InitFails \/ D!SetZpos
    BY <2>2 DEF D!InitCall, D!InitFails, D!SetZpos, IndInv, ScreenInv
  <2> QED  BY <2>1, <2>2 DEF InitDisplay, D!Setup
<1>2. pc = "display" /\ pc' \in {"return", "camera", "display"} /\ (pc' = "camera" => phase' = "idle")
      /\ UNCHANGED <<serial, handled, run, queues, thr, runner, camera>>
  BY DEF InitDisplay
<1> QED
  BY <1>1, <1>2, ThreadNames DEF runner, camera, IndInv, MainInv, ThreadInv, DeviceInv

LEMMA CameraStep == ASSUME IndInv, InitCamera PROVE IndInv'
<1>1. vstep' # "gone"
  BY DEF InitCamera, V!Setup, V!Open, V!QueryCap, V!RequestBuffers, V!MapBuffers, V!NoTable, V!Start
<1>2. pc = "camera" /\ pc' \in {"camera", "queues"} /\ (pc' = "queues" => vstep' \in {"live", "failed"})
      /\ UNCHANGED <<serial, handled, run, queues, thr, runner, display>>
  BY DEF InitCamera
<1> QED
  BY <1>1, <1>2, ThreadNames DEF runner, display, IndInv, MainInv, ThreadInv, DeviceInv, ScreenInv,
     D!BuffersComplete

LEMMA ThreadCreation == ASSUME IndInv, CreateThread PROVE IndInv'
<1>1. PICK i \in DOMAIN Creation, s \in {"top", "absent"} :
        /\ thr[Creation[i]] = "none" /\ thr' = [thr EXCEPT ![Creation[i]] = s]
        /\ pc = "threads" /\ pc' \in {"loop", "threads"}
        /\ UNCHANGED <<serial, handled, run, queues, runner, display, camera>>
  BY DEF CreateThread, Main
<1> QED
  BY <1>1, ThreadNames DEF runner, display, camera, IndInv, MainInv, ThreadInv, DeviceInv, ScreenInv,
     D!BuffersComplete

LEMMA InterruptStep == ASSUME IndInv, Interrupt PROVE IndInv'
<1>1. /\ UNCHANGED <<serial, queues, thr, handled, runner, display, camera>>
      /\ \/ handled /\ ~run' /\ pc' = pc
         \/ ~handled /\ pc' = "killed" /\ run' = run
  BY DEF Interrupt
<1>2. ~handled => Active = {}
  BY DEF IndInv, MainInv, ThreadInv
<1>3. MainInv'
  BY <1>1 DEF runner, display, camera, IndInv, MainInv
<1>4. ThreadInv'
  <2>1. CASE handled /\ pc' = pc
    BY <1>1, <2>1 DEF IndInv, ThreadInv
  <2>2. CASE ~handled /\ pc' = "killed"
    <3>1. Active' = {}
      BY <1>1, <1>2, <2>2
    <3> QED  BY <1>1, <2>2, <3>1 DEF IndInv, ThreadInv
  <2> QED  BY <1>1, <2>1, <2>2
<1>5. DeviceInv'
  BY <1>1, ThreadNames DEF runner, display, camera, IndInv, DeviceInv
<1>6. ScreenInv'
  BY <1>1 DEF display, IndInv, ScreenInv, D!BuffersComplete
<1> QED  BY <1>3, <1>4, <1>5, <1>6 DEF IndInv
-----------------------------------------------------------------------------
(* Threads run only while main is in ThreadsUp.                            *)
LEMMA LoopStep == ASSUME IndInv, NEW t \in Threads, Loop(t) PROVE IndInv'
<1>1. PICK s \in {"top", "in"} :
        /\ thr[t] \in {"top", "in"} /\ thr' = [thr EXCEPT ![t] = s]
        /\ UNCHANGED <<pc, serial, handled, run, queues, runner, display, camera>>
  BY DEF Loop, Goto
<1> QED
  BY <1>1, ThreadNames DEF runner, display, camera, IndInv, MainInv, ThreadInv, DeviceInv, ScreenInv,
     D!BuffersComplete

LEMMA EndStep == ASSUME IndInv, NEW t \in Threads, End(t) PROVE IndInv'
<1>1. /\ thr[t] = "top" /\ thr' = [thr EXCEPT ![t] = "done"] /\ ~run
      /\ UNCHANGED <<pc, serial, handled, run, queues, display>>
  BY DEF End, Goto
<1>2. IF t = "v4l2" THEN vstep' = "gone" ELSE UNCHANGED vstep
  BY DEF End, V!Destroy, camera
<1>3. IF t = "rknn" THEN rphase' \in {"gone", "null"} ELSE UNCHANGED rphase
  BY DEF End, R!Destroy, R!rvars, runner
<1> QED
  BY <1>1, <1>2, <1>3, ThreadNames DEF display, IndInv, MainInv, ThreadInv, DeviceInv, ScreenInv,
     D!BuffersComplete

LEMMA DrawStep == ASSUME IndInv, Draw PROVE IndInv'
<1>1. /\ UNCHANGED <<pc, serial, handled, run, queues, thr, rphase, vstep, buf, made>>
      /\ phase \in {"idle", "draw"} /\ phase' \in {"idle", "draw"} /\ thr["disp"] = "in"
  BY DEF Draw, D!Frame, D!Draw, D!DrawFails, D!Commit, D!screen, process, runner, camera
<1> QED
  BY <1>1, ThreadNames DEF IndInv, MainInv, ThreadInv, DeviceInv, ScreenInv, D!BuffersComplete

LEMMA BodySteps == ASSUME IndInv, Capture \/ Infer \/ Release PROVE IndInv'
<1>1. UNCHANGED <<pc, serial, handled, run, queues, thr, rphase, vstep, phase, buf, made>>
  BY DEF Capture, Infer, Release, V!Read, V!Unref, R!Process, process, runner, display, camera
<1> QED
  BY <1>1, ThreadNames DEF IndInv, MainInv, ThreadInv, DeviceInv, ScreenInv, D!BuffersComplete
-----------------------------------------------------------------------------
LEMMA Inductive == ASSUME DevicesAssumption PROVE IndInv /\ [Next]_vars => IndInv'
<1> SUFFICES ASSUME IndInv, [Next]_vars PROVE IndInv'
  OBVIOUS
<1>1. CASE Next
  BY <1>1, MainSteps, RunnerStep, DisplayStep, CameraStep, ThreadCreation, InterruptStep, LoopStep, EndStep,
     DrawStep, BodySteps DEF Next, Thread
<1>2. CASE UNCHANGED vars
  BY <1>2, ThreadNames DEF vars, process, runner, display, camera, IndInv, MainInv, ThreadInv, DeviceInv,
     ScreenInv, D!BuffersComplete
<1> QED  BY <1>1, <1>2

LEMMA NestedFromInv == IndInv => LifetimesNested
BY ThreadNames DEF IndInv, MainInv, ThreadInv, DeviceInv, ScreenInv, LifetimesNested

(* For any model and any number of buffers: every thread finds what it     *)
(* uses brought up and not yet torn down, whichever calls failed and       *)
(* whenever SIGINT came.                                                   *)
THEOREM Lifetimes == Spec => []LifetimesNested
BY InitInv, Inductive, NestedFromInv, DevicesAssumption, PTL DEF Spec
-----------------------------------------------------------------------------
(* The camera in the process behaves as VideoDevice does.                  *)
LEMMA CameraRefined == [Next]_vars => [VP!Next]_(VP!vvars)
<1> SUFFICES ASSUME [Next]_vars PROVE VP!Next \/ UNCHANGED VP!vvars
  OBVIOUS
<1> USE DEF V!table, VP!table, V!Trouble, VP!Trouble, V!Bufs, VP!Bufs, V!Stdin, VP!Stdin, V!Exported,
            VP!Exported
<1>1. V!Setup => VP!Setup
  <2>1. /\ V!Open => VP!Open
        /\ V!QueryCap => VP!QueryCap
        /\ V!RequestBuffers => VP!RequestBuffers
    BY DEF V!Open, VP!Open, V!QueryCap, VP!QueryCap, V!RequestBuffers, VP!RequestBuffers
  <2>2. /\ V!MapBuffers => VP!MapBuffers
        /\ V!NoTable => VP!NoTable
        /\ V!Start => VP!Start
    BY DEF V!MapBuffers, VP!MapBuffers, V!NoTable, VP!NoTable, V!Start, VP!Start
  <2> QED  BY <2>1, <2>2 DEF V!Setup, VP!Setup
<1>2. V!Read => VP!Read
  BY DEF V!Read, VP!Read
<1>3. V!Destroy => VP!Destroy
  BY DEF V!Destroy, VP!Destroy
<1>4. ASSUME NEW b \in V!Bufs PROVE V!Unref(b) => VP!Unref(b)
  BY DEF V!Unref, VP!Unref, V!Requeued, VP!Requeued
<1>5. CASE InitCamera
  BY <1>5, <1>1 DEF InitCamera, VP!Next
<1>6. CASE Capture \/ Release
  BY <1>6, <1>2, <1>4 DEF Capture, Release, VP!Next
<1>7. CASE \E t \in Threads : End(t)
  BY <1>7, <1>3 DEF End, VP!Next, camera, VP!vvars
<1>8. CASE CheckBoard \/ OpenSerial \/ InitRga \/ CreateRunner \/ InstallHandler \/ InitDisplay
             \/ InitQueues \/ CreateThread \/ LeaveLoop \/ Join \/ CleanQueues \/ Interrupt
  BY <1>8 DEF CheckBoard, OpenSerial, InitRga, CreateRunner, InstallHandler, InitDisplay, InitQueues,
     CreateThread, LeaveLoop, Join, CleanQueues, Interrupt, Main, camera, VP!vvars
<1>9. CASE (\E t \in Threads : Loop(t)) \/ Infer \/ Draw \/ UNCHANGED vars
  BY <1>9 DEF Loop, Infer, Draw, vars, camera, VP!vvars
<1> QED  BY <1>5, <1>6, <1>7, <1>8, <1>9 DEF Next, Thread

LEMMA CameraStarts == Init => VP!Init
BY DEF Init, V!Init, VP!Init, VP!Bufs, V!Bufs

LEMMA CameraBuffers == VP!BufCountAssumption
BY DevicesAssumption DEF DevicesAssumption, V!BufCountAssumption, VP!BufCountAssumption, V!Fds, VP!Fds,
   V!Bufs, VP!Bufs, V!Stdin, VP!Stdin, V!Exported, VP!Exported

(* For any number of camera buffers and in the whole life of the process,  *)
(* whichever thread drops the last reference: as long as at most one       *)
(* export failed, the camera never gets a buffer that a packet holds.      *)
THEOREM CameraSafety == Spec => []OwnBufferReturned
<1>1. VP!Spec => []VP!OwnBufferReturned
  BY VP!BuffersReturned, CameraBuffers
<1>2. VP!OwnBufferReturned => OwnBufferReturned
  BY DEF OwnBufferReturned, V!OwnBufferReturned, VP!OwnBufferReturned, V!Shared, VP!Shared,
     V!Bufs, VP!Bufs, V!Stdin, VP!Stdin,
     V!Cardinality, VP!Cardinality, V!IsFiniteSet, VP!IsFiniteSet
<1> QED  BY <1>1, <1>2, CameraStarts, CameraRefined, PTL DEF Spec, VP!Spec

(* Whatever main, the other threads and SIGINT do, what the capture thread *)
(* finds wrong with the camera has its cause among the calls that failed,  *)
(* and otherwise every buffer is at the driver or in a packet.             *)
THEOREM CameraCirculates == Spec => []CameraReady
<1>1. VP!Spec => []VP!Circulates
  BY VP!BuffersCirculate, CameraBuffers
<1>2. VP!Circulates => CameraReady
  BY DEF CameraReady, V!Circulates, VP!Circulates, V!Shared, VP!Shared, V!Stdin, VP!Stdin,
     V!Bufs, VP!Bufs, V!Cardinality, VP!Cardinality, V!IsFiniteSet, VP!IsFiniteSet
<1> QED  BY <1>1, <1>2, CameraStarts, CameraRefined, PTL DEF Spec, VP!Spec
-----------------------------------------------------------------------------
(* And so does the display.                                                *)
LEMMA DisplayRefined == [Next]_vars => [DP!Next]_(DP!vars)
<1> SUFFICES ASSUME [Next]_vars PROVE DP!Next \/ UNCHANGED DP!vars
  OBVIOUS
<1> USE DEF D!screen, DP!screen, D!Calls, DP!Calls, D!Objects, DP!Objects
<1>1. D!Setup => DP!Setup
  <2>1. D!InitCall => DP!InitCall
    BY DEF D!InitCall, DP!InitCall
  <2>2. /\ D!InitFails => DP!InitFails
        /\ D!SetZpos => DP!SetZpos
    BY DEF D!InitFails, DP!InitFails, D!SetZpos, DP!SetZpos, D!Freed, DP!Freed, D!Unwound, DP!Unwound,
       D!Acquired, DP!Acquired
  <2>3. D!GetBuffer => DP!GetBuffer
    BY DEF D!GetBuffer, DP!GetBuffer, D!Obtained, DP!Obtained
  <2> QED  BY <2>1, <2>2, <2>3 DEF D!Setup, DP!Setup
<1>2. D!Frame => DP!Frame
  BY DEF D!Frame, DP!Frame, D!Draw, DP!Draw, D!DrawFails, DP!DrawFails, D!Commit, DP!Commit, D!NextIndex,
     DP!NextIndex
<1>3. CASE InitDisplay \/ Draw
  BY <1>3, <1>1, <1>2 DEF InitDisplay, Draw, DP!Next
<1>4. CASE CheckBoard \/ OpenSerial \/ InitRga \/ CreateRunner \/ InstallHandler \/ InitCamera
             \/ InitQueues \/ CreateThread \/ LeaveLoop \/ Join \/ CleanQueues \/ Interrupt
  BY <1>4 DEF CheckBoard, OpenSerial, InitRga, CreateRunner, InstallHandler, InitCamera, InitQueues,
     CreateThread, LeaveLoop, Join, CleanQueues, Interrupt, Main, display, DP!vars
<1>5. CASE \E t \in Threads : Thread(t)
  BY <1>5 DEF Thread, Loop, End, display, DP!vars
<1>6. CASE Capture \/ Infer \/ Release \/ UNCHANGED vars
  BY <1>6 DEF Capture, Infer, Release, vars, display, DP!vars
<1> QED  BY <1>3, <1>4, <1>5, <1>6 DEF Next

LEMMA DisplayStarts == Init => DP!Init
BY DEF Init, D!Init, DP!Init, DP!Bufs, D!Bufs, DP!Objects, D!Objects

LEMMA DisplayBuffers == DP!BufCountAssumption
BY DevicesAssumption DEF DevicesAssumption, D!BufCountAssumption, DP!BufCountAssumption

(* For any number of scanout buffers and in the whole life of the process: *)
(* the screen shows a whole frame, unless the last commit was refused.     *)
THEOREM ScreenSafety == Spec => []ScreenWhole
<1>1. DP!Spec => []DP!ScreenWhole
  BY DP!WholeFrames, DisplayBuffers
<1>2. DP!ScreenWhole => ScreenWhole
  BY DEF ScreenWhole, D!ScreenWhole, DP!ScreenWhole
<1> QED  BY <1>1, <1>2, DisplayStarts, DisplayRefined, PTL DEF Spec, DP!Spec

(* A failing drmInit gives back each object it got, once, all but the      *)
(* descriptor, and a success keeps what the disp thread needs, whatever    *)
(* happens in the process.                                                 *)
THEOREM DisplayUnwinds == Spec => []ObjectsAccounted
<1>1. DP!Spec => []DP!ObjectsAccounted
  BY DP!InitUnwinds, DisplayBuffers
<1>2. DP!ObjectsAccounted => ObjectsAccounted
  BY DEF ObjectsAccounted, D!ObjectsAccounted, DP!ObjectsAccounted, D!Acquired, DP!Acquired, D!Calls, DP!Calls, D!Objects, DP!Objects
<1> QED  BY <1>1, <1>2, DisplayStarts, DisplayRefined, PTL DEF Spec, DP!Spec
-----------------------------------------------------------------------------
(* The runner.  The member f of the runner is assigned by the call number  *)
(* Stage(f) of rknn_runner_create.                                         *)
Members == {"runner", "ctx", "input_attrs", "output_attrs", "input_mems", "output_mems"}

Stage(f) ==
  CASE f = "runner" -> 1 [] f = "ctx" -> 2 [] f = "input_attrs" -> 5 [] f = "output_attrs" -> 7
    [] f = "input_mems" -> 10 [] f = "output_mems" -> 11

(* What the cells hold before call k, or, for k = 13, when all is done.    *)
Filled(k) ==
  /\ \A f \in Members : cell[<<f, 0>>] = IF Stage(f) < k THEN "held" ELSE "unset"
  /\ \A i \in 1 .. NIn :
       cell[<<"input_mems", i>>] \in IF i = 1 /\ 10 < k THEN {"held", "null"} ELSE {"unset"}
  /\ \A i \in 1 .. NOut :
       cell[<<"output_mems", i>>] \in IF 11 < k THEN {"held", "null"} ELSE {"unset"}

(* In a complete runner no memory that process reads is missing.           *)
RunnerInv ==
  /\ rphase \in {"create", "ready", "null", "gone"}
  /\ rphase = "create" => rcall \in 1 .. 12 /\ unsetUsed = {} /\ Filled(rcall)
  /\ rphase = "ready" => unsetUsed = {} /\ Filled(13) /\ ~R!Unbacked
  /\ R!GivenBack

LEMMA CallAt ==
  /\ Len(R!Calls) = 12
  /\ R!Calls[1] = <<"runner", "return">> /\ R!Calls[2] = <<"ctx", "free">>
  /\ R!Calls[3] = <<"sdk_version", "return">> /\ R!Calls[4] = <<"io_num", "return">>
  /\ R!Calls[5] = <<"input_attrs", "release">> /\ R!Calls[6] = <<"query_inputs", "return">>
  /\ R!Calls[7] = <<"output_attrs", "release">> /\ R!Calls[8] = <<"query_outputs", "return">>
  /\ R!Calls[9] = <<"custom_string", "return">> /\ R!Calls[10] = <<"input_mems", "release">>
  /\ R!Calls[11] = <<"output_mems", "release">> /\ R!Calls[12] = <<"set_io_mem", "release">>
BY DEF R!Calls

LEMMA CellNames ==
  /\ R!Own \cup R!Pointers = {<<f, 0>> : f \in Members}
  /\ R!Entries("input_mems") = {<<"input_mems", i>> : i \in 1 .. NIn}
  /\ R!Entries("output_mems") = {<<"output_mems", i>> : i \in 1 .. NOut}
  /\ R!Mems = R!Entries("input_mems") \cup R!Entries("output_mems")
  /\ R!Cells = {<<f, 0>> : f \in Members} \cup R!Mems
<1>1. /\ R!Own \cup R!Pointers = {<<f, 0>> : f \in Members}
  BY DEF R!Own, R!Pointers, R!Tables, Members
<1>2. /\ R!Entries("input_mems") = {<<"input_mems", i>> : i \in 1 .. NIn}
      /\ R!Entries("output_mems") = {<<"output_mems", i>> : i \in 1 .. NOut}
  BY DEF R!Entries
<1>3. R!Mems = R!Entries("input_mems") \cup R!Entries("output_mems")
  BY DEF R!Mems, R!Tables
<1> QED  BY <1>1, <1>2, <1>3 DEF R!Cells

(* What a successful call assigns.                                         *)
LEMMA AssignedAt ==
  ASSUME rcall \in 1 .. 12
  PROVE  /\ rcall <= 9 =>
              /\ R!Assigned \cap R!Mems = {}
              /\ \A c \in R!Cells :
                   c \in R!Assigned <=> \E f \in Members : c = <<f, 0>> /\ Stage(f) = rcall
         /\ rcall = 10 => R!Assigned = {<<"input_mems", 0>>, <<"input_mems", 1>>}
         /\ rcall = 11 => R!Assigned = {<<"output_mems", 0>>} \cup R!Entries("output_mems")
         /\ rcall = 12 => R!Assigned = {} /\ R!Call = "set_io_mem"
<1> USE CallAt
<1>1. CASE rcall <= 9
  <2>1. rcall \in {1, 2, 3, 4, 5, 6, 7, 8, 9}
    BY <1>1
  <2>2. R!Call \notin {"input_mems", "output_mems"}
    BY <2>1 DEF R!Call
  <2>3. R!Assigned = {<<R!Call, 0>>} \cap R!Cells
    BY <2>2 DEF R!Assigned
  <2>4. R!Assigned \cap R!Mems = {}
    BY <2>2, <2>3, CellNames
  <2>5. \A f \in Members : Stage(f) = rcall <=> f = R!Call
    BY <2>1 DEF Members, Stage, R!Call
  <2>6. \A c \in R!Cells : c \in R!Assigned <=> \E f \in Members : c = <<f, 0>> /\ Stage(f) = rcall
    <3> SUFFICES ASSUME NEW c \in R!Cells
                 PROVE  c = <<R!Call, 0>> <=> \E f \in Members : c = <<f, 0>> /\ Stage(f) = rcall
      BY <2>3
    <3>1. ASSUME c = <<R!Call, 0>> PROVE R!Call \in Members
      BY <3>1, <2>2, CellNames
    <3> QED  BY <3>1, <2>5
  <2> QED  BY <1>1, <2>4, <2>6
<1>2. CASE rcall = 10
  BY <1>2 DEF R!Assigned, R!Call
<1>3. CASE rcall = 11
  BY <1>3 DEF R!Assigned, R!Call
<1>4. CASE rcall = 12
  <2>1. R!Call = "set_io_mem"
    BY <1>4 DEF R!Call
  <2>2. R!Assigned = {<<R!Call, 0>>} \cap R!Cells
    BY <2>1 DEF R!Assigned
  <2>3. <<R!Call, 0>> \notin R!Cells
    BY <2>1, CellNames DEF Members
  <2> QED  BY <1>4, <2>1, <2>2, <2>3
<1> QED  BY <1>1, <1>2, <1>3, <1>4

LEMMA RunnerCall ==
  ASSUME DevicesAssumption, RunnerInv, R!CreateCall
  PROVE  RunnerInv'
<1>1. /\ rphase = "create" /\ rcall \in 1 .. 12 /\ unsetUsed = {} /\ Filled(rcall)
      /\ UNCHANGED unsetUsed
      /\ rcall = 12 => rphase' = "ready"
      /\ rcall # 12 => rcall' = rcall + 1 /\ rphase' = "create"
      /\ rcall = 12 => ~R!Unbacked
  BY CallAt, AssignedAt DEF R!CreateCall, RunnerInv
<1>2. PICK nulls \in {{}} \cup {{m} : m \in R!Assigned \cap R!Mems} :
        cell' = [c \in R!Cells |-> IF c \in nulls THEN "null"
                                   ELSE IF c \in R!Assigned THEN "held" ELSE cell[c]]
  BY DEF R!CreateCall
<1>3. /\ nulls \subseteq R!Assigned \cap R!Mems
      /\ \A c \in R!Cells : cell'[c] = IF c \in nulls THEN "null"
                                        ELSE IF c \in R!Assigned THEN "held" ELSE cell[c]
  BY <1>2
<1>4. /\ \A f \in Members : <<f, 0>> \in R!Cells /\ <<f, 0>> \notin R!Mems
      /\ \A i \in 1 .. NIn : <<"input_mems", i>> \in R!Cells
      /\ \A i \in 1 .. NOut : <<"output_mems", i>> \in R!Cells
      /\ NIn \in Nat \ {0}
  BY CellNames, DevicesAssumption DEF DevicesAssumption, R!IoAssumption
<1>5. CASE rcall <= 9
  <2>0. /\ R!Assigned \cap R!Mems = {}
        /\ \A c \in R!Cells :
             c \in R!Assigned <=> \E f \in Members : c = <<f, 0>> /\ Stage(f) = rcall
    BY <1>1, <1>5, AssignedAt
  <2>1. \A f \in Members : cell'[<<f, 0>>] = IF Stage(f) = rcall THEN "held" ELSE cell[<<f, 0>>]
    <3> SUFFICES ASSUME NEW f \in Members
                 PROVE  cell'[<<f, 0>>] = IF Stage(f) = rcall THEN "held" ELSE cell[<<f, 0>>]
      OBVIOUS
    <3>1. <<f, 0>> \in R!Cells /\ <<f, 0>> \notin R!Mems
      BY <1>4
    <3>2. <<f, 0>> \in R!Assigned <=> Stage(f) = rcall
      BY <2>0, <3>1
    <3> QED  BY <3>1, <3>2, <1>3
  <2>2. /\ \A i \in 1 .. NIn : <<"input_mems", i>> \in R!Mems
        /\ \A i \in 1 .. NOut : <<"output_mems", i>> \in R!Mems
    BY CellNames
  <2>3. \A m \in R!Mems : cell'[m] = cell[m]
    BY <2>0, <1>3, CellNames
  <2>4. \A f \in Members : Stage(f) < rcall + 1 <=> Stage(f) < rcall \/ Stage(f) = rcall
    BY <1>1 DEF Members, Stage
  <2>5. Filled(rcall)'
    BY <2>1, <2>2, <2>3, <2>4, <1>1, <1>5 DEF Filled
  <2> QED  BY <1>1, <1>5, <2>5 DEF RunnerInv, R!GivenBack
<1>6. CASE rcall = 10
  <2>1. R!Assigned = {<<"input_mems", 0>>, <<"input_mems", 1>>} /\ nulls \subseteq {<<"input_mems", 1>>}
    BY <1>1, <1>3, <1>4, <1>6, AssignedAt DEF Members
  <2>2. \A f \in Members : cell'[<<f, 0>>] = IF f = "input_mems" THEN "held" ELSE cell[<<f, 0>>]
    BY <2>1, <1>3, <1>4
  <2>3. \A i \in 1 .. NIn : IF i = 1 THEN cell'[<<"input_mems", i>>] \in {"held", "null"}
                                     ELSE cell'[<<"input_mems", i>>] = cell[<<"input_mems", i>>]
    <3> TAKE i \in 1 .. NIn
    <3>1. CASE i = 1
      BY <3>1, <2>1, <1>3, <1>4
    <3>2. CASE i # 1
      <4>1. <<"input_mems", i>> \notin R!Assigned
        BY <3>2, <2>1
      <4> QED  BY <3>2, <4>1, <1>3, <1>4
    <3> QED  BY <3>1, <3>2
  <2>4. \A i \in 1 .. NOut : cell'[<<"output_mems", i>>] = cell[<<"output_mems", i>>]
    BY <2>1, <1>3, <1>4
  <2>5. Filled(11)'
    BY <2>2, <2>3, <2>4, <1>1, <1>6 DEF Filled, Members, Stage
  <2> QED  BY <1>1, <1>6, <2>5 DEF RunnerInv, R!GivenBack
<1>7. CASE rcall = 11
  <2>1. /\ R!Assigned = {<<"output_mems", 0>>} \cup R!Entries("output_mems")
        /\ nulls \subseteq R!Entries("output_mems")
    BY <1>1, <1>3, <1>4, <1>7, AssignedAt DEF Members
  <2>2. \A f \in Members : cell'[<<f, 0>>] = IF f = "output_mems" THEN "held" ELSE cell[<<f, 0>>]
    BY <2>1, <1>3, <1>4, CellNames
  <2>3. \A i \in 1 .. NIn : cell'[<<"input_mems", i>>] = cell[<<"input_mems", i>>]
    <3> TAKE i \in 1 .. NIn
    <3>1. <<"input_mems", i>> \in R!Cells /\ <<"input_mems", i>> \notin R!Assigned
      BY <2>1, <1>4, CellNames
    <3>2. <<"input_mems", i>> \notin nulls
      BY <1>3, <3>1
    <3> QED  BY <1>3, <3>1, <3>2
  <2>4. \A i \in 1 .. NOut : cell'[<<"output_mems", i>>] \in {"held", "null"}
    BY <2>1, <1>3, <1>4, CellNames
  <2>5. Filled(12)'
    BY <2>2, <2>3, <2>4, <1>1, <1>7 DEF Filled, Members, Stage
  <2> QED  BY <1>1, <1>7, <2>5 DEF RunnerInv, R!GivenBack
<1>8. CASE rcall = 12
  <2>1. \A c \in R!Cells : cell'[c] = cell[c]
    BY <1>1, <1>3, <1>8, AssignedAt
  <2>2. ~R!Unbacked'
    BY <2>1, <1>1, <1>8, CellNames DEF R!Unbacked
  <2>3. Filled(13)'
    BY <2>1, <1>1, <1>4, <1>8 DEF Filled, Members, Stage
  <2> QED  BY <1>1, <1>8, <2>2, <2>3 DEF RunnerInv, R!GivenBack
<1> QED  BY <1>1, <1>5, <1>6, <1>7, <1>8

(* The release walks every table it finds, so all that was held is freed.  *)
LEMMA AllFreed ==
  ASSUME NEW STATE mem, R!Release(mem),
         \A f \in R!Tables : \A c \in R!Entries(f) : mem[c] = "held" => mem[<<f, 0>>] = "held"
  PROVE  R!Held' = {}
<1> DEFINE seen == R!Own \cup R!Pointers \cup
             UNION {R!Entries(f) : f \in {g \in R!Tables : mem[<<g, 0>>] = "held"}}
<1>1. cell' = [c \in R!Cells |-> IF c \in seen /\ mem[c] = "held" THEN "freed" ELSE mem[c]]
  BY DEF R!Release, R!Freeing
<1>2. ASSUME NEW c \in R!Cells, mem[c] = "held" PROVE c \in seen
  <2>1. CASE c \in R!Own \cup R!Pointers
    BY <2>1
  <2>2. CASE c \in R!Mems
    <3>1. PICK f \in R!Tables : c \in R!Entries(f)
      BY <2>2 DEF R!Mems
    <3> QED  BY <3>1, <1>2
  <2> QED  BY <2>1, <2>2 DEF R!Cells
<1> HIDE DEF seen
<1>3. \A c \in R!Cells : cell'[c] # "held"
  BY <1>1, <1>2
<1> QED  BY <1>3 DEF R!Held

(* A complete runner is released without an unset cell in sight, unless    *)
(* the model has inputs beyond the first.                                  *)
LEMMA CompleteReleased ==
  ASSUME DevicesAssumption, Filled(12) \/ Filled(13), unsetUsed = {},
         NEW STATE mem, R!Release(mem), \A c \in R!Cells : mem[c] = cell[c]
  PROVE  R!Held' = {} /\ (unsetUsed' # {} => NIn > 1)
<1>1. /\ \A f \in Members : mem[<<f, 0>>] = "held"
      /\ \A i \in 1 .. NIn : i = 1 => mem[<<"input_mems", i>>] # "unset"
      /\ \A i \in 1 .. NOut : mem[<<"output_mems", i>>] # "unset"
  <2>1. /\ \A f \in Members : <<f, 0>> \in R!Cells
        /\ \A i \in 1 .. NIn : <<"input_mems", i>> \in R!Cells
        /\ \A i \in 1 .. NOut : <<"output_mems", i>> \in R!Cells
    BY CellNames
  <2>2. /\ \A f \in Members : cell[<<f, 0>>] = "held"
        /\ \A i \in 1 .. NIn : i = 1 => cell[<<"input_mems", i>>] # "unset"
        /\ \A i \in 1 .. NOut : cell[<<"output_mems", i>>] # "unset"
    BY DEF Filled, Members, Stage
  <2> QED  BY <2>1, <2>2
<1>2. R!Held' = {}
  BY <1>1, AllFreed DEF R!Tables, Members
<1>3. ASSUME NEW c \in R!Cells, mem[c] = "unset" PROVE NIn > 1
  <2>1. c \notin {<<f, 0>> : f \in Members} /\ c \notin R!Entries("output_mems")
    BY <1>1, <1>3, CellNames
  <2>2. PICK i \in 1 .. NIn : c = <<"input_mems", i>>
    BY <2>1, CellNames
  <2> QED  BY <1>1, <1>3, <2>2, DevicesAssumption DEF DevicesAssumption, R!IoAssumption
<1>4. ASSUME unsetUsed' # {} PROVE \E c \in R!Cells : mem[c] = "unset"
  <2> DEFINE seen == R!Own \cup R!Pointers \cup
               UNION {R!Entries(f) : f \in {g \in R!Tables : mem[<<g, 0>>] = "held"}}
  <2>1. \E w \in SUBSET {c \in seen : mem[c] = "unset"} : unsetUsed' = unsetUsed \cup w
    BY DEF R!Release, R!Freeing
  <2>2. seen \subseteq R!Cells
    BY DEF R!Cells, R!Mems
  <2> HIDE DEF seen
  <2> QED  BY <1>4, <2>1, <2>2
<1> QED  BY <1>2, <1>3, <1>4

LEMMA RunnerFails ==
  ASSUME DevicesAssumption, RunnerInv, R!CreateFails
  PROVE  RunnerInv'
<1> DEFINE mem == [c \in R!Cells |-> IF c = <<R!Call, 0>> THEN "null" ELSE cell[c]]
<1>1. /\ rphase = "create" /\ rcall \in 1 .. 12 /\ unsetUsed = {} /\ Filled(rcall)
      /\ rphase' = "null"
  BY DEF R!CreateFails, RunnerInv
<1>2. /\ R!OnFailure = "return" => cell' = mem /\ unsetUsed' = unsetUsed
      /\ R!OnFailure = "free" => cell' = [mem EXCEPT ![<<"runner", 0>>] = "freed"] /\ unsetUsed' = unsetUsed
      /\ R!OnFailure = "release" => R!Release(mem)
  BY DEF R!CreateFails
<1>3. /\ \A f \in Members : <<f, 0>> \in R!Cells /\ <<f, 0>> \notin R!Mems
      /\ \A i \in 1 .. NIn : <<"input_mems", i>> \in R!Cells
      /\ \A i \in 1 .. NOut : <<"output_mems", i>> \in R!Cells
  BY CellNames
<1>4. CASE rcall \in {3, 4, 6, 8, 9}
  <2>1. R!OnFailure = "return" /\ R!Call \notin Members
    BY <1>4, CallAt DEF R!OnFailure, R!Call, Members
  <2>2. <<R!Call, 0>> \notin R!Cells
    <3>1. <<R!Call, 0>> \notin R!Mems
      BY CellNames
    <3> QED  BY <2>1, <3>1, CellNames
  <2>3. \A c \in R!Cells : cell'[c] = cell[c]
    BY <1>2, <2>1, <2>2
  <2>4. /\ cell[<<"runner", 0>>] = "held" /\ cell[<<"ctx", 0>>] = "held"
        /\ cell[<<"input_mems", 0>>] = "unset"
    BY <1>1, <1>4 DEF Filled, Members, Stage
  <2>5. R!Own \subseteq R!Held' /\ cell'[<<"input_mems", 0>>] = "unset"
    BY <2>3, <2>4, <1>3 DEF R!Own, R!Held, Members
  <2> QED  BY <1>1, <1>2, <2>1, <2>5 DEF RunnerInv, R!GivenBack
<1>5. CASE rcall \in {1, 2}
  <2>1. /\ \A c \in R!Cells : c # <<"runner", 0>> => mem[c] # "held"
        /\ rcall = 1 => mem[<<"runner", 0>>] = "null"
    <3>1. \A c \in R!Cells : c # <<"runner", 0>> => cell[c] # "held"
      BY <1>1, <1>5, CellNames DEF Filled, Members, Stage
    <3>2. rcall = 1 => R!Call = "runner"
      BY CallAt DEF R!Call
    <3> QED  BY <3>1, <3>2, <1>3 DEF Members
  <2>2. /\ rcall = 1 => R!OnFailure = "return"
        /\ rcall = 2 => R!OnFailure = "free"
    BY CallAt DEF R!OnFailure
  <2>3. \A c \in R!Cells : cell'[c] # "held"
    BY <1>2, <1>5, <2>1, <2>2
  <2>4. R!Held' = {}
    BY <2>3 DEF R!Held
  <2> QED  BY <1>1, <1>2, <1>5, <2>2, <2>4 DEF RunnerInv, R!GivenBack
<1>6. CASE rcall \in {5, 7, 10, 11}
  <2>1. R!OnFailure = "release" /\ R!Call \in Members /\ <<R!Call, 0>> \in R!Pointers
    BY <1>6, CallAt DEF R!OnFailure, R!Call, Members, R!Pointers, R!Tables
  <2>2. mem[<<R!Call, 0>>] = "null"
    BY <2>1, <1>3
  <2>3. \A f \in R!Tables : \A c \in R!Entries(f) : mem[c] = "held" => mem[<<f, 0>>] = "held"
    <3> SUFFICES ASSUME NEW f \in R!Tables, NEW c \in R!Entries(f), mem[c] = "held"
                 PROVE  mem[<<f, 0>>] = "held"
      OBVIOUS
    <3>1. c \in R!Cells /\ cell[c] = "held"
      BY DEF R!Cells, R!Mems
    <3>2. f = "input_mems" /\ rcall = 11
      BY <1>1, <1>6, <3>1, CellNames DEF Filled, R!Tables
    <3>3. R!Call = "output_mems"
      BY <3>2, CallAt DEF R!Call
    <3>4. cell[<<f, 0>>] = "held"
      BY <1>1, <3>2 DEF Filled, Members, Stage
    <3> QED  BY <3>2, <3>3, <3>4, <1>3 DEF Members
  <2>4. R!Release(mem)
    BY <1>2, <2>1
  <2>5. cell'[<<R!Call, 0>>] = "null"
    BY <2>1, <2>2, <2>4, <1>3 DEF R!Release, R!Freeing
  <2> HIDE DEF mem
  <2>6. R!Held' = {}
    BY <2>3, <2>4, AllFreed
  <2> QED  BY <1>1, <2>1, <2>5, <2>6 DEF RunnerInv, R!GivenBack
<1>7. CASE rcall = 12
  <2>1. R!OnFailure = "release" /\ R!Call \notin Members
    BY <1>7, CallAt DEF R!OnFailure, R!Call, Members
  <2>2. <<R!Call, 0>> \notin R!Cells
    <3>1. <<R!Call, 0>> \notin R!Mems
      BY CellNames
    <3> QED  BY <2>1, <3>1, CellNames
  <2>3. \A c \in R!Cells : mem[c] = cell[c]
    BY <2>2
  <2>4. R!Release(mem)
    BY <1>2, <2>1
  <2> HIDE DEF mem
  <2>5. R!Held' = {} /\ (unsetUsed' # {} => NIn > 1)
    BY <1>1, <1>7, <2>3, <2>4, CompleteReleased
  <2> QED  BY <1>1, <2>5 DEF RunnerInv, R!GivenBack
<1> QED  BY <1>1, <1>4, <1>5, <1>6, <1>7

(* rknn_runner_process finds all it reads in a complete runner.            *)
LEMMA RunnerProcess ==
  ASSUME DevicesAssumption, RunnerInv, R!Process
  PROVE  RunnerInv'
<1>1. /\ rphase = "ready" /\ unsetUsed = {} /\ Filled(13) /\ ~R!Unbacked
      /\ UNCHANGED <<rphase, rcall, cell>>
  BY DEF R!Process, RunnerInv
<1>2. ASSUME NEW c \in {<<"input_mems", 1>>} \cup R!Own \cup R!Pointers \cup R!Entries("output_mems")
      PROVE  cell[c] = "held"
  <2>1. /\ \A f \in Members : cell[<<f, 0>>] = "held"
        /\ \A i \in 1 .. NIn : i = 1 => cell[<<"input_mems", i>>] \in {"held", "null"}
        /\ \A i \in 1 .. NOut : cell[<<"output_mems", i>>] \in {"held", "null"}
    BY <1>1 DEF Filled, Members, Stage
  <2>2. \A m \in R!Mems : cell[m] # "null"
    BY <1>1 DEF R!Unbacked
  <2>3. 1 \in 1 .. NIn
    BY DevicesAssumption DEF DevicesAssumption, R!IoAssumption
  <2>4. CASE c \in R!Own \cup R!Pointers
    BY <2>1, <2>4, CellNames
  <2>5. CASE c = <<"input_mems", 1>>
    BY <2>1, <2>2, <2>3, <2>5, CellNames
  <2>6. CASE c \in R!Entries("output_mems")
    BY <2>1, <2>2, <2>6, CellNames
  <2> QED  BY <2>4, <2>5, <2>6
<1>3. unsetUsed' = {}
  BY <1>1, <1>2 DEF R!Process
<1>4. Filled(13)' /\ ~R!Unbacked'
  BY <1>1 DEF Filled, R!Unbacked
<1> QED  BY <1>1, <1>3, <1>4 DEF RunnerInv, R!GivenBack

LEMMA RunnerDestroyed ==
  ASSUME DevicesAssumption, RunnerInv, R!Destroy
  PROVE  RunnerInv'
<1>1. CASE rphase = "null" /\ UNCHANGED R!rvars
  BY <1>1 DEF R!rvars, RunnerInv, R!GivenBack, R!Held
<1>2. CASE rphase = "ready" /\ R!Release(cell) /\ rphase' = "gone" /\ UNCHANGED rcall
  <2>1. Filled(13) /\ unsetUsed = {}
    BY <1>2 DEF RunnerInv
  <2>2. R!Held' = {} /\ (unsetUsed' # {} => NIn > 1)
    BY <1>2, <2>1, CompleteReleased
  <2> QED  BY <1>2, <2>2 DEF RunnerInv, R!GivenBack
<1> QED  BY <1>1, <1>2 DEF R!Destroy

LEMMA RunnerInductive == ASSUME DevicesAssumption PROVE RunnerInv /\ [Next]_vars => RunnerInv'
<1> SUFFICES ASSUME RunnerInv, [Next]_vars PROVE RunnerInv'
  OBVIOUS
<1>1. ASSUME UNCHANGED runner PROVE RunnerInv'
  BY <1>1 DEF runner, RunnerInv, Filled, R!Unbacked, R!GivenBack, R!Held
<1>2. CASE CreateRunner
  BY <1>2, RunnerCall, RunnerFails DEF CreateRunner
<1>3. CASE Infer
  BY <1>3, RunnerProcess DEF Infer
<1>4. CASE \E t \in Threads : Thread(t)
  BY <1>1, <1>4, RunnerDestroyed DEF Thread, Loop, End
<1>5. CASE CheckBoard \/ OpenSerial \/ InitRga \/ InstallHandler \/ InitDisplay \/ InitCamera
             \/ InitQueues \/ CreateThread \/ LeaveLoop \/ Join \/ CleanQueues \/ Interrupt
  BY <1>1, <1>5 DEF CheckBoard, OpenSerial, InitRga, InstallHandler, InitDisplay, InitCamera,
     InitQueues, CreateThread, LeaveLoop, Join, CleanQueues, Interrupt, Main
<1>6. CASE Capture \/ Draw \/ Release \/ UNCHANGED vars
  BY <1>1, <1>6 DEF Capture, Draw, Release, vars
<1> QED  BY <1>2, <1>3, <1>4, <1>5, <1>6 DEF Next

(* For a model with any number of inputs and outputs: destroying a runner  *)
(* gives back all of it, a failing rknn_runner_create keeps something only *)
(* if it returned from a query, and an unset cell is taken for held only   *)
(* when malloc failed or the model has a second input, whatever else       *)
(* happens in the process.                                                 *)
THEOREM RunnerGivenBack == Spec => []RunnerReleased
<1>1. Init => RunnerInv
  <2> SUFFICES ASSUME Init PROVE RunnerInv
    OBVIOUS
  <2>1. /\ rphase = "create" /\ rcall = 1 /\ unsetUsed = {}
        /\ \A c \in R!Cells : cell[c] = "unset"
    BY DEF Init, R!Init
  <2>2. Filled(1)
    BY <2>1, CellNames DEF Filled, Members, Stage
  <2> QED  BY <2>1, <2>2 DEF RunnerInv, R!GivenBack
<1>2. RunnerInv => RunnerReleased
  BY DEF RunnerInv, RunnerReleased
<1> QED  BY <1>1, <1>2, RunnerInductive, DevicesAssumption, PTL DEF Spec
-----------------------------------------------------------------------------
LEMMA RunnerTyped == ASSUME DevicesAssumption PROVE R!TypeOK /\ [Next]_vars => R!TypeOK'
<1> SUFFICES ASSUME R!TypeOK, [Next]_vars PROVE R!TypeOK'
  OBVIOUS
<1>1. ASSUME UNCHANGED runner PROVE R!TypeOK'
  BY <1>1 DEF runner, R!TypeOK
<1> DEFINE Values == {"unset", "null", "held", "freed"}
           mem == [c \in R!Cells |-> IF c = <<R!Call, 0>> THEN "null" ELSE cell[c]]
<1>2. cell \in [R!Cells -> Values] /\ mem \in [R!Cells -> Values] /\ rcall \in 1 .. 12
      /\ unsetUsed \subseteq R!Cells /\ R!TypeOK
      /\ (DOMAIN R!Calls) = 1 .. 12
  <2>1. (DOMAIN R!Calls) = 1 .. 12
    BY DEF R!Calls
  <2> QED  BY <2>1 DEF R!TypeOK
<1>3. ASSUME NEW STATE m, m \in [R!Cells -> Values], R!Release(m)
      PROVE  cell' \in [R!Cells -> Values] /\ unsetUsed' \subseteq R!Cells
  <2> DEFINE seen == R!Own \cup R!Pointers \cup
               UNION {R!Entries(f) : f \in {g \in R!Tables : m[<<g, 0>>] = "held"}}
  <2>1. seen \subseteq R!Cells
    BY DEF R!Cells, R!Mems
  <2>2. /\ cell' = [c \in R!Cells |-> IF c \in seen /\ m[c] = "held" THEN "freed" ELSE m[c]]
        /\ \E w \in SUBSET {c \in seen : m[c] = "unset"} : unsetUsed' = unsetUsed \cup w
    BY <1>3 DEF R!Release, R!Freeing
  <2> HIDE DEF seen
  <2> QED  BY <1>2, <1>3, <2>1, <2>2
<1>4. CASE R!CreateCall
  <2>1. cell' \in [R!Cells -> Values]
    BY <1>2, <1>4 DEF R!CreateCall
  <2>2. rcall' \in 1 .. 12 /\ rphase' \in {"create", "ready"} /\ UNCHANGED unsetUsed
    BY <1>2, <1>4, CallAt DEF R!CreateCall
  <2> QED  BY <1>2, <2>1, <2>2 DEF R!TypeOK
<1>5. CASE R!CreateFails
  <2>1. /\ rphase' = "null" /\ UNCHANGED rcall
        /\ \/ cell' = mem /\ UNCHANGED unsetUsed
           \/ cell' = [mem EXCEPT ![<<"runner", 0>>] = "freed"] /\ UNCHANGED unsetUsed
           \/ R!Release(mem)
    <3>1. R!OnFailure \in {"return", "free", "release"}
      BY <1>2, CallAt DEF R!OnFailure
    <3> QED  BY <1>5, <3>1 DEF R!CreateFails
  <2>2. cell' \in [R!Cells -> Values] /\ unsetUsed' \subseteq R!Cells
    <3>1. CASE cell' = mem /\ UNCHANGED unsetUsed
      BY <3>1, <1>2
    <3>2. CASE cell' = [mem EXCEPT ![<<"runner", 0>>] = "freed"] /\ UNCHANGED unsetUsed
      BY <3>2, <1>2
    <3>3. CASE R!Release(mem)
      BY <3>3, <1>2, <1>3
    <3> QED  BY <2>1, <3>1, <3>2, <3>3
  <2> QED  BY <1>2, <2>1, <2>2 DEF R!TypeOK
<1>6. CASE R!Process
  <2>1. /\ R!Own \cup R!Pointers \cup R!Entries("output_mems") \subseteq R!Cells
        /\ <<"input_mems", 1>> \in R!Cells
    BY CellNames, DevicesAssumption DEF DevicesAssumption, R!IoAssumption, R!Cells
  <2> QED  BY <1>2, <1>6, <2>1 DEF R!Process, R!TypeOK
<1>7. CASE R!Destroy
  <2>1. CASE rphase = "null" /\ UNCHANGED R!rvars
    BY <1>2, <2>1 DEF R!rvars, R!TypeOK
  <2>2. CASE rphase = "ready" /\ R!Release(cell) /\ rphase' = "gone" /\ UNCHANGED rcall
    BY <1>2, <1>3, <2>2 DEF R!TypeOK
  <2> QED  BY <1>7, <2>1, <2>2 DEF R!Destroy
<1>8. CASE CreateRunner \/ Infer \/ \E t \in Threads : Thread(t)
  BY <1>1, <1>4, <1>5, <1>6, <1>7, <1>8 DEF CreateRunner, Infer, Thread, Loop, End
<1>9. CASE CheckBoard \/ OpenSerial \/ InitRga \/ InstallHandler \/ InitDisplay \/ InitCamera
             \/ InitQueues \/ CreateThread \/ LeaveLoop \/ Join \/ CleanQueues \/ Interrupt
  BY <1>1, <1>9 DEF CheckBoard, OpenSerial, InitRga, InstallHandler, InitDisplay, InitCamera,
     InitQueues, CreateThread, LeaveLoop, Join, CleanQueues, Interrupt, Main
<1>10. CASE Capture \/ Draw \/ Release \/ UNCHANGED vars
  BY <1>1, <1>10 DEF Capture, Draw, Release, vars
<1> QED  BY <1>8, <1>9, <1>10 DEF Next

(* What main and the threads keep.                                         *)
ProcessTypes ==
  /\ pc \in {"board", "serial", "rga", "runner", "signal", "display", "camera", "queues",
             "threads", "loop", "join", "cleanup", "return", "killed"}
  /\ serial \in {"none", "ready", "closed"} /\ handled \in BOOLEAN /\ run \in BOOLEAN
  /\ queues \in {"none", "ready", "cleaned"}
  /\ thr \in [Threads -> {"none", "absent", "top", "in", "done"}]

LEMMA ProcessTyped == ProcessTypes /\ [Next]_vars => ProcessTypes'
<1> SUFFICES ASSUME ProcessTypes, [Next]_vars PROVE ProcessTypes'
  OBVIOUS
<1> USE DEF ProcessTypes
<1>1. CASE CheckBoard \/ OpenSerial \/ InitRga \/ InstallHandler
  BY <1>1 DEF CheckBoard, OpenSerial, InitRga, InstallHandler, Main
<1>2. CASE InitQueues \/ LeaveLoop \/ Join \/ CleanQueues \/ Interrupt
  BY <1>2 DEF InitQueues, LeaveLoop, Join, CleanQueues, Interrupt, Main
<1>3. CASE CreateRunner \/ InitDisplay \/ InitCamera
  BY <1>3 DEF CreateRunner, InitDisplay, InitCamera
<1>4. CASE CreateThread
  BY <1>4, ThreadNames DEF CreateThread, Main
<1>5. CASE \E t \in Threads : Thread(t)
  BY <1>5 DEF Thread, Loop, End, Goto
<1>6. CASE Capture \/ Infer \/ Draw \/ Release \/ UNCHANGED vars
  BY <1>6 DEF Capture, Infer, Draw, Release, vars, process
<1> QED  BY <1>1, <1>2, <1>3, <1>4, <1>5, <1>6 DEF Next

(* The whole process keeps its types for any model and any numbers of      *)
(* buffers: in the camera no buffer is in more packets than there are      *)
(* buffers, and in the display the rotation stays within the buffers.      *)
THEOREM TypeCorrect == Spec => []TypeOK
<1>1. Init => ProcessTypes
  BY DEF Init, ProcessTypes
<1>2. Init => R!TypeOK
  <2>1. 1 \in DOMAIN R!Calls
    BY DEF R!Calls
  <2> QED  BY <2>1 DEF Init, R!Init, R!TypeOK
<1>3. VP!Spec => []VP!TypeOK
  BY VP!TypeCorrect, CameraBuffers
<1>4. DP!Spec => []DP!TypeOK
  BY DP!TypeCorrect, DisplayBuffers
<1>5. VP!TypeOK => V!TypeOK
  BY DEF V!TypeOK, VP!TypeOK, V!Bufs, VP!Bufs, V!Fds, VP!Fds, V!Stdin, VP!Stdin, V!Exported, VP!Exported
<1>6. DP!TypeOK => D!TypeOK
  BY DEF D!TypeOK, DP!TypeOK, D!Bufs, DP!Bufs, D!Calls, DP!Calls, D!Objects, DP!Objects
<1>7. ProcessTypes /\ R!TypeOK /\ D!TypeOK /\ V!TypeOK => TypeOK
  BY DEF ProcessTypes, TypeOK
<1> QED
  BY <1>1, <1>2, <1>3, <1>4, <1>5, <1>6, <1>7, ProcessTyped, RunnerTyped, CameraStarts, CameraRefined,
     DisplayStarts, DisplayRefined, DevicesAssumption, PTL DEF Spec, VP!Spec, DP!Spec
=============================================================================
