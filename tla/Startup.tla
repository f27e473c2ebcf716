------------------------------ MODULE Startup ------------------------------
(***************************************************************************)
(* The life of the process: main in src/main.cpp brings up the serial      *)
(* port, the runner, the screen and the camera, makes the queues, starts   *)
(* four threads, joins them after SIGINT and tears the queues down.  The   *)
(* devices are the components RknnRunner, DrmDisplay and VideoDevice.      *)
(*                                                                         *)
(* A thread is its loop: it tests main_loop_run at the top and then does   *)
(* any of the steps on devices its body has; what passes through the       *)
(* queues is FramePipe's and ResultPipe's business.                        *)
(***************************************************************************)
EXTENDS Integers, Sequences, FiniteSets

CONSTANTS
  NIn, NOut,          \* RknnRunner
  Scanouts, NoBuf,    \* DrmDisplay's BufCount
  CamBufs, CamMost,   \* VideoDevice's BufCount and MostBufs
  Unset

VARIABLES
  pc,      \* where main is
  serial,  \* the port: none, ready, closed
  handled, \* sig_proc is installed
  run,     \* main_loop_run
  queues,  \* none, ready, cleaned
  thr,     \* of each thread: none, absent (not created), top, in, done
  rphase, rcall, cell, unsetUsed,                             \* RknnRunner
  phase, call, object, zpos, buf, made, index, content, front, refused,
                                                              \* DrmDisplay
  vstep, kind, granted, nBufs, fdOf, driver, streaming, out, closed, wild,
  trouble                                                     \* VideoDevice

R == INSTANCE RknnRunner WITH wild <- unsetUsed
D == INSTANCE DrmDisplay WITH BufCount <- Scanouts
V == INSTANCE VideoDevice WITH BufCount <- CamBufs, MostBufs <- CamMost

ASSUME DevicesAssumption ==
  R!IoAssumption /\ D!BufCountAssumption /\ V!BufCountAssumption

process == <<pc, serial, handled, run, queues, thr>>
runner == <<rphase, rcall, cell, unsetUsed>>
display == <<phase, call, object, zpos, buf, made, index, content, front, refused>>
camera == <<vstep, kind, granted, nBufs, fdOf, driver, streaming, out, closed,
            wild, trouble>>
vars == <<process, runner, display, camera>>

(* In the order main creates them.                                         *)
Creation == <<"v4l2", "rknn", "disp", "uart">>
Threads == {Creation[i] : i \in DOMAIN Creation}

Init ==
  /\ pc = "board" /\ serial = "none" /\ handled = FALSE /\ run = TRUE
  /\ queues = "none" /\ thr = [t \in Threads |-> "none"]
  /\ R!Init /\ D!Init /\ V!Init
-----------------------------------------------------------------------------
(* main goes from one place to another and touches no device.              *)
Main(from, to) ==
  /\ pc = from
  /\ pc' = to
  /\ UNCHANGED <<runner, display, camera>>

CheckBoard ==
  /\ Main("board", "serial") \/ Main("board", "return")
  /\ UNCHANGED <<serial, handled, run, queues, thr>>

(* serial_init closes the descriptor again if a call after open fails.     *)
OpenSerial ==
  /\ \/ Main("serial", "rga") /\ serial' = "ready"
     \/ Main("serial", "return") /\ serial' \in {"none", "closed"}
  /\ UNCHANGED <<handled, run, queues, thr>>

(* The greeting is sent, then c_RkRgaInit.                                 *)
InitRga ==
  /\ Main("rga", "runner") \/ Main("rga", "return")
  /\ UNCHANGED <<serial, handled, run, queues, thr>>

CreateRunner ==
  /\ pc = "runner"
  /\ R!CreateCall \/ R!CreateFails
  /\ pc' = IF rphase' = "create" THEN "runner" ELSE "signal"
  /\ UNCHANGED <<serial, handled, run, queues, thr, display, camera>>

InstallHandler ==
  /\ Main("signal", "display")
  /\ handled' = TRUE
  /\ UNCHANGED <<serial, run, queues, thr>>

InitDisplay ==
  /\ pc = "display"
  /\ D!Setup
  /\ pc' = CASE phase' = "exit" -> "return"
             [] phase' = "idle" -> "camera"
             [] OTHER -> "display"
  /\ UNCHANGED <<serial, handled, run, queues, thr, runner, camera>>

(* The result of v4l2_device_init is ignored.                              *)
InitCamera ==
  /\ pc = "camera"
  /\ V!Setup
  /\ pc' = IF vstep' \in {"live", "failed"} THEN "queues" ELSE "camera"
  /\ UNCHANGED <<serial, handled, run, queues, thr, runner, display>>

InitQueues ==
  /\ Main("queues", "threads")
  /\ queues' = "ready"
  /\ UNCHANGED <<serial, handled, run, thr>>

(* pthread_create, whose result is ignored.                                *)
CreateThread ==
  \E i \in DOMAIN Creation :
    /\ thr[Creation[i]] = "none" /\ \A j \in 1 .. i - 1 : thr[Creation[j]] # "none"
    /\ Main("threads", IF i = Len(Creation) THEN "loop" ELSE "threads")
    /\ thr' \in {[thr EXCEPT ![Creation[i]] = s] : s \in {"top", "absent"}}
    /\ UNCHANGED <<serial, handled, run, queues>>

LeaveLoop ==
  /\ ~run /\ Main("loop", "join")
  /\ UNCHANGED <<serial, handled, run, queues, thr>>

(* Joining a thread that was never created is undefined: the process may   *)
(* die of it or go on.                                                     *)
JoinThree ==   \* mutant: the uart thread is not joined
  /\ \A t \in Threads \ {"uart"} : thr[t] = "done"
  /\ Main("join", "cleanup")
  /\ UNCHANGED <<serial, handled, run, queues, thr>>

Join ==
  /\ \A t \in Threads : thr[t] \in {"done", "absent"}
  /\ \/ Main("join", "cleanup")
     \/ (\E t \in Threads : thr[t] = "absent") /\ Main("join", "killed")
  /\ UNCHANGED <<serial, handled, run, queues, thr>>

CleanQueues ==
  /\ Main("cleanup", "return")
  /\ queues' = "cleaned"
  /\ UNCHANGED <<serial, handled, run, thr>>

(* SIGINT ends the process until the handler is installed.                 *)
Interrupt ==
  /\ run
  /\ IF handled THEN run' = FALSE /\ UNCHANGED pc ELSE pc' = "killed" /\ UNCHANGED run
  /\ UNCHANGED <<serial, handled, queues, thr, runner, display, camera>>
-----------------------------------------------------------------------------
Goto(t, from, to) ==
  /\ thr[t] = from
  /\ thr' = [thr EXCEPT ![t] = to]
  /\ UNCHANGED <<pc, serial, handled, run, queues>>

(* The loops, which end with the device they are in charge of.             *)
Loop(t) ==
  \/ run /\ Goto(t, "top", "in") /\ UNCHANGED <<runner, display, camera>>
  \/ Goto(t, "in", "top") /\ (t = "disp" => phase = "idle")
     /\ UNCHANGED <<runner, display, camera>>

End(t) ==
  /\ ~run
  /\ Goto(t, "top", "done")
  /\ IF t = "v4l2" THEN V!Destroy ELSE UNCHANGED camera
  /\ IF t = "rknn" THEN R!Destroy ELSE UNCHANGED runner
  /\ UNCHANGED display

Capture ==
  /\ thr["v4l2"] = "in"
  /\ V!Read
  /\ UNCHANGED <<process, runner, display>>

Infer ==
  /\ thr["rknn"] = "in"
  /\ R!Process
  /\ UNCHANGED <<process, display, camera>>

Draw ==
  /\ thr["disp"] = "in"
  /\ D!Frame
  /\ UNCHANGED <<process, runner, camera>>

(* The last reference to a packet is dropped by either of its consumers or *)
(* by the v4l2 thread itself.                                              *)
Release ==
  /\ \E t \in {"v4l2", "rknn", "disp"} : thr[t] = "in"
  /\ \E b \in V!Bufs : V!Unref(b)
  /\ UNCHANGED <<process, runner, display>>

Thread(t) == Loop(t) \/ End(t)

Next ==
  /\ pc \notin {"killed", "return"}
  /\ \/ CheckBoard \/ OpenSerial \/ InitRga \/ CreateRunner \/ InstallHandler
     \/ InitDisplay \/ InitCamera \/ InitQueues \/ CreateThread
     \/ LeaveLoop \/ Join \/ CleanQueues \/ Interrupt
     \/ (\E t \in Threads : Thread(t))
     \/ Capture \/ Infer \/ Draw \/ Release

Spec == Init /\ [][Next]_vars
-----------------------------------------------------------------------------
Active == {t \in Threads : thr[t] \in {"top", "in"}}

TypeOK ==
  /\ pc \in {"board", "serial", "rga", "runner", "signal", "display", "camera", "queues",
             "threads", "loop", "join", "cleanup", "return", "killed"}
  /\ serial \in {"none", "ready", "closed"} /\ handled \in BOOLEAN /\ run \in BOOLEAN
  /\ queues \in {"none", "ready", "cleaned"}
  /\ thr \in [Threads -> {"none", "absent", "top", "in", "done"}]
  /\ R!TypeOK /\ D!TypeOK /\ V!TypeOK

(* drmInit keeps all it needs or only the descriptor (DrmDisplay), also    *)
(* when SIGINT comes in between, when a later scanout buffer fails and     *)
(* when main goes on to the next device.                                   *)
ObjectsAccounted == D!ObjectsAccounted

(* Whatever is on the screen is a whole frame (DrmDisplay), from the first *)
(* commit to the end of the process.                                       *)
ScreenWhole == D!ScreenWhole

(* rknn_runner_create and rknn_runner_destroy give back what was acquired  *)
(* (RknnRunner), although main carries on without a runner and the thread  *)
(* destroys what main created.                                             *)
RunnerReleased == R!GivenBack

(* A packet's buffer goes back to the driver as itself (VideoDevice), from *)
(* whichever thread drops the last reference, and also after init has      *)
(* failed half way and main has gone on.                                   *)
OwnBufferReturned == V!OwnBufferReturned

(* main does not look at the result of v4l2_device_init: the capture       *)
(* thread starts all the same.  Whatever is wrong with the device it reads *)
(* has a cause among the calls that failed (VideoDevice), and in a device  *)
(* without one every buffer keeps circulating, whoever releases it.        *)
CameraReady == "v4l2" \in Active => V!Circulates

(* Every thread finds what it uses brought up and not yet torn down: the   *)
(* port, the queues, complete scanout buffers, the runner or NULL.  The    *)
(* camera may go under the other threads' feet, but only after SIGINT.     *)
(* When main returns from a full life the threads have given back the      *)
(* runner and the camera, unless the thread in charge was never created.   *)
LifetimesNested ==
  /\ Active # {} =>
       /\ serial = "ready" /\ handled /\ queues = "ready"
       /\ phase \in {"idle", "draw"} /\ D!BuffersComplete
  /\ "rknn" \in Active => rphase \in {"ready", "null"}
  /\ "v4l2" \in Active => vstep \in {"live", "failed"}
  /\ vstep = "gone" => ~run
  /\ queues = "cleaned" =>
       /\ thr["rknn"] = "done" => rphase \in {"gone", "null"}
       /\ thr["v4l2"] = "done" => vstep = "gone"
=============================================================================
