---------------------------- MODULE ResultPipe ----------------------------
(***************************************************************************)
(* The life of a detection result: src/main.cpp's rknn_runner_post, which  *)
(* makes two copies of each result and posts one to info_queue and one to  *)
(* uart_queue, the disp thread, which overlays results on the preview, and *)
(* the uart thread, which sends them.  Both threads dequeue info_queue;    *)
(* nobody dequeues uart_queue.                                             *)
(*                                                                         *)
(* A group is <<n, use>>: the copy of the n-th result for that use.  It    *)
(* has one owner at a time, who must delete it; `freed` counts deletes.    *)
(* A queue is the bounded FIFO PtrQueue implements.                        *)
(***************************************************************************)
EXTENDS Integers, Sequences, FiniteSets

CONSTANTS
  InfoCap,     \* capacity of info_queue (5)
  UartCap,     \* capacity of uart_queue (10)
  Lifespan,    \* det_lifespan of a new overlay (15)
  MaxResults,  \* bound: results the model runs for
  MaxErrs,     \* bound: frames whose RGA conversion fails
  NoGrp

Uses == {"info", "uart"}
Results == 1 .. MaxResults
Groups == Results \X Uses
Cap == [info |-> InfoCap, uart |-> UartCap]

ASSUME BoundAssumption ==
  /\ InfoCap \in Nat \ {0} /\ UartCap \in Nat \ {0}
  /\ Lifespan \in Nat \ {0}
  /\ MaxResults \in Nat /\ MaxErrs \in Nat
ASSUME NoGrpAssumption == NoGrp \notin Groups

VARIABLES
  run,        \* main_loop_run
  pc,         \* of the rknn, disp and uart threads
  made,       \* results produced so far; the current one while posting
  objects,    \* the results that hold at least one object (count > 0)
  queue,      \* info_queue and uart_queue
  newGrp, detGrp, life,  \* disp: new_grp, det_grp and det_lifespan
  uartGrp,    \* uart: new_grp
  freed,      \* how often each group was deleted
  leaked,     \* groups whose last pointer was dropped
  draws,      \* frames the current overlay was drawn on
  sent, drawn,\* results that went out on the serial port, on the screen
  errs

screen == <<newGrp, detGrp, life, draws, drawn>>
memory == <<freed, leaked>>
vars == <<run, pc, made, objects, queue, screen, uartGrp, memory, sent, errs>>

Init ==
  /\ run = TRUE
  /\ pc = [rknn |-> "top", disp |-> "top", uart |-> "top"]
  /\ made = 0 /\ objects = {}
  /\ queue = [u \in Uses |-> <<>>]
  /\ newGrp = NoGrp /\ detGrp = NoGrp /\ life = Lifespan
  /\ uartGrp = NoGrp
  /\ freed = [g \in Groups |-> 0] /\ leaked = {}
  /\ draws = 0 /\ sent = {} /\ drawn = {}
  /\ errs = 0
-----------------------------------------------------------------------------
At(t, label) == pc[t] = label
Goto(t, label) == pc' = [pc EXCEPT ![t] = label]

(* A thread tests main_loop_run at the top of its loop only: what it began *)
(* before SIGINT it finishes.                                              *)
Begin(t) ==
  /\ At(t, "top") /\ run
  /\ Goto(t, "in")
  /\ UNCHANGED <<run, made, objects, queue, screen, uartGrp, memory, sent, errs>>

(* `continue`: no frame came, or the rknn thread got no result from it.    *)
Skip(t) ==
  /\ At(t, "in")
  /\ Goto(t, "top")
  /\ UNCHANGED <<run, made, objects, queue, screen, uartGrp, memory, sent, errs>>

Stop(t) ==
  /\ At(t, "top") /\ ~run
  /\ Goto(t, "done")
  /\ UNCHANGED <<run, made, objects, queue, screen, uartGrp, memory, sent, errs>>

(* The rknn thread: a processed frame gives a result, with objects or not, *)
(* in two copies.                                                          *)
Detect ==
  /\ At("rknn", "in")
  /\ made < MaxResults
  /\ made' = made + 1
  /\ objects' \in {objects, objects \cup {made + 1}}
  /\ Goto("rknn", "info")
  /\ UNCHANGED <<run, queue, screen, uartGrp, memory, sent, errs>>

AfterPost(u) == IF u = "info" THEN "uart" ELSE "top"

(* Mutants: a full queue takes one more; one copy is posted twice.         *)
PostUnbounded(u) ==
  /\ At("rknn", u)
  /\ queue' = [queue EXCEPT ![u] = Append(@, <<made, u>>)]
  /\ Goto("rknn", AfterPost(u))
  /\ UNCHANGED <<run, made, objects, screen, uartGrp, memory, sent, errs>>

PostShared(u) ==
  /\ At("rknn", u)
  /\ Len(queue[u]) < Cap[u]
  /\ queue' = [queue EXCEPT ![u] = Append(@, <<made, "info">>)]
  /\ Goto("rknn", AfterPost(u))
  /\ UNCHANGED <<run, made, objects, screen, uartGrp, memory, sent, errs>>

Post(u) ==
  /\ At("rknn", u)
  /\ Len(queue[u]) < Cap[u]
  /\ queue' = [queue EXCEPT ![u] = Append(@, <<made, u>>)]
  /\ Goto("rknn", AfterPost(u))
  /\ UNCHANGED <<run, made, objects, screen, uartGrp, memory, sent, errs>>

(* Mutant: the post gives up without waiting for room.                     *)
PostTriesOnce(u) ==
  /\ At("rknn", u)
  /\ leaked' = leaked \cup {<<made, u>>}
  /\ Goto("rknn", AfterPost(u))
  /\ UNCHANGED <<run, made, objects, queue, screen, uartGrp, freed, sent, errs>>

(* The enqueue timed out; its result is ignored and the copy forgotten.    *)
PostTimesOut(u) ==
  /\ At("rknn", u)
  /\ Len(queue[u]) >= Cap[u]
  /\ leaked' = leaked \cup {<<made, u>>}
  /\ Goto("rknn", AfterPost(u))
  /\ UNCHANGED <<run, made, objects, queue, screen, uartGrp, freed, sent, errs>>
-----------------------------------------------------------------------------
(* Mutants: the group stays queued; the newest comes first; a single group *)
(* counts as none.                                                         *)
TakeInfoPeek(grp) ==
  /\ grp' = IF queue["info"] = <<>> THEN NoGrp ELSE Head(queue["info"])
  /\ UNCHANGED queue

TakeInfoNewest(grp) ==
  LET q == queue["info"] IN
  IF q = <<>> THEN grp' = NoGrp /\ UNCHANGED queue
  ELSE /\ grp' = q[Len(q)]
       /\ queue' = [queue EXCEPT !["info"] = SubSeq(q, 1, Len(q) - 1)]

TakeInfoOfTwo(grp) ==
  LET q == queue["info"] IN
  IF Len(q) < 2 THEN grp' = NoGrp /\ UNCHANGED queue
  ELSE grp' = Head(q) /\ queue' = [queue EXCEPT !["info"] = Tail(q)]

(* ptr_queue_dequeue(&info_queue, 10): the oldest group, or NULL.          *)
TakeInfo(grp) ==
  \/ /\ queue["info"] # <<>>
     /\ grp' = Head(queue["info"])
     /\ queue' = [queue EXCEPT !["info"] = Tail(@)]
  \/ /\ queue["info"] = <<>>
     /\ grp' = NoGrp
     /\ UNCHANGED queue

(* The frees of one step: delete of NULL does nothing.                     *)
Delete(grps) ==
  freed' = [g \in Groups |-> IF g \in grps THEN freed[g] + 1 ELSE freed[g]]

(* Mutant: a frame without a new result is skipped.                        *)
DispTakeOnlyNew ==
  /\ At("disp", "in")
  /\ TakeInfo(newGrp)
  /\ Goto("disp", IF queue["info"] = <<>> THEN "top" ELSE "show")
  /\ UNCHANGED <<run, made, objects, detGrp, life, draws, drawn, uartGrp,
                 memory, sent, errs>>

(* The disp thread, once it has a frame, looks for a new result.           *)
DispTake ==
  /\ At("disp", "in")
  /\ TakeInfo(newGrp)
  /\ Goto("disp", "show")
  /\ UNCHANGED <<run, made, objects, detGrp, life, draws, drawn, uartGrp,
                 memory, sent, errs>>

(* A conversion failed: goto release_buffer, and new_grp goes out of scope.*)
DispFails ==
  /\ At("disp", "show")
  /\ errs < MaxErrs
  /\ errs' = errs + 1
  /\ leaked' = leaked \cup ({newGrp} \ {NoGrp})
  /\ newGrp' = NoGrp
  /\ Goto("disp", "top")
  /\ UNCHANGED <<run, made, objects, queue, detGrp, life, draws, drawn, uartGrp,
                 freed, sent>>

(* Mutant: a new overlay inherits the lifespan of the one it replaces.     *)
DispShowNoReset ==
  LET fresh == newGrp # NoGrp
      grp == IF fresh THEN newGrp ELSE detGrp
      age == life - 2
      shown == IF fresh THEN 0 ELSE draws
      ended == grp # NoGrp /\ age <= 0 IN
  /\ At("disp", "show")
  /\ newGrp' = NoGrp
  /\ detGrp' = IF ended THEN NoGrp ELSE grp
  /\ life' = IF grp = NoGrp THEN life ELSE age
  /\ Delete((IF fresh THEN {detGrp} ELSE {}) \cup (IF ended THEN {grp} ELSE {}))
  /\ draws' = IF grp = NoGrp \/ ended THEN shown ELSE shown + 1
  /\ drawn' = IF grp = NoGrp \/ ended THEN drawn ELSE drawn \cup {grp[1]}
  /\ Goto("disp", "top")
  /\ UNCHANGED <<run, made, objects, queue, uartGrp, leaked, sent, errs>>

(* A new result replaces the overlay; the overlay ages by two per frame    *)
(* and is deleted or drawn.                                                *)
DispShow ==
  LET fresh == newGrp # NoGrp
      grp == IF fresh THEN newGrp ELSE detGrp
      age == (IF fresh THEN Lifespan ELSE life) - 2
      shown == IF fresh THEN 0 ELSE draws
      ended == grp # NoGrp /\ age <= 0 IN
  /\ At("disp", "show")
  /\ newGrp' = NoGrp
  /\ detGrp' = IF ended THEN NoGrp ELSE grp
  /\ life' = IF grp = NoGrp THEN life ELSE age
  /\ Delete((IF fresh THEN {detGrp} ELSE {}) \cup (IF ended THEN {grp} ELSE {}))
  /\ draws' = IF grp = NoGrp \/ ended THEN shown ELSE shown + 1
  /\ drawn' = IF grp = NoGrp \/ ended THEN drawn ELSE drawn \cup {grp[1]}
  /\ Goto("disp", "top")
  /\ UNCHANGED <<run, made, objects, queue, uartGrp, leaked, sent, errs>>
-----------------------------------------------------------------------------
(* The uart thread.                                                        *)
UartTake ==
  /\ At("uart", "in")
  /\ TakeInfo(uartGrp)
  /\ Goto("uart", "send")
  /\ UNCHANGED <<run, made, objects, screen, memory, sent, errs>>

(* detect_result_to_serialport writes nothing for a group without objects. *)
UartSend ==
  /\ At("uart", "send")
  /\ sent' = IF uartGrp # NoGrp /\ uartGrp[1] \in objects
             THEN sent \cup {uartGrp[1]} ELSE sent
  /\ Delete({uartGrp})
  /\ uartGrp' = NoGrp
  /\ Goto("uart", "top")
  /\ UNCHANGED <<run, made, objects, queue, screen, leaked, errs>>

Interrupt ==
  /\ run
  /\ run' = FALSE
  /\ UNCHANGED <<pc, made, objects, queue, screen, uartGrp, memory, sent, errs>>

(* What the rknn thread does of its own; Detect takes a result.            *)
Infer == Begin("rknn") \/ Skip("rknn") \/ (\E u \in Uses : Post(u) \/ PostTimesOut(u)) \/ Stop("rknn")
Display == Begin("disp") \/ Skip("disp") \/ DispTake \/ DispFails \/ DispShow \/ Stop("disp")
Serial == Begin("uart") \/ UartTake \/ UartSend \/ Stop("uart")

Next == Infer \/ Detect \/ Display \/ Serial \/ Interrupt

Spec == Init /\ [][Next]_vars

(* Frames keep reaching the disp thread, which then looks for a result.    *)
FramesKeepComing == SF_vars(DispTake)

(* Besides, the threads are scheduled; nothing obliges the model to produce *)
(* results, RGA to fail or the user to interrupt.                           *)
Fairness ==
  /\ WF_vars(Infer) /\ WF_vars(Display) /\ WF_vars(Serial)
  /\ FramesKeepComing

FairSpec == Spec /\ Fairness
-----------------------------------------------------------------------------
TypeOK ==
  /\ run \in BOOLEAN
  /\ pc \in [{"rknn", "disp", "uart"}
               -> {"top", "in", "info", "uart", "show", "send", "done"}]
  /\ made \in 0 .. MaxResults /\ objects \subseteq 1 .. made
  /\ queue \in [Uses -> Seq(Groups)]
  /\ \A u \in Uses : Len(queue[u]) <= Cap[u]
  /\ {newGrp, detGrp, uartGrp} \subseteq Groups \cup {NoGrp}
  /\ life \in Int /\ draws \in Nat
  /\ freed \in [Groups -> Nat] /\ leaked \subseteq Groups
  /\ sent \subseteq Results /\ drawn \subseteq Results
  /\ errs \in 0 .. MaxErrs

Queued(g) == Cardinality({i \in DOMAIN queue[g[2]] : queue[g[2]][i] = g})

One(b) == IF b THEN 1 ELSE 0

InHand(g) ==
  g[1] = made /\ (At("rknn", "info") \/ (At("rknn", "uart") /\ g[2] = "uart"))

(* Every copy of a result has exactly one owner (the poster, a queue, a    *)
(* thread), or was deleted exactly once, or is one of the leaked ones: no  *)
(* double delete, no use after delete, whichever of the two threads that   *)
(* drain info_queue got it.                                                *)
GroupOwned ==
  \A g \in Groups : g[1] <= made =>
    One(InHand(g)) + Queued(g) + One(newGrp = g) + One(detGrp = g)
      + One(uartGrp = g) + freed[g] + One(g \in leaked) = 1

(* An overlay is drawn on (Lifespan - 1) \div 2 frames at most - seven, as *)
(* the counter is decremented twice - and one that is not replaced on      *)
(* exactly as many.                                                        *)
FullAge == (Lifespan - 1) \div 2

OverlayLifetime ==
  [][/\ draws' <= FullAge
     /\ detGrp # NoGrp /\ detGrp' = NoGrp => draws = FullAge]_vars

(* The overlay never goes back to an older result.                         *)
OverlayAdvances ==
  [][detGrp # NoGrp /\ detGrp' # NoGrp => detGrp'[1] >= detGrp[1]]_vars

(* A result goes to the screen or to the serial port, never to both, for   *)
(* the two threads share one queue.                                        *)
OneOutputPerResult == drawn \cap sent = {}

(* What the leaks add up to: an info copy for each failed frame at most,   *)
(* and no more for a full queue than results made beyond its capacity; a   *)
(* uart copy only once uart_queue is full, which holds the first results,  *)
(* for nobody reads it.                                                    *)
LeaksCounted ==
  /\ Cardinality({g \in leaked : g[2] = "info"})
       <= errs + (IF made > InfoCap THEN made - InfoCap ELSE 0)
  /\ \A g \in leaked : g[2] = "uart" => Len(queue["uart"]) = UartCap
  /\ \A i \in DOMAIN queue["uart"] : queue["uart"][i] = <<i, "uart">>

(* No copy of a result is leaked without a cause: it is the one the disp   *)
(* thread holds when a frame fails, or the one just made, and then its     *)
(* queue is full of copies of older results.  No step makes them add up to *)
(* more than LeaksCounted.                                                 *)
LeaksExplained ==
  [][/\ LeaksCounted'
     /\ \A g \in leaked' \ leaked :
          \/ g = newGrp /\ errs' = errs + 1
          \/ /\ g[1] = made /\ Len(queue[g[2]]) = Cap[g[2]]
             /\ \A i \in DOMAIN queue[g[2]] : queue[g[2]][i][1] < made]_vars

(* Results do not pile up: while the program runs each queued info group   *)
(* is taken, and an overlay ends or is replaced.                           *)
InfoConsumed ==
  \A n \in Results : Queued(<<n, "info">>) > 0 ~> (Queued(<<n, "info">>) = 0 \/ ~run)

OverlayEnds ==
  \A n \in Results : detGrp = <<n, "info">> ~> (detGrp # <<n, "info">> \/ ~run)

(* "Serialport output" (src/README.md): each result with objects that was  *)
(* made is written to the serial port, unless the program is stopped.      *)
EveryResultSent ==
  \A n \in Results : n \in objects ~> (n \in sent \/ ~run)
=============================================================================
