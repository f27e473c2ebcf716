# yolocam in TLA+

yolocam is a camera application for an RV1106 board: frames come from a V4L2 device, are converted by the RGA
for the screen (DRM) and for a YOLO model on the NPU, and the detected objects are drawn over the preview and
written to a serial port. This directory holds TLA+ models of it, the configurations TLC checks them with, and
proofs checked by TLAPS. Paths are relative to the repository root (`src/` there is `src/src/` in the map).

## 1. Inventory

The program is what `CMakeLists.txt` compiles: `main.cpp`, `rkdrm_display.c`, `rknn_runner.cpp`,
`postprocess.cc`, `allocator/dma_alloc.cpp` (unused), `serial_comm.c`, `image_pkt.c`, `ptr_queue.c`,
`v4l2_device.c`. Not compiled: `rxi_ini.c`, `yolocam_config.c`, `drm_alloc.cpp`, `draw_utils.c`, `osd_draw.c`
(empty). `include/`, `packages/`, `hardware/` and `model/` are vendored code and assets.

| Component | State | Operations | What makes it correct |
|---|---|---|---|
| `ptr_queue` | ring, front, rear, size, mutex, two condition variables | init, enqueue and dequeue with a deadline, cleanup | it is a bounded FIFO for any number of callers; no lost wakeup; every call returns |
| frame pipeline (`main.cpp`, `image_pkt.c`) | packets with `ref_count`, `disp_queue` (4), `rknn_queue` (2), `main_loop_run` | capture, publish, convert, unref, SIGINT, joins | counts equal references; nobody reads a released frame; buffers return to the driver; the preview goes on; the program ends |
| `v4l2_device` | fd, mapped and exported buffers, those queued at the driver | create, init, read (DQBUF), release callback (QBUF), destroy | each buffer has one owner; nothing uses the device once destroyed |
| result pipeline (`main.cpp`) | `info_queue` (5), `uart_queue` (10), `det_grp`, `det_lifespan` | post, overlay, send | each group has one owner and is deleted once; overlays age; results reach screen and serial port |
| `postprocess` | labels, `static init` | collect, sort, suppress, emit | the reported group is the definition applied to the tensors |
| `rkdrm_display` | descriptor, plane, crtc, connector, two dumb buffers | init, commit | error paths free each object they free once (the descriptor is none of them); the buffer drawn on is not on screen |
| `rknn_runner` | context, attributes, tensor memories | create, process, destroy | what create fails on is released once; nothing unset is freed |
| `serial_comm` | fd, mutex | init, send, receive, close | a message is written whole; failed init leaves no descriptor |
| startup (`main`) | `main_loop_run`, the devices, four threads | board check, initializations in order, thread creation, joins, cleanup | each thread finds what it uses up and not yet torn down; what fails half way is accounted for |

Interaction. Four threads and main. The v4l2 thread creates a packet for each frame, takes a reference and
enqueues it for the disp thread, then the same for the rknn thread. Those convert it and drop their reference;
the last `image_pkt_unref` calls the device's release callback. The rknn thread's callback `rknn_runner_post`
makes two copies of each result, one to `info_queue` and one to `uart_queue`. The disp thread and the uart
thread both dequeue `info_queue`. SIGINT clears `main_loop_run`; main joins the threads.

Hard behaviours: deadlines racing signals in the queue; a reference taken after publication; error paths that
skip the unref; buffers running out; a device destroyed while packets live; two threads sharing one result
queue; arrays permuted in place. `PROJECT.json` lists each as a hazard at its line, with the properties that
cover it.

## 2. Modules

| Module | Models | Uses |
|---|---|---|
| `BoundedFifo` | what a `ptr_queue_t` promises (abstract) | |
| `PtrQueue` | `ptr_queue.c`, statement by statement where threads interleave | implements `BoundedFifo` |
| `PtrQueueProofs` | theorems about `PtrQueue` | `PtrQueue`, TLAPS |
| `FramePipe` | v4l2, rknn and disp threads, `image_pkt.c`, buffer exchange of `v4l2_device.c` | queues as `BoundedFifo` describes them |
| `ResultPipe` | `rknn_runner_post`, overlay, uart thread | same |
| `Postprocess` | `postprocess.cc` | |
| `DrmDisplay` | `rkdrm_display.c`, the disp thread's rotation of buffers | |
| `RknnRunner` | memory of `rknn_runner.cpp`: create, process, release | |
| `VideoDevice` | `v4l2_device.c` from create to destroy | |
| `SmartCam` | the running program: the four threads with frames and results | composes `FramePipe` and `ResultPipe`, implements `ResultPipe` |
| `Startup` | the life of the process: `main`, `serial_init`, the threads' lifetimes | composes `RknnRunner`, `DrmDisplay`, `VideoDevice` |
| `FramePipeProofs`, `ResultPipeProofs` | theorems about the two pipelines | `FramePipe`, `ResultPipe`, TLAPS |
| `SmartCamProofs` | the composition implements both pipelines; their theorems carried over to it | `SmartCam`, the two above |
| `PostprocessProofs` | theorems about `postprocess.cc` | `Postprocess`, TLAPS |
| `DrmDisplayProofs`, `VideoDeviceProofs` | theorems about the two devices | `DrmDisplay`, `VideoDevice`, TLAPS |
| `StartupProofs` | theorems about `Startup`, and the devices' theorems carried over to it | `Startup`, the two above |
| `MC...` | values, symmetry and views for TLC | |

**PtrQueue.** One variable per field, a `pc` per thread. `CallEnqueue`/`CallDequeue` compute the deadline and go
to `pthread_mutex_lock`; `Acquire` is that call and the re-acquisition inside `pthread_cond_timedwait`; `Test` is
the `while` condition; `Park` releases the mutex and waits; a signal moves a waiter to `woken`; `Expire` is a
wait that ended by its deadline, after which `GiveUp` returns without testing again, as the code does (lines
30-33, 54-58); `SpuriousWake` may end any wait. `Enqueue`/`Dequeue` are the rest of the critical section.
The clock is one flag per call (`late`); the arithmetic of the deadline is the operators `Deadline...`.

**Queues in the other modules** are sequences with atomic operations. A refused enqueue happens there when the
queue is full (an empty dequeue when it is empty), although in the code the return comes later. That is sound:
a call can time out only after its thread parked, when the queue was full (`DecisionStable`), and between that
moment and the return the thread does nothing else, so the refusal can be moved to it.

**FramePipe.** A packet is a chunk of the heap (`live`), with `rc` and `fd`; a thread is at a label of its loop.
`ref_count` changes are atomic in the code (`__sync_...`), so each is one action. `Release` is the callback's
QBUF and the `free` in one step: nothing another thread sees depends on their order. `errno_exit` only
logs, so a failed QBUF leaves the buffer with nobody. `ConvertFails` stands for the seven `goto release_buffer`,
all of which skip `image_pkt_unref`; after `DestroyDevice` it needs no failing RGA, the exported descriptor is
closed. `stale` records the use of a packet after its last reference was dropped. From there the build may do
anything, so properties speak of states with `Sound` only, and TLC stops exploring there (`UntilStale`).

**ResultPipe.** A group is the copy of the n-th result for one of two uses. `freed` and `leaked` are history.
`DispShow` is all of lines 384-428, with both decrements. `sent` and `drawn` say where results went.

**Postprocess.** Integers for quantized values; products and ratios are compared exactly, so float rounding is
not modelled. `Collect` is one step; the quicksort runs as its own steps (`Pop`, `ScanRight`, `ScanLeft`,
`Place`), the recursion as a stack; `Suppress` is one pass of `nms`; `Emit` fills the group. The loops that append
(`InOrder`, `Collected`) are recursive functions. `QuantAssumption` says that the confidences and class probabilities
in the tensors dequantize to 0..1, as sigmoids do. It is needed: with larger class probabilities the int8
prefilter on the confidence alone could drop a cell whose product passes. Each of the three tensors has its own zero
point and scale (`Zp`, `Scale`), and so its own int8 threshold (`Thres`). Boxes are clamped to the size main passes,
640 (`InputSize`), and scaled by the sizes the runner read from the model (`ModelWidth`, `ModelHeight`): a model smaller
than 640 gives boxes past the border of the screen. `CellAssumption` gives a cell its int8
values, at least one class and a box without negative sides; `RawAssumption` says that `Raw`, the group nobody has
cleared, is no list of results.

**DrmDisplay.** `drmInit` is the sequence `Calls`; each succeeds (`InitCall`) or fails (`InitFails`, which frees
what the labels free), the last one, `SetZpos`, apart because its failure returns 0. The objects include the
descriptor of `drmOpen`, which none of the labels or early returns closes. `GetBuffer` is one
turn of `drm_display_init`'s loop, cut short after any of `drmGetBuffer`'s calls. `Draw`, `DrawFails` and `Commit`
are the disp thread; a commit blocks until the flip (no `NONBLOCK` flag) or is refused, which nobody notices.

**RknnRunner.** A cell is a pointer or handle the runner keeps: unset (`malloc` does not clear), null, held, freed.
`Calls` lists what `rknn_runner_create` calls, in order, with where a failure goes: some `return NULL` and forget
everything, some `goto release`. `Release` walks all entries of the tables it finds, although only the first
input's memory was created. `wild` collects unset cells used as if they were held. That `rknn_set_io_mem`
refuses a NULL memory is an assumption about the vendor's library.

**VideoDevice.** `Setup` is `v4l2_device_init`, one action per ioctl that matters later; failures of S_FMT,
QUERYBUF and mmap are only logged and leave nothing this module keeps. REQBUFS may grant fewer buffers than asked for,
none, or more (`MostBufs`). Every buffer has its own descriptor, 0
is standard input and what a failed export leaves. `Requeued` is the search by descriptor in the release
callback. `trouble` records which calls failed, `wild` the use of an unset member or of the freed device.

**SmartCam.** Both components share `run`; the rknn thread is `FramePipe`'s consumer and `ResultPipe`'s producer,
the disp thread consumes in both. Each action conjoins the steps of the two components that are one step of the
code, or leaves one component alone. A result comes only after a converted frame was let go (`Infer`); the
overlay's fate is decided by the frame's conversion (`Show`, `ShowFails`); main joins the uart thread too.

**Startup.** `pc` is where `main` is; the devices' actions are taken from their modules. A thread is its loop:
it tests `main_loop_run` at the top, and in its body may take any of the device steps the body has. The queues'
contents are left to `SmartCam`. `Interrupt` before `signal` was called kills the process.

Definitions marked `mutant` are plausible bugs. None is part of a specification; substituting one for the
definition it precedes must make TLC report the property `PROJECT.json` names, which shows that the property
depends on that code.

## 3. Runs

| Run | Question | Bounds | Result |
|---|---|---|---|
| `ptr_queue` | Is the ring consistent, is the mutex always given back, is a decision still true when acted on, is no wakeup lost, is it a FIFO? | 2 producers, 2 consumers, 2 slots, 2 items, symmetric | holds (3.4 M states) |
| `ptr_queue_live` | Does every call return? | 1 producer, 2 consumers (who share `info_queue`), 1 slot | holds |
| `frames` | Do counts equal references, have buffers one owner, is a frame stable while read, is each leak a failure, where can lifetimes break? | 3 buffers, queues of 2 and 1, 5 packets, 1 failure of DQBUF, QBUF or RGA, SIGINT at any time | holds (50 k states up to symmetry) |
| `frames_live` | Does the preview go on, does the program end? | 2 buffers, no failures | holds, see below |
| `frames_npu` | Is a frame in the hands of the NPU thread allocated? | 2 buffers, no failures | **violated** |
| `frames_preview` | Does the preview survive failed conversions? | 2 buffers, 2 failures | **violated** |
| `results` | Has each group one owner, has each leak a cause, do overlays age and advance? | queues of 2 and 1, 4 results, 1 failed frame | holds (2.7 M states) |
| `results_live` | Are results taken, do overlays end? | 2 results | holds |
| `results_serial` | Does each detected result reach the serial port? | 2 results | **violated** |
| `postprocess` | Do collection, sort, suppression and emission meet their definitions? | 5 cells of 9 kinds in three tensors (each input in tensor order), 2 classes, at most 2 results | holds (116 k states) |
| `startup` | What do failed initializations leave behind, what do the threads find, what does teardown meet, what is on the screen? | 1 input, 3 outputs, 2 scanout buffers, 1 camera buffer asked for and 0 to 2 granted, 1 failing call in `rknn_runner_create`, camera, zpos or thread creation besides any failing serial, DRM or RGA call, SIGINT at any time | holds (1.3 M states) |
| `smartcam` | Does the composed program implement `ResultPipe`, with its fairness unless a dead packet is used; does it end? | 1 camera buffer, 2 packets, queues of 1, 2 results, nothing outside fails | holds (212 k states) |

Why the bounds suffice. Two waiters on each side and a ring of two are the smallest system in which a signal can
reach the wrong thread, be overtaken, or be needed twice; the theorems below remove the bound. Three buffers
let one be at each consumer while the driver has one; more packets than buffers plus one private plus one
forgotten packet are never live at once, so `malloc` never blocks in the model. Result queues of two and one are
filled and drained in both orders. Five candidates make the quicksort recurse on both sides with equal scores; the boxes
are a chain of which only neighbours overlap, two reach over the border, and in each tensor confidences lie on both
sides of the threshold. Two camera buffers in `startup` are what a shared descriptor needs to confuse; asking for one and
granting up to two gives none, as many as asked for, and more (some, but fewer than asked for, is a message in the log
and otherwise the same code; the theorems cover it). Two scanout buffers are what the code has; a set of failing exports
counts as one failure. `startup` explores nothing
after the runner used an unset cell (`UntilUndefined`). In `smartcam` one buffer makes every hand-over
happen between the camera and both consumers, and two results let the second overtake a full queue; free chunks
and queued buffers are taken in order (they are alike) and each result has an object (the sends of the others
are in `results`). No step is explored after one that uses a dead packet (`UntilBroken`): the states that step leads to are
in the graph, and from there both properties hold whatever follows, `ProgramEnds` and the fairness of
`ImplementsResults` by their exception, the steps of `ImplementsResults` by a theorem. Without that cut the graph is
too large. Larger instances (2 buffers, 3 packets, 1 result) were checked without liveness.

What the violated runs show.
- `frames_npu`: `main.cpp:203` takes the second reference after the packet was published at line 199. The disp
  thread may have dropped the only reference by then (or the queue refused it, line 200): the packet is requeued
  and freed, and then published to the NPU. The README's diagram (lines 4-6) sends each frame to both.
- `frames_preview`: the `goto release_buffer` of a failed conversion skips `image_pkt_unref`, so each failure
  costs a driver buffer; with none left DQBUF blocks for good.
- `results_serial`: `thread_func_uart` dequeues `info_queue` (line 447), not `uart_queue`: what the disp thread
  takes first is never sent, and `uart_queue` is never read.

Other facts worth knowing, visible in properties that hold:
- `ShutdownCompletes` has an exception, `Stranded`: after SIGINT both consumers may be gone while every buffer
  sits in a frame left in a queue; the v4l2 thread then blocks in DQBUF and main never ends. The state is
  reachable: without the exception TLC finds a behaviour that ends there. So the deadlock of `main.cpp:193` is real, and
  the properties show that it is the only one.
- `ImplementsResults` and `ProgramEnds` share another exception, the use of a dead packet (`F!Sound` no longer holds): the
  late second reference can abort the program in the middle of a frame, even when nothing outside fails. Without the
  exception TLC finds that behaviour.
- `LeaksExplained` says of each step that loses a copy of a result why: a failed frame took it from `info_queue`
  (`main.cpp:381`), or its queue was full of older copies when it was posted (`main.cpp:494-495`). What `uart_queue` holds
  is the first results, for good.
- `InScreen`: a box ends on the screen for models of at least the 640 that main passes (`main.cpp:489`). For smaller ones it may
  end past it, by the ratio of the two; the code then also reads the tensors as the larger grid.
- `FaultOrigin` also records that consumers may call into the destroyed device after SIGINT.
- `OverlayLifetime`: the counter is decremented twice per frame, so an overlay lasts 7 frames, not 15.
- `SurvivorsApart`: `nms` compares the class of the i-th candidate in grid order, not of the i-th in
  sorted order, and never that of the other box. The passes together suppress across classes.
- `RunnerReleased`: where `rknn_runner_create` fails on a query it forgets the context and all it has; where it fails
  on `malloc` before all tables exist it walks pointers that were never set.
- `OwnBufferReturned` and `CameraReady`: main ignores the result of `v4l2_device_init`, so threads run on whatever
  came up. A device init gave up yields no buffer; one it let pass may not stream (STREAMON failed, no buffers),
  may have lost buffers (QBUF was refused) or lack its table (calloc failed), and REQBUFS granting none leaves
  `n_buffers` unset and used. `CameraReady` names each defect's cause and admits no other. With two failed exports two buffers share descriptor 0 and the wrong one is requeued; with one, only
  standard input is closed at the end. The branch for single planar devices is never taken (line 241).
- `LifetimesNested` holds with two exceptions: the camera is destroyed under the consumers' feet, only after SIGINT,
  and what a thread that could not be created was in charge of is never released (`main.cpp:558` ignores the result, and
  joining such a thread is undefined).
- `ObjectsAccounted`: an error return of `drmInit` frees what was acquired, each object once, except the descriptor, which
  no error path closes. After a failed `zpos` it frees everything but the descriptor, the resources twice, and
  returns 0. When a scanout buffer cannot be had main returns with all objects held; `drmDeinit` is never called.
- `ScreenWhole` has an exception, a refused commit: the index moves on, so with two buffers the next frame is
  drawn on the visible one.

## 4. Fairness

- `PtrQueue!Fairness`: threads inside a call run (weak fairness), a deadline passes, a thread that finds the mutex
  free again and again gets it (strong), and a wait past its deadline is not woken for ever in its stead
  (strong). No new call is ever obliged, so `CallsReturn` rests on deadlines and not on partners.
- `FramePipe!Fairness`: each thread runs, and a camera with a queued buffer delivers a frame. Failures and SIGINT
  are never obliged. No fairness is assumed of single steps: weak fairness of a thread's whole step suffices.
- `ResultPipe!FairSpec`: threads run, and the disp thread, which needs a frame before it looks for a result, does so
  again and again (`FramesKeepComing`, strong fairness of `DispTake`); results, failures and SIGINT are not obliged. `Fairness`
  is all of that.
- `SmartCam!FairSpec`: the four threads and main's exit run, the camera fills the buffers it has. That frames keep
  coming is not assumed there: `ImplementsResults` shows that it follows, with the rest of `ResultPipe!Fairness`, for as
  long as no dead packet is used.
- `Startup` has safety properties only.

Deadlock is not checked in the pipeline models and in `Startup`, which stop after SIGINT; it is in the queue and in
`Postprocess`, which serve call after call.

## 5. Proofs

Every safety property of section 3, in state or action form, is a theorem for all values of the constants. Each
rests on an inductive invariant that TLC checked before its proof was written, with one lemma per action or group of
actions. The constants satisfy the `ASSUME`s of the modules, which TLC evaluates on every run.

`PtrQueueProofs`. For every set of threads, every capacity above zero and every set of items, from
`MaxSizeAssumption`, `ThreadsAssumption` (producers and consumers are disjoint and finite, `Free` is no thread) and
`NullAssumption`:
- `TypeCorrect`, `IndicesAgree` (`RingConsistent`), `MutexOwned` (`MutexHeld`), `DecisionsHold` (`DecisionStable`).
  `IndInv` is their conjunction with `DataGiven` (a producer inside a call has an argument in `Items`). `MutexHeld`
  makes `DecisionStable` inductive: while one thread holds the mutex no other changes `size`; that keeps
  `size` within the ring, and with it `rear` and `front` in step.
- `NoWakeupIsLost`: `NoLostWakeup` is preserved by each step given `IndInv`, by counting: a store adds one to
  `size` and one woken consumer, if one was waiting.
- `Refinement`: `Spec => ImplementsFifo`. `Enqueue` maps to `Put`, `Dequeue` to `Take`, `GiveUp` to `Refuse` or `Miss`,
  every other step to a stutter; the lemmas on `Contents` are modular arithmetic on the ring.
- `DeadlineExact`: seconds and nanoseconds denote exactly now plus the timeout, nanoseconds are below 10^9, and the
  product stays below 2^31 for every timeout.

`FramePipeProofs`. For finite sets of buffers and packets (`FiniteAssumption`), any capacities and any bound on failures:
- `ReferencesExact` (`RefsCounted`), `BuffersExclusive` (`BuffersOwned`), `FramesUntouched` (`FrameStable`). While no
  dead packet has been used (`Sound`) the heap is in order (`HeapOK`): `Counted`, the count of each packet is the number
  of its places in the queues, its holders and the references forgotten; `ReleasedOnce`, only the thread that dropped the
  last reference has a packet with count zero; `Private`, nobody knows the packet that is being read into; `OneBuffer`, no
  buffer is in two frames or in a frame and at the driver. `Control` says which packet each label needs. After
  `stale` nothing is claimed, because the program's own rule was broken there (`frames_npu`).
- `FaultsTraced`: `FaultOrigin`, an action property: each step into the undefined starts where it says.
- `LeaksTraced`: `LeaksAreFailures`, from `LeaksBounded`: forgotten packets, buffers and references together are no more
  than the failures so far, until the device is gone.

`ResultPipeProofs`. For any number of results, any capacities, any bound on failures:
- `CopiesOwned` (`GroupOwned`), `OutputsDisjoint` (`OneOutputPerResult`), `LeaksAccounted` (`LeaksExplained`). `OneOwner` is
  the first of these with queues as sets, which `InOrder` permits: `info_queue` is strictly ascending, so nothing is in it
  twice. `FirstResults` describes `uart_queue`, which nobody reads; `Shown` says what became of the groups shown and sent;
  `LeaksBounded` counts the copies lost in failed frames and at a full `info_queue`, and `RefusedByOlder` shows that what
  fills the queue of a refused copy is older.
- `OverlayAges` (`OverlayLifetime`), from `Ageing`: the remaining life is a function of the number of times drawn.
- `OverlayInOrder` (`OverlayAdvances`), from `InOrder`: the overlay is older than whatever replaces it, although two threads
  take results from the queue.

`SmartCamProofs`. From `PartsAssumption`, the assumptions of the two pipelines:
- `ImplementsFramePipe` and `ImplementsResultPipe`: each step of the composition is a step or a stutter of each component
  (`Spec => F!Spec` and `Spec => R!Spec`, safety, also after a dead packet was used). So `FramesSafe` and `ResultsSafe`: what was proved of the components
  holds in the composition. Lemmas such as `ResultsAsProved` relate the component instantiated in `SmartCam`
  to the one its theorems were proved about.
- `OverlayHasFrame`, `PostsHoldNoFrame`, `NothingInHandAtExit`: what only the composition can say. The disp thread
  decides about a result while it holds the frame to draw on; the rknn thread, which may wait in `rknn_runner_post`,
  holds no frame then, so a slow result queue costs no camera buffer; after the joins each copy of a result was
  deleted once, is leaked, in a queue or the overlay. The invariant is `Coupled`, which relates the places of each thread in the two components.

`VideoDeviceProofs`. For every number of camera buffers asked for, and every bound on those granted that is at least that
(`BufCountAssumption`, which also says that the value of an unset
pointer is no table of descriptors):
- `BuffersReturned`: `OwnBufferReturned`. It is not inductive; `IndInv` adds what the table and `n_buffers` are at each call
  of init (`Quiet`, `TableRight`: an entry is its buffer's own descriptor, or 0 after a failed export), and that a buffer
  is queued or in one packet and not both, unless two buffers share descriptor 0 (`Exclusive`, `Shared`). `OwnBufferFound`
  is the search of the release callback.
- `BuffersCirculate`: what is wrong with a device that init let pass has its cause among the failed calls; else each
  granted buffer is at the driver or in a packet (`Circulating`, with `GrantKnown` and `OwnDescriptors`).
- `TypeCorrect`: packets are never more than the buffers, even when the wrong buffer is requeued. That needs a count:
  `Conserved`, what is queued and what is in packets is together no more than the driver granted.

`DrmDisplayProofs`. For every number of scanout buffers above one:
- `WholeFrames`: `ScreenWhole`, from `Rotation`: the index is past the buffer of the last accepted commit.
- `InitUnwinds`: `ObjectsAccounted`, from `Holding`, which says what is held before each call of `drmInit`; `FreedAt` and
  `UnwoundOnce` are the fall through the labels, `NextObject` the successful call. `TypeCorrect`.

`PostprocessProofs`. For any number of cells, tensors with any contents the assumptions allow, any number of classes, any
limit on results and any sizes. `CallInv` says phase by phase what holds:
- `CollectsExactly` (`CollectExact`): the int8 prefilter and the test of the product together keep the cells
  that the threshold asks for, in grid order.
- `SortRanks` (`Ranked`), from `SortInv`: with the key put back in the hole, scores and indices are a permutation of the
  candidates (`Arranged`); two scores out of order are within one of the ranges still to be sorted (`OrderedBut`), and
  these are disjoint and taken from the left (`Stacked`); what the scans have passed is on its side of the key
  (`Split`). It is partial correctness: that the sort ends is visible in the run only.
- `SurvivorsSeparate` (`SurvivorsApart`), `LossesExplained` (`LossExplained`), `GreedyForOneClass` (`OneClassGreedy`), from
  `NmsInv`: `Ranking`, scores descend although indices are dropped; `Accounted`, each candidate keeps a place with
  its score, and if dropped there it overlaps one that ranks as high; `Swept`, after a class's pass survivors do
  not overlap where the i-th candidate in grid order has that class (the code's comparison, see section 3).
- `GroupComplete` (`GroupFaithful`): the group is the first results of the survivors, the strongest among them, each once.
- `BoxesOnScreen` (`InScreen`): scaling and clamping keep corners in order and within what the passed size scales to, which is
  the screen unless the model is smaller (`TruncBelow`).
The library's induction theorems take a predicate as a parameter, which no installed prover can instantiate. The lemmas
about `InOrder` and `Collected` use sets instead: a set of naturals with 0 that is closed under successor has no least
missing number (`LeastNumber`, `Induction`).

`StartupProofs`. For every model and all numbers of buffers, from `DevicesAssumption`:
- `Lifetimes`: `LifetimesNested`. `IndInv` relates main's place to what is up (`MainInv`), to the threads that exist
  (`ThreadInv`) and to the device each thread is in charge of (`DeviceInv`); `ScreenInv` counts complete buffers.
- `CameraSafety`, `CameraCirculates` (`CameraReady`), `ScreenSafety`, `DisplayUnwinds`: the process implements the two
  devices (`CameraRefined`, `DisplayRefined`: each step of the process is a step of the device or a stutter for it), so
  their theorems hold of it, in every interleaving with main, the threads and SIGINT.
- `RunnerGivenBack`: `RunnerReleased`, for any numbers of inputs and outputs. `Filled` says what each cell of the runner
  holds before each of the twelve calls of `rknn_runner_create`; `AllFreed` is the walk of the release.
- `TypeCorrect`.

Only model-checked: liveness. `CallsReturn`, `PreviewContinues`, `ShutdownCompletes`, `InfoConsumed`, `OverlayEnds`,
`ProgramEnds` and `ImplementsResults` as far as it is about fairness (its safety is `ImplementsResultPipe`). They
need fairness, and so ENABLED, which the installed prover does not reason about. The three violations are TLC's too.

## 6. Not modelled

- The search of `rkdrm_display.c` for a connector, crtc and plane is one call that succeeds or fails; `drmDeinit` and
  `drmPutBuffer` are never called. The copy of input data in `rknn_runner_process` is never used.
- Failing allocations in `ptr_queue_init` and `v4l2_device_create`, which are dereferenced at once.
- Label files beyond readable or not; float rounding; rendering, formatting of serial messages, logging and timestamps.
- Code that is not compiled: `rxi_ini.c`, `yolocam_config.c`, `drm_alloc.cpp`, `draw_utils.c`, `osd_draw.c`.
- Everything under `packages/`, `include/` and `hardware/`: OpenCV, RGA, RKNN and DRM headers, and board files.
  They are nearly all of the repository's lines (some 148 thousand of 152), contain no logic of this program, and
  are present in the models only as calls that succeed or fail. The program's own compiled code is about 3300
  lines.

## 7. Plan

Done: `BoundedFifo`, `PtrQueue`, `FramePipe`, `ResultPipe`, `Postprocess`, `DrmDisplay`, `RknnRunner`, `VideoDevice`,
`SmartCam`, `Startup`, and the proof modules of section 5.

Left, proofs: a ranking function for the quicksort, as an action property (each partition shrinks what is left to sort);
that a `ptr_queue_t` justifies the queues of `FramePipe` and `ResultPipe`, as a refinement instead of the
argument of section 2.
