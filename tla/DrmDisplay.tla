---------------------------- MODULE DrmDisplay ----------------------------
(***************************************************************************)
(* The screen: src/src/rkdrm_display.c, called by main before the threads  *)
(* start, and the disp thread of src/main.cpp, which draws on BufCount     *)
(* buffers in turn and commits each.  Any call to DRM or RGA may fail.     *)
(*                                                                         *)
(* drmInit acquires one object after the other and on failure gives back   *)
(* all of them but the first, the descriptor of the device.  Its last call *)
(* cannot fail properly: when zpos cannot be set it frees the same, the    *)
(* resources a second time, and returns 0, so the program goes on with     *)
(* freed objects.  What that leads to is open; the model keeps one         *)
(* outcome, in which nothing else changes.                                 *)
(***************************************************************************)
EXTENDS Integers, Sequences, FiniteSets

CONSTANTS
  BufCount,   \* BUF_COUNT (2)
  NoBuf

(* With a single buffer every frame would be drawn on the visible one.     *)
(* Assumed of the constants, where they get values (Startup).              *)
BufCountAssumption == BufCount \in Nat \ {0, 1} /\ NoBuf \notin 0 .. BufCount - 1

(* The calls of drmInit, in order; six of them return an object, of which  *)
(* "open" is the descriptor dev->drm_fd.                                   *)
Calls == <<"open", "universal", "atomic", "resources", "connector", "dpms",
           "crtc", "plane", "zpos">>
Objects == {"open", "resources", "connector", "dpms", "crtc", "plane"}
Bufs == 0 .. BufCount - 1

VARIABLES
  phase,    \* init, buffers, idle, draw, exit (main returned an error)
  call,     \* next call of drmInit
  object,   \* of each object: none, held, freed, or freed twice
  zpos,     \* setting zpos failed
  buf,      \* what each buffer holds: map, dmabuf, fb
  made,     \* drm_display_init's i
  index,    \* v4l2_index
  content,  \* of each buffer: blank, partial (half drawn), whole
  front,    \* the buffer on the screen
  refused   \* the last commit failed

screen == <<index, content, front, refused>>
vars == <<phase, call, object, zpos, buf, made, screen>>

Init ==
  /\ phase = "init" /\ call = 1 /\ zpos = FALSE
  /\ object = [o \in Objects |-> "none"]
  /\ buf = [b \in Bufs |-> {}] /\ made = 0
  /\ index = 0 /\ content = [b \in Bufs |-> "blank"]
  /\ front = NoBuf /\ refused = FALSE
-----------------------------------------------------------------------------
(* The objects of earlier calls.                                           *)
Acquired(k) == Objects \cap {Calls[j] : j \in 1 .. k - 1}

UnwoundLeaky(k) == Acquired(k) \ {"open", "dpms"}   \* mutant: one label too far

(* What a failing call's label and those it falls through to free; none of *)
(* them closes the descriptor, and the first four calls just return.       *)
Unwound(k) == Acquired(k) \ {"open"}

Freed(objs) ==
  [o \in Objects |-> IF o \notin objs THEN object[o]
                     ELSE IF object[o] = "held" THEN "freed" ELSE "twice"]

InitCall ==
  /\ phase = "init" /\ call < Len(Calls)
  /\ call' = call + 1
  /\ object' = [o \in Objects |->
       IF o = Calls[call] THEN "held"
       ELSE IF Calls[call] = "plane" /\ o = "resources" THEN "freed" ELSE object[o]]
  /\ UNCHANGED <<phase, zpos, buf, made, screen>>

InitFails ==
  /\ phase = "init" /\ call < Len(Calls)
  /\ object' = Freed(Unwound(call))
  /\ phase' = "exit"
  /\ UNCHANGED <<call, zpos, buf, made, screen>>

(* ret is still 0 from the last call that set it.                          *)
SetZpos ==
  /\ phase = "init" /\ call = Len(Calls)
  /\ \/ UNCHANGED <<object, zpos>>
     \/ object' = Freed(Unwound(call)) /\ zpos' = TRUE
  /\ phase' = "buffers"
  /\ UNCHANGED <<call, buf, made, screen>>
-----------------------------------------------------------------------------
(* drmGetBuffer: after n of its calls (create, map, mmap, export, add fb)  *)
(* succeeded.  The dumb handle is destroyed on every way out; a failing    *)
(* add fb returns the error but keeps the mapping and the descriptor.      *)
Obtained(n) == IF n = 5 THEN {"map", "dmabuf", "fb"}
               ELSE IF n = 4 THEN {"map", "dmabuf"} ELSE {}

GetBuffer ==
  /\ phase = "buffers" /\ made < BufCount
  /\ \E n \in 0 .. 5 :
       /\ buf' = [buf EXCEPT ![made] = Obtained(n)]
       /\ made' = IF n = 5 THEN made + 1 ELSE made
       /\ phase' = CASE n < 5 -> "exit"
                     [] n = 5 /\ made + 1 = BufCount -> "idle"
                     [] n = 5 /\ made + 1 < BufCount -> "buffers"
  /\ UNCHANGED <<call, object, zpos, screen>>
-----------------------------------------------------------------------------
(* The disp thread converts a frame into the buffer at v4l2_index.         *)
Draw ==
  /\ phase = "idle"
  /\ phase' = "draw"
  /\ content' = [content EXCEPT ![index] = "partial"]
  /\ UNCHANGED <<call, object, zpos, buf, made, index, front, refused>>

(* The conversion failed: no commit, and the next frame uses the buffer    *)
(* again.                                                                  *)
DrawFails ==
  /\ phase = "draw"
  /\ phase' = "idle"
  /\ UNCHANGED <<call, object, zpos, buf, made, screen>>

NextIndexStuck == index   \* mutant: v4l2_index is not advanced

NextIndexLate == IF index = BufCount THEN 0 ELSE index + 1   \* mutant: off by one

NextIndex == IF index + 1 = BufCount THEN 0 ELSE index + 1

(* drmCommit waits for the flip (no NONBLOCK flag), unless it fails; its   *)
(* result is ignored and the index moves on either way.                    *)
Commit ==
  /\ phase = "draw"
  /\ content' = [content EXCEPT ![index] = "whole"]
  /\ \/ front' = index /\ refused' = FALSE
     \/ UNCHANGED front /\ refused' = TRUE
  /\ index' = NextIndex
  /\ phase' = "idle"
  /\ UNCHANGED <<call, object, zpos, buf, made>>

(* drm_display_init, and what the disp thread does with a frame.           *)
Setup == InitCall \/ InitFails \/ SetZpos \/ GetBuffer
Frame == Draw \/ DrawFails \/ Commit

Next == Setup \/ Frame

Spec == Init /\ [][Next]_vars
-----------------------------------------------------------------------------
TypeOK ==
  /\ phase \in {"init", "buffers", "idle", "draw", "exit"}
  /\ call \in 1 .. Len(Calls) /\ zpos \in BOOLEAN
  /\ object \in [Objects -> {"none", "held", "freed", "twice"}]
  /\ buf \in [Bufs -> SUBSET {"map", "dmabuf", "fb"}]
  /\ made \in 0 .. BufCount
  /\ index \in Bufs /\ front \in Bufs \cup {NoBuf} /\ refused \in BOOLEAN
  /\ content \in [Bufs -> {"blank", "partial", "whole"}]

(* What drmInit got is accounted for on each way out.  The descriptor      *)
(* stays open on all of them, errors included.  Of the rest an error       *)
(* return has given back every object it got, each once, and a return of 0 *)
(* has kept what a commit needs, and only that; it is still held when a    *)
(* scanout buffer cannot be made and main returns.  A failed zpos returns  *)
(* 0 with all of it freed and the resources freed twice.                   *)
ObjectsAccounted ==
  /\ object["open"] = IF call > 1 THEN "held" ELSE "none"
  /\ phase = "exit" /\ call < Len(Calls) =>
       \A o \in Objects \ {"open"} :
         object[o] = IF o \in Acquired(call) THEN "freed" ELSE "none"
  /\ phase # "init" /\ call = Len(Calls) =>
       \A o \in Objects \ {"open"} :
         object[o] = IF o = "resources" THEN IF zpos THEN "twice" ELSE "freed"
                     ELSE IF zpos THEN "freed" ELSE "held"

(* Frames are drawn only into buffers that are mapped, exported and known  *)
(* to the display, however far an earlier buffer got.                      *)
BuffersComplete ==
  phase \in {"idle", "draw"} => \A b \in Bufs : buf[b] = {"map", "dmabuf", "fb"}

(* What is on the screen is a whole frame, although half drawn buffers are *)
(* left behind by failed conversions; only after a refused commit, which   *)
(* nobody notices, does the thread draw on the visible buffer.             *)
ScreenWhole == front # NoBuf /\ ~refused => content[front] = "whole"
=============================================================================
