-------------------------- MODULE DrmDisplayProofs --------------------------
(***************************************************************************)
(* Proofs about DrmDisplay for any number of scanout buffers above one.    *)
(***************************************************************************)
EXTENDS DrmDisplay, TLAPS

(* The thread never draws on the buffer of the last accepted commit: the   *)
(* index is past it.  With a single buffer this would fail.                *)
Rotation ==
  /\ index \in Bufs /\ content = [b \in Bufs |-> content[b]]
  /\ front # NoBuf /\ ~refused =>
       front \in Bufs /\ content[front] = "whole" /\ front # index

(* The objects held before call number k of drmInit.                       *)
HeldAt(k) ==
  [o \in Objects |->
     IF o \notin Acquired(k) THEN "none"
     ELSE IF o = "resources" /\ k = 9 THEN "freed" ELSE "held"]

(* The objects after call number k of drmInit failed.                      *)
FreedAt(k) ==
  [o \in Objects |->
     IF o \notin Acquired(k) THEN "none"
     ELSE IF o = "open" THEN "held"
     ELSE IF o = "resources" /\ k = 9 THEN "twice" ELSE "freed"]

(* What is held during drmInit, after its failure and after its success.   *)
Holding ==
  /\ call \in 1 .. 9 /\ made \in Nat
  /\ phase \in {"init", "buffers", "idle", "draw", "exit"}
  /\ phase = "init" => ~zpos /\ object = HeldAt(call)
  /\ phase = "exit" /\ call < 9 => ~zpos /\ object = FreedAt(call)
  /\ phase # "init" /\ call = 9 => object = IF zpos THEN FreedAt(9) ELSE HeldAt(9)
  /\ phase \in {"buffers", "idle", "draw"} => call = 9
-----------------------------------------------------------------------------
LEMMA AdvancedIndex ==
  ASSUME BufCountAssumption, index \in Bufs
  PROVE  NextIndex \in Bufs /\ NextIndex # index
BY DEF BufCountAssumption, Bufs, NextIndex

LEMMA RotationInductive == ASSUME BufCountAssumption PROVE Rotation /\ [Next]_vars => Rotation'
<1> SUFFICES ASSUME Rotation, [Next]_vars PROVE Rotation'
  OBVIOUS
<1>1. CASE Setup
  BY <1>1 DEF Setup, InitCall, InitFails, SetZpos, GetBuffer, screen, Rotation
<1>2. CASE Draw
  BY <1>2 DEF Draw, Rotation
<1>3. CASE DrawFails
  BY <1>3 DEF DrawFails, screen, Rotation
<1>4. CASE Commit
  BY <1>4, AdvancedIndex DEF Commit, Rotation
<1>5. CASE UNCHANGED vars
  BY <1>5 DEF vars, screen, Rotation
<1> QED  BY <1>1, <1>2, <1>3, <1>4, <1>5 DEF Next, Frame

(* For any number of buffers: a whole frame is on the screen, unless the   *)
(* last commit was refused.                                                *)
THEOREM WholeFrames == ASSUME BufCountAssumption PROVE Spec => []ScreenWhole
<1>1. Init => Rotation
  BY DEF Init, Rotation, Bufs, BufCountAssumption
<1>2. Rotation => ScreenWhole
  BY DEF Rotation, ScreenWhole
<1> QED  BY <1>1, <1>2, RotationInductive, PTL DEF Spec
-----------------------------------------------------------------------------
(* The calls of drmInit by number.                                         *)
LEMMA AcquiredAt ==
  /\ Len(Calls) = 9
  /\ Acquired(1) = {} /\ Acquired(2) = {"open"} /\ Acquired(3) = {"open"}
  /\ Acquired(4) = {"open"}
  /\ Acquired(5) = {"open", "resources"}
  /\ Acquired(6) = {"open", "resources", "connector"}
  /\ Acquired(7) = {"open", "resources", "connector", "dpms"}
  /\ Acquired(8) = {"open", "resources", "connector", "dpms", "crtc"}
  /\ Acquired(9) = Objects
<1>1. /\ Len(Calls) = 9
      /\ Calls[1] = "open" /\ Calls[2] = "universal" /\ Calls[3] = "atomic"
      /\ Calls[4] = "resources" /\ Calls[5] = "connector" /\ Calls[6] = "dpms"
      /\ Calls[7] = "crtc" /\ Calls[8] = "plane" /\ Calls[9] = "zpos"
  BY DEF Calls
<1>2. /\ {Calls[j] : j \in 1 .. 1 - 1} = {}
      /\ {Calls[j] : j \in 1 .. 2 - 1} = {"open"}
      /\ {Calls[j] : j \in 1 .. 3 - 1} = {"open", "universal"}
  BY <1>1
<1>3. /\ {Calls[j] : j \in 1 .. 4 - 1} = {"open", "universal", "atomic"}
      /\ {Calls[j] : j \in 1 .. 5 - 1} = {"open", "universal", "atomic", "resources"}
  BY <1>1
<1>4. /\ {Calls[j] : j \in 1 .. 6 - 1} = {"open", "universal", "atomic", "resources", "connector"}
      /\ {Calls[j] : j \in 1 .. 7 - 1}
           = {"open", "universal", "atomic", "resources", "connector", "dpms"}
  BY <1>1
<1>5. /\ {Calls[j] : j \in 1 .. 8 - 1}
           = {"open", "universal", "atomic", "resources", "connector", "dpms", "crtc"}
      /\ {Calls[j] : j \in 1 .. 9 - 1}
           = {"open", "universal", "atomic", "resources", "connector", "dpms", "crtc", "plane"}
  BY <1>1
<1> QED  BY <1>1, <1>2, <1>3, <1>4, <1>5 DEF Acquired, Objects

(* A call that fails frees each object but the descriptor, once if it is   *)
(* held.                                                                   *)
LEMMA UnwoundOnce ==
  ASSUME NEW k \in 1 .. 9, object = HeldAt(k)
  PROVE  Freed(Unwound(k)) = FreedAt(k)
<1>1. ASSUME NEW o \in Objects PROVE Freed(Unwound(k))[o] = FreedAt(k)[o]
  <2>1. o \in Unwound(k) <=> o \in Acquired(k) /\ o # "open"
    BY DEF Unwound
  <2>2. object[o] = IF o \notin Acquired(k) THEN "none"
                    ELSE IF o = "resources" /\ k = 9 THEN "freed" ELSE "held"
    BY DEF HeldAt
  <2>3. Freed(Unwound(k))[o] = IF o \notin Unwound(k) THEN object[o]
                               ELSE IF object[o] = "held" THEN "freed" ELSE "twice"
    BY DEF Freed
  <2>4. FreedAt(k)[o] = IF o \notin Acquired(k) THEN "none" ELSE IF o = "open" THEN "held"
                        ELSE IF o = "resources" /\ k = 9 THEN "twice" ELSE "freed"
    BY DEF FreedAt
  <2> QED  BY <2>1, <2>2, <2>3, <2>4
<1> QED  BY <1>1 DEF Freed, FreedAt

LEMMA NextObject ==
  ASSUME NEW k \in 1 .. 8, object = HeldAt(k)
  PROVE  [o \in Objects |->
            IF o = Calls[k] THEN "held"
            ELSE IF Calls[k] = "plane" /\ o = "resources" THEN "freed" ELSE object[o]]
         = HeldAt(k + 1)
<1>1. CASE k \in 1 .. 3
  <2>1. k = 1 \/ k = 2 \/ k = 3
    BY <1>1
  <2> QED  BY <2>1, AcquiredAt DEF HeldAt, Calls, Objects
<1>2. CASE k \in 4 .. 5
  BY <1>2, AcquiredAt DEF HeldAt, Calls, Objects
<1>3. CASE k \in 6 .. 8
  BY <1>3, AcquiredAt DEF HeldAt, Calls, Objects
<1> QED  BY <1>1, <1>2, <1>3

LEMMA HoldingInductive == ASSUME BufCountAssumption PROVE Holding /\ [Next]_vars => Holding'
<1> SUFFICES ASSUME Holding, [Next]_vars PROVE Holding'
  OBVIOUS
<1> USE AcquiredAt
<1>1. CASE InitCall
  <2>1. object' = HeldAt(call + 1)
    BY <1>1, NextObject DEF InitCall, Holding
  <2> QED  BY <1>1, <2>1 DEF InitCall, Holding
<1>2. CASE InitFails
  BY <1>2, UnwoundOnce DEF InitFails, Holding
<1>3. CASE SetZpos
  BY <1>3, UnwoundOnce DEF SetZpos, Holding
<1>4. CASE GetBuffer
  <2>1. made' \in Nat /\ phase' \in {"exit", "idle", "buffers"}
    BY <1>4 DEF GetBuffer, Holding, BufCountAssumption
  <2>2. phase = "buffers" /\ UNCHANGED <<call, object, zpos>>
    BY <1>4 DEF GetBuffer
  <2> QED  BY <2>1, <2>2 DEF Holding
<1>5. CASE Frame \/ UNCHANGED vars
  BY <1>5 DEF Frame, Draw, DrawFails, Commit, vars, Holding
<1> QED  BY <1>1, <1>2, <1>3, <1>4, <1>5 DEF Next, Setup

(* Whichever call of drmInit fails, what was acquired before is freed,     *)
(* each object once and all but the descriptor, which stays open; a        *)
(* success keeps what a commit needs, and a failed zpos nothing else than  *)
(* the descriptor.                                                         *)
THEOREM InitUnwinds == ASSUME BufCountAssumption PROVE Spec => []ObjectsAccounted
<1>1. Init => Holding
  BY AcquiredAt DEF Init, Holding, HeldAt
<1>2. Holding => ObjectsAccounted
  <2> SUFFICES ASSUME Holding PROVE ObjectsAccounted
    OBVIOUS
  <2> "open" \in Objects /\ Len(Calls) = 9
    BY AcquiredAt DEF Objects
  <2>1. "open" \in Acquired(call) <=> call > 1
    BY AcquiredAt, call \in 1 .. 9 DEF Holding
  <2>2. CASE phase = "exit" /\ call < 9
    BY <2>1, <2>2 DEF Holding, FreedAt, ObjectsAccounted
  <2>3. CASE phase = "init"
    BY <2>1, <2>3 DEF Holding, HeldAt, ObjectsAccounted
  <2>4. CASE phase # "init" /\ call = 9
    BY <2>1, <2>4, AcquiredAt DEF Holding, HeldAt, FreedAt, ObjectsAccounted
  <2> QED  BY <2>2, <2>3, <2>4 DEF Holding
<1> QED  BY <1>1, <1>2, HoldingInductive, PTL DEF Spec
-----------------------------------------------------------------------------
LEMMA TypeInductive == ASSUME BufCountAssumption PROVE TypeOK /\ [Next]_vars => TypeOK'
<1> SUFFICES ASSUME TypeOK, [Next]_vars PROVE TypeOK'
  OBVIOUS
<1> USE DEF TypeOK
<1>1. CASE InitCall
  <2>1. call' \in 1 .. Len(Calls)
    BY <1>1, AcquiredAt DEF InitCall
  <2>2. object' \in [Objects -> {"none", "held", "freed", "twice"}]
    BY <1>1 DEF InitCall
  <2> QED  BY <1>1, <2>1, <2>2 DEF InitCall, screen
<1>2. CASE InitFails \/ SetZpos
  <2>1. object' \in [Objects -> {"none", "held", "freed", "twice"}]
    <3>1. object' = object \/ object' = Freed(Unwound(call))
      BY <1>2 DEF InitFails, SetZpos
    <3>2. Freed(Unwound(call)) \in [Objects -> {"none", "held", "freed", "twice"}]
      BY DEF Freed
    <3> QED  BY <3>1, <3>2
  <2> QED  BY <1>2, <2>1 DEF InitFails, SetZpos, screen
<1>3. CASE GetBuffer
  <2>1. PICK n \in 0 .. 5 :
          /\ buf' = [buf EXCEPT ![made] = Obtained(n)]
          /\ made' = IF n = 5 THEN made + 1 ELSE made
          /\ phase' = CASE n < 5 -> "exit"
                         [] n = 5 /\ made + 1 = BufCount -> "idle"
                         [] n = 5 /\ made + 1 < BufCount -> "buffers"
    BY <1>3 DEF GetBuffer
  <2>2. made < BufCount /\ made \in 0 .. BufCount /\ BufCount \in Nat
        /\ UNCHANGED <<call, object, zpos, index, content, front, refused>>
    BY <1>3 DEF GetBuffer, screen, BufCountAssumption
  <2>3. made' \in 0 .. BufCount /\ phase' \in {"exit", "idle", "buffers"}
    BY <2>1, <2>2
  <2>4. Obtained(n) \in SUBSET {"map", "dmabuf", "fb"}
    BY DEF Obtained
  <2>5. buf' \in [Bufs -> SUBSET {"map", "dmabuf", "fb"}]
    BY <2>1, <2>4
  <2> QED  BY <2>2, <2>3, <2>5
<1>4. CASE Draw \/ DrawFails
  BY <1>4 DEF Draw, DrawFails, screen
<1>5. CASE Commit
  <2>1. index' \in Bufs
    BY <1>5, AdvancedIndex DEF Commit
  <2> QED  BY <1>5, <2>1 DEF Commit
<1>6. CASE UNCHANGED vars
  BY <1>6 DEF vars, screen
<1> QED  BY <1>1, <1>2, <1>3, <1>4, <1>5, <1>6 DEF Next, Setup, Frame

(* The rotation stays within the buffers and the setup within its calls,   *)
(* for any number of buffers.                                              *)
THEOREM TypeCorrect == ASSUME BufCountAssumption PROVE Spec => []TypeOK
<1>1. Init => TypeOK
  <2>1. 1 \in 1 .. Len(Calls) /\ 0 \in Bufs /\ 0 \in 0 .. BufCount
    BY AcquiredAt DEF Bufs, BufCountAssumption
  <2> QED  BY <2>1 DEF Init, TypeOK
<1> QED  BY <1>1, TypeInductive, PTL DEF Spec
=============================================================================
