------------------------- MODULE VideoDeviceProofs -------------------------
(***************************************************************************)
(* Proofs about VideoDevice for any number of buffers, also those of which *)
(* the driver grants only some.                                            *)
(***************************************************************************)
EXTENDS VideoDevice, FiniteSetTheorems, WellFoundedInduction, TLAPS

(* Until the stream starts nothing has been taken or closed, and until     *)
(* REQBUFS there are no buffers.                                           *)
Quiet ==
  /\ vstep \in {"open", "query", "request"} =>
       granted = {} /\ nBufs = Unset /\ fdOf = Unset /\ "request" \notin trouble
  /\ vstep \in {"open", "query", "request", "map", "start"} =>
       driver = {} /\ out = [b \in Bufs |-> 0] /\ closed = {}

(* The table and n_buffers describe the driver's buffers, unless REQBUFS   *)
(* failed; an entry is its buffer's descriptor or a failed export's.       *)
TableRight ==
  /\ granted \subseteq Bufs
  /\ nBufs # Unset => nBufs \in 1 .. MostBufs
  /\ "request" \in trouble => granted = {}
  /\ "request" \notin trouble => granted = IF nBufs = Unset THEN {} ELSE 0 .. nBufs - 1
  /\ fdOf # Unset =>
       /\ \A b \in Bufs : fdOf[b] \in {Stdin, Exported(b)}
       /\ \A b \in granted : fdOf[b] = Stdin => "export" \in trouble

(* Only the driver's buffers are queued or in packets, and none is both.   *)
Exclusive ==
  /\ driver \subseteq granted
  /\ \A b \in Bufs : out[b] > 0 => b \in granted /\ b \notin driver /\ out[b] = 1

ClosedOwn == Stdin \in closed => trouble \cap {"request", "export"} # {}

IndInv ==
  Quiet /\ TableRight /\ ClosedOwn /\ out \in [Bufs -> Nat] /\ (~Shared => Exclusive)
-----------------------------------------------------------------------------
(* A finite set of more than one element has cardinality above one.        *)
LEMMA TwoElements ==
  ASSUME NEW S, IsFiniteSet(S), ~(Cardinality(S) > 1), NEW x \in S, NEW y \in S
  PROVE  x = y
<1>1. IsFiniteSet({x}) /\ Cardinality({x}) = 1 /\ {x} \in SUBSET S
  BY FS_Singleton
<1>2. Cardinality(S) \in Nat /\ Cardinality({x}) <= Cardinality(S)
      /\ (Cardinality(S) = Cardinality({x}) => S = {x})
  BY <1>1, FS_CardinalityType, FS_Subset
<1>3. S = {x}
  BY <1>1, <1>2
<1> QED  BY <1>3

(* The search by descriptor finds the packet's own buffer, and it alone,   *)
(* unless two exports failed (v4l2_device_buffer_unref).                   *)
LEMMA OwnBufferFound ==
  ASSUME BufCountAssumption, TableRight, fdOf # Unset, ~Shared, NEW b \in granted
  PROVE  Requeued(b) = {b}
<1>1. granted = 0 .. nBufs - 1 /\ nBufs \in 1 .. MostBufs
  BY DEF TableRight
<1>2. b \in Requeued(b)
  BY <1>1 DEF Requeued
<1>3. ASSUME NEW i \in Requeued(b) PROVE i = b
  <2>1. i \in granted /\ fdOf[i] = fdOf[b]
    BY <1>1 DEF Requeued
  <2>2. /\ i \in Nat /\ b \in Nat
        /\ fdOf[i] \in {0, i + 1} /\ fdOf[b] \in {0, b + 1}
    BY <2>1, BufCountAssumption DEF TableRight, Bufs, Stdin, Exported, BufCountAssumption
  <2>3. CASE fdOf[b] = Stdin
    <3> DEFINE Z == {c \in granted : fdOf[c] = Stdin}
    <3>1. i \in Z /\ b \in Z
      BY <2>1, <2>3
    <3>2. IsFiniteSet(Z)
      <4>1. IsFiniteSet(0 .. nBufs - 1)
        BY <1>1, FS_Interval, BufCountAssumption DEF BufCountAssumption
      <4> QED  BY <4>1, <1>1, FS_Subset
    <3>3. ~(Cardinality(Z) > 1)
      BY DEF Shared
    <3> HIDE DEF Z
    <3> QED  BY <3>1, <3>2, <3>3, TwoElements
  <2>4. CASE fdOf[b] # Stdin
    BY <2>1, <2>2, <2>4 DEF Stdin
  <2> QED  BY <2>3, <2>4
<1> QED  BY <1>2, <1>3
-----------------------------------------------------------------------------
LEMMA InitInv == ASSUME BufCountAssumption PROVE Init => IndInv
BY DEF Init, IndInv, Quiet, TableRight, Exclusive, Shared, ClosedOwn, BufCountAssumption

(* Opening and querying touch no buffer.                                   *)
LEMMA OpenInv == ASSUME BufCountAssumption PROVE IndInv /\ (Open \/ QueryCap) => IndInv'
BY DEF Open, QueryCap, Trouble, table, IndInv, Quiet, TableRight, Exclusive, Shared,
       ClosedOwn, BufCountAssumption

LEMMA RequestInv == ASSUME BufCountAssumption PROVE IndInv /\ RequestBuffers => IndInv'
<1> SUFFICES ASSUME IndInv, RequestBuffers PROVE IndInv'
  OBVIOUS
<1>1. /\ vstep = "request" /\ vstep' = "map" /\ granted = {} /\ fdOf = Unset /\ "request" \notin trouble
      /\ driver = {} /\ out = [b \in Bufs |-> 0] /\ closed = {}
      /\ UNCHANGED <<fdOf, driver, out, closed>>
  BY DEF RequestBuffers, IndInv, Quiet
<1>2. TableRight'
  <2>1. CASE "request" \in trouble'
    BY <2>1, <1>1 DEF RequestBuffers, Trouble, TableRight, BufCountAssumption
  <2>2. CASE "request" \notin trouble'
    <3>1. PICK n \in 0 .. MostBufs : granted' = 0 .. n - 1 /\ nBufs' = IF n = 0 THEN Unset ELSE n
      BY <2>2 DEF RequestBuffers, Trouble
    <3> QED  BY <3>1, <2>2, <1>1 DEF TableRight, Bufs, BufCountAssumption
  <2> QED  BY <2>1, <2>2
<1> QED  BY <1>1, <1>2 DEF IndInv, Quiet, Exclusive, ClosedOwn

LEMMA MapInv == ASSUME BufCountAssumption PROVE IndInv /\ (MapBuffers \/ NoTable) => IndInv'
<1> SUFFICES ASSUME IndInv, MapBuffers \/ NoTable PROVE IndInv'
  OBVIOUS
<1>1. /\ vstep' = "start" /\ UNCHANGED <<granted, nBufs, driver, out, closed>>
      /\ driver = {} /\ out = [b \in Bufs |-> 0] /\ closed = {}
      /\ ("request" \in trouble' <=> "request" \in trouble)
  BY DEF MapBuffers, NoTable, table, Trouble, IndInv, Quiet
<1>2. TableRight'
  <2>1. CASE MapBuffers
    <3>1. PICK failed \in SUBSET Bufs :
            /\ fdOf' = [b \in Bufs |-> IF b \in failed THEN Stdin ELSE Exported(b)]
            /\ trouble' = trouble \cup (IF granted \cap failed # {} THEN {"export"} ELSE {})
      BY <2>1 DEF MapBuffers, Trouble
    <3>2. ASSUME NEW b \in granted, fdOf'[b] = Stdin PROVE b \in failed
      <4>1. b \in Nat
        BY DEF IndInv, TableRight, Bufs
      <4>2. b \in Bufs
        BY DEF IndInv, TableRight
      <4> QED  BY <4>1, <4>2, <3>1, <3>2 DEF Stdin, Exported
    <3> QED  BY <3>1, <3>2, <1>1 DEF IndInv, TableRight
  <2>2. CASE NoTable
    BY <2>2, <1>1 DEF NoTable, table, Trouble, IndInv, TableRight
  <2> QED  BY <2>1, <2>2
<1> QED  BY <1>1, <1>2 DEF IndInv, Quiet, Exclusive, ClosedOwn

LEMMA StartInv == ASSUME BufCountAssumption PROVE IndInv /\ Start => IndInv'
<1> SUFFICES ASSUME IndInv, Start PROVE IndInv'
  OBVIOUS
<1>1. /\ vstep' = "live" /\ UNCHANGED <<granted, nBufs, fdOf, out, closed>>
      /\ out = [b \in Bufs |-> 0] /\ closed = {}
      /\ driver' \subseteq granted
      /\ ("request" \in trouble' <=> "request" \in trouble) /\ trouble \subseteq trouble'
  BY DEF Start, table, Trouble, IndInv, Quiet
<1>2. TableRight'
  BY <1>1 DEF IndInv, TableRight
<1> QED  BY <1>1, <1>2 DEF IndInv, Quiet, Exclusive, ClosedOwn

(* A buffer that is read was at the driver, so no packet held it.          *)
LEMMA ReadInv == ASSUME BufCountAssumption PROVE IndInv /\ Read => IndInv'
<1> SUFFICES ASSUME IndInv, Read PROVE IndInv'
  OBVIOUS
<1>1. PICK b \in driver : driver' = driver \ {b} /\ out' = [out EXCEPT ![b] = @ + 1]
  BY DEF Read
<1>2. vstep = "live" /\ UNCHANGED <<vstep, granted, nBufs, fdOf, closed, trouble>>
  BY DEF Read, table
<1>3. Quiet' /\ TableRight' /\ ClosedOwn' /\ (Shared' <=> Shared)
  BY <1>2 DEF IndInv, Quiet, TableRight, ClosedOwn, Shared
<1>4. out' \in [Bufs -> Nat]
  <2>1. out \in [Bufs -> Nat]
    BY DEF IndInv
  <2>2. out' = [c \in Bufs |-> IF c = b THEN out[c] + 1 ELSE out[c]]
    BY <1>1, <2>1
  <2>3. \A c \in Bufs : (IF c = b THEN out[c] + 1 ELSE out[c]) \in Nat
    BY <2>1
  <2> QED  BY <2>2, <2>3
<1>5. ASSUME ~Shared PROVE Exclusive'
  <2>1. b \in granted /\ b \in Bufs
    BY <1>5 DEF IndInv, Exclusive, TableRight
  <2>2. out[b] = 0
    BY <1>5, <2>1 DEF IndInv, Exclusive
  <2> QED  BY <1>1, <1>2, <1>5, <2>1, <2>2 DEF IndInv, Exclusive
<1> QED  BY <1>3, <1>4, <1>5 DEF IndInv

(* A packet returns the buffer it holds.                                   *)
LEMMA UnrefInv ==
  ASSUME BufCountAssumption, NEW b \in Bufs
  PROVE  IndInv /\ Unref(b) => IndInv'
<1> SUFFICES ASSUME IndInv, Unref(b) PROVE IndInv'
  OBVIOUS
<1>1. /\ out[b] > 0 /\ out' = [out EXCEPT ![b] = @ - 1] /\ out[b] \in Nat
      /\ UNCHANGED <<vstep, granted, nBufs, fdOf, closed>>
      /\ ("request" \in trouble' <=> "request" \in trouble) /\ trouble \subseteq trouble'
  BY DEF Unref, Trouble, table, IndInv
<1>2. vstep \notin {"open", "query", "request", "map", "start"}
  BY <1>1 DEF IndInv, Quiet
<1>3. Quiet' /\ TableRight' /\ ClosedOwn' /\ (Shared' <=> Shared)
  BY <1>1, <1>2 DEF IndInv, Quiet, TableRight, ClosedOwn, Shared
<1>4. out' \in [Bufs -> Nat]
  BY <1>1 DEF IndInv
<1>5. ASSUME ~Shared PROVE Exclusive'
  <2>1. b \in granted /\ out[b] = 1
    BY <1>1, <1>5 DEF IndInv, Exclusive
  <2>2. driver' \subseteq driver \cup {b}
    <3>1. CASE vstep = "gone" \/ fdOf = Unset
      BY <3>1 DEF Unref
    <3>2. CASE ~(vstep = "gone" \/ fdOf = Unset)
      <4>1. Requeued(b) = {b}
        BY <2>1, <1>5, <3>2, OwnBufferFound DEF IndInv
      <4>2. b <= b
        BY BufCountAssumption DEF Bufs, BufCountAssumption
      <4>3. (CHOOSE i \in Requeued(b) : \A j \in Requeued(b) : i <= j) = b
        BY <4>1, <4>2
      <4> QED  BY <3>2, <4>3 DEF Unref
    <3> QED  BY <3>1, <3>2
  <2> QED  BY <1>1, <1>5, <2>1, <2>2 DEF IndInv, Exclusive
<1> QED  BY <1>3, <1>4, <1>5 DEF IndInv

(* What deinit closes are entries of the table.                            *)
LEMMA DestroyInv == ASSUME BufCountAssumption PROVE IndInv /\ Destroy => IndInv'
<1> SUFFICES ASSUME IndInv, Destroy PROVE IndInv'
  OBVIOUS
<1>1. /\ vstep' = "gone" /\ driver' = {}
      /\ UNCHANGED <<granted, nBufs, fdOf, out, trouble>>
  BY DEF Destroy, table
<1>2. ClosedOwn'
  <2>1. CASE nBufs = Unset \/ fdOf = Unset
    BY <2>1, <1>1 DEF Destroy, IndInv, ClosedOwn
  <2>2. CASE ~(nBufs = Unset \/ fdOf = Unset)
    <3>1. closed' = {fdOf[i] : i \in 0 .. nBufs - 1}
      BY <2>2 DEF Destroy
    <3> QED  BY <3>1, <2>2, <1>1 DEF IndInv, TableRight, ClosedOwn
  <2> QED  BY <2>1, <2>2
<1>3. Quiet' /\ TableRight'
  BY <1>1 DEF IndInv, Quiet, TableRight
<1> QED  BY <1>1, <1>2, <1>3 DEF IndInv, Exclusive, Shared
-----------------------------------------------------------------------------
LEMMA Inductive == ASSUME BufCountAssumption PROVE IndInv /\ [Next]_vvars => IndInv'
<1> SUFFICES ASSUME IndInv, [Next]_vvars PROVE IndInv'
  OBVIOUS
<1>1. CASE Setup
  BY <1>1, OpenInv, RequestInv, MapInv, StartInv DEF Setup
<1>2. CASE Read
  BY <1>2, ReadInv
<1>3. CASE \E b \in Bufs : Unref(b)
  BY <1>3, UnrefInv
<1>4. CASE Destroy
  BY <1>4, DestroyInv
<1>5. CASE UNCHANGED vvars
  BY <1>5 DEF vvars, table, IndInv, Quiet, TableRight, ClosedOwn, Exclusive, Shared
<1> QED  BY <1>1, <1>2, <1>3, <1>4, <1>5 DEF Next

LEMMA ReturnedFromInv == IndInv => OwnBufferReturned
BY DEF IndInv, OwnBufferReturned, Exclusive, Shared, ClosedOwn

(* For any number of buffers: as long as at most one export failed, the    *)
(* camera never gets a buffer that a packet holds, and deinit closes only  *)
(* exported descriptors unless REQBUFS or an export failed.                *)
THEOREM BuffersReturned ==
  ASSUME BufCountAssumption
  PROVE  Spec => []OwnBufferReturned
BY InitInv, Inductive, ReturnedFromInv, PTL DEF Spec
-----------------------------------------------------------------------------
(* How far init has come: nothing wild has been touched before the stream, *)
(* the table exists once it starts unless calloc failed, and from then on  *)
(* what is wrong has its cause.                                            *)
Circulating ==
  /\ vstep \in {"open", "query"} => kind = "none"
  /\ vstep \in {"open", "query", "request", "map", "start"} => ~wild /\ ~streaming
  /\ vstep = "failed" =>
       kind = "none" /\ granted = {} /\ ~streaming /\ \A b \in Bufs : out[b] = 0
  /\ vstep \in {"start", "live"} /\ fdOf = Unset => "calloc" \in trouble
  /\ vstep = "live" =>
       /\ streaming \/ granted = {} \/ "streamon" \in trouble
       /\ wild => nBufs = Unset \/ "calloc" \in trouble
       /\ \A b \in granted : b \in driver \/ out[b] > 0 \/ Shared \/ trouble \cap {"qbuf", "calloc"} # {}

(* Without a failed export every buffer has a descriptor of its own.       *)
LEMMA OwnDescriptors ==
  ASSUME BufCountAssumption, IndInv, fdOf # Unset, "export" \notin trouble
  PROVE  \A b, c \in granted : fdOf[b] = fdOf[c] => b = c
<1>1. \A b \in granted : b \in Nat /\ fdOf[b] = b + 1
  BY DEF IndInv, TableRight, Bufs, Stdin, Exported, BufCountAssumption
<1> QED  BY <1>1

(* The driver's buffers are those init knows of, unless REQBUFS failed.    *)
LEMMA GrantKnown ==
  ASSUME BufCountAssumption, IndInv
  PROVE  /\ nBufs = Unset => granted = {}
         /\ vstep \notin {"open", "query", "request"} /\ granted = {} =>
              nBufs = Unset \/ "request" \in trouble
<1>1. ASSUME nBufs # Unset, "request" \notin trouble PROVE granted # {}
  <2>1. nBufs \in Nat \ {0} /\ granted = 0 .. nBufs - 1
    BY <1>1, BufCountAssumption DEF IndInv, TableRight, BufCountAssumption
  <2>2. 0 \in granted
    BY <2>1
  <2> QED  BY <2>2
<1> QED  BY <1>1 DEF IndInv, TableRight

LEMMA CirculatingStart ==
  ASSUME BufCountAssumption, IndInv, Circulating, Start
  PROVE  Circulating'
<1>1. PICK refused \in SUBSET granted, on \in BOOLEAN :
        /\ driver' = granted \ refused /\ streaming' = on
        /\ trouble' = trouble \cup {c \in {"qbuf", "streamon"} :
             (c = "qbuf" /\ refused # {}) \/ (c = "streamon" /\ ~on /\ granted # {})}
  BY DEF Start, Trouble
<1>2. /\ vstep = "start" /\ vstep' = "live" /\ wild' = (wild \/ nBufs = Unset)
      /\ UNCHANGED <<granted, nBufs, fdOf, out>>
  BY DEF Start, table
<1>3. streaming' \/ granted' = {} \/ "streamon" \in trouble'
  BY <1>1, <1>2
<1>4. wild' => nBufs' = Unset \/ "calloc" \in trouble'
  BY <1>2 DEF Circulating
<1>5. \A b \in granted' : b \in driver' \/ "qbuf" \in trouble'
  BY <1>1, <1>2
<1>6. fdOf' = Unset => "calloc" \in trouble'
  BY <1>1, <1>2 DEF Circulating
<1> QED  BY <1>2, <1>3, <1>4, <1>5, <1>6 DEF Circulating

(* A buffer that is read is in a packet.                                   *)
LEMMA CirculatingRead ==
  ASSUME BufCountAssumption, IndInv, Circulating, Read
  PROVE  Circulating'
<1>1. PICK b \in driver : driver' = driver \ {b} /\ out' = [out EXCEPT ![b] = @ + 1]
  BY DEF Read
<1>2. /\ vstep = "live" /\ wild' = (wild \/ fdOf = Unset)
      /\ UNCHANGED <<vstep, granted, nBufs, fdOf, streaming, trouble>>
  BY DEF Read, table
<1>3. ASSUME NEW c \in granted, ~Shared, trouble \cap {"qbuf", "calloc"} = {}
      PROVE  c \in driver' \/ out'[c] > 0
  <2>1. (c \in driver \/ out[c] > 0) /\ out \in [Bufs -> Nat] /\ c \in Bufs
    BY <1>2, <1>3 DEF Circulating, IndInv, TableRight
  <2>2. CASE c = b
    BY <1>1, <2>1, <2>2
  <2>3. CASE c # b
    BY <1>1, <2>1, <2>3
  <2> QED  BY <2>2, <2>3
<1>4. (Shared' <=> Shared)
  BY <1>2 DEF Shared
<1>5. \A c \in granted' : c \in driver' \/ out'[c] > 0 \/ Shared' \/ trouble' \cap {"qbuf", "calloc"} # {}
  BY <1>2, <1>3, <1>4
<1> QED  BY <1>2, <1>5 DEF Circulating

(* The last reference puts the packet's own buffer back.                   *)
LEMMA CirculatingUnref ==
  ASSUME BufCountAssumption, IndInv, Circulating, NEW b \in Bufs, Unref(b)
  PROVE  Circulating'
<1>1. /\ out[b] > 0 /\ out' = [out EXCEPT ![b] = @ - 1] /\ out \in [Bufs -> Nat]
      /\ UNCHANGED <<vstep, granted, nBufs, fdOf, streaming>>
      /\ trouble \subseteq trouble'
  BY DEF Unref, Trouble, table, IndInv
<1>2. vstep \notin {"open", "query", "request", "map", "start"}
  BY <1>1 DEF IndInv, Quiet
<1>3. (Shared' <=> Shared)
  BY <1>1 DEF Shared
<1>4. ASSUME vstep = "live", NEW c \in granted, ~Shared, trouble' \cap {"qbuf", "calloc"} = {}
      PROVE  c \in driver' \/ out'[c] > 0
  <2>1. fdOf # Unset /\ c \in Bufs /\ (c \in driver \/ out[c] > 0)
    BY <1>1, <1>4 DEF Circulating, IndInv, TableRight
  <2>2. b \in granted
    BY <1>1, <1>4 DEF IndInv, Exclusive
  <2>3. Requeued(b) = {b}
    BY <1>4, <2>1, <2>2, OwnBufferFound DEF IndInv
  <2>4. b <= b
    BY BufCountAssumption DEF Bufs, BufCountAssumption
  <2>5. (CHOOSE i \in Requeued(b) : \A j \in Requeued(b) : i <= j) = b
    BY <2>3, <2>4
  <2>6. driver' = driver \cup {b}
    BY <1>4, <2>1, <2>5 DEF Unref, Trouble
  <2>7. c # b => out'[c] = out[c]
    BY <1>1
  <2> QED  BY <2>1, <2>6, <2>7
<1>5. vstep = "live" /\ wild' => nBufs' = Unset \/ "calloc" \in trouble'
  BY <1>1 DEF Circulating, Unref
<1>6. vstep = "live" => \A c \in granted' :
        c \in driver' \/ out'[c] > 0 \/ Shared' \/ trouble' \cap {"qbuf", "calloc"} # {}
  BY <1>1, <1>3, <1>4
<1> QED  BY <1>1, <1>2, <1>5, <1>6 DEF Circulating

LEMMA CirculatingInductive ==
  ASSUME BufCountAssumption
  PROVE  IndInv /\ Circulating /\ [Next]_vvars => Circulating'
<1> SUFFICES ASSUME IndInv, Circulating, [Next]_vvars PROVE Circulating'
  OBVIOUS
<1>1. CASE Open \/ QueryCap \/ RequestBuffers
  BY <1>1 DEF Open, QueryCap, RequestBuffers, Trouble, table, Circulating,
     IndInv, Quiet
<1>2. CASE MapBuffers
  <2>1. fdOf' \in [Bufs -> Fds]
    BY <1>2 DEF MapBuffers, Fds
  <2> QED  BY <1>2, <2>1 DEF MapBuffers, Circulating, BufCountAssumption
<1>3. CASE NoTable
  BY <1>3 DEF NoTable, Trouble, table, Circulating
<1>4. CASE Start
  BY <1>4, CirculatingStart
<1>5. CASE Read
  BY <1>5, CirculatingRead
<1>6. CASE \E b \in Bufs : Unref(b)
  BY <1>6, CirculatingUnref
<1>7. CASE Destroy
  BY <1>7 DEF Destroy, Circulating
<1>8. CASE UNCHANGED vvars
  BY <1>8 DEF vvars, table, Circulating, Shared
<1> QED  BY <1>1, <1>2, <1>3, <1>4, <1>5, <1>6, <1>7, <1>8 DEF Next, Setup

(* For any number of buffers, asked for and granted: whatever is wrong with*)
(* a device that init has let pass has its cause among the calls that      *)
(* failed, and a buffer is lost only to those that name it.                *)
THEOREM BuffersCirculate ==
  ASSUME BufCountAssumption
  PROVE  Spec => []Circulates
<1>1. Init => Circulating
  BY DEF Init, Circulating
<1>2. IndInv /\ Circulating => Circulates
  <2> SUFFICES ASSUME IndInv, Circulating, vstep = "live" PROVE Circulates
    BY DEF Circulates, Circulating
  <2>1. fdOf # Unset /\ "export" \notin trouble => \A b, c \in granted : fdOf[b] = fdOf[c] => b = c
    BY OwnDescriptors
  <2> QED  BY <2>1, GrantKnown DEF Circulates, Circulating
<1> QED  BY <1>1, <1>2, InitInv, Inductive, CirculatingInductive, PTL DEF Spec
-----------------------------------------------------------------------------
(* The k-th packet of each buffer.                                         *)
Packets == {p \in Bufs \X (Nat \ {0}) : p[2] <= out[p[1]]}

(* However many exports failed: what is queued and what is in packets is   *)
(* the driver's, and together no more than it granted.                     *)
Conserved ==
  /\ driver \subseteq granted
  /\ \A b \in Bufs : out[b] > 0 => b \in granted
  /\ IsFiniteSet(Packets)
  /\ Cardinality(Packets) + Cardinality(driver) <= MostBufs

LEMMA BufsCounted ==
  ASSUME BufCountAssumption
  PROVE  IsFiniteSet(Bufs) /\ Cardinality(Bufs) = MostBufs
<1>1. 0 \in Int /\ MostBufs - 1 \in Int /\ MostBufs \in Nat \ {0}
  BY DEF BufCountAssumption
<1> QED  BY <1>1, FS_Interval DEF Bufs

LEMMA FewQueued ==
  ASSUME BufCountAssumption, NEW S \in SUBSET Bufs
  PROVE  IsFiniteSet(S) /\ Cardinality(S) \in Nat /\ Cardinality(S) <= MostBufs
BY BufsCounted, FS_Subset, FS_CardinalityType

(* The first entry with a given descriptor exists.                         *)
LEMMA FirstFound ==
  ASSUME NEW S \in SUBSET Nat, S # {}
  PROVE  (CHOOSE i \in S : \A j \in S : i <= j) \in S
<1>1. PICK i \in S : \A j \in S : ~ (<<j, i>> \in OpToRel(<, Nat))
  BY NatLessThanWellFounded, WFMin
<1>2. \A j \in S : ~ (j < i)
  BY <1>1, Zenon DEF OpToRel
<1>3. \A j \in S : i <= j
  BY <1>2
<1> QED  BY <1>3

LEMMA NoPackets == ASSUME out = [b \in Bufs |-> 0] PROVE Packets = {}
BY DEF Packets

(* A read turns a queued buffer into a packet.                             *)
LEMMA ReadConserves ==
  ASSUME BufCountAssumption, IndInv, Conserved, Read
  PROVE  Conserved'
<1>1. PICK b \in driver : driver' = driver \ {b} /\ out' = [out EXCEPT ![b] = @ + 1]
  BY DEF Read
<1>2. UNCHANGED granted /\ granted \subseteq Bufs /\ out \in [Bufs -> Nat] /\ b \in granted /\ b \in Bufs
  BY DEF Read, table, IndInv, TableRight, Conserved
<1>3. out'[b] = out[b] + 1 /\ out[b] \in Nat /\ \A c \in Bufs \ {b} : out'[c] = out[c]
  BY <1>1, <1>2
<1>4. Packets' = Packets \cup {<<b, out[b] + 1>>} /\ <<b, out[b] + 1>> \notin Packets
  BY <1>2, <1>3 DEF Packets
<1>5. IsFiniteSet(Packets') /\ Cardinality(Packets') = Cardinality(Packets) + 1
  BY <1>4, FS_AddElement DEF Conserved
<1>6. IsFiniteSet(driver) /\ Cardinality(driver) \in Nat
  BY <1>2, FewQueued DEF Conserved
<1>7. Cardinality(driver') = Cardinality(driver) - 1
  BY <1>1, <1>6, FS_RemoveElement
<1>8. Cardinality(Packets) \in Nat /\ MostBufs \in Nat
  BY FS_CardinalityType DEF Conserved, BufCountAssumption
<1>9. Cardinality(Packets') + Cardinality(driver') <= MostBufs
  BY <1>5, <1>6, <1>7, <1>8 DEF Conserved
<1>10. \A c \in Bufs : out'[c] > 0 => c \in granted
  BY <1>2, <1>3 DEF Conserved
<1> QED  BY <1>1, <1>2, <1>5, <1>9, <1>10 DEF Conserved

(* The last reference to a packet requeues at most one buffer.             *)
LEMMA UnrefConserves ==
  ASSUME BufCountAssumption, IndInv, Conserved, NEW b \in Bufs, Unref(b)
  PROVE  Conserved'
<1>1. /\ out[b] > 0 /\ out' = [out EXCEPT ![b] = @ - 1] /\ UNCHANGED <<granted, nBufs, fdOf>>
      /\ out \in [Bufs -> Nat] /\ b \in granted /\ granted \subseteq Bufs
  BY DEF Unref, table, IndInv, TableRight, Conserved
<1>2. out'[b] = out[b] - 1 /\ out[b] \in Nat /\ \A c \in Bufs \ {b} : out'[c] = out[c]
  BY <1>1
<1>3. Packets' = Packets \ {<<b, out[b]>>} /\ <<b, out[b]>> \in Packets
  BY <1>1, <1>2 DEF Packets
<1>4. IsFiniteSet(Packets') /\ Cardinality(Packets') = Cardinality(Packets) - 1
  BY <1>3, FS_RemoveElement DEF Conserved
<1>5. PICK i \in granted : driver' \subseteq driver \cup {i}
  <2>1. CASE vstep = "gone" \/ fdOf = Unset
    BY <1>1, <2>1 DEF Unref
  <2>2. CASE ~(vstep = "gone" \/ fdOf = Unset)
    <3>1. granted = 0 .. nBufs - 1 /\ nBufs \in Nat
      BY <1>1, BufCountAssumption DEF IndInv, TableRight, BufCountAssumption
    <3>2. Requeued(b) \in SUBSET Nat /\ b \in Requeued(b) /\ Requeued(b) \subseteq granted
      BY <1>1, <3>1 DEF Requeued
    <3>3. (CHOOSE i \in Requeued(b) : \A j \in Requeued(b) : i <= j) \in granted
      BY <3>2, FirstFound
    <3> QED  BY <2>2, <3>3 DEF Unref
  <2> QED  BY <2>1, <2>2
<1>6. IsFiniteSet(driver) /\ Cardinality(driver) \in Nat
  BY <1>1, FewQueued DEF Conserved
<1>7. /\ IsFiniteSet(driver \cup {i}) /\ Cardinality(driver \cup {i}) \in Nat
      /\ Cardinality(driver \cup {i}) <= Cardinality(driver) + 1
  <2>1. /\ IsFiniteSet(driver \cup {i})
        /\ Cardinality(driver \cup {i}) = IF i \in driver THEN Cardinality(driver) ELSE Cardinality(driver) + 1
    BY <1>6, FS_AddElement
  <2> QED  BY <1>6, <2>1
<1>8. Cardinality(driver') \in Nat /\ Cardinality(driver') <= Cardinality(driver \cup {i})
  BY <1>5, <1>7, FS_Subset, FS_CardinalityType
<1>9. Cardinality(Packets) \in Nat /\ MostBufs \in Nat
  BY FS_CardinalityType DEF Conserved, BufCountAssumption
<1>10. Cardinality(Packets') + Cardinality(driver') <= MostBufs
  BY <1>4, <1>6, <1>7, <1>8, <1>9 DEF Conserved
<1>11. \A c \in Bufs : out'[c] > 0 => c \in granted
  BY <1>1, <1>2 DEF Conserved
<1> QED  BY <1>1, <1>4, <1>5, <1>10, <1>11 DEF Conserved

LEMMA ConservedInductive ==
  ASSUME BufCountAssumption
  PROVE  IndInv /\ Conserved /\ [Next]_vvars => Conserved'
<1> SUFFICES ASSUME IndInv, Conserved, [Next]_vvars PROVE Conserved'
  OBVIOUS
<1>1. IndInv'
  BY Inductive
<1>2. ASSUME out' = [b \in Bufs |-> 0], driver' \subseteq granted' PROVE Conserved'
  <2>1. Packets' = {}
    BY <1>2 DEF Packets
  <2>2. granted' \in SUBSET Bufs
    BY <1>1 DEF IndInv, TableRight
  <2>3. Cardinality(driver') \in Nat /\ Cardinality(driver') <= MostBufs
    BY <1>2, <2>2, FewQueued
  <2>4. IsFiniteSet(Packets') /\ Cardinality(Packets') = 0
    BY <2>1, FS_EmptySet
  <2> QED  BY <1>2, <2>3, <2>4 DEF Conserved
<1>3. CASE Open \/ QueryCap \/ RequestBuffers \/ MapBuffers \/ NoTable \/ Start
  <2>1. vstep \in {"open", "query", "request", "map", "start"} /\ UNCHANGED out
    BY <1>3 DEF Open, QueryCap, RequestBuffers, MapBuffers, NoTable, Start
  <2>2. out' = [b \in Bufs |-> 0] /\ driver = {}
    BY <2>1 DEF IndInv, Quiet
  <2>3. driver' = {} \/ (driver' \subseteq granted /\ UNCHANGED granted)
    BY <1>3, <2>2 DEF Open, QueryCap, RequestBuffers, MapBuffers, NoTable, Start, table
  <2> QED  BY <1>2, <2>2, <2>3
<1>4. CASE Read
  BY <1>4, ReadConserves
<1>5. CASE \E b \in Bufs : Unref(b)
  BY <1>5, UnrefConserves
<1>6. CASE Destroy
  <2>1. driver' = {} /\ UNCHANGED <<granted, out>>
    BY <1>6 DEF Destroy, table
  <2>2. Packets' = Packets
    BY <2>1 DEF Packets
  <2>3. /\ Cardinality({}) = 0 /\ Cardinality(driver) \in Nat /\ Cardinality(Packets) \in Nat
        /\ MostBufs \in Nat
    BY FS_EmptySet, FewQueued, FS_CardinalityType DEF Conserved, IndInv, TableRight, BufCountAssumption
  <2> QED  BY <2>1, <2>2, <2>3 DEF Conserved
<1>7. CASE UNCHANGED vvars
  BY <1>7 DEF vvars, table, Conserved, Packets
<1> QED  BY <1>3, <1>4, <1>5, <1>6, <1>7 DEF Next, Setup

LEMMA TypeInductive ==
  ASSUME BufCountAssumption
  PROVE  IndInv /\ Conserved /\ TypeOK /\ [Next]_vvars => TypeOK'
<1> SUFFICES ASSUME IndInv, Conserved, TypeOK, [Next]_vvars PROVE TypeOK'
  OBVIOUS
<1>1. IndInv' /\ Conserved'
  BY Inductive, ConservedInductive
<1>2. granted' \subseteq Bufs /\ driver' \subseteq granted' /\ out' \in [Bufs -> Nat]
      /\ nBufs' \in 1 .. MostBufs \cup {Unset}
  BY <1>1 DEF IndInv, TableRight, Conserved
<1>3. out' \in [Bufs -> 0 .. MostBufs]
  <2>1. ASSUME NEW b \in Bufs PROVE out'[b] <= MostBufs
    <3> DEFINE n == out'[b]
               P == Packets'
               f == [k \in 1 .. n |-> <<b, k>>]
    <3>1. n \in Nat /\ MostBufs \in Nat
      BY <1>2 DEF BufCountAssumption
    <3>2. f \in [1 .. n -> P]
      BY <3>1 DEF Packets
    <3>3. f \in Injection(1 .. n, P)
      BY <3>2 DEF Injection, IsInjective
    <3>4. IsFiniteSet(P) /\ Cardinality(P) + Cardinality(driver') <= MostBufs
      BY <1>1 DEF Conserved
    <3>5. Cardinality(driver') \in Nat /\ Cardinality(P) \in Nat
      BY <1>2, <3>4, FewQueued, FS_CardinalityType
    <3>6. Cardinality(1 .. n) = n
      BY <3>1, FS_Interval
    <3> HIDE DEF n, P, f
    <3>7. Cardinality(1 .. n) <= Cardinality(P)
      BY <3>3, <3>4, FS_Injection
    <3>8. n <= MostBufs
      BY <3>1, <3>4, <3>5, <3>6, <3>7
    <3> QED  BY <3>8 DEF n
  <2> QED  BY <1>2, <2>1
<1>4. CASE Open \/ QueryCap \/ RequestBuffers
  BY <1>2, <1>3, <1>4 DEF Open, QueryCap, RequestBuffers, Trouble, table, TypeOK
<1>5. CASE MapBuffers \/ NoTable
  <2>1. fdOf' = Unset \/ fdOf' \in [Bufs -> Fds]
    BY <1>5 DEF MapBuffers, NoTable, table, Fds, TypeOK
  <2>2. trouble' \subseteq {"open", "request", "calloc", "export", "qbuf", "streamon"}
    BY <1>5 DEF MapBuffers, NoTable, Trouble, TypeOK
  <2> QED  BY <1>2, <1>3, <1>5, <2>1, <2>2 DEF MapBuffers, NoTable, table, TypeOK
<1>6. CASE Start
  BY <1>2, <1>3, <1>6 DEF Start, Trouble, table, TypeOK
<1>7. CASE Read
  BY <1>2, <1>3, <1>7 DEF Read, table, TypeOK
<1>8. CASE \E b \in Bufs : Unref(b)
  BY <1>2, <1>3, <1>8 DEF Unref, Trouble, table, TypeOK
<1>9. CASE Destroy
  <2>1. closed' \subseteq Fds
    <3>1. CASE nBufs = Unset \/ fdOf = Unset
      BY <1>9, <3>1 DEF Destroy, TypeOK
    <3>2. CASE nBufs # Unset /\ fdOf # Unset
      <4>1. \A i \in 0 .. nBufs - 1 : i \in Bufs
        BY <3>2, BufCountAssumption DEF TypeOK, Bufs, BufCountAssumption
      <4> QED  BY <1>9, <3>2, <4>1 DEF Destroy, TypeOK
    <3> QED  BY <3>1, <3>2
  <2> QED  BY <1>2, <1>3, <1>9, <2>1 DEF Destroy, table, TypeOK
<1>10. CASE UNCHANGED vvars
  BY <1>10 DEF vvars, table, TypeOK
<1> QED  BY <1>4, <1>5, <1>6, <1>7, <1>8, <1>9, <1>10 DEF Next, Setup

(* For any number of buffers and however many calls failed, what is queued *)
(* or held by packets was granted by the driver, and no buffer is ever in  *)
(* more packets than there are buffers.                                    *)
THEOREM TypeCorrect ==
  ASSUME BufCountAssumption
  PROVE  Spec => []TypeOK
<1>1. Init => TypeOK
  <2>1. 0 \in 0 .. MostBufs
    BY DEF BufCountAssumption
  <2> QED  BY <2>1 DEF Init, TypeOK
<1>2. Init => Conserved
  <2>1. Init => Packets = {}
    BY DEF Init, Packets
  <2>2. Cardinality({}) = 0 /\ IsFiniteSet({}) /\ MostBufs \in Nat
    BY FS_EmptySet DEF BufCountAssumption
  <2> QED  BY <2>1, <2>2 DEF Init, Conserved
<1> QED  BY <1>1, <1>2, InitInv, Inductive, ConservedInductive, TypeInductive, PTL DEF Spec
=============================================================================
