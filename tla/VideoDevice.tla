---------------------------- MODULE VideoDevice ----------------------------
(***************************************************************************)
(* The camera: src/src/v4l2_device.c from v4l2_device_create to            *)
(* v4l2_device_destroy.  Buffers are found again by the descriptor they    *)
(* were exported as; nearly every failing ioctl is only logged.            *)
(*                                                                         *)
(* The private part of the device is not cleared after malloc: what init   *)
(* has not assigned is Unset and holds anything.  `wild` tells that such a *)
(* value, or the freed device, was used.  What a build does then is open;  *)
(* the model keeps the outcome in which nothing else changes.              *)
(***************************************************************************)
EXTENDS Integers, FiniteSets

CONSTANTS
  BufCount,   \* buf_count, which main sets to 4
  MostBufs,   \* what the driver grants at most, which may be more
  Unset

Bufs == 0 .. MostBufs - 1

(* Descriptors: standard input is 0, which is also what an expbuf that     *)
(* VIDIOC_EXPBUF did not fill in holds.                                    *)
Stdin == 0
Exported(b) == b + 1
Fds == {Stdin} \cup {Exported(b) : b \in Bufs}

(* Assumed of the constants, where they get values (Startup): Unset is     *)
(* neither a number of buffers nor a table.                                *)
BufCountAssumption ==
  /\ BufCount \in Nat \ {0} /\ MostBufs \in Nat /\ BufCount <= MostBufs
  /\ Unset \notin Nat \cup [Bufs -> Fds]

VARIABLES
  vstep,     \* open, query, request, map, start, live, failed, gone
  kind,      \* capabilities: mplane, single (planar), or none of use
  granted,   \* the buffers the driver has
  nBufs,     \* n_buffers
  fdOf,      \* export_fd of each entry of the table; Unset without a table
  driver,    \* buffers queued in the driver
  streaming,
  out,       \* of each buffer: packets that hold it
  closed,    \* descriptors deinit has closed
  wild,
  trouble    \* the calls that failed

table == <<granted, nBufs, fdOf>>
vvars == <<vstep, kind, table, driver, streaming, out, closed, wild, trouble>>

Init ==
  /\ vstep = "open" /\ kind = "none"
  /\ granted = {} /\ nBufs = Unset /\ fdOf = Unset
  /\ driver = {} /\ streaming = FALSE /\ out = [b \in Bufs |-> 0]
  /\ closed = {} /\ wild = FALSE /\ trouble = {}
-----------------------------------------------------------------------------
Trouble(calls) == trouble' = trouble \cup calls

Open ==
  /\ vstep = "open"
  /\ \/ vstep' = "query" /\ UNCHANGED trouble
     \/ vstep' = "failed" /\ Trouble({"open"})
  /\ UNCHANGED <<kind, table, driver, streaming, out, closed, wild>>

(* v4l2_init_device up to VIDIOC_S_FMT.  If QUERYCAP fails cap is what was *)
(* on the stack, so any kind may come of it.  The branch for single planar *)
(* devices tests the multi planar bit again: their buf_type stays unset.   *)
QueryCap ==
  /\ vstep = "query"
  /\ kind' \in {"mplane", "single", "none"}
  /\ vstep' = IF kind' = "none" THEN "failed" ELSE "request"
  /\ UNCHANGED <<table, driver, streaming, out, closed, wild, trouble>>

(* VIDIOC_REQBUFS.  The driver may grant fewer buffers than were asked for *)
(* or more, and the code foresees none at all.  A failing call leaves      *)
(* req.count as it was.                                                    *)
RequestBuffers ==
  /\ vstep = "request"
  /\ \/ /\ kind = "mplane"
        /\ \E n \in 0 .. MostBufs :
             /\ granted' = 0 .. n - 1
             /\ nBufs' = IF n = 0 THEN Unset ELSE n
        /\ UNCHANGED trouble
     \/ /\ nBufs' = BufCount
        /\ Trouble({"request"})
        /\ UNCHANGED granted
  /\ vstep' = "map"
  /\ UNCHANGED <<kind, fdOf, driver, streaming, out, closed, wild>>

(* The table is allocated and filled: a failed VIDIOC_EXPBUF gives Stdin.  *)
(* Failures of QUERYBUF and mmap, also only logged, leave a buffer without *)
(* an address, which nobody uses.                                          *)
MapBuffers ==
  /\ vstep = "map"
  /\ \E failed \in SUBSET Bufs :
       /\ Bufs \ granted \subseteq failed
       /\ fdOf' = [b \in Bufs |-> IF b \in failed THEN Stdin ELSE Exported(b)]
       /\ Trouble(IF granted \cap failed # {} THEN {"export"} ELSE {})
  /\ vstep' = "start"
  /\ UNCHANGED <<kind, granted, nBufs, driver, streaming, out, closed, wild>>

(* calloc fails: v4l2_init_mmap returns -1, which v4l2_init_device ignores.*)
NoTable ==
  /\ vstep = "map"
  /\ Trouble({"calloc"})
  /\ vstep' = "start"
  /\ UNCHANGED <<kind, table, driver, streaming, out, closed, wild>>

StartFromOne ==   \* mutant: the first buffer is not queued
  /\ vstep = "start"
  /\ driver' = granted \ {0}
  /\ streaming' = (granted # {})
  /\ vstep' = "live"
  /\ UNCHANGED <<kind, table, out, closed, wild, trouble>>

(* v4l2_start_capture queues n_buffers buffers and starts the stream.      *)
Start ==
  /\ vstep = "start"
  /\ \E refused \in SUBSET granted, on \in BOOLEAN :
       /\ driver' = granted \ refused
       /\ streaming' = on
       /\ on => granted # {}
       /\ Trouble({c \in {"qbuf", "streamon"} :
            (c = "qbuf" /\ refused # {}) \/ (c = "streamon" /\ ~on /\ granted # {})})
  /\ wild' = (wild \/ nBufs = Unset)
  /\ vstep' = "live"
  /\ UNCHANGED <<kind, table, out, closed>>
-----------------------------------------------------------------------------
(* v4l2_device_read takes a filled buffer.  On a device without a stream   *)
(* it fails at once, and changes nothing here.                             *)
Read ==
  /\ vstep = "live" /\ streaming
  /\ \E b \in driver :
       /\ driver' = driver \ {b}
       /\ out' = [out EXCEPT ![b] = @ + 1]
  /\ wild' = (wild \/ fdOf = Unset)
  /\ UNCHANGED <<vstep, kind, table, streaming, closed, trouble>>

RequeuedZero(b) == {0}   \* mutant: buf.index is not set

(* The buffers v4l2_device_buffer_unref considers for a packet of b.       *)
Requeued(b) == {i \in 0 .. nBufs - 1 : fdOf[i] = fdOf[b]}

(* It requeues the first one.  The driver refuses a buffer it has; any     *)
(* QBUF may fail, and then the buffer is nobody's.                         *)
Unref(b) ==
  /\ out[b] > 0
  /\ out' = [out EXCEPT ![b] = @ - 1]
  /\ IF vstep = "gone" \/ fdOf = Unset
       THEN wild' = TRUE /\ UNCHANGED <<driver, trouble>>
       ELSE /\ \/ /\ driver' = driver \cup {CHOOSE i \in Requeued(b) : \A j \in Requeued(b) : i <= j}
                  /\ UNCHANGED trouble
               \/ Trouble({"qbuf"}) /\ UNCHANGED driver
            /\ UNCHANGED wild
  /\ UNCHANGED <<vstep, kind, table, streaming, closed>>

(* v4l2_device_destroy stops the stream, closes the exported descriptors   *)
(* and frees the device.  Its own descriptor is not closed.                *)
Destroy ==
  /\ vstep \in {"live", "failed"}
  /\ vstep' = "gone"
  /\ driver' = {} /\ streaming' = FALSE
  /\ IF nBufs = Unset \/ fdOf = Unset
       THEN wild' = TRUE /\ UNCHANGED closed
       ELSE closed' = {fdOf[i] : i \in 0 .. nBufs - 1} /\ UNCHANGED wild
  /\ UNCHANGED <<kind, table, out, trouble>>
-----------------------------------------------------------------------------
Setup == Open \/ QueryCap \/ RequestBuffers \/ MapBuffers \/ NoTable \/ Start

Next == Setup \/ Read \/ (\E b \in Bufs : Unref(b)) \/ Destroy

Spec == Init /\ [][Next]_vvars
-----------------------------------------------------------------------------
TypeOK ==
  /\ vstep \in {"open", "query", "request", "map", "start", "live", "failed", "gone"}
  /\ kind \in {"mplane", "single", "none"}
  /\ granted \subseteq Bufs /\ nBufs \in 1 .. MostBufs \cup {Unset}
  /\ fdOf = Unset \/ fdOf \in [Bufs -> Fds]
  /\ driver \subseteq granted /\ streaming \in BOOLEAN
  /\ out \in [Bufs -> 0 .. MostBufs] /\ closed \subseteq Fds /\ wild \in BOOLEAN
  /\ trouble \subseteq {"open", "request", "calloc", "export", "qbuf", "streamon"}

(* Two failed exports gave two buffers the same descriptor.                *)
Shared == fdOf # Unset /\ Cardinality({b \in granted : fdOf[b] = Stdin}) > 1

(* The camera never fills a buffer that a packet still holds, and no       *)
(* descriptor but the exported ones is closed, as long as every export     *)
(* succeeded; with one failed export the buffers still return to their     *)
(* owner.                                                                  *)
OwnBufferReturned ==
  /\ ~Shared => \A b \in Bufs : out[b] = 0 \/ (b \notin driver /\ out[b] = 1)
  /\ Stdin \in closed => trouble \cap {"request", "export"} # {}

(* Nobody gets a buffer of a device that init gave up.  What one that init *)
(* has let pass may lack has its cause: it streams unless STREAMON failed  *)
(* or it has no buffers, and those it lacks because REQBUFS failed or gave *)
(* none; nothing unset is used unless that was n_buffers, which only a     *)
(* grant of none leaves so, or calloc failed; a buffer is missing only     *)
(* after a refused QBUF, two failed exports or without the table; and two  *)
(* buffers share a descriptor only after a failed export.                  *)
Circulates ==
  /\ vstep = "failed" =>
       /\ kind = "none" /\ granted = {} /\ ~streaming
       /\ \A b \in Bufs : out[b] = 0
  /\ vstep = "live" =>
       /\ streaming \/ granted = {} \/ "streamon" \in trouble
       /\ granted = {} => nBufs = Unset \/ "request" \in trouble
       /\ wild => nBufs = Unset \/ "calloc" \in trouble
       /\ nBufs = Unset => granted = {}
       /\ \A b \in granted : b \in driver \/ out[b] > 0 \/ Shared \/ trouble \cap {"qbuf", "calloc"} # {}
       /\ fdOf = Unset => "calloc" \in trouble
       /\ fdOf # Unset /\ "export" \notin trouble => \A b, c \in granted : fdOf[b] = fdOf[c] => b = c
=============================================================================
