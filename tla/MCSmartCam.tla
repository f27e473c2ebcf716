----------------------------- MODULE MCSmartCam -----------------------------
(* Values for model checking SmartCam.                                     *)
EXTENDS SmartCam, TLC

NoErrors == {}

(* No step is explored after one that uses a dead packet, whose state is:  *)
(* both properties hold of whatever follows, as far as they are about      *)
(* fairness, and the rest is a theorem (ImplementsResultPipe).             *)
UntilBroken == F!Sound

(* Every result holds an object.                                          *)
WithObjects == objects' = 1 .. made'

(* Free chunks are alike and so are queued buffers: malloc hands out the   *)
(* first of the former and the camera fills the first of the latter.       *)
ChunkNo == CHOOSE f \in [Pkts -> 1 .. Cardinality(Pkts)] : \A p, q \in Pkts : f[p] = f[q] => p = q
BufNo == CHOOSE f \in [Bufs -> 1 .. Cardinality(Bufs)] : \A p, q \in Bufs : f[p] = f[q] => p = q

InOrder ==
  /\ \A p, q \in Pkts : ~live[p] /\ live'[p] /\ ~live[q] => ChunkNo[p] <= ChunkNo[q]
  /\ \A b, d \in driver : b \notin driver' /\ d \in driver' => BufNo[b] <= BufNo[d]
=============================================================================
