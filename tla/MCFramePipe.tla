---------------------------- MODULE MCFramePipe ----------------------------
(* Values for model checking FramePipe.                                    *)
EXTENDS FramePipe, TLC

NoErrors == {}
AllErrors == {"dqbuf", "import", "qbuf"}
RgaErrors == {"import"}

Interchangeable == Permutations(Bufs) \cup Permutations(Pkts)

(* What follows the use of a dead packet is not explored further.          *)
UntilStale == ~stale

(* States are compared without the contents of free chunks that no thread  *)
(* or queue points to: malloc clears them before anybody can read them.    *)
Reachable(p) ==
  \/ live[p]
  \/ \E t \in Threads : pkt[t] = p /\ pc[t] \notin {"top", "deq", "done"}
  \/ \E c \in Consumers : \E i \in DOMAIN queue[c] : queue[c][i] = p

Observable ==
  <<ctl, pc, stage, dev, queue, stale, errs, live,
    [t \in Threads |-> IF pc[t] \in {"top", "deq", "done"} THEN NoPkt ELSE pkt[t]],
    [p \in Pkts |-> IF Reachable(p) THEN <<rc[p], fd[p], lost[p]>> ELSE <<>>]>>
=============================================================================
