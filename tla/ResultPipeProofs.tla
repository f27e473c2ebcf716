------------------------- MODULE ResultPipeProofs -------------------------
(***************************************************************************)
(* Proofs about ResultPipe for any queue capacities, any lifespan and any  *)
(* number of results and failures.                                         *)
(***************************************************************************)
EXTENDS ResultPipe, FiniteSetTheorems, SequenceTheorems, TLAPS

info == queue["info"]
uart == queue["uart"]

(* Each thread is at a label of its own and holds a group only between     *)
(* taking it and passing it on.                                            *)
Control ==
  /\ pc["rknn"] \in {"top", "in", "info", "uart", "done"}
  /\ pc["disp"] \in {"top", "in", "show", "done"}
  /\ pc["uart"] \in {"top", "in", "send", "done"}
  /\ newGrp # NoGrp => At("disp", "show")
  /\ uartGrp # NoGrp => At("uart", "send")
  /\ At("rknn", "info") \/ At("rknn", "uart") => made > 0

Posting == At("rknn", "info") \/ At("rknn", "uart")

(* info_queue holds info copies in the order they were made; what a thread *)
(* took from it is older than all that is left, and the overlay is older   *)
(* than the result that is about to replace it.                            *)
InOrder ==
  /\ \A i \in DOMAIN info :
       /\ info[i][2] = "info"
       /\ info[i][1] <= made /\ (At("rknn", "info") => info[i][1] < made)
  /\ \A i, j \in DOMAIN info : i < j => info[i][1] < info[j][1]
  /\ \A g \in {newGrp, detGrp, uartGrp} \ {NoGrp} :
       /\ g[2] = "info" /\ g[1] <= made /\ (At("rknn", "info") => g[1] < made)
       /\ \A i \in DOMAIN info : g[1] < info[i][1]
  /\ newGrp # NoGrp /\ detGrp # NoGrp => detGrp[1] < newGrp[1]

(* Nobody reads uart_queue: it keeps the first results, and until it is    *)
(* full it keeps them all.                                                 *)
FirstResults ==
  /\ \A i \in DOMAIN uart : uart[i] = <<i, "uart">>
  /\ Len(uart) < UartCap => Len(uart) = made - One(Posting)
  /\ Len(uart) <= made - One(Posting)
  /\ \A g \in leaked : g[2] = "uart" => Len(uart) = UartCap

Waits(g) == \E i \in DOMAIN queue[g[2]] : queue[g[2]][i] = g

(* GroupOwned, with the queues as sets.                                    *)
OneOwner ==
  \A g \in Groups :
    /\ g[1] <= made =>
         One(InHand(g)) + One(Waits(g)) + One(newGrp = g) + One(detGrp = g)
           + One(uartGrp = g) + freed[g] + One(g \in leaked) = 1
    /\ g[1] > made => freed[g] = 0 /\ g \notin leaked

(* What went out on the screen is the overlay or deleted, what went out on *)
(* the serial port is deleted.                                             *)
Shown ==
  /\ \A n \in drawn : detGrp = <<n, "info">> \/ freed[<<n, "info">>] > 0
  /\ \A n \in sent : freed[<<n, "info">>] > 0
  /\ drawn \cap sent = {}

(* The overlay ages by two whenever it is drawn.                           *)
Ageing ==
  /\ detGrp # NoGrp => draws > 0 /\ life = Lifespan - 2 * draws /\ life > 0
  /\ draws <= FullAge

InfoLeaks == {g \in leaked : g[2] = "info"}

LeaksBounded ==
  Cardinality(InfoLeaks) <= errs + (IF made > InfoCap THEN made - InfoCap ELSE 0)

IndInv ==
  TypeOK /\ Control /\ InOrder /\ FirstResults /\ OneOwner /\ Shown /\ Ageing /\ LeaksBounded
-----------------------------------------------------------------------------
(* Types and control.                                                      *)
LEMMA InitInd == Init => IndInv
<1> SUFFICES ASSUME Init PROVE IndInv
  OBVIOUS
<1> USE BoundAssumption, NoGrpAssumption
<1>1. \A u \in Uses : queue[u] = <<>> /\ Len(queue[u]) <= Cap[u]
  BY EmptySeq DEF Init, Uses, Cap
<1>2. info = <<>> /\ uart = <<>> /\ DOMAIN info = {} /\ DOMAIN uart = {} /\ Len(uart) = 0
  BY <1>1, EmptySeq DEF info, uart, Uses
<1>3. TypeOK
  <2>1. queue \in [Uses -> Seq(Groups)]
    BY <1>1, EmptySeq DEF Init
  <2>2. made \in 0 .. MaxResults /\ objects \subseteq 1 .. made /\ errs \in 0 .. MaxErrs
    BY DEF Init
  <2>3. pc \in [{"rknn", "disp", "uart"}
               -> {"top", "in", "info", "uart", "show", "send", "done"}]
    BY DEF Init
  <2> QED  BY <1>1, <2>1, <2>2, <2>3 DEF Init, TypeOK
<1>4. Control
  BY DEF Init, Control, At
<1>5. InOrder
  BY <1>2 DEF Init, InOrder
<1>6. FirstResults
  <2>1. ~Posting /\ made = 0 /\ leaked = {}
    BY DEF Init, Posting, At
  <2>2. One(Posting) = 0
    BY <2>1 DEF One
  <2> QED  BY <1>2, <2>1, <2>2 DEF FirstResults
<1>7. OneOwner
  BY DEF Init, OneOwner, Groups, Results
<1>8. Shown /\ Ageing
  BY DEF Init, Shown, Ageing, FullAge
<1>9. LeaksBounded
  <2>1. InfoLeaks = {}
    BY DEF Init, InfoLeaks
  <2> QED  BY <2>1, FS_EmptySet DEF LeaksBounded, Init
<1> QED  BY <1>3, <1>4, <1>5, <1>6, <1>7, <1>8, <1>9 DEF IndInv

(* What taking the oldest group does to info_queue.                        *)
LEMMA Oldest ==
  ASSUME TypeOK, info # <<>>
  PROVE  /\ Len(info) \in Nat /\ Len(info) > 0 /\ DOMAIN info = 1 .. Len(info)
         /\ Head(info) = info[1] /\ Head(info) \in Groups
         /\ Tail(info) \in Seq(Groups) /\ Len(Tail(info)) = Len(info) - 1
         /\ DOMAIN Tail(info) = 1 .. Len(info) - 1
         /\ \A i \in 1 .. Len(info) - 1 : Tail(info)[i] = info[i + 1]
<1>1. info \in Seq(Groups)
  BY DEF TypeOK, info, Uses
<1> QED  BY <1>1, LenProperties, HeadTailProperties, EmptySeq

LEMMA TakeTypes ==
  ASSUME TypeOK, info # <<>>, queue' = [queue EXCEPT !["info"] = Tail(@)]
  PROVE  /\ queue' \in [Uses -> Seq(Groups)] /\ \A u \in Uses : Len(queue'[u]) <= Cap[u]
         /\ info' = Tail(info) /\ uart' = uart
<1>1. queue' = [queue EXCEPT !["info"] = Tail(info)]
  BY DEF info
<1>2. info' = Tail(info) /\ uart' = uart
  BY <1>1 DEF info, uart, TypeOK, Uses
<1>3. Tail(info) \in Seq(Groups) /\ Len(Tail(info)) = Len(info) - 1 /\ Len(info) \in Nat
  BY Oldest
<1>4. queue' \in [Uses -> Seq(Groups)]
  BY <1>1, <1>3 DEF TypeOK
<1>5. Len(info) <= Cap["info"] /\ Len(uart) <= Cap["uart"] /\ Cap["info"] \in Nat
  BY BoundAssumption DEF TypeOK, info, uart, Uses, Cap
<1>6. Len(queue'["info"]) <= Cap["info"]
  BY <1>2, <1>3, <1>5 DEF info
<1>7. Len(queue'["uart"]) <= Cap["uart"]
  BY <1>2, <1>5 DEF uart
<1> QED  BY <1>2, <1>4, <1>6, <1>7 DEF Uses

LEMMA PostTypes ==
  ASSUME TypeOK, Control, NEW u \in Uses, Post(u)
  PROVE  /\ <<made, u>> \in Groups
         /\ queue' = [queue EXCEPT ![u] = Append(queue[u], <<made, u>>)]
         /\ queue' \in [Uses -> Seq(Groups)] /\ \A v \in Uses : Len(queue'[v]) <= Cap[v]
         /\ \A v \in Uses : queue'[v] = IF v = u THEN Append(queue[u], <<made, u>>) ELSE queue[v]
         /\ Len(queue'[u]) = Len(queue[u]) + 1 /\ DOMAIN queue'[u] = 1 .. Len(queue[u]) + 1
         /\ Len(queue[u]) \in Nat /\ DOMAIN queue[u] = 1 .. Len(queue[u])
         /\ \A i \in 1 .. Len(queue[u]) : queue'[u][i] = queue[u][i]
         /\ queue'[u][Len(queue[u]) + 1] = <<made, u>>
<1>1. made \in Results /\ <<made, u>> \in Groups
  BY BoundAssumption DEF Post, At, Uses, Control, TypeOK, Groups, Results
<1>2. queue[u] \in Seq(Groups) /\ Len(queue[u]) \in Nat /\ DOMAIN queue[u] = 1 .. Len(queue[u])
  BY LenProperties DEF TypeOK
<1>3. queue' = [queue EXCEPT ![u] = Append(queue[u], <<made, u>>)]
  BY DEF Post
<1>4. \A v \in Uses : queue'[v] = IF v = u THEN Append(queue[u], <<made, u>>) ELSE queue[v]
  BY <1>3 DEF TypeOK
<1> DEFINE q == Append(queue[u], <<made, u>>)
<1>5. /\ q \in Seq(Groups) /\ Len(q) = Len(queue[u]) + 1 /\ DOMAIN q = 1 .. Len(queue[u]) + 1
      /\ \A i \in 1 .. Len(queue[u]) : q[i] = queue[u][i]
      /\ q[Len(queue[u]) + 1] = <<made, u>>
  BY <1>1, <1>2, AppendProperties, LenProperties
<1> HIDE DEF q
<1>6. queue' \in [Uses -> Seq(Groups)]
  BY <1>3, <1>5 DEF TypeOK, q
<1>7. \A v \in Uses : Len(queue[v]) <= Cap[v] /\ Cap[v] \in Nat
  BY BoundAssumption DEF TypeOK, Cap, Uses
<1>8. Len(queue[u]) < Cap[u]
  BY DEF Post
<1>9. queue'[u] = q
  BY <1>4 DEF q
<1>10. \A v \in Uses : Len(queue'[v]) <= Cap[v]
  <2> TAKE v \in Uses
  <2>1. CASE v = u
    BY <1>2, <1>5, <1>7, <1>8, <1>9, <2>1
  <2>2. CASE v # u
    BY <1>4, <1>7, <2>2
  <2> QED  BY <2>1, <2>2
<1> QED  BY <1>1, <1>2, <1>3, <1>4, <1>5, <1>6, <1>9, <1>10

LEMMA InferTypes == ASSUME TypeOK, Control, Infer PROVE TypeOK' /\ Control'
<1> USE DEF Goto, At, screen, memory
<1>1. CASE Begin("rknn") \/ Skip("rknn") \/ Stop("rknn")
  BY <1>1 DEF Begin, Skip, Stop, TypeOK, Control
<1>2. ASSUME NEW u \in Uses, Post(u) PROVE TypeOK' /\ Control'
  <2>1. queue' \in [Uses -> Seq(Groups)] /\ \A v \in Uses : Len(queue'[v]) <= Cap[v]
    BY <1>2, PostTypes
  <2>2. AfterPost(u) \in {"uart", "top"} /\ (AfterPost(u) = "uart" => made > 0)
    BY <1>2 DEF AfterPost, Post, Control, Uses
  <2>3. TypeOK'
    BY <1>2, <2>1, <2>2 DEF Post, TypeOK
  <2>4. Control'
    BY <1>2, <2>2 DEF Post, TypeOK, Control
  <2> QED  BY <2>3, <2>4
<1>3. ASSUME NEW u \in Uses, PostTimesOut(u) PROVE TypeOK' /\ Control'
  <2>1. AfterPost(u) \in {"uart", "top"} /\ (AfterPost(u) = "uart" => made > 0)
    BY <1>3 DEF AfterPost, PostTimesOut, Control, Uses
  <2>2. <<made, u>> \in Groups
    BY <1>3, BoundAssumption DEF PostTimesOut, Uses, Control, TypeOK, Groups, Results
  <2>3. TypeOK'
    BY <1>3, <2>1, <2>2 DEF PostTimesOut, TypeOK
  <2>4. Control'
    BY <1>3, <2>1 DEF PostTimesOut, TypeOK, Control
  <2> QED  BY <2>3, <2>4
<1> QED  BY <1>1, <1>2, <1>3 DEF Infer

LEMMA DetectTypes == ASSUME TypeOK, Control, Detect PROVE TypeOK' /\ Control'
<1> USE BoundAssumption DEF Goto, At, screen, memory, Detect
<1>1. made' \in 0 .. MaxResults /\ objects' \subseteq 1 .. made'
  BY DEF TypeOK
<1>2. TypeOK'
  BY <1>1 DEF TypeOK
<1>3. Control'
  BY DEF TypeOK, Control
<1> QED  BY <1>2, <1>3

LEMMA DeleteTypes ==
  ASSUME TypeOK, NEW grps, Delete(grps)
  PROVE  freed' \in [Groups -> Nat]
BY DEF TypeOK, Delete

LEMMA DisplayTypes == ASSUME TypeOK, Control, Display PROVE TypeOK' /\ Control'
<1> USE DEF Goto, At, screen, memory
<1>1. CASE Begin("disp") \/ Skip("disp") \/ Stop("disp")
  <2>1. pc' \in [{"rknn", "disp", "uart"}
                  -> {"top", "in", "info", "uart", "show", "send", "done"}]
        /\ UNCHANGED <<run, made, objects, queue, screen, uartGrp, memory, sent, errs>>
    <3>1. CASE Begin("disp")
      BY <3>1 DEF Begin, TypeOK
    <3>2. CASE Skip("disp")
      BY <3>2 DEF Skip, TypeOK
    <3>3. CASE Stop("disp")
      BY <3>3 DEF Stop, TypeOK
    <3> QED  BY <1>1, <3>1, <3>2, <3>3
  <2>2. Control'
    BY <1>1 DEF Begin, Skip, Stop, TypeOK, Control
  <2>3. TypeOK'
    BY <2>1 DEF TypeOK
  <2> QED  BY <2>2, <2>3
<1>2. CASE DispTake
  <2>1. /\ queue' \in [Uses -> Seq(Groups)] /\ \A u \in Uses : Len(queue'[u]) <= Cap[u]
        /\ newGrp' \in Groups \cup {NoGrp}
    BY <1>2, TakeTypes, Oldest DEF DispTake, TakeInfo, TypeOK, info
  <2>2. TypeOK'
    BY <1>2, <2>1 DEF DispTake, TypeOK
  <2>3. Control'
    BY <1>2 DEF DispTake, TypeOK, Control
  <2> QED  BY <2>2, <2>3
<1>3. CASE DispFails
  BY <1>3, BoundAssumption DEF DispFails, TypeOK, Control
<1>4. CASE DispShow
  <2> DEFINE fresh == newGrp # NoGrp
             grp == IF fresh THEN newGrp ELSE detGrp
  <2>1. freed' \in [Groups -> Nat]
    BY <1>4, DeleteTypes DEF DispShow
  <2>2. grp \in Groups \cup {NoGrp} /\ (grp # NoGrp => grp[1] \in Results)
    BY DEF TypeOK, Groups
  <2>3. detGrp' \in Groups \cup {NoGrp} /\ drawn' \subseteq Results
    BY <1>4, <2>2 DEF DispShow, TypeOK
  <2>4. life' \in Int /\ draws' \in Nat
    BY <1>4, BoundAssumption DEF DispShow, TypeOK
  <2>5. TypeOK'
    BY <1>4, <2>1, <2>3, <2>4 DEF DispShow, TypeOK
  <2>6. Control'
    BY <1>4 DEF DispShow, TypeOK, Control
  <2> QED  BY <2>5, <2>6
<1> QED  BY <1>1, <1>2, <1>3, <1>4 DEF Display

LEMMA SerialTypes == ASSUME TypeOK, Control, Serial PROVE TypeOK' /\ Control'
<1> USE DEF Goto, At, screen, memory
<1>1. CASE Begin("uart") \/ Stop("uart")
  BY <1>1 DEF Begin, Stop, TypeOK, Control
<1>2. CASE UartTake
  <2>1. /\ queue' \in [Uses -> Seq(Groups)] /\ \A u \in Uses : Len(queue'[u]) <= Cap[u]
        /\ uartGrp' \in Groups \cup {NoGrp}
    BY <1>2, TakeTypes, Oldest DEF UartTake, TakeInfo, TypeOK, info
  <2>2. TypeOK'
    BY <1>2, <2>1 DEF UartTake, TypeOK
  <2>3. Control'
    BY <1>2 DEF UartTake, TypeOK, Control
  <2> QED  BY <2>2, <2>3
<1>3. CASE UartSend
  <2>1. freed' \in [Groups -> Nat]
    BY <1>3, DeleteTypes DEF UartSend
  <2>2. sent' \subseteq Results
    BY <1>3 DEF UartSend, TypeOK, Groups
  <2>3. TypeOK'
    BY <1>3, <2>1, <2>2 DEF UartSend, TypeOK
  <2>4. Control'
    BY <1>3 DEF UartSend, TypeOK, Control
  <2> QED  BY <2>3, <2>4
<1> QED  BY <1>1, <1>2, <1>3 DEF Serial

LEMMA TypesInductive == ASSUME TypeOK, Control, [Next]_vars PROVE TypeOK' /\ Control'
<1>1. CASE Interrupt \/ UNCHANGED vars
  BY <1>1 DEF Interrupt, vars, screen, memory, At, TypeOK, Control
<1> QED  BY <1>1, InferTypes, DetectTypes, DisplayTypes, SerialTypes DEF Next
-----------------------------------------------------------------------------
(* The order of the groups.                                                *)
LEMMA PostOrder ==
  ASSUME TypeOK, Control, InOrder, NEW u \in Uses, Post(u)
  PROVE  InOrder'
<1>1. /\ UNCHANGED <<made, newGrp, detGrp, uartGrp>> /\ pc' = [pc EXCEPT !["rknn"] = AfterPost(u)]
      /\ pc["rknn"] = u /\ pc'["rknn"] # "info"
  BY DEF Post, Goto, At, screen, TypeOK, AfterPost
<1>2. CASE u = "uart"
  <2>1. info' = info
    BY <1>2, PostTypes DEF info, Uses
  <2> QED  BY <1>1, <2>1 DEF InOrder, At
<1>3. CASE u = "info"
  <2>1. /\ Len(info) \in Nat /\ DOMAIN info = 1 .. Len(info) /\ DOMAIN info' = 1 .. Len(info) + 1
        /\ \A i \in 1 .. Len(info) : info'[i] = info[i]
        /\ info'[Len(info) + 1] = <<made, "info">>
    BY <1>3, PostTypes DEF info
  <2>2. made \in Nat
    BY BoundAssumption DEF TypeOK
  <2>3. /\ \A i \in 1 .. Len(info) : info[i][2] = "info" /\ info[i][1] < made
        /\ \A g \in {newGrp, detGrp, uartGrp} \ {NoGrp} :
             g[2] = "info" /\ g[1] < made /\ \A i \in 1 .. Len(info) : g[1] < info[i][1]
    BY <1>1, <1>3, <2>1 DEF InOrder, At
  <2>4. \A i \in DOMAIN info' : info'[i][2] = "info" /\ info'[i][1] <= made
    <3> TAKE i \in DOMAIN info'
    <3>1. CASE i \in 1 .. Len(info)
      BY <2>1, <2>2, <2>3, <3>1 DEF InOrder
    <3>2. CASE i = Len(info) + 1
      BY <2>1, <2>2, <3>2
    <3> QED  BY <2>1, <3>1, <3>2
  <2>5. \A i, j \in DOMAIN info' : i < j => info'[i][1] < info'[j][1]
    <3> TAKE i, j \in DOMAIN info'
    <3> HAVE i < j
    <3>1. i \in 1 .. Len(info)
      BY <2>1
    <3>2. CASE j \in 1 .. Len(info)
      BY <2>1, <3>1, <3>2 DEF InOrder
    <3>3. CASE j = Len(info) + 1
      BY <2>1, <2>3, <3>1, <3>3
    <3> QED  BY <2>1, <3>2, <3>3
  <2>6. \A g \in {newGrp, detGrp, uartGrp} \ {NoGrp} : \A i \in DOMAIN info' : g[1] < info'[i][1]
    <3> TAKE g \in {newGrp, detGrp, uartGrp} \ {NoGrp}
    <3> TAKE i \in DOMAIN info'
    <3>1. CASE i \in 1 .. Len(info)
      BY <2>1, <2>3, <3>1
    <3>2. CASE i = Len(info) + 1
      BY <2>1, <2>3, <3>2
    <3> QED  BY <2>1, <3>1, <3>2
  <2> HIDE DEF info
  <2> QED  BY <1>1, <2>4, <2>5, <2>6 DEF InOrder, At
<1> QED  BY <1>2, <1>3 DEF Uses

LEMMA TakeOrder ==
  ASSUME TypeOK, Control, InOrder,
         UNCHANGED made, At("rknn", "info")' = At("rknn", "info"),
         \/ newGrp = NoGrp /\ TakeInfo(newGrp) /\ UNCHANGED <<detGrp, uartGrp>>
         \/ uartGrp = NoGrp /\ TakeInfo(uartGrp) /\ UNCHANGED <<newGrp, detGrp>>
  PROVE  InOrder'
<1>1. CASE info = <<>>
  <2>1. info' = info /\ {newGrp', detGrp', uartGrp'} \subseteq {newGrp, detGrp, uartGrp}
        /\ newGrp' = newGrp /\ detGrp' = detGrp
    BY <1>1 DEF TakeInfo, info
  <2> QED  BY <2>1 DEF InOrder
<1>2. CASE info # <<>>
  <2>1. queue' = [queue EXCEPT !["info"] = Tail(@)]
    BY <1>2 DEF TakeInfo, info
  <2>2. info' = Tail(info)
    BY <1>2, <2>1, TakeTypes
  <2>3. /\ Len(info) \in Nat /\ Len(info) > 0 /\ DOMAIN info = 1 .. Len(info)
        /\ Head(info) = info[1]
        /\ DOMAIN info' = 1 .. Len(info) - 1
        /\ \A i \in DOMAIN info' : info'[i] = info[i + 1] /\ i + 1 \in DOMAIN info
    BY <1>2, <2>2, Oldest
  <2>4. \/ newGrp' = Head(info) /\ newGrp = NoGrp /\ UNCHANGED <<detGrp, uartGrp>>
        \/ uartGrp' = Head(info) /\ uartGrp = NoGrp /\ UNCHANGED <<newGrp, detGrp>>
    BY <1>2 DEF TakeInfo, info
  <2>5. /\ Head(info)[2] = "info" /\ Head(info)[1] <= made
        /\ At("rknn", "info") => Head(info)[1] < made
        /\ \A i \in DOMAIN info' : Head(info)[1] < info'[i][1]
        /\ detGrp # NoGrp => detGrp[1] < Head(info)[1]
    BY <2>3 DEF InOrder
  <2>6. \A g \in {newGrp', detGrp', uartGrp'} \ {NoGrp} :
           g = Head(info) \/ g \in {newGrp, detGrp, uartGrp} \ {NoGrp}
    BY <2>4
  <2>7. /\ \A i \in DOMAIN info' :
             /\ info'[i][2] = "info" /\ info'[i][1] <= made
             /\ At("rknn", "info") => info'[i][1] < made
        /\ \A i, j \in DOMAIN info' : i < j => info'[i][1] < info'[j][1]
    BY <2>3 DEF InOrder
  <2>8. \A g \in {newGrp', detGrp', uartGrp'} \ {NoGrp} :
          /\ g[2] = "info" /\ g[1] <= made /\ (At("rknn", "info") => g[1] < made)
          /\ \A i \in DOMAIN info' : g[1] < info'[i][1]
    BY <2>3, <2>5, <2>6 DEF InOrder
  <2>9. newGrp' # NoGrp /\ detGrp' # NoGrp => detGrp'[1] < newGrp'[1]
    BY <2>4, <2>5 DEF InOrder
  <2> HIDE DEF info
  <2> QED  BY <2>7, <2>8, <2>9 DEF InOrder
<1> QED  BY <1>1, <1>2

LEMMA OrderInductive ==
  ASSUME TypeOK, Control, InOrder, [Next]_vars
  PROVE  InOrder'
<1> USE DEF Goto, At, screen
<1>1. CASE \/ \E t \in {"rknn", "disp", "uart"} : Begin(t) \/ Skip(t) \/ Stop(t)
           \/ \E u \in Uses : PostTimesOut(u)
           \/ Interrupt \/ UNCHANGED vars
  <2>1. /\ UNCHANGED <<made, queue, newGrp, detGrp, uartGrp>>
        /\ pc'["rknn"] = "info" => pc["rknn"] = "info"
    BY <1>1 DEF Begin, Skip, Stop, PostTimesOut, AfterPost, Interrupt, vars, TypeOK, Uses
  <2> QED  BY <2>1 DEF InOrder, info
<1>2. CASE Detect
  <2>1. made \in Nat /\ made' = made + 1 /\ UNCHANGED <<queue, newGrp, detGrp, uartGrp>>
    BY <1>2, BoundAssumption DEF Detect, TypeOK
  <2>2. /\ \A i \in DOMAIN info : info[i][1] \in Nat
        /\ \A g \in {newGrp, detGrp, uartGrp} \ {NoGrp} : g[1] \in Nat
    <3>1. /\ \A g \in Groups : g[1] \in Nat
          /\ {newGrp, detGrp, uartGrp} \ {NoGrp} \subseteq Groups
      BY DEF TypeOK, Groups, Results
    <3>2. \A i \in DOMAIN info : info[i] \in Groups
      <4>1. info \in Seq(Groups)
        BY DEF info, TypeOK, Uses
      <4> QED  BY <4>1, ElementOfSeq, LenProperties
    <3> QED  BY <3>1, <3>2
  <2> QED  BY <2>1, <2>2 DEF InOrder, info
<1>3. CASE DispTake \/ UartTake
  BY <1>3, TakeOrder DEF DispTake, UartTake, Control, TypeOK
<1>4. CASE DispFails \/ UartSend
  <2>1. /\ UNCHANGED <<made, queue, detGrp>> /\ pc'["rknn"] = pc["rknn"]
        /\ newGrp' \in {newGrp, NoGrp} /\ uartGrp' \in {uartGrp, NoGrp}
    BY <1>4 DEF DispFails, UartSend, TypeOK
  <2> QED  BY <2>1 DEF InOrder, info
<1>5. CASE DispShow
  <2>1. /\ UNCHANGED <<made, queue, uartGrp>> /\ pc'["rknn"] = pc["rknn"]
        /\ newGrp' = NoGrp /\ detGrp' \in {newGrp, detGrp, NoGrp}
    BY <1>5 DEF DispShow, TypeOK
  <2> QED  BY <2>1 DEF InOrder, info
<1> QED
  BY <1>1, <1>2, <1>3, <1>4, <1>5, PostOrder DEF Next, Infer, Display, Serial
-----------------------------------------------------------------------------
(* uart_queue.                                                             *)
LEMMA FirstResultsInductive ==
  ASSUME TypeOK, Control, InOrder, FirstResults, [Next]_vars
  PROVE  FirstResults'
<1> USE DEF Goto, At, screen, memory
<1>1. made \in Nat /\ Len(uart) \in Nat /\ Len(uart) <= UartCap /\ UartCap \in Nat
  <2>1. uart \in Seq(Groups) /\ Len(queue["uart"]) <= Cap["uart"] /\ Cap["uart"] = UartCap
    BY DEF TypeOK, uart, Uses, Cap
  <2> QED  BY <2>1, BoundAssumption, LenProperties DEF TypeOK, uart
<1>2. CASE \/ \E t \in {"rknn", "disp", "uart"} : Begin(t) \/ Skip(t) \/ Stop(t)
           \/ Interrupt \/ UNCHANGED vars \/ DispTake \/ UartTake \/ DispFails \/ DispShow
           \/ UartSend \/ Post("info") \/ PostTimesOut("info")
  <2>1. /\ UNCHANGED <<made, uart>>
        /\ \A g \in leaked' : g[2] = "uart" => g \in leaked
    <3>1. CASE \/ \E t \in {"rknn", "disp", "uart"} : Begin(t) \/ Skip(t) \/ Stop(t)
               \/ Interrupt \/ UNCHANGED vars \/ DispFails \/ DispShow \/ UartSend
               \/ PostTimesOut("info")
      <4>1. UNCHANGED <<made, queue>>
        BY <3>1 DEF Begin, Skip, Stop, Interrupt, vars, DispFails, DispShow, UartSend, PostTimesOut
      <4>2. leaked' = leaked \/ leaked' = leaked \cup ({newGrp} \ {NoGrp})
              \/ leaked' = leaked \cup {<<made, "info">>}
        BY <3>1 DEF Begin, Skip, Stop, Interrupt, vars, DispFails, DispShow, UartSend, PostTimesOut
      <4>3. newGrp # NoGrp => newGrp[2] = "info"
        BY DEF InOrder
      <4> QED  BY <4>1, <4>2, <4>3 DEF uart
    <3>2. CASE DispTake \/ UartTake
      BY <3>2, TakeTypes DEF DispTake, UartTake, TakeInfo, info, uart
    <3>3. CASE Post("info")
      BY <3>3, PostTypes DEF Post, uart, Uses
    <3> QED  BY <1>2, <3>1, <3>2, <3>3
  <2>2. Posting' = Posting
    BY <1>2 DEF Begin, Skip, Stop, Interrupt, vars, DispTake, UartTake, DispFails, DispShow,
         UartSend, Post, PostTimesOut, AfterPost, Posting, TypeOK, Control
  <2> QED  BY <2>1, <2>2 DEF FirstResults
<1>3. CASE Detect
  <2>1. One(Posting) = 0 /\ One(Posting') = 1
    BY <1>3 DEF Detect, Posting, One, TypeOK
  <2>2. made' = made + 1 /\ UNCHANGED <<uart, leaked>>
    BY <1>3 DEF Detect, uart
  <2> QED  BY <1>1, <2>1, <2>2 DEF FirstResults
<1>4. CASE Post("uart")
  <2>1. One(Posting) = 1 /\ One(Posting') = 0
    BY <1>4 DEF Post, Posting, One, TypeOK, AfterPost
  <2>2. /\ UNCHANGED <<made, leaked>> /\ Len(uart) < UartCap
        /\ Len(uart') = Len(uart) + 1
        /\ DOMAIN uart = 1 .. Len(uart) /\ DOMAIN uart' = 1 .. Len(uart) + 1
        /\ \A i \in 1 .. Len(uart) : uart'[i] = uart[i]
        /\ uart'[Len(uart) + 1] = <<made, "uart">>
    BY <1>4, PostTypes DEF Post, uart, Uses, Cap
  <2>3. Len(uart) = made - 1
    BY <2>1, <2>2 DEF FirstResults
  <2>4. \A i \in DOMAIN uart' : uart'[i] = <<i, "uart">>
    <3> TAKE i \in DOMAIN uart'
    <3>1. CASE i \in 1 .. Len(uart)
      BY <2>2, <3>1 DEF FirstResults
    <3>2. CASE i = Len(uart) + 1
      BY <1>1, <2>2, <2>3, <3>2
    <3> QED  BY <1>1, <2>2, <3>1, <3>2
  <2>5. \A g \in leaked : g[2] # "uart"
    BY <1>1, <2>2 DEF FirstResults
  <2> HIDE DEF uart
  <2> QED  BY <1>1, <2>1, <2>2, <2>3, <2>4, <2>5 DEF FirstResults
<1>5. CASE PostTimesOut("uart")
  <2>1. One(Posting) = 1 /\ One(Posting') = 0
    BY <1>5 DEF PostTimesOut, Posting, One, TypeOK, AfterPost
  <2>2. UNCHANGED <<made, uart>> /\ Len(uart) = UartCap
    BY <1>1, <1>5 DEF PostTimesOut, uart, Cap
  <2> QED  BY <1>1, <2>1, <2>2 DEF FirstResults
<1> QED
  BY <1>2, <1>3, <1>4, <1>5 DEF Next, Infer, Display, Serial, Uses
-----------------------------------------------------------------------------
(* Ownership.                                                              *)
LEMMA GroupFacts ==
  ASSUME TypeOK
  PROVE  /\ \A g \in Groups : g[1] \in Nat /\ g[2] \in Uses /\ g = <<g[1], g[2]>> /\ g # NoGrp
         /\ made \in Nat /\ freed \in [Groups -> Nat]
BY BoundAssumption, NoGrpAssumption DEF TypeOK, Groups, Results

(* What is queued or held was made before.                                 *)
LEMMA OwnedIsMade ==
  ASSUME TypeOK, InOrder, FirstResults, NEW g \in Groups,
         Waits(g) \/ newGrp = g \/ detGrp = g \/ uartGrp = g
  PROVE  g[1] <= made
<1>1. CASE Waits(g)
  <2>1. CASE g[2] = "info"
    BY <1>1, <2>1 DEF Waits, InOrder, info
  <2>2. CASE g[2] = "uart"
    <3>1. PICK i \in DOMAIN uart : uart[i] = g
      BY <1>1, <2>2 DEF Waits, uart
    <3>2. g[1] = i
      BY <3>1 DEF FirstResults
    <3>3. i \in 1 .. Len(uart) /\ Len(uart) \in Nat
      <4>1. uart \in Seq(Groups)
        BY DEF uart, TypeOK, Uses
      <4> QED  BY <3>1, <4>1, LenProperties
    <3>4. Len(uart) <= made
      BY <3>3, GroupFacts DEF FirstResults, One
    <3> QED  BY <3>2, <3>3, <3>4, GroupFacts
  <2> QED  BY <2>1, <2>2, GroupFacts DEF Uses
<1>2. CASE newGrp = g \/ detGrp = g \/ uartGrp = g
  BY <1>2, GroupFacts DEF InOrder
<1> QED  BY <1>1, <1>2

LEMMA DetectOwner ==
  ASSUME TypeOK, InOrder, FirstResults, OneOwner, Detect
  PROVE  OneOwner'
<1> SUFFICES ASSUME NEW g \in Groups
             PROVE  /\ g[1] <= made' =>
                         One(InHand(g)') + One(Waits(g)') + One(newGrp' = g) + One(detGrp' = g)
                           + One(uartGrp' = g) + freed'[g] + One(g \in leaked') = 1
                    /\ g[1] > made' => freed'[g] = 0 /\ g \notin leaked'
  BY DEF OneOwner
<1>1. /\ made' = made + 1 /\ UNCHANGED <<queue, newGrp, detGrp, uartGrp, freed, leaked>>
      /\ pc["rknn"] = "in" /\ pc'["rknn"] = "info"
  BY DEF Detect, At, Goto, screen, memory, TypeOK
<1>2. Waits(g)' = Waits(g)
  BY <1>1 DEF Waits
<1>3. CASE g[1] <= made
  BY <1>1, <1>2, <1>3, GroupFacts DEF OneOwner, InHand, At
<1>4. CASE g[1] = made + 1
  <2>1. InHand(g)'
    BY <1>1, <1>4 DEF InHand, At
  <2>2. ~Waits(g) /\ newGrp # g /\ detGrp # g /\ uartGrp # g
    BY <1>4, OwnedIsMade, GroupFacts
  <2>3. freed[g] = 0 /\ g \notin leaked
    BY <1>4, GroupFacts DEF OneOwner
  <2> QED  BY <1>1, <1>2, <1>4, <2>1, <2>2, <2>3, GroupFacts DEF One
<1>5. CASE g[1] > made + 1
  BY <1>1, <1>5, GroupFacts DEF OneOwner
<1> QED  BY <1>3, <1>4, <1>5, GroupFacts

(* The poster hands its copy over, or drops it.                            *)
LEMMA PostedCopy ==
  ASSUME TypeOK, Control, NEW u \in Uses, Post(u) \/ PostTimesOut(u), NEW g \in Groups
  PROVE  IF g = <<made, u>> THEN InHand(g) /\ ~InHand(g)' ELSE InHand(g)' = InHand(g)
<1>1. /\ made' = made /\ pc' = [pc EXCEPT !["rknn"] = AfterPost(u)] /\ pc["rknn"] = u
  BY DEF Post, PostTimesOut, At, Goto
<1>2. pc'["rknn"] = AfterPost(u)
  BY <1>1 DEF TypeOK
<1>3. g[2] \in Uses /\ g = <<g[1], g[2]>>
  BY GroupFacts
<1> QED  BY <1>1, <1>2, <1>3 DEF InHand, At, AfterPost, Uses

LEMMA PostOwner ==
  ASSUME TypeOK, Control, OneOwner, NEW u \in Uses, Post(u)
  PROVE  OneOwner'
<1> SUFFICES ASSUME NEW g \in Groups
             PROVE  /\ g[1] <= made' =>
                         One(InHand(g)') + One(Waits(g)') + One(newGrp' = g) + One(detGrp' = g)
                           + One(uartGrp' = g) + freed'[g] + One(g \in leaked') = 1
                    /\ g[1] > made' => freed'[g] = 0 /\ g \notin leaked'
  BY DEF OneOwner
<1>1. UNCHANGED <<made, newGrp, detGrp, uartGrp, freed, leaked>>
  BY DEF Post, screen, memory
<1>2. Waits(g)' <=> (Waits(g) \/ g = <<made, u>>)
  <2>1. /\ \A v \in Uses : v # u => queue'[v] = queue[v]
        /\ Len(queue[u]) \in Nat
        /\ DOMAIN queue[u] = 1 .. Len(queue[u]) /\ DOMAIN queue'[u] = 1 .. Len(queue[u]) + 1
        /\ \A i \in 1 .. Len(queue[u]) : queue'[u][i] = queue[u][i]
        /\ queue'[u][Len(queue[u]) + 1] = <<made, u>>
    BY PostTypes
  <2>2. CASE g[2] = u
    <3>1. \A i \in 1 .. Len(queue[u]) + 1 : i \in 1 .. Len(queue[u]) \/ i = Len(queue[u]) + 1
      BY <2>1
    <3>2. /\ \A i \in 1 .. Len(queue[u]) : i \in 1 .. Len(queue[u]) + 1
          /\ Len(queue[u]) + 1 \in 1 .. Len(queue[u]) + 1
      BY <2>1
    <3> QED  BY <2>1, <2>2, <3>1, <3>2 DEF Waits
  <2>3. CASE g[2] # u
    BY <2>1, <2>3, GroupFacts DEF Waits
  <2> QED  BY <2>2, <2>3
<1>3. CASE g = <<made, u>>
  <2>1. InHand(g) /\ ~InHand(g)' /\ Waits(g)'
    BY <1>2, <1>3, PostedCopy
  <2>2. g[1] = made
    BY <1>3
  <2> QED  BY <1>1, <2>1, <2>2, GroupFacts DEF OneOwner, One
<1>4. CASE g # <<made, u>>
  <2>1. InHand(g)' = InHand(g) /\ Waits(g)' = Waits(g)
    BY <1>2, <1>4, PostedCopy DEF Waits
  <2> QED  BY <1>1, <2>1 DEF OneOwner
<1> QED  BY <1>3, <1>4

LEMMA TimeOutOwner ==
  ASSUME TypeOK, Control, OneOwner, NEW u \in Uses, PostTimesOut(u)
  PROVE  OneOwner'
<1> SUFFICES ASSUME NEW g \in Groups
             PROVE  /\ g[1] <= made' =>
                         One(InHand(g)') + One(Waits(g)') + One(newGrp' = g) + One(detGrp' = g)
                           + One(uartGrp' = g) + freed'[g] + One(g \in leaked') = 1
                    /\ g[1] > made' => freed'[g] = 0 /\ g \notin leaked'
  BY DEF OneOwner
<1>1. UNCHANGED <<made, queue, newGrp, detGrp, uartGrp, freed>> /\ leaked' = leaked \cup {<<made, u>>}
  BY DEF PostTimesOut, screen
<1>2. Waits(g)' = Waits(g)
  BY <1>1 DEF Waits
<1>3. CASE g = <<made, u>>
  <2>1. InHand(g) /\ ~InHand(g)' /\ g \in leaked'
    BY <1>1, <1>3, PostedCopy
  <2>2. g[1] = made
    BY <1>3
  <2> QED  BY <1>1, <1>2, <2>1, <2>2, GroupFacts DEF OneOwner, One
<1>4. CASE g # <<made, u>>
  <2>1. InHand(g)' = InHand(g)
    BY <1>4, PostedCopy
  <2> QED  BY <1>1, <1>2, <1>4, <2>1 DEF OneOwner
<1> QED  BY <1>3, <1>4

(* The oldest group goes from the queue to the thread that takes it.       *)
LEMMA TakeOwner ==
  ASSUME TypeOK, InOrder, OneOwner,
         UNCHANGED <<made, detGrp, freed, leaked>>, pc'["rknn"] = pc["rknn"],
         \/ newGrp = NoGrp /\ TakeInfo(newGrp) /\ UNCHANGED uartGrp
         \/ uartGrp = NoGrp /\ TakeInfo(uartGrp) /\ UNCHANGED newGrp
  PROVE  OneOwner'
<1> SUFFICES ASSUME NEW g \in Groups
             PROVE  /\ g[1] <= made' =>
                         One(InHand(g)') + One(Waits(g)') + One(newGrp' = g) + One(detGrp' = g)
                           + One(uartGrp' = g) + freed'[g] + One(g \in leaked') = 1
                    /\ g[1] > made' => freed'[g] = 0 /\ g \notin leaked'
  BY DEF OneOwner
<1>1. InHand(g)' = InHand(g)
  BY DEF InHand, At
<1>2. CASE info = <<>>
  <2>1. UNCHANGED <<queue, newGrp, uartGrp>>
    BY <1>2 DEF TakeInfo, info
  <2>2. Waits(g)' = Waits(g)
    BY <2>1 DEF Waits
  <2> QED  BY <1>1, <2>1, <2>2 DEF OneOwner
<1>3. CASE info # <<>>
  <2>1. queue' = [queue EXCEPT !["info"] = Tail(@)]
    BY <1>3 DEF TakeInfo, info
  <2>2. info' = Tail(info) /\ uart' = uart
    BY <1>3, <2>1, TakeTypes
  <2>3. /\ Len(info) \in Nat /\ Len(info) > 0 /\ DOMAIN info = 1 .. Len(info)
        /\ Head(info) = info[1] /\ Head(info) \in Groups
        /\ DOMAIN info' = 1 .. Len(info) - 1
        /\ \A i \in 1 .. Len(info) - 1 : info'[i] = info[i + 1]
    BY <1>3, <2>2, Oldest
  <2>4. \/ newGrp' = Head(info) /\ newGrp = NoGrp /\ UNCHANGED uartGrp
        \/ uartGrp' = Head(info) /\ uartGrp = NoGrp /\ UNCHANGED newGrp
    BY <1>3 DEF TakeInfo, info
  <2>5. CASE g = Head(info)
    <3>1. g[2] = "info" /\ 1 \in DOMAIN info
      BY <2>3, <2>5 DEF InOrder
    <3>2. Waits(g)
      BY <2>3, <2>5, <3>1 DEF Waits, info
    <3>3. \A i \in DOMAIN info' : info'[i][1] > g[1]
      BY <2>3, <2>5 DEF InOrder
    <3>4. ~Waits(g)'
      BY <3>1, <3>3, GroupFacts DEF Waits, info
    <3>5. g[1] <= made
      BY <2>3, <2>5, <3>1 DEF InOrder
    <3>6. newGrp # g /\ uartGrp # g
      BY <3>2, <3>5, GroupFacts DEF OneOwner, One, InHand
    <3> HIDE DEF info
    <3> QED  BY <1>1, <2>4, <2>5, <3>2, <3>4, <3>5, <3>6, GroupFacts DEF OneOwner, One
  <2>6. CASE g # Head(info)
    <3>1. Waits(g)' <=> Waits(g)
      <4>1. CASE g[2] = "uart"
        BY <2>2, <4>1 DEF Waits, uart
      <4>2. CASE g[2] = "info"
        <5>1. \A i \in 1 .. Len(info) - 1 : i + 1 \in 1 .. Len(info)
          BY <2>3
        <5>2. \A i \in 1 .. Len(info) : i = 1 \/ (i - 1 \in 1 .. Len(info) - 1 /\ (i - 1) + 1 = i)
          BY <2>3
        <5>3. ASSUME NEW i \in DOMAIN info', info'[i] = g PROVE \E j \in DOMAIN info : info[j] = g
          BY <2>3, <5>1, <5>3
        <5>4. ASSUME NEW i \in DOMAIN info, info[i] = g PROVE \E j \in DOMAIN info' : info'[j] = g
          <6>1. i # 1
            BY <2>3, <2>6, <5>4
          <6>2. i - 1 \in DOMAIN info' /\ info'[i - 1] = g
            BY <2>3, <5>2, <5>4, <6>1
          <6> QED  BY <6>2
        <5> QED  BY <4>2, <5>3, <5>4 DEF Waits, info
      <4> QED  BY <4>1, <4>2, GroupFacts DEF Uses
    <3>2. (newGrp' = g <=> newGrp = g) /\ (uartGrp' = g <=> uartGrp = g)
      BY <2>4, <2>6, GroupFacts
    <3> QED  BY <1>1, <3>1, <3>2, GroupFacts DEF OneOwner, One
  <2> QED  BY <2>5, <2>6
<1> QED  BY <1>2, <1>3

LEMMA ShowOwner ==
  ASSUME TypeOK, InOrder, OneOwner, DispShow
  PROVE  OneOwner'
<1> DEFINE fresh == newGrp # NoGrp
           grp == IF fresh THEN newGrp ELSE detGrp
           gone == (IF fresh THEN {detGrp} ELSE {}) \cup (IF detGrp' = NoGrp THEN {grp} ELSE {})
<1>1. /\ UNCHANGED <<made, queue, uartGrp, leaked>> /\ pc'["rknn"] = pc["rknn"]
      /\ newGrp' = NoGrp /\ detGrp' \in {grp, NoGrp}
  BY DEF DispShow, Goto, TypeOK
<1>2. \A g \in Groups : freed'[g] = freed[g] + One(g \in gone)
  BY <1>1, GroupFacts DEF DispShow, Delete, One
<1>3. newGrp # NoGrp => detGrp # newGrp
  BY GroupFacts DEF InOrder, TypeOK
<1> SUFFICES ASSUME NEW g \in Groups
             PROVE  /\ g[1] <= made' =>
                         One(InHand(g)') + One(Waits(g)') + One(newGrp' = g) + One(detGrp' = g)
                           + One(uartGrp' = g) + freed'[g] + One(g \in leaked') = 1
                    /\ g[1] > made' => freed'[g] = 0 /\ g \notin leaked'
  BY DEF OneOwner
<1>4. InHand(g)' = InHand(g) /\ Waits(g)' = Waits(g)
  BY <1>1 DEF InHand, At, Waits
<1>5. One(newGrp = g) + One(detGrp = g) = One(newGrp' = g) + One(detGrp' = g) + One(g \in gone)
  BY <1>1, <1>3, GroupFacts DEF One
<1>6. g \in gone => g[1] <= made
  BY GroupFacts DEF InOrder
<1> HIDE DEF gone
<1>7. CASE g[1] <= made
  BY <1>1, <1>2, <1>4, <1>5, <1>7, GroupFacts DEF OneOwner, One
<1>8. CASE g[1] > made
  BY <1>1, <1>2, <1>6, <1>8, GroupFacts DEF OneOwner, One
<1> QED  BY <1>7, <1>8, GroupFacts

LEMMA DropOwner ==
  ASSUME TypeOK, InOrder, OneOwner, DispFails \/ UartSend
  PROVE  OneOwner'
<1> SUFFICES ASSUME NEW g \in Groups
             PROVE  /\ g[1] <= made' =>
                         One(InHand(g)') + One(Waits(g)') + One(newGrp' = g) + One(detGrp' = g)
                           + One(uartGrp' = g) + freed'[g] + One(g \in leaked') = 1
                    /\ g[1] > made' => freed'[g] = 0 /\ g \notin leaked'
  BY DEF OneOwner
<1>1. UNCHANGED <<made, queue, detGrp>> /\ pc'["rknn"] = pc["rknn"]
  BY DEF DispFails, UartSend, Goto, screen, TypeOK
<1>2. InHand(g)' = InHand(g) /\ Waits(g)' = Waits(g)
  BY <1>1 DEF InHand, At, Waits
<1>3. CASE DispFails
  <2>1. /\ UNCHANGED <<uartGrp, freed>> /\ newGrp' = NoGrp
        /\ g \in leaked' <=> (g \in leaked \/ g = newGrp)
    BY <1>3, GroupFacts DEF DispFails
  <2>2. newGrp = g => g[1] <= made
    BY GroupFacts DEF InOrder
  <2> QED  BY <1>1, <1>2, <2>1, <2>2, GroupFacts DEF OneOwner, One
<1>4. CASE UartSend
  <2>1. /\ UNCHANGED <<newGrp, leaked>> /\ uartGrp' = NoGrp
        /\ freed'[g] = freed[g] + One(g = uartGrp)
    BY <1>4, GroupFacts DEF UartSend, Delete, One, screen
  <2>2. uartGrp = g => g[1] <= made
    BY GroupFacts DEF InOrder
  <2> QED  BY <1>1, <1>2, <2>1, <2>2, GroupFacts DEF OneOwner, One
<1> QED  BY <1>3, <1>4

LEMMA OwnerInductive ==
  ASSUME TypeOK, Control, InOrder, FirstResults, OneOwner, [Next]_vars
  PROVE  OneOwner'
<1> USE DEF Goto, At, screen, memory
<1>1. CASE \/ \E t \in {"rknn", "disp", "uart"} : Begin(t) \/ Skip(t) \/ Stop(t)
           \/ Interrupt \/ UNCHANGED vars
  <2>1. /\ UNCHANGED <<made, queue, newGrp, detGrp, uartGrp, freed, leaked>>
        /\ \/ pc'["rknn"] = pc["rknn"]
           \/ {pc["rknn"], pc'["rknn"]} \cap {"info", "uart"} = {}
    BY <1>1 DEF Begin, Skip, Stop, Interrupt, vars, TypeOK
  <2>2. \A g \in Groups : InHand(g)' = InHand(g) /\ Waits(g)' = Waits(g)
    BY <2>1 DEF InHand, Waits
  <2> QED  BY <2>1, <2>2 DEF OneOwner
<1>2. CASE DispTake \/ UartTake
  BY <1>2, TakeOwner DEF DispTake, UartTake, Control, TypeOK
<1> QED
  BY <1>1, <1>2, DetectOwner, PostOwner, TimeOutOwner, ShowOwner, DropOwner
  DEF Next, Infer, Display, Serial
-----------------------------------------------------------------------------
(* The outputs and the overlay.                                            *)
LEMMA FreedGrows ==
  ASSUME TypeOK, NEW grps, Delete(grps), NEW g \in Groups
  PROVE  (freed[g] > 0 \/ g \in grps) => freed'[g] > 0
BY DEF TypeOK, Delete

(* A group in a thread's hands is not deleted.                             *)
LEMMA HeldAlive ==
  ASSUME TypeOK, InOrder, OneOwner, NEW g \in {newGrp, detGrp, uartGrp}, g # NoGrp
  PROVE  /\ g \in Groups /\ g = <<g[1], "info">> /\ freed[g] = 0
         /\ uartGrp = g => detGrp # g /\ newGrp # g
<1>1. g \in Groups /\ g[1] <= made /\ g = <<g[1], "info">>
  BY GroupFacts DEF TypeOK, InOrder
<1> QED  BY <1>1, GroupFacts DEF OneOwner, One

LEMMA ShownInductive ==
  ASSUME TypeOK, InOrder, OneOwner, Shown, [Next]_vars
  PROVE  Shown'
<1> USE DEF screen, memory
<1>1. CASE DispShow
  <2> DEFINE fresh == newGrp # NoGrp
             grp == IF fresh THEN newGrp ELSE detGrp
             ended == grp # NoGrp /\ (IF fresh THEN Lifespan ELSE life) - 2 <= 0
             gone == (IF fresh THEN {detGrp} ELSE {}) \cup (IF ended THEN {grp} ELSE {})
  <2>1. /\ Delete(gone) /\ sent' = sent /\ detGrp' = IF ended THEN NoGrp ELSE grp
        /\ \/ drawn' = drawn
           \/ grp # NoGrp /\ detGrp' = grp /\ drawn' = drawn \cup {grp[1]}
    BY <1>1 DEF DispShow
  <2>2. \A n \in drawn \cup sent : <<n, "info">> \in Groups
    BY DEF TypeOK, Groups, Uses
  <2>3. \A n \in drawn : detGrp' = <<n, "info">> \/ freed'[<<n, "info">>] > 0
    <3> TAKE n \in drawn
    <3>1. CASE detGrp = <<n, "info">>
      <4>1. detGrp' = detGrp \/ detGrp \in gone
        BY <2>1
      <4> QED  BY <2>1, <2>2, <3>1, <4>1, FreedGrows
    <3>2. CASE freed[<<n, "info">>] > 0
      <4> HIDE DEF gone
      <4> QED  BY <2>1, <2>2, <3>2, FreedGrows
    <3> QED  BY <3>1, <3>2 DEF Shown
  <2>4. \A n \in sent : freed'[<<n, "info">>] > 0
    <3> HIDE DEF gone
    <3> QED  BY <2>1, <2>2, FreedGrows DEF Shown
  <2>5. grp # NoGrp => grp = <<grp[1], "info">> /\ grp[1] \notin sent
    BY <2>2, HeldAlive DEF Shown
  <2> HIDE DEF grp, gone
  <2> QED  BY <2>1, <2>3, <2>4, <2>5 DEF Shown
<1>2. CASE UartSend
  <2>1. /\ Delete({uartGrp}) /\ UNCHANGED <<detGrp, drawn>>
        /\ sent' \subseteq sent \cup (IF uartGrp = NoGrp THEN {} ELSE {uartGrp[1]})
    BY <1>2 DEF UartSend
  <2>2. \A n \in drawn \cup sent : <<n, "info">> \in Groups
    BY DEF TypeOK, Groups, Uses
  <2>3. \A n \in drawn \cup sent : freed[<<n, "info">>] > 0 => freed'[<<n, "info">>] > 0
    BY <2>1, <2>2, FreedGrows
  <2>4. uartGrp # NoGrp => /\ uartGrp = <<uartGrp[1], "info">> /\ freed'[uartGrp] > 0
                           /\ uartGrp[1] \notin drawn
    BY <2>1, HeldAlive, FreedGrows DEF Shown
  <2> QED  BY <2>1, <2>3, <2>4 DEF Shown
<1>3. CASE UNCHANGED <<freed, detGrp, drawn, sent>>
  BY <1>3 DEF Shown
<1>4. CASE \/ Interrupt \/ UNCHANGED vars \/ Infer \/ Detect \/ DispTake \/ DispFails \/ UartTake
           \/ \E t \in {"disp", "uart"} : Begin(t) \/ Skip(t) \/ Stop(t)
  BY <1>3, <1>4 DEF Interrupt, vars, Infer, Begin, Skip, Stop, Post, PostTimesOut, Detect, DispTake,
     DispFails, UartTake
<1> QED  BY <1>1, <1>2, <1>4 DEF Next, Display, Serial

LEMMA AgeingInductive ==
  ASSUME TypeOK, Ageing, [Next]_vars
  PROVE  /\ Ageing'
         /\ detGrp # NoGrp /\ detGrp' = NoGrp => draws = FullAge
<1> USE DEF screen, memory
<1>1. CASE DispShow
  <2>1. Lifespan \in Nat \ {0} /\ draws \in Nat /\ life \in Int
    BY BoundAssumption DEF TypeOK
  <2>2. FullAge = (Lifespan - 1) \div 2
    BY DEF FullAge
  <2>3. CASE newGrp # NoGrp
    BY <1>1, <2>1, <2>2, <2>3 DEF DispShow, Ageing
  <2>4. CASE newGrp = NoGrp /\ detGrp # NoGrp
    BY <1>1, <2>1, <2>2, <2>4 DEF DispShow, Ageing
  <2>5. CASE newGrp = NoGrp /\ detGrp = NoGrp
    BY <1>1, <2>5 DEF DispShow, Ageing
  <2> QED  BY <2>3, <2>4, <2>5
<1>2. CASE UNCHANGED <<detGrp, life, draws>>
  BY <1>2 DEF Ageing
<1>3. CASE \/ Interrupt \/ UNCHANGED vars \/ Infer \/ Detect \/ DispTake \/ DispFails \/ Serial
           \/ \E t \in {"disp"} : Begin(t) \/ Skip(t) \/ Stop(t)
  BY <1>2, <1>3 DEF Interrupt, vars, Infer, Begin, Skip, Stop, Post, PostTimesOut, Detect, DispTake,
     DispFails, Serial, UartTake, UartSend
<1> QED  BY <1>1, <1>3 DEF Next, Display
-----------------------------------------------------------------------------
(* Leaks.                                                                  *)
MadeInfo == {<<n, "info">> : n \in 1 .. made}

InfoInQueue == {info[i] : i \in DOMAIN info}

LEMMA LeaksFinite ==
  ASSUME NEW L \in SUBSET Groups
  PROVE  /\ IsFiniteSet({g \in L : g[2] = "info"})
         /\ Cardinality({g \in L : g[2] = "info"}) \in Nat
<1>1. IsFiniteSet(Results)
  BY BoundAssumption, FS_Interval DEF Results
<1>2. IsFiniteSet({"info", "uart"})
  <2>1. IsFiniteSet({"info"}) /\ IsFiniteSet({"uart"})
    BY FS_Singleton
  <2>2. {"info", "uart"} = {"info"} \cup {"uart"}
    OBVIOUS
  <2>3. IsFiniteSet({"info"} \cup {"uart"})
    BY <2>1, FS_Union
  <2> QED  BY <2>2, <2>3
<1>3. IsFiniteSet(Groups)
  BY <1>1, <1>2, FS_Product DEF Groups, Uses
<1> QED  BY <1>3, FS_Subset, FS_CardinalityType

LEMMA MadeCount ==
  ASSUME TypeOK
  PROVE  IsFiniteSet(MadeInfo) /\ Cardinality(MadeInfo) = made
<1> DEFINE f == [n \in 1 .. made |-> <<n, "info">>]
<1>1. made \in Nat
  BY GroupFacts
<1>2. IsFiniteSet(1 .. made) /\ Cardinality(1 .. made) = made
  BY <1>1, FS_Interval
<1>3. f \in Bijection(1 .. made, MadeInfo)
  BY DEF Bijection, Injection, Surjection, IsInjective, MadeInfo
<1>4. IsFiniteSet(MadeInfo) /\ Cardinality(MadeInfo) = Cardinality(1 .. made)
  <2>1. ExistsBijection(1 .. made, MadeInfo)
    BY <1>3 DEF ExistsBijection
  <2> QED  BY <1>2, <2>1, FS_Bijection
<1> QED  BY <1>2, <1>4

LEMMA QueueCount ==
  ASSUME TypeOK, InOrder
  PROVE  IsFiniteSet(InfoInQueue) /\ Cardinality(InfoInQueue) = Len(info)
<1> DEFINE f == [i \in 1 .. Len(info) |-> info[i]]
<1>1. info \in Seq(Groups) /\ Len(info) \in Nat /\ DOMAIN info = 1 .. Len(info)
  <2>1. info \in Seq(Groups)
    BY DEF TypeOK, info, Uses
  <2> QED  BY <2>1, LenProperties
<1>2. IsFiniteSet(1 .. Len(info)) /\ Cardinality(1 .. Len(info)) = Len(info)
  BY <1>1, FS_Interval
<1>3. \A i \in DOMAIN info : info[i][1] \in Nat
  BY <1>1, GroupFacts, ElementOfSeq
<1>4. \A i, j \in DOMAIN info : info[i] = info[j] => i = j
  <2> TAKE i, j \in DOMAIN info
  <2>1. i < j => info[i][1] < info[j][1]
    BY DEF InOrder
  <2>2. j < i => info[j][1] < info[i][1]
    BY DEF InOrder
  <2>3. i = j \/ i < j \/ j < i
    BY <1>1
  <2> QED  BY <1>3, <2>1, <2>2, <2>3
<1>5. f \in Bijection(1 .. Len(info), InfoInQueue)
  <2> HIDE DEF info
  <2> QED  BY <1>1, <1>4 DEF Bijection, Injection, Surjection, IsInjective, InfoInQueue
<1>6. IsFiniteSet(InfoInQueue) /\ Cardinality(InfoInQueue) = Cardinality(1 .. Len(info))
  <2>1. ExistsBijection(1 .. Len(info), InfoInQueue)
    BY <1>5 DEF ExistsBijection
  <2> QED  BY <1>2, <2>1, FS_Bijection
<1> QED  BY <1>2, <1>6

(* When the queue is full, what it holds was not leaked: the leaks are     *)
(* among the other results.                                                *)
LEMMA FullQueueLeaks ==
  ASSUME TypeOK, Control, InOrder, OneOwner, PostTimesOut("info")
  PROVE  Cardinality(InfoLeaks') <= made - InfoCap /\ made - InfoCap \in Nat
<1>1. "info" \in Uses /\ <<made, "info">> \in Groups /\ made \in Nat
  BY BoundAssumption DEF PostTimesOut, Uses, Control, TypeOK, Groups, Results, At
<1>2. InfoLeaks' = InfoLeaks \cup {<<made, "info">>}
  BY DEF PostTimesOut, InfoLeaks
<1>3. Len(info) = InfoCap
  <2>1. Len(info) >= InfoCap /\ Len(info) <= InfoCap
    BY <1>1 DEF PostTimesOut, TypeOK, Cap, info
  <2>2. info \in Seq(Groups)
    BY DEF TypeOK, info, Uses
  <2> QED  BY <2>1, <2>2, LenProperties, BoundAssumption
<1>4. InfoInQueue \subseteq MadeInfo
  <2>1. \A g \in InfoInQueue : g \in Groups /\ g[2] = "info" /\ g[1] <= made
    <3>1. info \in Seq(Groups)
      BY DEF info, TypeOK, Uses
    <3> QED  BY <3>1, LenProperties, ElementOfSeq DEF InfoInQueue, InOrder
  <2>2. \A g \in Groups : g[1] >= 1
    BY DEF Groups, Results
  <2> QED  BY <1>1, <2>1, <2>2, GroupFacts DEF MadeInfo
<1>5. InfoLeaks' \subseteq MadeInfo \ InfoInQueue
  <2>1. \A g \in InfoLeaks : g \in Groups /\ g[2] = "info" /\ g[1] >= 1 /\ g[1] <= made /\ ~Waits(g)
    <3> TAKE g \in InfoLeaks
    <3>1. g \in Groups /\ g \in leaked /\ g[2] = "info"
      BY DEF InfoLeaks, TypeOK
    <3>2. g[1] <= made /\ g[1] >= 1
      BY <3>1, GroupFacts DEF OneOwner, Groups, Results
    <3>3. ~Waits(g)
      BY <3>1, <3>2, GroupFacts DEF OneOwner, One
    <3> QED  BY <3>1, <3>2, <3>3
  <2>2. \A g \in InfoLeaks : g \in MadeInfo /\ g \notin InfoInQueue
    BY <1>1, <2>1, GroupFacts DEF MadeInfo, InfoInQueue, Waits, info
  <2>3. <<made, "info">> \in MadeInfo
    BY <1>1 DEF MadeInfo, Groups, Results
  <2>4. <<made, "info">> \notin InfoInQueue
    BY <1>1 DEF InfoInQueue, InOrder, PostTimesOut, At
  <2> QED  BY <1>2, <2>2, <2>3, <2>4
<1>6. /\ IsFiniteSet(MadeInfo \ InfoInQueue)
      /\ Cardinality(MadeInfo \ InfoInQueue) = made - InfoCap
      /\ Cardinality(MadeInfo \ InfoInQueue) \in Nat
  <2>1. Cardinality(MadeInfo \ InfoInQueue) = Cardinality(MadeInfo) - Cardinality(MadeInfo \cap InfoInQueue)
    BY MadeCount, FS_Difference
  <2>2. MadeInfo \cap InfoInQueue = InfoInQueue
    BY <1>4
  <2>3. IsFiniteSet(MadeInfo \ InfoInQueue)
    BY MadeCount, FS_Difference
  <2>4. Cardinality(MadeInfo \ InfoInQueue) \in Nat
    BY <2>3, FS_CardinalityType
  <2>5. Cardinality(MadeInfo) = made /\ Cardinality(InfoInQueue) = InfoCap
    BY <1>3, MadeCount, QueueCount
  <2> QED  BY <2>1, <2>2, <2>3, <2>4, <2>5
<1>7. Cardinality(InfoLeaks') <= Cardinality(MadeInfo \ InfoInQueue)
  BY <1>5, <1>6, FS_Subset
<1> QED  BY <1>6, <1>7

LEMMA LeaksInductive ==
  ASSUME TypeOK, TypeOK', Control, InOrder, OneOwner, LeaksBounded, [Next]_vars
  PROVE  LeaksBounded'
<1> USE DEF screen, memory
<1>1. /\ made \in Nat /\ made' \in Nat /\ errs \in Nat /\ errs' \in Nat /\ InfoCap \in Nat
  BY BoundAssumption DEF TypeOK
<1>2. Cardinality(InfoLeaks) \in Nat /\ Cardinality(InfoLeaks') \in Nat
  BY LeaksFinite DEF TypeOK, InfoLeaks
<1>3. CASE InfoLeaks' = InfoLeaks /\ made' >= made /\ errs' = errs
  BY <1>1, <1>2, <1>3 DEF LeaksBounded
<1>4. CASE DispFails
  <2>1. InfoLeaks' \subseteq InfoLeaks \cup {newGrp} /\ made' = made /\ errs' = errs + 1
    BY <1>4 DEF DispFails, InfoLeaks
  <2>2. Cardinality(InfoLeaks') <= Cardinality(InfoLeaks) + 1
    <3> IsFiniteSet(InfoLeaks)
      BY LeaksFinite DEF TypeOK, InfoLeaks
    <3>1. /\ IsFiniteSet(InfoLeaks \cup {newGrp})
          /\ Cardinality(InfoLeaks \cup {newGrp}) \in {Cardinality(InfoLeaks), Cardinality(InfoLeaks) + 1}
      BY FS_AddElement
    <3>2. Cardinality(InfoLeaks') <= Cardinality(InfoLeaks \cup {newGrp})
      BY <2>1, <3>1, FS_Subset
    <3> QED  BY <1>2, <3>1, <3>2
  <2> QED  BY <1>1, <1>2, <2>1, <2>2 DEF LeaksBounded
<1>5. CASE PostTimesOut("info")
  <2>1. made' = made /\ errs' = errs
    BY <1>5 DEF PostTimesOut
  <2>2. Cardinality(InfoLeaks') <= made - InfoCap /\ made - InfoCap \in Nat
    BY <1>5, FullQueueLeaks
  <2> QED  BY <1>1, <1>2, <2>1, <2>2 DEF LeaksBounded
<1>6. CASE PostTimesOut("uart")
  <2>1. leaked' = leaked \cup {<<made, "uart">>} /\ UNCHANGED <<made, errs>>
    BY <1>6 DEF PostTimesOut
  <2>2. InfoLeaks' = InfoLeaks
    BY <2>1 DEF InfoLeaks
  <2> QED  BY <1>1, <1>3, <2>1, <2>2
<1>7. CASE Detect
  BY <1>1, <1>3, <1>7 DEF Detect, InfoLeaks
<1>8. CASE \/ Interrupt \/ UNCHANGED vars \/ DispTake \/ DispShow \/ Serial
           \/ \E t \in {"rknn", "disp"} : Begin(t) \/ Skip(t) \/ Stop(t)
           \/ \E u \in Uses : Post(u)
  <2>1. UNCHANGED <<leaked, made, errs>>
    BY <1>8 DEF Interrupt, vars, DispTake, DispShow, Serial, UartTake, UartSend, Begin, Skip, Stop, Post
  <2> QED  BY <1>1, <1>3, <2>1 DEF InfoLeaks
<1> QED  BY <1>4, <1>5, <1>6, <1>7, <1>8 DEF Next, Infer, Display, Uses
-----------------------------------------------------------------------------
LEMMA Invariance == Spec => []IndInv
<1>1. IndInv /\ [Next]_vars => IndInv'
  <2> SUFFICES ASSUME IndInv, [Next]_vars PROVE IndInv'
    OBVIOUS
  <2>1. TypeOK' /\ Control'
    BY TypesInductive DEF IndInv
  <2>2. InOrder' /\ FirstResults' /\ OneOwner'
    BY OrderInductive, FirstResultsInductive, OwnerInductive DEF IndInv
  <2>3. Shown' /\ Ageing'
    BY ShownInductive, AgeingInductive DEF IndInv
  <2>4. LeaksBounded'
    BY <2>1, LeaksInductive DEF IndInv
  <2> QED  BY <2>1, <2>2, <2>3, <2>4 DEF IndInv
<1> QED  BY <1>1, InitInd, PTL DEF Spec

(* A group waits in its queue at most once.                                *)
LEMMA QueuedOnce ==
  ASSUME TypeOK, InOrder, FirstResults, NEW g \in Groups
  PROVE  Queued(g) = One(Waits(g))
<1> DEFINE I == {i \in DOMAIN queue[g[2]] : queue[g[2]][i] = g}
<1>1. \A i, j \in I : i = j
  <2>1. CASE g[2] = "info"
    <3> SUFFICES ASSUME NEW i \in DOMAIN info, NEW j \in DOMAIN info, info[i] = g, info[j] = g
                 PROVE  i = j
      BY <2>1 DEF info
    <3>1. (i < j => g[1] < g[1]) /\ (j < i => g[1] < g[1])
      BY DEF InOrder
    <3>2. i \in Nat /\ j \in Nat
      <4>1. info \in Seq(Groups)
        BY DEF info, TypeOK, Uses
      <4> QED  BY <4>1, LenProperties
    <3> QED  BY <3>1, <3>2, GroupFacts
  <2>2. CASE g[2] = "uart"
    <3>1. \A i \in I : i = g[1]
      BY <2>2 DEF FirstResults, uart
    <3> QED  BY <3>1
  <2> QED  BY <2>1, <2>2, GroupFacts DEF Uses
<1>2. Queued(g) = Cardinality(I)
  BY DEF Queued
<1>3. CASE Waits(g)
  <2>1. PICK i \in DOMAIN queue[g[2]] : queue[g[2]][i] = g
    BY <1>3 DEF Waits
  <2>2. I = {i}
    BY <1>1, <2>1
  <2> QED  BY <1>2, <1>3, <2>2, FS_Singleton DEF One
<1>4. CASE ~Waits(g)
  <2>1. I = {}
    BY <1>4 DEF Waits
  <2> QED  BY <1>2, <1>4, <2>1, FS_EmptySet DEF One
<1> QED  BY <1>3, <1>4

(* For any capacities and any number of results and failures: every        *)
(* variable keeps its type and no queue outgrows its capacity.             *)
THEOREM TypeCorrect == Spec => []TypeOK
<1>1. IndInv => TypeOK
  BY DEF IndInv
<1> QED  BY <1>1, Invariance, PTL

(* Each copy of a result has exactly one owner, or was deleted exactly     *)
(* once, or leaked, whichever of the two threads that drain info_queue     *)
(* took it.                                                                *)
THEOREM CopiesOwned == Spec => []GroupOwned
<1>1. IndInv => GroupOwned
  <2> SUFFICES ASSUME IndInv PROVE GroupOwned
    OBVIOUS
  <2>1. \A g \in Groups : Queued(g) = One(Waits(g))
    BY QueuedOnce DEF IndInv
  <2> QED  BY <2>1 DEF IndInv, OneOwner, GroupOwned
<1> QED  BY <1>1, Invariance, PTL

(* No result goes both to the screen and to the serial port.               *)
THEOREM OutputsDisjoint == Spec => []OneOutputPerResult
<1>1. IndInv => OneOutputPerResult
  BY DEF IndInv, Shown, OneOutputPerResult
<1> QED  BY <1>1, Invariance, PTL

(* A full queue that refuses a copy holds older ones.                      *)
LEMMA RefusedByOlder ==
  ASSUME IndInv, NEW u \in Uses, PostTimesOut(u)
  PROVE  /\ leaked' = leaked \cup {<<made, u>>} /\ Len(queue[u]) = Cap[u]
         /\ \A i \in DOMAIN queue[u] : queue[u][i][1] < made
<1>1. At("rknn", u) /\ Len(queue[u]) >= Cap[u] /\ leaked' = leaked \cup {<<made, u>>}
  BY DEF PostTimesOut
<1>2. queue[u] \in Seq(Groups) /\ Len(queue[u]) <= Cap[u] /\ made \in Nat
  BY BoundAssumption DEF IndInv, TypeOK
<1>3. Len(queue[u]) \in Nat /\ DOMAIN queue[u] = 1 .. Len(queue[u])
  BY <1>2, LenProperties
<1>4. Cap[u] \in Nat
  BY BoundAssumption DEF Cap, Uses
<1>5. Len(queue[u]) = Cap[u]
  BY <1>1, <1>2, <1>3, <1>4
<1>6. CASE u = "info"
  BY <1>1, <1>5, <1>6 DEF IndInv, InOrder, info
<1>7. CASE u = "uart"
  <2>1. Len(uart) <= made - 1 /\ \A i \in DOMAIN uart : uart[i] = <<i, "uart">>
    BY <1>1, <1>7 DEF IndInv, FirstResults, Posting, One
  <2>2. \A i \in DOMAIN uart : uart[i][1] = i /\ i \in Nat /\ i <= Len(uart)
    BY <1>3, <1>7, <2>1 DEF uart
  <2>3. \A i \in DOMAIN uart : uart[i][1] < made
    BY <1>2, <1>3, <1>7, <2>1, <2>2 DEF uart
  <2> QED  BY <1>1, <1>5, <1>7, <2>3 DEF uart
<1> QED  BY <1>6, <1>7 DEF Uses

(* What has leaked never adds up to more than it should.                   *)
LEMMA CountedFromInv == IndInv => LeaksCounted
BY DEF IndInv, LeaksBounded, InfoLeaks, FirstResults, uart, LeaksCounted

(* The same of every state of the component.                               *)
LEMMA LeaksStayCounted == Spec => []LeaksCounted
BY CountedFromInv, Invariance, PTL

(* A copy leaks only with a failed frame or into a full queue of older     *)
(* ones; info copies at most as often as frames failed and results were    *)
(* made beyond the capacity, and uart_queue holds the first results.       *)
THEOREM LeaksAccounted == Spec => LeaksExplained
<1>1. IndInv' => LeaksCounted'
  BY CountedFromInv, PTL
<1>2. IndInv /\ [Next]_vars =>
        \A g \in leaked' \ leaked :
          \/ g = newGrp /\ errs' = errs + 1
          \/ /\ g[1] = made /\ Len(queue[g[2]]) = Cap[g[2]]
             /\ \A i \in DOMAIN queue[g[2]] : queue[g[2]][i][1] < made
  <2> SUFFICES ASSUME IndInv, [Next]_vars, NEW g \in leaked' \ leaked
               PROVE  \/ g = newGrp /\ errs' = errs + 1
                      \/ /\ g[1] = made /\ Len(queue[g[2]]) = Cap[g[2]]
                         /\ \A i \in DOMAIN queue[g[2]] : queue[g[2]][i][1] < made
    OBVIOUS
  <2>1. CASE DispFails
    BY <2>1 DEF DispFails
  <2>2. ASSUME NEW u \in Uses, PostTimesOut(u)
        PROVE  /\ g[1] = made /\ Len(queue[g[2]]) = Cap[g[2]]
               /\ \A i \in DOMAIN queue[g[2]] : queue[g[2]][i][1] < made
    <3>1. g = <<made, u>>
      BY <2>2, RefusedByOlder
    <3>2. g[1] = made /\ g[2] = u
      BY <3>1
    <3> QED  BY <2>2, <3>2, RefusedByOlder
  <2>3. CASE \/ Interrupt \/ UNCHANGED vars \/ DispTake \/ DispShow \/ Serial \/ Detect
             \/ \E t \in {"rknn", "disp"} : Begin(t) \/ Skip(t) \/ Stop(t)
             \/ \E u \in Uses : Post(u)
    <3>1. UNCHANGED leaked
      BY <2>3 DEF Interrupt, vars, DispTake, DispShow, Serial, UartTake, UartSend, Begin, Skip, Stop, Post,
         Detect, memory
    <3> QED  BY <3>1
  <2> QED  BY <2>1, <2>2, <2>3 DEF Next, Infer, Display
<1> QED  BY <1>1, <1>2, Invariance, PTL DEF Spec, LeaksExplained

(* For any lifespan: an overlay is drawn (Lifespan - 1) \div 2 times, no   *)
(* more, and no less unless another result replaces it.                    *)
THEOREM OverlayAges == Spec => OverlayLifetime
<1>1. IndInv /\ [Next]_vars =>
        [/\ draws' <= FullAge
         /\ detGrp # NoGrp /\ detGrp' = NoGrp => draws = FullAge]_vars
  <2> SUFFICES ASSUME IndInv, [Next]_vars
               PROVE  /\ draws' <= FullAge
                      /\ detGrp # NoGrp /\ detGrp' = NoGrp => draws = FullAge
    OBVIOUS
  <2>1. Ageing'
    BY AgeingInductive DEF IndInv
  <2>2. draws' <= FullAge
    BY <2>1 DEF Ageing, FullAge
  <2> QED  BY <2>2, AgeingInductive DEF IndInv
<1> QED  BY <1>1, Invariance, PTL DEF Spec, OverlayLifetime

(* The screen never goes back to an older result: info_queue keeps the     *)
(* order and the disp thread holds one group besides the overlay.          *)
THEOREM OverlayInOrder == Spec => OverlayAdvances
<1>1. IndInv /\ [Next]_vars =>
        [detGrp # NoGrp /\ detGrp' # NoGrp => detGrp'[1] >= detGrp[1]]_vars
  <2> SUFFICES ASSUME IndInv, [Next]_vars, detGrp # NoGrp, detGrp' # NoGrp
               PROVE  detGrp'[1] >= detGrp[1]
    OBVIOUS
  <2>1. detGrp' = detGrp \/ (newGrp # NoGrp /\ detGrp' = newGrp)
    BY DEF Next, Infer, Display, Serial, Begin, Skip, Stop, Post, PostTimesOut, Detect, DispTake,
       DispFails, DispShow, UartTake, UartSend, Interrupt, vars, screen
  <2>2. detGrp \in Groups /\ (newGrp # NoGrp => newGrp \in Groups)
    BY DEF IndInv, TypeOK
  <2>3. newGrp # NoGrp => detGrp[1] < newGrp[1]
    BY DEF IndInv, InOrder
  <2>4. \A g \in Groups : g[1] \in Nat
    BY GroupFacts DEF IndInv
  <2> QED  BY <2>1, <2>2, <2>3, <2>4
<1> QED  BY <1>1, Invariance, PTL DEF Spec, OverlayAdvances
=============================================================================
