---------------------------- MODULE Postprocess ----------------------------
(***************************************************************************)
(* src/src/postprocess.cc: from the output tensors of one inference to the *)
(* group of detected objects.  A call collects the anchor cells that score *)
(* above the threshold, sorts them with a quicksort that permutes scores   *)
(* and indices in place, suppresses overlapping boxes with one pass per    *)
(* class, and emits the first results.                                     *)
(*                                                                         *)
(* Quantized values are integers; a real number v/Unit is kept as v, and a *)
(* score, the product of two of them, in units of 1/Unit^2.  Indices start *)
(* at 1, and Dropped stands for -1 in the index array.  The cells of the   *)
(* three output tensors, one for each stride, come in the order visited.   *)
(***************************************************************************)
EXTENDS Integers, Sequences, FiniteSets

CONSTANTS
  NCells,      \* anchor cells of all three strides
  CellValues,  \* [out, conf, probs, box]: the tensor, quantized confidence
               \* and class probabilities, box <<x, y, w, h>> in pixels
  Zp, Scale, Unit,  \* in tensor t, q stands for (q - Zp[t]) * Scale[t] / Unit
  MaxResults,  \* OBJ_NUMB_MAX_SIZE (64)
  InputSize,   \* model_in_w and model_in_h, which main passes as 640
  ModelWidth, ModelHeight,  \* the runner's input, from the model's file
  ScreenSize,  \* output_width and output_height (480)
  Raw          \* a group post_process has not written

Int8 == -128 .. 127
Outputs == 1 .. 3
Dropped == 0

ASSUME SizeAssumption ==
  /\ NCells \in Nat /\ MaxResults \in Nat \ {0}
  /\ InputSize \in Nat /\ ScreenSize \in Nat \ {0}
  /\ ModelWidth \in Nat \ {0} /\ ModelHeight \in Nat \ {0}

(* The model's outputs are sigmoids: what they stand for is in 0..1.       *)
ASSUME QuantAssumption ==
  /\ Zp \in [Outputs -> Int8] /\ Scale \in [Outputs -> Nat \ {0}] /\ Unit \in Nat \ {0}
  /\ \A v \in CellValues :
       \A q \in {v.conf} \cup {v.probs[k] : k \in DOMAIN v.probs} :
         (q - Zp[v.out]) * Scale[v.out] \in 0 .. Unit

(* A box has no negative side.                                             *)
ASSUME CellAssumption ==
  \A v \in CellValues :
    /\ v.out \in Outputs /\ v.conf \in Int8 /\ v.probs \in Seq(Int8) \ {<<>>}
    /\ v.box \in Int \X Int \X Nat \X Nat

Results == [class : Nat, prop : Nat,
            box : [left : Int, top : Int, right : Int, bottom : Int]]

(* A group that was not written is none that could have been.              *)
ASSUME RawAssumption == Raw \notin Seq(Results)

VARIABLES
  phase,       \* idle, collect, sort, nms, done
  loaded,      \* the static `init`: the labels were read
  cells,       \* the tensors of this call
  cands,       \* the cells collected: filterBoxes and classId
  probs,       \* objProbs, permuted by the sort
  order,       \* indexArray
  todo,        \* the sort's pending recursive calls, <<left, right>> each
  step,        \* within one call of the sort: pop, right, left, place
  range, low, high, key, keyIndex,  \* its arguments and locals
  classes,     \* class_set: classes whose pass is still to come
  group, ret   \* the result

partition == <<todo, step, range, low, high, key, keyIndex>>
vars == <<phase, loaded, cells, cands, probs, order, partition, classes, group, ret>>
-----------------------------------------------------------------------------
(* Quantization.                                                           *)

Trunc(a, b) == IF a >= 0 THEN a \div b ELSE -((-a) \div b)

Clip(v) == IF v <= -128 THEN -128 ELSE IF v >= 127 THEN 127 ELSE v

ThresUp(t) == Clip(Trunc(Unit + 4 * (Zp[t] * Scale[t]), 4 * Scale[t]) + 1)  \* mutant: rounded up

(* qnt_f32_to_affine(0.25): the threshold as an int8 of tensor t.          *)
Thres(t) == Clip(Trunc(Unit + 4 * (Zp[t] * Scale[t]), 4 * Scale[t]))

Deqnt(t, q) == (q - Zp[t]) * Scale[t]

(* The first class with the largest probability, and its score.            *)
MaxClass(v) ==
  CHOOSE k \in DOMAIN v.probs :
    \A j \in DOMAIN v.probs : /\ v.probs[j] <= v.probs[k]
                              /\ v.probs[j] = v.probs[k] => k <= j

Score(v) == Deqnt(v.out, v.conf) * Deqnt(v.out, v.probs[MaxClass(v)])

Passes(v) == 4 * Score(v) > Unit * Unit

Candidate(v) == v.conf >= Thres(v.out) /\ Passes(v)
-----------------------------------------------------------------------------
(* Boxes.                                                                  *)

Least(a, b) == IF a <= b THEN a ELSE b
Largest(a, b) == IF a >= b THEN a ELSE b

(* CalculateOverlap > 0.45, with the extra pixel on both sides.            *)
Side(p0, l0, p1, l1) ==
  Largest(0, Least(p0 + l0, p1 + l1) - Largest(p0, p1) + 1)

Overlaps(a, b) ==
  LET i == Side(a[1], a[3], b[1], b[3]) * Side(a[2], a[4], b[2], b[4])
      u == (a[3] + 1) * (a[4] + 1) + (b[3] + 1) * (b[4] + 1) - i IN
  u > 0 /\ 20 * i > 9 * u

ClampLow(v) == Least(v, InputSize)   \* mutant: the lower bound is forgotten

Clamp(v) == Largest(0, Least(v, InputSize))

(* Coordinates are clamped to the size main passes and scaled by the size  *)
(* the runner read from the model.                                         *)
ToScreen(v, size) == Trunc(Clamp(v) * ScreenSize, size)

ScreenBox(b) == [left |-> ToScreen(b[1], ModelWidth), top |-> ToScreen(b[2], ModelHeight),
                 right |-> ToScreen(b[1] + b[3], ModelWidth),
                 bottom |-> ToScreen(b[2] + b[4], ModelHeight)]
-----------------------------------------------------------------------------
Init ==
  /\ phase = "idle" /\ loaded = FALSE
  /\ cells = <<>> /\ cands = <<>> /\ probs = <<>> /\ order = <<>>
  /\ todo = <<>> /\ step = "pop" /\ range = <<1, 0>>
  /\ low = 0 /\ high = 0 /\ key = 0 /\ keyIndex = Dropped
  /\ classes = {} /\ group = Raw /\ ret = 0

(* The labels cannot be read: -1, and the group is left as it was.         *)
LabelsUnreadable ==
  /\ phase = "idle" /\ ~loaded
  /\ ret' = -1
  /\ phase' = "done"
  /\ UNCHANGED <<loaded, cells, cands, probs, order, partition, classes, group>>

Call ==
  /\ phase = "idle"
  /\ cells' \in [1 .. NCells -> CellValues]
  /\ \A i, j \in 1 .. NCells : i < j => cells'[i].out <= cells'[j].out
  /\ loaded' = TRUE
  /\ group' = <<>>
  /\ phase' = "collect"
  /\ UNCHANGED <<cands, probs, order, partition, classes, ret>>

(* The members of S as a loop over 1 .. n meets them.                      *)
InOrder(S, n) ==
  LET upTo[i \in 0 .. n] ==
        IF i = 0 THEN <<>>
        ELSE IF i \in S THEN Append(upTo[i - 1], i) ELSE upTo[i - 1]
  IN  upTo[n]

Collected(good) ==
  LET found == InOrder(good, Len(cells)) IN [k \in DOMAIN found |-> cells[found[k]]]

(* process_native_nhwc for the three strides, then the index array.        *)
Collect ==
  /\ phase = "collect"
  /\ cands' = Collected({i \in DOMAIN cells : Candidate(cells[i])})
  /\ probs' = [i \in DOMAIN cands' |-> Score(cands'[i])]
  /\ order' = [i \in DOMAIN cands' |-> i]
  /\ IF cands' = <<>>
     THEN phase' = "done" /\ UNCHANGED todo
     ELSE phase' = "sort" /\ todo' = <<<<1, Len(cands')>>>>
  /\ UNCHANGED <<loaded, cells, step, range, low, high, key, keyIndex, classes, group, ret>>
-----------------------------------------------------------------------------
(* quick_sort_indice_inverse: the element at left is taken out, which      *)
(* leaves a hole at one end; elements from the other end fill it in turn.  *)

Sorting(s) == phase = "sort" /\ step = s

Pop ==
  /\ Sorting("pop") /\ todo # <<>>
  /\ todo' = Tail(todo)
  /\ LET left == Head(todo)[1]
         right == Head(todo)[2] IN
     IF left < right
     THEN /\ range' = <<left, right>> /\ low' = left /\ high' = right
          /\ key' = probs[left] /\ keyIndex' = order[left]
          /\ step' = "right"
     ELSE UNCHANGED <<step, range, low, high, key, keyIndex>>
  /\ UNCHANGED <<phase, loaded, cells, cands, probs, order, classes, group, ret>>

(* while (low < high && input[high] <= key) high--                         *)
ScanRight ==
  /\ Sorting("right")
  /\ high' = CHOOSE h \in low .. high :
               /\ h = low \/ probs[h] > key
               /\ \A g \in h + 1 .. high : probs[g] <= key
  /\ probs' = [probs EXCEPT ![low] = probs[high']]
  /\ order' = [order EXCEPT ![low] = order[high']]
  /\ step' = "left"
  /\ UNCHANGED <<phase, loaded, cells, cands, todo, range, low, key, keyIndex,
                 classes, group, ret>>

(* Mutant: the index is not moved with its score.                          *)
ScanLeftScoreOnly ==
  /\ Sorting("left")
  /\ low' = CHOOSE l \in low .. high :
              /\ l = high \/ probs[l] < key
              /\ \A g \in low .. l - 1 : probs[g] >= key
  /\ probs' = [probs EXCEPT ![high] = probs[low']]
  /\ step' = IF low' < high THEN "right" ELSE "place"
  /\ UNCHANGED <<phase, loaded, cells, cands, order, todo, range, high, key, keyIndex,
                 classes, group, ret>>

(* while (low < high && input[low] >= key) low++                           *)
ScanLeft ==
  /\ Sorting("left")
  /\ low' = CHOOSE l \in low .. high :
              /\ l = high \/ probs[l] < key
              /\ \A g \in low .. l - 1 : probs[g] >= key
  /\ probs' = [probs EXCEPT ![high] = probs[low']]
  /\ order' = [order EXCEPT ![high] = order[low']]
  /\ step' = IF low' < high THEN "right" ELSE "place"
  /\ UNCHANGED <<phase, loaded, cells, cands, todo, range, high, key, keyIndex,
                 classes, group, ret>>

(* The key fills the hole; the sort recurses to the left and to the right. *)
Place ==
  /\ Sorting("place")
  /\ probs' = [probs EXCEPT ![low] = key]
  /\ order' = [order EXCEPT ![low] = keyIndex]
  /\ todo' = <<<<range[1], low - 1>>, <<low + 1, range[2]>>>> \o todo
  /\ step' = "pop"
  /\ UNCHANGED <<phase, loaded, cells, cands, range, low, high, key, keyIndex,
                 classes, group, ret>>

ClassSet == {MaxClass(cands[n]) : n \in DOMAIN cands}

SortDone ==
  /\ Sorting("pop") /\ todo = <<>>
  /\ classes' = ClassSet
  /\ phase' = "nms"
  /\ UNCHANGED <<loaded, cells, cands, probs, order, partition, group, ret>>
-----------------------------------------------------------------------------
(* Mutant: a box also suppresses those before it.                          *)
SuppressBoth(o, i, c) ==
  IF o[i] = Dropped \/ MaxClass(cands[i]) # c THEN o
  ELSE [j \in DOMAIN o |-> IF j # i /\ o[j] # Dropped
                              /\ Overlaps(cands[o[i]].box, cands[o[j]].box)
                           THEN Dropped ELSE o[j]]

(* Mutant: only boxes of the same class are suppressed.                    *)
SuppressClass(o, i, c) ==
  IF o[i] = Dropped \/ MaxClass(cands[i]) # c THEN o
  ELSE [j \in DOMAIN o |-> IF j > i /\ o[j] # Dropped /\ MaxClass(cands[j]) = c
                              /\ Overlaps(cands[o[i]].box, cands[o[j]].box)
                           THEN Dropped ELSE o[j]]

(* What nms does at position i of the sorted order: unless it was dropped, *)
(* its box drops the overlapping boxes after it.  The class is read at i,  *)
(* not at order[i], and the other box's class is not looked at.            *)
SuppressFrom(o, i, c) ==
  IF o[i] = Dropped \/ MaxClass(cands[i]) # c THEN o
  ELSE [j \in DOMAIN o |-> IF j > i /\ o[j] # Dropped
                              /\ Overlaps(cands[o[i]].box, cands[o[j]].box)
                           THEN Dropped ELSE o[j]]

NmsFromSecond(c) ==   \* mutant: the loop starts one position late
  LET after[i \in 0 .. Len(order)] ==
        IF i <= 1 THEN order ELSE SuppressFrom(after[i - 1], i, c)
  IN  after[Len(order)]

Nms(c) ==
  LET after[i \in 0 .. Len(order)] ==
        IF i = 0 THEN order ELSE SuppressFrom(after[i - 1], i, c)
  IN  after[Len(order)]

(* One pass per class, in ascending order.                                 *)
Suppress ==
  /\ phase = "nms" /\ classes # {}
  /\ LET c == CHOOSE k \in classes : \A k2 \in classes : k <= k2 IN
       /\ order' = Nms(c)
       /\ classes' = classes \ {c}
  /\ UNCHANGED <<phase, loaded, cells, cands, probs, partition, group, ret>>

(* The loop that emits skips the positions that were dropped.              *)
Kept == InOrder({i \in DOMAIN order : order[i] # Dropped}, Len(order))

(* Mutant: the score is read at the candidate's index.                     *)
ResultUnsorted(i) ==
  [class |-> MaxClass(cands[order[i]]), prop |-> probs[order[i]],
   box |-> ScreenBox(cands[order[i]].box)]

ResultAt(i) ==
  [class |-> MaxClass(cands[order[i]]), prop |-> probs[i],
   box |-> ScreenBox(cands[order[i]].box)]

EmitAll ==   \* mutant: no limit on the results
  /\ phase = "nms" /\ classes = {}
  /\ group' = [k \in DOMAIN Kept |-> ResultAt(Kept[k])]
  /\ phase' = "done"
  /\ UNCHANGED <<loaded, cells, cands, probs, order, partition, classes, ret>>

Emit ==
  /\ phase = "nms" /\ classes = {}
  /\ group' = [k \in 1 .. Least(Len(Kept), MaxResults) |-> ResultAt(Kept[k])]
  /\ phase' = "done"
  /\ UNCHANGED <<loaded, cells, cands, probs, order, partition, classes, ret>>

(* The locals end with the call, and the next one gets a group of its own, *)
(* fresh from new.                                                         *)
Return ==
  /\ phase = "done"
  /\ phase' = "idle"
  /\ cells' = <<>> /\ cands' = <<>> /\ probs' = <<>> /\ order' = <<>>
  /\ todo' = <<>> /\ step' = "pop" /\ range' = <<1, 0>>
  /\ low' = 0 /\ high' = 0 /\ key' = 0 /\ keyIndex' = Dropped
  /\ classes' = {} /\ group' = Raw /\ ret' = 0
  /\ UNCHANGED loaded

Next ==
  \/ LabelsUnreadable \/ Call \/ Collect
  \/ Pop \/ ScanRight \/ ScanLeft \/ Place \/ SortDone
  \/ Suppress \/ Emit \/ Return

Spec == Init /\ [][Next]_vars
-----------------------------------------------------------------------------
TypeOK ==
  /\ phase \in {"idle", "collect", "sort", "nms", "done"} /\ loaded \in BOOLEAN
  /\ cells \in Seq(CellValues) /\ cands \in Seq(CellValues)
  /\ phase \in {"sort", "nms"} =>
       /\ probs \in [DOMAIN cands -> Nat]
       /\ order \in [DOMAIN cands -> DOMAIN cands \cup {Dropped}]
  /\ step \in {"pop", "right", "left", "place"}
  /\ phase = "sort" /\ step # "pop" =>
       /\ range[1] \in DOMAIN cands /\ range[2] \in DOMAIN cands
       /\ range[1] <= low /\ low <= high /\ high <= range[2]
       /\ keyIndex \in DOMAIN cands
  /\ \A k \in DOMAIN todo : todo[k] \in (1 .. Len(cands) + 1) \X (0 .. Len(cands))
  /\ classes \subseteq UNION {DOMAIN v.probs : v \in CellValues}
  /\ group = Raw \/ Len(group) <= MaxResults
  /\ ret \in {0, -1}

Finished == phase = "done" /\ ret = 0

Survivors == {order[i] : i \in DOMAIN order} \ {Dropped}

(* The int8 prefilter on the confidence and the rounding of its threshold  *)
(* lose no cell whose score passes, whatever the tensor's quantization,    *)
(* and keep none that does not, also when the call ends with no candidate. *)
CollectExact ==
  phase \in {"sort", "nms"} \/ Finished =>
    cands = Collected({i \in DOMAIN cells : Passes(cells[i])})

(* The sort ranks the candidates: scores descend, ties included, and each  *)
(* index still names the candidate its score belongs to, none lost and     *)
(* none twice, which the code downstream relies on by mixing objProbs[i]   *)
(* with classId[indexArray[i]].                                            *)
Ranked ==
  phase = "nms" =>
    /\ \A i, j \in DOMAIN probs : i < j => probs[i] >= probs[j]
    /\ \A i \in DOMAIN order :
         order[i] # Dropped => probs[i] = Score(cands[order[i]])
    /\ classes = ClassSet => Survivors = DOMAIN cands

(* No two detected boxes overlap by more than the threshold, whatever      *)
(* their classes: the passes per class add up to suppression across them.  *)
SurvivorsApart ==
  Finished => \A m, n \in Survivors :
    m # n => ~Overlaps(cands[m].box, cands[n].box)

(* A candidate is dropped only for an overlapping one that scores at least *)
(* as much; in particular some candidate with the top score survives.      *)
LossExplained ==
  Finished =>
    /\ \A n \in DOMAIN cands \ Survivors : \E m \in DOMAIN cands :
         /\ m # n /\ Overlaps(cands[m].box, cands[n].box)
         /\ Score(cands[m]) >= Score(cands[n])
    /\ cands # <<>> => \E n \in Survivors :
         \A m \in DOMAIN cands : Score(cands[m]) <= Score(cands[n])

(* With one class the result is that of greedy suppression: a candidate    *)
(* survives iff no survivor before it overlaps it.                         *)
OneClassGreedy ==
  Finished /\ Cardinality(ClassSet) = 1 =>
    \A n \in DOMAIN cands :
      n \in Survivors <=>
        ~\E m \in Survivors : /\ m # n /\ Overlaps(cands[m].box, cands[n].box)
                              /\ Score(cands[m]) >= Score(cands[n])

(* A successful call fills the group with the strongest survivors, best    *)
(* first, each once and with its own class, score and box, up to the       *)
(* maximum.                                                                *)
GroupFaithful ==
  Finished =>
    /\ group # Raw /\ Len(group) = Least(Cardinality(Survivors), MaxResults)
    /\ \E of \in [DOMAIN group -> Survivors] :
         /\ \A k, l \in DOMAIN group : k # l => of[k] # of[l]
         /\ \A k \in DOMAIN group :
              group[k] = [class |-> MaxClass(cands[of[k]]), prop |-> Score(cands[of[k]]),
                          box |-> ScreenBox(cands[of[k]].box)]
    /\ \A k, l \in DOMAIN group : k < l => group[k].prop >= group[l].prop
    /\ Len(group) > 0 => Cardinality({n \in Survivors :
         Score(cands[n]) > group[Len(group)].prop}) < Len(group)

(* A reported span starts on the screen, is not turned inside out and ends *)
(* no farther than where the clamp's bound is scaled to.  That is the      *)
(* border of the screen for a model of the size main passes, inside of it  *)
(* for a larger one and past it for a smaller one.                         *)
Within(from, to, size) ==
  /\ 0 <= from /\ from <= to /\ to <= Trunc(InputSize * ScreenSize, size)
  /\ InputSize <= size => to <= ScreenSize

(* Every reported box lies within, also when the model's box reaches over  *)
(* the border of its input.                                                *)
InScreen ==
  group # Raw => \A k \in DOMAIN group :
    LET b == group[k].box IN
    Within(b.left, b.right, ModelWidth) /\ Within(b.top, b.bottom, ModelHeight)
=============================================================================
