--------------------------- MODULE MCPostprocess ---------------------------
(* Values for model checking Postprocess: three tensors of different       *)
(* quantization, confidences on both sides of each threshold and of the    *)
(* score's, equal scores in two tensors, two classes, boxes of which       *)
(* neighbours overlap enough and the outer two do not, one that reaches    *)
(* over the border.                                                        *)
EXTENDS Postprocess

(* The largest value stands for 1, for 2/3 and for 49/51 of Unit = 765.    *)
ZeroPoints == <<-128, -128, -20>>
Scales == <<3, 2, 5>>

Cell(out, conf, p1, p2, box) == [out |-> out, conf |-> conf, probs |-> <<p1, p2>>, box |-> box]

LeftBox == <<-4, 0, 9, 9>>
MidBox == <<-1, 0, 9, 9>>
RightBox == <<2, 0, 9, 9>>
FarBox == <<630, 600, 30, 60>>

SomeCells == {
  Cell(1, 127, 127, -128, LeftBox),
  Cell(1, 42, 42, 42, MidBox),
  Cell(1, -64, 127, 127, RightBox),
  Cell(1, -65, 127, 127, LeftBox),
  Cell(2, 127, -128, 127, MidBox),
  Cell(2, 16, 127, 0, FarBox),
  Cell(3, 100, -20, 120, RightBox),
  Cell(3, 20, 127, 127, LeftBox),
  Cell(3, 18, 127, 127, RightBox)}
=============================================================================
