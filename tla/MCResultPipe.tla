--------------------------- MODULE MCResultPipe ---------------------------
(* ResultPipe as it is model checked: the configurations give the values.  *)
EXTENDS ResultPipe
=============================================================================
