--------------------------- MODULE MCSystemHistory ---------------------------
(* Constants of SystemHistory for TLC.  A tick of the model stands for the  *)
(* collector's three seconds; the other constants keep the code's order.    *)
EXTENDS SystemHistory, TLC

CONSTANTS col, l1   \* model values

MCLimits == {Missing, 1, 9}
MCWindows == {Missing, 0, 9}
MCSteps == {Missing, 1, 9}
=============================================================================
