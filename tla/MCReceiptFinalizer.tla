------------------------- MODULE MCReceiptFinalizer -------------------------
(* ReceiptFinalizer with two requests and two workers, for TLC. *)
EXTENDS ReceiptFinalizer, TLC

CONSTANTS w1, w2

TwoRequests == 1 .. 2
TwoWorkers == {w1, w2}
=============================================================================
