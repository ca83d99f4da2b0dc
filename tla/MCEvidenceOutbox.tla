-------------------------- MODULE MCEvidenceOutbox --------------------------
(* EvidenceOutbox with two incidents and two workers, for TLC. *)
EXTENDS EvidenceOutbox, TLC

CONSTANTS w1, w2

TwoMessages == 1 .. 2
TwoWorkers == {w1, w2}
=============================================================================
