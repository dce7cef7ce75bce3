----------------------------- MODULE MCEioPool -----------------------------
(* A small instance of EioPool for TLC.                                    *)
EXTENDS EioPoolProps

CONSTANTS r1, r2, w1, w2

TwoReqs    == {r1, r2}
TwoWorkers == {w1, w2}

=============================================================================
