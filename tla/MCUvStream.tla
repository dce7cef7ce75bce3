----------------------------- MODULE MCUvStream -----------------------------
(* Small instances of UvStream for TLC.                                    *)
EXTENDS UvStreamProps

CONSTANTS w1, w2, s1, c1

TwoWrites   == {w1, w2}
OneShutdown == {s1}
OneConnect  == {c1}
LensWithEmpty == {0, 2}

\* Answers of connect(2) on a well-configured host, and a failing one.
UsualConnect == {"EINPROGRESS", "ECONNREFUSED", "OK"}
=============================================================================
