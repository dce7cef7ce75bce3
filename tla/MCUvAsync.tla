----------------------------- MODULE MCUvAsync -----------------------------
(* Small instances of UvAsync for TLC.                                     *)
EXTENDS UvAsyncProps

CONSTANTS a1, a2, t1

Tso         == {TRUE}
Both        == BOOLEAN
OneAsync    == {a1}
TwoAsyncs   == {a1, a2}
OneThread   == {t1}
=============================================================================
