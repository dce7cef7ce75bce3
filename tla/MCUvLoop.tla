------------------------------ MODULE MCUvLoop ------------------------------
(* A small instance of UvLoop for TLC.                                     *)
EXTENDS UvLoopProps

CONSTANTS h1, h2

TwoHandles == {h1, h2}
AllKinds   == {"timer", "idle", "prepare", "check", "async", "stream"}
UpToOne    == 0..1
=============================================================================
