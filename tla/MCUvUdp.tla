------------------------------ MODULE MCUvUdp ------------------------------
(* A small instance of UvUdp for TLC.                                      *)
EXTENDS UvUdpProps

CONSTANTS r1, r2, r3

ThreeReqs == {r1, r2, r3}
OneMute   == {r3}
=============================================================================
