------------------------------ MODULE MCWinTcp ------------------------------
(* Small instances of WinTcp for TLC.                                      *)
EXTENDS WinTcpProps

Careful == {{"restarts", "accept_fails"}, {"recv_fails"}}
ClosesEarly == {{"closes_shutting"}}
=============================================================================
