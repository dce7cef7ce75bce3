---------------------------- MODULE MCAresChannel ----------------------------
(* Small instances of AresChannel for TLC.                                 *)
EXTENDS AresChannelProps

CONSTANTS q1, q2, q3

AnyAnswer == {"ok", "refused", "truncated"}

\* One query that comes back to servers it was sent to; two over UDP that may
\* change to TCP; three over TCP that nobody answers.
Small == {
  [asks |-> <<q1>>, tries |-> 3, rotate |-> TRUE, tcp |-> BOOLEAN, answers |-> AnyAnswer],
  [asks |-> <<q1, q2>>, tries |-> 1, rotate |-> FALSE, tcp |-> {FALSE}, answers |-> AnyAnswer],
  [asks |-> <<q1, q2, q3>>, tries |-> 1, rotate |-> FALSE, tcp |-> {TRUE}, answers |-> {}]}
=============================================================================
