---------------------------- MODULE MCHttpParser ----------------------------
(* Small instances of HttpParser for TLC.                                  *)
EXTENDS HttpParserProps

AllTypes    == {"HTTP_REQUEST", "HTTP_RESPONSE", "HTTP_BOTH"}
AnyResult   == {0, 1, 2}

\* What later steps depend on.  A call that runs does not read what was saved
\* before it, no step reads the callbacks of the one before, and a parser that
\* failed or is finished does nothing; header_state is written again before it
\* is read once a line is over, index is read while a word is matched, the
\* method is read to complete its word and then compared with CONNECT, and of
\* a version only whether it is at least 1.1.
LineStates == NameStates \cup ValueStates \cup {"header_almost_done", "header_value_lws"}
Live(l) ==
  [l EXCEPT !.header_state = IF l.state \in LineStates THEN @ ELSE "",
            !.index = IF l.state = "req_method" \/ l.header_state \in Matching THEN @ ELSE 0]
Facts(m) ==
  IF local.state \in Starts THEN m.type
  ELSE [m EXCEPT !.method = IF local.state = "req_method" THEN @ ELSE @ = "CONNECT",
                 !.major = @ /\ (m.minor \/ local.state \notin FieldStates \cup BodyStates),
                 !.minor = @ /\ (m.major \/ local.state \notin FieldStates \cup BodyStates)]
Relevant ==
  IF failed \/ at \in {"ended", "upgraded"} THEN <<failed, at>>
  ELSE <<at, IF at = "idle" THEN Live(saved) ELSE Live(local), Live(local), marks,
         Facts(msg), body>>
=============================================================================
