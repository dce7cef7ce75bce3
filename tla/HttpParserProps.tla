-------------------------- MODULE HttpParserProps --------------------------
(* What HttpParser is checked for.                                         *)
EXTENDS HttpParser

InTrailers == "TRAILING" \in msg.flags

\* The stage of HttpContract that a point of the parse belongs to.
Stage ==
  IF failed THEN "failed"
  ELSE IF at \in {"ended", "upgraded"} \/ local.state = "dead" THEN "over"
  ELSE IF local.state \in Starts THEN "start"
  ELSE IF local.state \in ReqLine \cup ResLine THEN "line"
  ELSE IF local.state \in BodyStates THEN "body"
  ELSE IF local.state \in NameStates THEN IF InTrailers THEN "trailer_name" ELSE "name"
  ELSE IF local.state \in ValueStates THEN IF InTrailers THEN "trailer_value" ELSE "value"
  ELSE IF InTrailers THEN "trailers" ELSE "fields"

Contract == INSTANCE HttpContract WITH stage <- Stage, called <- called

\* The callbacks come in the order that HttpContract describes, each message
\* is begun, has its headers completed once and is completed once, wherever
\* the bytes were cut and whatever callbacks return.
ImplementsContract == Contract!Spec

\* Where the input was cut makes no difference: a call starts in the state in
\* which the one before stopped, and what it takes for the start of a name, a
\* value or a URL (the table of http_parser.c:404) is what was being reported.
CutsDontMatter ==
  ~failed =>
    /\ at = "idle" => saved = local /\ marks = {}
    /\ at \in {"start", "run", "full"} => marks = MarksOf(local.state)

\* The asserts of http_parser_execute, and no method's name is read past its end.
AssertsHold ==
  /\ TypeOK
  /\ ~failed =>
      /\ local.state = "header_field" =>
           local.header_state \in {"h_general", "h_C", "h_CO", "h_CON"} \cup Names
                                  \cup (Matching \ OfValues)
      /\ local.state = "header_value" =>
           local.header_state \notin {"h_connection", "h_transfer_encoding"}
      /\ local.state = "chunk_size_start" => local.nread = 0
      /\ local.state \in ChunkStates => "CHUNKED" \in msg.flags
      /\ local.state = "req_method" => local.index <= Len(Word[msg.method])

\* on_body gets what Content-Length or the size of a chunk announced, no more
\* and no less, before the message goes on, unless that number did not fit.
BodyExact ==
  ~failed /\ ~body.wrapped =>
    IF local.state \in {"body_identity", "chunk_data"}
      THEN body.owed = msg.content_length /\ body.owed > 0
      ELSE body.owed = 0
=============================================================================
