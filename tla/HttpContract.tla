---------------------------- MODULE HttpContract ----------------------------
(***************************************************************************)
(* The order in which an http_parser calls its user, message by message:   *)
(* on_message_begin, on_url, names and values of headers by turns, once    *)
(* on_headers_complete, on_body, names and values of trailers, and         *)
(* on_message_complete; however the input was cut, and until the parser    *)
(* fails or a callback makes it fail.                                      *)
(*                                                                         *)
(* A stage says which callbacks may come next.  One step is one call of    *)
(* none, one or two of them.                                               *)
(***************************************************************************)
EXTENDS Sequences

VARIABLES
  stage,   \* of the message
  called   \* the callbacks made in the last step

vars == <<stage, called>>

Between   == {"start", "over"}     \* of two messages; after the last one
Headers   == {"fields", "name", "value"}
Trailers  == {"trailers", "trailer_name", "trailer_value"}
Stages    == Between \cup {"line", "body", "failed"} \cup Headers \cup Trailers

Init == stage = "start" /\ called = <<>>

Call(from, callbacks, to) ==
  stage \in from /\ called' = callbacks /\ stage' \in to

\* A response may begin with blank lines, each of which is announced.
Begin == Call({"start"}, <<"message_begin">>, {"start", "line"})

Url == Call({"line"}, <<"url">>, {"line", "fields"})

\* A name may come in several pieces, and a header may lack its value.
Field ==
  \/ Call({"name"}, <<"header_field">>, Headers)
  \/ Call({"trailer_name"}, <<"header_field">>, Trailers)

Value ==
  \/ Call({"value"}, <<"header_value">>, {"value", "fields"})
  \/ Call({"trailer_value"}, <<"header_value">>, {"trailer_value", "trailers"})

HeadersComplete ==
  \/ Call({"fields"}, <<"headers_complete">>, {"body"})
  \/ Call({"fields"}, <<"headers_complete", "message_complete">>, Between)

Body ==
  \/ Call({"body"}, <<"body">>, {"body"})
  \/ Call({"body"}, <<"body", "message_complete">>, Between)

Complete == Call({"body", "trailers"}, <<"message_complete">>, Between)

\* Bytes that no callback is about.
Silent ==
  \/ \E s \in Stages \ {"failed"} : Call({s}, <<>>, {s})
  \/ Call({"start"}, <<>>, {"over"})
  \/ Call({"line"}, <<>>, {"fields"})
  \/ Call({"fields"}, <<>>, {"name", "value"})
  \/ Call({"body"}, <<>>, {"trailers"})
  \/ Call({"trailers"}, <<>>, {"trailer_name", "trailer_value"})

\* An error; its last callback may be the one that asked for it.
Fail ==
  \/ Call(Stages \ {"failed"}, <<>>, {"failed"})
  \/ Call({"start"}, <<"message_begin">>, {"failed"})
  \/ Call({"line"}, <<"url">>, {"failed"})
  \/ Call({"name", "trailer_name"}, <<"header_field">>, {"failed"})
  \/ Call({"value", "trailer_value"}, <<"header_value">>, {"failed"})
  \/ \E cs \in {<<"headers_complete">>, <<"headers_complete", "message_complete">>} :
       Call({"fields"}, cs, {"failed"})
  \/ Call({"body"}, <<"body", "message_complete">>, {"failed"})
  \/ Call({"body", "trailers"}, <<"message_complete">>, {"failed"})

Next ==
  \/ Begin \/ Url \/ Field \/ Value \/ HeadersComplete \/ Body \/ Complete
  \/ Silent \/ Fail

Spec == Init /\ [][Next]_vars
=============================================================================
