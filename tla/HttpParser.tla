----------------------------- MODULE HttpParser -----------------------------
(***************************************************************************)
(* http_parser.c (strict mode): one http_parser whose user hands over a    *)
(* stream of bytes in fragments cut anywhere, one http_parser_execute per  *)
(* fragment.  A step is the start of such a call, one turn of its loop     *)
(* (one byte, or the bytes of a body at once), or its end.                 *)
(*                                                                         *)
(* A byte is its class: a letter that some keyword needs ("x" is any       *)
(* other), a digit, or a character that delimits.  Case and horizontal     *)
(* tabs are left out.  Keywords are shortened to what keeps them apart.    *)
(***************************************************************************)
EXTENDS Integers, Sequences, FiniteSets, SequencesExt

CONSTANTS
  Types,            \* the types a parser may be initialised with
  HeadersResults,   \* what on_headers_complete may return: 0, 1 or 2
  CallbackMayFail,  \* other callbacks may return non-zero
  Limit             \* content_length holds -Limit to Limit - 1

ASSUME ParserAssumption ==
  /\ Types \subseteq {"HTTP_REQUEST", "HTTP_RESPONSE", "HTTP_BOTH"}
  /\ HeadersResults \subseteq 0..2
  /\ CallbackMayFail \in BOOLEAN
  /\ Limit \in Nat \ {0}

VARIABLES
  saved,   \* state, header_state, index and nread of the http_parser
  local,   \* the same four, the variables of http_parser_execute
  marks,   \* which of its three marks are set
  msg,     \* the fields of the http_parser that describe the message
  failed,  \* http_errno is not HPE_OK
  at,      \* "idle" (not called), "start" and "run" (in the loop, before and after
           \* its first turn), "full" (all bytes taken); "ended" and "upgraded"
           \* when the stream of bytes is over
  called,  \* callbacks of the last step
  body     \* owed: bytes of it that were announced and not passed to on_body;
           \* wrapped: the number that announced them did not fit

vars == <<saved, local, marks, msg, failed, at, called, body>>

Letters == {"c", "o", "n", "t", "x", "p", "u", "k", "h"}
Digits  == {"0", "3"}   \* "3" is any of 1 to 9
Bytes   == Letters \cup Digits \cup {"CR", "LF", "SP", ":", "/", "?", "#", ".", ";"}
Token     == Letters \cup Digits \cup {"SP", "#", "."}
UrlChar   == Letters \cup Digits \cup {":", "/", ".", ";"}
HostChar  == Letters \cup Digits \cup {"."}
Value_(ch) == IF ch = "3" THEN 3 ELSE 0
Hex       == [d \in Digits \cup {"c"} |-> IF d = "c" THEN 12 ELSE Value_(d)]

\* method_strings; the letter a method may turn into another one at; who starts it.
Methods == {"GET", "HEAD", "CONNECT", "COPY", "CHECKOUT"}
Word == [GET |-> <<"x", "x">>, HEAD |-> <<"h", "x">>, CONNECT |-> <<"c", "o", "n">>,
         COPY |-> <<"c", "o", "p">>, CHECKOUT |-> <<"c", "h">>]
Turns == {<<"CONNECT", 1, "CHECKOUT">>, <<"CONNECT", 2, "COPY">>}
Begins == [x |-> "GET", h |-> "HEAD", c |-> "CONNECT"]

\* The keywords of the header states that match one, and the state of a match.
Keyword ==
  [h_matching_connection |-> <<"c", "o", "n", "n", "x">>,
   h_matching_content_length |-> <<"c", "o", "n", "t", "x">>,
   h_matching_proxy_connection |-> <<"p", "x">>,
   h_matching_transfer_encoding |-> <<"t", "x">>,
   h_matching_upgrade |-> <<"u", "x">>,
   h_matching_transfer_encoding_chunked |-> <<"c", "x">>,
   h_matching_connection_keep_alive |-> <<"k", "x">>,
   h_matching_connection_close |-> <<"c", "x">>]
Matched ==
  [h_matching_connection |-> "h_connection",
   h_matching_content_length |-> "h_content_length",
   h_matching_proxy_connection |-> "h_connection",
   h_matching_transfer_encoding |-> "h_transfer_encoding",
   h_matching_upgrade |-> "h_upgrade",
   h_matching_transfer_encoding_chunked |-> "h_transfer_encoding_chunked",
   h_matching_connection_keep_alive |-> "h_connection_keep_alive",
   h_matching_connection_close |-> "h_connection_close"]
Matching  == DOMAIN Keyword
OfValues  == {"h_matching_transfer_encoding_chunked", "h_matching_connection_keep_alive",
              "h_matching_connection_close"}
Names     == {"h_connection", "h_content_length", "h_transfer_encoding", "h_upgrade"}
Values    == {"h_transfer_encoding_chunked", "h_connection_keep_alive", "h_connection_close"}
HeaderStates == {"h_general", "h_C", "h_CO", "h_CON"} \cup Matching \cup Names \cup Values

UrlStates  == {"req_schema", "req_schema_slash", "req_schema_slash_slash", "req_host",
               "req_port", "req_path", "req_query_string_start", "req_query_string",
               "req_fragment_start", "req_fragment"}
ReqLine    == {"req_method", "req_spaces_before_url"} \cup UrlStates \cup
              {"req_http_start", "req_http_H", "req_http_HT", "req_http_HTT",
               "req_http_HTTP", "req_first_http_major", "req_http_major",
               "req_first_http_minor", "req_http_minor", "req_line_almost_done"}
ResLine    == {"res_or_resp_H", "res_H", "res_HT", "res_HTT", "res_HTTP",
               "res_first_http_major", "res_http_major", "res_first_http_minor",
               "res_http_minor", "res_first_status_code", "res_status_code",
               "res_status", "res_line_almost_done"}
Starts     == {"start_req_or_res", "start_res", "start_req"}
NameStates  == {"header_field"}
ValueStates == {"header_value_start", "header_value"}
FieldStates == {"header_field_start", "header_almost_done", "header_value_lws",
                "headers_almost_done"} \cup NameStates \cup ValueStates
ChunkStates == {"chunk_size_start", "chunk_size", "chunk_parameters",
                "chunk_size_almost_done", "chunk_data", "chunk_data_almost_done",
                "chunk_data_done"}
BodyStates == ChunkStates \cup {"body_identity", "body_identity_eof"}
States     == {"dead"} \cup Starts \cup ReqLine \cup ResLine \cup FieldStates \cup BodyStates
\* PARSING_HEADER
Counting   == States \ {"chunk_data", "chunk_data_almost_done", "chunk_data_done",
                        "body_identity", "body_identity_eof"}

\* nread matters only as 0, 1 or more: the limit may then be reached at any byte.
Many == 2
Flags == {"CHUNKED", "KEEP_ALIVE", "CLOSE", "TRAILING", "UPGRADE", "SKIPBODY"}
Low  == -Limit
High == Limit - 1
\* What content_length holds of v, in two's complement.
Wrap(v) == ((v - Low) % (2 * Limit)) + Low

Locals == [state : States, header_state : HeaderStates, index : Nat, nread : 0..Many]
Message ==
  [flags : SUBSET Flags, content_length : Int,
   type : {"HTTP_REQUEST", "HTTP_RESPONSE", "HTTP_BOTH"}, method : Methods,
   major : BOOLEAN, minor : BOOLEAN, upgrade : BOOLEAN]

TypeOK ==
  /\ saved \in Locals /\ local \in Locals /\ msg \in Message
  /\ marks \subseteq {"header_field", "header_value", "url"}
  /\ failed \in BOOLEAN
  /\ at \in {"idle", "start", "run", "full", "ended", "upgraded"}
  /\ body \in [owed : Int, wrapped : BOOLEAN]

StartOf(type) == IF type = "HTTP_REQUEST" THEN "start_req"
                 ELSE IF type = "HTTP_RESPONSE" THEN "start_res" ELSE "start_req_or_res"

\* http_parser_init; the fields it leaves alone are written before they are read.
Init ==
  /\ \E t \in Types :
       /\ saved = [state |-> StartOf(t), header_state |-> "h_general", index |-> 0, nread |-> 0]
       /\ msg = [flags |-> {}, content_length |-> -1, type |-> t, method |-> "GET",
                 major |-> FALSE, minor |-> FALSE, upgrade |-> FALSE]
  /\ local = saved
  /\ marks = {} /\ failed = FALSE /\ at = "idle" /\ called = <<>>
  /\ body = [owed |-> 0, wrapped |-> FALSE]

-----------------------------------------------------------------------------
(* One turn of the loop.                                                   *)


In(states) == at \in {"start", "run"} /\ ~failed /\ local.state \in states

Counted == IF local.state \in Counting /\ local.nread < Many
             THEN local.nread + 1 ELSE local.nread

Full(s, h, i, n) == [state |-> s, header_state |-> h, index |-> i, nread |-> n]
Now(s)           == Full(s, local.header_state, local.index, Counted)

Error(callbacks) ==
  /\ failed' = TRUE /\ at' = "idle" /\ called' = callbacks
  /\ UNCHANGED <<saved, local, marks, msg, body>>

\* A callback that returns non-zero ends the call; on_body is not asked.
CallbackFails(callbacks) ==
  /\ CallbackMayFail
  /\ \E k \in 1..Len(callbacks) : callbacks[k] # "body" /\ Error(SubSeq(callbacks, 1, k))

Turn(l, m, mk, b, callbacks) ==
  \/ /\ local' = l /\ msg' = m /\ marks' = mk /\ body' = b /\ called' = callbacks
     /\ at' = "run" /\ UNCHANGED <<saved, failed>>
  \/ CallbackFails(callbacks)

Quiet(l) == Turn(l, msg, marks, body, <<>>)
Go(s)    == Quiet(Now(s))

\* The callback of what is marked.
Marked(mark) == IF mark \in marks THEN <<mark>> ELSE <<>>

\* Mutant: the mark stays.
ReportUncleared(mark, l, m) ==
  Turn(l, m, marks, body, Marked(mark))

\* CALLBACK(mark), which clears the mark.
Report(mark, l, m) ==
  Turn(l, m, marks \ {mark}, body, Marked(mark))

HeaderOverflow == In(Counting) /\ local.nread = Many /\ Error(<<>>)

Dead == In({"dead"}) /\ Error(<<>>)

\* States that take one byte and no other.
Wants == [res_H |-> "t", res_HT |-> "t", res_HTT |-> "p", res_HTTP |-> "/",
          req_http_H |-> "t", req_http_HT |-> "t", req_http_HTT |-> "p",
          req_http_HTTP |-> "/", req_schema_slash |-> "/", req_schema_slash_slash |-> "/",
          res_line_almost_done |-> "LF", req_line_almost_done |-> "LF",
          chunk_data_almost_done |-> "CR", chunk_data_done |-> "LF"]
Then == [res_H |-> "res_HT", res_HT |-> "res_HTT", res_HTT |-> "res_HTTP",
         res_HTTP |-> "res_first_http_major", req_http_H |-> "req_http_HT",
         req_http_HT |-> "req_http_HTT", req_http_HTT |-> "req_http_HTTP",
         req_http_HTTP |-> "req_first_http_major",
         req_schema_slash |-> "req_schema_slash_slash",
         req_schema_slash_slash |-> "req_host",
         res_line_almost_done |-> "header_field_start",
         req_line_almost_done |-> "header_field_start",
         chunk_data_almost_done |-> "chunk_data_done",
         chunk_data_done |-> "chunk_size_start"]

Strict(ch) ==
  /\ In(DOMAIN Wants)
  /\ \/ ch = Wants[local.state] /\ Go(Then[local.state])
     \/ ch # Wants[local.state] /\ Error(<<>>)

-----------------------------------------------------------------------------
(* The first line.                                                         *)

Fresh == [msg EXCEPT !.flags = {}, !.content_length = -1]
BeginMessage(s, i, m) ==
  Turn(Full(s, local.header_state, i, Counted), m, marks, [owed |-> 0, wrapped |-> FALSE],
       <<"message_begin">>)
Blank == {"CR", "LF"}

StartReq(ch) ==
  /\ In({"start_req"})
  /\ \/ ch \in Blank /\ Go("start_req")
     \/ /\ ch \in DOMAIN Begins
        /\ BeginMessage("req_method", 1, [Fresh EXCEPT !.method = Begins[ch]])
     \/ ch \notin Blank \cup DOMAIN Begins /\ Error(<<"message_begin">>)

StartRes(ch) ==
  /\ In({"start_res"})
  /\ \/ ch = "h" /\ BeginMessage("res_H", local.index, Fresh)
     \/ ch \in Blank /\ BeginMessage("start_res", local.index, Fresh)
     \/ ch \notin Blank \cup {"h"} /\ Error(<<"message_begin">>)

StartReqOrRes(ch) ==
  /\ In({"start_req_or_res"})
  /\ \/ ch \in Blank /\ Go("start_req_or_res")
     \/ ch = "h" /\ BeginMessage("res_or_resp_H", local.index, Fresh)
     \/ /\ ch \in DOMAIN Begins \ {"h"}
        /\ BeginMessage("req_method", 1,
             [Fresh EXCEPT !.type = "HTTP_REQUEST", !.method = Begins[ch]])
     \/ ch \notin Blank \cup DOMAIN Begins /\ Error(<<"message_begin">>)

\* "HT" begins a response, "HE" a request.
ResOrRespH(ch) ==
  /\ In({"res_or_resp_H"})
  /\ \/ ch = "t" /\ Turn(Now("res_HT"), [msg EXCEPT !.type = "HTTP_RESPONSE"], marks, body, <<>>)
     \/ ch = "x" /\ Turn(Full("req_method", local.header_state, 2, Counted),
                         [msg EXCEPT !.type = "HTTP_REQUEST", !.method = "HEAD"], marks, body, <<>>)
     \/ ch \notin {"t", "x"} /\ Error(<<>>)

\* The methods that the letter ch at place local.index continues.
Continue(ch) ==
  {m \in Methods :
     /\ m = msg.method \/ <<msg.method, local.index, m>> \in Turns
     /\ local.index < Len(Word[m]) /\ ch = Word[m][local.index + 1]}

ReqMethod(ch) ==
  /\ In({"req_method"})
  /\ \/ /\ ch = "SP" /\ local.index = Len(Word[msg.method])
        /\ Quiet(Full("req_spaces_before_url", local.header_state, local.index + 1, Counted))
     \/ \E m \in Continue(ch) :
          Turn(Full("req_method", local.header_state, local.index + 1, Counted),
               [msg EXCEPT !.method = m], marks, body, <<>>)
     \/ /\ Continue(ch) = {} /\ ~(ch = "SP" /\ local.index = Len(Word[msg.method]))
        /\ Error(<<>>)

\* A path, the scheme of an absolute URL, or a host to connect to.
UrlStarts(ch) ==
  IF ch = "/" THEN "req_path" ELSE IF msg.method = "CONNECT" THEN "req_host" ELSE "req_schema"
MayStartUrl == {"/"} \cup Letters \cup (IF msg.method = "CONNECT" THEN Digits ELSE {})

SpacesBeforeUrl(ch) ==
  /\ In({"req_spaces_before_url"})
  /\ \/ ch = "SP" /\ Go("req_spaces_before_url")
     \/ ch \in MayStartUrl /\ Turn(Now(UrlStarts(ch)), msg, marks \cup {"url"}, body, <<>>)
     \/ ch \notin MayStartUrl \cup {"SP"} /\ Error(<<>>)

InQuery    == {"req_query_string_start", "req_query_string"}
InFragment == {"req_fragment_start", "req_fragment"}

\* The URL's state t follows the state s at ch.
UrlMove(s, ch, t) ==
  \/ s = "req_schema" /\ ch \in Letters /\ t = "req_schema"
  \/ s = "req_schema" /\ ch = ":" /\ t = "req_schema_slash"
  \/ s = "req_host" /\ ch \in HostChar /\ t = "req_host"
  \/ s = "req_host" /\ ch = ":" /\ t = "req_port"
  \/ s = "req_port" /\ ch \in Digits /\ t = "req_port"
  \/ s \in {"req_host", "req_port"} /\ ch = "/" /\ t = "req_path"
  \/ s \in {"req_host", "req_port", "req_path"} /\ ch = "?" /\ t = "req_query_string_start"
  \/ s = "req_path" /\ ch \in UrlChar /\ t = "req_path"
  \/ s \in InQuery /\ ch \in UrlChar /\ t = "req_query_string"
  \/ s \in InQuery /\ ch = "?" /\ t = s
  \/ s \in InQuery \cup {"req_path"} /\ ch = "#" /\ t = "req_fragment_start"
  \/ s \in InFragment /\ ch \in UrlChar \cup {"?"} /\ t = "req_fragment"
  \/ s \in InFragment /\ ch = "#" /\ t = s

UrlMoves(ch) == {t \in UrlStates : UrlMove(local.state, ch, t)}
UrlEnds(ch) ==
  \/ ch = "SP" /\ local.state # "req_schema"
  \/ ch \in Blank /\ local.state \in {"req_path"} \cup InQuery \cup InFragment

Url(ch) ==
  /\ In(UrlStates \ DOMAIN Wants)
  /\ \/ \E t \in UrlMoves(ch) : Go(t)
     \/ /\ UrlEnds(ch) /\ ch = "SP"
        /\ Report("url", Now("req_http_start"), msg)
     \/ /\ UrlEnds(ch) /\ ch # "SP"
        /\ Report("url",
             Now(IF ch = "CR" THEN "req_line_almost_done" ELSE "header_field_start"),
             [msg EXCEPT !.major = FALSE, !.minor = TRUE])
     \/ UrlMoves(ch) = {} /\ ~UrlEnds(ch) /\ Error(<<>>)

ReqHttpStart(ch) ==
  /\ In({"req_http_start"})
  /\ \/ ch = "h" /\ Go("req_http_H")
     \/ ch = "SP" /\ Go("req_http_start")
     \/ ch \notin {"h", "SP"} /\ Error(<<>>)

\* Of a version only whether its parts are positive matters; one above 999 is an error.
Major == [req_first_http_major |-> "req_http_major", res_first_http_major |-> "res_http_major"]
FirstMinor == [req_http_major |-> "req_first_http_minor", res_http_major |-> "res_first_http_minor"]
Minor == [req_first_http_minor |-> "req_http_minor", res_first_http_minor |-> "res_http_minor"]

HttpMajor(ch) ==
  \/ /\ In(DOMAIN Major)
     /\ \/ ch = "3" /\ Turn(Now(Major[local.state]), [msg EXCEPT !.major = TRUE], marks, body, <<>>)
        \/ ch # "3" /\ Error(<<>>)
  \/ /\ In(DOMAIN FirstMinor)
     /\ \/ ch = "." /\ Go(FirstMinor[local.state])
        \/ ch \in Digits /\ Go(local.state)
        \/ ch # "." /\ Error(<<>>)

HttpMinor(ch) ==
  \/ /\ In(DOMAIN Minor)
     /\ \/ /\ ch \in Digits
           /\ Turn(Now(Minor[local.state]), [msg EXCEPT !.minor = (ch = "3")], marks, body, <<>>)
        \/ ch \notin Digits /\ Error(<<>>)
  \/ /\ In({"req_http_minor", "res_http_minor"})
     /\ \/ ch = "SP" /\ local.state = "res_http_minor" /\ Go("res_first_status_code")
        \/ ch = "CR" /\ local.state = "req_http_minor" /\ Go("req_line_almost_done")
        \/ ch = "LF" /\ local.state = "req_http_minor" /\ Go("header_field_start")
        \/ /\ ch \in Digits
           /\ Turn(Now(local.state), [msg EXCEPT !.minor = @ \/ ch = "3"], marks, body, <<>>)
        \/ ch \notin (IF local.state = "res_http_minor" THEN {"SP"} ELSE Blank) /\ Error(<<>>)

Status(ch) ==
  \/ /\ In({"res_first_status_code"})
     /\ \/ ch = "SP" /\ Go("res_first_status_code")
        \/ ch \in Digits /\ Go("res_status_code")
        \/ ch \notin Digits \cup {"SP"} /\ Error(<<>>)
  \/ /\ In({"res_status_code"})
     /\ \/ ch \in Digits /\ Go("res_status_code")
        \/ ch = "SP" /\ Go("res_status")
        \/ ch \notin Blank \cup {"SP"} /\ Error(<<>>)
  \/ In({"res_status"}) /\ ch \notin Blank /\ Go("res_status")
  \/ /\ In({"res_status_code", "res_status"})
     /\ \/ ch = "CR" /\ Go("res_line_almost_done")
        \/ ch = "LF" /\ Go("header_field_start")

-----------------------------------------------------------------------------
(* Headers, and trailers after a chunked body.                             *)

HeaderBegins == [c |-> "h_C", p |-> "h_matching_proxy_connection",
                 t |-> "h_matching_transfer_encoding", u |-> "h_matching_upgrade"]

\* After a line, a byte that does not continue it is taken as the first of the next.
AtFieldStart(ch) ==
  \/ In({"header_field_start"})
  \/ In({"header_value_lws"}) /\ ch # "SP"

HeaderFieldStart(ch) ==
  /\ AtFieldStart(ch)
  /\ \/ ch = "CR" /\ Go("headers_almost_done")
     \/ /\ ch \in Token
        /\ Turn(Full("header_field",
                     IF ch \in DOMAIN HeaderBegins THEN HeaderBegins[ch] ELSE "h_general",
                     0, Counted),
                msg, marks \cup {"header_field"}, body, <<>>)
     \/ ch \notin Token \cup Blank /\ Error(<<>>)

\* header_state after one more letter of a word it matches.
NextMatch(h, i, ch) ==
  IF i >= Len(Keyword[h]) \/ (i < Len(Keyword[h]) /\ ch # Keyword[h][i + 1]) THEN "h_general"
  ELSE IF i = Len(Keyword[h]) - 1 THEN Matched[h] ELSE h

NextOfName(h, ch) ==
  IF h = "h_C" THEN IF ch = "o" THEN "h_CO" ELSE "h_general"
  ELSE IF h = "h_CO" THEN IF ch = "n" THEN "h_CON" ELSE "h_general"
  ELSE IF h = "h_CON" THEN IF ch = "n" THEN "h_matching_connection"
       ELSE IF ch = "t" THEN "h_matching_content_length" ELSE "h_general"
  ELSE IF h \in Matching THEN NextMatch(h, local.index + 1, ch)
  ELSE IF h \in Names /\ ch = "SP" THEN h ELSE "h_general"

HeaderField(ch) ==
  /\ In({"header_field"})
  /\ LET h == local.header_state
     IN \/ /\ ch \in Token
           /\ Quiet(Full("header_field", NextOfName(h, ch),
                IF h \in Matching \cup {"h_C", "h_CO", "h_CON"} THEN local.index + 1 ELSE local.index,
                Counted))
        \/ ch = ":" /\ Report("header_field", Now("header_value_start"), msg)
        \/ ch = "CR" /\ Report("header_field", Now("header_almost_done"), msg)
        \/ ch = "LF" /\ Report("header_field", Now("header_field_start"), msg)
        \/ ch \notin Token \cup Blank \cup {":"} /\ Error(<<>>)

ValueBegins(h, ch) ==
  IF h = "h_transfer_encoding" /\ ch = "c" THEN "h_matching_transfer_encoding_chunked"
  ELSE IF h = "h_connection" /\ ch = "k" THEN "h_matching_connection_keep_alive"
  ELSE IF h = "h_connection" /\ ch = "c" THEN "h_matching_connection_close"
  ELSE IF h = "h_content_length" THEN h ELSE "h_general"

HeaderValueStart(ch) ==
  /\ In({"header_value_start"})
  /\ LET h == local.header_state
         begun(m, b) == Turn(Full("header_value", ValueBegins(h, ch), 0, Counted), m,
                             marks \cup {"header_value"}, b, <<>>)
     IN \/ ch = "SP" /\ Go("header_value_start")
        \/ /\ ch = "CR"
           /\ Turn(Full("header_almost_done", "h_general", 0, Counted), msg, marks, body,
                   <<"header_value">>)
        \/ /\ ch = "LF"
           /\ Turn(Full("header_field_start", h, 0, Counted), msg, marks, body, <<"header_value">>)
        \/ /\ ch \notin Blank \cup {"SP"} /\ h \notin {"h_content_length", "h_upgrade"}
           /\ begun(msg, body)
        \/ /\ ch \notin Blank \cup {"SP"} /\ h = "h_upgrade"
           /\ begun([msg EXCEPT !.flags = @ \cup {"UPGRADE"}], body)
        \/ /\ ch \in Digits /\ h = "h_content_length"
           /\ begun([msg EXCEPT !.content_length = Value_(ch)], [body EXCEPT !.wrapped = FALSE])
        \/ ch \notin Digits \cup Blank \cup {"SP"} /\ h = "h_content_length" /\ Error(<<>>)

\* The digit d is appended to content_length.
Grown(base, d) == msg.content_length * base + d
Grow(base, d, l) ==
  Turn(l, [msg EXCEPT !.content_length = Wrap(Grown(base, d))], marks,
       [body EXCEPT !.wrapped = @ \/ Grown(base, d) \notin Low..High], <<>>)

\* Flags that a header line sets when it ends.
FlagOf == [h_connection_keep_alive |-> {"KEEP_ALIVE"}, h_connection_close |-> {"CLOSE"},
           h_transfer_encoding_chunked |-> {"CHUNKED"}]
WithFlag == [msg EXCEPT !.flags =
  @ \cup (IF local.header_state \in Values THEN FlagOf[local.header_state] ELSE {})]

HeaderValue(ch) ==
  /\ In({"header_value"})
  /\ LET h == local.header_state
     IN \/ ch = "CR" /\ Report("header_value", Now("header_almost_done"), msg)
        \/ ch = "LF" /\ Report("header_value", Now("header_value_lws"), WithFlag)
        \/ /\ ch \in Digits /\ h = "h_content_length"
           /\ Grow(10, Value_(ch), Now("header_value"))
        \/ /\ ch \notin Digits \cup Blank \cup {"SP"} /\ h = "h_content_length"
           /\ Error(<<>>)
        \/ /\ ch \notin Blank /\ h \in OfValues
           /\ Quiet(Full("header_value", NextMatch(h, local.index + 1, ch), local.index + 1, Counted))
        \/ /\ ch \notin Blank /\ h \notin OfValues \cup {"h_content_length"}
           /\ Quiet(Full("header_value", IF h \in Values /\ ch = "SP" THEN h ELSE "h_general",
                         local.index, Counted))
        \/ ch = "SP" /\ h = "h_content_length" /\ Go("header_value")

HeaderAlmostDone(ch) ==
  /\ In({"header_almost_done"})
  /\ \/ ch = "LF" /\ Turn(Now("header_value_lws"), WithFlag, marks, body, <<>>)
     \/ ch # "LF" /\ Error(<<>>)

HeaderValueLws(ch) == In({"header_value_lws"}) /\ ch = "SP" /\ Go("header_value_start")

\* http_should_keep_alive, and NEW_MESSAGE.
KeepAlive(m) == IF m.major /\ m.minor THEN "CLOSE" \notin m.flags ELSE "KEEP_ALIVE" \in m.flags
NewMessage(m) == IF KeepAlive(m) THEN IF m.type = "HTTP_REQUEST" THEN "start_req" ELSE "start_res"
                 ELSE "dead"

\* Where the body of message m is, and whether it is over already.
NoBody(m) ==
  \/ "SKIPBODY" \in m.flags
  \/ /\ "CHUNKED" \notin m.flags
     /\ \/ m.content_length = 0
        \/ m.content_length < 0 /\ (m.type = "HTTP_REQUEST" \/ KeepAlive(m))
AfterHeaders(m) ==
  IF NoBody(m) THEN NewMessage(m)
  ELSE IF "CHUNKED" \in m.flags THEN "chunk_size_start"
  ELSE IF m.content_length > 0 THEN "body_identity" ELSE "body_identity_eof"

WithUpgrade == [msg EXCEPT !.upgrade = @ \/ "UPGRADE" \in msg.flags \/ msg.method = "CONNECT"]
Skipping(r) == [WithUpgrade EXCEPT !.flags = @ \cup (IF r = 1 THEN {"SKIPBODY"} ELSE {})]
Both == <<"headers_complete", "message_complete">>

HeadersDone(ch) ==
  /\ ch = "LF" /\ (In({"headers_almost_done"}) \/ AtFieldStart(ch))
  /\ \/ /\ "TRAILING" \in msg.flags
        /\ Turn(Now(NewMessage(msg)), msg, marks, body, <<"message_complete">>)
     \/ /\ "TRAILING" \notin msg.flags /\ 2 \in HeadersResults
        /\ Error(<<"headers_complete">>)
     \/ /\ "TRAILING" \notin msg.flags
        /\ \E r \in HeadersResults \cap {0, 1} :
             LET m == Skipping(r)
                 l == Full(AfterHeaders(m), local.header_state, local.index, 0)
             IN \/ /\ ~m.upgrade
                   /\ Turn(l, m, marks,
                           IF l.state = "body_identity"
                             THEN [body EXCEPT !.owed = m.content_length] ELSE body,
                           IF NoBody(m) THEN Both ELSE <<"headers_complete">>)
                \/ /\ m.upgrade   \* the call returns and saves nothing
                   /\ \/ /\ msg' = m /\ at' = "upgraded" /\ called' = Both
                         /\ UNCHANGED <<saved, local, marks, failed, body>>
                      \/ CallbackMayFail /\ Error(Both)

HeadersAlmostDone(ch) == In({"headers_almost_done"}) /\ ch # "LF" /\ Error(<<>>)

-----------------------------------------------------------------------------
(* Bodies.                                                                 *)

\* Mutant: the part of a body that ends a fragment is not counted.
PassUncounted(n, s, ends) ==
  /\ local' = [local EXCEPT !.state = s]
  /\ msg' = IF n < msg.content_length THEN msg ELSE [msg EXCEPT !.content_length = @ - n]
  /\ body' = [body EXCEPT !.owed = @ - n]
  /\ called' = IF ends THEN <<"body", "message_complete">> ELSE <<"body">>
  /\ at' = IF n < msg.content_length THEN "full" ELSE "run"
  /\ UNCHANGED <<saved, marks, failed>>

\* on_body gets n bytes: all that are owed, or the rest of the fragment.
Pass(n, s, ends) ==
  /\ local' = [local EXCEPT !.state = s]
  /\ msg' = [msg EXCEPT !.content_length = @ - n]
  /\ body' = [body EXCEPT !.owed = @ - n]
  /\ called' = IF ends THEN <<"body", "message_complete">> ELSE <<"body">>
  /\ at' = IF n < msg.content_length THEN "full" ELSE "run"
  /\ UNCHANGED <<saved, marks, failed>>

BodyIdentity ==
  /\ In({"body_identity"})
  /\ \E n \in 1..msg.content_length :
       \/ n < msg.content_length /\ Pass(n, "body_identity", FALSE)
       \/ n = msg.content_length /\ Pass(n, NewMessage(msg), TRUE)
       \/ n = msg.content_length /\ CallbackFails(<<"body", "message_complete">>)

BodyIdentityEof ==
  /\ In({"body_identity_eof"})
  /\ called' = <<"body">> /\ at' = "full"
  /\ UNCHANGED <<saved, local, marks, msg, failed, body>>

ChunkSizeStart(ch) ==
  /\ In({"chunk_size_start"})
  /\ \/ /\ ch \in DOMAIN Hex
        /\ Turn(Now("chunk_size"), [msg EXCEPT !.content_length = Hex[ch]], marks,
                [body EXCEPT !.wrapped = FALSE], <<>>)
     \/ ch \notin DOMAIN Hex /\ Error(<<>>)

ChunkSize(ch) ==
  /\ In({"chunk_size"})
  /\ \/ ch = "CR" /\ Go("chunk_size_almost_done")
     \/ ch \in {";", "SP"} /\ Go("chunk_parameters")
     \/ ch \in DOMAIN Hex /\ Grow(16, Hex[ch], Now("chunk_size"))
     \/ ch \notin DOMAIN Hex \cup {"CR", ";", "SP"} /\ Error(<<>>)

ChunkParameters(ch) ==
  /\ In({"chunk_parameters"})
  /\ Go(IF ch = "CR" THEN "chunk_size_almost_done" ELSE "chunk_parameters")

\* Mutant: nread goes on from one chunk to the next.
ChunkSizeCounted(ch) ==
  /\ In({"chunk_size_almost_done"})
  /\ LET last == msg.content_length = 0
     IN \/ /\ ch = "LF"
           /\ Turn(Now(IF last THEN "header_field_start" ELSE "chunk_data"),
                   [msg EXCEPT !.flags = @ \cup (IF last THEN {"TRAILING"} ELSE {})],
                   marks, [body EXCEPT !.owed = msg.content_length], <<>>)
        \/ ch # "LF" /\ Error(<<>>)

ChunkSizeAlmostDone(ch) ==
  /\ In({"chunk_size_almost_done"})
  /\ LET last == msg.content_length = 0
     IN \/ /\ ch = "LF"
           /\ Turn(Full(IF last THEN "header_field_start" ELSE "chunk_data",
                        local.header_state, local.index, 0),
                   [msg EXCEPT !.flags = @ \cup (IF last THEN {"TRAILING"} ELSE {})],
                   marks, [body EXCEPT !.owed = msg.content_length], <<>>)
        \/ ch # "LF" /\ Error(<<>>)

\* A length that wrapped to below zero takes one byte and passes none.
ChunkData ==
  /\ In({"chunk_data"})
  /\ \/ \E n \in 1..msg.content_length :
          Pass(n, IF n = msg.content_length THEN "chunk_data_almost_done" ELSE "chunk_data", FALSE)
     \/ /\ msg.content_length < 0
        /\ Turn(Now("chunk_data_almost_done"), [msg EXCEPT !.content_length = 0], marks,
                [body EXCEPT !.owed = 0], <<>>)

-----------------------------------------------------------------------------
(* The call itself.                                                        *)

Loop(ch) ==
  \/ Strict(ch)
  \/ StartReq(ch) \/ StartRes(ch) \/ StartReqOrRes(ch) \/ ResOrRespH(ch)
  \/ ReqMethod(ch) \/ SpacesBeforeUrl(ch) \/ Url(ch) \/ ReqHttpStart(ch)
  \/ HttpMajor(ch) \/ HttpMinor(ch) \/ Status(ch)
  \/ HeaderFieldStart(ch) \/ HeaderField(ch) \/ HeaderValueStart(ch) \/ HeaderValue(ch)
  \/ HeaderAlmostDone(ch) \/ HeaderValueLws(ch) \/ HeadersDone(ch) \/ HeadersAlmostDone(ch)
  \/ ChunkSizeStart(ch) \/ ChunkSize(ch) \/ ChunkParameters(ch) \/ ChunkSizeAlmostDone(ch)

\* Mutant: a URL cut in its query is not taken up again.
MarksOfUnqueried(s) ==
  IF s = "header_field" THEN {"header_field"}
  ELSE IF s = "header_value" THEN {"header_value"}
  ELSE IF s \in UrlStates \ {"req_query_string"} THEN {"url"} ELSE {}

MarksOf(s) ==
  IF s = "header_field" THEN {"header_field"}
  ELSE IF s = "header_value" THEN {"header_value"}
  ELSE IF s \in UrlStates THEN {"url"} ELSE {}

Execute ==
  /\ at = "idle" /\ ~failed
  /\ at' = "start" /\ local' = saved /\ marks' = MarksOf(saved.state) /\ called' = <<>>
  /\ UNCHANGED <<saved, msg, failed, body>>

\* The bytes are used up: what is marked is reported, the state is saved.
Return ==
  /\ at \in {"run", "full"} /\ ~failed
  /\ LET callbacks == Marked("header_field") \o Marked("header_value") \o Marked("url")
     IN \/ /\ saved' = local /\ marks' = {} /\ at' = "idle" /\ called' = callbacks
           /\ UNCHANGED <<local, msg, failed, body>>
        \/ CallbackFails(callbacks)

\* A call with no bytes: the peer has finished.
Eof ==
  /\ at = "idle" /\ ~failed
  /\ \/ /\ saved.state \in Starts \cup {"dead", "body_identity_eof"}
        /\ called' = IF saved.state = "body_identity_eof" THEN <<"message_complete">> ELSE <<>>
        /\ at' = "ended" /\ UNCHANGED <<saved, local, marks, msg, failed, body>>
     \/ /\ saved.state = "body_identity_eof" /\ CallbackFails(<<"message_complete">>)
     \/ /\ saved.state \notin Starts \cup {"dead", "body_identity_eof"} /\ Error(<<>>)

Next ==
  \/ Execute \/ Return \/ Eof
  \/ HeaderOverflow \/ Dead \/ BodyIdentity \/ BodyIdentityEof \/ ChunkData
  \/ \E ch \in Bytes : Loop(ch)

Spec == Init /\ [][Next]_vars
=============================================================================
