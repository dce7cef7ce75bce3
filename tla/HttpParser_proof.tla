-------------------------- MODULE HttpParser_proof --------------------------
(***************************************************************************)
(* Proofs about HttpParser, for every set of types, every answer of the    *)
(* callbacks and every range of content_length: cuts of the input make no  *)
(* difference, the callbacks come in the order of HttpContract, the bytes  *)
(* of a body are those that were announced, and the asserts hold.          *)
(***************************************************************************)
EXTENDS HttpParserProps, SequenceTheorems, TLAPS

(* The first two theorems rest on each other: only because a mark is set   *)
(* exactly in the states that report it is the callback made when such a   *)
(* state is left.  Besides, the first line of a message knows of no        *)
(* trailers.                                                               *)
Lines == ReqLine \cup ResLine
Shape(l, m) ==
  /\ DOMAIN l = {"state", "header_state", "index", "nread"}
  /\ "flags" \in DOMAIN m
  /\ l.state \in Lines => "TRAILING" \notin m.flags

HttpInv == Shape(local, msg) /\ CutsDontMatter

\* The stage of a message that is in state s, with or without trailers.
Place(s, flags) ==
  IF s = "dead" THEN "over"
  ELSE IF s \in Starts THEN "start"
  ELSE IF s \in Lines THEN "line"
  ELSE IF s \in BodyStates THEN "body"
  ELSE IF s \in NameStates THEN IF "TRAILING" \in flags THEN "trailer_name" ELSE "name"
  ELSE IF s \in ValueStates THEN IF "TRAILING" \in flags THEN "trailer_value" ELSE "value"
  ELSE IF "TRAILING" \in flags THEN "trailers" ELSE "fields"

PlaceOf(l, m) == Place(l.state, m.flags)

Running == at \in {"start", "run"} /\ ~failed

-----------------------------------------------------------------------------
(* Steps of the code and steps of the contract.                            *)

\* The stages of HttpContract between which no callback need come.
Quietly(a, b) ==
  \/ a = b
  \/ a = "line" /\ b = "fields"
  \/ a = "fields" /\ b \in {"name", "value"}
  \/ a = "body" /\ b = "trailers"
  \/ a = "trailers" /\ b \in {"trailer_name", "trailer_value"}

(* A running or idle parser is in the stage that its state says.           *)
LEMMA StageIsPlace ==
  /\ ~failed /\ at \notin {"ended", "upgraded"} => Stage = PlaceOf(local, msg)
  /\ ~failed => Stage \in Contract!Stages \ {"failed"}
  /\ failed => Stage = "failed"
BY DEF Stage, PlaceOf, Place, Lines, InTrailers, Contract!Stages, Contract!Between,
       Contract!Headers, Contract!Trailers

(* The same of the next state.                                             *)
LEMMA StageIsPlaceNext ==
  /\ ~failed' /\ at' \notin {"ended", "upgraded"} => Stage' = PlaceOf(local', msg')
  /\ failed' => Stage' = "failed"
BY DEF Stage, PlaceOf, Place, Lines, InTrailers

(* What CallbackFails may have called of one callback and of two.          *)
LEMMA Pieces ==
  ASSUME NEW c, NEW d
  PROVE  /\ SubSeq(<<c>>, 1, 1) = <<c>>
         /\ SubSeq(<<c, d>>, 1, 1) = <<c>> /\ SubSeq(<<c, d>>, 1, 2) = <<c, d>>
<1>0. <<c>> \in Seq({c, d}) /\ <<c, d>> \in Seq({c, d})
  OBVIOUS
<1>1. SubSeq(<<c>>, 1, 1) = <<c>> /\ SubSeq(<<c, d>>, 1, 2) = <<c, d>>
  BY <1>0, SubSeqFull
<1>2. SubSeq(<<c, d>>, 1, 1) = <<c>>
  <2>1. /\ SubSeq(<<c, d>>, 1, 1) \in Seq({c, d}) /\ Len(SubSeq(<<c, d>>, 1, 1)) = 1
        /\ SubSeq(<<c, d>>, 1, 1)[1] = c
    <3>1. \A i \in 1..1 : <<c, d>>[i] \in {c, d}
      OBVIOUS
    <3> QED
      BY <3>1, SubSeqProperties
  <2> QED
    <3>1. <<c>> \in Seq({c, d}) /\ Len(<<c>>) = 1 /\ <<c>>[1] = c
      OBVIOUS
    <3>2. \A i \in 1..1 : SubSeq(<<c, d>>, 1, 1)[i] = <<c>>[i]
      BY <2>1, <3>1
    <3> QED
      BY <2>1, <3>1, <3>2, SeqEqual
<1> QED
  BY <1>1, <1>2

(* Where no callback is made none fails.                                   *)
LEMMA NothingFails == ~CallbackFails(<<>>)
BY DEF CallbackFails

(* A single callback that fails was made.                                  *)
LEMMA OneFails ==
  ASSUME NEW c, CallbackFails(<<c>>)
  PROVE  Error(<<c>>)
<1> SUFFICES ASSUME NEW k \in 1..Len(<<c>>), Error(SubSeq(<<c>>, 1, k)) PROVE Error(<<c>>)
  BY DEF CallbackFails
<1>1. k = 1
  OBVIOUS
<1> QED
  BY <1>1, Pieces

(* Of two callbacks the first fails, or the second after both were made.   *)
LEMMA TwoFail ==
  ASSUME NEW c, NEW d, CallbackFails(<<c, d>>)
  PROVE  (Error(<<c>>) /\ c # "body") \/ Error(<<c, d>>)
<1> SUFFICES ASSUME NEW k \in 1..Len(<<c, d>>), <<c, d>>[k] # "body",
                    Error(SubSeq(<<c, d>>, 1, k))
             PROVE  (Error(<<c>>) /\ c # "body") \/ Error(<<c, d>>)
  BY DEF CallbackFails
<1>1. CASE k = 1
  BY <1>1, Pieces
<1>2. CASE k = 2
  BY <1>2, Pieces
<1> QED
  BY <1>1, <1>2

(* An error is one that the contract allows after these callbacks.         *)
LEMMA ErrorStep ==
  ASSUME HttpInv, ~failed, NEW callbacks, Error(callbacks),
         \/ callbacks = <<>>
         \/ callbacks = <<"message_begin">> /\ Stage = "start"
         \/ callbacks = <<"url">> /\ Stage = "line"
         \/ callbacks = <<"header_field">> /\ Stage \in {"name", "trailer_name"}
         \/ callbacks = <<"header_value">> /\ Stage \in {"value", "trailer_value"}
         \/ callbacks = <<"headers_complete">> /\ Stage = "fields"
         \/ callbacks = <<"headers_complete", "message_complete">> /\ Stage = "fields"
         \/ callbacks = <<"body", "message_complete">> /\ Stage = "body"
         \/ callbacks = <<"message_complete">> /\ Stage \in {"body", "trailers"}
  PROVE  HttpInv' /\ Contract!Next
<1>1. failed' /\ local' = local /\ msg' = msg /\ called' = callbacks
  BY DEF Error
<1>2. Stage' = "failed" /\ Stage \in Contract!Stages \ {"failed"}
  BY <1>1, StageIsPlace, StageIsPlaceNext
<1>3. HttpInv'
  BY <1>1 DEF HttpInv, Shape, CutsDontMatter
<1>4. Contract!Fail
  BY <1>1, <1>2 DEF Contract!Fail, Contract!Call
<1> QED
  BY <1>3, <1>4 DEF Contract!Next

(* A turn that goes well keeps the invariant.                              *)
LEMMA TurnInv ==
  ASSUME Running, NEW l, NEW m, Shape(l, m), at' \in {"run", "full"}, ~failed',
         local' = l, msg' = m, marks' = MarksOf(l.state)
  PROVE  HttpInv' /\ Stage' = PlaceOf(l, m)
<1>1. HttpInv'
  BY DEF HttpInv, Shape, CutsDontMatter, MarksOf
<1> QED
  BY <1>1, StageIsPlaceNext

(* A turn without callback.                                                *)
LEMMA QuietTurn ==
  ASSUME HttpInv, Running, NEW l, NEW m, NEW b, Turn(l, m, MarksOf(l.state), b, <<>>),
         Shape(l, m), Quietly(PlaceOf(local, msg), PlaceOf(l, m))
  PROVE  HttpInv' /\ Contract!Next
<1>1. /\ local' = l /\ msg' = m /\ marks' = MarksOf(l.state) /\ called' = <<>>
      /\ at' = "run" /\ ~failed'
  BY NothingFails DEF Turn, Running
<1>2. HttpInv' /\ Stage' = PlaceOf(l, m)
  BY <1>1, TurnInv
<1>3. Stage = PlaceOf(local, msg) /\ Stage \in Contract!Stages \ {"failed"}
  BY StageIsPlace DEF Running
<1>4. Contract!Silent
  BY <1>1, <1>2, <1>3 DEF Contract!Silent, Contract!Call, Quietly
<1> QED
  BY <1>2, <1>4 DEF Contract!Next

\* The stages before and after a single callback, and between which it fails.
Moves(a, c, b) ==
  \/ c = "message_begin" /\ a = "start" /\ b \in {"start", "line"}
  \/ c = "url" /\ a = "line" /\ b \in {"line", "fields"}
  \/ c = "header_field" /\ a = "name" /\ b \in {"fields", "name", "value"}
  \/ c = "header_field" /\ a = "trailer_name" /\ b \in {"trailers", "trailer_name", "trailer_value"}
  \/ c = "header_value" /\ a = "value" /\ b \in {"value", "fields"}
  \/ c = "header_value" /\ a = "trailer_value" /\ b \in {"trailer_value", "trailers"}
  \/ c = "headers_complete" /\ a = "fields" /\ b = "body"
  \/ c = "message_complete" /\ a \in {"body", "trailers"} /\ b \in {"start", "over"}

(* A turn with one callback.                                               *)
LEMMA CallingTurn ==
  ASSUME HttpInv, Running, NEW l, NEW m, NEW b, NEW c, Turn(l, m, MarksOf(l.state), b, <<c>>),
         Shape(l, m), Moves(PlaceOf(local, msg), c, PlaceOf(l, m))
  PROVE  HttpInv' /\ Contract!Next
<1>0. Stage = PlaceOf(local, msg)
  BY StageIsPlace DEF Running
<1>1. CASE Error(<<c>>)
  BY <1>0, <1>1, ErrorStep DEF Moves, Running
<1>2. CASE ~Error(<<c>>)
  <2>1. /\ local' = l /\ msg' = m /\ marks' = MarksOf(l.state) /\ called' = <<c>>
        /\ at' = "run" /\ ~failed'
    BY <1>2, OneFails DEF Turn, Running
  <2>2. HttpInv' /\ Stage' = PlaceOf(l, m)
    BY <2>1, TurnInv
  <2>3. \/ Contract!Begin \/ Contract!Url \/ Contract!Field \/ Contract!Value
        \/ Contract!HeadersComplete \/ Contract!Complete
    BY <1>0, <2>1, <2>2
    DEF Moves, Contract!Begin, Contract!Url, Contract!Field, Contract!Value,
        Contract!HeadersComplete, Contract!Complete, Contract!Call, Contract!Between,
        Contract!Headers, Contract!Trailers
  <2> QED
    BY <2>2, <2>3 DEF Contract!Next
<1> QED
  BY <1>1, <1>2

-----------------------------------------------------------------------------
(* What the states of a line, of a URL, of a header and of a body show.    *)

FieldLines == FieldStates \ (NameStates \cup ValueStates)

(* Stages, marks and kinds of each group of states.                        *)
LEMMA Places ==
  ASSUME NEW s, NEW t
  PROVE  /\ s \in Starts => Place(s, t) = "start" /\ MarksOf(s) = {} /\ s \notin Lines
         /\ s \in Lines => Place(s, t) = "line"
         /\ s \in Lines \ UrlStates => MarksOf(s) = {}
         /\ s \in UrlStates => MarksOf(s) = {"url"} /\ s \in Lines
         /\ s \in BodyStates => Place(s, t) = "body" /\ MarksOf(s) = {} /\ s \notin Lines
         /\ s \in FieldLines =>
              /\ Place(s, t) = (IF "TRAILING" \in t THEN "trailers" ELSE "fields")
              /\ MarksOf(s) = {} /\ s \notin Lines
         /\ s = "header_field" =>
              /\ Place(s, t) = (IF "TRAILING" \in t THEN "trailer_name" ELSE "name")
              /\ MarksOf(s) = {"header_field"} /\ s \notin Lines
         /\ s \in ValueStates =>
              /\ Place(s, t) = (IF "TRAILING" \in t THEN "trailer_value" ELSE "value")
              /\ MarksOf(s) = (IF s = "header_value" THEN {"header_value"} ELSE {})
              /\ s \notin Lines
         /\ s = "dead" => Place(s, t) = "over" /\ MarksOf(s) = {} /\ s \notin Lines
BY DEF Place, MarksOf, Starts, Lines, ReqLine, ResLine, UrlStates, BodyStates, ChunkStates,
       FieldLines, FieldStates, NameStates, ValueStates

(* Of these, the marks alone.                                              *)
LEMMA MarksAt ==
  ASSUME NEW s
  PROVE  /\ s \in Lines \ UrlStates => MarksOf(s) = {}
         /\ s \in UrlStates => MarksOf(s) = {"url"}
         /\ s \in FieldLines => MarksOf(s) = {}
<1> DEFINE t == {}
<1>1. /\ s \in Lines \ UrlStates => MarksOf(s) = {}
      /\ s \in UrlStates => MarksOf(s) = {"url"}
      /\ s \in FieldLines =>
           /\ Place(s, t) = (IF "TRAILING" \in t THEN "trailers" ELSE "fields")
           /\ MarksOf(s) = {}
  BY Places
<1> QED
  BY <1>1

(* What an action that begins with In(S) starts from.                      *)
LEMMA InState ==
  ASSUME NEW S, In(S), HttpInv
  PROVE  Running /\ local.state \in S /\ marks = MarksOf(local.state) /\ Shape(local, msg)
BY DEF In, Running, HttpInv, CutsDontMatter

(* The state moves on and nothing else that matters here changes.          *)
LEMMA GoStep ==
  ASSUME HttpInv, Running, NEW l, NEW m, NEW b, Turn(l, m, marks, b, <<>>),
         DOMAIN l = {"state", "header_state", "index", "nread"},
         "flags" \in DOMAIN m, m.flags = msg.flags,
         MarksOf(l.state) = MarksOf(local.state),
         l.state \in Lines => local.state \in Lines,
         Quietly(Place(local.state, msg.flags), Place(l.state, msg.flags))
  PROVE  HttpInv' /\ Contract!Next
<1>1. marks = MarksOf(l.state) /\ Shape(l, m)
  BY DEF HttpInv, Running, CutsDontMatter, Shape
<1>2. Quietly(PlaceOf(local, msg), PlaceOf(l, m))
  BY DEF PlaceOf
<1> QED
  BY <1>1, <1>2, QuietTurn

(* The record of the local variables, and its state.                       *)
LEMMA NowShape ==
  ASSUME NEW s, NEW h, NEW i, NEW n
  PROVE  /\ DOMAIN Full(s, h, i, n) = {"state", "header_state", "index", "nread"}
         /\ Full(s, h, i, n).state = s
         /\ DOMAIN Now(s) = {"state", "header_state", "index", "nread"} /\ Now(s).state = s
BY DEF Full, Now

(* States that take one byte and no other.                                 *)
LEMMA StrictStep ==
  ASSUME HttpInv, NEW ch, Strict(ch) PROVE HttpInv' /\ Contract!Next
<1>1. Running /\ local.state \in DOMAIN Wants /\ marks = MarksOf(local.state) /\ Shape(local, msg)
  BY InState DEF Strict
<1>2. CASE Error(<<>>)
  BY <1>1, <1>2, ErrorStep DEF Running
<1>3. CASE Go(Then[local.state])
  <2>1. /\ Then[local.state] \in Lines => local.state \in Lines
        /\ MarksOf(Then[local.state]) = MarksOf(local.state)
    BY <1>1 DEF Wants, Then, MarksOf, Lines, ReqLine, ResLine, UrlStates
  <2>2. \/ local.state \in Lines /\ Then[local.state] \in Lines
        \/ local.state \in Lines /\ Then[local.state] = "header_field_start"
        \/ local.state \in BodyStates /\ Then[local.state] \in BodyStates
    BY <1>1 DEF Wants, Then, Lines, ReqLine, ResLine, UrlStates, BodyStates, ChunkStates
  <2>3. "header_field_start" \in FieldLines
    BY DEF FieldLines, FieldStates, NameStates, ValueStates
  <2>4. local.state \in Lines => "TRAILING" \notin msg.flags
    BY <1>1 DEF Shape
  <2>5. Quietly(Place(local.state, msg.flags), Place(Then[local.state], msg.flags))
    BY <2>2, <2>3, <2>4, Places DEF Quietly
  <2> QED
    BY <1>1, <1>3, <2>1, <2>5, GoStep, NowShape DEF Go, Quiet, Shape
<1> QED
  BY <1>2, <1>3 DEF Strict

(* A step within a line, or to the headers that follow it.                 *)
LEMMA LineStep ==
  ASSUME HttpInv, Running, local.state \in Lines,
         NEW l, NEW m, NEW b, Turn(l, m, marks, b, <<>>),
         DOMAIN l = {"state", "header_state", "index", "nread"},
         "flags" \in DOMAIN m, m.flags = msg.flags,
         \/ local.state \in UrlStates /\ l.state \in UrlStates
         \/ local.state \notin UrlStates /\ l.state \in Lines \ UrlStates
         \/ local.state \notin UrlStates /\ l.state = "header_field_start"
  PROVE  HttpInv' /\ Contract!Next
<1>1. "TRAILING" \notin msg.flags
  BY DEF HttpInv, Shape
<1>2. "header_field_start" \in FieldLines
  BY DEF FieldLines, FieldStates, NameStates, ValueStates
<1>3. MarksOf(l.state) = MarksOf(local.state)
  <2>1. CASE local.state \in UrlStates /\ l.state \in UrlStates
    BY <2>1, MarksAt
  <2>2. CASE local.state \notin UrlStates /\ l.state \in Lines \ UrlStates
    BY <2>2, MarksAt
  <2>3. CASE local.state \notin UrlStates /\ l.state = "header_field_start"
    <3>1. MarksOf(local.state) = {}
      BY <2>3, MarksAt
    <3>2. MarksOf(l.state) = {}
      BY <1>2, <2>3, MarksAt
    <3> QED
      BY <3>1, <3>2
  <2> QED
    BY <2>1, <2>2, <2>3
<1>4. Quietly(Place(local.state, msg.flags), Place(l.state, msg.flags))
  BY <1>1, <1>2, Places DEF Quietly
<1> QED
  BY <1>3, <1>4, GoStep

(* The mark that the state has set is reported and cleared.                *)
LEMMA ReportStep ==
  ASSUME HttpInv, Running, NEW c, MarksOf(local.state) = {c}, NEW l, NEW m, Report(c, l, m),
         MarksOf(l.state) = {}, Shape(l, m), Moves(PlaceOf(local, msg), c, PlaceOf(l, m))
  PROVE  HttpInv' /\ Contract!Next
<1>1. marks = {c}
  BY DEF HttpInv, Running, CutsDontMatter
<1>2. Marked(c) = <<c>> /\ marks \ {c} = MarksOf(l.state)
  BY <1>1 DEF Marked
<1> QED
  BY <1>2, CallingTurn DEF Report

-----------------------------------------------------------------------------
(* The first line.                                                         *)

(* A message begins.                                                       *)
LEMMA BeginStep ==
  ASSUME HttpInv, Running, local.state \in Starts,
         NEW s \in (Lines \ UrlStates) \cup Starts, NEW i, NEW m,
         "flags" \in DOMAIN m, m.flags = {}, BeginMessage(s, i, m)
  PROVE  HttpInv' /\ Contract!Next
<1> DEFINE l == Full(s, local.header_state, i, Counted)
<1>0. marks = MarksOf(local.state) /\ l.state = s
      /\ DOMAIN l = {"state", "header_state", "index", "nread"}
  BY NowShape DEF HttpInv, Running, CutsDontMatter
<1>1. marks = MarksOf(l.state) /\ Shape(l, m)
  <2>1. MarksOf(local.state) = {} /\ MarksOf(s) = {}
    BY Places
  <2> QED
    BY <1>0, <2>1 DEF Shape
<1>2. Moves(PlaceOf(local, msg), "message_begin", PlaceOf(l, m))
  BY Places, NowShape DEF Moves, PlaceOf
<1>3. Turn(l, m, marks, [owed |-> 0, wrapped |-> FALSE], <<"message_begin">>)
  BY DEF BeginMessage
<1> HIDE DEF l
<1> QED
  BY <1>1, <1>2, <1>3, CallingTurn

(* Bytes between two messages.                                             *)
LEMMA StartsStep ==
  ASSUME HttpInv, NEW ch, StartReq(ch) \/ StartRes(ch) \/ StartReqOrRes(ch)
  PROVE  HttpInv' /\ Contract!Next
<1>1. Running /\ local.state \in Starts /\ Shape(local, msg)
  BY InState DEF StartReq, StartRes, StartReqOrRes, Starts
<1>2. Stage = "start"
  BY <1>1, StageIsPlace, Places DEF Running, PlaceOf
<1>3. CASE Error(<<"message_begin">>)
  BY <1>1, <1>2, <1>3, ErrorStep DEF Running
<1>4. ASSUME NEW s \in Starts, Go(s) PROVE HttpInv' /\ Contract!Next
  <2>1. MarksOf(s) = MarksOf(local.state) /\ s \notin Lines
        /\ Quietly(Place(local.state, msg.flags), Place(s, msg.flags))
    BY <1>1, Places DEF Quietly
  <2> QED
    BY <1>1, <1>4, <2>1, GoStep, NowShape DEF Go, Quiet, Shape
<1>5. ASSUME NEW s \in {"req_method", "res_H", "res_or_resp_H", "start_res"}, NEW i,
             NEW m, "flags" \in DOMAIN m, m.flags = {}, BeginMessage(s, i, m)
      PROVE  HttpInv' /\ Contract!Next
  <2>1. s \in (Lines \ UrlStates) \cup Starts
    BY DEF Lines, ReqLine, ResLine, UrlStates, Starts
  <2> QED
    BY <1>1, <1>5, <2>1, BeginStep
<1>6. /\ "flags" \in DOMAIN Fresh /\ Fresh.flags = {}
      /\ \A x : [Fresh EXCEPT !.method = x].flags = {} /\ "flags" \in DOMAIN [Fresh EXCEPT !.method = x]
      /\ \A t, x : /\ [Fresh EXCEPT !.type = t, !.method = x].flags = {}
                    /\ "flags" \in DOMAIN [Fresh EXCEPT !.type = t, !.method = x]
  BY <1>1 DEF Fresh, Shape
<1>7. CASE StartReq(ch)
  BY <1>3, <1>4, <1>5, <1>6, <1>7 DEF StartReq, Starts
<1>8. CASE StartRes(ch)
  BY <1>3, <1>5, <1>6, <1>8 DEF StartRes
<1>9. CASE StartReqOrRes(ch)
  BY <1>3, <1>4, <1>5, <1>6, <1>9 DEF StartReqOrRes, Starts
<1> QED
  BY <1>7, <1>8, <1>9

(* A step within a line that changes nothing but the state.                *)
LEMMA GoLine ==
  ASSUME HttpInv, Running, local.state \in Lines, NEW s, Go(s),
         \/ local.state \in UrlStates /\ s \in UrlStates
         \/ local.state \notin UrlStates /\ s \in (Lines \ UrlStates) \cup {"header_field_start"}
  PROVE  HttpInv' /\ Contract!Next
<1>1. "flags" \in DOMAIN msg
  BY DEF HttpInv, Shape
<1> QED
  BY <1>1, LineStep, NowShape DEF Go, Quiet

\* The states of a line that are no part of a URL.
LEMMA PlainLines ==
  {"res_or_resp_H", "res_HT", "req_method", "req_spaces_before_url", "req_http_start",
   "req_http_H", "req_first_http_major", "req_http_major", "res_first_http_major",
   "res_http_major", "req_first_http_minor", "req_http_minor", "res_first_http_minor",
   "res_http_minor", "res_first_status_code", "res_status_code", "res_status",
   "req_line_almost_done", "res_line_almost_done"} \subseteq Lines \ UrlStates
BY DEF Lines, ReqLine, ResLine, UrlStates

(* The method, and what tells a request from a response.                   *)
LEMMA MethodStep ==
  ASSUME HttpInv, NEW ch, ResOrRespH(ch) \/ ReqMethod(ch) PROVE HttpInv' /\ Contract!Next
<1>1. Running /\ local.state \in Lines \ UrlStates /\ Shape(local, msg)
  BY InState, PlainLines DEF ResOrRespH, ReqMethod
<1>2. CASE Error(<<>>)
  BY <1>1, <1>2, ErrorStep DEF Running
<1>3. ASSUME NEW s \in Lines \ UrlStates, NEW i, NEW m, "flags" \in DOMAIN m, m.flags = msg.flags,
             NEW h, NEW n, Turn(Full(s, h, i, n), m, marks, body, <<>>)
      PROVE  HttpInv' /\ Contract!Next
  BY <1>1, <1>3, LineStep, NowShape
<1>4. /\ "flags" \in DOMAIN msg
      /\ \A x : [msg EXCEPT !.type = x].flags = msg.flags /\ "flags" \in DOMAIN [msg EXCEPT !.type = x]
      /\ \A x : [msg EXCEPT !.method = x].flags = msg.flags /\ "flags" \in DOMAIN [msg EXCEPT !.method = x]
      /\ \A t, x : /\ [msg EXCEPT !.type = t, !.method = x].flags = msg.flags
                    /\ "flags" \in DOMAIN [msg EXCEPT !.type = t, !.method = x]
  BY <1>1 DEF Shape
<1>5. CASE ResOrRespH(ch)
  BY <1>2, <1>3, <1>4, <1>5, PlainLines DEF ResOrRespH, Now
<1>6. CASE ReqMethod(ch)
  BY <1>2, <1>3, <1>4, <1>6, PlainLines DEF ReqMethod, Quiet
<1> QED
  BY <1>5, <1>6

(* Spaces, and the first character of the URL, which sets a mark.          *)
LEMMA UrlBegins ==
  ASSUME HttpInv, NEW ch, SpacesBeforeUrl(ch) PROVE HttpInv' /\ Contract!Next
<1>0. Running /\ local.state \in Lines \ UrlStates /\ Shape(local, msg)
      /\ marks = MarksOf(local.state)
  BY InState, PlainLines DEF SpacesBeforeUrl
<1>1. Running /\ local.state \in Lines \ UrlStates /\ Shape(local, msg) /\ marks = {}
  BY <1>0, Places
<1>2. CASE Error(<<>>)
  BY <1>1, <1>2, ErrorStep DEF Running
<1>3. CASE Go("req_spaces_before_url")
  BY <1>1, <1>3, GoLine, PlainLines
<1>4. CASE Turn(Now(UrlStarts(ch)), msg, marks \cup {"url"}, body, <<>>)
  <2>1. UrlStarts(ch) \in UrlStates
    BY DEF UrlStarts, UrlStates
  <2>2. marks \cup {"url"} = MarksOf(UrlStarts(ch)) /\ Shape(Now(UrlStarts(ch)), msg)
    BY <1>1, <2>1, Places, NowShape DEF Shape
  <2>3. Quietly(PlaceOf(local, msg), PlaceOf(Now(UrlStarts(ch)), msg))
    BY <1>1, <2>1, Places, NowShape DEF Quietly, PlaceOf
  <2> QED
    BY <1>1, <1>4, <2>2, <2>3, QuietTurn, NowShape
<1> QED
  BY <1>2, <1>3, <1>4 DEF SpacesBeforeUrl

(* Characters of the URL, and its end, where it is reported.               *)
LEMMA UrlStep ==
  ASSUME HttpInv, NEW ch, Url(ch) PROVE HttpInv' /\ Contract!Next
<1>1. Running /\ local.state \in UrlStates /\ Shape(local, msg)
  BY InState DEF Url
<1>2. /\ MarksOf(local.state) = {"url"} /\ PlaceOf(local, msg) = "line"
      /\ local.state \in Lines /\ "TRAILING" \notin msg.flags
  BY <1>1, Places DEF PlaceOf, Shape
<1>3. CASE Error(<<>>)
  BY <1>1, <1>3, ErrorStep DEF Running
<1>4. ASSUME NEW t \in UrlMoves(ch), Go(t) PROVE HttpInv' /\ Contract!Next
  BY <1>1, <1>2, <1>4, GoLine DEF UrlMoves
<1>5. ASSUME NEW s \in {"req_http_start", "req_line_almost_done", "header_field_start"},
             NEW m, "flags" \in DOMAIN m, m.flags = msg.flags, Report("url", Now(s), m)
      PROVE  HttpInv' /\ Contract!Next
  <2>1. "header_field_start" \in FieldLines
    BY DEF FieldLines, FieldStates, NameStates, ValueStates
  <2>2. MarksOf(s) = {} /\ Shape(Now(s), m) /\ Place(s, m.flags) \in {"line", "fields"}
    BY <1>2, <1>5, <2>1, Places, PlainLines, NowShape DEF Shape
  <2>3. Moves(PlaceOf(local, msg), "url", PlaceOf(Now(s), m))
    BY <1>2, <2>2, NowShape DEF Moves, PlaceOf
  <2> QED
    BY <1>1, <1>2, <1>5, <2>2, <2>3, ReportStep, NowShape
<1>6. /\ "flags" \in DOMAIN msg
      /\ [msg EXCEPT !.major = FALSE, !.minor = TRUE].flags = msg.flags
      /\ "flags" \in DOMAIN [msg EXCEPT !.major = FALSE, !.minor = TRUE]
  BY <1>1 DEF Shape
<1> QED
  BY <1>3, <1>4, <1>5, <1>6 DEF Url

(* The version and the status line.                                        *)
LEMMA VersionStep ==
  ASSUME HttpInv, NEW ch, ReqHttpStart(ch) \/ HttpMajor(ch) \/ HttpMinor(ch) \/ Status(ch)
  PROVE  HttpInv' /\ Contract!Next
<1>1. Running /\ local.state \in Lines \ UrlStates /\ Shape(local, msg)
  BY InState, PlainLines
  DEF ReqHttpStart, HttpMajor, HttpMinor, Status, Major, FirstMinor, Minor
<1>2. CASE Error(<<>>)
  BY <1>1, <1>2, ErrorStep DEF Running
<1>3. ASSUME NEW s \in (Lines \ UrlStates) \cup {"header_field_start"}, Go(s)
      PROVE  HttpInv' /\ Contract!Next
  BY <1>1, <1>3, GoLine
<1>4. ASSUME NEW s \in Lines \ UrlStates, NEW m, "flags" \in DOMAIN m, m.flags = msg.flags,
             Turn(Now(s), m, marks, body, <<>>)
      PROVE  HttpInv' /\ Contract!Next
  BY <1>1, <1>4, LineStep, NowShape
<1>5. /\ "flags" \in DOMAIN msg
      /\ \A x : [msg EXCEPT !.major = x].flags = msg.flags /\ "flags" \in DOMAIN [msg EXCEPT !.major = x]
      /\ \A x : [msg EXCEPT !.minor = x].flags = msg.flags /\ "flags" \in DOMAIN [msg EXCEPT !.minor = x]
  BY <1>1 DEF Shape
<1>6. CASE ReqHttpStart(ch)
  BY <1>2, <1>3, <1>6, PlainLines DEF ReqHttpStart
<1>7. CASE HttpMajor(ch)
  <2>1. local.state \in DOMAIN Major => Major[local.state] \in Lines \ UrlStates
    BY PlainLines DEF Major
  <2>2. local.state \in DOMAIN FirstMinor => FirstMinor[local.state] \in Lines \ UrlStates
    BY PlainLines DEF FirstMinor
  <2> QED
    BY <1>1, <1>2, <1>3, <1>4, <1>5, <1>7, <2>1, <2>2 DEF HttpMajor, In
<1>8. CASE HttpMinor(ch)
  <2>1. local.state \in DOMAIN Minor => Minor[local.state] \in Lines \ UrlStates
    BY PlainLines DEF Minor
  <2> QED
    BY <1>1, <1>2, <1>3, <1>4, <1>5, <1>8, <2>1, PlainLines DEF HttpMinor, In
<1>9. CASE Status(ch)
  BY <1>2, <1>3, <1>9, PlainLines DEF Status
<1> QED
  BY <1>6, <1>7, <1>8, <1>9

-----------------------------------------------------------------------------
(* Headers and trailers.                                                   *)

(* The states among headers that belong to no name and no value.           *)
LEMMA FieldLinesAre ==
  FieldLines = {"header_field_start", "header_almost_done", "header_value_lws",
                "headers_almost_done"}
BY DEF FieldLines, FieldStates, NameStates, ValueStates

(* A stage depends on the flags only through TRAILING.                     *)
LEMMA PlaceSame ==
  ASSUME NEW s, NEW f, NEW g, "TRAILING" \in f <=> "TRAILING" \in g
  PROVE  Place(s, f) = Place(s, g)
BY DEF Place

(* What a header line adds to the flags is not TRAILING.                   *)
LEMMA WithFlagIs ==
  ASSUME "flags" \in DOMAIN msg
  PROVE  "flags" \in DOMAIN WithFlag /\ ("TRAILING" \in WithFlag.flags <=> "TRAILING" \in msg.flags)
BY DEF WithFlag, FlagOf, Values

\* The states that may follow each other among headers and trailers.
Follows(s, t) ==
  \/ s = t
  \/ s \in FieldLines /\ t \in FieldLines \cup NameStates \cup ValueStates
  \/ s \in ValueStates /\ t \in ValueStates

(* States that follow each other need no callback.                         *)
LEMMA FollowsQuietly ==
  ASSUME NEW s, NEW t, NEW f, Follows(s, t) PROVE Quietly(Place(s, f), Place(t, f))
<1>1. CASE "TRAILING" \in f
  BY <1>1, Places DEF Follows, Quietly, NameStates
<1>2. CASE "TRAILING" \notin f
  BY <1>2, Places DEF Follows, Quietly, NameStates
<1> QED
  BY <1>1, <1>2

(* The end of a name or of a value is reported.                            *)
LEMMA FollowsMoves ==
  ASSUME NEW s, NEW t, NEW f, NEW c,
         \/ c = "header_field" /\ s = "header_field"
              /\ t \in FieldLines \cup NameStates \cup ValueStates
         \/ c = "header_value" /\ s \in ValueStates /\ t \in FieldLines \cup ValueStates
  PROVE  Moves(Place(s, f), c, Place(t, f))
<1>1. CASE "TRAILING" \in f
  BY <1>1, Places DEF Moves, NameStates
<1>2. CASE "TRAILING" \notin f
  BY <1>2, Places DEF Moves, NameStates
<1> QED
  BY <1>1, <1>2

(* A step among the headers, whose flags agree on trailers.                *)
LEMMA FieldStep ==
  ASSUME HttpInv, Running, local.state \notin Lines,
         NEW l, NEW m, NEW b, Turn(l, m, MarksOf(l.state), b, <<>>),
         DOMAIN l = {"state", "header_state", "index", "nread"}, l.state \notin Lines,
         "flags" \in DOMAIN m, "TRAILING" \in m.flags <=> "TRAILING" \in msg.flags,
         Follows(local.state, l.state)
  PROVE  HttpInv' /\ Contract!Next
<1>1. Shape(l, m)
  BY DEF Shape
<1>2. PlaceOf(l, m) = Place(l.state, msg.flags) /\ PlaceOf(local, msg) = Place(local.state, msg.flags)
  BY PlaceSame DEF PlaceOf
<1> QED
  BY <1>1, <1>2, FollowsQuietly, QuietTurn

\* The same of the state that the local variables are set to.
LEMMA FieldTurn ==
  ASSUME HttpInv, Running, local.state \notin Lines,
         NEW s, NEW h, NEW i, NEW n, NEW m, NEW b,
         Turn(Full(s, h, i, n), m, MarksOf(s), b, <<>>), s \notin Lines, Follows(local.state, s),
         "flags" \in DOMAIN m, "TRAILING" \in m.flags <=> "TRAILING" \in msg.flags
  PROVE  HttpInv' /\ Contract!Next
<1> DEFINE l == Full(s, h, i, n)
<1>1. l.state = s /\ DOMAIN l = {"state", "header_state", "index", "nread"}
  BY NowShape
<1>2. Turn(l, m, MarksOf(l.state), b, <<>>) /\ Follows(local.state, l.state) /\ l.state \notin Lines
  BY <1>1
<1> HIDE DEF l
<1> QED
  BY <1>1, <1>2, FieldStep

(* The first byte of a header line.                                        *)
LEMMA NameBegins ==
  ASSUME HttpInv, NEW ch, HeaderFieldStart(ch) PROVE HttpInv' /\ Contract!Next
<1>0. Running /\ local.state \in FieldLines /\ Shape(local, msg) /\ marks = MarksOf(local.state)
  BY InState, FieldLinesAre DEF HeaderFieldStart, AtFieldStart
<1>1. marks = {} /\ local.state \notin Lines /\ "flags" \in DOMAIN msg
  BY <1>0, Places DEF Shape
<1>2. CASE Error(<<>>)
  BY <1>0, <1>2, ErrorStep DEF Running
<1>3. CASE Go("headers_almost_done")
  <2>1. /\ MarksOf("headers_almost_done") = {} /\ "headers_almost_done" \notin Lines
        /\ Follows(local.state, "headers_almost_done")
    BY <1>0, FieldLinesAre, Places DEF Follows
  <2> QED
    BY <1>0, <1>1, <1>3, <2>1, FieldTurn DEF Go, Quiet, Now
<1>4. ASSUME NEW h, NEW i, NEW n,
             Turn(Full("header_field", h, i, n), msg, marks \cup {"header_field"}, body, <<>>)
      PROVE  HttpInv' /\ Contract!Next
  <2>1. /\ marks \cup {"header_field"} = MarksOf("header_field") /\ "header_field" \notin Lines
        /\ Follows(local.state, "header_field")
    BY <1>0, <1>1, Places DEF Follows, NameStates
  <2> QED
    BY <1>0, <1>1, <1>4, <2>1, FieldTurn
<1> QED
  BY <1>2, <1>3, <1>4 DEF HeaderFieldStart

(* The name of a header.                                                   *)
LEMMA NameStep ==
  ASSUME HttpInv, NEW ch, HeaderField(ch) PROVE HttpInv' /\ Contract!Next
<1>0. Running /\ local.state = "header_field" /\ Shape(local, msg) /\ marks = MarksOf(local.state)
  BY InState DEF HeaderField
<1>1. /\ MarksOf(local.state) = {"header_field"} /\ local.state \notin Lines
      /\ "flags" \in DOMAIN msg
  BY <1>0, Places DEF Shape
<1>2. CASE Error(<<>>)
  BY <1>0, <1>2, ErrorStep DEF Running
<1>3. ASSUME NEW h, NEW i, NEW n, Quiet(Full("header_field", h, i, n))
      PROVE  HttpInv' /\ Contract!Next
  <2>1. Follows(local.state, "header_field")
    BY <1>0 DEF Follows
  <2> QED
    BY <1>0, <1>1, <1>3, <2>1, FieldTurn DEF Quiet
<1>4. ASSUME NEW s \in FieldLines \cup {"header_value_start"}, Report("header_field", Now(s), msg)
      PROVE  HttpInv' /\ Contract!Next
  <2>1. "header_value_start" \in ValueStates
    BY DEF ValueStates
  <2>2. MarksOf(s) = {} /\ s \notin Lines
    BY <2>1, Places
  <2>3. Moves(PlaceOf(local, msg), "header_field", PlaceOf(Now(s), msg))
    BY <1>0, <2>1, Places, FollowsMoves, NowShape DEF PlaceOf
  <2> QED
    BY <1>0, <1>1, <1>4, <2>2, <2>3, ReportStep, NowShape DEF Shape
<1> QED
  BY <1>2, <1>3, <1>4, FieldLinesAre DEF HeaderField

(* The first byte of a value; an empty value is reported at once.          *)
LEMMA ValueBeginsStep ==
  ASSUME HttpInv, NEW ch, HeaderValueStart(ch) PROVE HttpInv' /\ Contract!Next
<1>0. Running /\ local.state = "header_value_start" /\ Shape(local, msg)
      /\ marks = MarksOf(local.state) /\ local.state \in ValueStates
  BY InState DEF HeaderValueStart, ValueStates
<1>1. marks = {} /\ local.state \notin Lines /\ "flags" \in DOMAIN msg
  BY <1>0, Places DEF Shape
<1>2. CASE Error(<<>>)
  BY <1>0, <1>2, ErrorStep DEF Running
<1>3. CASE Go("header_value_start")
  <2>1. Follows(local.state, "header_value_start")
    BY <1>0 DEF Follows
  <2> QED
    BY <1>0, <1>1, <1>3, <2>1, FieldTurn DEF Go, Quiet, Now
<1>4. ASSUME NEW h, NEW i, NEW n, NEW m, NEW b, "flags" \in DOMAIN m,
             "TRAILING" \in m.flags <=> "TRAILING" \in msg.flags,
             Turn(Full("header_value", h, i, n), m, marks \cup {"header_value"}, b, <<>>)
      PROVE  HttpInv' /\ Contract!Next
  <2>1. "header_value" \in ValueStates
    BY DEF ValueStates
  <2>2. /\ marks \cup {"header_value"} = MarksOf("header_value") /\ "header_value" \notin Lines
        /\ Follows(local.state, "header_value")
    BY <1>0, <1>1, <2>1, Places DEF Follows
  <2> QED
    BY <1>0, <1>1, <1>4, <2>2, FieldTurn
<1>5. ASSUME NEW s \in FieldLines, NEW h, NEW i, NEW n,
             Turn(Full(s, h, i, n), msg, marks, body, <<"header_value">>)
      PROVE  HttpInv' /\ Contract!Next
  <2>1. marks = MarksOf(s) /\ Shape(Full(s, h, i, n), msg)
    BY <1>1, Places, NowShape DEF Shape
  <2>2. Moves(PlaceOf(local, msg), "header_value", PlaceOf(Full(s, h, i, n), msg))
    BY <1>0, Places, FollowsMoves, NowShape DEF PlaceOf
  <2> QED
    BY <1>0, <1>5, <2>1, <2>2, CallingTurn, NowShape
<1>6. /\ "flags" \in DOMAIN [msg EXCEPT !.flags = @ \cup {"UPGRADE"}]
      /\ "TRAILING" \in [msg EXCEPT !.flags = @ \cup {"UPGRADE"}].flags <=> "TRAILING" \in msg.flags
      /\ \A x : /\ "flags" \in DOMAIN [msg EXCEPT !.content_length = x]
                /\ [msg EXCEPT !.content_length = x].flags = msg.flags
  BY <1>1
<1> QED
  BY <1>1, <1>2, <1>3, <1>4, <1>5, <1>6, FieldLinesAre DEF HeaderValueStart

(* The value of a header.                                                  *)
LEMMA ValueStep ==
  ASSUME HttpInv, NEW ch, HeaderValue(ch) PROVE HttpInv' /\ Contract!Next
<1>0. Running /\ local.state = "header_value" /\ Shape(local, msg)
      /\ marks = MarksOf(local.state) /\ local.state \in ValueStates
  BY InState DEF HeaderValue, ValueStates
<1>1. /\ MarksOf(local.state) = {"header_value"} /\ local.state \notin Lines
      /\ "flags" \in DOMAIN msg
  BY <1>0, Places DEF Shape
<1>2. CASE Error(<<>>)
  BY <1>0, <1>2, ErrorStep DEF Running
<1>3. ASSUME NEW h, NEW i, NEW n, NEW m, NEW b, "flags" \in DOMAIN m, m.flags = msg.flags,
             Turn(Full("header_value", h, i, n), m, marks, b, <<>>)
      PROVE  HttpInv' /\ Contract!Next
  <2>1. Follows(local.state, "header_value")
    BY <1>0 DEF Follows
  <2> QED
    BY <1>0, <1>1, <1>3, <2>1, FieldTurn
<1>4. ASSUME NEW s \in FieldLines, NEW m, "flags" \in DOMAIN m,
             "TRAILING" \in m.flags <=> "TRAILING" \in msg.flags,
             Report("header_value", Now(s), m)
      PROVE  HttpInv' /\ Contract!Next
  <2>1. MarksOf(s) = {} /\ Shape(Now(s), m)
    BY <1>4, Places, NowShape DEF Shape
  <2>2. Place(s, m.flags) = Place(s, msg.flags)
    BY <1>4, PlaceSame
  <2>3. Moves(PlaceOf(local, msg), "header_value", PlaceOf(Now(s), m))
    BY <1>0, <2>2, Places, FollowsMoves, NowShape DEF PlaceOf
  <2> QED
    BY <1>0, <1>1, <1>4, <2>1, <2>3, ReportStep, NowShape
<1>5. \A x : /\ "flags" \in DOMAIN [msg EXCEPT !.content_length = x]
             /\ [msg EXCEPT !.content_length = x].flags = msg.flags
  BY <1>1
<1>6. "flags" \in DOMAIN WithFlag /\ ("TRAILING" \in WithFlag.flags <=> "TRAILING" \in msg.flags)
  BY <1>1, WithFlagIs
<1> QED
  BY <1>1, <1>2, <1>3, <1>4, <1>5, <1>6, FieldLinesAre DEF HeaderValue, Quiet, Go, Grow, Now

(* The end of a header line.                                               *)
LEMMA LineEnds ==
  ASSUME HttpInv, NEW ch, HeaderAlmostDone(ch) \/ HeaderValueLws(ch) \/ HeadersAlmostDone(ch)
  PROVE  HttpInv' /\ Contract!Next
<1>0. Running /\ local.state \in FieldLines /\ Shape(local, msg) /\ marks = MarksOf(local.state)
  BY InState, FieldLinesAre DEF HeaderAlmostDone, HeaderValueLws, HeadersAlmostDone
<1>1. marks = {} /\ local.state \notin Lines /\ "flags" \in DOMAIN msg
  BY <1>0, Places DEF Shape
<1>2. CASE Error(<<>>)
  BY <1>0, <1>2, ErrorStep DEF Running
<1>3. CASE Turn(Now("header_value_lws"), WithFlag, marks, body, <<>>)
  <2>1. /\ MarksOf("header_value_lws") = {} /\ "header_value_lws" \notin Lines
        /\ Follows(local.state, "header_value_lws")
    BY <1>0, FieldLinesAre, Places DEF Follows
  <2> QED
    BY <1>0, <1>1, <1>3, <2>1, WithFlagIs, FieldTurn DEF Now
<1>4. CASE Go("header_value_start")
  <2>1. "header_value_start" \in ValueStates
    BY DEF ValueStates
  <2>2. /\ MarksOf("header_value_start") = {} /\ "header_value_start" \notin Lines
        /\ Follows(local.state, "header_value_start")
    BY <1>0, <2>1, Places DEF Follows
  <2> QED
    BY <1>0, <1>1, <1>4, <2>2, FieldTurn DEF Go, Quiet, Now
<1> QED
  BY <1>2, <1>3, <1>4 DEF HeaderAlmostDone, HeaderValueLws, HeadersAlmostDone

\* A turn with one callback, from a state to another one without a mark.
LEMMA CallingFull ==
  ASSUME HttpInv, Running, marks = {}, NEW s, s \notin Lines, MarksOf(s) = {},
         NEW h, NEW i, NEW n, NEW m, NEW b, NEW c,
         Turn(Full(s, h, i, n), m, marks, b, <<c>>),
         "flags" \in DOMAIN m, Moves(PlaceOf(local, msg), c, Place(s, m.flags))
  PROVE  HttpInv' /\ Contract!Next
<1> DEFINE l == Full(s, h, i, n)
<1>1. l.state = s /\ DOMAIN l = {"state", "header_state", "index", "nread"}
  BY NowShape
<1>2. Turn(l, m, MarksOf(l.state), b, <<c>>) /\ Shape(l, m)
  BY <1>1 DEF Shape
<1>3. Moves(PlaceOf(local, msg), c, PlaceOf(l, m))
  BY <1>1 DEF PlaceOf
<1> HIDE DEF l
<1> QED
  BY <1>2, <1>3, CallingTurn

(* Where a message without a body and one with a body lead.                *)
LEMMA MessageEnds ==
  ASSUME NEW m
  PROVE  /\ NewMessage(m) \in Starts \cup {"dead"}
         /\ NoBody(m) => AfterHeaders(m) \in Starts \cup {"dead"}
         /\ ~NoBody(m) => AfterHeaders(m) \in BodyStates
<1>1. NewMessage(m) \in Starts \cup {"dead"}
  BY DEF NewMessage, Starts
<1> QED
  BY <1>1 DEF AfterHeaders, BodyStates, ChunkStates

(* The headers are complete, and so is a message without a body.           *)
LEMMA BothTurn ==
  ASSUME HttpInv, Running, Stage = "fields", marks = {}, NEW s \in Starts \cup {"dead"},
         NEW h, NEW i, NEW n, NEW m, "flags" \in DOMAIN m, NEW b,
         Turn(Full(s, h, i, n), m, marks, b, Both)
  PROVE  HttpInv' /\ Contract!Next
<1>1. CASE Error(<<"headers_complete">>) \/ Error(Both)
  BY <1>1, ErrorStep DEF Both, Running
<1>2. CASE ~(Error(<<"headers_complete">>) \/ Error(Both))
  <2> DEFINE l == Full(s, h, i, n)
  <2>1. /\ local' = l /\ msg' = m /\ marks' = marks /\ called' = Both
        /\ at' = "run" /\ ~failed'
    BY <1>2, TwoFail DEF Turn, Running, Both
  <2>2. l.state = s /\ DOMAIN l = {"state", "header_state", "index", "nread"}
    BY NowShape
  <2>3. MarksOf(s) = {} /\ s \notin Lines /\ Place(s, m.flags) \in {"start", "over"}
    BY Places
  <2> HIDE DEF l
  <2>4. Shape(l, m) /\ marks' = MarksOf(l.state) /\ PlaceOf(l, m) \in {"start", "over"}
    BY <2>1, <2>2, <2>3 DEF Shape, PlaceOf
  <2>5. HttpInv' /\ Stage' \in {"start", "over"}
    BY <2>1, <2>4, TurnInv
  <2>6. Contract!HeadersComplete
    BY <2>1, <2>5 DEF Contract!HeadersComplete, Contract!Call, Contract!Headers,
                      Contract!Between, Both
  <2> QED
    BY <2>5, <2>6 DEF Contract!Next
<1> QED
  BY <1>1, <1>2

(* The call that finds an upgrade is the last one.                         *)
LEMMA UpgradeStep ==
  ASSUME HttpInv, Running, Stage = "fields", local.state \notin Lines, NEW m, "flags" \in DOMAIN m,
         \/ /\ msg' = m /\ at' = "upgraded" /\ called' = Both
            /\ UNCHANGED <<saved, local, marks, failed, body>>
         \/ CallbackMayFail /\ Error(Both)
  PROVE  HttpInv' /\ Contract!Next
<1>1. CASE Error(Both)
  BY <1>1, ErrorStep DEF Both, Running
<1>2. CASE ~Error(Both)
  <2>1. /\ msg' = m /\ at' = "upgraded" /\ called' = Both /\ ~failed' /\ local' = local
    BY <1>2 DEF Running
  <2>2. HttpInv'
    BY <2>1 DEF HttpInv, Shape, CutsDontMatter
  <2>3. Stage' = "over"
    BY <2>1 DEF Stage
  <2>4. Contract!HeadersComplete
    BY <2>1, <2>3 DEF Contract!HeadersComplete, Contract!Call, Contract!Between, Both
  <2> QED
    BY <2>2, <2>4 DEF Contract!Next
<1> QED
  BY <1>1, <1>2

(* The empty line after the headers, or after the trailers.                *)
LEMMA HeadersEnd ==
  ASSUME HttpInv, NEW ch, HeadersDone(ch) PROVE HttpInv' /\ Contract!Next
<1>0. Running /\ local.state \in FieldLines /\ Shape(local, msg) /\ marks = MarksOf(local.state)
  BY InState, FieldLinesAre DEF HeadersDone, AtFieldStart
<1>1. /\ marks = {} /\ local.state \notin Lines /\ "flags" \in DOMAIN msg
      /\ PlaceOf(local, msg) = IF "TRAILING" \in msg.flags THEN "trailers" ELSE "fields"
      /\ Stage = PlaceOf(local, msg)
  BY <1>0, Places, StageIsPlace DEF Shape, PlaceOf, Running
<1>2. CASE "TRAILING" \in msg.flags /\ Turn(Now(NewMessage(msg)), msg, marks, body, <<"message_complete">>)
  <2> DEFINE s == NewMessage(msg)
  <2>1. MarksOf(s) = {} /\ s \notin Lines /\ Place(s, msg.flags) \in {"start", "over"}
    BY MessageEnds, Places
  <2>2. Moves(PlaceOf(local, msg), "message_complete", Place(s, msg.flags))
    BY <1>1, <1>2, <2>1 DEF Moves
  <2> HIDE DEF s
  <2>3. Turn(Full(s, local.header_state, local.index, Counted), msg, marks, body,
             <<"message_complete">>)
    BY <1>2 DEF s, Now
  <2> QED
    BY <1>0, <1>1, <2>1, <2>2, <2>3, CallingFull
<1>3. CASE "TRAILING" \notin msg.flags /\ Error(<<"headers_complete">>)
  BY <1>0, <1>1, <1>3, ErrorStep DEF Running
<1>4. ASSUME "TRAILING" \notin msg.flags, NEW r \in HeadersResults,
             NEW m, m = Skipping(r), NEW l, l = Full(AfterHeaders(m), local.header_state, local.index, 0),
             NEW b,
             \/ Turn(l, m, marks, b, IF NoBody(m) THEN Both ELSE <<"headers_complete">>)
             \/ /\ msg' = m /\ at' = "upgraded" /\ called' = Both
                /\ UNCHANGED <<saved, local, marks, failed, body>>
             \/ CallbackMayFail /\ Error(Both)
      PROVE  HttpInv' /\ Contract!Next
  <2>1. "flags" \in DOMAIN m
    BY <1>1, <1>4 DEF Skipping, WithUpgrade
  <2>2. Stage = "fields" /\ PlaceOf(local, msg) = "fields"
    BY <1>1, <1>4
  <2>3. CASE NoBody(m) /\ Turn(l, m, marks, b, Both)
    BY <1>0, <1>1, <1>4, <2>1, <2>2, <2>3, MessageEnds, BothTurn
  <2>4. CASE ~NoBody(m) /\ Turn(l, m, marks, b, <<"headers_complete">>)
    <3> DEFINE s == AfterHeaders(m)
    <3>1. s \in BodyStates
      BY <2>4, MessageEnds
    <3>2. MarksOf(s) = {} /\ s \notin Lines /\ Moves(PlaceOf(local, msg), "headers_complete", Place(s, m.flags))
      BY <2>2, <3>1, Places DEF Moves
    <3>3. Turn(Full(s, local.header_state, local.index, 0), m, marks, b, <<"headers_complete">>)
      BY <1>4, <2>4
    <3> HIDE DEF s
    <3> QED
      BY <1>0, <1>1, <2>1, <3>2, <3>3, CallingFull
  <2>5. CASE \/ /\ msg' = m /\ at' = "upgraded" /\ called' = Both
                /\ UNCHANGED <<saved, local, marks, failed, body>>
             \/ CallbackMayFail /\ Error(Both)
    BY <1>0, <1>1, <2>1, <2>2, <2>5, UpgradeStep
  <2> QED
    BY <1>4, <2>3, <2>4, <2>5
<1> QED
  BY <1>2, <1>3, <1>4 DEF HeadersDone

-----------------------------------------------------------------------------
(* Bodies.                                                                 *)

\* A turn without callback within a body.
LEMMA BodyTurn ==
  ASSUME HttpInv, Running, local.state \in BodyStates, NEW s \in BodyStates,
         NEW h, NEW i, NEW n, NEW m, "flags" \in DOMAIN m, NEW b,
         Turn(Full(s, h, i, n), m, marks, b, <<>>)
  PROVE  HttpInv' /\ Contract!Next
<1> DEFINE l == Full(s, h, i, n)
<1>1. l.state = s /\ DOMAIN l = {"state", "header_state", "index", "nread"}
  BY NowShape
<1>2. marks = MarksOf(s) /\ s \notin Lines /\ PlaceOf(local, msg) = "body" /\ Place(s, m.flags) = "body"
  <2>1. marks = MarksOf(local.state)
    BY DEF HttpInv, Running, CutsDontMatter
  <2> QED
    BY <2>1, Places DEF PlaceOf
<1>3. Turn(l, m, MarksOf(l.state), b, <<>>) /\ Shape(l, m) /\ Quietly(PlaceOf(local, msg), PlaceOf(l, m))
  BY <1>1, <1>2 DEF Shape, PlaceOf, Quietly
<1> HIDE DEF l
<1> QED
  BY <1>3, QuietTurn

(* The size of a chunk and its parameters.                                 *)
LEMMA ChunkHeads ==
  ASSUME HttpInv, NEW ch, ChunkSizeStart(ch) \/ ChunkSize(ch) \/ ChunkParameters(ch)
  PROVE  HttpInv' /\ Contract!Next
<1>0. {"chunk_size_start", "chunk_size", "chunk_parameters", "chunk_size_almost_done"} \subseteq BodyStates
  BY DEF BodyStates, ChunkStates
<1>1. Running /\ local.state \in BodyStates /\ "flags" \in DOMAIN msg
  BY <1>0, InState DEF ChunkSizeStart, ChunkSize, ChunkParameters, Shape
<1>2. CASE Error(<<>>)
  BY <1>1, <1>2, ErrorStep DEF Running
<1>3. ASSUME NEW s \in BodyStates, Go(s) PROVE HttpInv' /\ Contract!Next
  BY <1>1, <1>3, BodyTurn DEF Go, Quiet, Now
<1>4. ASSUME NEW s \in BodyStates, NEW x, NEW b,
             Turn(Now(s), [msg EXCEPT !.content_length = x], marks, b, <<>>)
      PROVE  HttpInv' /\ Contract!Next
  <2>1. "flags" \in DOMAIN [msg EXCEPT !.content_length = x]
    BY <1>1
  <2> QED
    BY <1>1, <1>4, <2>1, BodyTurn DEF Now
<1>5. CASE ChunkSizeStart(ch)
  BY <1>0, <1>2, <1>4, <1>5 DEF ChunkSizeStart
<1>6. CASE ChunkSize(ch)
  BY <1>0, <1>2, <1>3, <1>4, <1>6 DEF ChunkSize, Grow
<1>7. CASE ChunkParameters(ch)
  BY <1>0, <1>3, <1>7 DEF ChunkParameters
<1> QED
  BY <1>5, <1>6, <1>7

(* The size of a chunk is known; after the last chunk come the trailers.   *)
LEMMA ChunkBegins ==
  ASSUME HttpInv, NEW ch, ChunkSizeAlmostDone(ch) PROVE HttpInv' /\ Contract!Next
<1>0. {"chunk_size_almost_done", "chunk_data"} \subseteq BodyStates /\ "header_field_start" \in FieldLines
  BY FieldLinesAre DEF BodyStates, ChunkStates
<1>1. Running /\ local.state \in BodyStates /\ "flags" \in DOMAIN msg /\ marks = MarksOf(local.state)
  BY <1>0, InState DEF ChunkSizeAlmostDone, Shape
<1>2. CASE Error(<<>>)
  BY <1>1, <1>2, ErrorStep DEF Running
<1>3. ASSUME NEW h, NEW i, NEW b,
             Turn(Full("chunk_data", h, i, 0), [msg EXCEPT !.flags = @ \cup {}], marks, b, <<>>)
      PROVE  HttpInv' /\ Contract!Next
  <2>1. "flags" \in DOMAIN [msg EXCEPT !.flags = @ \cup {}]
    BY <1>1
  <2> QED
    BY <1>0, <1>1, <1>3, <2>1, BodyTurn
<1>4. ASSUME NEW h, NEW i, NEW b,
             Turn(Full("header_field_start", h, i, 0), [msg EXCEPT !.flags = @ \cup {"TRAILING"}],
                  marks, b, <<>>)
      PROVE  HttpInv' /\ Contract!Next
  <2> DEFINE l == Full("header_field_start", h, i, 0)
             m == [msg EXCEPT !.flags = @ \cup {"TRAILING"}]
  <2>1. l.state = "header_field_start" /\ DOMAIN l = {"state", "header_state", "index", "nread"}
    BY NowShape
  <2>2. "flags" \in DOMAIN m /\ "TRAILING" \in m.flags
    BY <1>1
  <2> HIDE DEF l, m
  <2>3. marks = MarksOf(l.state) /\ l.state \notin Lines /\ PlaceOf(local, msg) = "body"
        /\ PlaceOf(l, m) = "trailers"
    BY <1>0, <1>1, <2>1, <2>2, Places DEF PlaceOf
  <2>4. Shape(l, m) /\ Quietly(PlaceOf(local, msg), PlaceOf(l, m))
    BY <2>1, <2>2, <2>3 DEF Shape, Quietly
  <2> QED
    <3>1. Turn(l, m, MarksOf(l.state), b, <<>>)
      BY <1>4, <2>3 DEF l, m
    <3> QED
      BY <1>1, <2>4, <3>1, QuietTurn
<1> QED
  BY <1>2, <1>3, <1>4 DEF ChunkSizeAlmostDone

(* Bytes of a body are passed on.                                          *)
LEMMA PassStep ==
  ASSUME HttpInv, Running, local.state \in BodyStates, NEW n, NEW s, NEW ends \in BOOLEAN,
         Pass(n, s, ends),
         ~ends => s \in BodyStates, ends => s \in Starts \cup {"dead"}
  PROVE  HttpInv' /\ Contract!Next
<1>1. /\ local' = [local EXCEPT !.state = s] /\ msg' = [msg EXCEPT !.content_length = @ - n]
      /\ marks' = marks /\ ~failed' /\ at' \in {"run", "full"}
      /\ called' = IF ends THEN <<"body", "message_complete">> ELSE <<"body">>
  BY DEF Pass, Running
<1>2. /\ Shape(local, msg) /\ marks = MarksOf(local.state)
  BY DEF HttpInv, Running, CutsDontMatter
<1>3. /\ local'.state = s /\ DOMAIN local' = {"state", "header_state", "index", "nread"}
      /\ "flags" \in DOMAIN msg'
  BY <1>1, <1>2 DEF Shape
<1>4. marks = {} /\ MarksOf(s) = {} /\ s \notin Lines /\ PlaceOf(local, msg) = "body"
      /\ Place(s, msg'.flags) \in IF ends THEN {"start", "over"} ELSE {"body"}
  BY <1>2, Places DEF PlaceOf
<1>5. Shape(local', msg')
  BY <1>3, <1>4 DEF Shape
<1>6. HttpInv' /\ Stage' = Place(s, msg'.flags)
  BY <1>1, <1>3, <1>4, <1>5, StageIsPlaceNext DEF HttpInv, Shape, CutsDontMatter, PlaceOf, MarksOf
<1>7. Stage = "body"
  BY <1>4, StageIsPlace DEF Running
<1>8. Contract!Body
  BY <1>1, <1>4, <1>6, <1>7 DEF Contract!Body, Contract!Call, Contract!Between
<1> QED
  BY <1>6, <1>8 DEF Contract!Next

(* The bytes of a body, however it is framed.                              *)
LEMMA BodyStep ==
  ASSUME HttpInv, BodyIdentity \/ ChunkData \/ BodyIdentityEof PROVE HttpInv' /\ Contract!Next
<1>0. {"body_identity", "body_identity_eof", "chunk_data", "chunk_data_almost_done"} \subseteq BodyStates
  BY DEF BodyStates, ChunkStates
<1>1. Running /\ local.state \in BodyStates /\ Shape(local, msg) /\ marks = MarksOf(local.state)
  <2>1. In({"body_identity"}) \/ In({"chunk_data"}) \/ In({"body_identity_eof"})
    BY DEF BodyIdentity, ChunkData, BodyIdentityEof
  <2> QED
    BY <1>0, <2>1, InState
<1>2. Stage = "body"
  BY <1>1, StageIsPlace, Places DEF Running, PlaceOf
<1>3. ASSUME NEW s \in BodyStates, NEW n, Pass(n, s, FALSE) PROVE HttpInv' /\ Contract!Next
  BY <1>1, <1>3, PassStep
<1>4. ASSUME NEW n, Pass(n, NewMessage(msg), TRUE) PROVE HttpInv' /\ Contract!Next
  BY <1>1, <1>4, MessageEnds, PassStep
<1>5. CASE CallbackFails(<<"body", "message_complete">>)
  BY <1>1, <1>2, <1>5, TwoFail, ErrorStep DEF Running
<1>6. CASE BodyIdentity
  BY <1>0, <1>3, <1>4, <1>5, <1>6 DEF BodyIdentity
<1>7. CASE ChunkData
  <2>1. ASSUME NEW b, Turn(Now("chunk_data_almost_done"), [msg EXCEPT !.content_length = 0],
                           marks, b, <<>>)
        PROVE  HttpInv' /\ Contract!Next
    <3>1. "flags" \in DOMAIN [msg EXCEPT !.content_length = 0]
      BY <1>1 DEF Shape
    <3> QED
      BY <1>0, <1>1, <2>1, <3>1, BodyTurn DEF Now
  <2> QED
    BY <1>0, <1>3, <1>7, <2>1 DEF ChunkData
<1>8. CASE BodyIdentityEof
  <2>1. /\ local' = local /\ msg' = msg /\ marks' = marks /\ ~failed' /\ at' = "full"
        /\ called' = <<"body">>
    BY <1>1, <1>8 DEF BodyIdentityEof, Running
  <2>2. HttpInv'
    BY <1>1, <2>1 DEF HttpInv, Shape, CutsDontMatter, MarksOf
  <2>3. Stage' = "body"
    BY <1>1, <2>1, StageIsPlaceNext, Places DEF PlaceOf
  <2>4. Contract!Body
    BY <1>2, <2>1, <2>3 DEF Contract!Body, Contract!Call
  <2> QED
    BY <2>2, <2>4 DEF Contract!Next
<1> QED
  BY <1>6, <1>7, <1>8

-----------------------------------------------------------------------------
(* The call itself.                                                        *)

(* Too many bytes of headers, and bytes after the last message.            *)
LEMMA PlainErrors ==
  ASSUME HttpInv, HeaderOverflow \/ Dead PROVE HttpInv' /\ Contract!Next
BY ErrorStep DEF HeaderOverflow, Dead, In

(* A call begins, and finds its marks in the state.                        *)
LEMMA ExecuteStep == ASSUME HttpInv, Execute PROVE HttpInv' /\ Contract!Next
<1>1. /\ local' = local /\ msg' = msg /\ marks' = MarksOf(local.state) /\ ~failed' /\ ~failed
      /\ at = "idle" /\ at' = "start" /\ called' = <<>>
  BY DEF Execute, HttpInv, CutsDontMatter
<1>2. HttpInv'
  BY <1>1 DEF HttpInv, Shape, CutsDontMatter, MarksOf
<1>3. Stage' = Stage /\ Stage \in Contract!Stages \ {"failed"}
  BY <1>1, StageIsPlace, StageIsPlaceNext DEF PlaceOf
<1>4. Contract!Silent
  BY <1>1, <1>3 DEF Contract!Silent, Contract!Call
<1> QED
  BY <1>2, <1>4 DEF Contract!Next

(* Concatenation with what was not called.                                 *)
LEMMA NoneBefore ==
  ASSUME NEW c PROVE <<>> \o <<c>> = <<c>> /\ <<c>> \o <<>> = <<c>>
<1>1. <<c>> \in Seq({c})
  OBVIOUS
<1> QED
  BY <1>1, ConcatEmptySeq

\* What a mark set at the end of a fragment has called.
Reported == Marked("header_field") \o Marked("header_value") \o Marked("url")

(* At most one mark is set, so at most one callback is made.               *)
LEMMA ReportedIs ==
  ASSUME NEW s, marks = MarksOf(s)
  PROVE  \/ marks = {} /\ Reported = <<>>
         \/ s = "header_field" /\ Reported = <<"header_field">>
         \/ s = "header_value" /\ Reported = <<"header_value">>
         \/ s \in UrlStates /\ Reported = <<"url">>
<1>0. <<>> \o <<>> = <<>>
  BY ConcatEmptySeq, EmptySeq
<1>1. CASE s = "header_field"
  <2>1. Marked("header_field") = <<"header_field">> /\ Marked("header_value") = <<>> /\ Marked("url") = <<>>
    BY <1>1 DEF Marked, MarksOf
  <2> QED
    BY <1>1, <2>1, NoneBefore DEF Reported
<1>2. CASE s = "header_value"
  <2>1. Marked("header_field") = <<>> /\ Marked("header_value") = <<"header_value">> /\ Marked("url") = <<>>
    BY <1>2 DEF Marked, MarksOf
  <2> QED
    BY <1>2, <2>1, NoneBefore DEF Reported
<1>3. CASE s \in UrlStates
  <2>1. Marked("header_field") = <<>> /\ Marked("header_value") = <<>> /\ Marked("url") = <<"url">>
    BY <1>3 DEF Marked, MarksOf, UrlStates
  <2> QED
    BY <1>0, <1>3, <2>1, NoneBefore DEF Reported
<1>4. CASE s \notin UrlStates \cup {"header_field", "header_value"}
  <2>1. marks = {} /\ Marked("header_field") = <<>> /\ Marked("header_value") = <<>> /\ Marked("url") = <<>>
    BY <1>4 DEF Marked, MarksOf
  <2> QED
    BY <1>0, <2>1 DEF Reported
<1> QED
  BY <1>1, <1>2, <1>3, <1>4

(* A call ends.                                                            *)
LEMMA ReturnStep == ASSUME HttpInv, Return PROVE HttpInv' /\ Contract!Next
<1>1. marks = MarksOf(local.state) /\ ~failed /\ at \notin {"ended", "upgraded"} /\ Shape(local, msg)
  BY DEF Return, HttpInv, CutsDontMatter
<1>2. Stage = PlaceOf(local, msg) /\ Stage \in Contract!Stages \ {"failed"}
  BY <1>1, StageIsPlace
<1>3. \/ Reported = <<>>
      \/ Reported = <<"url">> /\ Stage = "line"
      \/ Reported = <<"header_field">> /\ Stage \in {"name", "trailer_name"}
      \/ Reported = <<"header_value">> /\ Stage \in {"value", "trailer_value"}
  <2>1. "header_value" \in ValueStates
    BY DEF ValueStates
  <2>2. local.state \in UrlStates => Stage = "line"
    BY <1>2, Places DEF PlaceOf
  <2>3. local.state = "header_field" => Stage \in {"name", "trailer_name"}
    BY <1>2, Places DEF PlaceOf
  <2>4. local.state = "header_value" => Stage \in {"value", "trailer_value"}
    BY <1>2, <2>1, Places DEF PlaceOf
  <2> QED
    BY <1>1, <2>2, <2>3, <2>4, ReportedIs
<1>4. CASE CallbackFails(Reported)
  <2>1. Error(Reported)
    BY <1>3, <1>4, NothingFails, OneFails
  <2> QED
    BY <1>1, <1>3, <2>1, ErrorStep
<1>5. CASE ~CallbackFails(Reported)
  <2>1. /\ local' = local /\ msg' = msg /\ saved' = local /\ marks' = {} /\ at' = "idle" /\ ~failed'
        /\ called' = Reported
    BY <1>1, <1>5 DEF Return, Reported
  <2>2. HttpInv'
    BY <1>1, <2>1 DEF HttpInv, Shape, CutsDontMatter
  <2>3. Stage' = Stage
    BY <1>2, <2>1, StageIsPlaceNext DEF PlaceOf
  <2>4. Contract!Silent \/ Contract!Url \/ Contract!Field \/ Contract!Value
    BY <1>2, <1>3, <2>1, <2>3
    DEF Contract!Silent, Contract!Url, Contract!Field, Contract!Value, Contract!Call,
        Contract!Headers, Contract!Trailers
  <2> QED
    BY <2>2, <2>4 DEF Contract!Next
<1> QED
  BY <1>4, <1>5

(* The peer has finished.                                                  *)
LEMMA EofStep == ASSUME HttpInv, Eof PROVE HttpInv' /\ Contract!Next
<1>1. saved = local /\ ~failed /\ at = "idle" /\ Shape(local, msg)
  BY DEF Eof, HttpInv, CutsDontMatter
<1>2. Stage = PlaceOf(local, msg)
  BY <1>1, StageIsPlace
<1>3. "body_identity_eof" \in BodyStates
  BY DEF BodyStates
<1>4. /\ local.state \in Starts => Stage = "start"
      /\ local.state = "dead" => Stage = "over"
      /\ local.state = "body_identity_eof" => Stage = "body" /\ local.state \notin Starts
  BY <1>2, <1>3, Places DEF PlaceOf, Starts
<1>5. CASE Error(<<>>)
  BY <1>1, <1>5, ErrorStep
<1>6. CASE saved.state = "body_identity_eof" /\ CallbackFails(<<"message_complete">>)
  BY <1>1, <1>4, <1>6, OneFails, ErrorStep
<1>7. CASE /\ saved.state \in Starts \cup {"dead", "body_identity_eof"}
           /\ called' = IF saved.state = "body_identity_eof" THEN <<"message_complete">> ELSE <<>>
           /\ at' = "ended" /\ UNCHANGED <<saved, local, marks, msg, failed, body>>
  <2>1. HttpInv'
    BY <1>1, <1>7 DEF HttpInv, Shape, CutsDontMatter
  <2>2. Stage' = "over"
    BY <1>1, <1>7 DEF Stage
  <2>3. Contract!Complete \/ Contract!Silent
    BY <1>1, <1>4, <1>7, <2>2
    DEF Contract!Complete, Contract!Silent, Contract!Call, Contract!Between, Contract!Stages
  <2> QED
    BY <2>1, <2>3 DEF Contract!Next
<1> QED
  BY <1>5, <1>6, <1>7 DEF Eof

-----------------------------------------------------------------------------
(* Every step keeps the invariant and is a step of the contract.           *)

(* One byte.                                                               *)
LEMMA LoopStep == ASSUME HttpInv, NEW ch, Loop(ch) PROVE HttpInv' /\ Contract!Next
BY StrictStep, StartsStep, MethodStep, UrlBegins, UrlStep, VersionStep, NameBegins, NameStep,
   ValueBeginsStep, ValueStep, LineEnds, HeadersEnd, ChunkHeads, ChunkBegins DEF Loop

(* Any step.                                                               *)
LEMMA NextStep == ASSUME HttpInv, Next PROVE HttpInv' /\ Contract!Next
BY LoopStep, ExecuteStep, ReturnStep, EofStep, PlainErrors, BodyStep DEF Next

(* No step.                                                                *)
LEMMA Stutters == ASSUME HttpInv, UNCHANGED vars PROVE HttpInv' /\ UNCHANGED Contract!vars
<1>1. UNCHANGED <<saved, local, marks, msg, failed, at, called>>
  BY DEF vars
<1>2. HttpInv'
  BY <1>1 DEF HttpInv, Shape, CutsDontMatter, MarksOf
<1>3. Stage' = Stage
  BY <1>1 DEF Stage, InTrailers
<1> QED
  BY <1>1, <1>2, <1>3 DEF Contract!vars

(* A parser that was initialised.                                          *)
LEMMA Starting == ASSUME Init PROVE HttpInv /\ Contract!Init
<1>1. PICK t \in Types :
        /\ saved = [state |-> StartOf(t), header_state |-> "h_general", index |-> 0, nread |-> 0]
        /\ msg = [flags |-> {}, content_length |-> -1, type |-> t, method |-> "GET",
                  major |-> FALSE, minor |-> FALSE, upgrade |-> FALSE]
  BY DEF Init
<1>2. local = saved /\ marks = {} /\ ~failed /\ at = "idle" /\ called = <<>>
  BY DEF Init
<1>3. local.state \in Starts
  BY <1>1, <1>2 DEF StartOf, Starts
<1>4. HttpInv
  BY <1>1, <1>2 DEF HttpInv, Shape, CutsDontMatter
<1>5. Stage = "start"
  BY <1>2, <1>3, StageIsPlace, Places DEF PlaceOf
<1> QED
  BY <1>2, <1>4, <1>5 DEF Contract!Init

(* The invariant holds.                                                    *)
LEMMA InvHolds == Spec => []HttpInv
<1>1. Init => HttpInv
  BY Starting
<1>2. HttpInv /\ [Next]_vars => HttpInv'
  BY NextStep, Stutters
<1> QED
  BY <1>1, <1>2, PTL DEF Spec

(* Where the input is cut makes no difference: each call starts in the     *)
(* state in which the one before stopped, and with the same marks.         *)
THEOREM CutsNeverMatter == Spec => []CutsDontMatter
<1>1. HttpInv => CutsDontMatter
  BY DEF HttpInv
<1> QED
  BY <1>1, InvHolds, PTL

(* The callbacks come in the order of HttpContract.                        *)
THEOREM ParserKeepsOrder == Spec => ImplementsContract
<1>1. Init => Contract!Init
  BY Starting
<1>2. HttpInv /\ [Next]_vars => [Contract!Next]_(Contract!vars)
  BY NextStep, Stutters
<1> QED
  BY <1>1, <1>2, InvHolds, PTL DEF Spec, ImplementsContract, Contract!Spec

-----------------------------------------------------------------------------
(* The asserts of the code, and the bytes of a body.                       *)

\* What a state knows of the header line, of the chunks and of the method.
NameHeaders == {"h_general", "h_C", "h_CO", "h_CON"} \cup Names \cup (Matching \ OfValues)
HeaderSound(l) ==
  /\ l.state = "header_field" => l.header_state \in NameHeaders
  /\ l.state = "header_value" => l.header_state \notin {"h_connection", "h_transfer_encoding"}

Rested == {"chunk_size_start", "chunk_data", "chunk_data_almost_done", "chunk_data_done"}
ChunkSound(l, m) ==
  /\ l.state \in Rested => l.nread = 0
  /\ l.state \in ChunkStates => "CHUNKED" \in m.flags

MethodSound(l, m) == l.state = "req_method" => l.index <= Len(Word[m.method])

\* What is owed to on_body, and what is known of the length that announced it.
Passing == {"body_identity", "chunk_data"}
Sized   == {"chunk_size", "chunk_parameters", "chunk_size_almost_done"}
BodySound(l, m, b) ==
  /\ b.owed = IF l.state \in Passing THEN m.content_length ELSE 0
  /\ l.state \in Sized /\ ~b.wrapped => m.content_length >= 0
  /\ l.state = "body_identity" => m.content_length > 0
  /\ l.state = "chunk_data" /\ ~b.wrapped => m.content_length > 0

Sound(l, m, b) == HeaderSound(l) /\ ChunkSound(l, m) /\ MethodSound(l, m) /\ BodySound(l, m, b)

SoundInv == TypeOK /\ (~failed => Sound(local, msg, body))

Marks    == {"header_field", "header_value", "url"}
BodyType == [owed : Int, wrapped : BOOLEAN]

\* The states that know nothing but that no body is owed.
Special == {"header_field", "header_value", "req_method", "body_identity"} \cup ChunkStates
Plain   == States \ Special

(* The plain states, by name where the code names them.                    *)
LEMMA PlainStates ==
  /\ {"dead", "start_req_or_res", "start_res", "start_req", "header_value_start",
      "header_field_start", "header_almost_done", "header_value_lws", "headers_almost_done",
      "body_identity_eof", "req_spaces_before_url", "req_line_almost_done",
      "res_line_almost_done", "req_http_start", "res_or_resp_H", "res_H", "res_HT",
      "req_http_H", "req_http_major", "res_http_major", "req_first_http_minor",
      "res_first_http_minor", "req_http_minor", "res_http_minor", "res_first_status_code",
      "res_status_code", "res_status"} \subseteq Plain
  /\ UrlStates \subseteq Plain
BY DEF Plain, Special, States, Starts, ReqLine, ResLine, UrlStates, FieldStates, NameStates,
       ValueStates, BodyStates, ChunkStates

(* The states that are not plain.                                          *)
LEMMA SpecialStates ==
  /\ Special \subseteq States
  /\ Passing \subseteq Special /\ Sized \subseteq Special /\ Rested \subseteq Special
  /\ Plain \cap (Passing \cup Sized \cup Rested \cup ChunkStates) = {}
BY DEF Plain, Special, States, FieldStates, NameStates, ValueStates, BodyStates, ChunkStates,
       ReqLine, Passing, Sized, Rested

(* A plain state is sound when nothing is owed.                            *)
LEMMA PlainSound ==
  ASSUME NEW l, l.state \in Plain, NEW m, NEW b, b.owed = 0
  PROVE  Sound(l, m, b)
<1>1. l.state \notin {"header_field", "header_value", "req_method", "body_identity"}
  BY DEF Plain, Special
<1>2. l.state \notin Passing \cup Sized \cup Rested \cup ChunkStates /\ l.state # "chunk_data"
  BY SpecialStates DEF Passing
<1> QED
  BY <1>1, <1>2 DEF Sound, HeaderSound, ChunkSound, MethodSound, BodySound

(* Nothing is owed outside a body.                                         *)
LEMMA NothingOwed ==
  ASSUME NEW l, NEW m, NEW b, Sound(l, m, b), l.state \notin Passing
  PROVE  b.owed = 0
BY DEF Sound, BodySound

(* A parser that failed promises nothing more.                             *)
LEMMA FailedSound ==
  ASSUME SoundInv, NEW callbacks, Error(callbacks) \/ CallbackFails(callbacks)
  PROVE  SoundInv'
<1>1. PICK c : Error(c)
  BY DEF CallbackFails
<1>2. failed' = TRUE /\ at' = "idle" /\ UNCHANGED <<saved, local, marks, msg, body>>
  BY <1>1 DEF Error
<1> QED
  BY <1>2 DEF SoundInv, TypeOK

(* A turn of the loop to a sound state, or one whose callback fails.       *)
LEMMA SoundTurn ==
  ASSUME SoundInv, Running, NEW l \in Locals, NEW m \in Message, NEW mk \in SUBSET Marks,
         NEW b \in BodyType, NEW c, Turn(l, m, mk, b, c), Sound(l, m, b)
  PROVE  SoundInv'
<1>1. CASE CallbackFails(c)
  BY <1>1, FailedSound
<1>2. CASE ~CallbackFails(c)
  <2>1. /\ local' = l /\ msg' = m /\ marks' = mk /\ body' = b /\ at' = "run"
        /\ UNCHANGED <<saved, failed>>
    BY <1>2 DEF Turn
  <2>2. TypeOK'
    BY <2>1 DEF SoundInv, TypeOK, Marks, BodyType
  <2>3. Sound(local', msg', body')
    BY <2>1
  <2> QED
    BY <2>2, <2>3 DEF SoundInv, Sound, HeaderSound, ChunkSound, MethodSound, BodySound
<1> QED
  BY <1>1, <1>2

(* The types of the variables of a sound parser.                           *)
LEMMA Typed ==
  ASSUME SoundInv
  PROVE  /\ local \in Locals /\ msg \in Message /\ marks \in SUBSET Marks /\ body \in BodyType
         /\ local.state \in States /\ local.header_state \in HeaderStates
         /\ local.index \in Nat /\ local.nread \in 0..2
         /\ msg.flags \in SUBSET Flags /\ msg.content_length \in Int /\ msg.method \in Methods
         /\ body.owed \in Int /\ body.wrapped \in BOOLEAN
BY DEF SoundInv, TypeOK, Locals, Message, Marks, BodyType, Many

(* The record of the local variables has its type.                         *)
LEMMA LocalTyped ==
  ASSUME SoundInv, NEW s \in States
  PROVE  /\ Counted \in 0..2
         /\ Now(s) \in Locals /\ Now(s).state = s
         /\ Now(s).header_state = local.header_state /\ Now(s).index = local.index
         /\ Now(s).nread = Counted
         /\ \A h \in HeaderStates, i \in Nat, n \in 0..2 :
              /\ Full(s, h, i, n) \in Locals
              /\ Full(s, h, i, n).state = s /\ Full(s, h, i, n).header_state = h
              /\ Full(s, h, i, n).index = i /\ Full(s, h, i, n).nread = n
<1>1. Counted \in 0..2
  BY Typed DEF Counted, Many
<1>2. \A h \in HeaderStates, i \in Nat, n \in 0..2 :
              /\ Full(s, h, i, n) \in Locals
              /\ Full(s, h, i, n).state = s /\ Full(s, h, i, n).header_state = h
              /\ Full(s, h, i, n).index = i /\ Full(s, h, i, n).nread = n
  BY DEF Full, Locals, Many
<1>3. Now(s) = Full(s, local.header_state, local.index, Counted)
  BY DEF Now
<1> QED
  BY <1>1, <1>2, <1>3, Typed

(* A turn to a plain state.                                                *)
LEMMA PlainTurn ==
  ASSUME SoundInv, Running, NEW l \in Locals, l.state \in Plain, NEW m \in Message,
         NEW mk \in SUBSET Marks, NEW b \in BodyType, b.owed = 0,
         NEW c, Turn(l, m, mk, b, c)
  PROVE  SoundInv'
BY PlainSound, SoundTurn

(* The state moves on to a plain one.                                      *)
LEMMA GoPlain ==
  ASSUME SoundInv, Running, local.state \notin Passing, NEW s \in Plain, Go(s)
  PROVE  SoundInv'
<1>1. s \in States /\ Now(s) \in Locals /\ Now(s).state = s
  BY LocalTyped DEF Plain
<1>2. body.owed = 0
  BY NothingOwed DEF SoundInv, Running
<1> QED
  BY <1>1, <1>2, Typed, PlainTurn DEF Go, Quiet

(* What an action that begins with In(S) starts from.                      *)
LEMMA SoundIn ==
  ASSUME NEW S, In(S), SoundInv
  PROVE  Running /\ local.state \in S /\ Sound(local, msg, body)
BY DEF In, Running, SoundInv

(* The fields of the message that the actions set.                         *)
LEMMA MessageTyped ==
  ASSUME NEW m \in Message
  PROVE  /\ \A f \in SUBSET Flags : /\ [m EXCEPT !.flags = f] \in Message
                                    /\ [m EXCEPT !.flags = f].flags = f
                                    /\ [m EXCEPT !.flags = f].content_length = m.content_length
         /\ \A v \in Int : /\ [m EXCEPT !.content_length = v] \in Message
                           /\ [m EXCEPT !.content_length = v].content_length = v
                           /\ [m EXCEPT !.content_length = v].flags = m.flags
         /\ \A t \in {"HTTP_REQUEST", "HTTP_RESPONSE"} : [m EXCEPT !.type = t] \in Message
         /\ \A f \in SUBSET Flags, v \in Int :
              [m EXCEPT !.flags = f, !.content_length = v] \in Message
         /\ \A x \in Methods : /\ [m EXCEPT !.method = x] \in Message
                               /\ [m EXCEPT !.method = x].method = x
         /\ \A t \in {"HTTP_REQUEST", "HTTP_RESPONSE"}, x \in Methods :
              /\ [m EXCEPT !.type = t, !.method = x] \in Message
              /\ [m EXCEPT !.type = t, !.method = x].method = x
         /\ \A x \in BOOLEAN : /\ [m EXCEPT !.major = x] \in Message
                               /\ [m EXCEPT !.minor = x] \in Message
         /\ \A x \in BOOLEAN, y \in BOOLEAN : [m EXCEPT !.major = x, !.minor = y] \in Message
         /\ \A x \in BOOLEAN : [m EXCEPT !.upgrade = x] \in Message
BY DEF Message

(* The words of the methods.                                               *)
LEMMA WordFacts ==
  /\ \A m \in Methods : Len(Word[m]) \in Nat /\ Len(Word[m]) >= 2
  /\ \A ch \in DOMAIN Begins : Begins[ch] \in Methods
BY DEF Methods, Word, Begins

(* The state in which a method is read is sound if it is not past its end. *)
LEMMA MethodStateSound ==
  ASSUME NEW l, l.state = "req_method", NEW m, l.index <= Len(Word[m.method]),
         NEW b, b.owed = 0
  PROVE  Sound(l, m, b)
<1>1. l.state \notin Passing \cup Sized \cup Rested \cup ChunkStates
  BY DEF Passing, Sized, Rested, ChunkStates
<1> QED
  BY <1>1 DEF Sound, HeaderSound, ChunkSound, MethodSound, BodySound, Passing

(* The states in which a line and the bytes between messages are read are  *)
(* outside a body.                                                         *)
LEMMA LinesPassNothing ==
  (Starts \cup ReqLine \cup ResLine \cup FieldStates \cup {"dead", "body_identity_eof"})
    \cap (Passing \cup ChunkStates) = {}
BY DEF Starts, ReqLine, ResLine, UrlStates, FieldStates, NameStates, ValueStates, ChunkStates,
       Passing

(* A message begins with nothing owed.                                     *)
LEMMA BeginSound ==
  ASSUME SoundInv, Running, NEW s \in Plain \cup {"req_method"}, NEW i \in Nat,
         NEW m \in Message, s = "req_method" => i <= Len(Word[m.method]), BeginMessage(s, i, m)
  PROVE  SoundInv'
<1> DEFINE l == Full(s, local.header_state, i, Counted)
           b == [owed |-> 0, wrapped |-> FALSE]
<1>1. s \in States
  BY SpecialStates DEF Plain, Special
<1>2. l \in Locals /\ l.state = s /\ l.index = i
  BY <1>1, Typed, LocalTyped
<1>3. b \in BodyType /\ b.owed = 0
  BY DEF BodyType
<1>4. Turn(l, m, marks, b, <<"message_begin">>)
  BY DEF BeginMessage
<1> HIDE DEF l, b
<1>5. Sound(l, m, b)
  <2>1. CASE s \in Plain
    BY <2>1, <1>2, <1>3, PlainSound
  <2>2. CASE s = "req_method"
    BY <2>2, <1>2, <1>3, MethodStateSound
  <2> QED
    BY <2>1, <2>2
<1> QED
  BY <1>2, <1>3, <1>4, <1>5, Typed, SoundTurn

(* A new message has no flags and no length.                               *)
LEMMA FreshTyped ==
  ASSUME SoundInv PROVE Fresh \in Message
<1>1. {} \in SUBSET Flags /\ -1 \in Int /\ msg \in Message
  BY Typed
<1>2. [msg EXCEPT !.flags = {}, !.content_length = -1] \in Message
  BY <1>1, MessageTyped
<1> QED
  BY <1>2 DEF Fresh

(* Bytes between two messages.                                             *)
LEMMA StartsSound ==
  ASSUME SoundInv, NEW ch, StartReq(ch) \/ StartRes(ch) \/ StartReqOrRes(ch)
  PROVE  SoundInv'
<1>1. Running /\ local.state \in {"start_req", "start_res", "start_req_or_res"}
  BY SoundIn DEF StartReq, StartRes, StartReqOrRes
<1>2. local.state \notin Passing
  BY <1>1 DEF Passing
<1>3. CASE Error(<<"message_begin">>)
  BY <1>3, FailedSound
<1>4. ASSUME NEW s \in {"start_req", "start_req_or_res"}, Go(s) PROVE SoundInv'
  BY <1>1, <1>2, <1>4, PlainStates, GoPlain
<1>5. ASSUME NEW s \in {"res_H", "res_or_resp_H", "start_res"}, BeginMessage(s, local.index, Fresh)
      PROVE  SoundInv'
  <2>1. Fresh \in Message
    BY FreshTyped
  <2>2. s \in Plain /\ s # "req_method"
    BY PlainStates
  <2> QED
    BY <1>1, <1>5, <2>1, <2>2, Typed, BeginSound
<1>6. ASSUME NEW m \in Message, m.method \in Methods, BeginMessage("req_method", 1, m)
      PROVE  SoundInv'
  <2>1. 1 <= Len(Word[m.method])
    BY <1>6, WordFacts
  <2> QED
    BY <1>1, <1>6, <2>1, BeginSound
<1>7. ASSUME NEW c \in DOMAIN Begins
      PROVE  /\ [Fresh EXCEPT !.method = Begins[c]] \in Message
             /\ [Fresh EXCEPT !.method = Begins[c]].method \in Methods
             /\ [Fresh EXCEPT !.type = "HTTP_REQUEST", !.method = Begins[c]] \in Message
             /\ [Fresh EXCEPT !.type = "HTTP_REQUEST", !.method = Begins[c]].method \in Methods
  <2>1. Fresh \in Message /\ Begins[c] \in Methods
    BY FreshTyped, WordFacts
  <2> QED
    BY <2>1, MessageTyped
<1>8. CASE StartReq(ch)
  BY <1>3, <1>4, <1>6, <1>7, <1>8 DEF StartReq
<1>9. CASE StartRes(ch)
  BY <1>3, <1>5, <1>9 DEF StartRes
<1>10. CASE StartReqOrRes(ch)
  BY <1>3, <1>4, <1>5, <1>6, <1>7, <1>10 DEF StartReqOrRes
<1> QED
  BY <1>8, <1>9, <1>10

(* The method is never read past its end, also where it turns into another.*)
LEMMA MethodSoundStep ==
  ASSUME SoundInv, NEW ch, ResOrRespH(ch) \/ ReqMethod(ch)
  PROVE  SoundInv'
<1>1. Running /\ local.state \in {"res_or_resp_H", "req_method"} /\ Sound(local, msg, body)
  BY SoundIn DEF ResOrRespH, ReqMethod
<1>2. body.owed = 0
  BY <1>1, NothingOwed DEF Passing
<1>3. CASE Error(<<>>)
  BY <1>3, FailedSound
<1>4. ASSUME NEW m \in Message, NEW i \in Nat, i <= Len(Word[m.method]),
             Turn(Full("req_method", local.header_state, i, Counted), m, marks, body, <<>>)
      PROVE  SoundInv'
  <2>1. "req_method" \in States
    BY SpecialStates DEF Special
  <2>2. /\ Full("req_method", local.header_state, i, Counted) \in Locals
        /\ Full("req_method", local.header_state, i, Counted).state = "req_method"
        /\ Full("req_method", local.header_state, i, Counted).index = i
    BY <2>1, Typed, LocalTyped
  <2>3. Sound(Full("req_method", local.header_state, i, Counted), m, body)
    BY <1>2, <1>4, <2>2, MethodStateSound
  <2> QED
    BY <1>1, <1>4, <2>2, <2>3, Typed, SoundTurn
<1>5. CASE ResOrRespH(ch)
  <2>1. ASSUME Turn(Now("res_HT"), [msg EXCEPT !.type = "HTTP_RESPONSE"], marks, body, <<>>)
        PROVE  SoundInv'
    <3>1. [msg EXCEPT !.type = "HTTP_RESPONSE"] \in Message
      BY Typed, MessageTyped
    <3>2. "res_HT" \in Plain /\ "res_HT" \in States
      BY PlainStates DEF Plain
    <3> QED
      BY <1>1, <1>2, <2>1, <3>1, <3>2, Typed, LocalTyped, PlainTurn
  <2>2. ASSUME Turn(Full("req_method", local.header_state, 2, Counted),
                    [msg EXCEPT !.type = "HTTP_REQUEST", !.method = "HEAD"], marks, body, <<>>)
        PROVE  SoundInv'
    <3>1. /\ [msg EXCEPT !.type = "HTTP_REQUEST", !.method = "HEAD"] \in Message
          /\ [msg EXCEPT !.type = "HTTP_REQUEST", !.method = "HEAD"].method = "HEAD"
          /\ "HEAD" \in Methods
      BY Typed, MessageTyped DEF Methods
    <3>2. 2 <= Len(Word["HEAD"])
      BY <3>1, WordFacts
    <3> QED
      BY <1>4, <2>2, <3>1, <3>2
  <2> QED
    BY <1>3, <1>5, <2>1, <2>2 DEF ResOrRespH
<1>6. CASE ReqMethod(ch)
  <2>1. ASSUME Quiet(Full("req_spaces_before_url", local.header_state, local.index + 1, Counted))
        PROVE  SoundInv'
    <3>1. "req_spaces_before_url" \in Plain /\ "req_spaces_before_url" \in States
      BY PlainStates DEF Plain
    <3>2. local.index + 1 \in Nat
      BY Typed
    <3> QED
      BY <1>1, <1>2, <2>1, <3>1, <3>2, Typed, LocalTyped, PlainTurn DEF Quiet
  <2>2. ASSUME NEW m \in Continue(ch),
               Turn(Full("req_method", local.header_state, local.index + 1, Counted),
                    [msg EXCEPT !.method = m], marks, body, <<>>)
        PROVE  SoundInv'
    <3>1. m \in Methods /\ local.index < Len(Word[m])
      BY DEF Continue
    <3>2. [msg EXCEPT !.method = m] \in Message /\ [msg EXCEPT !.method = m].method = m
      BY <3>1, Typed, MessageTyped
    <3>3. local.index + 1 \in Nat /\ local.index + 1 <= Len(Word[m])
      BY <3>1, Typed, WordFacts
    <3> QED
      BY <1>4, <2>2, <3>2, <3>3
  <2> QED
    BY <1>3, <1>6, <2>1, <2>2 DEF ReqMethod
<1> QED
  BY <1>5, <1>6

(* A turn of the first line, in which nothing is owed, to a plain state.   *)
LEMMA PlainNow ==
  ASSUME SoundInv, Running, local.state \notin Passing, NEW s \in Plain,
         NEW m \in Message, NEW mk \in SUBSET Marks, NEW c, Turn(Now(s), m, mk, body, c)
  PROVE  SoundInv'
<1>1. s \in States /\ Now(s) \in Locals /\ Now(s).state = s
  BY LocalTyped DEF Plain
<1>2. body.owed = 0
  BY NothingOwed DEF SoundInv, Running
<1> QED
  BY <1>1, <1>2, Typed, PlainTurn

(* The URL and what surrounds it.                                          *)
LEMMA UrlSound ==
  ASSUME SoundInv, NEW ch, SpacesBeforeUrl(ch) \/ Url(ch) \/ ReqHttpStart(ch)
  PROVE  SoundInv'
<1>1. Running /\ local.state \in ReqLine
  BY SoundIn DEF SpacesBeforeUrl, Url, ReqHttpStart, ReqLine
<1>2. local.state \notin Passing
  BY <1>1, LinesPassNothing
<1>3. CASE Error(<<>>)
  BY <1>3, FailedSound
<1>4. ASSUME NEW s \in Plain, Go(s) PROVE SoundInv'
  BY <1>1, <1>2, <1>4, GoPlain
<1>5. CASE SpacesBeforeUrl(ch)
  <2>1. UrlStarts(ch) \in Plain
    BY PlainStates DEF UrlStarts, UrlStates
  <2>2. marks \cup {"url"} \in SUBSET Marks
    BY Typed DEF Marks
  <2>3. ASSUME Turn(Now(UrlStarts(ch)), msg, marks \cup {"url"}, body, <<>>) PROVE SoundInv'
    BY <1>1, <1>2, <2>1, <2>2, <2>3, Typed, PlainNow
  <2> QED
    BY <1>3, <1>4, <1>5, <2>3, PlainStates DEF SpacesBeforeUrl
<1>6. CASE Url(ch)
  <2>1. marks \ {"url"} \in SUBSET Marks
    BY Typed
  <2>2. ASSUME NEW s \in Plain, NEW m \in Message, Report("url", Now(s), m) PROVE SoundInv'
    BY <1>1, <1>2, <2>1, <2>2, PlainNow DEF Report
  <2>3. [msg EXCEPT !.major = FALSE, !.minor = TRUE] \in Message
    BY Typed, MessageTyped
  <2>4. /\ "req_http_start" \in Plain
        /\ (IF ch = "CR" THEN "req_line_almost_done" ELSE "header_field_start") \in Plain
    BY PlainStates
  <2>5. \A t \in UrlMoves(ch) : t \in Plain
    BY PlainStates DEF UrlMoves
  <2> QED
    BY <1>3, <1>4, <1>6, <2>2, <2>3, <2>4, <2>5, Typed DEF Url
<1>7. CASE ReqHttpStart(ch)
  BY <1>3, <1>4, <1>7, PlainStates DEF ReqHttpStart
<1> QED
  BY <1>5, <1>6, <1>7

(* Versions and the status of a response.                                  *)
LEMMA VersionSound ==
  ASSUME SoundInv, NEW ch, HttpMajor(ch) \/ HttpMinor(ch) \/ Status(ch)
  PROVE  SoundInv'
<1>1. Running /\ local.state \in ReqLine \cup ResLine
  BY SoundIn DEF HttpMajor, HttpMinor, Status, Major, FirstMinor, Minor, ReqLine, ResLine
<1>2. local.state \notin Passing
  BY <1>1, LinesPassNothing
<1>3. CASE Error(<<>>)
  BY <1>3, FailedSound
<1>4. ASSUME NEW s \in Plain, Go(s) PROVE SoundInv'
  BY <1>1, <1>2, <1>4, GoPlain
<1>5. ASSUME NEW s \in Plain, NEW x \in BOOLEAN,
             \/ Turn(Now(s), [msg EXCEPT !.major = x], marks, body, <<>>)
             \/ Turn(Now(s), [msg EXCEPT !.minor = x], marks, body, <<>>)
      PROVE  SoundInv'
  <2>1. [msg EXCEPT !.major = x] \in Message /\ [msg EXCEPT !.minor = x] \in Message
    BY Typed, MessageTyped
  <2> QED
    BY <1>1, <1>2, <1>5, <2>1, Typed, PlainNow
<1>6. CASE HttpMajor(ch)
  <2>1. /\ local.state \in DOMAIN Major => Major[local.state] \in Plain
        /\ local.state \in DOMAIN FirstMinor =>
             FirstMinor[local.state] \in Plain /\ local.state \in Plain
    BY PlainStates DEF Major, FirstMinor
  <2> QED
    BY <1>3, <1>4, <1>5, <1>6, <2>1, SoundIn DEF HttpMajor
<1>7. CASE HttpMinor(ch)
  <2>1. /\ local.state \in DOMAIN Minor => Minor[local.state] \in Plain
        /\ local.state \in {"req_http_minor", "res_http_minor"} => local.state \in Plain
    BY PlainStates DEF Minor
  <2>2. /\ (ch = "3") \in BOOLEAN /\ (msg.minor \/ ch = "3") \in BOOLEAN
        /\ [msg EXCEPT !.minor = @ \/ ch = "3"] = [msg EXCEPT !.minor = (msg.minor \/ ch = "3")]
    OBVIOUS
  <2>3. CASE In(DOMAIN Minor)
    <3>1. CASE In({"req_http_minor", "res_http_minor"})
      BY <2>3, <3>1, SoundIn DEF Minor
    <3>2. CASE ~In({"req_http_minor", "res_http_minor"})
      BY <1>3, <1>5, <1>7, <2>1, <2>2, <2>3, <3>2, SoundIn DEF HttpMinor
    <3> QED
      BY <3>1, <3>2
  <2>4. CASE ~In(DOMAIN Minor)
    BY <1>3, <1>4, <1>5, <1>7, <2>1, <2>2, <2>4, SoundIn, PlainStates DEF HttpMinor
  <2> QED
    BY <2>3, <2>4
<1>8. CASE Status(ch)
  BY <1>3, <1>4, <1>8, PlainStates DEF Status
<1> QED
  BY <1>6, <1>7, <1>8

(* What a matched keyword turns into.                                      *)
LEMMA MatchFacts ==
  ASSUME NEW h \in Matching, NEW i, NEW ch
  PROVE  /\ NextMatch(h, i, ch) \in {"h_general", Matched[h], h}
         /\ h \in OfValues => Matched[h] \in Values
         /\ h \notin OfValues => Matched[h] \in Names
BY DEF NextMatch, Matching, Matched, Keyword, OfValues, Names, Values

(* The header states of a name stay those of a name.                       *)
LEMMA NameFacts ==
  ASSUME NEW h \in NameHeaders, NEW ch
  PROVE  NextOfName(h, ch) \in NameHeaders
<1>1. CASE h \in Matching
  <2>1. h \notin OfValues
    BY <1>1 DEF NameHeaders, OfValues, Names
  <2>2. NextOfName(h, ch) = NextMatch(h, local.index + 1, ch)
    BY <1>1 DEF NextOfName, Matching, Keyword
  <2> QED
    BY <1>1, <2>1, <2>2, MatchFacts DEF NameHeaders
<1>2. CASE h \notin Matching
  <2>1. {"h_matching_connection", "h_matching_content_length"} \subseteq Matching \ OfValues
    BY DEF Matching, Keyword, OfValues
  <2> QED
    BY <1>2, <2>1 DEF NextOfName, NameHeaders
<1> QED
  BY <1>1, <1>2

(* A name and a value of a header are sound with their header states.      *)
LEMMA NameStateSound ==
  ASSUME NEW l, NEW m, NEW b, b.owed = 0,
         \/ l.state = "header_field" /\ l.header_state \in NameHeaders
         \/ l.state = "header_value" /\ l.header_state \notin {"h_connection", "h_transfer_encoding"}
  PROVE  Sound(l, m, b)
<1>1. l.state \notin Passing \cup Sized \cup Rested \cup ChunkStates
  BY DEF Passing, Sized, Rested, ChunkStates
<1> QED
  BY <1>1 DEF Sound, HeaderSound, ChunkSound, MethodSound, BodySound, Passing, NameHeaders

(* The header states by name.                                              *)
LEMMA HeaderNames ==
  /\ NameHeaders \subseteq HeaderStates /\ Names \subseteq HeaderStates
  /\ Values \subseteq HeaderStates /\ OfValues \subseteq Matching /\ Matching \subseteq HeaderStates
  /\ {"h_general", "h_content_length", "h_upgrade"} \subseteq HeaderStates
  /\ {"h_connection", "h_transfer_encoding"} \cap (Values \cup Matching \cup {"h_general"}) = {}
BY DEF NameHeaders, HeaderStates, Names, Values, OfValues, Matching, Keyword

(* A turn within a name or a value.                                        *)
LEMMA NameTurn ==
  ASSUME SoundInv, Running, NEW s \in {"header_field", "header_value"},
         NEW h \in HeaderStates, NEW i \in Nat, NEW m \in Message, NEW mk \in SUBSET Marks,
         NEW b \in BodyType, b.owed = 0, NEW c, Turn(Full(s, h, i, Counted), m, mk, b, c),
         s = "header_field" => h \in NameHeaders,
         s = "header_value" => h \notin {"h_connection", "h_transfer_encoding"}
  PROVE  SoundInv'
<1>1. s \in States
  BY SpecialStates DEF Special
<1>2. /\ Full(s, h, i, Counted) \in Locals /\ Full(s, h, i, Counted).state = s
      /\ Full(s, h, i, Counted).header_state = h
  BY <1>1, LocalTyped
<1>3. Sound(Full(s, h, i, Counted), m, b)
  BY <1>2, NameStateSound
<1> QED
  BY <1>2, <1>3, SoundTurn

(* The first byte of a header line, and those of its name.                 *)
LEMMA NameSound ==
  ASSUME SoundInv, NEW ch, HeaderFieldStart(ch) \/ HeaderField(ch)
  PROVE  SoundInv'
<1>1. /\ Running /\ Sound(local, msg, body)
      /\ local.state \in {"header_field_start", "header_value_lws", "header_field"}
  BY SoundIn DEF HeaderFieldStart, AtFieldStart, HeaderField
<1>2. local.state \notin Passing
  BY <1>1 DEF Passing
<1>3. CASE Error(<<>>)
  BY <1>3, FailedSound
<1>4. body.owed = 0
  BY <1>1, <1>2, NothingOwed
<1>5. CASE HeaderFieldStart(ch)
  <2> DEFINE h == IF ch \in DOMAIN HeaderBegins THEN HeaderBegins[ch] ELSE "h_general"
  <2>1. CASE Go("headers_almost_done")
    BY <1>1, <1>2, <2>1, PlainStates, GoPlain
  <2>2. CASE Turn(Full("header_field", h, 0, Counted), msg, marks \cup {"header_field"}, body, <<>>)
    <3>1. h \in NameHeaders
      BY DEF HeaderBegins, NameHeaders, Matching, Keyword, OfValues
    <3>2. marks \cup {"header_field"} \in SUBSET Marks /\ h \in HeaderStates
      BY <3>1, Typed, HeaderNames DEF Marks
    <3> HIDE DEF h
    <3> QED
      BY <1>1, <1>4, <2>2, <3>1, <3>2, Typed, NameTurn
  <2> QED
    BY <1>3, <1>5, <2>1, <2>2 DEF HeaderFieldStart
<1>6. CASE HeaderField(ch)
  <2> DEFINE h == local.header_state
             i == IF h \in Matching \cup {"h_C", "h_CO", "h_CON"} THEN local.index + 1 ELSE local.index
  <2>1. local.state = "header_field"
    BY <1>6, SoundIn DEF HeaderField
  <2>2. h \in NameHeaders
    BY <1>1, <2>1 DEF Sound, HeaderSound, NameHeaders
  <2>3. ASSUME Quiet(Full("header_field", NextOfName(h, ch), i, Counted)) PROVE SoundInv'
    <3>1. NextOfName(h, ch) \in NameHeaders /\ NextOfName(h, ch) \in HeaderStates /\ i \in Nat
      BY <2>2, Typed, NameFacts, HeaderNames
    <3>2. Turn(Full("header_field", NextOfName(h, ch), i, Counted), msg, marks, body, <<>>)
      BY <2>3 DEF Quiet
    <3> HIDE DEF h, i
    <3> QED
      BY <1>1, <1>4, <3>1, <3>2, Typed, NameTurn
  <2>4. ASSUME NEW s \in {"header_value_start", "header_almost_done", "header_field_start"},
               Report("header_field", Now(s), msg)
        PROVE  SoundInv'
    <3>1. s \in Plain /\ marks \ {"header_field"} \in SUBSET Marks
      BY PlainStates, Typed
    <3> QED
      BY <1>1, <1>2, <2>4, <3>1, Typed, PlainNow DEF Report
  <2> QED
    BY <1>3, <1>6, <2>3, <2>4 DEF HeaderField
<1> QED
  BY <1>5, <1>6

(* What content_length holds of a number: an integer, and the number itself*)
(* if it fits.                                                             *)
LEMMA WrapFacts ==
  ASSUME NEW v \in Int
  PROVE  Wrap(v) \in Int /\ (v \in Low..High => Wrap(v) = v)
<1>1. Limit \in Nat \ {0} /\ 2 * Limit \in Nat \ {0} /\ v + Limit \in Int
  BY ParserAssumption
<1>2. \A n \in Int, d \in Nat \ {0} : n % d \in Int /\ (0 <= n /\ n < d => n % d = n)
  OBVIOUS
<1>3. /\ (v + Limit) % (2 * Limit) \in Int
      /\ 0 <= v + Limit /\ v + Limit < 2 * Limit => (v + Limit) % (2 * Limit) = v + Limit
  BY <1>1, <1>2
<1>4. Wrap(v) = ((v + Limit) % (2 * Limit)) - Limit
  <2>1. v - Low = v + Limit /\ Low = -Limit
    BY <1>1 DEF Low
  <2>2. \A x \in Int : x + Low = x - Limit
    BY <1>1, <2>1
  <2>3. Wrap(v) = ((v + Limit) % (2 * Limit)) + Low
    BY <2>1 DEF Wrap
  <2> QED
    BY <1>3, <2>2, <2>3
<1>5. v \in Low..High => 0 <= v + Limit /\ v + Limit < 2 * Limit
  BY <1>1 DEF Low, High
<1> DEFINE w == (v + Limit) % (2 * Limit)
<1>6. w \in Int /\ Wrap(v) = w - Limit /\ (v \in Low..High => w = v + Limit)
  BY <1>3, <1>4, <1>5
<1> HIDE DEF w
<1> QED
  BY <1>1, <1>6

(* A digit is appended to a length: the length is an integer, and neither  *)
(* below zero nor wrapped if it was not and still fits.                    *)
LEMMA GrowFacts ==
  ASSUME SoundInv, NEW base \in {10, 16}, NEW d \in Nat,
         NEW m, m = [msg EXCEPT !.content_length = Wrap(Grown(base, d))],
         NEW b, b = [body EXCEPT !.wrapped = @ \/ Grown(base, d) \notin Low..High]
  PROVE  /\ m \in Message /\ m.flags = msg.flags
         /\ b \in BodyType /\ b.owed = body.owed
         /\ (~body.wrapped => msg.content_length >= 0) => (~b.wrapped => m.content_length >= 0)
<1>1. msg.content_length \in Int /\ msg \in Message /\ body \in BodyType /\ body.wrapped \in BOOLEAN
  BY Typed
<1>2. Grown(base, d) \in Int
      /\ (msg.content_length >= 0 => Grown(base, d) >= 0)
  BY <1>1 DEF Grown
<1>3. /\ Wrap(Grown(base, d)) \in Int
      /\ Grown(base, d) \in Low..High => Wrap(Grown(base, d)) = Grown(base, d)
  BY <1>2, WrapFacts
<1>4. m \in Message /\ m.flags = msg.flags /\ m.content_length = Wrap(Grown(base, d))
  BY <1>1, <1>3, MessageTyped
<1>5. /\ b \in BodyType /\ b.owed = body.owed
      /\ ~b.wrapped => ~body.wrapped /\ Grown(base, d) \in Low..High
  <2> DEFINE w == Grown(base, d) \notin Low..High
  <2>1. w \in BOOLEAN /\ b = [body EXCEPT !.wrapped = @ \/ w]
    OBVIOUS
  <2> HIDE DEF w
  <2>2. /\ b \in BodyType /\ b.owed = body.owed
        /\ ~b.wrapped => ~body.wrapped /\ ~w
    BY <1>1, <2>1 DEF BodyType
  <2> QED
    BY <2>2 DEF w
<1> QED
  BY <1>2, <1>3, <1>4, <1>5

(* A digit of a length that a header announces.                            *)
LEMMA HeaderGrown ==
  ASSUME SoundInv, Running, local.state = "header_value", local.header_state = "h_content_length",
         NEW d \in Nat, Grow(10, d, Now("header_value"))
  PROVE  SoundInv'
<1> DEFINE m == [msg EXCEPT !.content_length = Wrap(Grown(10, d))]
           b == [body EXCEPT !.wrapped = @ \/ Grown(10, d) \notin Low..High]
<1>1. body.owed = 0
  BY NothingOwed DEF SoundInv, Running, Passing
<1>2. m \in Message /\ b \in BodyType /\ b.owed = 0
  BY <1>1, GrowFacts
<1>3. Turn(Now("header_value"), m, marks, b, <<>>)
  BY DEF Grow
<1> HIDE DEF m, b
<1>4. "header_value" \in States
  BY SpecialStates DEF Special
<1>5. /\ Now("header_value") \in Locals /\ Now("header_value").state = "header_value"
      /\ Now("header_value").header_state = "h_content_length"
  BY <1>4, LocalTyped
<1>6. Sound(Now("header_value"), m, b)
  BY <1>2, <1>5, NameStateSound
<1> QED
  BY <1>2, <1>3, <1>5, <1>6, Typed, SoundTurn

(* The first byte of a value.                                              *)
LEMMA ValueBeginsSound ==
  ASSUME SoundInv, NEW ch, HeaderValueStart(ch)
  PROVE  SoundInv'
<1> DEFINE h == local.header_state
           v == ValueBegins(h, ch)
<1>1. Running /\ local.state = "header_value_start" /\ Sound(local, msg, body)
  BY SoundIn DEF HeaderValueStart
<1>2. local.state \notin Passing /\ body.owed = 0
  BY <1>1, NothingOwed DEF Passing
<1>3. v \in OfValues \cup {"h_content_length", "h_general"}
  BY DEF ValueBegins, OfValues
<1>4. v \in HeaderStates /\ v \notin {"h_connection", "h_transfer_encoding"}
  BY <1>3, HeaderNames
<1> HIDE DEF v
<1>5. ASSUME NEW m \in Message, NEW b \in BodyType, b.owed = 0,
             Turn(Full("header_value", v, 0, Counted), m, marks \cup {"header_value"}, b, <<>>)
      PROVE  SoundInv'
  <2>1. marks \cup {"header_value"} \in SUBSET Marks
    BY Typed DEF Marks
  <2> QED
    BY <1>1, <1>4, <1>5, <2>1, NameTurn
<1>6. ASSUME NEW s \in {"header_almost_done", "header_field_start"}, NEW g \in HeaderStates,
             Turn(Full(s, g, 0, Counted), msg, marks, body, <<"header_value">>)
      PROVE  SoundInv'
  <2>1. s \in Plain /\ s \in States
    BY PlainStates DEF Plain
  <2> QED
    BY <1>1, <1>2, <1>6, <2>1, Typed, LocalTyped, PlainTurn
<1>7. CASE Error(<<>>)
  BY <1>7, FailedSound
<1>8. CASE Go("header_value_start")
  BY <1>1, <1>2, <1>8, PlainStates, GoPlain
<1>9. ASSUME Turn(Full("header_value", v, 0, Counted), [msg EXCEPT !.flags = @ \cup {"UPGRADE"}],
                  marks \cup {"header_value"}, body, <<>>)
      PROVE  SoundInv'
  <2>1. msg.flags \cup {"UPGRADE"} \in SUBSET Flags
    BY Typed DEF Flags
  <2>2. [msg EXCEPT !.flags = msg.flags \cup {"UPGRADE"}] \in Message
    BY <2>1, Typed, MessageTyped
  <2> QED
    BY <1>2, <1>5, <1>9, <2>2, Typed
<1>10. ASSUME Turn(Full("header_value", v, 0, Counted), [msg EXCEPT !.content_length = Value_(ch)],
                   marks \cup {"header_value"}, [body EXCEPT !.wrapped = FALSE], <<>>)
       PROVE  SoundInv'
  <2>1. Value_(ch) \in Int
    BY DEF Value_
  <2>2. [msg EXCEPT !.content_length = Value_(ch)] \in Message
    BY <2>1, Typed, MessageTyped
  <2>3. [body EXCEPT !.wrapped = FALSE] \in BodyType /\ [body EXCEPT !.wrapped = FALSE].owed = 0
    BY <1>2, Typed DEF BodyType
  <2> QED
    BY <1>5, <1>10, <2>2, <2>3
<1>11. "h_general" \in HeaderStates /\ h \in HeaderStates
  BY HeaderNames, Typed
<1>12. \/ Go("header_value_start") \/ Error(<<>>)
       \/ Turn(Full("header_almost_done", "h_general", 0, Counted), msg, marks, body, <<"header_value">>)
       \/ Turn(Full("header_field_start", h, 0, Counted), msg, marks, body, <<"header_value">>)
       \/ Turn(Full("header_value", v, 0, Counted), msg, marks \cup {"header_value"}, body, <<>>)
       \/ Turn(Full("header_value", v, 0, Counted), [msg EXCEPT !.flags = @ \cup {"UPGRADE"}],
               marks \cup {"header_value"}, body, <<>>)
       \/ Turn(Full("header_value", v, 0, Counted), [msg EXCEPT !.content_length = Value_(ch)],
               marks \cup {"header_value"}, [body EXCEPT !.wrapped = FALSE], <<>>)
  BY Zenon DEF HeaderValueStart, v
<1> HIDE DEF h
<1> QED
  BY <1>2, <1>5, <1>6, <1>7, <1>8, <1>9, <1>10, <1>11, <1>12, Typed

(* The flags that a line sets are flags.                                   *)
LEMMA FlagsTyped ==
  ASSUME SoundInv PROVE WithFlag \in Message
<1> DEFINE f == msg.flags \cup
                  (IF local.header_state \in Values THEN FlagOf[local.header_state] ELSE {})
<1>1. f \in SUBSET Flags
  BY Typed DEF Values, FlagOf, Flags
<1>2. WithFlag = [msg EXCEPT !.flags = f]
  BY DEF WithFlag
<1> HIDE DEF f
<1> QED
  BY <1>1, <1>2, Typed, MessageTyped

(* The bytes of a value.                                                   *)
LEMMA ValueSound ==
  ASSUME SoundInv, NEW ch, HeaderValue(ch)
  PROVE  SoundInv'
<1> DEFINE h == local.header_state
           i == local.index
<1>1. Running /\ local.state = "header_value" /\ Sound(local, msg, body)
  BY SoundIn DEF HeaderValue
<1>2. local.state \notin Passing /\ body.owed = 0
  BY <1>1, NothingOwed DEF Passing
<1>3. h \notin {"h_connection", "h_transfer_encoding"} /\ h \in HeaderStates /\ i \in Nat
  BY <1>1, Typed DEF Sound, HeaderSound
<1>4. CASE Error(<<>>)
  BY <1>4, FailedSound
<1>5. ASSUME NEW s \in {"header_almost_done", "header_value_lws"}, NEW m \in Message,
             Report("header_value", Now(s), m)
      PROVE  SoundInv'
  <2>1. s \in Plain /\ marks \ {"header_value"} \in SUBSET Marks
    BY PlainStates, Typed
  <2> QED
    BY <1>1, <1>2, <1>5, <2>1, PlainNow DEF Report
<1>6. ASSUME NEW g \in HeaderStates, g \notin {"h_connection", "h_transfer_encoding"},
             NEW k \in Nat, Quiet(Full("header_value", g, k, Counted))
      PROVE  SoundInv'
  BY <1>1, <1>2, <1>6, Typed, NameTurn DEF Quiet
<1>7. CASE h = "h_content_length" /\ Grow(10, Value_(ch), Now("header_value"))
  <2>1. Value_(ch) \in Nat
    BY DEF Value_
  <2> QED
    BY <1>1, <1>7, <2>1, HeaderGrown
<1>8. CASE h \in OfValues /\ Quiet(Full("header_value", NextMatch(h, i + 1, ch), i + 1, Counted))
  <2>1. NextMatch(h, i + 1, ch) \in OfValues \cup Values \cup {"h_general"}
    BY <1>8, HeaderNames, MatchFacts
  <2>2. NextMatch(h, i + 1, ch) \in HeaderStates
        /\ NextMatch(h, i + 1, ch) \notin {"h_connection", "h_transfer_encoding"}
    BY <2>1, HeaderNames
  <2>3. i + 1 \in Nat
    BY <1>3
  <2> QED
    BY <1>6, <1>8, <2>2, <2>3
<1>9. CASE Quiet(Full("header_value", IF h \in Values /\ ch = "SP" THEN h ELSE "h_general", i, Counted))
  <2> DEFINE g == IF h \in Values /\ ch = "SP" THEN h ELSE "h_general"
  <2>1. g \in HeaderStates /\ g \notin {"h_connection", "h_transfer_encoding"}
    BY <1>3, HeaderNames
  <2>2. Quiet(Full("header_value", g, i, Counted))
    BY <1>9
  <2> HIDE DEF g
  <2> QED
    BY <1>3, <1>6, <2>1, <2>2
<1>10. CASE Go("header_value")
  BY <1>3, <1>6, <1>10 DEF Go, Now
<1>11. \/ Error(<<>>) \/ Go("header_value")
       \/ Report("header_value", Now("header_almost_done"), msg)
       \/ Report("header_value", Now("header_value_lws"), WithFlag)
       \/ h = "h_content_length" /\ Grow(10, Value_(ch), Now("header_value"))
       \/ h \in OfValues /\ Quiet(Full("header_value", NextMatch(h, i + 1, ch), i + 1, Counted))
       \/ Quiet(Full("header_value", IF h \in Values /\ ch = "SP" THEN h ELSE "h_general", i, Counted))
  BY Zenon DEF HeaderValue
<1> HIDE DEF h, i
<1> QED
  BY <1>4, <1>5, <1>7, <1>8, <1>9, <1>10, <1>11, FlagsTyped, Typed

(* The end of a header line.                                               *)
LEMMA LineEndsSound ==
  ASSUME SoundInv, NEW ch, HeaderAlmostDone(ch) \/ HeaderValueLws(ch) \/ HeadersAlmostDone(ch)
  PROVE  SoundInv'
<1>1. Running /\ local.state \in {"header_almost_done", "header_value_lws", "headers_almost_done"}
  BY SoundIn DEF HeaderAlmostDone, HeaderValueLws, HeadersAlmostDone
<1>2. local.state \notin Passing
  BY <1>1 DEF Passing
<1>3. CASE Error(<<>>)
  BY <1>3, FailedSound
<1>4. CASE Turn(Now("header_value_lws"), WithFlag, marks, body, <<>>)
  BY <1>1, <1>2, <1>4, FlagsTyped, Typed, PlainStates, PlainNow
<1>5. CASE Go("header_value_start")
  BY <1>1, <1>2, <1>5, PlainStates, GoPlain
<1> QED
  BY <1>3, <1>4, <1>5 DEF HeaderAlmostDone, HeaderValueLws, HeadersAlmostDone

(* Where a message goes on after one that is complete.                     *)
LEMMA NewMessagePlain ==
  ASSUME NEW m PROVE NewMessage(m) \in Plain /\ NewMessage(m) \in {"start_req", "start_res", "dead"}
BY PlainStates DEF NewMessage

(* What the headers leave in the message.                                  *)
LEMMA SkippingTyped ==
  ASSUME SoundInv, NEW r PROVE Skipping(r) \in Message
<1> DEFINE u == msg.upgrade \/ "UPGRADE" \in msg.flags \/ msg.method = "CONNECT"
           w == [msg EXCEPT !.upgrade = u]
           f == w.flags \cup (IF r = 1 THEN {"SKIPBODY"} ELSE {})
<1>1. u \in BOOLEAN
  BY Typed DEF Message
<1>2. w \in Message
  BY <1>1, Typed, MessageTyped
<1>3. WithUpgrade = w
  BY DEF WithUpgrade
<1> HIDE DEF w
<1>4. w.flags \in SUBSET Flags
  BY <1>2 DEF Message
<1>5. f \in SUBSET Flags
  BY <1>4 DEF Flags
<1>6. Skipping(r) = [w EXCEPT !.flags = f]
  BY <1>3 DEF Skipping
<1> HIDE DEF f
<1>7. [w EXCEPT !.flags = f] \in Message
  BY <1>2, <1>5 DEF Message
<1> QED
  BY <1>6, <1>7

(* After the headers a body comes with its length, chunks with the flag    *)
(* and a count that starts anew, and otherwise nothing is owed.            *)
LEMMA AfterHeadersSound ==
  ASSUME SoundInv, Running, body.owed = 0, NEW m \in Message,
         NEW l, l = Full(AfterHeaders(m), local.header_state, local.index, 0),
         NEW b, b = (IF l.state = "body_identity" THEN [body EXCEPT !.owed = m.content_length]
                     ELSE body)
  PROVE  l \in Locals /\ b \in BodyType /\ Sound(l, m, b)
<1>0. /\ m.content_length \in Int /\ body \in BodyType
      /\ local.header_state \in HeaderStates /\ local.index \in Nat /\ 0 \in 0..2
  BY Typed DEF Message
<1>1. ASSUME NEW s \in States, AfterHeaders(m) = s
      PROVE  l \in Locals /\ l.state = s /\ l.nread = 0
  BY <1>0, <1>1, LocalTyped
<1>2. CASE AfterHeaders(m) \in Plain
  <2>1. AfterHeaders(m) \in States /\ AfterHeaders(m) # "body_identity"
    BY <1>2 DEF Plain, Special
  <2>2. l \in Locals /\ l.state = AfterHeaders(m)
    BY <1>1, <2>1
  <2>3. b = body
    BY <2>1, <2>2
  <2> QED
    BY <1>0, <1>2, <2>2, <2>3, PlainSound
<1>3. CASE AfterHeaders(m) = "chunk_size_start" /\ "CHUNKED" \in m.flags
  <2>1. "chunk_size_start" \in States
    BY SpecialStates DEF Special, ChunkStates
  <2>2. l \in Locals /\ l.state = "chunk_size_start" /\ l.nread = 0
    BY <1>1, <1>3, <2>1
  <2>3. b = body
    BY <2>2
  <2>4. Sound(l, m, b)
    BY <1>3, <2>2, <2>3
    DEF Sound, HeaderSound, ChunkSound, MethodSound, BodySound, Passing, Sized
  <2> QED
    BY <1>0, <2>2, <2>3, <2>4
<1>4. CASE AfterHeaders(m) = "body_identity" /\ m.content_length > 0
  <2>1. "body_identity" \in States
    BY SpecialStates DEF Special
  <2>2. l \in Locals /\ l.state = "body_identity"
    BY <1>1, <1>4, <2>1
  <2>3. b = [body EXCEPT !.owed = m.content_length]
    BY <2>2
  <2>4. b \in BodyType /\ b.owed = m.content_length
    BY <1>0, <2>3 DEF BodyType
  <2>5. Sound(l, m, b)
    BY <1>4, <2>2, <2>4
    DEF Sound, HeaderSound, ChunkSound, MethodSound, BodySound, Passing, Sized, Rested, ChunkStates
  <2> QED
    BY <2>2, <2>4, <2>5
<1>5. \/ AfterHeaders(m) \in Plain
      \/ AfterHeaders(m) = "chunk_size_start" /\ "CHUNKED" \in m.flags
      \/ AfterHeaders(m) = "body_identity" /\ m.content_length > 0
  BY NewMessagePlain, PlainStates DEF AfterHeaders
<1> QED
  BY <1>2, <1>3, <1>4, <1>5

(* The blank line after the headers or the trailers.                       *)
LEMMA HeadersSound ==
  ASSUME SoundInv, NEW ch, HeadersDone(ch)
  PROVE  SoundInv'
<1>1. /\ Running /\ Sound(local, msg, body)
      /\ local.state \in {"headers_almost_done", "header_field_start", "header_value_lws"}
  BY SoundIn DEF HeadersDone, AtFieldStart
<1>2. local.state \notin Passing /\ body.owed = 0 /\ local.state \in Plain
  BY <1>1, NothingOwed, PlainStates DEF Passing
<1>3. CASE Turn(Now(NewMessage(msg)), msg, marks, body, <<"message_complete">>)
  BY <1>1, <1>2, <1>3, NewMessagePlain, Typed, PlainNow
<1>4. CASE Error(<<"headers_complete">>)
  BY <1>4, FailedSound
<1>5. ASSUME NEW r, NEW m, m = Skipping(r),
             NEW l, l = Full(AfterHeaders(m), local.header_state, local.index, 0),
             NEW b, b = (IF l.state = "body_identity" THEN [body EXCEPT !.owed = m.content_length]
                         ELSE body),
             NEW c, Turn(l, m, marks, b, c)
      PROVE  SoundInv'
  <2>1. m \in Message
    BY <1>5, SkippingTyped
  <2>2. l \in Locals /\ b \in BodyType /\ Sound(l, m, b)
    BY <1>1, <1>2, <1>5, <2>1, AfterHeadersSound
  <2> QED
    BY <1>1, <1>5, <2>1, <2>2, Typed, SoundTurn
<1>6. ASSUME NEW r, msg' = Skipping(r), at' = "upgraded",
             UNCHANGED <<saved, local, marks, failed, body>>
      PROVE  SoundInv'
  <2>1. msg' \in Message
    BY <1>6, SkippingTyped
  <2>2. TypeOK'
    BY <1>6, <2>1 DEF SoundInv, TypeOK
  <2>3. Sound(local, msg', body)
    BY <1>2, PlainSound
  <2> QED
    BY <1>6, <2>2, <2>3 DEF SoundInv, Sound, HeaderSound, ChunkSound, MethodSound, BodySound
<1>7. CASE Error(Both)
  BY <1>7, FailedSound
<1>8. \/ Turn(Now(NewMessage(msg)), msg, marks, body, <<"message_complete">>)
      \/ Error(<<"headers_complete">>)
      \/ \E r \in HeadersResults \cap {0, 1} :
             LET m == Skipping(r)
                 l == Full(AfterHeaders(m), local.header_state, local.index, 0)
             IN \/ Turn(l, m, marks,
                        IF l.state = "body_identity"
                          THEN [body EXCEPT !.owed = m.content_length] ELSE body,
                        IF NoBody(m) THEN Both ELSE <<"headers_complete">>)
                \/ msg' = m /\ at' = "upgraded" /\ UNCHANGED <<saved, local, marks, failed, body>>
                \/ Error(Both)
  BY Zenon DEF HeadersDone
<1>9. ASSUME NEW r \in HeadersResults \cap {0, 1},
             LET m == Skipping(r)
                 l == Full(AfterHeaders(m), local.header_state, local.index, 0)
             IN \/ Turn(l, m, marks,
                        IF l.state = "body_identity"
                          THEN [body EXCEPT !.owed = m.content_length] ELSE body,
                        IF NoBody(m) THEN Both ELSE <<"headers_complete">>)
                \/ msg' = m /\ at' = "upgraded" /\ UNCHANGED <<saved, local, marks, failed, body>>
                \/ Error(Both)
      PROVE  SoundInv'
  BY <1>5, <1>6, <1>7, <1>9
<1> QED
  BY <1>3, <1>4, <1>8, <1>9

-----------------------------------------------------------------------------
(* Bodies.                                                                 *)

(* Another length is left.                                                 *)
LEMMA LengthTyped ==
  ASSUME NEW m \in Message, NEW v \in Int
  PROVE  /\ [m EXCEPT !.content_length = v] \in Message
         /\ [m EXCEPT !.content_length = v].content_length = v
         /\ [m EXCEPT !.content_length = v].flags = m.flags
BY DEF Message

(* What assigning one field, flags, changes.                               *)
LEMMA FlagsAssigned ==
  ASSUME NEW m \in Message, NEW f \in SUBSET Flags
  PROVE  /\ [m EXCEPT !.flags = f] \in Message
         /\ [m EXCEPT !.flags = f].flags = f
         /\ [m EXCEPT !.flags = f].content_length = m.content_length
<1>1. [m EXCEPT !.flags = f] \in Message
  BY DEF Message
<1>2. [m EXCEPT !.flags = f].flags = f
  BY DEF Message
<1>3. [m EXCEPT !.flags = f].content_length = m.content_length
  BY DEF Message
<1> QED
  BY <1>1, <1>2, <1>3

(* n bytes are passed, and as many are owed less.                          *)
LEMMA PassSound ==
  ASSUME SoundInv, Running, local.state \in Passing, NEW s \in States, NEW n \in Int,
         NEW ends, Pass(n, s, ends),
         \/ s = local.state /\ n < msg.content_length
         \/ s \in Plain /\ n = msg.content_length
         \/ local.state = "chunk_data" /\ s = "chunk_data_almost_done" /\ n = msg.content_length
  PROVE  SoundInv'
<1> DEFINE l == [local EXCEPT !.state = s]
           m == [msg EXCEPT !.content_length = @ - n]
           b == [body EXCEPT !.owed = @ - n]
<1>1. /\ local \in Locals /\ msg \in Message /\ body \in BodyType
      /\ msg.content_length \in Int /\ body.owed \in Int
  BY Typed
<1>2. Sound(local, msg, body)
  BY DEF SoundInv, Running
<1>3. body.owed = msg.content_length
  BY <1>2 DEF Sound, BodySound
<1>4. /\ local' = l /\ msg' = m /\ body' = b /\ at' \in {"full", "run"}
      /\ UNCHANGED <<saved, marks, failed>>
  BY DEF Pass
<1>5. l \in Locals /\ l.state = s /\ l.nread = local.nread
  BY <1>1 DEF Locals
<1>6. m \in Message /\ m.content_length = msg.content_length - n /\ m.flags = msg.flags
  <2> DEFINE v == msg.content_length - n
             c == [msg EXCEPT !.content_length = v]
  <2>1. v \in Int
    BY <1>1
  <2>2. m = c
    OBVIOUS
  <2> HIDE DEF v
  <2>3. c \in Message /\ c.content_length = v /\ c.flags = msg.flags
    BY <1>1, <2>1, LengthTyped
  <2> QED
    BY <2>2, <2>3 DEF v
<1>7. b \in BodyType /\ b.owed = m.content_length
  <2>1. b \in BodyType /\ b.owed = body.owed - n
    BY <1>1 DEF BodyType
  <2> QED
    BY <2>1, <1>3, <1>6
<1> HIDE DEF l, m, b
<1>8. TypeOK'
  BY <1>4, <1>5, <1>6, <1>7 DEF SoundInv, TypeOK, BodyType
<1>9. Sound(l, m, b)
  <2>1. CASE s = local.state /\ n < msg.content_length
    <3>1. m.content_length > 0
      BY <1>1, <1>6, <2>1
    <3>2. s \in Passing /\ s \notin Sized /\ s # "header_field" /\ s # "header_value" /\ s # "req_method"
      BY <2>1 DEF Passing, Sized
    <3>3. ChunkSound(l, m)
      BY <1>2, <1>5, <1>6, <2>1 DEF Sound, ChunkSound
    <3> QED
      BY <1>5, <1>7, <3>1, <3>2, <3>3 DEF Sound, HeaderSound, MethodSound, BodySound
  <2>2. CASE s \in Plain /\ n = msg.content_length
    <3>1. b.owed = 0
      BY <1>1, <1>6, <1>7, <2>2
    <3> QED
      BY <1>5, <2>2, <3>1, PlainSound
  <2>3. CASE local.state = "chunk_data" /\ s = "chunk_data_almost_done" /\ n = msg.content_length
    <3>1. b.owed = 0
      BY <1>1, <1>6, <1>7, <2>3
    <3>2. l.nread = 0 /\ "CHUNKED" \in m.flags
      BY <1>2, <1>5, <1>6, <2>3 DEF Sound, ChunkSound, Rested, ChunkStates
    <3> QED
      BY <1>5, <2>3, <3>1, <3>2
      DEF Sound, HeaderSound, ChunkSound, MethodSound, BodySound, Passing, Sized
  <2> QED
    BY <2>1, <2>2, <2>3
<1> QED
  BY <1>4, <1>8, <1>9 DEF SoundInv, Sound, HeaderSound, ChunkSound, MethodSound, BodySound

(* A body of a known length, or until the peer closes.                     *)
LEMMA BodySoundStep ==
  ASSUME SoundInv, BodyIdentity \/ BodyIdentityEof
  PROVE  SoundInv'
<1>1. CASE BodyIdentityEof
  <2>1. at' = "full" /\ UNCHANGED <<saved, local, marks, msg, failed, body>>
    BY <1>1 DEF BodyIdentityEof
  <2> QED
    BY <2>1 DEF SoundInv, TypeOK, Sound, HeaderSound, ChunkSound, MethodSound, BodySound
<1>2. CASE BodyIdentity
  <2>1. Running /\ local.state = "body_identity" /\ local.state \in Passing
    BY <1>2, SoundIn DEF BodyIdentity, Passing
  <2>2. local.state \in States /\ NewMessage(msg) \in Plain /\ NewMessage(msg) \in States
    BY Typed, NewMessagePlain DEF Plain
  <2>3. PICK n \in 1..msg.content_length :
          \/ n < msg.content_length /\ Pass(n, "body_identity", FALSE)
          \/ n = msg.content_length /\ Pass(n, NewMessage(msg), TRUE)
          \/ n = msg.content_length /\ CallbackFails(<<"body", "message_complete">>)
    BY <1>2 DEF BodyIdentity
  <2>4. n \in Int
    OBVIOUS
  <2> QED
    BY <2>1, <2>2, <2>3, <2>4, PassSound, FailedSound
<1> QED
  BY <1>1, <1>2

(* A turn from one state of a chunked body to another.                     *)
LEMMA ChunkTurn ==
  ASSUME SoundInv, Running, local.state \in ChunkStates, NEW s \in ChunkStates,
         NEW n \in 0..2, s \in Rested => n = 0,
         NEW m \in Message, "CHUNKED" \in m.flags, NEW b \in BodyType,
         b.owed = IF s = "chunk_data" THEN m.content_length ELSE 0,
         s \in Sized /\ ~b.wrapped => m.content_length >= 0,
         s = "chunk_data" /\ ~b.wrapped => m.content_length > 0,
         NEW c, Turn(Full(s, local.header_state, local.index, n), m, marks, b, c)
  PROVE  SoundInv'
<1> DEFINE l == Full(s, local.header_state, local.index, n)
<1>1. s \in States
  BY SpecialStates DEF Special
<1>2. l \in Locals /\ l.state = s /\ l.nread = n
  BY <1>1, Typed, LocalTyped
<1> HIDE DEF l
<1>3. s \notin {"header_field", "header_value", "req_method", "body_identity"}
  BY DEF ChunkStates
<1>4. Sound(l, m, b)
  BY <1>2, <1>3 DEF Sound, HeaderSound, ChunkSound, MethodSound, BodySound, Passing
<1> QED
  BY <1>2, <1>4, Typed, SoundTurn DEF l

(* What a chunk's states start from.                                       *)
LEMMA ChunkFacts ==
  ASSUME SoundInv, Running, local.state \in ChunkStates
  PROVE  /\ "CHUNKED" \in msg.flags
         /\ local.state # "chunk_data" => body.owed = 0
         /\ local.state \in Sized /\ ~body.wrapped => msg.content_length >= 0
         /\ local.state \in Rested => local.nread = 0
BY DEF SoundInv, Running, Sound, ChunkSound, BodySound, Passing, ChunkStates

(* The size of a chunk.                                                    *)
LEMMA ChunkSizeSound ==
  ASSUME SoundInv, NEW ch,
         ChunkSizeStart(ch) \/ ChunkSize(ch) \/ ChunkParameters(ch) \/ ChunkSizeAlmostDone(ch)
  PROVE  SoundInv'
<1>0. \E S \in {{"chunk_size_start"}, {"chunk_size"}, {"chunk_parameters"}, {"chunk_size_almost_done"}} :
        In(S)
  BY DEF ChunkSizeStart, ChunkSize, ChunkParameters, ChunkSizeAlmostDone
<1>1. /\ Running /\ local.state \in ChunkStates /\ local.state # "chunk_data"
      /\ local.state \in Sized \cup {"chunk_size_start"}
  <2>1. /\ Running
        /\ local.state \in {"chunk_size_start", "chunk_size", "chunk_parameters", "chunk_size_almost_done"}
    BY <1>0, SoundIn
  <2> QED
    BY <2>1 DEF ChunkStates, Sized
<1>2. /\ "CHUNKED" \in msg.flags /\ body.owed = 0
      /\ local.state \in Sized /\ ~body.wrapped => msg.content_length >= 0
  BY <1>1, ChunkFacts
<1>3. CASE Error(<<>>)
  BY <1>3, FailedSound
<1>4. Sized \subseteq ChunkStates /\ Sized \cap (Rested \cup {"chunk_data"}) = {}
  BY DEF Sized, ChunkStates, Rested
<1>5. Counted \in 0..2
  BY Typed, LocalTyped
<1>6. ASSUME NEW s \in Sized, NEW m \in Message, m.flags = msg.flags, NEW b \in BodyType, b.owed = 0,
             ~b.wrapped => m.content_length >= 0, NEW c, Turn(Now(s), m, marks, b, c)
      PROVE  SoundInv'
  <2>1. Turn(Full(s, local.header_state, local.index, Counted), m, marks, b, c)
    BY <1>6 DEF Now
  <2> QED
    BY <1>1, <1>2, <1>4, <1>5, <1>6, <2>1, ChunkTurn
<1>7. ASSUME NEW s \in Sized, local.state \in Sized, Go(s) PROVE SoundInv'
  BY <1>2, <1>6, <1>7, Typed DEF Go, Quiet
<1>8. \A d \in DOMAIN Hex : Hex[d] \in Nat
  BY DEF Hex, Value_, Digits
<1>9. CASE ChunkSizeStart(ch)
  <2> DEFINE m == [msg EXCEPT !.content_length = Hex[ch]]
             b == [body EXCEPT !.wrapped = FALSE]
  <2>1. ASSUME ch \in DOMAIN Hex, Turn(Now("chunk_size"), m, marks, b, <<>>) PROVE SoundInv'
    <3>1. Hex[ch] \in Int /\ Hex[ch] >= 0
      BY <1>8, <2>1
    <3>2. m \in Message /\ m.flags = msg.flags /\ m.content_length = Hex[ch]
      BY <3>1, Typed, MessageTyped
    <3>3. b \in BodyType /\ b.owed = 0
      BY <1>2, Typed DEF BodyType
    <3>4. "chunk_size" \in Sized
      BY DEF Sized
    <3> HIDE DEF m, b
    <3> QED
      BY <1>6, <2>1, <3>1, <3>2, <3>3, <3>4
  <2> QED
    BY <1>3, <1>9, <2>1 DEF ChunkSizeStart
<1>10. CASE ChunkSize(ch)
  <2>1. local.state \in Sized
    BY <1>10, SoundIn DEF ChunkSize, Sized
  <2>2. ASSUME ch \in DOMAIN Hex, Grow(16, Hex[ch], Now("chunk_size")) PROVE SoundInv'
    <3> DEFINE d == Hex[ch]
               m == [msg EXCEPT !.content_length = Wrap(Grown(16, d))]
               b == [body EXCEPT !.wrapped = @ \/ Grown(16, d) \notin Low..High]
    <3>1. d \in Nat
      BY <1>8, <2>2
    <3>2. Turn(Now("chunk_size"), m, marks, b, <<>>)
      BY <2>2 DEF Grow
    <3> HIDE DEF d
    <3>5. /\ m = [msg EXCEPT !.content_length = Wrap(Grown(16, d))]
          /\ b = [body EXCEPT !.wrapped = @ \/ Grown(16, d) \notin Low..High]
      OBVIOUS
    <3> HIDE DEF m, b
    <3>3. /\ m \in Message /\ m.flags = msg.flags /\ b \in BodyType /\ b.owed = body.owed
          /\ (~body.wrapped => msg.content_length >= 0) => (~b.wrapped => m.content_length >= 0)
      BY <3>1, <3>5, GrowFacts
    <3>4. "chunk_size" \in Sized
      BY DEF Sized
    <3> QED
      BY <1>2, <1>6, <2>1, <3>2, <3>3, <3>4
  <2>3. {"chunk_size_almost_done", "chunk_parameters"} \subseteq Sized
    BY DEF Sized
  <2> QED
    BY <1>3, <1>7, <1>10, <2>1, <2>2, <2>3 DEF ChunkSize
<1>11. CASE ChunkParameters(ch)
  <2>1. /\ local.state \in Sized
        /\ (IF ch = "CR" THEN "chunk_size_almost_done" ELSE "chunk_parameters") \in Sized
    BY <1>11, SoundIn DEF ChunkParameters, Sized
  <2> QED
    BY <1>7, <1>11, <2>1 DEF ChunkParameters
<1>12. CASE ChunkSizeAlmostDone(ch)
  <2> DEFINE last == msg.content_length = 0
             s == IF last THEN "header_field_start" ELSE "chunk_data"
             f == msg.flags \cup (IF last THEN {"TRAILING"} ELSE {})
             m == [msg EXCEPT !.flags = f]
             b == [body EXCEPT !.owed = msg.content_length]
  <2>1. ASSUME Turn(Full(s, local.header_state, local.index, 0), m, marks, b, <<>>)
        PROVE  SoundInv'
    <3>1. f \in SUBSET Flags /\ "CHUNKED" \in f
      BY <1>2, Typed DEF Flags
    <3> HIDE DEF f
    <3>2. m \in Message /\ m.flags = f /\ m.content_length = msg.content_length
      <4>1. msg \in Message /\ f \in SUBSET Flags
        BY <3>1, Typed
      <4> QED
        BY <4>1, FlagsAssigned, Zenon
    <3>3. b \in BodyType /\ b.owed = msg.content_length /\ b.wrapped = body.wrapped
      BY Typed DEF BodyType
    <3>4. local.state \in Sized
      BY <1>12, SoundIn DEF ChunkSizeAlmostDone, Sized
    <3> HIDE DEF m, b
    <3>5. CASE last
      <4>1. s \in Plain /\ s \in States
        BY <3>5, PlainStates DEF Plain
      <4>2. /\ Full(s, local.header_state, local.index, 0) \in Locals
            /\ Full(s, local.header_state, local.index, 0).state = s
        BY <4>1, Typed, LocalTyped
      <4>3. b.owed = 0
        BY <3>3, <3>5
      <4> HIDE DEF s
      <4> QED
        BY <1>1, <2>1, <3>2, <3>3, <4>1, <4>2, <4>3, Typed, PlainTurn
    <3>6. CASE ~last
      <4>1. s = "chunk_data" /\ s \in ChunkStates /\ s \notin Sized
        BY <3>6 DEF ChunkStates, Sized
      <4>2. ~b.wrapped => m.content_length > 0
        BY <1>2, <3>2, <3>3, <3>4, <3>6, Typed
      <4> HIDE DEF s
      <4> QED
        BY <1>1, <2>1, <3>1, <3>2, <3>3, <4>1, <4>2, ChunkTurn
    <3> QED
      BY <3>5, <3>6
  <2>2. \/ Error(<<>>)
        \/ Turn(Full(s, local.header_state, local.index, 0), m, marks, b, <<>>)
    BY <1>12, Zenon DEF ChunkSizeAlmostDone
  <2> QED
    BY <1>3, <2>1, <2>2
<1> QED
  BY <1>9, <1>10, <1>11, <1>12

(* The bytes of a chunk.                                                   *)
LEMMA ChunkDataSound ==
  ASSUME SoundInv, ChunkData
  PROVE  SoundInv'
<1>1. Running /\ local.state = "chunk_data" /\ local.state \in Passing /\ local.state \in ChunkStates
  BY SoundIn DEF ChunkData, Passing, ChunkStates
<1>2. ASSUME NEW n \in 1..msg.content_length,
             Pass(n, IF n = msg.content_length THEN "chunk_data_almost_done" ELSE "chunk_data", FALSE)
      PROVE  SoundInv'
  <2>1. {"chunk_data_almost_done", "chunk_data"} \subseteq States /\ n \in Int
    BY SpecialStates DEF Special, ChunkStates
  <2>2. CASE n = msg.content_length
    BY <1>1, <1>2, <2>1, <2>2, PassSound
  <2>3. CASE n # msg.content_length
    <3>1. n < msg.content_length
      BY <2>3, Typed
    <3> QED
      BY <1>1, <1>2, <2>1, <2>3, <3>1, PassSound
  <2> QED
    BY <2>2, <2>3
<1>3. ASSUME Turn(Now("chunk_data_almost_done"), [msg EXCEPT !.content_length = 0], marks,
                  [body EXCEPT !.owed = 0], <<>>)
      PROVE  SoundInv'
  <2> DEFINE s == "chunk_data_almost_done"
             m == [msg EXCEPT !.content_length = 0]
             b == [body EXCEPT !.owed = 0]
  <2>1. m \in Message /\ m.flags = msg.flags
    <3>1. msg \in Message /\ 0 \in Int
      BY Typed
    <3> QED
      BY <3>1 DEF Message
  <2>2. b \in BodyType /\ b.owed = 0
    BY Typed DEF BodyType
  <2>3. s \in ChunkStates /\ s # "chunk_data" /\ s \notin Sized
    BY DEF ChunkStates, Sized
  <2>4. Counted = 0
    BY <1>1, ChunkFacts DEF Counted, Counting, Rested
  <2>5. Turn(Full(s, local.header_state, local.index, 0), m, marks, b, <<>>)
    BY <1>3, <2>4 DEF Now
  <2>6. "CHUNKED" \in m.flags
    BY <1>1, <2>1, ChunkFacts
  <2> HIDE DEF s, m, b
  <2> QED
    BY <1>1, <2>1, <2>2, <2>3, <2>5, <2>6, ChunkTurn
<1> QED
  BY <1>2, <1>3 DEF ChunkData

(* States that take one byte and no other.                                 *)
LEMMA StrictSound ==
  ASSUME SoundInv, NEW ch, Strict(ch)
  PROVE  SoundInv'
<1>1. Running /\ local.state \in DOMAIN Wants
  BY SoundIn DEF Strict
<1>2. local.state \notin Passing
  BY <1>1 DEF Wants, Passing
<1>3. CASE Error(<<>>)
  BY <1>3, FailedSound
<1>4. CASE Go(Then[local.state])
  <2>1. CASE local.state \in {"chunk_data_almost_done", "chunk_data_done"}
    <3>1. /\ local.state \in ChunkStates /\ local.state \in Rested /\ local.state # "chunk_data"
          /\ local.state \notin Counting
      BY <2>1 DEF ChunkStates, Rested, Counting
    <3>2. "CHUNKED" \in msg.flags /\ body.owed = 0 /\ local.nread = 0
      BY <1>1, <3>1, ChunkFacts
    <3>3. Counted = 0
      BY <3>1, <3>2 DEF Counted
    <3>4. /\ Then[local.state] \in {"chunk_data_done", "chunk_size_start"}
          /\ Then[local.state] \in ChunkStates /\ Then[local.state] # "chunk_data"
          /\ Then[local.state] \notin Sized
      BY <2>1 DEF Then, ChunkStates, Sized
    <3>5. Turn(Full(Then[local.state], local.header_state, local.index, 0), msg, marks, body, <<>>)
      BY <1>4, <3>3 DEF Go, Quiet, Now
    <3> QED
      BY <1>1, <3>1, <3>2, <3>4, <3>5, Typed, ChunkTurn
  <2>2. CASE local.state \notin {"chunk_data_almost_done", "chunk_data_done"}
    <3>1. Then[local.state] \in
            {"res_HT", "res_HTT", "res_HTTP", "res_first_http_major", "req_http_HT", "req_http_HTT",
             "req_http_HTTP", "req_first_http_major", "req_schema_slash_slash", "req_host",
             "header_field_start"}
      BY <1>1, <2>2 DEF Wants, Then
    <3>2. Then[local.state] \in Plain
      BY <3>1 DEF Plain, Special, States, ReqLine, ResLine, UrlStates, FieldStates, ChunkStates
    <3> QED
      BY <1>1, <1>2, <1>4, <3>2, GoPlain
  <2> QED
    BY <2>1, <2>2
<1> QED
  BY <1>3, <1>4 DEF Strict

(* A call starts and ends with what it finds.                              *)
LEMMA CallSound ==
  ASSUME HttpInv, SoundInv, Execute \/ Return \/ Eof
  PROVE  SoundInv'
<1>1. ASSUME NEW c, Error(c) \/ CallbackFails(c) PROVE SoundInv'
  BY <1>1, FailedSound
<1>2. CASE Execute
  <2>1. /\ at = "idle" /\ ~failed /\ at' = "start" /\ local' = saved
        /\ marks' = MarksOf(saved.state) /\ UNCHANGED <<saved, msg, failed, body>>
    BY <1>2 DEF Execute
  <2>2. local' = local
    BY <2>1 DEF HttpInv, CutsDontMatter
  <2>3. marks' \in SUBSET Marks
    BY <2>1 DEF MarksOf, Marks
  <2> QED
    BY <2>1, <2>2, <2>3
    DEF SoundInv, TypeOK, Marks, Sound, HeaderSound, ChunkSound, MethodSound, BodySound
<1>3. CASE Return
  <2>1. ASSUME saved' = local, marks' = {}, at' = "idle", UNCHANGED <<local, msg, failed, body>>
        PROVE  SoundInv'
    BY <2>1 DEF SoundInv, TypeOK, Sound, HeaderSound, ChunkSound, MethodSound, BodySound
  <2> QED
    BY <1>1, <1>3, <2>1 DEF Return
<1>4. CASE Eof
  <2>1. ASSUME at' = "ended", UNCHANGED <<saved, local, marks, msg, failed, body>>
        PROVE  SoundInv'
    BY <2>1 DEF SoundInv, TypeOK, Sound, HeaderSound, ChunkSound, MethodSound, BodySound
  <2> QED
    BY <1>1, <1>4, <2>1 DEF Eof
<1> QED
  BY <1>2, <1>3, <1>4

(* A parser begins sound.                                                  *)
LEMMA StartingSound ==
  ASSUME Init PROVE SoundInv
<1>1. PICK t \in Types :
        /\ saved = [state |-> StartOf(t), header_state |-> "h_general", index |-> 0, nread |-> 0]
        /\ msg = [flags |-> {}, content_length |-> -1, type |-> t, method |-> "GET",
                  major |-> FALSE, minor |-> FALSE, upgrade |-> FALSE]
  BY DEF Init
<1>2. StartOf(t) \in Plain /\ StartOf(t) \in States
  BY PlainStates DEF StartOf, Plain
<1>3. saved \in Locals /\ saved.state \in Plain
  BY <1>1, <1>2, HeaderNames DEF Locals, Many
<1>4. msg \in Message
  BY <1>1, ParserAssumption DEF ParserAssumption, Message, Methods
<1>5. local = saved /\ marks = {} /\ failed = FALSE /\ at = "idle"
      /\ body = [owed |-> 0, wrapped |-> FALSE]
  BY DEF Init
<1>6. body.owed = 0
  BY <1>5
<1>7. TypeOK
  <2>1. body \in [owed : Int, wrapped : BOOLEAN]
    BY <1>5
  <2> QED
    BY <1>3, <1>4, <1>5, <2>1 DEF TypeOK
<1>8. Sound(local, msg, body)
  BY <1>3, <1>5, <1>6, PlainSound
<1> QED
  BY <1>7, <1>8 DEF SoundInv

(* Every step keeps the parser sound.                                      *)
LEMMA StepSound ==
  ASSUME HttpInv, SoundInv, [Next]_vars
  PROVE  SoundInv'
<1>1. CASE UNCHANGED vars
  BY <1>1 DEF vars, SoundInv, TypeOK, Sound, HeaderSound, ChunkSound, MethodSound, BodySound
<1>2. CASE HeaderOverflow \/ Dead
  BY <1>2, FailedSound DEF HeaderOverflow, Dead
<1>3. ASSUME NEW ch, Loop(ch) PROVE SoundInv'
  BY <1>3, StrictSound, StartsSound, MethodSoundStep, UrlSound, VersionSound, NameSound,
     ValueBeginsSound, ValueSound, LineEndsSound, HeadersSound, ChunkSizeSound DEF Loop
<1> QED
  BY <1>1, <1>2, <1>3, CallSound, BodySoundStep, ChunkDataSound DEF Next

(* A parser that has not failed is sound in every behaviour.               *)
LEMMA SoundHolds == Spec => []SoundInv
<1>1. Init => SoundInv
  BY StartingSound
<1>2. HttpInv /\ SoundInv /\ [Next]_vars => SoundInv'
  BY StepSound
<1> QED
  BY <1>1, <1>2, InvHolds, PTL DEF Spec

(* The asserts of http_parser_execute hold, and no method's name is read   *)
(* past its end.                                                           *)
THEOREM ParserAssertsHold == Spec => []AssertsHold
<1>1. SoundInv => AssertsHold
  BY DEF SoundInv, AssertsHold, Sound, HeaderSound, ChunkSound, MethodSound, Rested, NameHeaders
<1> QED
  BY <1>1, SoundHolds, PTL

(* on_body gets the bytes that a length or the size of a chunk announced,  *)
(* no more and no less, unless the number did not fit.                     *)
THEOREM BodiesAreExact == Spec => []BodyExact
<1>1. SoundInv => BodyExact
  BY DEF SoundInv, BodyExact, Sound, BodySound, Passing
<1> QED
  BY <1>1, SoundHolds, PTL
=============================================================================
