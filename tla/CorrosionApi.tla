---------------------------- MODULE CorrosionApi ----------------------------
(***************************************************************************)
(* The HTTP client of Corrosion: transactions, queries with their rows,    *)
(* the start of a subscription, and the requests under them with their     *)
(* redirects and retries. A response body is a sequence of pieces that     *)
(* arrive in chunks; an event is two pieces long, so that a chunk or the   *)
(* end of the body may split it.                                           *)
(***************************************************************************)
EXTENDS Results, Integers, Sequences, SequencesExt

CONSTANTS RedirectLimit,     \* requests of one call, redirects included (10)
          ProtocolAttempts   \* attempts of one request (8)

ClientErrorKind == {"Admin", "Http", "Json", "Protocol", "SubscriptionNotFound"}

(***************************************************************************)
(* ResponseReader and NdjsonDecoder.                                       *)
(***************************************************************************)
\* A body: the pieces still to come, at most size at a time, and whether the
\* transport fails after them.
Decoder(pieces, size, broken) == [rest |-> pieces, size |-> size, broken |-> broken, unread |-> <<>>, eof |-> FALSE]

\* An error of the transport is staged, and told once the data is read.
ReadBody(d) ==
    IF d.rest # <<>>
    THEN LET n == IF d.size < Len(d.rest) THEN d.size ELSE Len(d.rest)
         IN  [d EXCEPT !.unread = @ \o SubSeq(d.rest, 1, n), !.rest = SubSeq(@, n + 1, Len(@))]
    ELSE IF d.broken THEN Failure("Http") ELSE [d EXCEPT !.eof = TRUE]

\* The next event and the decoder after it; Unset at the end of the body.
RECURSIVE NextRaw(_)
NextRaw(d) ==
    IF Len(d.unread) >= 2
    THEN [event |-> d.unread[1].event, decoder |-> [d EXCEPT !.unread = SubSeq(@, 3, Len(@))]]
    ELSE IF d.eof THEN IF d.unread = <<>> THEN [event |-> Unset] ELSE Failure("Json")
    ELSE LET next == ReadBody(d) IN IF IsFailure(next) THEN next ELSE NextRaw(next)

(***************************************************************************)
(* parse_query_event: pairs of a key and a value, the last of a key wins.  *)
(***************************************************************************)
NoEvent == [columns |-> Unset, row |-> Unset, end |-> Unset, change |-> Unset, error1 |-> Unset]

\* An end-of-query event may come without a change id, or with null.
MergeEnd(end, value) ==
    [change_id |-> CASE value = "absent" -> (IF end = Unset THEN Unset ELSE end.change_id)
                     [] value = "null"   -> Unset
                     [] OTHER            -> value]

AddPair(event, pair) ==
    IF IsFailure(event) THEN event
    ELSE IF ~pair.valid THEN Failure("Json")
    ELSE CASE pair.key = "eoq"     -> [event EXCEPT !.end = IF pair.value = Unset THEN Unset ELSE MergeEnd(@, pair.value)]
           [] pair.key = "columns" -> [event EXCEPT !.columns = pair.value]
           [] pair.key = "row"     -> [event EXCEPT !.row = pair.value]
           [] pair.key = "change"  -> [event EXCEPT !.change = pair.value]
           [] pair.key = "error"   -> [event EXCEPT !.error1 = pair.value]
           [] OTHER                -> event

ParseQueryEvent(pairs) == FoldLeft(AddPair, NoEvent, pairs)

(***************************************************************************)
(* Rows.                                                                   *)
(***************************************************************************)
RowsNew(decoder, closeOnEnd) ==
    LET raw == NextRaw(decoder) IN
    IF IsFailure(raw) THEN raw
    ELSE IF raw.event = Unset THEN Failure("Protocol")
    ELSE LET event == ParseQueryEvent(raw.event) IN
         IF IsFailure(event) THEN event
         ELSE IF event.columns = Unset THEN Failure("Protocol")
         ELSE [columns |-> event.columns, decoder |-> raw.decoder, end |-> Unset,
               close_on_end |-> closeOnEnd, failed |-> FALSE]

\* Mutant: a row may have any number of values.
RightWidthAny(rows, row) == TRUE

RightWidth(rows, row) == row.width = rows.columns

\* Rows::next: the row, or Unset at the end, or an error; and the rows after it.
RowsNext(rows) ==
    LET fail(kind) == [got |-> Failure(kind), rows |-> [rows EXCEPT !.failed = TRUE, !.decoder = Unset]] IN
    IF rows.failed \/ rows.end # Unset \/ rows.decoder = Unset THEN [got |-> Unset, rows |-> rows]
    ELSE LET raw == NextRaw(rows.decoder) IN
         IF IsFailure(raw) THEN fail(raw.error)
         ELSE IF raw.event = Unset THEN fail("Protocol")
         ELSE LET event == ParseQueryEvent(raw.event) IN
              IF IsFailure(event) THEN fail(event.error)
              ELSE IF event.error1 # Unset THEN fail("Protocol")
              ELSE IF event.row # Unset
                   THEN IF RightWidth(rows, event.row)
                        THEN [got |-> event.row, rows |-> [rows EXCEPT !.decoder = raw.decoder]]
                        ELSE fail("Protocol")
              ELSE IF event.end # Unset
                   THEN [got |-> Unset,
                         rows |-> [rows EXCEPT !.end = event.end,
                                               !.decoder = IF rows.close_on_end THEN Unset ELSE raw.decoder]]
              ELSE fail("Protocol")

\* Rows::time is there once the rows are read to their end.
TimeKnown(rows) == rows.end # Unset

\* What a caller gets that reads to the first end or error.
RECURSIVE ReadRows(_, _)
ReadRows(rows, taken1) ==
    LET next == RowsNext(rows) IN
    IF next.got = Unset THEN [rows |-> taken1, outcome |-> "end", state |-> next.rows]
    ELSE IF IsFailure(next.got) THEN [rows |-> taken1, outcome |-> next.got.error, state |-> next.rows]
    ELSE ReadRows(next.rows, Append(taken1, next.got))

QueryRows(status1, decoder, closeOnEnd) ==
    LET rows == RowsNew(decoder, closeOnEnd) IN
    IF status1 # 200 THEN [rows |-> <<>>, outcome |-> "Http", state |-> Unset]
    ELSE IF IsFailure(rows) THEN [rows |-> <<>>, outcome |-> "Protocol", state |-> Unset]
    ELSE ReadRows(rows, <<>>)

\* Subscription::into_changes, after the rows were read: the id to go on from.
IntoChanges(rows) ==
    IF rows.end = Unset \/ rows.end.change_id = Unset \/ rows.decoder = Unset THEN Failure("Protocol")
    ELSE [last_change_id |-> rows.end.change_id, decoder |-> rows.decoder]

(***************************************************************************)
(* exec_multi and exec.                                                    *)
(***************************************************************************)
\* Mutant: only the first result is looked at for an error.
StatementErrorsFirst(results) == results # <<>> /\ results[1] = "error"

StatementErrors(results) == \E i \in 1..Len(results) : results[i] = "error"

\* results is Unset when the body is no response.
ExecMulti(status1, results) ==
    CASE status1 = 200 /\ results = Unset -> Failure("Json")
      [] status1 = 200 /\ results # Unset -> IF StatementErrors(results) THEN Failure("Protocol") ELSE [results |-> results]
      [] status1 = 500 -> Failure(IF results # Unset /\ results # <<>> /\ results[1] = "error" THEN "Protocol" ELSE "Http")
      [] OTHER -> Failure("Http")

Exec1(status1, results) ==
    LET response == ExecMulti(status1, results) IN
    IF IsFailure(response) THEN response
    ELSE IF response.results = <<>> THEN Failure("Protocol") ELSE [result |-> response.results[1]]

(***************************************************************************)
(* Transport::request. What the server does is a sequence of answers.      *)
(***************************************************************************)
Redirects == {301, 302, 303, 307, 308}
IsRedirect(reply) == reply.status \in Redirects /\ reply.location \notin {"none", ""}

\* Mutant: every redirect of a POST keeps its body.
KeepsBodyAlways(method, code) == TRUE

KeepsBody(method, code) == code \in {307, 308} \/ method = "GET"

\* Mutant: one attempt too many.
RetryableOnceMore(attempts) == attempts <= ProtocolAttempts

\* request_with_protocol_retries: whether a refused request is sent again.
Retryable(attempts) == attempts < ProtocolAttempts

\* A call: the request it is about to send, which of the requests that redirects lead
\* to it is, which attempt at it, and what was tried before. A failed connect is tried
\* again from the first attempt; "late" comes when the backoff has given up.
NewCall(method) == [method |-> method, body |-> method = "POST", hop |-> 1, attempt |-> 1, log |-> <<>>, result |-> Unset]
FollowRedirect(c, status1) ==
    LET keep == KeepsBody(c.method, status1)
    IN [c EXCEPT !.method = IF keep THEN @ ELSE "GET", !.body = @ /\ keep, !.hop = @ + 1, !.attempt = 1]
TakeAnswer(call1, reply1) ==
    LET c == [call1 EXCEPT !.log = Append(@, [method |-> call1.method, body |-> call1.body, hop |-> call1.hop, reply |-> reply1])]
    IN CASE call1.result # Unset -> call1
         [] call1.result = Unset /\ reply1.fault = "connect" -> [c EXCEPT !.attempt = 1]
         [] call1.result = Unset /\ reply1.fault = "refused" ->
              IF Retryable(c.attempt) THEN [c EXCEPT !.attempt = @ + 1] ELSE [c EXCEPT !.result = Failure("Http")]
         [] call1.result = Unset /\ reply1.fault = "late" -> [c EXCEPT !.result = Failure("Http")]
         [] call1.result = Unset /\ reply1.fault = "none" ->
              IF ~IsRedirect(reply1) THEN [c EXCEPT !.result = reply1]
              ELSE IF c.hop = RedirectLimit \/ reply1.location = "bad" THEN [c EXCEPT !.result = Failure("Http")]
              ELSE FollowRedirect(c, reply1.status)

\* A call that has no result yet waits for the next answer.
Request1(answers, method) == FoldLeft(TakeAnswer, NewCall(method), answers)

(***************************************************************************)
(* resolve_uri and normalize_path. A URI is a scheme, an authority, the    *)
(* segments of its path and a query.                                       *)
(***************************************************************************)
\* Mutant: the dot segments stay.
NormalizePathNot(segments) == SelectSeq(segments, LAMBDA s : s # "")

NormalizePath(segments) ==
    LET Walk(path, segment) ==
            CASE segment \in {"", "."} -> path
              [] segment = ".." -> IF path = <<>> THEN path ELSE Front(path)
              [] OTHER -> Append(path, segment)
    IN  FoldLeft(Walk, <<>>, segments)

ResolveUri(base, ref) ==
    CASE ref.scheme # Unset -> IF ref.scheme \in {"http", "https"} THEN ref ELSE Failure("Http")
      [] ref.scheme = Unset /\ ref.authority # Unset -> [ref EXCEPT !.scheme = base.scheme]
      [] ref.scheme = Unset /\ ref.authority = Unset /\ ref.rooted ->
           [ref EXCEPT !.scheme = base.scheme, !.authority = base.authority]
      [] ref.scheme = Unset /\ ref.authority = Unset /\ ~ref.rooted ->
           [scheme |-> base.scheme, authority |-> base.authority, rooted |-> TRUE, query |-> ref.query,
            path |-> IF ref.path = <<>> /\ ref.query # Unset THEN base.path
                     ELSE NormalizePath((IF base.path = <<>> THEN <<>> ELSE Front(base.path)) \o ref.path)]

-----------------------------------------------------------------------------
\* A query's rows are all there when they end: whatever the chunks, the rows
\* that are read end exactly when the body holds the columns, rows of that
\* width and the end-of-query event, whole; a body that stops short, breaks
\* or holds anything else before the end is an error.
RowsAreWhole(events, cut, size, broken) ==
    LET pieces == SubSeq(FlattenSeq([i \in 1..Len(events) |->
                            <<[event |-> events[i]], [event |-> events[i]]>>]), 1, cut)
        got1 == QueryRows(200, Decoder(pieces, size, broken), FALSE)
        parsed == [i \in 1..(cut \div 2) |-> ParseQueryEvent(events[i])]
        IsRow(i) == ~IsFailure(parsed[i]) /\ parsed[i].error1 = Unset /\ parsed[i].row # Unset
        whole == {k \in 2..(cut \div 2) :
                    /\ ~IsFailure(parsed[1]) /\ parsed[1].columns # Unset
                    /\ ~IsFailure(parsed[k]) /\ parsed[k].error1 = Unset /\ parsed[k].row = Unset /\ parsed[k].end # Unset
                    /\ \A i \in 2..(k - 1) : IsRow(i) /\ parsed[i].row.width = parsed[1].columns}
    IN  /\ (got1.outcome = "end") = (whole # {})
        /\ \A k \in whole :
              /\ got1.rows = [i \in 1..(k - 2) |-> parsed[i + 1].row]
              /\ LET changes == IntoChanges(got1.state) IN
                 ~IsFailure(changes) => changes.last_change_id = parsed[k].end.change_id
              /\ TimeKnown(got1.state)

\* exec succeeds only if the server answered 200 and no statement of the
\* transaction failed, and then returns the first statement's result.
ExecTellsErrors(status1, results) ==
    LET got1 == Exec1(status1, results) IN
    ~IsFailure(got1) => status1 = 200 /\ got1.result = results[1] /\ \A i \in 1..Len(results) : results[i] = "ok"

\* Transport::request makes a bounded number of requests: those that redirects lead to,
\* and each of them at most ProtocolAttempts times in a row on a connection, all of
\* which are used before a refusal is the result. Nothing that was answered is sent
\* again, unless the answer was a 307 or 308; a GET has no body; and a redirect that
\* can be followed is not taken for the answer.
RequestIsBounded(answers) ==
    LET got1 == Request1(answers, "POST")
        log == got1.log
        SentInARow(i, j) == \A k \in i..j : log[k].hop = log[i].hop /\ log[k].reply.fault # "connect"
    IN
    /\ \A i \in 1..Len(log) :
          /\ log[i].hop <= RedirectLimit
          /\ log[i].body = (log[i].method = "POST")
          /\ \A j \in i..Len(log) : SentInARow(i, j) => j - i < ProtocolAttempts
    /\ \A i \in 2..Len(log) :
          log[i].body => log[i - 1].reply.fault \in {"connect", "refused"} \/ log[i - 1].reply.status \in {307, 308}
    /\ got1.result # Unset =>
          IF IsFailure(got1.result)
          THEN Last(log).reply.fault = "refused" =>
                \E i \in 1..Len(log) : Len(log) - i = ProtocolAttempts - 1 /\ SentInARow(i, Len(log))
          ELSE ~IsRedirect(got1.result)

\* A redirect leads to http or https only, and a relative one keeps the
\* authority and leaves no dot segment.
ResolvesSafely(base, ref) ==
    LET uri == ResolveUri(base, ref) IN
    ~IsFailure(uri) =>
        /\ uri.scheme \in {"http", "https"} /\ uri.authority # Unset
        /\ (ref.scheme = Unset /\ ref.authority = Unset) => uri.authority = base.authority
        /\ (ref.scheme = Unset /\ ref.authority = Unset /\ ~ref.rooted /\ ref.path # <<>>) =>
              \A i \in 1..Len(uri.path) : uri.path[i] \notin {"", ".", ".."}
=============================================================================
