------------------------------- MODULE DnsApi --------------------------------
(***************************************************************************)
(* The functions of the client of the DNS service (ployz-internal-dns) and *)
(* of its use by the cluster service (machine-cluster/src/dns.rs): URLs as *)
(* sequences of characters, JSON objects as sequences of their fields with *)
(* Unset for null, keys in lower case; redirects and answers as records.   *)
(***************************************************************************)
EXTENDS Integers, FiniteSets, FiniteSetsExt, SequencesExt, Results

-----------------------------------------------------------------------------
\* CompatibleUrl: the position of the first of chars at or after from, or one
\* past the end.
UrlFind(url, chars, from) == Min({i \in from..Len(url) : url[i] \in chars} \cup {Len(url) + 1})
UrlFindLast(url, c) == Max({i \in DOMAIN url : url[i] = c} \cup {0})
UrlHead(url, at) == SubSeq(url, 1, at - 1)
UrlTail(url, at) == SubSeq(url, at + 1, Len(url))

\* The first "://", or 0.
SchemeEnd(url) ==
    Max({0} \cup {i \in 1..Len(url) - 2 :
        /\ SubSeq(url, i, i + 2) = <<":", "/", "/">>
        /\ \A j \in 1..i - 1 : SubSeq(url, j, j + 2) # <<":", "/", "/">>})

UrlParts(value) ==
    LET hash == UrlFind(value, {"#"}, 1)
        before == UrlHead(value, hash)
        mark == UrlFind(before, {"?"}, 1)
    IN [core |-> UrlHead(before, mark),
        query |-> IF mark > Len(before) THEN Unset ELSE [text |-> UrlTail(before, mark)],
        fragment |-> IF hash > Len(value) THEN Unset ELSE [text |-> UrlTail(value, hash)]]

UrlAssemble(parts) ==
    parts.core
    \o (IF parts.query = Unset THEN <<>> ELSE <<"?">> \o parts.query.text)
    \o (IF parts.fragment = Unset THEN <<>> ELSE <<"#">> \o parts.fragment.text)

UrlDigits == {"0", "2", "4"}
HexDigits == UrlDigits \cup {"a"}
PercentIsValid(value) ==
    \A i \in DOMAIN value : value[i] = "%" => i + 2 <= Len(value) /\ value[i + 1] \in HexDigits /\ value[i + 2] \in HexDigits

\* The space stands for every character that is escaped.
UrlEscape(value) ==
    FlattenSeq([i \in DOMAIN value |-> IF value[i] = " " THEN <<"%", "2", "0">> ELSE <<value[i]>>])

\* Where the authority starts and the position after it.
AuthorityFrom(url) == SchemeEnd(url) + 3
AuthorityTo(url, ends) == UrlFind(url, ends, AuthorityFrom(url))
Authority(url, ends) == SubSeq(url, AuthorityFrom(url), AuthorityTo(url, ends) - 1)
AfterUser(authority) == UrlTail(authority, UrlFindLast(authority, "@"))

HostIsValid(core) ==
    SchemeEnd(core) = 0 \/ "%" \notin ToSet(AfterUser(Authority(core, {"/"})))

PartsAreValid(parts) ==
    /\ PercentIsValid(parts.core)
    /\ parts.fragment # Unset => PercentIsValid(parts.fragment.text)
    /\ HostIsValid(parts.core)

UrlWithoutEmptyPort(url) ==
    LET end == AuthorityTo(url, {"/", "?", "#"})
    IN IF SchemeEnd(url) # 0 /\ Authority(url, {"/", "?", "#"}) # <<>> /\ url[end - 1] = ":" THEN RemoveAt(url, end - 1) ELSE url

EscapeForGo(raw) ==
    LET colon == UrlFind(raw, {":"}, 1)
        parts == UrlParts(raw)
        path == IF SchemeEnd(parts.core) = 0 THEN Len(parts.core) + 1 ELSE UrlFind(parts.core, {"/"}, AuthorityFrom(parts.core))
    IN IF \/ colon > Len(raw) \/ colon = 1
          \/ ~PartsAreValid(parts)
       THEN Failure("InvalidUrl")
       ELSE [full |-> UrlWithoutEmptyPort(UrlAssemble(
            [core |-> UrlHead(parts.core, path) \o UrlEscape(SubSeq(parts.core, path, Len(parts.core))),
             query |-> parts.query,
             fragment |-> IF parts.fragment = Unset THEN Unset ELSE [text |-> UrlEscape(parts.fragment.text)]]))]

\* Iri::parse: no space, no second "@" and a number after the host's colon.
IriAccepts(core) ==
    LET authority == Authority(core, {"/"})
        host == AfterUser(authority)
        colon == UrlFind(host, {":"}, 1)
    IN /\ " " \notin ToSet(core)
       /\ Cardinality({i \in DOMAIN authority : authority[i] = "@"}) <= 1
       /\ ToSet(UrlTail(host, colon)) \subseteq UrlDigits

UrlParse(raw) ==
    LET escaped == EscapeForGo(raw)
    IN IF IsFailure(escaped) \/ IriAccepts(UrlParts(escaped.full).core) THEN escaped ELSE Failure("InvalidUrl")

RequestUri(full) ==
    LET plain == UrlHead(full, UrlFind(full, {"#"}, 1))
        host == AfterUser(Authority(plain, {"/", "?"}))
    IN IF SchemeEnd(plain) = 0 \/ host = <<>>
       THEN Failure("InvalidUrl")
       ELSE [full |-> UrlHead(plain, AuthorityFrom(plain)) \o host \o SubSeq(plain, AuthorityTo(plain, {"/", "?"}), Len(plain))]

UrlHost(full) ==
    LET hostport == AfterUser(Authority(full, {"/", "?", "#"}))
        colon == UrlFindLast(hostport, ":")
    IN IF colon # 0 /\ ToSet(UrlTail(hostport, colon)) \subseteq UrlDigits THEN UrlHead(hostport, colon) ELSE hostport

UrlUserinfo(full) ==
    LET authority == Authority(full, {"/", "?", "#"})
        user == UrlHead(authority, UrlFindLast(authority, "@"))
        colon == UrlFind(user, {":"}, 1)
    IN IF UrlFindLast(authority, "@") = 0 THEN Unset ELSE [name |-> UrlHead(user, colon), password |-> UrlTail(user, colon)]

\* Mutant: the authority is taken to end at the path only.
WithoutUserinfoPath(full) ==
    UrlHead(full, AuthorityFrom(full)) \o AfterUser(Authority(full, {"/"})) \o SubSeq(full, AuthorityTo(full, {"/"}), Len(full))

WithoutUserinfo(full) ==
    LET ends == {"/", "?", "#"}
    IN UrlHead(full, AuthorityFrom(full)) \o AfterUser(Authority(full, ends)) \o SubSeq(full, AuthorityTo(full, ends), Len(full))

UrlReferer(full) == UrlHead(WithoutUserinfo(full), UrlFind(WithoutUserinfo(full), {"#"}, 1))

\* A reference without a core keeps the base's, and its query when it has none;
\* one with a core is absolute, and no path here has a dot segment.
UrlResolve(full, reference) ==
    LET base == UrlParts(full)
        given == UrlParts(reference)
        escaped == [given EXCEPT !.core = UrlEscape(@),
                                 !.fragment = IF @ = Unset THEN Unset ELSE [text |-> UrlEscape(@.text)]]
        resolved ==
            [core |-> IF given.core = <<>> THEN base.core ELSE escaped.core,
             query |-> IF given.core = <<>> /\ given.query = Unset THEN base.query ELSE given.query,
             fragment |-> IF given.core = <<>> /\ given.query = Unset /\ given.fragment = Unset
                          THEN base.fragment ELSE escaped.fragment]
    IN IF ~PartsAreValid(given) \/ IsFailure(UrlParse(UrlAssemble(resolved)))
       THEN Failure("InvalidRedirect")
       ELSE UrlParse(UrlAssemble(resolved))

\* Parsing settles, after a second pass when the port was empty twice; the URL
\* that is requested is the one the next request names as its referer, and goes
\* to the host the credentials are weighed against; an empty reference leads
\* back to the same place.
UrlIsSettled(raw) ==
    LET url == UrlParse(raw)
        again == UrlParse(url.full)
        uri == RequestUri(url.full)
    IN ~IsFailure(url) =>
        /\ ~IsFailure(again) /\ UrlParse(again.full) = again
        /\ UrlResolve(url.full, <<>>) = again
        /\ ~IsFailure(uri) =>
            /\ uri.full = UrlReferer(url.full)
            /\ UrlUserinfo(uri.full) = Unset
            /\ UrlHost(uri.full) = UrlHost(again.full)

-----------------------------------------------------------------------------
\* The visitors of the JSON objects (visit_map): null leaves a field as it is.
TakeField(out, pair) ==
    IF pair[1] \in DOMAIN out /\ pair[2] # Unset THEN [out EXCEPT ![pair[1]] = pair[2]] ELSE out

DecodeDomain(pairs) == FoldLeft(TakeField, [name |-> "", token |-> ""], pairs)

\* Mutant: null leaves the values too.
TakeRecordFieldKeeps(out, pair) == TakeField(out, pair)

\* A null under "values" empties them.
TakeRecordField(out, pair) ==
    IF pair[1] = "values" /\ pair[2] = Unset THEN [out EXCEPT !.values = {}] ELSE TakeField(out, pair)

DecodeRecord(pairs) == FoldLeft(TakeRecordField, [name |-> "", type |-> "", values |-> {}, fqdn |-> ""], pairs)

\* AuthErrorResponse: "data" holds the fields of another object.
TakeAuthField(out, pair) ==
    IF pair[1] = "data" /\ pair[2] # Unset THEN FoldLeft(TakeField, out, pair[2]) ELSE out
DecodeAuth(pairs) == FoldLeft(TakeAuthField, [nodomain |-> FALSE], pairs).nodomain

EncodeStoredDomain(domain) == <<<<"endpoint", domain.endpoint>>, <<"name", domain.name>>, <<"token", domain.token>>>>
DecodeStoredDomain(pairs) == FoldLeft(TakeField, [endpoint |-> "", name |-> "", token |-> ""], pairs)

\* Of the fields given twice the later one counts; for the values also a null.
FieldsAreLast(pairs) ==
    LET last(key, given(_)) == Max({i \in DOMAIN pairs : pairs[i][1] = key /\ given(pairs[i][2])} \cup {0})
        name == last("name", LAMBDA v : v # Unset)
        values == last("values", LAMBDA v : TRUE)
    IN /\ DecodeRecord(pairs).name = IF name = 0 THEN "" ELSE pairs[name][2]
       /\ DecodeRecord(pairs).values = IF values = 0 \/ pairs[values][2] = Unset THEN {} ELSE pairs[values][2]

\* A number the protocol does not define is written in digits.
RecordTypeNames == <<"UNSPECIFIED", "A", "AAAA">>
MapRecordRequest(record) ==
    [name |-> record.name, values |-> record.values,
     type |-> IF record.type \in 0..2 THEN RecordTypeNames[record.type + 1] ELSE "number"]

\* skip_serializing_if leaves out what is empty.
EncodeRecord(record) ==
    (IF record.name = "" THEN <<>> ELSE <<<<"name", record.name>>>>)
    \o (IF record.type = "" THEN <<>> ELSE <<<<"type", record.type>>>>)
    \o (IF record.values = {} THEN <<>> ELSE <<<<"values", record.values>>>>)

MapRecordResponse(record) ==
    [name |-> record.fqdn, values |-> record.values, type |-> IF record.type = "A" THEN 1 ELSE IF record.type = "AAAA" THEN 2 ELSE 0]

-----------------------------------------------------------------------------
Errors ==
    {"InvalidUrl", "Transport", "ReadResponse", "DecodeAuth", "AuthNoDomain", "AuthenticationFailed",
     "UnexpectedStatus", "DecodeResponse", "TooManyRedirects", "InvalidRedirect"}

\* A host is the sequence of its labels.
SameOrSubdomain(host, initial) == Len(host) >= Len(initial) /\ SubSeq(host, Len(host) - Len(initial) + 1, Len(host)) = initial
SensitiveHeaders == {"authorization"}

NewPost(url, body, token) ==
    [url |-> url, method |-> "POST", body |-> body,
     headers |-> {"content-type"} \cup (IF token = "" THEN {} ELSE {"authorization"})]

\* Mutant: the credentials go wherever the service points.
RedirectedTrusting(request, initial, status, location) ==
    LET get == status \in 301..303 /\ request.method = "POST"
    IN [url |-> location, method |-> IF get THEN "GET" ELSE request.method, body |-> request.body /\ ~get,
        headers |-> request.headers \ (IF get THEN {"content-type"} ELSE {})]

\* The next request of Client::follow.
Redirected(request, initial, status, location) ==
    LET get == status \in 301..303 /\ request.method = "POST"
        dropped == (IF get THEN {"content-type"} ELSE {})
                   \cup (IF SameOrSubdomain(location.host, initial) THEN {} ELSE SensitiveHeaders)
                   \cup {"referer"}
        referer == IF request.url.https /\ ~location.https THEN {} ELSE {"referer"}
    IN [url |-> location, method |-> IF get THEN "GET" ELSE request.method, body |-> request.body /\ ~get,
        headers |-> (request.headers \ dropped) \cup referer]

\* Client::decode; a body that is not an object of the expected shape is Unset.
DecodeAnswer(answer) ==
    IF answer.status = 401
    THEN IF answer.body = Unset THEN Failure("DecodeAuth")
         ELSE IF DecodeAuth(answer.body) THEN Failure("AuthNoDomain") ELSE Failure("AuthenticationFailed")
    ELSE IF answer.status \notin 200..300 THEN Failure("UnexpectedStatus")
    ELSE IF answer.body = Unset THEN Failure("DecodeResponse") ELSE [value |-> answer.body]
=============================================================================
