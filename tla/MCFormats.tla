------------------------------ MODULE MCFormats ------------------------------
(***************************************************************************)
(* Inputs of the functions that read and write the formats of the machine, *)
(* for MCAlgorithms: a state holds one input of one function.              *)
(***************************************************************************)
EXTENDS MetricsEncoding, DnsApi, Accounts
VARIABLES subject, input
Pick(what, inputs) == subject' = what /\ input' \in inputs
Segments == {<<>>, Dot, Dot \o Dot, METRICS, <<37, 54, 68>> \o Tail(METRICS), <<37, 54>>, <<42>>}
PickPath == \E method \in {"GET", "OPTIONS", "CONNECT"} : Pick("path", {<<method, path>> : path \in SeqOf(Segments, 4) \ {<<>>}})
DrainPolicies == {[limit |-> 4, rejects_exact_limit |-> TRUE], [limit |-> 2, rejects_exact_limit |-> FALSE]}
PickBody ==
    \E policy1 \in DrainPolicies, frames \in SeqOf({-1, 0, 1, 3}, 3) :
        Pick("body", {<<policy1, length, frames>> :
            length \in {Unset} \cup (IF -1 \in ToSet(frames) THEN 1..6 ELSE {FoldLeft(LAMBDA x, y : x + y, 0, frames)})})

AcceptClause(kind, subtype, quality) == [kind |-> kind, subtype |-> subtype, quality |-> quality, params |-> <<>>]
\* Short lists of every pattern, the wild ones with wildcards or NaN, and long ones
\* that are nearly in order.
PickClauses ==
    \/ \E n \in {2, 3, 8, 12, 13, 14, 15, 16, 20}, step \in {1, 2, 3, 5, 7}, square \in 0..2, modulus \in {2, 5, 11, 101}, wild \in {0, 3, 4, 5} :
        Pick("clauses", {[i \in 1..n |->
            LET star == wild \in {3, 4} /\ i % wild = 0
                pattern == (step * i + square * i * i) % modulus
            IN AcceptClause(IF star /\ i % 2 = 0 THEN "*" ELSE "text", IF star THEN "*" ELSE "plain",
                      IF wild = 5 /\ i % 3 = 1 THEN NaN ELSE IF turn THEN 200 - pattern ELSE pattern)] : turn \in BOOLEAN})
    \/ \E n \in {50, 51}, at \in {2, 25, 48}, to \in {0, 30, 49, 99}, other \in {1, 10, 26, 49} :
        Pick("clauses", {[i \in 1..n |-> AcceptClause("text", "plain",
            LET q == IF i = at THEN to ELSE IF i = other THEN 40 ELSE i IN IF turn THEN 100 - q ELSE q)] : turn \in BOOLEAN})
Q(quality) == <<"q", [parses |-> TRUE, quality |-> quality]>>
RawClauses ==
    [media : {<<"text", "plain">>, <<"*">>, <<"application", "vnd.google.protobuf">>, <<"text", "plain", "x">>},
     parts : {<<>>, <<Q(5)>>, <<Q(NaN)>>, <<<<"q", [parses |-> FALSE]>>, <<"version", "0.0.4">>>>,
              <<<<"proto", "MetricFamily">>, <<"encoding", "text">>>>,
              <<Q(3), <<"proto", "MetricFamily">>, <<"encoding", "delimited">>>>}]
PickAccept == Pick("accept", SeqOf(RawClauses, 3))
PickGzip == Pick("gzip", {<<a, b>> : a \in SeqOf({"gzip", "identity", ",", "*"}, 3),
     b \in {<<x, ";", "q=", q>> \o y : x \in {"gzip", "*", "identity"}, q \in {"0", "0.5", "1", "1.5", "x"}, y \in {<<>>, <<",", "gzip">>, <<",", "identity", ";", "q=", "0.5">>}}})
MetricNames == SeqOf({97, 95, 46, 50, 45}, 3) \cup {<<95, 50, 101, 95>>}
PickMetricNames == \E name \in MetricNames : Pick("metric names", {<<name, other>> : other \in MetricNames})
SampleNames == {<<97>>, <<46>>, <<46, 34>>, <<97, 44, 97>>}
LabelPairs == [name : {<<97>>, <<46>>}, value : {<<10>>, <<92, 110>>, <<34, 44, 97>>, <<1>>}]
SamplesOf == [name : SampleNames, labels : SeqOf(LabelPairs, 2)]
PickMetricSamples == \E sample \in SamplesOf : Pick("metric samples", {<<sample, other>> : other \in SamplesOf})
MetricsOf == [unknown : BOOLEAN, other : {FALSE}, labels : {<<>>, <<[name |-> <<46>>, value |-> <<10>>]>>},
     counter : {Unset} \cup [value : {"finite", "nan"}, created : {<<>>, <<"time">>, <<"garbage">>, <<"time", "time">>}],
     gauge : {Unset, "finite", "nan"}]
PickFamilies ==
    \E name \in {<<>>, <<97>>, <<46, 97>>}, kind \in {"COUNTER", "GAUGE", "SUMMARY"}, format \in {"plain", "delimited", "text"}, escaping \in {"allow-utf-8", "dots"} :
        Pick("families", {<<<<[unknown |-> FALSE, name |-> name, help |-> <<>>, kind |-> kind, metrics |-> metrics]>>, format, escaping>> : metrics \in SeqOf(MetricsOf, 1)})
PickMetrics ==
    PickPath \/ PickBody \/ PickClauses \/ PickAccept \/ PickGzip \/ PickMetricNames \/ PickMetricSamples \/ PickFamilies

-----------------------------------------------------------------------------
PickUrl ==
    \E authority \in SeqOf({"a", "@", ":", "4"}, 4) :
        Pick("url", {<<"s", ":", "/", "/">> \o authority \o path \o rest :
            path \in {<<>>, <<"/">>, <<"/", " ">>, <<"/", "@">>, <<"/", ":">>, <<"/", "%", "4">>, <<"/", "%", "4", "a">>},
            rest \in {<<>>, <<"?">>, <<"#">>, <<"?", "@">>, <<"#", "@", " ">>, <<"?", "/", "#", "?">>, <<"?", " ", "@", "#", "%">>}})
PickFields ==
    Pick("fields", SeqOf({<<"name", "n">>, <<"name", "m">>, <<"name", Unset>>, <<"values", Unset>>, <<"values", {"v"}>>, <<"token", "t">>, <<"other", Unset>>}, 4))

VersionTexts ==
    LET cores == {<<1>>, <<LetterV, 0, DOT, 2, 0>>, <<0, DOT, 2, 0, DOT, 0>>, <<0, DOT, 1, 9, DOT, 9, 9>>, <<1, 0, 0>>, <<0, DOT, DOT, 2>>, <<0, DOT, 0, DOT, 0, DOT, 0>>}
        tails == {<<>>, <<DASH>>, <<DASH, 1>>, <<DASH, 0, 1>>, <<DASH, 2>>, <<DASH, 1, 0>>, <<DASH, 1, 0, 0>>, <<DASH, LetterA>>, <<DASH, LetterA, DOT, 1>>, <<DASH, LetterA, DOT, LetterA>>,
                  <<DASH, 0, LetterA>>, <<DASH, DASH, 1>>, <<PLUS, 1>>, <<PLUS>>, <<DASH, 1, PLUS, LetterA, DASH>>, <<PLUS, 1, PLUS, 2>>}
    IN {core \o tail : core \in cores, tail \in tails}
VersionsOne == {t \in VersionTexts : SubSeq(t, 1, 1) = <<1>>}
PickVersions ==
    \/ \E left \in VersionTexts : Pick("versions", {<<left, right>> : right \in VersionTexts})
    \/ \E left \in VersionsOne, middle \in VersionsOne : Pick("transitive", {<<left, middle, right>> : right \in VersionsOne})
    \/ \E client \in VersionTexts : Pick("call", {<<client, server, inner>> : server \in VersionTexts, inner \in {<<>>, <<<<0, DOT, 1, 9>>>>}})

\* A user's line, or a group's.
UserLine(name, uid) == name \o <<COLON, LetterV, COLON>> \o uid \o <<COLON, 7, COLON, LetterA, COMMA, COLON, LetterV, COLON, LetterA>>
AccountLines ==
    {UserLine(<<LetterA>>, <<1>>), UserLine(<<LetterA>>, <<2>>), UserLine(<<LetterV>>, <<1>>), UserLine(<<PLUS, LetterA>>, <<1>>), UserLine(<<HASH>>, <<1>>),
     UserLine(<<LetterA>>, <<LetterA>>), <<>>, <<SPACE>>, <<SPACE>> \o UserLine(<<LetterA>>, <<DASH, 3>>),
     <<LetterA, COLON, LetterV, COLON, 5, COLON, 7>>, <<LetterV, COLON, LetterV, COLON, 6, COLON>>}
AccountQueries == {ByName(<<LetterA>>), ById(<<1>>), ByGroup(<<LetterA>>), ByGroup(<<LetterV>>)}
PickAccountFile ==
    \E lines \in SeqOf(AccountLines, 1), ended \in AccountLines : Pick("account file", {<<lines, ended, size, query>> : size \in {1, 5, 99}, query \in AccountQueries})
PasswdFiles == {Unset, <<>>} \cup {InPieces(line, 5) : line \in AccountLines \ {<<>>}}
PickCurrentUser ==
    \E uid \in {<<1>>, <<DASH, 3>>, <<DASH, 1, 0, 0>>}, user \in {<<>>, <<LetterV>>} :
        Pick("current user", {<<before, after, uid, [gid |-> <<7>>, user |-> user, home |-> <<LetterV>>]>> : before \in PasswdFiles, after \in PasswdFiles})
PickNative == Pick("native", {<<sysconf, needed, status>> : sysconf \in {-1, 0, 1, 3, 1024, 600000, 1048576, 2000000},
                     needed \in {1, 700, 524288, 524289, 600001, 1048576, 1048577}, status \in {"found", "missing", "ENOENT", "EIO"}})
PickChown == Pick("chown", {<<username, user, group, found, outcomes>> :
     username \in {<<>>, <<LetterA>>}, group \in {<<>>, <<LetterA>>},
     user \in {Failure("Io"), [uid |-> <<1>>], [uid |-> <<DASH, 1>>]}, found \in {Failure("Io"), [gid |-> <<9, 9>>]},
     outcomes \in {<<"ok">>, <<"error">>, <<"interrupted", "interrupted", "ok">>, <<"interrupted", "error">>}})
PickAccounts == PickAccountFile \/ PickCurrentUser \/ PickNative \/ PickChown

-----------------------------------------------------------------------------
\* A request to the metrics endpoint is redirected at most once, leaves nothing of
\* its body on a connection that is reused, and gets the format it asks for. What
\* is written can be told apart again and is complete, and a counter has its
\* creation time.
ScrapesAreRight ==
    [][/\ subject' = "path" => RedirectsOnce(input'[1], input'[2])
       /\ subject' = "body" => BodyIsDrained(input'[1], input'[2], input'[3])
       /\ subject' = "clauses" => SortsClauses(input')
       /\ subject' = "accept" => NegotiatesBest(input')
       /\ subject' = "gzip" => GzipIsPreferred(input')
       /\ subject' = "metric names" => EscapesNames(input'[1], input'[2])
       /\ subject' = "metric samples" => SamplesAreDistinct(input'[1], input'[2])
       /\ subject' = "families" => EncodesWhole(input'[1], input'[2], input'[3])
       /\ CollectedAreDated']_<<subject, input, counterVars>>

\* EmulatedUrl settles on one way to write a URL and drops its userinfo for
\* the Referer; a JSON member that is repeated is the one that counts. A client
\* and a frontend decide alike whether their versions go together. A user or a
\* group is found whatever pieces its file is read in, and chown touches a file
\* only with both ids known.
InputsAreRead ==
    [][/\ subject' = "url" => UrlIsSettled(input')
       /\ subject' = "fields" => FieldsAreLast(input')
       /\ subject' = "versions" => VersionsAreOrdered(input'[1], input'[2])
       /\ subject' = "transitive" => VersionsAreTransitive(input'[1], input'[2], input'[3])
       /\ subject' = "call" => CallIsAgreed(input'[1], input'[2], input'[3])
       /\ subject' = "account file" => ReadsAnyPieces(input'[1], input'[2], input'[3], input'[4])
       /\ subject' = "current user" => CurrentUserStays(input'[1], input'[2], input'[3], input'[4])
       /\ subject' = "native" => NativeFinds(input'[1], input'[2], input'[3])
       /\ subject' = "chown" => ChownIsWhole(input'[1], input'[2], input'[3], input'[4], input'[5])]_<<subject, input>>
=============================================================================
