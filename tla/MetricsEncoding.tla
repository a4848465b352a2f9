--------------------------- MODULE MetricsEncoding ---------------------------
(***************************************************************************)
(* What the metrics endpoint makes of a request: its route, whether the    *)
(* connection survives the body, the format it negotiates (with the port   *)
(* of Go's pdqsort that orders the clauses of Accept), and how the metric  *)
(* families are validated, escaped and written. An index out of range, a   *)
(* panic of the program, is an error of evaluation here.                   *)
(***************************************************************************)
EXTENDS Integers, FiniteSets, SequencesExt, Bitwise, Results

-----------------------------------------------------------------------------
\* routing.rs. A path is what split('/') makes of it, a segment its bytes.
METRICS == <<109, 101, 116, 114, 105, 99, 115>>
Dot == <<46>>
Percent == 37

HexDigit(byte) ==
    IF byte \in 48..57 THEN byte - 48
    ELSE IF byte \in 97..102 THEN byte - 87
    ELSE IF byte \in 65..70 THEN byte - 55 ELSE Unset

RECURSIVE PercentDecode(_)
PercentDecode(bytes) ==
    IF bytes = <<>> THEN [bytes |-> <<>>]
    ELSE LET escape == bytes[1] = Percent
             valid == ~escape \/ (Len(bytes) >= 3 /\ HexDigit(bytes[2]) # Unset /\ HexDigit(bytes[3]) # Unset)
             rest1 == PercentDecode(SubSeq(bytes, IF escape THEN 4 ELSE 2, Len(bytes)))
             byte == IF escape THEN HexDigit(bytes[2]) * 16 + HexDigit(bytes[3]) ELSE bytes[1]
         IN IF ~valid THEN Failure("escape")
            ELSE IF IsFailure(rest1) THEN rest1 ELSE [bytes |-> <<byte>> \o rest1.bytes]

MatchesMetrics(path) ==
    /\ Len(path) = 2 /\ path[1] = <<>>
    /\ PercentDecode(path[2]) = [bytes |-> METRICS]

\* Mutant: a parent segment is kept like any other.
KeepSegmentDots(segments, segment) ==
    IF segment \in {<<>>, Dot} THEN segments ELSE Append(segments, segment)

KeepSegment(segments, segment) ==
    IF segment \in {<<>>, Dot} THEN segments
    ELSE IF segment = Dot \o Dot THEN (IF segments = <<>> THEN <<>> ELSE Front(segments))
    ELSE Append(segments, segment)
CleanPath(path) ==
    IF path = <<<<>>>> THEN <<<<>>, <<>>>>
    ELSE LET kept == FoldLeft(KeepSegment, <<>>, path)
         IN <<<<>>>> \o (IF kept = <<>> THEN <<<<>>>> ELSE kept)
            \o (IF Last(path) = <<>> /\ kept # <<>> THEN <<<<>>>> ELSE <<>>)

Star == <<<<42>>>>
RouteOf(method, path) ==
    IF method = "OPTIONS" /\ path = Star THEN [to |-> "options"]
    ELSE IF method # "CONNECT" /\ CleanPath(path) # path THEN [to |-> "redirect", location |-> CleanPath(path)]
    ELSE [to |-> IF MatchesMetrics(path) THEN "metrics" ELSE "not found"]

-----------------------------------------------------------------------------
\* drain_ignored_body: frames are lengths, or "broken", and length what the
\* request declares, Unset for a chunked body. The frames left are returned too: the
\* one that is broken or exceeds the limit has been taken.
RECURSIVE DrainFrames(_, _, _)
DrainFrames(frames, drained, limit) ==
    IF frames = <<>> THEN [ok |-> TRUE, left |-> <<>>]
    ELSE IF frames[1] = -1 \/ drained + frames[1] > limit THEN [ok |-> FALSE, left |-> Tail(frames)]
    ELSE DrainFrames(Tail(frames), drained + frames[1], limit)
\* Mutant: a connection is reused although its body was too long to read.
DrainIgnoredBodyUnread(policy1, length, frames) ==
    IF length # Unset /\ length > policy1.limit THEN [ok |-> TRUE, left |-> frames]
    ELSE DrainFrames(frames, 0, policy1.limit)

DrainIgnoredBody(policy1, length, frames) ==
    IF length # Unset /\ (length > policy1.limit \/ (length = policy1.limit /\ policy1.rejects_exact_limit))
    THEN [ok |-> FALSE, left |-> frames]
    ELSE DrainFrames(frames, 0, policy1.limit)

-----------------------------------------------------------------------------
\* A clause of Accept: the media type split at '/', the parameters split at '='.
\* A quality is in tenths, Unset if it is NaN.
Number(text) == IF text.parses THEN text.quality ELSE 0
ParseAcceptClause(raw) ==
    IF Len(raw.media) # 2 /\ raw.media # <<"*">> THEN Unset
    ELSE LET pairs == SelectSeq(raw.parts, LAMBDA part : Len(part) = 2)
             weights == SelectSeq(pairs, LAMBDA part : part[1] = "q")
         IN [kind |-> raw.media[1], subtype |-> Last(raw.media),
             quality |-> IF weights = <<>> THEN 10 ELSE Number(Last(weights)[2]),
             params |-> SelectSeq(pairs, LAMBDA part : part[1] # "q")]

NaN == Unset
AcceptPrecedes(left, right) ==
    \/ left.quality # NaN /\ right.quality # NaN /\ left.quality > right.quality
    \/ left.kind # "*" /\ right.kind = "*"
    \/ left.subtype # "*" /\ right.subtype = "*"

\* The slices of pdqsort are functions on 0..n-1.
Swapped(s, i, j) == [s EXCEPT ![i] = s[j], ![j] = s[i]]
\* s[i] belongs before s[j].
Less(s, i, j) == AcceptPrecedes(s[i], s[j])

\* The loops of swaps that carry one element down to, or up from, its place.
Moved(s, from, to) ==
    (to :> s[from]) @@ [i \in (to + 1)..from |-> s[i - 1]] @@ [i \in from..(to - 1) |-> s[i + 1]] @@ s
SinkTo(s, floor, cursor) ==
    Moved(s, cursor, Max({i \in floor..cursor : i = floor \/ ~AcceptPrecedes(s[cursor], s[i - 1])}))
FloatTo(s, cursor, end) ==
    Moved(s, cursor, Min({i \in cursor..(end - 1) : i = end - 1 \/ ~AcceptPrecedes(s[i + 1], s[cursor])}))

NextUnordered(s, index, end) == Min({i \in index..(end - 1) : Less(s, i, i - 1)} \cup {end})
\* The next element that is not in order is carried down.
RECURSIVE InsertFrom(_, _, _, _)
InsertFrom(s, index, start, end) ==
    LET i == NextUnordered(s, index, end)
    IN IF i = end THEN s ELSE InsertFrom(SinkTo(s, start, i), i + 1, start, end)
InsertionSort(s, start, end) == InsertFrom(s, start + 1, start, end)

RECURSIVE SiftDown(_, _, _, _)
SiftDown(s, low, high, first1) ==
    LET left == 2 * low + 1
        child == IF left + 1 < high /\ Less(s, first1 + left, first1 + left + 1) THEN left + 1 ELSE left
    IN IF left >= high \/ ~Less(s, first1 + low, first1 + child) THEN s
       ELSE SiftDown(Swapped(s, first1 + low, first1 + child), child, high, first1)
RECURSIVE BuildHeap(_, _, _, _)
BuildHeap(s, index, high, start) ==
    IF index < 0 THEN s ELSE BuildHeap(SiftDown(s, index, high, start), index - 1, high, start)
RECURSIVE PopHeap(_, _, _)
PopHeap(s, index, start) ==
    IF index < 0 THEN s ELSE PopHeap(SiftDown(Swapped(s, start, start + index), 0, index, start), index - 1, start)
HeapSort(s, start, end) ==
    LET high == end - start
    IN PopHeap(BuildHeap(s, (high - 1) \div 2, high, start), high - 1, start)

\* The loops of the partitions: left stops at what belongs to the right of the
\* pivot at start, right at what belongs to its left, and the two are exchanged.
Low(s, i, start, equal) == IF equal THEN ~Less(s, start, i) ELSE Less(s, i, start)
RECURSIVE Exchange(_, _, _, _, _)
Exchange(s, left, right, start, equal) ==
    LET l == Min({i \in left..right : ~Low(s, i, start, equal)} \cup {right + 1})
        r == Max({i \in l..right : Low(s, i, start, equal)} \cup {l - 1})
    IN IF l > r THEN [s |-> s, left |-> l, right |-> r, swapped |-> FALSE]
       ELSE [Exchange(Swapped(s, l, r), l + 1, r - 1, start, equal) EXCEPT !.swapped = TRUE]

\* Mutant: the pivot is put where left stopped.
PartitionLeft(s, start, end, pivot) ==
    LET parted == Exchange(Swapped(s, start, pivot), start + 1, end - 1, start, FALSE)
        at == IF parted.left < end THEN parted.left ELSE parted.right
    IN [s |-> Swapped(parted.s, at, start), at |-> at, already |-> ~parted.swapped]

Partition(s, start, end, pivot) ==
    LET parted == Exchange(Swapped(s, start, pivot), start + 1, end - 1, start, FALSE)
    IN [s |-> Swapped(parted.s, parted.right, start), at |-> parted.right, already |-> ~parted.swapped]
PartitionEqual(s, start, end, pivot) ==
    LET parted == Exchange(Swapped(s, start, pivot), start + 1, end - 1, start, TRUE)
    IN [s |-> parted.s, at |-> parted.left]

RECURSIVE PartialInsertionSort(_, _, _, _, _)
PartialInsertionSort(s, start, end, index, left) ==
    LET i == NextUnordered(s, index, end)
        swapped == Swapped(s, i, i - 1)
        sunk == IF i - start >= 2 THEN SinkTo(swapped, 0, i - 1) ELSE swapped
        floated == IF end - i >= 2 THEN FloatTo(sunk, i, end) ELSE sunk
    IN IF left = 0 THEN [s |-> s, done |-> FALSE]
       ELSE IF i = end THEN [s |-> s, done |-> TRUE]
       ELSE IF end - start < 50 THEN [s |-> s, done |-> FALSE]
       ELSE PartialInsertionSort(floated, start, end, i, left - 1)

\* The bits of a number, and a xorshift of which Kept bits are computed: the
\* three indices read only low bits, and every step needs seven more than the next.
RECURSIVE BitLength(_)
BitLength(n) == IF n = 0 THEN 0 ELSE 1 + BitLength(n \div 2)
Kept == 27
XorShift(random) ==
    LET r1 == random ^^ ((random % 2 ^ (Kept - 13)) * 2 ^ 13)
        r2 == r1 ^^ (r1 \div 2 ^ 7)
    IN r2 ^^ ((r2 % 2 ^ (Kept - 17)) * 2 ^ 17)
BreakPatterns(s, start, end) ==
    LET length == end - start
        center == start + (length \div 4) * 2
        Shuffle(acc, index) ==
            LET random == XorShift(acc.random)
                other == random % 2 ^ BitLength(length)
            IN [random |-> random,
                s |-> Swapped(acc.s, index, start + (IF other >= length THEN other - length ELSE other))]
    IN IF length < 8 THEN s
       ELSE FoldLeft(Shuffle, [random |-> length, s |-> s], <<center - 1, center, center + 1>>).s

OrderTwo(s, pair) ==
    IF Less(s, pair.b, pair.a) THEN [a |-> pair.b, b |-> pair.a, swaps |-> pair.swaps + 1] ELSE pair
Median(s, first1, middle, last, swaps) ==
    LET p1 == OrderTwo(s, [a |-> first1, b |-> middle, swaps |-> swaps])
        p2 == OrderTwo(s, [a |-> p1.b, b |-> last, swaps |-> p1.swaps])
        p3 == OrderTwo(s, [a |-> p1.a, b |-> p2.a, swaps |-> p2.swaps])
    IN [at |-> p3.b, swaps |-> p3.swaps]
ChoosePivot(s, start, end) ==
    LET length == end - start
        At(k) == start + (length \div 4) * k
        Adjacent(index, swaps) == Median(s, index - 1, index, index + 1, swaps)
        m1 == Adjacent(At(1), 0)
        m2 == Adjacent(At(2), m1.swaps)
        m3 == Adjacent(At(3), m2.swaps)
        chosen == IF length < 8 THEN [at |-> At(2), swaps |-> 0]
                  ELSE IF length < 50 THEN Median(s, At(1), At(2), At(3), 0)
                  ELSE Median(s, m1.at, m2.at, m3.at, m3.swaps)
    IN [at |-> chosen.at,
        hint |-> IF chosen.swaps = 0 THEN "increasing" ELSE IF chosen.swaps = 12 THEN "decreasing" ELSE "unknown"]
ReverseRange(s, start, end) ==
    [i \in start..(end - 1) |-> s[start + end - 1 - i]] @@ s

\* pdqsort: the loop over a range; a smaller side is sorted by a call of its own.
RECURSIVE PdqSort(_, _, _, _, _, _)
PdqSort(s, start, end, limit, was_balanced, was_partitioned) ==
    LET length == end - start
        broken == IF was_balanced THEN s ELSE BreakPatterns(s, start, end)
        limit1 == IF was_balanced THEN limit ELSE limit - 1
        chosen == ChoosePivot(broken, start, end)
        decreasing == chosen.hint = "decreasing"
        turned == IF decreasing THEN ReverseRange(broken, start, end) ELSE broken
        pivot == IF decreasing THEN (end - 1) - (chosen.at - start) ELSE chosen.at
        guess == IF was_balanced /\ was_partitioned /\ chosen.hint # "unknown"
                 THEN PartialInsertionSort(turned, start, end, start + 1, 5) ELSE [s |-> turned, done |-> FALSE]
        equal == PartitionEqual(guess.s, start, end, pivot)
        parted == Partition(guess.s, start, end, pivot)
        left == parted.at - start
        right == end - parted.at
    IN IF length <= 12 THEN InsertionSort(s, start, end)
       ELSE IF limit = 0 THEN HeapSort(s, start, end)
       ELSE IF guess.done THEN guess.s
       ELSE IF start > 0 /\ ~Less(guess.s, start - 1, pivot)
       THEN PdqSort(equal.s, equal.at, end, limit1, was_balanced, was_partitioned)
       ELSE IF left < right
       THEN PdqSort(PdqSort(parted.s, start, parted.at, limit1, TRUE, TRUE), parted.at + 1, end, limit1,
                    left >= length \div 8, parted.already)
       ELSE PdqSort(PdqSort(parted.s, parted.at + 1, end, limit1, TRUE, TRUE), start, parted.at, limit1,
                    right >= length \div 8, parted.already)
ZeroBased(seq) == [i \in 0..(Len(seq) - 1) |-> seq[i + 1]]
SortAcceptClauses(clauses) ==
    LET n == Len(clauses)
        sorted == PdqSort(ZeroBased(clauses), 0, n, BitLength(n), TRUE, TRUE)
    IN IF n <= 1 THEN clauses ELSE [i \in 1..n |-> sorted[i - 1]]

Parameter(clause, name) ==
    LET named == SelectSeq(clause.params, LAMBDA part : part[1] = name)
    IN IF named = <<>> THEN "" ELSE Last(named)[2]
Escapings == {"allow-utf-8", "dots", "underscores", "values"}
FormatOf(clause) ==
    IF clause.kind = "application" /\ clause.subtype = "vnd.google.protobuf" /\ Parameter(clause, "proto") = "MetricFamily"
       /\ Parameter(clause, "encoding") \in {"delimited", "compact-text", "text"}
    THEN Parameter(clause, "encoding")
    ELSE IF clause.kind = "text" /\ clause.subtype = "plain" /\ Parameter(clause, "version") \in {"", "0.0.4"}
    THEN "plain" ELSE Unset
RECURSIVE Negotiate(_, _)
Negotiate(clauses, escaping) ==
    IF clauses = <<>> THEN [format |-> "plain", escaping |-> escaping]
    ELSE LET asked1 == Parameter(clauses[1], "escaping")
             escaping1 == IF asked1 \in Escapings THEN asked1 ELSE escaping
         IN IF FormatOf(clauses[1]) # Unset THEN [format |-> FormatOf(clauses[1]), escaping |-> escaping1]
            ELSE Negotiate(Tail(clauses), escaping1)
ParsedClauses(accept) ==
    SelectSeq([i \in 1..Len(accept) |-> ParseAcceptClause(accept[i])], LAMBDA clause : clause # Unset)
NegotiateFormat(accept) == Negotiate(SortAcceptClauses(ParsedClauses(accept)), "underscores")

-----------------------------------------------------------------------------
\* Accept-Encoding as tokens: a name, ";", "q=", a quality, "," or anything else.
\* Blanks are skipped everywhere.
EncodingNames == {"identity", "gzip", "*", "br"}
\* parse_quality_prefix, in tenths: a leading 0 or 1 and decimals; no bound is checked.
QualityOf == ("0" :> 0) @@ ("0.5" :> 5) @@ ("1" :> 10) @@ ("1.5" :> 15)
RECURSIVE ParseEncodingHeader(_)
ParseEncodingHeader(tokens) ==
    LET weighted == Len(tokens) >= 2 /\ tokens[2] = ";"
        valid == Len(tokens) >= 4 /\ tokens[3] = "q=" /\ tokens[4] \in DOMAIN QualityOf
        spec == [value |-> tokens[1], quality |-> IF weighted THEN QualityOf[tokens[4]] ELSE 10]
        next1 == IF weighted THEN 5 ELSE 2
    IN IF tokens = <<>> \/ tokens[1] \notin EncodingNames \/ (weighted /\ ~valid) THEN <<>>
       ELSE <<spec>> \o (IF Len(tokens) >= next1 /\ tokens[next1] = ","
                         THEN ParseEncodingHeader(SubSeq(tokens, next1 + 1, Len(tokens))) ELSE <<>>)
\* Mutant: gzip wins a tie.
BetterOfferTie(best, offer) == IF offer.quality >= best.quality THEN offer ELSE best

BetterOffer(best, offer) == IF offer.quality > best.quality THEN offer ELSE best
AcceptsGzip(headers) ==
    LET specs == FlattenSeq([i \in 1..Len(headers) |-> ParseEncodingHeader(headers[i])])
        Offers(name) ==
            LET matching == SelectSeq(specs, LAMBDA spec : spec.value \in {"*", name})
            IN [i \in 1..Len(matching) |-> [name |-> name, quality |-> matching[i].quality]]
        best == FoldLeft(BetterOffer, [name |-> "identity", quality |-> -1], Offers("identity") \o Offers("gzip"))
    IN best.quality > 0 /\ best.name = "gzip"

-----------------------------------------------------------------------------
\* Names are sequences of code points.
Underscore == 95
Alphabetic(c) == c \in 65..90 \cup 97..122
IsValidLegacyCharacter(c, index) == Alphabetic(c) \/ c \in {Underscore, 58} \/ (index > 1 /\ c \in 48..57)
IsValidLegacyName(name) == name # <<>> /\ \A i \in 1..Len(name) : IsValidLegacyCharacter(name[i], i)

RECURSIVE HexText(_)
HexText(n) ==
    LET digit == IF n % 16 < 10 THEN 48 + (n % 16) ELSE 87 + (n % 16)
    IN IF n < 16 THEN <<digit>> ELSE Append(HexText(n \div 16), digit)
\* Mutant: an underscore of the name is written as it is.
EscapeValuesPlain(c, index) ==
    IF IsValidLegacyCharacter(c, index) THEN <<c>> ELSE <<Underscore>> \o HexText(c) \o <<Underscore>>

EscapeValues(c, index) ==
    IF c = Underscore THEN <<Underscore, Underscore>>
    ELSE IF IsValidLegacyCharacter(c, index) THEN <<c>>
    ELSE <<Underscore>> \o HexText(c) \o <<Underscore>>
EscapeDots(c, index) ==
    IF c = 46 THEN <<Underscore, 100, 111, 116, Underscore>>
    ELSE IF c # Underscore /\ IsValidLegacyCharacter(c, index) THEN <<c>>
    ELSE <<Underscore, Underscore>>
EscapeUnderscores(c, index) == IF IsValidLegacyCharacter(c, index) THEN <<c>> ELSE <<Underscore>>
EscapeName(name, escaping) ==
    LET Written(Escape(_, _)) == FlattenSeq([i \in 1..Len(name) |-> Escape(name[i], i)])
    IN IF name = <<>> THEN <<>>
       ELSE CASE escaping = "underscores" -> Written(EscapeUnderscores)
              [] escaping = "dots" -> Written(EscapeDots)
              [] escaping = "values" -> <<85, Underscore, Underscore>> \o Written(EscapeValues)

Escaped(name, escaping) == IF IsValidLegacyName(name) THEN name ELSE EscapeName(name, escaping)
NameLabel == <<95, 95, 110, 97, 109, 101, 95, 95>>
EscapeLabel(label, escaping) ==
    IF label.name = NameLabel THEN [label EXCEPT !.value = Escaped(@, escaping)]
    ELSE [label EXCEPT !.name = Escaped(@, escaping)]
EscapeMetricFamilies(families, escaping) ==
    [i \in 1..Len(families) |->
        [families[i] EXCEPT !.name = Escaped(@, escaping),
                            !.metrics = [k \in 1..Len(@) |->
                                [@[k] EXCEPT !.labels = [j \in 1..Len(@) |-> EscapeLabel(@[j], escaping)]]]]]

\* validate_families. The absence of a field is Unset; unknown tells that there
\* is a field no one expects, created the fields 3 of a counter.
ValidateCreatedTimestamp(created) ==
    IF Len(created) # 1 THEN Failure("Unsupported")
    ELSE IF created[1] = "garbage" THEN Failure("Protobuf")
    ELSE IF created[1] = "out of range" THEN Failure("Unsupported") ELSE [at |-> created[1]]
ValidMetric(kind, metric) ==
    /\ ~metric.unknown /\ ~metric.other
    /\ \A j \in 1..Len(metric.labels) : metric.labels[j].name # Unset /\ metric.labels[j].value # Unset
    /\ metric.counter # Unset <=> kind = "COUNTER"
    /\ metric.gauge # Unset <=> kind = "GAUGE"
    /\ kind = "COUNTER" => metric.counter.value = "finite" /\ ~IsFailure(ValidateCreatedTimestamp(metric.counter.created))
    /\ kind = "GAUGE" => metric.gauge = "finite"
\* Mutant: the metrics of a counter are not looked at.
ValidateFamilyLax(family) ==
    /\ ~family.unknown /\ family.name # Unset /\ family.help # Unset
    /\ family.kind \in {"COUNTER", "GAUGE"}
    /\ \A k \in 1..Len(family.metrics) : family.kind = "GAUGE" => ValidMetric(family.kind, family.metrics[k])

ValidateFamily(family) ==
    /\ ~family.unknown /\ family.name # Unset /\ family.help # Unset
    /\ family.kind \in {"COUNTER", "GAUGE"}
    /\ \A k \in 1..Len(family.metrics) : ValidMetric(family.kind, family.metrics[k])
EncodeErrors == {"Prometheus", "Protobuf", "Compression", "Unsupported"}
ValidateFamilies(families) == \A i \in 1..Len(families) : ValidateFamily(families[i])

\* The texts of write_text_escaped and quoted.
Backslash == 92
EscapeWith(pairs, c) == IF c \in DOMAIN pairs THEN <<Backslash, pairs[c]>> ELSE <<c>>
TextEscapes == (Backslash :> Backslash) @@ (10 :> 110) @@ (34 :> 34)
\* Mutant: a newline is left as it is.
WriteTextEscapedLine(value, include_double_quote) ==
    FlattenSeq([i \in 1..Len(value) |->
        IF value[i] = 10 \/ (value[i] = 34 /\ ~include_double_quote) THEN <<value[i]>> ELSE EscapeWith(TextEscapes, value[i])])

WriteTextEscaped(value, include_double_quote) ==
    FlattenSeq([i \in 1..Len(value) |->
        IF value[i] = 34 /\ ~include_double_quote THEN <<34>> ELSE EscapeWith(TextEscapes, value[i])])
Padded(text, width) == [i \in 1..(width - Len(text)) |-> 48] \o text
QuotedCharacter(c) ==
    IF c \notin DOMAIN TextEscapes \cup {13, 9} /\ c \in 0..31 \cup {127} THEN <<Backslash, 120>> \o Padded(HexText(c), 2)
    ELSE IF c \in 128..159 THEN <<Backslash, 117>> \o Padded(HexText(c), 4)
    ELSE EscapeWith(TextEscapes @@ (13 :> 114) @@ (9 :> 116), c)
Quoted(value) == <<34>> \o FlattenSeq([i \in 1..Len(value) |-> QuotedCharacter(value[i])]) \o <<34>>

WriteTextName(name) == IF IsValidLegacyName(name) THEN name ELSE <<34>> \o WriteTextEscaped(name, TRUE) \o <<34>>
\* 123, 125, 44 and 61 are the braces, the comma and the equals sign.
WriteTextSampleNameAndLabels(name, labels) ==
    LET inside == ~IsValidLegacyName(name)
        Label(j) == (IF inside \/ j > 1 THEN <<44>> ELSE <<>>) \o WriteTextName(labels[j].name)
                    \o <<61, 34>> \o WriteTextEscaped(labels[j].value, TRUE) \o <<34>>
    IN (IF inside THEN <<123>> ELSE <<>>) \o WriteTextName(name)
       \o (IF labels # <<>> /\ ~inside THEN <<123>> ELSE <<>>)
       \o FlattenSeq([j \in 1..Len(labels) |-> Label(j)])
       \o (IF inside \/ labels # <<>> THEN <<125>> ELSE <<>>)

TextNeedsQuotedNames(families) ==
    \E i \in 1..Len(families) :
        \/ ~IsValidLegacyName(families[i].name)
        \/ \E k \in 1..Len(families[i].metrics) : \E j \in 1..Len(families[i].metrics[k].labels) :
                ~IsValidLegacyName(families[i].metrics[k].labels[j].name)
ValueOf(metric) ==
    IF metric.counter # Unset THEN metric.counter.value ELSE IF metric.gauge # Unset THEN metric.gauge ELSE "absent"
WriteUtf8Text(family) ==
    [name |-> WriteTextName(family.name), help |-> WriteTextEscaped(family.help, FALSE), kind |-> family.kind,
     metrics |-> [k \in 1..Len(family.metrics) |->
        [sample |-> WriteTextSampleNameAndLabels(family.name, family.metrics[k].labels), value |-> ValueOf(family.metrics[k])]]]
\* write_compact and write_pretty differ in layout only.
WriteProtoText(family) ==
    [name |-> Quoted(family.name), help |-> Quoted(family.help), kind |-> family.kind,
     metrics |-> [k \in 1..Len(family.metrics) |->
        [sample |-> [j \in 1..Len(family.metrics[k].labels) |->
                        <<Quoted(family.metrics[k].labels[j].name), Quoted(family.metrics[k].labels[j].value)>>],
         value |-> ValueOf(family.metrics[k]),
         created |-> IF family.metrics[k].counter # Unset THEN ValidateCreatedTimestamp(family.metrics[k].counter.created) ELSE Unset]]]

\* What the encoders of the prometheus crate write is left as the families.
EncodeFamilies(families, format, escaping) ==
    LET names == IF format = "delimited" \/ escaping = "allow-utf-8" THEN families ELSE EscapeMetricFamilies(families, escaping)
        All(Write(_)) == [families |-> [i \in 1..Len(names) |-> Write(names[i])]]
    IN IF ~ValidateFamilies(families) THEN Failure("Unsupported")
       ELSE IF format = "plain" /\ TextNeedsQuotedNames(names)
       THEN IF \E i \in 1..Len(names) : names[i].name = <<>> THEN Failure("Unsupported") ELSE All(WriteUtf8Text)
       ELSE IF format \in {"compact-text", "text"} THEN All(WriteProtoText) ELSE [families |-> names]

-----------------------------------------------------------------------------
\* CreatedIntCounterVec: threads ask for a child, the first access creates it and
\* records the time, both under one lock, which a scrape also takes.
CONSTANTS Threads, Labels
VARIABLES counter, children, created_at, collected
counterVars == <<counter, children, created_at, collected>>

CountersInit ==
    /\ counter = [t \in Threads |-> "idle"] /\ children = {} /\ created_at = {} /\ collected = {}
Unlocked == \A t \in Threads : counter[t] = "idle"
\* get_metric_with_label_values: an entry that is there needs nothing.
LockEntry(t) ==
    /\ Unlocked
    /\ \E l \in Labels \ created_at : counter' = [counter EXCEPT ![t] = l]
    /\ UNCHANGED <<children, created_at, collected>>
CreateChild(t) ==
    /\ counter[t] \in Labels \ children
    /\ children' = children \cup {counter[t]}
    /\ UNCHANGED <<counter, created_at, collected>>
RecordCreated(t) ==
    /\ counter[t] \in children
    /\ created_at' = created_at \cup {counter[t]}
    /\ counter' = [counter EXCEPT ![t] = "idle"]
    /\ UNCHANGED <<children, collected>>
\* Mutant: the vector is collected without the lock.
CollectUnlocked ==
    /\ collected' = {<<l, l \in created_at>> : l \in children}
    /\ UNCHANGED <<counter, children, created_at>>

Collect ==
    /\ Unlocked
    /\ collected' = {<<l, l \in created_at>> : l \in children}
    /\ UNCHANGED <<counter, children, created_at>>
CountersNext == Collect \/ \E t \in Threads : LockEntry(t) \/ CreateChild(t) \/ RecordCreated(t)

\* A scrape finds the creation time of every child it collects, also while other
\* threads create children (ployz-internal-metrics lib.rs:46-68, 97-123); the encoder
\* refuses the whole scrape otherwise.
CollectedAreDated == \A pair \in collected : pair[2]

-----------------------------------------------------------------------------
\* A redirect of route leads to a path that route does not redirect again and that
\* has no dot segment, and no empty one but the last.
RedirectsOnce(method, path) ==
    LET to == RouteOf(method, path)
        again == RouteOf(method, to.location)
    IN to.to = "redirect" =>
        /\ again.to \in {"metrics", "not found"}
        /\ \A i \in 2..Len(to.location) :
              to.location[i] \notin {Dot, Dot \o Dot} /\ (to.location[i] = <<>> => i = Len(to.location))

\* drain_ignored_body keeps a connection only when nothing of the body is left on it
\* and the body was within the limit, takes at most one frame more off it than the
\* limit allows, and keeps the connection of a body that it can tell to be short.
BodyIsDrained(policy1, length, frames) ==
    LET drained == DrainIgnoredBody(policy1, length, frames)
        taken1 == SubSeq(frames, 1, Len(frames) - Len(drained.left))
        Total(list) == FoldLeft(LAMBDA x, y : x + y, 0, list)
        short == length # Unset /\ length < policy1.limit
    IN /\ drained.ok => drained.left = <<>> /\ Total(frames) <= policy1.limit
       /\ taken1 # <<>> => Total(Front(taken1)) <= policy1.limit
       /\ short /\ -1 \notin ToSet(frames) => drained.ok

Plain(clause) == clause.kind # "*" /\ clause.subtype # "*" /\ clause.quality # NaN

\* sort_accept_clauses loses and invents no clause, and puts clauses without
\* wildcards and without NaN, which make the order a partial one, in the order of
\* their quality; heap_sort, its last resort, does too.
SortsClauses(clauses) ==
    LET n == Len(clauses)
        heap == HeapSort(ZeroBased(clauses), 0, n)
        results == {SortAcceptClauses(clauses)} \cup (IF n <= 8 THEN {[i \in 1..n |-> heap[i - 1]]} ELSE {})
        Count(list, clause) == Cardinality({i \in 1..n : list[i] = clause})
        plain == \A i \in 1..n : Plain(clauses[i])
    IN \A sorted \in results :
        /\ \A clause \in ToSet(clauses) : Count(sorted, clause) = Count(clauses, clause)
        /\ plain => \A i \in 1..(n - 1) : sorted[i].quality >= sorted[i + 1].quality

\* negotiate_format gives a format that is asked for, without wildcards and NaN of
\* the highest quality among those it knows, and text when it knows none.
NegotiatesBest(accept) ==
    LET clauses == ParsedClauses(accept)
        known == {i \in 1..Len(clauses) : FormatOf(clauses[i]) # Unset}
        plain == \A i \in 1..Len(clauses) : Plain(clauses[i])
        got1 == NegotiateFormat(accept)
    IN /\ known = {} => got1.format = "plain"
       /\ known # {} => \E i \in known :
            /\ got1.format = FormatOf(clauses[i])
            /\ plain => \A k \in known : clauses[i].quality >= clauses[k].quality

\* accepts_gzip compresses exactly when gzip is asked for, and above identity.
GzipIsPreferred(headers) ==
    LET specs == FlattenSeq([i \in 1..Len(headers) |-> ParseEncodingHeader(headers[i])])
        Best(name) == Max({-1} \cup {specs[i].quality : i \in {k \in 1..Len(specs) : specs[k].value \in {"*", name}}})
    IN AcceptsGzip(headers) <=> Best("gzip") > 0 /\ Best("gzip") > Best("identity")

\* escape_name gives names every reader takes, and under "values" different names
\* for different ones.
EscapesNames(name, other) ==
    /\ \A escaping \in Escapings \ {"allow-utf-8"} : name # <<>> => IsValidLegacyName(EscapeName(name, escaping))
    /\ name # other => EscapeName(name, "values") # EscapeName(other, "values")

\* Two samples written with quoted names are the same line, or the same protobuf text,
\* only if they are the same sample, and a line is one line.
SamplesAreDistinct(sample, other) ==
    LET Line(x) == WriteTextSampleNameAndLabels(x.name, x.labels)
        Text(x) == <<Quoted(x.name), [j \in DOMAIN x.labels |-> <<Quoted(x.labels[j].name), Quoted(x.labels[j].value)>>]>>
    IN /\ sample # other => Line(sample) # Line(other) /\ Text(sample) # Text(other)
       /\ 10 \notin ToSet(Line(sample)) \cup ToSet(Quoted(sample.name))

\* encode refuses what it cannot write, and writes a value, and for protobuf text a
\* creation time, for every metric of what it accepts; no name is left unescaped.
EncodesWhole(families, format, escaping) ==
    LET encoded == EncodeFamilies(families, format, escaping)
    IN ~IsFailure(encoded) =>
        \A i \in 1..Len(families) : \A k \in 1..Len(families[i].metrics) :
            LET written == encoded.families[i].metrics[k]
            IN IF "sample" \notin DOMAIN written THEN format = "delimited" \/ IsValidLegacyName(encoded.families[i].name)
               ELSE /\ written.value = "finite"
                    /\ "created" \in DOMAIN written /\ written.created # Unset => ~IsFailure(written.created)
=============================================================================
