------------------------------ MODULE Versions -------------------------------
(***************************************************************************)
(* The version policy between clients and proxy frontends                  *)
(* (ployz-internal-grpcversion). A version is the text on the wire: the    *)
(* digits are 0..9, two letters and three signs stand for the rest, in     *)
(* their order as bytes. MaxNumber stands for i64::MAX and u64::MAX.       *)
(***************************************************************************)
EXTENDS Integers, FiniteSets, FiniteSetsExt, SequencesExt, Results

CONSTANT MaxNumber

DASH == -3
PLUS == -2
DOT == -1
LetterA == 10
LetterV == 11
IsDigit(c) == c \in 0..9

\* str::split_once and str::split.
TextCut(text, sign) == Min({i \in DOMAIN text : text[i] = sign} \cup {Len(text) + 1})
TextBefore(text, sign) == SubSeq(text, 1, TextCut(text, sign) - 1)
TextAfter(text, sign) == SubSeq(text, TextCut(text, sign) + 1, Len(text))
TextParts(text, sign) ==
    LET cuts == {i \in DOMAIN text : text[i] = sign} \cup {0, Len(text) + 1}
        cut == [k \in 1..Cardinality(cuts) |-> CHOOSE i \in cuts : Cardinality({j \in cuts : j < i}) = k - 1]
    IN [k \in 1..Cardinality(cuts) - 1 |-> SubSeq(text, cut[k] + 1, cut[k + 1] - 1)]

Decimal(digits) == FoldLeft(LAMBDA n, d : 10 * n + d, 0, digits)
AllDigits(part) == \A i \in DOMAIN part : IsDigit(part[i])

\* str::parse of an identifier; one that is too long is no number.
AsNumber(part) ==
    IF part # <<>> /\ AllDigits(part) /\ Decimal(part) <= MaxNumber THEN [number |-> Decimal(part)] ELSE Failure("ParseInt")

IdentifiersValid(value) ==
    value # <<>> /\ \A part \in ToSet(TextParts(value, DOT)) : part # <<>> /\ PLUS \notin ToSet(part)

\* ProtocolVersion::parse
ParseVersion(value) ==
    LET build == TextAfter(value, PLUS)
        plain == TextBefore(value, PLUS)
        prerelease == TextAfter(plain, DASH)
        marked == TextBefore(plain, DASH)
        core == IF marked # <<>> /\ marked[1] = LetterV THEN Tail(marked) ELSE marked
        parts == TextParts(core, DOT)
    IN IF \/ PLUS \in ToSet(value) /\ ~IdentifiersValid(build)
          \/ DASH \in ToSet(plain) /\ ~IdentifiersValid(prerelease)
          \/ core = <<>> \/ Len(parts) > 3
          \/ \E part \in ToSet(parts) : IsFailure(AsNumber(part))
       THEN Failure("version")
       ELSE [core |-> [i \in 1..3 |-> IF i <= Len(parts) THEN AsNumber(parts[i]).number ELSE 0],
             prerelease |-> prerelease, build |-> build]

\* The text of a number below 100.
NumberText(n) == IF n < 10 THEN <<n>> ELSE <<n \div 10, n % 10>>
VersionWire(version) ==
    NumberText(version.core[1]) \o <<DOT>> \o NumberText(version.core[2]) \o <<DOT>> \o NumberText(version.core[3])
    \o (IF version.prerelease = <<>> THEN <<>> ELSE <<DASH>> \o version.prerelease)
    \o (IF version.build = <<>> THEN <<>> ELSE <<PLUS>> \o version.build)

ZeroVersion == [core |-> <<0, 0, 0>>, prerelease |-> <<>>, build |-> <<>>]
ParseOrZero(value) ==
    IF value = Unset THEN ZeroVersion
    ELSE LET version == ParseVersion(value.text) IN IF IsFailure(version) THEN ZeroVersion ELSE version

\* The order of slices.
TextLess(left, right) ==
    \/ Len(left) < Len(right) /\ left = SubSeq(right, 1, Len(left))
    \/ \E i \in DOMAIN left : /\ i <= Len(right) /\ left[i] < right[i]
                              /\ \A j \in 1..i - 1 : left[j] = right[j]

IdentifierLess(left, right) ==
    LET l == AsNumber(left)  r == AsNumber(right)
    IN IF IsFailure(l) THEN IsFailure(r) /\ TextLess(left, right)
       ELSE IsFailure(r) \/ l.number <= r.number

\* Mutant: a version with a prerelease is above the one without.
PrereleaseLessSwapped(left, right) ==
    IF left = <<>> \/ right = <<>> THEN left = <<>> /\ right # <<>>
    ELSE TextLess(left, right)

\* compare_prerelease, where it is Less.
PrereleaseLess(left, right) ==
    IF left = <<>> \/ right = <<>> THEN left # <<>> /\ right = <<>>
    ELSE LET l == TextParts(left, DOT)  r == TextParts(right, DOT)
             shared == Min({Len(l), Len(r)})
             differ == {i \in 1..shared : l[i] # r[i]}
         IN IF differ = {} THEN Len(l) < Len(r) ELSE IdentifierLess(l[Min(differ)], r[Min(differ)])

VersionLess(version, other) ==
    \/ TextLess(version.core, other.core)
    \/ version.core = other.core /\ PrereleaseLess(version.prerelease, other.prerelease)

-----------------------------------------------------------------------------
\* VersionPolicy: a header holds its values in order, and the first is read.
MinVersion == [core |-> <<0, 20, 0>>, prerelease |-> <<>>, build |-> <<>>]
PolicyVersion(current) == ParseOrZero([text |-> current])
FirstValue(values) == IF values = <<>> THEN Unset ELSE [text |-> values[1]]

AppendClientMetadata(current, metadata) ==
    [client |-> Append(metadata.client, VersionWire(PolicyVersion(current))),
     server |-> Append(metadata.server, VersionWire(MinVersion))]

\* Mutant: only the client's version is looked at.
ValidateClientOnly(current, metadata) ==
    ~VersionLess(ParseOrZero(FirstValue(metadata.client)), MinVersion)

ValidateValues(current, metadata) ==
    /\ ~VersionLess(ParseOrZero(FirstValue(metadata.client)), MinVersion)
    /\ ~VersionLess(PolicyVersion(current), ParseOrZero(FirstValue(metadata.server)))

\* Mutant: the values that are there stay in front.
AppendServerHeader(current, values) == Append(values, VersionWire(PolicyVersion(current)))

PrependServerHeader(current, values) == <<VersionWire(PolicyVersion(current))>> \o values

\* ServerVersionService::call: a request that is refused does not reach the
\* inner service, which answers with values of its own.
ServerCall(current, metadata, inner) ==
    IF ValidateValues(current, metadata) THEN [served |-> TRUE, header |-> PrependServerHeader(current, inner)]
    ELSE [served |-> FALSE, header |-> <<>>]

Warns(header) == VersionLess(ParseOrZero(FirstValue(header)), MinVersion)

\* warn_once over the responses a client inspects: the flag is set before the
\* message is written.
WarnOnce(state, header) ==
    IF ~Warns(header) \/ state.warned THEN state ELSE [warned |-> TRUE, messages |-> state.messages + 1]
WarnAll(headers) == FoldLeft(WarnOnce, [warned |-> FALSE, messages |-> 0], headers)

-----------------------------------------------------------------------------
Canonical(version) ==
    \A part \in ToSet(TextParts(version.prerelease, DOT)) : AllDigits(part) /\ Len(part) > 1 => part[1] # 0

\* The text a version is sent as parses to the version. A prerelease is below
\* its release, and a longer one above the shorter it begins with. No version is
\* below itself, and of two that are written without leading zeros one is below the
\* other unless only their builds differ. (Of 1.0.0-01 and 1.0.0-1 each is
\* below the other, as in the library whose order is kept.)
VersionsAreOrdered(left, right) ==
    LET l == ParseVersion(left)  r == ParseVersion(right)
    IN ~IsFailure(l) /\ ~IsFailure(r) =>
        /\ ParseVersion(VersionWire(l)) = l
        /\ ~VersionLess(l, l)
        /\ l.core = r.core /\ l.prerelease # <<>> /\ r.prerelease \in {<<>>, l.prerelease \o <<DOT, 1>>} => VersionLess(l, r)
        /\ Canonical(l) /\ Canonical(r) =>
            /\ ~(VersionLess(l, r) /\ VersionLess(r, l))
            /\ VersionLess(l, r) \/ VersionLess(r, l) \/ [l EXCEPT !.build = <<>>] = [r EXCEPT !.build = <<>>]

VersionsAreTransitive(left, middle, right) ==
    LET l == ParseOrZero([text |-> left])  m == ParseOrZero([text |-> middle])  r == ParseOrZero([text |-> right])
    IN Canonical(l) /\ Canonical(m) /\ Canonical(r) /\ VersionLess(l, m) /\ VersionLess(m, r) => VersionLess(l, r)

\* A call between a client and a frontend goes through exactly when neither is
\* below the least version the other demands, and the client then never warns
\* about a daemon, whatever the service behind the frontend answered; of a
\* daemon that sends no version it warns, once.
CallIsAgreed(client, server, inner) ==
    LET asked == AppendClientMetadata(client, [client |-> <<>>, server |-> <<>>])
        answer == ServerCall(server, asked, inner)
    IN /\ answer.served <=> ~VersionLess(PolicyVersion(client), MinVersion) /\ ~VersionLess(PolicyVersion(server), MinVersion)
       /\ answer.served => WarnAll(<<answer.header, answer.header>>).messages = 0
       /\ WarnAll(<<<<>>, answer.header, <<>>>>).messages = 1
=============================================================================
