------------------------------ MODULE Accounts -------------------------------
(***************************************************************************)
(* Account lookups and changes of ownership (ployz-internal-fs): the files *)
(* backend, which reads /etc/passwd and /etc/group in whatever pieces the  *)
(* buffer holds, the native backend, which calls libc with a buffer that   *)
(* grows, and the cache of the current user in front of both. Texts are as *)
(* in Versions, with more signs.                                           *)
(***************************************************************************)
EXTENDS Versions

CONSTANT IdModulus  \* 2^32, the range of an ID in the syscall

COLON == -10
NEWLINE == -11
HASH == -12
SPACE == -13
COMMA == -14
MAX_BUFFER == 1048576

LookupErrors ==
    {"UnknownUser", "UnknownUserId", "UnknownGroup", "UnknownGroupId", "InvalidUserId", "CurrentEnvironment", "BufferLimit", "Io"}
IdErrors == {"Lookup", "ParseUid", "ParseGid"}
ChownErrors == {"LookupUser", "ParseUid", "LookupGroup", "ParseGid", "Chown"}

\* str::parse::<i64>, whose least value is one further from zero than its greatest.
ParseId(text) ==
    LET signed == text # <<>> /\ text[1] \in {PLUS, DASH}
        negative == signed /\ text[1] = DASH
        digits == IF signed THEN Tail(text) ELSE text
    IN IF digits = <<>> \/ ~AllDigits(digits) \/ Decimal(digits) > MaxNumber + (IF negative THEN 1 ELSE 0) THEN Failure("ParseInt")
       ELSE [number |-> IF negative THEN - Decimal(digits) ELSE Decimal(digits)]

TrimSpace(text) ==
    LET kept == {i \in DOMAIN text : text[i] # SPACE}
    IN IF kept = {} THEN <<>> ELSE SubSeq(text, Min(kept), Max(kept))

Colons(text) == Cardinality({i \in DOMAIN text : text[i] = COLON})

\* slice::splitn: the last part keeps the colons that are left.
SplitColons(line, n) ==
    LET parts == TextParts(line, COLON)
    IN IF Len(parts) <= n THEN parts
       ELSE Append(SubSeq(parts, 1, n - 1), FoldLeft(LAMBDA x, y : x \o <<COLON>> \o y, parts[n], SubSeq(parts, n + 1, Len(parts))))

ParseUser(line, query) ==
    LET parts == SplitColons(line, 7)
    IN IF \/ Colons(line) < 6
          \/ parts[query.index] # query.wanted
          \/ parts[1] = <<>>
          \/ parts[1][1] \in {PLUS, DASH}
          \/ IsFailure(ParseId(parts[3])) \/ IsFailure(ParseId(parts[4]))
       THEN Unset
       ELSE [uid |-> parts[3], gid |-> parts[4], username |-> parts[1], name |-> TextBefore(parts[5], COMMA), home_dir |-> parts[6]]

ParseGroup(line, query) ==
    LET parts == SplitColons(line, 4)
    IN IF Len(parts) < 4 \/ parts[query.index] # query.wanted \/ parts[1] = <<>> \/ parts[1][1] \in {PLUS, DASH} \/ IsFailure(ParseId(parts[3]))
       THEN Unset
       ELSE [gid |-> parts[3], name |-> parts[1]]

\* find_user_by_name, find_user_by_id and find_group_by_name
ByName(name) == [group |-> FALSE, index |-> 1, wanted |-> name, colons |-> 6]
ById(id) == [group |-> FALSE, index |-> 3, wanted |-> id, colons |-> 6]
ByGroup(name) == [group |-> TRUE, index |-> 1, wanted |-> name, colons |-> 3]

\* The record on a line, unless the line is blank or a comment.
LineRecord(prefix, query) ==
    LET line == TrimSpace(prefix)
    IN IF line = <<>> \/ line[1] = HASH THEN Unset ELSE IF query.group THEN ParseGroup(line, query) ELSE ParseUser(line, query)

\* An empty chunk stands for a read that fails.
FAILED == <<>>
Unread(chunk, from, chunks) == IF from > Len(chunk) THEN chunks ELSE <<SubSeq(chunk, from, Len(chunk))>> \o chunks

DrainLine(chunks) ==
    LET at == Min({k \in DOMAIN chunks : chunks[k] = FAILED \/ NEWLINE \in ToSet(chunks[k])} \cup {Len(chunks) + 1})
        left == SubSeq(chunks, at + 1, Len(chunks))
    IN IF at > Len(chunks) THEN <<>>
       ELSE IF chunks[at] = FAILED THEN <<FAILED>> ELSE Unread(chunks[at], TextCut(chunks[at], NEWLINE) + 1, left)

\* Mutant: what was read of a line is forgotten with the piece it was in.
FillAlone(prefix, available, query) ==
    LET ends == {i \in DOMAIN available : available[i] = NEWLINE \/ Colons(SubSeq(available, 1, i)) >= query.colons}
        consumed == Min(ends \cup {Len(available)})
        newline == available[consumed] = NEWLINE
    IN [whole |-> ends # {}, newline |-> newline, consumed |-> consumed,
        prefix |-> SubSeq(available, 1, IF newline THEN consumed - 1 ELSE consumed)]

\* A turn of the loop of read_colon_file: how much of the buffer it takes.
Fill(prefix, available, query) ==
    LET ends == {i \in DOMAIN available : \/ available[i] = NEWLINE
                                          \/ Colons(prefix) + Colons(SubSeq(available, 1, i)) >= query.colons}
        consumed == Min(ends \cup {Len(available)})
        newline == available[consumed] = NEWLINE
    IN [whole |-> ends # {}, newline |-> newline, consumed |-> consumed,
        prefix |-> prefix \o SubSeq(available, 1, IF newline THEN consumed - 1 ELSE consumed)]

\* read_colon_file: a line is parsed once the colons it needs were seen.
ReadColonFile(file, query) ==
    LET read[s \in [chunks : Seq(Seq(Int)), prefix : Seq(Int)]] ==
            IF s.chunks = <<>> THEN LineRecord(s.prefix, query)
            ELSE IF Head(s.chunks) = FAILED THEN Failure("Io")
            ELSE LET got == Fill(s.prefix, Head(s.chunks), query)
                     rest == Unread(Head(s.chunks), got.consumed + 1, Tail(s.chunks))
                     found == IF got.whole THEN LineRecord(got.prefix, query) ELSE Unset
                 IN IF found # Unset THEN found
                    ELSE read[[chunks |-> IF got.whole /\ ~got.newline THEN DrainLine(rest) ELSE rest,
                               prefix |-> IF got.whole THEN <<>> ELSE got.prefix]]
    IN read[[chunks |-> file, prefix |-> <<>>]]

\* lookup_user, lookup_user_id and lookup_group of the files backend; a file
\* that cannot be opened is Unset.
FilesLookup(file, query, unknown) ==
    IF query.index = 3 /\ IsFailure(ParseId(query.wanted)) THEN Failure("InvalidUserId")
    ELSE IF file = Unset THEN Failure("Io")
    ELSE LET found == ReadColonFile(file, query) IN IF found = Unset THEN Failure(unknown) ELSE found

\* current_user_with
FilesCurrentUser(file, uid, env) ==
    LET found == FilesLookup(file, ById(uid), "UnknownUserId")
    IN IF ~IsFailure(found) THEN found
       ELSE IF env.user = <<>> \/ env.home = <<>> THEN Failure("CurrentEnvironment")
       ELSE [uid |-> uid, gid |-> env.gid, username |-> env.user, name |-> <<>>, home_dir |-> env.home]

\* Mutant: a failure is not kept.
CurrentUserRetries(cache, file, uid, env) ==
    IF cache # Unset /\ ~IsFailure(cache) THEN cache ELSE FilesCurrentUser(file, uid, env)

\* CurrentUserCache: the first result stays, also when it is a failure.
CurrentUser(cache, file, uid, env) == IF cache # Unset THEN cache ELSE FilesCurrentUser(file, uid, env)

\* lookup_user, after current_user
LookupUser(current, file, name) ==
    IF ~IsFailure(current) /\ current.username = name THEN current ELSE FilesLookup(file, ByName(name), "UnknownUser")

LookupUidGid(user) ==
    IF IsFailure(user) THEN Failure("Lookup")
    ELSE IF IsFailure(ParseId(user.uid)) THEN Failure("ParseUid")
    ELSE IF IsFailure(ParseId(user.gid)) THEN Failure("ParseGid")
    ELSE [uid |-> ParseId(user.uid).number, gid |-> ParseId(user.gid).number]

-----------------------------------------------------------------------------
\* lookup_passwd and lookup_group of the native backend: the account's record
\* needs so many bytes, and status is what libc answers once they fit.
InitialSize(sysconf) == IF sysconf = -1 THEN 1024 ELSE IF sysconf <= 0 \/ sysconf > MAX_BUFFER THEN MAX_BUFFER ELSE sysconf

\* Mutant: the limit itself is never reached.
GrowStrict(size) == IF size * 2 >= MAX_BUFFER THEN Failure("BufferLimit") ELSE [size |-> size * 2]

Grow(size) == IF size * 2 > MAX_BUFFER THEN Failure("BufferLimit") ELSE [size |-> size * 2]

RECURSIVE NativeLookup(_, _, _)
NativeLookup(size, needed, status) ==
    IF needed > size
    THEN IF IsFailure(Grow(size)) THEN Grow(size) ELSE NativeLookup(Grow(size).size, needed, status)
    ELSE IF status \in {"missing", "ENOENT"} THEN Failure("Unknown")
    ELSE IF status # "found" THEN Failure("Io") ELSE [record |-> needed]

-----------------------------------------------------------------------------
\* chown_with: an empty name leaves its ID, and the call is made again for as
\* long as it is interrupted. The outcomes are those of the successive calls.
ChownId(lookup, text) == IF IsFailure(lookup) THEN Failure("Lookup") ELSE IF IsFailure(ParseId(text)) THEN Failure("Parse")
                         ELSE [id |-> ParseId(text).number % IdModulus]

\* Mutant: only the user has to be found.
ChownUserFirst(username, user, group, found, outcomes) ==
    LET uid == IF username = <<>> THEN Unset ELSE ChownId(user, user.uid)
    IN IF uid # Unset /\ IsFailure(uid) THEN [calls |-> <<>>, result |-> "user"]
       ELSE [calls |-> <<<<uid, Unset>>>>, result |-> "ok"]

Chown(username, user, group, found, outcomes) ==
    LET uid == IF username = <<>> THEN Unset ELSE ChownId(user, user.uid)
        gid == IF group = <<>> THEN Unset ELSE ChownId(found, found.gid)
        last == Min({i \in DOMAIN outcomes : outcomes[i] # "interrupted"})
    IN IF uid # Unset /\ IsFailure(uid) THEN [calls |-> <<>>, result |-> "user"]
       ELSE IF gid # Unset /\ IsFailure(gid) THEN [calls |-> <<>>, result |-> "group"]
       ELSE [calls |-> [i \in 1..last |-> <<uid, gid>>], result |-> IF outcomes[last] = "ok" THEN "ok" ELSE "Chown"]

-----------------------------------------------------------------------------
\* The pieces a file is read in.
InPieces(text, size) ==
    [k \in 1..(Len(text) + size - 1) \div size |-> SubSeq(text, (k - 1) * size + 1, Min({k * size, Len(text)}))]

\* Up to and with its n-th colon.
CutAtColon(line, n) ==
    LET ends == {i \in DOMAIN line : Colons(SubSeq(line, 1, i)) = n} IN IF ends = {} THEN line ELSE SubSeq(line, 1, Min(ends))

\* read_colon_file finds the first line that has the record, however the file is
\* cut into pieces; a read that fails is reported unless the record came before.
ReadsAnyPieces(lines, ended, size, query) ==
    LET text == FoldLeft(LAMBDA x, y : x \o y \o <<NEWLINE>>, <<>>, lines) \o ended
        all == Append(lines, ended)
        having == {i \in DOMAIN all : LineRecord(CutAtColon(all[i], query.colons), query) # Unset}
        first1 == IF having = {} THEN Unset ELSE LineRecord(CutAtColon(all[Min(having)], query.colons), query)
        pieces == InPieces(text, size)
    IN /\ ReadColonFile(pieces, query) = first1
       /\ \A n \in 0..Len(pieces) :
            LET got1 == ReadColonFile(Append(SubSeq(pieces, 1, n), FAILED), query) IN got1 \in {Failure("Io"), first1} \ {Unset}

\* The current user is looked up once: later lookups of the same name give that
\* record whatever the file holds by then, and a failure stays a failure while
\* lookups by name read the file.
CurrentUserStays(before, after, uid, env) ==
    LET once == CurrentUser(Unset, before, uid, env)
        again == CurrentUser(once, after, uid, [env EXCEPT !.user = <<LetterA>>])
    IN /\ again = once
       /\ ~IsFailure(once) => LookupUser(again, after, once.username) = once
       /\ IsFailure(once) => \A name \in {env.user, <<LetterA>>} : LookupUser(again, after, name) = FilesLookup(after, ByName(name), "UnknownUser")

\* The native lookup ends, and finds every record that fits half of the limit,
\* and one that fits the limit when doubling reaches it.
NativeFinds(sysconf, needed, status) ==
    LET result == NativeLookup(InitialSize(sysconf), needed, status)
        fits == \E k \in 0..20 : 2^k <= MAX_BUFFER \div InitialSize(sysconf) /\ InitialSize(sysconf) * 2^k >= needed
    IN /\ result = Failure("BufferLimit") <=> ~fits
       /\ needed <= MAX_BUFFER \div 2 => fits
       /\ fits /\ status = "found" => ~IsFailure(result)

\* chown makes no call unless everybody it names was found, repeats a call only
\* while it is interrupted, and reports what the last one did.
ChownIsWhole(username, user, group, found, outcomes) ==
    LET done == Chown(username, user, group, found, outcomes)
        good == (username # <<>> => ~IsFailure(user)) /\ (group # <<>> => ~IsFailure(found))
    IN /\ ~good => done.calls = <<>> /\ done.result # "ok"
       /\ done.calls # <<>> =>
            /\ \A i \in DOMAIN done.calls : (i < Len(done.calls)) <=> (outcomes[i] = "interrupted")
            /\ (done.result = "ok") <=> (outcomes[Len(done.calls)] = "ok")
            /\ \A i \in DOMAIN done.calls : (done.calls[i][1] = Unset <=> username = <<>>) /\ (done.calls[i][2] = Unset <=> group = <<>>)
=============================================================================
