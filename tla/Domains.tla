------------------------------- MODULE Domains -------------------------------
(***************************************************************************)
(* The domain of a cluster: ReserveDomain, GetDomain, ReleaseDomain and    *)
(* CreateDomainRecords of the cluster service, with the requests its DNS   *)
(* client makes. A step is an access to the store or one HTTP exchange, so *)
(* that calls overlap; the service may redirect, refuse, answer nonsense   *)
(* or act and lose its answer.                                             *)
(***************************************************************************)
EXTENDS DnsApi

CONSTANTS
    Reservers, Releasers, Recorders,  \* the calls of a behaviour
    AskedRecords,   \* the records a CreateDomainRecords may ask for
    Locations,      \* URLs the service may redirect to
    MaxFollow,      \* requests of a POST, 10 in the code
    MaxDomains,     \* bound: domains the service reserves
    MaxDnsFaults    \* bound: failures of the service, the network or the store

VARIABLES
    domainReady,    \* the latch ready
    domainJson,     \* the value under UNCLOUD_DNS_KEY, or Unset
    reserved,       \* the service's domains, in order, each with the call it was made for
    recorded,       \* the records it has made, in order
    dns,            \* the state of every call
    dnsFaults,      \* the failures so far
    released        \* history: the names a deletion took from the store

domainVars == <<domainReady, domainJson, reserved, recorded, dns, dnsFaults, released>>
serviceVars == <<reserved, recorded>>
DnsCalls == Reservers \cup Releasers \cup Recorders

\* The endpoint every reservation names unless it names none or a bad one.
Api == [host |-> <<"dns", "run">>, https |-> TRUE]
Endpoints == {"", "bad", "api"}
BadLocation == [host |-> <<>>, https |-> TRUE]
IdleCall ==
    [pc |-> "idle", endpoint |-> "", domain |-> Unset, records |-> <<>>, made |-> <<>>,
     request |-> Unset, number |-> 0, reply |-> Unset, ahead |-> {}]

DomainsInit ==
    /\ domainReady \in BOOLEAN /\ domainJson = Unset
    /\ reserved = <<>> /\ recorded = <<>>
    /\ dns = [h \in DnsCalls |-> IdleCall]
    /\ dnsFaults = 0 /\ released = {}

\* The call returns; its last request is gone.
Replied(c, code) == [c EXCEPT !.pc = "done", !.reply = code, !.request = Unset, !.number = 0, !.endpoint = ""]
Reply(h, code) == dns' = [dns EXCEPT ![h] = Replied(@, code)]
DnsFault == dnsFaults < MaxDnsFaults /\ dnsFaults' = dnsFaults + 1

\* Client::post: a request of its own, also for every record.
Posting(c, body, token) ==
    [c EXCEPT !.pc = "request", !.number = 1, !.request = NewPost(Api, body, token)]

\* check_ready, the check of the request and stored_domain up to its await.
BeginDomainCall(h) ==
    /\ dns[h].pc = "idle"
    /\ \E endpoint \in IF h \in Reservers THEN Endpoints ELSE {""}, records \in IF h \in Recorders THEN {<<>>, AskedRecords} ELSE {<<>>} :
         IF ~domainReady THEN Reply(h, "unavailable")
         ELSE IF h \in Reservers /\ endpoint = "" THEN Reply(h, "invalid argument")
         ELSE dns' = [dns EXCEPT ![h].pc = "read", ![h].endpoint = endpoint, ![h].records = records]
    /\ UNCHANGED <<domainReady, domainJson, serviceVars, dnsFaults, released>>

DomainReadFails(h) ==
    /\ dns[h].pc = "read" /\ DnsFault
    /\ Reply(h, "internal")
    /\ UNCHANGED <<domainReady, domainJson, serviceVars, released>>

\* The calls that had reserved a domain when this one looked.
ReservedBefore == {g \in Reservers : dns[g].reply = "ok"}
StoredNames == IF domainJson = Unset THEN {} ELSE {DecodeStoredDomain(domainJson).name}

\* Mutant: a domain that is stored is not looked at.
ReserveReadBlind(h) ==
    /\ h \in Reservers /\ dns[h].pc = "read"
    /\ IF dns[h].endpoint = "bad" THEN Reply(h, "internal")
       ELSE dns' = [dns EXCEPT ![h] = Posting([@ EXCEPT !.ahead = ReservedBefore], FALSE, "")]
    /\ UNCHANGED <<domainReady, domainJson, serviceVars, dnsFaults, released>>

\* reserve_domain_inner after stored_domain; a URL that does not parse ends it.
ReserveRead(h) ==
    /\ h \in Reservers /\ dns[h].pc = "read"
    /\ IF domainJson # Unset THEN Reply(h, "already exists")
       ELSE IF dns[h].endpoint = "bad" THEN Reply(h, "internal")
       ELSE dns' = [dns EXCEPT ![h] = Posting([@ EXCEPT !.ahead = ReservedBefore], FALSE, "")]
    /\ UNCHANGED <<domainReady, domainJson, serviceVars, dnsFaults, released>>

\* get_domain_inner stops here; release_domain_inner goes on to the deletion.
ReleaseRead(h) ==
    /\ h \in Releasers /\ dns[h].pc = "read"
    /\ IF domainJson = Unset THEN Reply(h, "not found")
       ELSE \E only_get \in BOOLEAN :
            dns' = [dns EXCEPT ![h].domain = DecodeStoredDomain(domainJson),
                               ![h].pc = IF only_get THEN "done" ELSE "delete", ![h].reply = IF only_get THEN "ok" ELSE Unset]
    /\ UNCHANGED <<domainReady, domainJson, serviceVars, dnsFaults, released>>

\* An error of the store may hide that it has done what it was asked to.
ReleaseDelete(h) ==
    /\ dns[h].pc = "delete"
    /\ \/ Reply(h, "ok") /\ UNCHANGED dnsFaults
       \/ Reply(h, "internal") /\ DnsFault
    /\ \/ /\ domainJson' = Unset
          /\ released' = released \cup StoredNames
       \/ dnsFaults' # dnsFaults /\ UNCHANGED <<domainJson, released>>
    /\ UNCHANGED <<domainReady, serviceVars>>

\* create_domain_records_inner up to its first request.
RecordRead(h) ==
    /\ h \in Recorders /\ dns[h].pc = "read"
    /\ IF domainJson = Unset THEN Reply(h, "not found")
       ELSE LET domain == DecodeStoredDomain(domainJson)
                c == [dns[h] EXCEPT !.domain = domain]
            IN dns' = [dns EXCEPT ![h] = IF c.records = <<>> THEN Replied(c, "ok")
                                         ELSE Posting(c, TRUE, domain.token)]
    /\ UNCHANGED <<domainReady, domainJson, serviceVars, dnsFaults, released>>

-----------------------------------------------------------------------------
\* Where a request that failed leaves its call: completed is not told.
DnsFailed(h) == Reply(h, IF h \in Reservers THEN "internal" ELSE "unknown")

\* What the service makes of a request: it acts on a POST only, and asks for the
\* token of the domain before it makes a record.
NameOf(n) == <<"n1", "n2", "n3", "n4">>[n]
NextRecord(h) == MapRecordRequest(dns[h].records[Len(dns[h].made) + 1])
Own(url) == SameOrSubdomain(url.host, Api.host)
Acts(h) ==
    LET rq == dns[h].request
    IN Own(rq.url) /\ rq.method = "POST" /\ (h \in Reservers \/ "authorization" \in rq.headers)
ServiceAct(h) ==
    IF ~Acts(h) THEN UNCHANGED <<reserved, recorded>>
    ELSE IF h \in Reservers
         THEN /\ Len(reserved) < MaxDomains
              /\ reserved' = Append(reserved, [name |-> NameOf(Len(reserved) + 1), by |-> h]) /\ UNCHANGED recorded
         ELSE /\ recorded' = Append(recorded, [by |-> h, domain |-> dns[h].domain.name, token |-> dns[h].domain.token, record |-> NextRecord(h)])
              /\ UNCHANGED reserved

Answers(h) ==
    IF Acts(h)
    THEN {[status |-> 200, location |-> Unset,
           body |-> IF h \in Reservers THEN <<<<"name", NameOf(Len(reserved) + 1)>>, <<"token", NameOf(Len(reserved) + 1)>>>>
                    ELSE Append(EncodeRecord(NextRecord(h)), <<"fqdn", NextRecord(h).name>>)]}
    ELSE {[status |-> 401, location |-> Unset, body |-> <<<<"data", <<<<"nodomain", TRUE>>>>>>>>],
          [status |-> 300, location |-> Unset, body |-> <<>>], [status |-> 404, location |-> Unset, body |-> Unset]}

\* Client::create_records goes on to the next record, reserve_domain_inner to
\* the store.
DnsAnswered(h, answer) ==
    LET decoded == DecodeAnswer(answer)
        made == Append(dns[h].made, DecodeRecord(decoded.value))
    IN IF IsFailure(decoded) THEN DnsFailed(h)
       ELSE IF h \in Reservers
       THEN dns' = [dns EXCEPT ![h].pc = "put", ![h].request = Unset, ![h].number = 0, ![h].domain =
                        [endpoint |-> dns[h].endpoint, name |-> DecodeDomain(decoded.value).name, token |-> DecodeDomain(decoded.value).token]]
       ELSE dns' = [dns EXCEPT ![h] =
                        IF Len(made) = Len(@.records) THEN Replied([@ EXCEPT !.made = made], "ok")
                        ELSE Posting([@ EXCEPT !.made = made], TRUE, @.domain.token)]

DnsExchange(h) ==
    /\ dns[h].pc = "request"
    /\ \E answer \in Answers(h) : DnsAnswered(h, answer)
    /\ ServiceAct(h)
    /\ UNCHANGED <<domainReady, domainJson, dnsFaults, released>>

\* Nothing arrives, or the service acts and its answer does not arrive or is
\* nonsense. Nothing is tried again.
DnsLost(h) ==
    /\ dns[h].pc = "request" /\ DnsFault
    /\ ServiceAct(h) \/ UNCHANGED serviceVars
    /\ DnsFailed(h)
    /\ UNCHANGED <<domainReady, domainJson, released>>

\* Mutant: the requests are not counted.
DnsRedirectForever(h, status, location) ==
    /\ dns[h].pc = "request"
    /\ IF location = BadLocation THEN DnsFailed(h)
       ELSE dns' = [dns EXCEPT ![h].request = Redirected(@, Api.host, status, location)]
    /\ UNCHANGED <<domainReady, domainJson, serviceVars, dnsFaults, released>>

\* The tenth request is the last; a location that does not parse ends the call.
DnsRedirect(h, status, location) ==
    /\ dns[h].pc = "request"
    /\ IF dns[h].number = MaxFollow \/ location = BadLocation THEN DnsFailed(h)
       ELSE dns' = [dns EXCEPT ![h].request = Redirected(@, Api.host, status, location), ![h].number = @ + 1]
    /\ UNCHANGED <<domainReady, domainJson, serviceVars, dnsFaults, released>>

\* The second half of reserve_domain_inner: whatever is stored is overwritten.
\* An error of the store may hide that the domain was stored.
ReservePut(h) ==
    /\ dns[h].pc = "put"
    /\ \/ Reply(h, "ok") /\ UNCHANGED dnsFaults
       \/ Reply(h, "internal") /\ DnsFault
    /\ \/ domainJson' = EncodeStoredDomain(dns[h].domain)
       \/ dnsFaults' # dnsFaults /\ UNCHANGED domainJson
    /\ UNCHANGED <<domainReady, serviceVars, released>>

-----------------------------------------------------------------------------
DomainCall(h) ==
    \/ DomainReadFails(h) \/ ReserveRead(h) \/ ReleaseRead(h) \/ RecordRead(h) \/ ReleaseDelete(h)
    \/ ReservePut(h) \/ DnsExchange(h) \/ DnsLost(h)
    \/ \E status \in {302, 307}, location \in Locations : DnsRedirect(h, status, location)

DomainsNext == \E h \in DnsCalls : BeginDomainCall(h) \/ DomainCall(h)

\* The service and the store answer whatever is asked of them, in the end: the
\* client waits without a limit of its own.
DomainsFairness == WF_domainVars(\E h \in DnsCalls : DomainCall(h))

-----------------------------------------------------------------------------
RecordsBy(h) == SelectSeq(recorded, LAMBDA r : r.by = h)

\* Another call stored a domain that had looked before h had stored its own.
Overlapped(h) ==
    \E g \in Reservers \ {h} :
        dns[g].domain # Unset /\ dns[g].pc = "done" /\ h \notin dns[g].ahead

\* A call has the service reserve one domain at most. While the call goes on the
\* domain is on its way to the store; a call that failed said so, and the domain
\* may then be stored or not; after a call that succeeded the domain is stored,
\* unless it was deleted by ReleaseDomain or replaced by a call that overlapped.
\* So no ReserveDomain replaces the domain of a call that had returned before it
\* looked. What is stored is, with endpoint and token, what the service gave to
\* one call, and the caller of a successful call was told its own domain.
DomainsAreAccounted ==
    /\ \A i, j \in DOMAIN reserved : reserved[i].by = reserved[j].by => i = j
    /\ \A d \in ToSet(reserved) :
         LET call == dns[d.by]
         IN \/ call.pc = "put" /\ call.domain.name = d.name
            \/ call.reply = "internal"
            \/ /\ call.reply = "ok" /\ call.domain.name = d.name
               /\ d.name \in StoredNames \cup released \/ Overlapped(d.by)
    /\ domainJson # Unset => \E h \in Reservers :
         /\ dns[h].pc = "done" /\ dns[h].domain = DecodeStoredDomain(domainJson)
         /\ dns[h].domain.endpoint = "api" /\ dns[h].domain.token = dns[h].domain.name
    /\ \A h \in Reservers : dns[h].domain # Unset =>
         dns[h].domain.name \in {d.name : d \in {e \in ToSet(reserved) : e.by = h}} \cup {""}

\* CreateDomainRecords makes records of the domain it read, with its token and
\* in the order asked for; of those it has no answer about there is at most one,
\* and then the call fails. A request carries the token within the domain of the
\* endpoint only, a body with a POST only, and is the tenth at most.
RecordsAreAccounted ==
    \A h \in DnsCalls :
        LET named == SelectSeq(dns[h].made, LAMBDA r : r.fqdn # "")
        IN /\ Len(RecordsBy(h)) - Len(named) \in IF dns[h].reply = "unknown" THEN {0, 1} ELSE {0}
           /\ \A i \in DOMAIN named : \E r \in ToSet(dns[h].records) :
                /\ RecordsBy(h)[i].record = MapRecordRequest(r)
                /\ MapRecordResponse(named[i]) = [r EXCEPT !.type = IF r.type \in 1..2 THEN r.type ELSE 0]
           /\ \A r \in ToSet(RecordsBy(h)) : r.domain = dns[h].domain.name /\ r.token = r.domain
           /\ dns[h].pc = "request" =>
                /\ "authorization" \in dns[h].request.headers => Own(dns[h].request.url)
                /\ dns[h].request.body => dns[h].request.method = "POST"
                /\ dns[h].number <= MaxFollow

\* Every call returns, whatever the service redirects to.
\* (True again and again in every fair behaviour.)
DomainCallsAreOver == \A h \in DnsCalls : dns[h].pc \in {"idle", "done"}
=============================================================================
