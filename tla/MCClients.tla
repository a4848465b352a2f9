------------------------------- MODULE MCClients ------------------------------
(***************************************************************************)
(* Calls to other machines and services and a subscription, which share no *)
(* state, checked side by side: in every behaviour one of them, active,    *)
(* takes all the steps. In the initial state of a component only steps of  *)
(* its environment are enabled, so that fairness asks nothing of the       *)
(* others.                                                                 *)
(***************************************************************************)
EXTENDS Remote, Domains, ChangeStream

VARIABLE active

\* Redirects within the domain of the service, away from it, and to nowhere.
MCLocations ==
    {[host |-> <<"eu", "dns", "run">>, https |-> FALSE], [host |-> <<"run">>, https |-> TRUE], BadLocation}
MCAskedRecords ==
    <<[name |-> "www", type |-> 1, values |-> {"v"}], [name |-> "www", type |-> 3, values |-> {}]>>

poolVars == <<active, cliVars, sshVars, remoteVars, domainVars, vars>>

PoolInit ==
    /\ active \in {"cli", "ssh", "remote", "domains", "changes"}
    /\ CliInit /\ SshInit /\ RemoteInit /\ DomainsInit /\ Init
    /\ active # "cli" => writers
    /\ active # "ssh" => identity = 0
    /\ active # "remote" => rstream
    /\ active # "domains" => domainReady
    /\ active # "changes" => resubscribe

\* The others stay as they are.
Rest(name) ==
    /\ name # "cli" => UNCHANGED cliVars
    /\ name # "ssh" => UNCHANGED sshVars
    /\ name # "remote" => UNCHANGED remoteVars
    /\ name # "domains" => UNCHANGED domainVars
    /\ name # "changes" => UNCHANGED vars
    /\ UNCHANGED active

PoolNext ==
    \/ active = "cli" /\ CliNext /\ Rest("cli")
    \/ active = "ssh" /\ SshNext /\ Rest("ssh")
    \/ active = "remote" /\ RemoteNext /\ Rest("remote")
    \/ active = "domains" /\ DomainsNext /\ Rest("domains")
    \/ active = "changes" /\ Next /\ Rest("changes")

PoolSpec ==
    /\ PoolInit /\ [][PoolNext]_poolVars
    /\ CliFairness /\ SshFairness /\ RemoteFairness /\ DomainsFairness
    /\ Fairness

-----------------------------------------------------------------------------
\* Every domain the DNS service has made is on its way to the store, or belongs
\* to a call that was told of a failure, or to one that was told its name and
\* whose domain is stored, was released, or was replaced by a call that
\* overlapped it. Of the records it has made for a call, the call lacks the
\* answer about one at most, and then its caller was told of a failure.
DomainsAreTold == DomainsAreAccounted /\ RecordsAreAccounted

\* Every call comes to its end: again and again a cancelled command has
\* returned and its process is reaped, nobody waits for a session but behind an
\* open that the server owes, the calls about domains have returned, and the
\* consumer of a subscription that ended was told so.
CallsEnd ==
    []<>(/\ CancelledCallIsOver /\ OpensAreOver /\ CancelledCommandIsOver
         /\ DomainCallsAreOver /\ EndIsReported)
=============================================================================
