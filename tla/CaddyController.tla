---------------------------- MODULE CaddyController ----------------------------
(***************************************************************************)
(* The controller of crates/ployz-internal-machine-caddyconfig that keeps   *)
(* the local Caddy's configuration in step with the containers in the       *)
(* store, its cache of the last load, and the Caddyfile on disk that Caddy  *)
(* starts from.                                                             *)
(*                                                                          *)
(* Caddy runs in a container of its own, which the store lists while it is  *)
(* healthy: a restart of Caddy changes the list twice.                      *)
(***************************************************************************)
EXTENDS Naturals

CONSTANTS
    Services,     \* what the healthy service containers can be
    None,         \* no service containers
    Custom,       \* those with user-defined configs
    Broken,       \* those whose full Caddyfile validates but does not load
    MaxChanges,   \* bound on changes of the services
    MaxStops,     \* bound on stops of Caddy
    MaxFaults     \* bound on failed calls and restarts of the controller

ASSUME CaddyAssumption ==
    /\ None \in Services
    /\ Broken \subseteq Custom
    /\ Custom \subseteq Services \ {None}
    /\ MaxChanges \in Nat /\ MaxStops \in Nat /\ MaxFaults \in Nat

VARIABLES
    containers,        \* healthy containers in the store
    pending,           \* a notification waits in the subscription
    caddy,             \* "up" or "down"
    unreported,        \* the store does not know yet that Caddy stopped or started
    running,           \* the Caddyfile that Caddy has loaded
    disk,              \* the Caddyfile on disk
    pc,                \* where Controller::run is
    listed, available, caddyfile,        \* its local variables
    last_fingerprint, last_caddyfile,    \* fields of Controller
    unfinished,        \* a write of the file on disk was begun and has not ended
    restarted,         \* Caddy was started since the last successful load
    failed,            \* the last change was given up
    changes, stops, faults

store == <<containers, pending>>
onDisk == <<disk, unfinished>>
container == <<caddy, unreported>>
local == <<listed, available, caddyfile>>
cache == <<last_fingerprint, last_caddyfile>>
bounds == <<changes, stops, faults>>
vars == <<store, container, running, onDisk, pc, local, cache, restarted, failed, bounds>>

\* A list of healthy containers, which is also its fingerprint.
Lists == [services : Services, caddy : BOOLEAN]
Empty == [services |-> None, caddy |-> FALSE]

\* A Caddyfile without its time stamp: what it was generated from, and whether the
\* user-defined configs are in it, were found invalid, or were left out. A torn one is
\* empty or breaks off.
Kinds == {"none", "plain", "custom", "skipped", "unavailable", "torn"}
Files == [of : Services, kind : Kinds]
NoFile == [of |-> None, kind |-> "none"]
Torn == [of |-> None, kind |-> "torn"]
File(list, kind) == [of |-> list.services, kind |-> kind]

Init ==
    /\ containers \in {list \in Lists : ~list.caddy}
    /\ pending = FALSE
    /\ caddy = "down" /\ unreported = FALSE /\ running = NoFile
    /\ disk = NoFile /\ unfinished = FALSE
    /\ pc = "start"
    /\ listed = Empty /\ available = FALSE /\ caddyfile = NoFile
    /\ last_fingerprint = Empty /\ last_caddyfile = NoFile
    /\ restarted = TRUE /\ failed = FALSE
    /\ changes = 0 /\ stops = 0 /\ faults = 0

Fault == faults < MaxFaults /\ faults' = faults + 1 /\ UNCHANGED <<changes, stops>>

-----------------------------------------------------------------------------
(* Controller::run *)

Subscribe ==
    /\ pc = "start"
    /\ listed' = containers
    /\ pending' = FALSE
    /\ pc' = "check"
    /\ UNCHANGED <<containers, container, running, onDisk, available, caddyfile, cache, restarted,
                   failed, bounds>>

Recv ==
    /\ pc = "recv"
    /\ pending
    /\ pending' = FALSE
    /\ pc' = "list"
    /\ UNCHANGED <<containers, container, running, onDisk, local, cache, restarted, failed, bounds>>

\* Mutant: the subscription is drained once more after the list was read.
ListAndDrain ==
    /\ pc = "check" \/ pc = "list"
    /\ listed' = IF pc = "list" THEN containers ELSE listed
    /\ pending' = FALSE
    /\ pc' = "check"
    /\ UNCHANGED <<containers, container, running, onDisk, available, caddyfile, cache, restarted,
                   failed, bounds>>

ListContainers ==
    /\ pc = "list"
    /\ listed' = containers
    /\ pc' = "check"
    /\ UNCHANGED <<store, container, running, onDisk, available, caddyfile, cache, restarted, failed,
                   bounds>>

ListFails ==
    /\ pc = "list"
    /\ Fault
    /\ failed' = TRUE
    /\ pc' = "recv"
    /\ UNCHANGED <<store, container, running, onDisk, local, cache, restarted>>

-----------------------------------------------------------------------------
(* generate_and_load_caddyfile *)

CheckAvailable ==
    /\ pc = "check"
    /\ available' = (caddy = "up")
    /\ LET skip == available' /\ last_fingerprint = listed
       IN /\ pc' = IF skip THEN "recv" ELSE "generate"
          /\ failed' = (failed /\ ~skip)
    /\ UNCHANGED <<store, container, running, onDisk, listed, caddyfile, cache, restarted, bounds>>

\* is_available gets no answer within its second from a Caddy that is up.
CheckTimesOut ==
    /\ pc = "check"
    /\ caddy = "up"
    /\ Fault
    /\ available' = FALSE
    /\ failed' = TRUE
    /\ pc' = "generate"
    /\ UNCHANGED <<store, container, running, onDisk, listed, caddyfile, cache, restarted>>

\* The user-defined configs are put to Caddy one by one; those it does not answer
\* for are left out.
Generate ==
    /\ pc = "generate"
    /\ \/ /\ ~available
          /\ caddyfile' = File(listed, "unavailable")
          /\ pc' = "write"
          /\ UNCHANGED bounds
       \/ /\ available
          /\ listed.services \notin Custom
          /\ caddyfile' = File(listed, "plain")
          /\ pc' = "load"
          /\ UNCHANGED bounds
       \/ /\ available
          /\ listed.services \in Custom
          /\ \/ caddy = "up" /\ caddyfile' = File(listed, "custom") /\ UNCHANGED bounds
             \/ caddy = "down" /\ caddyfile' = File(listed, "skipped") /\ UNCHANGED bounds
             \/ caddy = "up" /\ caddyfile' = File(listed, "skipped") /\ Fault
          /\ pc' = "load"
    /\ UNCHANGED <<store, container, running, onDisk, listed, available, cache, restarted, failed>>

\* Whether Caddy can run the file.
Loads(file) == file.kind # "torn" /\ ~(file.kind = "custom" /\ file.of \in Broken)

Load ==
    /\ pc = "load"
    /\ caddy = "up"
    /\ Loads(caddyfile)
    /\ running' = caddyfile
    /\ last_fingerprint' = listed
    /\ restarted' = FALSE
    /\ failed' = FALSE
    /\ pc' = "write"
    /\ UNCHANGED <<store, container, onDisk, local, last_caddyfile, bounds>>

\* Mutant: the cache survives a failed load.
LoadFailsQuietly ==
    /\ pc = "load"
    /\ \/ /\ caddy = "down" \/ ~Loads(caddyfile)
          /\ UNCHANGED <<running, bounds>>
       \/ caddy = "up" /\ Loads(caddyfile) /\ running' \in {running, caddyfile} /\ Fault
    /\ failed' = TRUE
    /\ pc' = "recv"
    /\ UNCHANGED <<store, container, onDisk, local, cache, restarted>>

\* Mutant: the file is written to disk although Caddy did not take it.
LoadFailsThenWrites ==
    /\ pc = "load"
    /\ \/ /\ caddy = "down" \/ ~Loads(caddyfile)
          /\ UNCHANGED <<running, bounds>>
       \/ caddy = "up" /\ Loads(caddyfile) /\ running' \in {running, caddyfile} /\ Fault
    /\ last_fingerprint' = Empty
    /\ failed' = TRUE
    /\ pc' = "write"
    /\ UNCHANGED <<store, container, onDisk, local, last_caddyfile, restarted>>

\* Caddy is gone or rejects the file, or no answer comes in time, with or without
\* the file loaded.
LoadFails ==
    /\ pc = "load"
    /\ \/ /\ caddy = "down" \/ ~Loads(caddyfile)
          /\ UNCHANGED <<running, bounds>>
       \/ caddy = "up" /\ Loads(caddyfile) /\ running' \in {running, caddyfile} /\ Fault
    /\ last_fingerprint' = Empty
    /\ failed' = TRUE
    /\ pc' = "recv"
    /\ UNCHANGED <<store, container, onDisk, local, last_caddyfile, restarted>>

\* write_caddyfile_if_changed
Unchanged ==
    /\ pc = "write"
    /\ caddyfile = last_caddyfile
    /\ pc' = "recv"
    /\ UNCHANGED <<store, container, running, onDisk, local, cache, restarted, failed, bounds>>

\* write_mode opens the file, which truncates it ...
OpenFile ==
    /\ pc = "write"
    /\ caddyfile # last_caddyfile
    /\ disk' = Torn /\ unfinished' = TRUE
    /\ pc' = "writing"
    /\ UNCHANGED <<store, container, running, local, cache, restarted, failed, bounds>>

\* ... and writes it in place; set_group follows.
Write ==
    /\ pc = "writing"
    /\ disk' = caddyfile /\ unfinished' = FALSE
    /\ last_caddyfile' = caddyfile
    /\ pc' = "recv"
    /\ UNCHANGED <<store, container, running, local, last_fingerprint, restarted, failed, bounds>>

\* Mutant: the file is remembered although it was not written.
WriteFailsRemembered ==
    /\ \/ pc = "write" /\ caddyfile # last_caddyfile /\ disk' = disk
       \/ pc = "writing" /\ disk' \in {Torn, caddyfile}
    /\ Fault
    /\ last_caddyfile' = caddyfile
    /\ pc' = "recv"
    /\ UNCHANGED <<store, container, running, unfinished, local, last_fingerprint, restarted, failed>>

\* The file cannot be opened, write_all breaks off, or set_group fails when the file
\* is written.
WriteFails ==
    /\ \/ pc = "write" /\ caddyfile # last_caddyfile /\ disk' = disk
       \/ pc = "writing" /\ disk' \in {Torn, caddyfile}
    /\ Fault
    /\ pc' = "recv"
    /\ UNCHANGED <<store, container, running, unfinished, local, cache, restarted, failed>>

\* The subscription or the process ends, and a new Controller starts.
Restart ==
    /\ Fault
    /\ pc' = "start"
    /\ listed' = Empty /\ available' = FALSE /\ caddyfile' = NoFile
    /\ last_fingerprint' = Empty /\ last_caddyfile' = NoFile
    /\ failed' = FALSE
    /\ UNCHANGED <<store, container, running, onDisk, restarted>>

-----------------------------------------------------------------------------
(* The rest of the machine (external) *)

ServicesChange ==
    /\ changes < MaxChanges
    /\ changes' = changes + 1
    /\ \E services \in Services \ {containers.services} :
          containers' = [containers EXCEPT !.services = services]
    /\ pending' = TRUE
    /\ UNCHANGED <<container, running, onDisk, pc, local, cache, restarted, failed, stops, faults>>

CaddyStops ==
    /\ stops < MaxStops
    /\ stops' = stops + 1
    /\ caddy = "up"
    /\ caddy' = "down"
    /\ unreported' = TRUE
    /\ running' = NoFile
    /\ UNCHANGED <<store, onDisk, pc, local, cache, restarted, failed, changes, faults>>

\* With a torn file it may come up or not.
CaddyStarts ==
    /\ caddy = "down"
    /\ caddy' = "up"
    /\ unreported' = TRUE
    /\ running' = disk
    /\ restarted' = TRUE
    /\ UNCHANGED <<store, onDisk, pc, local, cache, failed, bounds>>

\* The daemon records the health of Caddy's container in the store.
ReportCaddy ==
    /\ unreported
    /\ unreported' = FALSE
    /\ containers' = [containers EXCEPT !.caddy = (caddy = "up")]
    /\ pending' = TRUE
    /\ UNCHANGED <<caddy, running, onDisk, pc, local, cache, restarted, failed, bounds>>

-----------------------------------------------------------------------------
Step ==
    \/ Subscribe \/ Recv \/ ListContainers \/ CheckAvailable \/ Generate
    \/ Load \/ Unchanged \/ OpenFile \/ Write

Next ==
    \/ Step \/ ListFails \/ CheckTimesOut \/ LoadFails \/ WriteFails \/ Restart
    \/ ServicesChange \/ CaddyStops \/ CaddyStarts \/ ReportCaddy

Spec == Init /\ [][Next]_vars

\* The controller's task runs, its calls end, and the daemon reports Caddy's container
\* and starts it, unless the file is torn.
Fairness ==
    /\ WF_vars(Step \/ LoadFails)
    /\ WF_vars(disk # Torn /\ CaddyStarts)
    /\ WF_vars(ReportCaddy)

FairSpec == Spec /\ Fairness

-----------------------------------------------------------------------------
TypeOK ==
    /\ containers \in Lists /\ pending \in BOOLEAN
    /\ caddy \in {"up", "down"} /\ unreported \in BOOLEAN
    /\ running \in Files /\ disk \in Files
    /\ pc \in {"start", "recv", "list", "check", "generate", "load", "write", "writing"}
    /\ unfinished \in BOOLEAN
    /\ listed \in Lists /\ available \in BOOLEAN /\ caddyfile \in Files
    /\ last_fingerprint \in Lists /\ last_caddyfile \in Files
    /\ restarted \in BOOLEAN /\ failed \in BOOLEAN
    /\ changes \in 0..MaxChanges /\ stops \in 0..MaxStops /\ faults \in 0..MaxFaults

\* The Caddyfile on disk is one that Caddy can start from, and the one that the
\* controller remembers, whatever call of generate_and_load_caddyfile failed and
\* wherever the controller or Caddy stopped: all but a write of it that was begun and
\* did not end. write_mode truncates the file and writes it in place, so a write that
\* breaks off leaves a torn one, which stays until a file that differs from
\* last_caddyfile is written. What is whole can always be loaded.
DiskIsSound ==
    /\ Loads(disk) \/ (disk = Torn /\ unfinished)
    /\ unfinished \/ last_caddyfile \in {NoFile, disk}

\* The cache tells the truth about a Caddy that has not been started again since:
\* it runs the file of the containers in last_fingerprint, so that skipping a load
\* leaves it up to date.
CacheIsTrue ==
    (caddy = "up" /\ ~restarted /\ last_fingerprint # Empty)
        => running.of = last_fingerprint.services

\* Once containers and Caddy settle, a Caddy that is up and was not started since its
\* last load serves the services in the store, unless the last change was given up on a
\* failed call: no notification is lost between two lists.
CatchesUpUnlessRestarted ==
    <>[]((caddy = "up" /\ ~restarted /\ ~failed) => running.of = containers.services)

\* Once containers and Caddy settle and no call failed, Caddy runs the user-defined
\* configs of the services in the store.
CaddyIsReloaded ==
    <>[]((containers.services \in Custom /\ ~failed) => running = File(containers, "custom"))
=============================================================================
