----------------------------- MODULE Corroservice ----------------------------
(***************************************************************************)
(* DockerService of crates/ployz-internal-machine-corroservice: the        *)
(* Corrosion container is brought to the wanted image and started, stopped,*)
(* restarted or removed by a sequence of requests to the Docker engine.    *)
(* The daemon makes one call at a time; between two requests the engine    *)
(* fails, answers get lost, and others touch the container.                *)
(*                                                                         *)
(* Corrosion gossips over the WireGuard network and its container is one   *)
(* of the Docker engine: with those two it is what a machine needs before  *)
(* it is a member, so what the three promise is stated here.               *)
(***************************************************************************)
EXTENDS WireGuard, DockerClient

CONSTANTS MaxCorroFaults,   \* bound on faults and interference
          NotifyMax         \* TIMEOUT_NOTIFY_MAX in intervals

ASSUME CorroAssumption == NotifyMax \in Nat \ {0}

VARIABLES corrosion,  \* what the engine holds under the service's name
          pulled,     \* the wanted image is present
          serving,    \* Corrosion answers the readiness query
          call,       \* the operation being run, or the last one
          at,         \* the request it makes next, or how it returned
          notifying, elapsed, \* the ticker that extends systemd's timeout
          meddled,    \* someone else touched the container during the call
          corroFaults

corroVars == <<corrosion, pulled, serving, call, at, notifying, elapsed, meddled, corroFaults>>

Absent == [image |-> "none", running |-> FALSE]
ContainerConfig == [image |-> "wanted", running |-> FALSE]
Returned == at \in {"ok", "error"}

CorroInit ==
    /\ corrosion \in {Absent, [image |-> "old", running |-> TRUE],
                      [image |-> "wanted", running |-> FALSE]}
    /\ pulled = FALSE /\ serving = corrosion.running
    /\ call = "none" /\ at = "ok" /\ notifying = FALSE /\ elapsed = 0
    /\ meddled = FALSE /\ corroFaults = 0

\* The engine's answer to a request, and the container it leaves.
Engine(request) ==
    LET answer(code, c) == [status |-> code, corrosion |-> c]
    IN  CASE corrosion = Absent /\ request \in {"create", "createAgain"} ->
                IF pulled THEN answer("ok", ContainerConfig)
                          ELSE answer("404", Absent)
          [] corrosion = Absent /\ request \notin {"create", "createAgain"} ->
                answer("404", Absent)
          [] corrosion # Absent /\ request = "inspect" -> answer("ok", corrosion)
          [] corrosion # Absent /\ request \in {"start", "restart"} ->
                answer("ok", [corrosion EXCEPT !.running = TRUE])
          [] corrosion # Absent /\ request \in {"stop", "stopOld", "stopLast"} ->
                answer("ok", [corrosion EXCEPT !.running = FALSE])
          [] corrosion # Absent /\ request \in {"remove", "removeLast"} ->
                IF corrosion.running THEN answer("409", corrosion) ELSE answer("ok", Absent)
          [] OTHER -> answer("409", corrosion)

\* Mutant: a container of another image is started as it is.
AfterInspectAnyImage(found) == IF ~found.running THEN "start" ELSE "ready"

AfterInspect(found) ==
    IF found.image # "wanted" THEN "stopOld"
    ELSE IF ~found.running THEN "start" ELSE "ready"

\* Mutant: the former container is stopped and not removed.
AfterStopOldKept(code) == IF code \in {"ok", "404"} THEN "create" ELSE "error"

AfterStopOld(code) == IF code \in {"ok", "404"} THEN "remove" ELSE "error"

\* Where an operation goes on after the answer: start_inner, create_and_start,
\* stop, restart and cleanup.
AfterReply(request, code) ==
    CASE request = "inspect" -> IF code = "404" THEN "create" ELSE
                                IF code = "ok" THEN AfterInspect(corrosion) ELSE "error"
      [] request = "stopOld" -> AfterStopOld(code)
      [] request = "remove" -> IF code \in {"ok", "404"} THEN "create" ELSE "error"
      [] request = "create" -> IF code = "ok" THEN "start" ELSE
                               IF code = "404" THEN "pull" ELSE "error"
      [] request = "createAgain" -> IF code = "ok" THEN "start" ELSE "error"
      [] request = "start" -> IF code = "ok" THEN "ready" ELSE "error"
      [] request = "stop" -> IF code \in {"ok", "404"} THEN "ok" ELSE "error"
      [] request = "stopLast" -> IF code = "404" THEN "ok" ELSE
                                 IF code = "ok" THEN "removeLast" ELSE "error"
      [] OTHER -> IF code = "ok" THEN "ok" ELSE "error"

First == [start |-> "inspect", stop |-> "stop", restart |-> "restart", cleanup |-> "stopLast"]

Call(op) ==
    /\ Returned
    /\ call' = op /\ at' = First[op] /\ meddled' = FALSE
    /\ UNCHANGED <<corrosion, pulled, serving, notifying, elapsed, corroFaults>>

\* Corrosion keeps answering only while its container goes on undisturbed.
HoldContainer(c, request) ==
    /\ corrosion' = c
    /\ serving' = (serving /\ c.running /\ request # "restart")

\* pull_image_with_schedule starts with the first tick an interval away.
Goto(next) ==
    /\ at' = next
    /\ notifying' = (next = "pull")
    /\ elapsed' = 0

Request ==
    /\ ~Returned /\ at \notin {"pull", "ready"}
    /\ LET given == Engine(at)
       IN  HoldContainer(given.corrosion, at) /\ Goto(AfterReply(at, given.status))
    /\ UNCHANGED <<pulled, call, meddled, corroFaults>>

CorroFault == corroFaults < MaxCorroFaults /\ corroFaults' = corroFaults + 1

\* The request fails, or it is carried out and its answer is lost.
RequestFails ==
    /\ ~Returned /\ at \notin {"pull", "ready"}
    /\ CorroFault
    /\ \E c \in {corrosion, Engine(at).corrosion} : HoldContainer(c, at)
    /\ Goto("error")
    /\ UNCHANGED <<pulled, call, meddled>>

PullEnds ==
    /\ at = "pull"
    /\ \/ pulled' = TRUE /\ Goto("createAgain") /\ UNCHANGED corroFaults
       \/ CorroFault /\ Goto("error") /\ UNCHANGED pulled
    /\ UNCHANGED <<corrosion, serving, call, meddled>>

\* A tick: past the maximum, or when systemd is not there, the ticker is off.
ExtendTimeout ==
    /\ at = "pull" /\ notifying
    /\ \/ elapsed < NotifyMax /\ elapsed' = elapsed + 1 /\ UNCHANGED notifying
       \/ notifying' = FALSE /\ UNCHANGED elapsed
    /\ UNCHANGED <<corrosion, pulled, serving, call, at, meddled, corroFaults>>

\* wait_ready: the query is answered, or the config cannot be read, or the
\* backoff has used up its time, as it will when the container does not run.
WaitReady ==
    /\ at = "ready"
    /\ \/ serving /\ Goto("ok") /\ UNCHANGED corroFaults
       \/ ~corrosion.running /\ Goto("error") /\ UNCHANGED corroFaults
       \/ CorroFault /\ Goto("error")
    /\ UNCHANGED <<corrosion, pulled, serving, call, meddled>>

(* Others *)

Boot ==
    /\ corrosion.running /\ ~serving
    /\ serving' = TRUE
    /\ UNCHANGED <<corrosion, pulled, call, at, notifying, elapsed, meddled, corroFaults>>

\* Someone stops or removes the container, or it stops and is restarted.
Meddle ==
    /\ CorroFault /\ corrosion # Absent /\ meddled' = TRUE
    /\ \E c \in {Absent, [corrosion EXCEPT !.running = FALSE], corrosion} :
          corrosion' = c /\ serving' = FALSE
    /\ UNCHANGED <<pulled, call, at, notifying, elapsed>>

PruneImage ==
    /\ CorroFault /\ pulled
    /\ pulled' = FALSE
    /\ UNCHANGED <<corrosion, serving, call, at, notifying, elapsed, meddled>>

CorroNext ==
    \/ \E op \in DOMAIN First : Call(op)
    \/ Request \/ RequestFails \/ PullEnds \/ ExtendTimeout \/ WaitReady
    \/ Boot \/ Meddle \/ PruneImage

\* Requests and pulls are answered, and a Corrosion that runs starts to serve.
CorroFairness ==
    WF_corroVars(Request \/ PullEnds \/ WaitReady \/ Boot)

CorroSpec == CorroInit /\ [][CorroNext]_corroVars /\ CorroFairness
-----------------------------------------------------------------------------
\* A start that returned Ok found, whatever failed calls and lost answers left
\* behind, a way to a running container of the wanted image that answers
\* queries, unless others touched it meanwhile (docker.rs:138-175).
StartEstablishes ==
    call = "start" /\ at = "ok" /\ ~meddled =>
        corrosion = [image |-> "wanted", running |-> TRUE] /\ serving

\* A daemon that calls start again and again succeeds again and again: no
\* partial failure leaves a container that start cannot get past.
StartRecovers == []<>(call = "start" /\ ~Returned) => []<>(call = "start" /\ at = "ok")

\* Whatever failed or was lost before: after configure the device has the peers,
\* routes and addresses of its configuration, after start the container of this
\* version runs, and a pull that succeeded was told so by the engine.
ServicesAreEstablished == ConfigureConverges /\ StartEstablishes /\ PullIsWhole
=============================================================================
