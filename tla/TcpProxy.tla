------------------------------ MODULE TcpProxy ------------------------------
(***************************************************************************)
(* The TCP proxy of crates/ployz-internal-proxy: Proxy::run accepts local  *)
(* connections, each under a permit of a semaphore, and hands each one to  *)
(* a task that dials the remote address and copies in both directions.     *)
(***************************************************************************)
EXTENDS Naturals, FiniteSets

CONSTANTS Conns,           \* the clients that may connect
          max_connections, \* capacity of the semaphore
          Directions       \* the two directions of copy_bidirectional

ASSUME ProxyAssumption == /\ IsFiniteSet(Conns)
                          /\ max_connections \in Nat \ {0}
                          /\ Directions # {}

VARIABLES loop,      \* where Proxy::run is: one of Loops
          context,   \* the run's cancellation token is cancelled
          listening, \* the listener has not been closed
          capacity,  \* permits left in the semaphore
          permit,    \* the accept loop holds a permit
          conn,      \* the life of a client's connection: one of Stages
          copying,   \* the directions of a connection that have not met EOF
          panic,     \* a handler's panic has been recorded
          run_error  \* accepting failed before the run was cancelled

proxyVars == <<loop, context, listening, capacity, permit, conn, copying,
               panic, run_error>>

Loops == {"idle", "acquire", "accept", "join", "ok", "error", "panicked", "dropped"}
Stages == {"new", "backlog", "dial", "copy", "ended", "panicked", "joined"}

Live(c) == conn[c] \in {"dial", "copy"}
Joinable(c) == conn[c] \in {"ended", "panicked"}
Running == loop \in {"acquire", "accept", "join"}

ProxyTypeOK ==
    /\ loop \in Loops
    /\ context \in BOOLEAN /\ listening \in BOOLEAN /\ permit \in BOOLEAN
    /\ panic \in BOOLEAN /\ run_error \in BOOLEAN
    /\ capacity \in 0..max_connections
    /\ conn \in [Conns -> Stages]
    /\ copying \in [Conns -> SUBSET Directions]

ProxyInit ==
    /\ loop = "idle" /\ context = FALSE /\ listening = TRUE
    /\ capacity = max_connections /\ permit = FALSE
    /\ conn = [c \in Conns |-> "new"]
    /\ copying = [c \in Conns |-> {}]
    /\ panic = FALSE /\ run_error = FALSE

\* A client's connection enters the backlog of the operating system.
Arrive(c) ==
    /\ listening /\ conn[c] = "new"
    /\ conn' = [conn EXCEPT ![c] = "backlog"]
    /\ UNCHANGED <<loop, context, listening, capacity, permit, copying, panic, run_error>>

RunProxy ==
    /\ loop = "idle"
    /\ loop' = "acquire"
    /\ UNCHANGED <<context, listening, capacity, permit, conn, copying, panic, run_error>>

\* The parent token is cancelled, and the run's child token with it.
CancelRun ==
    /\ Running /\ ~context
    /\ context' = TRUE
    /\ UNCHANGED <<loop, listening, capacity, permit, conn, copying, panic, run_error>>

\* ProxyListener::close; the path of a Unix socket goes with it.
CloseListener == listening' = FALSE

\* ProxyListener::accept has a client to return.
Backlogged(c) == listening /\ conn[c] = "backlog"

RecordJoinResult(c) == panic' = (panic \/ conn[c] = "panicked")

\* The end of the accept loop: no await separates the break from the close.
StopAccepting ==
    /\ loop' = "join" /\ context' = TRUE /\ CloseListener /\ permit' = FALSE

\* Mutant: a permit in hand is forgotten when the loop turns to something else.
ReturnNoPermit == UNCHANGED capacity
ReturnPermit == capacity' = IF permit THEN capacity + 1 ELSE capacity

(* The select statements of the accept loop. tokio takes any ready branch. *)

AcquirePermit ==
    /\ loop = "acquire" /\ capacity > 0
    /\ loop' = "accept" /\ permit' = TRUE /\ capacity' = capacity - 1
    /\ UNCHANGED <<context, listening, conn, copying, panic, run_error>>

AcceptConnection(c) ==
    /\ loop = "accept" /\ Backlogged(c)
    /\ loop' = "acquire" /\ permit' = FALSE
    /\ conn' = [conn EXCEPT ![c] = "dial"]
    /\ UNCHANGED <<context, listening, capacity, copying, panic, run_error>>

AcceptFails ==
    /\ loop = "accept"
    /\ run_error' = ~context
    /\ StopAccepting /\ ReturnPermit
    /\ UNCHANGED <<conn, copying, panic>>

ObserveCancel ==
    /\ loop \in {"acquire", "accept"} /\ context
    /\ StopAccepting /\ ReturnPermit
    /\ UNCHANGED <<conn, copying, panic, run_error>>

\* A finished handler is joined by the loop; the permit in hand goes back.
JoinNext(c) ==
    /\ loop \in {"acquire", "accept"} /\ Joinable(c)
    /\ conn' = [conn EXCEPT ![c] = "joined"]
    /\ RecordJoinResult(c)
    /\ ReturnPermit
    /\ IF panic'
       THEN StopAccepting
       ELSE loop' = "acquire" /\ permit' = FALSE /\ UNCHANGED <<context, listening>>
    /\ UNCHANGED <<copying, run_error>>

JoinRemaining(c) ==
    /\ loop = "join" /\ Joinable(c)
    /\ conn' = [conn EXCEPT ![c] = "joined"]
    /\ RecordJoinResult(c)
    /\ UNCHANGED <<loop, context, listening, capacity, permit, copying, run_error>>

\* Mutant: run returns without joining its handlers.
ReturnAtOnce ==
    /\ loop = "join"
    /\ loop' = IF panic THEN "panicked" ELSE IF run_error THEN "error" ELSE "ok"
    /\ UNCHANGED <<context, listening, capacity, permit, conn, copying, panic, run_error>>

ReturnFromRun ==
    /\ loop = "join" /\ \A c \in Conns : ~Live(c) /\ ~Joinable(c)
    /\ loop' = IF panic THEN "panicked" ELSE IF run_error THEN "error" ELSE "ok"
    /\ UNCHANGED <<context, listening, capacity, permit, conn, copying, panic, run_error>>

\* The caller drops the future of run: the join set aborts its tasks.
DropRun ==
    /\ Running
    /\ loop' = "dropped"
    /\ conn' = [c \in Conns |-> IF Live(c) \/ Joinable(c) THEN "joined" ELSE conn[c]]
    /\ copying' = [c \in Conns |-> {}]
    /\ permit' = FALSE
    /\ capacity' = max_connections
    /\ UNCHANGED <<context, listening, panic, run_error>>

(* handle_connection. Its permit goes back when the task ends. *)

Finish(c, stage) ==
    /\ conn' = [conn EXCEPT ![c] = stage]
    /\ copying' = [copying EXCEPT ![c] = {}]
    /\ capacity' = capacity + 1
    /\ UNCHANGED <<loop, context, listening, permit, panic, run_error>>

DialSucceeds(c) ==
    /\ conn[c] = "dial"
    /\ conn' = [conn EXCEPT ![c] = "copy"]
    /\ copying' = [copying EXCEPT ![c] = Directions]
    /\ UNCHANGED <<loop, context, listening, capacity, permit, panic, run_error>>

\* The dial fails, or the deadline or the cancellation comes first.
DialEnds(c) == conn[c] = "dial" /\ Finish(c, "ended")

\* EOF in one direction is passed on (an error of the shutdown is ignored);
\* the copy ends when both directions have met it.
CopyMeetsEof(c, d) ==
    /\ conn[c] = "copy" /\ d \in copying[c]
    /\ \/ copying[c] = {d} /\ Finish(c, "ended")
       \/ /\ copying[c] # {d}
          /\ copying' = [copying EXCEPT ![c] = @ \ {d}]
          /\ UNCHANGED <<loop, context, listening, capacity, permit, conn, panic, run_error>>

CopyFails(c) == conn[c] = "copy" /\ Finish(c, "ended")

\* Mutant: the copy does not listen to the run's cancellation.
CopyCancelledOnceDialled(c) == conn[c] = "dial" /\ context /\ Finish(c, "ended")
CopyCancelled(c) == conn[c] = "copy" /\ context /\ Finish(c, "ended")

\* The dialer, or the error handler the failure is reported to, panics.
HandlerPanics(c) == Live(c) /\ Finish(c, "panicked")

AcceptLoop ==
    \/ AcquirePermit \/ ObserveCancel \/ ReturnFromRun
    \/ \E c \in Conns : AcceptConnection(c) \/ JoinNext(c) \/ JoinRemaining(c)

ProxyNext ==
    \/ RunProxy \/ CancelRun \/ AcceptFails \/ DropRun \/ AcceptLoop
    \/ \E c \in Conns :
          \/ Arrive(c) \/ DialSucceeds(c) \/ DialEnds(c)
          \/ CopyFails(c) \/ CopyCancelled(c) \/ HandlerPanics(c)
          \/ \E d \in Directions : CopyMeetsEof(c, d)

\* The loop and the handlers are polled and DIAL_TIMEOUT bounds a dial. Nothing
\* is asked of the peers: an idle one may keep its permit for ever.
ProxyFairness ==
    /\ WF_proxyVars(AcceptLoop)
    /\ SF_proxyVars(\E c \in Conns : AcceptConnection(c))
    /\ WF_proxyVars(\E c \in Conns : DialEnds(c) \/ DialSucceeds(c) \/ CopyCancelled(c))

ProxySpec == ProxyInit /\ [][ProxyNext]_proxyVars /\ ProxyFairness
-----------------------------------------------------------------------------
\* Every permit is in the semaphore, in the hand of the accept loop, or with a
\* handler that has not ended: none is lost on the way through run's selects,
\* so the capacity neither shrinks nor is exceeded (proxy.rs:279-321).
PermitsAccounted ==
    capacity + (IF permit THEN 1 ELSE 0) + Cardinality({c \in Conns : Live(c)})
        = max_connections

\* "A listener failure is returned after all accepted connections have
\* stopped" (proxy.rs:263): when run has returned or unwinds nothing of it is
\* left, the listener is closed and every permit is back.
DrainedAtReturn ==
    loop \in {"ok", "error", "panicked"} =>
        /\ ~listening /\ capacity = max_connections
        /\ \A c \in Conns : conn[c] \in {"new", "backlog", "joined"}
        /\ (loop = "panicked") = panic

\* The proxy returns each permit exactly once, and from run with no handler left
\* behind.
ProxyIsAccounted == PermitsAccounted /\ DrainedAtReturn

\* A client in the backlog is accepted unless idle peers hold every permit or
\* the run ends, and a cancelled run ends although its peers stay idle: no
\* dial, failed handler or silent peer leaves run waiting for ever.
\* (True again and again in every fair behaviour.)
RunIsUpToDate ==
    \/ ~Running
    \/ /\ ~context
       /\ \/ \A c \in Conns : conn[c] # "backlog"
          \/ Cardinality({d \in Conns : conn[d] = "copy"}) = max_connections
=============================================================================
