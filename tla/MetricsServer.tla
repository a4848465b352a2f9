---------------------------- MODULE MetricsServer ----------------------------
(***************************************************************************)
(* The metrics endpoint of a machine (ployz-internal-machine-metrics): the *)
(* accept loop with its supervised connections, the shutdown with its      *)
(* deadline, and the guard that counts the scrapes in flight. The guard    *)
(* moves from the handler to the blocking task that renders, back with the *)
(* result, and into the body of the response; a client may leave anywhere. *)
(***************************************************************************)
EXTENDS Naturals, FiniteSets

CONSTANTS
    Clients,        \* connections that may be open at a time
    MaxRetryDelay,  \* one second, in milliseconds
    MaxScrapes      \* bound: scrapes of a behaviour

ASSUME MetricsAssumption == IsFiniteSet(Clients)

VARIABLES
    serve,          \* where Server::run stands
    asked,          \* the caller has cancelled
    stopping,       \* connection_cancellation
    retry,          \* retry_delay, in milliseconds
    served,           \* where the task of a connection stands
    reusable,       \* the connection may take another request
    guard,          \* the scrape of a connection: who holds its guard, or its status
    orphans,        \* guards in rendering tasks nobody waits for any more
    gauge,          \* promhttp_metric_handler_requests_in_flight
    requests,       \* promhttp_metric_handler_requests_total
    scraped, handed \* history: scrapes begun, and answers with a guard handed to the connection

metricsVars == <<serve, asked, stopping, retry, served, reusable, guard, orphans, gauge, requests, scraped, handed>>

ServerErrors == {"bind", "accept", "shutdown timeout"}
Codes == {"200", "500"}
InService == {"serving", "sleeping", "draining"}

MetricsInit ==
    /\ serve = "idle" /\ asked = FALSE /\ stopping = FALSE /\ retry = 0
    /\ served = [c \in Clients |-> "none"]
    /\ reusable = [c \in Clients |-> TRUE]
    /\ guard = [c \in Clients |-> "none"]
    /\ orphans = 0 /\ gauge = 0 /\ scraped = 0
    /\ requests = [s \in Codes |-> 0] /\ handed = [s \in Codes |-> 0]

connVars == <<served, reusable, guard, orphans, gauge, requests, scraped, handed>>

\* The caller cancels, also before it calls run.
MetricsCancel ==
    /\ ~asked /\ asked' = TRUE
    /\ UNCHANGED <<serve, stopping, retry, connVars>>

\* The address is bound before the cancellation is looked at.
MetricsBind ==
    /\ serve = "idle"
    /\ serve' \in {"serving", "bind"}
    /\ UNCHANGED <<asked, stopping, retry, connVars>>

\* The clone of the token goes to the task of the connection.
MetricsAccept(c) ==
    /\ serve = "serving" /\ served[c] = "none"
    /\ retry' = 0
    /\ served' = [served EXCEPT ![c] = "open"]
    /\ reusable' = [reusable EXCEPT ![c] = TRUE]
    /\ UNCHANGED <<serve, asked, stopping, guard, orphans, gauge, requests, scraped, handed>>

NextRetryDelay(previous) ==
    IF previous = 0 THEN 5 ELSE IF previous * 2 > MaxRetryDelay THEN MaxRetryDelay ELSE previous * 2

MetricsAcceptTemporary ==
    /\ serve = "serving"
    /\ retry' = NextRetryDelay(retry)
    /\ serve' = "sleeping"
    /\ UNCHANGED <<asked, stopping, connVars>>

\* Nothing interrupts the sleep.
MetricsRetry ==
    /\ serve = "sleeping" /\ serve' = "serving"
    /\ UNCHANGED <<asked, stopping, retry, connVars>>

\* The open connections are detached and never told to stop.
MetricsAcceptFatal ==
    /\ serve = "serving" /\ serve' = "accept"
    /\ UNCHANGED <<asked, stopping, retry, connVars>>

\* join_next, of the loop and of the drain after it.
MetricsJoin(c) ==
    /\ serve \in {"serving", "draining"} /\ served[c] = "ended"
    /\ served' = [served EXCEPT ![c] = "none"]
    /\ UNCHANGED <<serve, asked, stopping, retry, reusable, guard, orphans, gauge, requests, scraped, handed>>

MetricsStop ==
    /\ serve = "serving" /\ asked
    /\ stopping' = TRUE /\ serve' = "draining"
    /\ UNCHANGED <<asked, retry, connVars>>

\* Mutant: the tasks are not waited for.
MetricsReturnEarly ==
    /\ serve = "draining"
    /\ serve' = "ok"
    /\ UNCHANGED <<asked, stopping, retry, connVars>>

MetricsReturn ==
    /\ serve = "draining" /\ \A c \in Clients : served[c] = "none"
    /\ serve' = "ok"
    /\ UNCHANGED <<asked, stopping, retry, connVars>>

\* Mutant: the deadline is only looked at when no task is open.
MetricsShutdownTimeoutLate ==
    /\ serve = "draining" /\ \A c \in Clients : served[c] \in {"none", "ended"}
    /\ serve' = "shutdown timeout"
    /\ UNCHANGED <<asked, stopping, retry, connVars>>

MetricsShutdownTimeout ==
    /\ serve = "draining" /\ \E c \in Clients : served[c] # "none"
    /\ serve' = "shutdown timeout"
    /\ UNCHANGED <<asked, stopping, retry, connVars>>

-----------------------------------------------------------------------------
\* The guard of c is dropped with the value it was moved into.
DropGuard(c) ==
    /\ gauge' = gauge - (IF guard[c] \in Codes THEN 1 ELSE 0)
    /\ requests' = [s \in Codes |-> requests[s] + (IF guard[c] = s THEN 1 ELSE 0)]
    /\ orphans' = orphans + (IF guard[c] = "task" THEN 1 ELSE 0)
    /\ guard' = [guard EXCEPT ![c] = "none"]

serverVars == <<serve, asked, stopping, retry>>

\* A request head: a scrape takes a guard and starts the blocking task, any
\* other route has its answer at once. A head that is read in part when the
\* shutdown begins is still answered.
Scrape(c) ==
    /\ served[c] = "open" /\ scraped < MaxScrapes
    /\ served' = [served EXCEPT ![c] = "rendering"]
    /\ guard' = [guard EXCEPT ![c] = "task"]
    /\ gauge' = gauge + 1 /\ scraped' = scraped + 1
    /\ UNCHANGED <<serverVars, reusable, orphans, requests, handed>>
OtherRoute(c) ==
    /\ served[c] = "open"
    /\ served' = [served EXCEPT ![c] = "body"]
    /\ UNCHANGED <<serverVars, reusable, guard, orphans, gauge, requests, scraped, handed>>

\* The task ends: with a payload, with an encoding error, or in a panic, which
\* drops the guard without a status and is answered without one.
Render(c) ==
    /\ served[c] = "rendering"
    /\ served' = [served EXCEPT ![c] = "body"]
    /\ \/ \E s \in Codes :
            /\ guard' = [guard EXCEPT ![c] = s] /\ handed' = [handed EXCEPT ![s] = @ + 1]
            /\ UNCHANGED gauge
       \/ /\ guard' = [guard EXCEPT ![c] = "none"] /\ gauge' = gauge - 1 /\ UNCHANGED handed
    /\ UNCHANGED <<serverVars, reusable, orphans, requests, scraped>>
\* Mutant: the guard of a task nobody waits for is leaked.
RenderOrphanLeaks ==
    /\ orphans > 0 /\ orphans' = orphans - 1
    /\ UNCHANGED <<serverVars, served, reusable, guard, gauge, requests, scraped, handed>>

RenderOrphan ==
    /\ orphans > 0 /\ orphans' = orphans - 1 /\ gauge' = gauge - 1
    /\ UNCHANGED <<serverVars, served, reusable, guard, requests, scraped, handed>>

\* The rest of the request is read; too much of it, or a broken one, and the
\* connection is closed after the answer.
DrainBody(c) ==
    /\ served[c] = "body"
    /\ served' = [served EXCEPT ![c] = "sending"]
    /\ reusable' \in {[reusable EXCEPT ![c] = @ /\ ok] : ok \in BOOLEAN}
    /\ UNCHANGED <<serverVars, guard, orphans, gauge, requests, scraped, handed>>

\* The body has been sent, or a HEAD drops it unread.
Sent(c) ==
    /\ served[c] = "sending"
    /\ served' = [served EXCEPT ![c] = IF reusable[c] /\ ~stopping THEN "open" ELSE "ended"]
    /\ DropGuard(c)
    /\ UNCHANGED <<serverVars, reusable, scraped, handed>>

\* The client leaves; the handler and what it holds are dropped.
Hangup(c) ==
    /\ served[c] \in {"open", "rendering", "body", "sending"}
    /\ served' = [served EXCEPT ![c] = "ended"]
    /\ DropGuard(c)
    /\ UNCHANGED <<serverVars, reusable, scraped, handed>>

\* READ_TIMEOUT without a request, or the graceful shutdown of an idle connection.
CloseIdle(c) ==
    /\ served[c] = "open"
    /\ served' = [served EXCEPT ![c] = "ended"]
    /\ UNCHANGED <<serverVars, reusable, guard, orphans, gauge, requests, scraped, handed>>

MetricsStep(c) ==
    \/ MetricsAccept(c) \/ MetricsJoin(c) \/ Scrape(c) \/ OtherRoute(c) \/ Render(c)
    \/ DrainBody(c) \/ Sent(c) \/ Hangup(c) \/ CloseIdle(c)
MetricsNext ==
    \/ MetricsCancel \/ MetricsBind \/ MetricsAcceptTemporary \/ MetricsRetry \/ MetricsAcceptFatal
    \/ MetricsStop \/ MetricsReturn \/ MetricsShutdownTimeout \/ RenderOrphan
    \/ \E c \in Clients : MetricsStep(c)

\* select! picks among ready branches at random, so a branch that is ready again
\* and again is taken; a timer fires, and a rendering ends. Clients owe nothing.
MetricsFairness ==
    /\ SF_metricsVars(MetricsStop)
    /\ WF_metricsVars(MetricsRetry \/ MetricsReturn \/ MetricsShutdownTimeout)
    /\ WF_metricsVars(RenderOrphan)

-----------------------------------------------------------------------------
Holding == {c \in Clients : guard[c] # "none"}
Sending(s) == Cardinality({c \in Clients : guard[c] = s})

\* The gauge is the number of scrapes that still have a guard, wherever a client
\* left; an answered scrape is counted once, under its status, when its body is
\* gone (lib.rs:517-616). When run returns Ok no connection is open (lib.rs:129-142).
ScrapesAreAccounted ==
    /\ gauge = Cardinality(Holding) + orphans
    /\ \A s \in Codes : requests[s] + Sending(s) = handed[s]
    /\ serve = "ok" => Holding = {} /\ \A c \in Clients : served[c] = "none"

\* A run that is cancelled returns, whatever the clients do (lib.rs:77-143), and a
\* rendering that a client abandoned gives its guard back.
\* (True again and again in every fair behaviour.)
ServeIsOver == (asked => serve \notin InService) /\ orphans = 0
=============================================================================
