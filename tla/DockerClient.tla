----------------------------- MODULE DockerClient ----------------------------
(***************************************************************************)
(* Client of crates/ployz-internal-docker: waiting for the daemon,         *)
(* creating a container with a pull of its image in between, and waiting   *)
(* for a published port. Every await of an operation but one is a biased   *)
(* select with the caller's Cancellation, whose flag and Notify are        *)
(* modelled down to the order in which another thread sees them; the       *)
(* lookup of the registry's credentials is awaited alone. The body of a    *)
(* pull is a sequence of messages of two units, cut into chunks anywhere.  *)
(***************************************************************************)
EXTENDS Naturals

CONSTANT MaxMessages  \* messages the engine sends during a pull

ASSUME DockerAssumption == MaxMessages \in Nat

VARIABLES up,        \* the daemon accepts connections
          flag,      \* Cancellation.cancelled
          canceller, \* the thread in cancel(): "none", "set", "notified"
          task,      \* the operation, and what it awaits
          reply,     \* what has arrived for it
          watch,     \* its Notified: "none", "created", "parked", "signalled"
          expired,   \* the deadline of wait_port_published has passed
          outcome,   \* what the last operation returned
          sent, buffer, decoded, \* units sent, units undecoded, messages decoded
          eof        \* the end of the body was read

dockerVars == <<up, flag, canceller, task, reply, watch, expired, outcome,
                sent, buffer, decoded, eof>>

Idle == [op |-> "none", awaits |-> "none"]
Busy == task # Idle

DockerInit ==
    /\ up \in BOOLEAN
    /\ flag = FALSE /\ canceller = "none"
    /\ task = Idle /\ reply = "none" /\ watch = "none"
    /\ expired = FALSE /\ outcome = "none"
    /\ sent = 0 /\ buffer = 0 /\ decoded = 0 /\ eof = FALSE

FirstAwait == [ready |-> "connect", create |-> "create", port |-> "inspect"]

Begin(op) ==
    /\ ~Busy
    /\ task' = [op |-> op, awaits |-> FirstAwait[op]]
    /\ expired' = FALSE /\ outcome' = "none"
    /\ sent' = 0 /\ buffer' = 0 /\ decoded' = 0 /\ eof' = FALSE
    /\ UNCHANGED <<up, flag, canceller, reply, watch>>

\* A select ends, and with it the Notified it held.
Await(what) ==
    /\ task' = [task EXCEPT !.awaits = what]
    /\ reply' = "none" /\ watch' = "none"
    /\ UNCHANGED outcome

Return(value) ==
    /\ task' = Idle /\ outcome' = value
    /\ reply' = "none" /\ watch' = "none"

(* Cancellation *)

Cancel ==
    /\ canceller = "none" /\ ~flag
    /\ canceller' = "set" /\ flag' = TRUE
    /\ UNCHANGED <<up, task, reply, watch, expired, outcome, sent, buffer, decoded, eof>>

\* notify_waiters reaches every Notified that has been created.
NotifyWaiters ==
    /\ canceller = "set"
    /\ canceller' = "notified"
    /\ watch' = IF watch \in {"created", "parked"} THEN "signalled" ELSE watch
    /\ UNCHANGED <<up, flag, task, reply, expired, outcome, sent, buffer, decoded, eof>>

\* resolve_registry_auth is not selected with the cancellation: a helper program
\* is asked on a thread of its own.
Selecting == task.awaits # "auth"

\* Decoding goes on in the buffer; it is not an await.
Decoding == task.awaits = "body" /\ (buffer >= 2 \/ eof) /\ reply = "none"

\* What a cancelled select returns: a daemon that is not ready is no error.
Cancelled == Return(IF task.op = "ready" THEN "none" ELSE "cancelled")

\* Mutant: the flag is looked at before the Notified is created, which then
\* comes after notify_waiters.
CreateNotifiedLate ==
    /\ watch = "none" /\ watch' = (IF flag THEN "created" ELSE "late")
    /\ UNCHANGED <<task, reply, outcome>>

\* Cancellation::cancelled is polled after the request, and before the sleeps
\* of wait_port_published: first notified().
CreateNotified ==
    /\ watch = "none" /\ watch' = "created" /\ UNCHANGED <<task, reply, outcome>>

PollCancelled ==
    /\ Busy /\ Selecting /\ (reply = "none" \/ task.awaits = "sleep") /\ ~Decoding
    /\ CreateNotified
    /\ UNCHANGED <<up, flag, canceller, expired, sent, buffer, decoded, eof>>

\* Then the flag; a task woken by the Notify first finds its request pending.
CheckFlag ==
    /\ Busy
    /\ \/ watch = "created"
       \/ watch = "signalled" /\ (reply = "none" \/ task.awaits = "sleep")
    /\ IF flag THEN Cancelled ELSE watch' = "parked" /\ UNCHANGED <<task, reply, outcome>>
    /\ UNCHANGED <<up, flag, canceller, expired, sent, buffer, decoded, eof>>

(* The daemon, and the credential helper. A request may stay unanswered for ever. *)

Replies(awaits) ==
    CASE awaits \in {"connect", "ping"} -> IF up THEN {"ok", "bad"} ELSE {"refused"}
      [] awaits = "create" -> {"ok", "404", "bad"}
      [] awaits \in {"auth", "pull", "createAgain"} -> {"ok", "bad"}
      [] awaits = "inspect" -> {"published", "unpublished", "bad"}
      [] awaits = "body" -> IF sent < 2 * MaxMessages THEN {"1", "2", "garbage", "eof", "bad"}
                                                     ELSE {"eof", "bad"}
      [] OTHER -> {"elapsed"}

\* A timer is set by the poll that creates it, and fires later.
Answer ==
    /\ Busy /\ reply = "none" /\ ~Decoding
    /\ task.awaits \in {"backoff", "sleep"} => watch \in {"parked", "signalled"}
    /\ reply' \in Replies(task.awaits)
    /\ sent' = IF reply' = "1" THEN sent + 1 ELSE IF reply' = "2" THEN sent + 2 ELSE sent
    /\ UNCHANGED <<up, flag, canceller, task, watch, expired, outcome, buffer, decoded, eof>>

Switch ==
    /\ up' = ~up
    /\ UNCHANGED <<flag, canceller, task, reply, watch, expired, outcome, sent, buffer,
                   decoded, eof>>

(* The operations *)

\* connect, then ping; only a failed connection is tried again.
TakeReady ==
    /\ task.awaits \in {"connect", "ping", "backoff"}
    /\ CASE reply = "ok" /\ task.awaits = "connect" -> Await("ping")
         [] reply = "ok" /\ task.awaits = "ping" -> Return("client")
         [] reply = "refused" -> Await("backoff")
         [] reply = "elapsed" -> Await("connect")
         [] OTHER -> Return("error")
    /\ UNCHANGED <<buffer, eof>>

\* create_container_with_image_pull up to the body of the pull.
TakeCreate ==
    /\ task.awaits \in {"create", "auth", "pull", "createAgain"}
    /\ CASE reply = "ok" /\ task.awaits = "auth" -> Await("pull")
         [] reply = "ok" /\ task.awaits = "pull" -> Await("body")
         [] reply = "ok" /\ task.awaits \in {"create", "createAgain"} -> Return("created")
         [] reply = "404" -> Await("auth")
         [] OTHER -> Return("error")
    /\ UNCHANGED <<buffer, eof>>

\* DecodeState::next reads a chunk.
TakeChunk ==
    /\ task.awaits = "body"
    /\ CASE reply \in {"1", "2"} -> /\ buffer' = buffer + (IF reply = "1" THEN 1 ELSE 2)
                                    /\ Await("body") /\ UNCHANGED eof
         [] reply = "eof" -> eof' = TRUE /\ Await("body") /\ UNCHANGED buffer
         [] OTHER -> Return("error") /\ UNCHANGED <<buffer, eof>>

TakePort ==
    /\ task.awaits \in {"inspect", "sleep"}
    /\ task.awaits = "sleep" => ~flag /\ ~expired
    /\ CASE reply = "published" -> Return("bindings")
         [] reply = "unpublished" -> Await("sleep")
         [] reply = "elapsed" -> Await("inspect")
         [] OTHER -> Return("error")
    /\ UNCHANGED <<buffer, eof>>

TakeReply ==
    /\ Busy /\ reply # "none" /\ watch # "created"
    /\ TakeReady \/ TakeCreate \/ TakeChunk \/ TakePort
    /\ UNCHANGED <<up, flag, canceller, expired, sent, decoded>>

\* Mutant: the end of the body ends the pull, whatever is left in the buffer.
AtEofAnyway == Await("createAgain")

AtEof == IF buffer = 0 THEN Await("createAgain") ELSE Return("error")

\* decode_one gives a message, which may hold an error of the engine; or the
\* body has ended.
Decode ==
    /\ Decoding
    /\ \/ /\ buffer >= 2
          /\ buffer' = buffer - 2 /\ decoded' = decoded + 1
          /\ \/ flag /\ Return("error")
             \/ ~flag /\ (Await("body") \/ Return("error"))
       \/ buffer < 2 /\ AtEof /\ UNCHANGED <<buffer, decoded>>
    /\ UNCHANGED <<up, flag, canceller, expired, sent, eof>>

Expire ==
    /\ task.op = "port" /\ ~expired
    /\ expired' = TRUE
    /\ UNCHANGED <<up, flag, canceller, task, reply, watch, outcome, sent, buffer, decoded, eof>>

\* The deadline comes last in the select of an inspection, where a reply or a
\* cancellation that is there is taken instead.
TakeDeadline ==
    /\ task.op = "port" /\ expired /\ ~flag
    /\ reply = "none" \/ task.awaits = "sleep"
    /\ Return("timeout")
    /\ UNCHANGED <<up, flag, canceller, expired, sent, buffer, decoded, eof>>

DockerNext ==
    \/ \E op \in DOMAIN FirstAwait : Begin(op)
    \/ Cancel \/ NotifyWaiters \/ PollCancelled \/ CheckFlag
    \/ Answer \/ Switch \/ TakeReply \/ Decode \/ Expire \/ TakeDeadline

\* The task is polled when something woke it, timers fire, cancel() runs to
\* its end. The daemon owes no answer.
DockerFairness ==
    /\ WF_dockerVars(NotifyWaiters)
    /\ WF_dockerVars(PollCancelled \/ CheckFlag \/ TakeReply \/ Decode \/ TakeDeadline)
    /\ WF_dockerVars(Expire)
    /\ WF_dockerVars(task.awaits \in {"backoff", "sleep"} /\ Answer)

DockerSpec == DockerInit /\ [][DockerNext]_dockerVars /\ DockerFairness
-----------------------------------------------------------------------------
\* The container is created again only after a pull whose body was decoded to
\* its last unit: a truncated answer is reported (client.rs:274-284,
\* progress.rs:116-176).
PullIsWhole == task.awaits = "createAgain" => eof /\ buffer = 0 /\ sent = 2 * decoded

\* A cancelled operation ends although the daemon never answers, whenever the
\* flag is set between the steps of the poll (cancel.rs:25-43), unless the
\* credential helper does not answer either, whom nobody waits for with the
\* cancellation (client.rs:157-160, 426-431); the wait for a port ends by its
\* deadline at the latest.
\* (True again and again in every fair behaviour.)
OperationIsOver == flag \/ task.op = "port" => ~Busy \/ (task.awaits = "auth" /\ reply = "none")
=============================================================================
