------------------------------ MODULE SshClient -----------------------------
(***************************************************************************)
(* The in-process SSH client (Client of ployz-internal-sshexec). connect   *)
(* tries the agent's identities, then the private key on a new transport.  *)
(* Then callers ask the task that owns the connection to open channels,    *)
(* one at a time. An open that its caller cancels gets a grace period in   *)
(* which a late answer is closed again; after it the connection is         *)
(* retired.                                                                *)
(***************************************************************************)
EXTENDS Integers, Sequences, FiniteSets, Functions

CONSTANTS
    Sessions,      \* callers of open_session, which has no cancellation
    Tunnels,       \* callers of dial_streamlocal
    OwnerQueue,    \* capacity of the request channel (16)
    MaxIdentities  \* bound on the identities of the agent

Callers == Sessions \cup Tunnels

VARIABLES
    login,     \* connect: "agent", "agentDial", "agentAuth", "key", "keyDial", "keyAuth", "retire",
               \*   "up", or the error: "Agent", "ReadPrivateKey", "ParsePrivateKey", "PrivateKey"
    identity,  \* identities of the agent still to try
    after,     \* where connect goes once the transport is retired
    transports,\* ghost: TCP transports open
    dial,      \* each caller: "idle", "sending", "waiting", "returned"
    got,       \* what it returned: "none", "channel", "error", "closed", "cancelled", "retired"
    mailbox,   \* the request channel
    owner,     \* "idle", "opening", "grace", "retire", "shutdown", "ended"
    serving1,  \* the caller whose request the owner serves
    letter,    \* each caller's oneshot: "none", a result, or "dropped"
    gaveUp,    \* callers that have cancelled
    shut,      \* the shutdown signal
    alive,     \* is the connection up?
    unanswered,\* ghost: opens sent to the server and not answered
    channels,  \* ghost: callers whose channel is open at the server
    closing    \* a call of close: "none", "waiting", "returned"

loginVars == <<login, identity, after, transports>>
sshVars == <<loginVars, dial, got, mailbox, owner, serving1, letter, gaveUp, shut, alive, unanswered, channels, closing>>

Nobody == "nobody"

ConnectErrors == {"Agent", "ReadPrivateKey", "ParsePrivateKey", "PrivateKey"}
SessionErrors == {"error", "closed", "cancelled", "retired"}

SshTypeOK ==
    /\ login \in {"agent", "agentDial", "agentAuth", "key", "keyDial", "keyAuth", "retire", "up"} \cup ConnectErrors
    /\ dial \in [Callers -> {"idle", "sending", "waiting", "returned"}]
    /\ got \in [Callers -> {"none", "channel"} \cup SessionErrors]
    /\ owner \in {"idle", "opening", "grace", "retire", "shutdown", "ended"}
    /\ Len(mailbox) <= OwnerQueue /\ unanswered \in Nat

SshInit ==
    /\ login = "agent" /\ identity \in 0..MaxIdentities /\ after = "none" /\ transports = 0
    /\ dial = [c \in Callers |-> "idle"] /\ got = [c \in Callers |-> "none"]
    /\ mailbox = <<>> /\ owner = "idle" /\ serving1 = Nobody
    /\ letter = [c \in Callers |-> "none"]
    /\ gaveUp = {} /\ shut = FALSE /\ alive = TRUE /\ unanswered = 0 /\ channels = {} /\ closing = "none"

(***************************************************************************)
(* connect.                                                                *)
(***************************************************************************)
clientVars == <<dial, got, mailbox, owner, serving1, letter, gaveUp, shut, alive, unanswered, channels, closing>>

Connecting(there) ==
    /\ login' = there /\ identity' = (IF there = "up" THEN 0 ELSE identity)
    /\ after' = "none" /\ UNCHANGED clientVars

\* The agent of the environment, or none.
ConnectAgent == login = "agent" /\ Connecting("agentDial") /\ UNCHANGED transports
NoAgent ==
    /\ login \in {"agent", "agentDial"}
    /\ \E there \in {"key", "Agent"} : Connecting(there)      \* "Agent" without a key path
    /\ UNCHANGED transports

DialTransport ==
    /\ login \in {"agentDial", "keyDial"}
    /\ Connecting(IF login = "agentDial" THEN "agentAuth" ELSE "keyAuth")
    /\ transports' = transports + 1

\* Mutant: the agent's transport is left open when the agent is refused.
RetireTransportNot(there) == login' = there /\ UNCHANGED <<after, transports, clientVars>>

\* retire_handle, bounded by CONNECTION_CLEANUP_TIMEOUT; then the next step.
RetireTransport(there) == login' = "retire" /\ after' = there /\ UNCHANGED <<transports, clientVars>>

\* The next identity is accepted or refused; an error, or none left, ends the agent's turn.
AgentAuth ==
    /\ login = "agentAuth"
    /\ \/ identity > 0 /\ Connecting("up") /\ UNCHANGED transports
       \/ identity > 0 /\ identity' = identity - 1 /\ UNCHANGED <<login, after, transports, clientVars>>
       \/ UNCHANGED identity /\ \E there \in {"key", "Agent"} : RetireTransport(there)

LoadKey ==
    /\ login = "key"
    /\ \E there \in {"keyDial", "ReadPrivateKey", "ParsePrivateKey"} : Connecting(there)
    /\ UNCHANGED transports

KeyAuth ==
    /\ login = "keyAuth"
    /\ \/ Connecting("up") /\ UNCHANGED transports
       \/ RetireTransport("PrivateKey") /\ UNCHANGED identity

KeyDialFails == login = "keyDial" /\ Connecting("PrivateKey") /\ UNCHANGED transports

Retired ==
    /\ login = "retire" /\ login' = after /\ transports' = transports - 1
    /\ UNCHANGED <<identity, after, clientVars>>

ConnectStep == ConnectAgent \/ NoAgent \/ DialTransport \/ AgentAuth \/ LoadKey \/ KeyAuth \/ KeyDialFails \/ Retired

(***************************************************************************)
(* Callers.                                                                *)
(***************************************************************************)
callerVars == <<dial, got>>
ownerVars == <<owner, serving1, letter, alive, unanswered, channels>>

Ask(c) ==
    /\ login = "up" /\ dial[c] = "idle" /\ dial' = [dial EXCEPT ![c] = "sending"]
    /\ UNCHANGED <<loginVars, got, mailbox, ownerVars, gaveUp, shut, closing>>

GiveUp(c) ==
    /\ c \in Tunnels /\ dial[c] \in {"sending", "waiting"} /\ c \notin gaveUp
    /\ gaveUp' = gaveUp \cup {c}
    /\ UNCHANGED <<loginVars, callerVars, mailbox, ownerVars, shut, closing>>

Returns(c, result) ==
    /\ dial' = [dial EXCEPT ![c] = "returned"] /\ got' = [got EXCEPT ![c] = result]
    /\ UNCHANGED <<loginVars, mailbox, ownerVars, gaveUp, shut, closing>>

\* send() to the owner, raced with the caller's cancellation and the shutdown.
SendRequest(c) ==
    /\ dial[c] = "sending"
    /\ \/ /\ owner # "ended" /\ Len(mailbox) < OwnerQueue
          /\ mailbox' = Append(mailbox, c) /\ dial' = [dial EXCEPT ![c] = "waiting"]
          /\ UNCHANGED <<loginVars, got, ownerVars, gaveUp, shut, closing>>
       \/ (owner = "ended" \/ shut) /\ Returns(c, "closed")
       \/ c \in gaveUp /\ Returns(c, "cancelled")

\* The reply, raced likewise; a reply that is dropped means closed.
TakeLetter(c) ==
    /\ dial[c] = "waiting"
    /\ \/ letter[c] \notin {"none", "dropped"} /\ Returns(c, letter[c])
       \/ (letter[c] = "dropped" \/ shut) /\ Returns(c, "closed")
       \/ c \in gaveUp /\ Returns(c, "cancelled")

\* close(): shut down, then wait for the owner with a time limit that aborts it.
CloseClient ==
    /\ login = "up" /\ closing = "none" /\ closing' = "waiting" /\ shut' = TRUE
    /\ UNCHANGED <<loginVars, callerVars, mailbox, ownerVars, gaveUp>>

DropMail == [c \in Callers |-> IF c \in Range(mailbox) THEN "dropped" ELSE letter[c]]

CloseReturns ==
    /\ closing = "waiting" /\ closing' = "returned"
    /\ IF owner = "ended" THEN UNCHANGED <<owner, letter, mailbox, alive, serving1, unanswered, channels>>
       ELSE /\ owner' = "ended" /\ alive' = FALSE /\ mailbox' = <<>> /\ unanswered' = 0
            /\ letter' = [c \in Callers |-> IF c = serving1 /\ letter[c] = "none" THEN "dropped" ELSE DropMail[c]]
            /\ serving1' = Nobody /\ channels' = {}
    /\ UNCHANGED <<loginVars, callerVars, gaveUp, shut>>

(***************************************************************************)
(* connection_owner.                                                       *)
(***************************************************************************)
\* reject_pending, and the end of the task, which drops the connection.
EndOwner(reason) ==
    /\ owner' = "ended" /\ alive' = FALSE /\ unanswered' = 0 /\ channels' = {}
    /\ mailbox' = <<>> /\ serving1' = Nobody
    /\ letter' = [c \in Callers |-> IF c \in Range(mailbox) THEN reason ELSE letter[c]]
    /\ UNCHANGED <<loginVars, callerVars, gaveUp, shut, closing>>

Respond(c, result) == letter' = [letter EXCEPT ![c] = result]

OwnerIdle ==
    /\ owner = "idle"
    /\ \/ ~alive /\ EndOwner("closed")
       \/ /\ shut /\ owner' = "shutdown"
          /\ letter' = [c \in Callers |-> IF c \in Range(mailbox) THEN "closed" ELSE letter[c]]
          /\ mailbox' = <<>> /\ UNCHANGED <<loginVars, callerVars, serving1, alive, unanswered, channels, gaveUp, shut, closing>>
       \/ /\ mailbox # <<>>
          /\ mailbox' = Tail(mailbox)
          /\ IF Head(mailbox) \in gaveUp
             THEN Respond(Head(mailbox), "cancelled") /\ UNCHANGED <<owner, serving1, unanswered>>
             ELSE /\ owner' = "opening" /\ serving1' = Head(mailbox)
                  /\ unanswered' = unanswered + 1 /\ UNCHANGED letter
          /\ UNCHANGED <<loginVars, callerVars, alive, channels, gaveUp, shut, closing>>

Settle(c, result) ==
    /\ Respond(c, result) /\ owner' = "idle" /\ serving1' = Nobody /\ unanswered' = unanswered - 1

\* Mutant: a late channel is not closed.
LeftOpenLate(result) == IF result = "channel" THEN {serving1} ELSE {}

\* A channel that comes in the grace period is closed before the owner goes on.
LeftOpen(result) == IF result = "channel" /\ owner = "opening" THEN {serving1} ELSE {}

\* The server answers, or the connection fails the open.
OpenAnswered ==
    /\ owner \in {"opening", "grace"}
    /\ \E result \in IF alive THEN {"channel", "error"} ELSE {"error"} :
          /\ Settle(serving1, IF owner = "grace" THEN "cancelled" ELSE result)
          /\ channels' = channels \cup LeftOpen(result)
    /\ UNCHANGED <<loginVars, callerVars, mailbox, alive, gaveUp, shut, closing>>

\* The caller cancels: a late answer is awaited for a while.
OpenCancelled ==
    /\ owner = "opening" /\ serving1 \in gaveUp /\ owner' = "grace"
    /\ UNCHANGED <<loginVars, callerVars, mailbox, serving1, letter, alive, unanswered, channels, gaveUp, shut, closing>>

\* The client is closed: a session's open is given up with an orderly
\* shutdown, a tunnel's retires the connection.
OpenShut ==
    /\ owner = "opening" /\ shut
    /\ LET rejected == [c \in Callers |-> IF c \in Range(mailbox) THEN "closed" ELSE letter[c]] IN
          IF serving1 \in Sessions
          THEN owner' = "shutdown" /\ mailbox' = <<>> /\ letter' = [rejected EXCEPT ![serving1] = "closed"]
          ELSE owner' = "retire" /\ Respond(serving1, "closed") /\ UNCHANGED mailbox
    /\ serving1' = Nobody
    /\ UNCHANGED <<loginVars, callerVars, alive, unanswered, channels, gaveUp, shut, closing>>

\* Mutant: the connection is used again although the open is still under way.
GraceOverReusable ==
    /\ owner = "grace"
    /\ Respond(serving1, "cancelled") /\ owner' = "idle" /\ serving1' = Nobody
    /\ UNCHANGED <<loginVars, callerVars, mailbox, alive, unanswered, channels, gaveUp, shut, closing>>

\* Mutant: the answer is awaited without a limit.
GraceOverNever == FALSE /\ UNCHANGED sshVars

\* OPEN_CLEANUP_GRACE is over.
GraceOver1 ==
    /\ owner = "grace"
    /\ Respond(serving1, "cancelled") /\ owner' = "retire" /\ serving1' = Nobody
    /\ UNCHANGED <<loginVars, callerVars, mailbox, alive, unanswered, channels, gaveUp, shut, closing>>

\* The caller is done with its channel.
CloseChannel(c) ==
    /\ got[c] = "channel" /\ c \in channels /\ channels' = channels \ {c}
    /\ UNCHANGED <<loginVars, callerVars, mailbox, owner, serving1, letter, alive, unanswered, gaveUp, shut, closing>>

\* retire_handle and shutdown_handle end within CONNECTION_CLEANUP_TIMEOUT.
Retire == owner = "retire" /\ EndOwner("retired")
Shutdown == owner = "shutdown" /\ EndOwner("closed")

LoseConnection ==
    /\ alive /\ owner # "ended" /\ dial # [c \in Callers |-> "idle"] /\ alive' = FALSE /\ channels' = {}
    /\ UNCHANGED <<loginVars, callerVars, mailbox, owner, serving1, letter, unanswered, gaveUp, shut, closing>>

OwnerStep == OwnerIdle \/ OpenCancelled \/ OpenShut \/ GraceOver1 \/ Retire \/ Shutdown
CallerStep(c) == SendRequest(c) \/ TakeLetter(c)

SshNext ==
    \/ ConnectStep \/ OwnerStep \/ OpenAnswered \/ LoseConnection \/ CloseClient \/ CloseReturns
    \/ \E c \in Callers : Ask(c) \/ GiveUp(c) \/ CallerStep(c) \/ CloseChannel(c)

\* The server may never answer; an open on a lost connection fails.
SshFairness ==
    /\ WF_sshVars(OwnerStep \/ (~alive /\ OpenAnswered))
    /\ WF_sshVars(\E c \in Callers : CallerStep(c))

-----------------------------------------------------------------------------
\* connect has one transport open at a time and leaves none behind when it
\* fails; the connection never carries two opens: the owner sends the next one
\* only when the server has answered the last, also when its caller cancelled.
\* A channel that is open was sent to its caller, who has it, has yet to take it,
\* or chose the cancellation or the shutdown that came at the same time: an answer
\* that comes after the owner saw the cancellation leaves nothing open.
ConnectionIsTidy ==
    /\ transports = IF login \in {"agentAuth", "keyAuth", "retire", "up"} THEN 1 ELSE 0
    /\ owner = "idle" => unanswered = 0
    /\ unanswered <= 1
    /\ \A c \in channels :
          letter[c] = "channel" /\ (got[c] \in {"none", "channel"} \/ c \in gaveUp \/ shut)

\* A server that does not answer holds up only the call that waits for it: a
\* caller waits for ever only behind an open nobody has cancelled.
HeldByServer == owner = "opening" /\ serving1 \notin gaveUp /\ ~shut /\ alive
\* (True again and again in every fair behaviour.)
OpensAreOver ==
    \A c \in Callers : dial[c] \in {"sending", "waiting"} => HeldByServer /\ c \notin gaveUp
=============================================================================
