------------------------------- MODULE Backoff ------------------------------
(***************************************************************************)
(* An operation retried under one of the backoff policies: RandomizedBackoff*)
(* (requests to and subscriptions at Corrosion), ReadinessBackoff (start   *)
(* of the Corrosion service) and DockerBackoff (the Docker daemon). A wait *)
(* is drawn from around the current interval, which grows by half up to a  *)
(* maximum; a wait that would end after the limit is not begun.            *)
(***************************************************************************)
EXTENDS Integers

CONSTANTS
    Policies,     \* records of initial, maximum and limit
    Durations,    \* how long an attempt may take
    MaxClock      \* bound on the time that is modelled

\* The limit of a policy that has none.
Unlimited == -1

ASSUME PoliciesAssumption ==
    /\ \A p \in Policies :
          /\ p.initial \in Nat /\ p.maximum \in Nat /\ p.initial <= p.maximum
          /\ p.limit \in Nat \cup {Unlimited}
    /\ Durations \subseteq Nat /\ MaxClock \in Nat

\* The policies of the program, in units of 25 milliseconds.
Policy(initial, maximum, limit) == [initial |-> initial, maximum |-> maximum, limit |-> limit]
TransportPolicy == Policy(4, 2400, 80)
SubscriptionPolicy == Policy(4, 40, 2400)
ReadinessPolicy == Policy(2, 40, 600)
DockerPolicy == Policy(4, 40, Unlimited)

VARIABLES
    policy,    \* the policy in force
    retrying,  \* "idle", "attempt", "wait", "done", "gaveUp"
    pace,      \* current
    clock,     \* time since the iterator was built (started)
    retries,   \* ghost: waits begun
    due        \* ghost: when the last wait ended

backoffVars == <<policy, retrying, pace, clock, retries, due>>

BackoffInit ==
    /\ policy \in Policies /\ retrying = "idle" /\ pace = policy.initial
    /\ clock = 0 /\ retries = 0 /\ due = 0

StartAttempt ==
    /\ retrying = "idle" /\ retrying' = "attempt"
    /\ UNCHANGED <<policy, pace, clock, retries, due>>

Succeed ==
    /\ retrying = "attempt" /\ retrying' = "done"
    /\ UNCHANGED <<policy, pace, clock, retries, due>>

\* randomized: from half the interval to one and a half times it.
Randomized(interval) == interval \div 2 .. (interval + (interval + 1) \div 2)

\* Mutant: the limit is compared before the wait is added.
WithinElapsedOnly(elapsedTime, wait) == policy.limit = Unlimited \/ elapsedTime <= policy.limit

\* started.elapsed() + interval > limit gives up.
Within(elapsedTime, wait) == policy.limit = Unlimited \/ elapsedTime + wait <= policy.limit

\* Mutant: the maximum is not enforced.
GrownUnbounded(interval, maximum) == interval + interval \div 2

Grown(interval, maximum) == IF 3 * interval >= 2 * maximum THEN maximum ELSE interval + interval \div 2

Fail ==
    /\ retrying = "attempt"
    /\ \E d \in Durations, wait \in Randomized(pace) :
          LET now == clock + d IN
          /\ now + wait <= MaxClock
          /\ IF Within(now, wait)
             THEN /\ clock' = now + wait /\ due' = now + wait /\ retries' = retries + 1
                  /\ pace' = Grown(pace, policy.maximum) /\ UNCHANGED retrying
             ELSE /\ retrying' = "gaveUp" /\ clock' = now /\ UNCHANGED <<pace, retries, due>>
    /\ UNCHANGED policy

BackoffNext == StartAttempt \/ Succeed \/ Fail
BackoffSpec == BackoffInit /\ [][BackoffNext]_backoffVars

-----------------------------------------------------------------------------
\* No retry begins after the limit, every interval stays between the initial
\* one and the maximum, and so the limit bounds the number of retries.
RetriesAreBounded ==
    /\ policy.limit # Unlimited => due <= policy.limit
    /\ policy.initial <= pace /\ pace <= policy.maximum
    /\ retries * (policy.initial \div 2) <= due
=============================================================================
