--------------------------- MODULE BackendLifecycle ---------------------------
(***************************************************************************)
(* What a remote backend promises its users: it is down until somebody      *)
(* needs it, the first connection attempt is the only one a caller waits    *)
(* for, and from the first failure on it is retried in the background until *)
(* it is up again.  close() is final.                                       *)
(***************************************************************************)
VARIABLE status

Init == status = "down"

FirstConnect == status = "down" /\ status' = "connecting"

\* The attempt succeeds, fails, or is abandoned by a cancelled caller.
FirstConnectEnds ==
    /\ status = "connecting"
    /\ status' \in {"up", "retrying", "down"}

TransportLost == status = "up" /\ status' = "retrying"

Reconnected == status = "retrying" /\ status' = "up"

Close == status # "closed" /\ status' = "closed"

Next == FirstConnect \/ FirstConnectEnds \/ TransportLost \/ Reconnected \/ Close

Spec == Init /\ [][Next]_status

FairSpec == Spec /\ WF_status(FirstConnectEnds) /\ WF_status(Reconnected)
=============================================================================
