--------------------------- MODULE TransportPromise ---------------------------
(***************************************************************************)
(* What a transport promises the application for its requests, whichever   *)
(* of the two it is (interface Transport of packages/networking/src/       *)
(* index.ts).  The host's results carry no identifier, and connections are *)
(* lost and replaced.                                                      *)
(***************************************************************************)
EXTENDS SequencesExt

CONSTANT Requests

VARIABLES
    outcome,     \* [Requests -> {"new", "waiting", "answered", "failed"}]
    executed     \* the requests the host executed, in its order

Init ==
    /\ outcome = [r \in Requests |-> "new"]
    /\ executed = <<>>

\* Only a request that was executed is answered, and one that is settled stays settled.
Settles(r) ==
    \/ outcome'[r] = outcome[r]
    \/ outcome[r] = "new" /\ outcome'[r] \in {"waiting", "failed"}
    \/ outcome[r] = "waiting" /\ outcome'[r] = "failed"
    \/ outcome[r] = "waiting" /\ outcome'[r] = "answered" /\ r \in ToSet(executed)

\* The host executes a request that was made, and never twice.
Execute(r) ==
    /\ outcome[r] # "new" /\ r \notin ToSet(executed)
    /\ executed' = Append(executed, r)
    /\ UNCHANGED outcome

Settle ==
    /\ outcome' \in [Requests -> {"new", "waiting", "answered", "failed"}]
    /\ \A r \in Requests : Settles(r)
    /\ UNCHANGED executed

Next == Settle \/ \E r \in Requests : Execute(r)

Spec == Init /\ [][Next]_<<outcome, executed>>
=============================================================================
