---------------------------- MODULE LedgerPromise ----------------------------
(***************************************************************************)
(* What a JanjaBridge promises about its state file, without lines, hashes *)
(* or compactions: a promotion vote, a consumed pairing token and a        *)
(* revocation are for good, a host's grant generation never goes down, and *)
(* no registration is accepted under a revoked grant.  None of it depends  *)
(* on how often the bridge restarts.  BridgeLedger implements it.          *)
(***************************************************************************)
EXTENDS Naturals

CONSTANTS Hosts, Tokens, MaxGeneration, Nobody

VARIABLES
    vote,      \* the candidate the bridge voted for, or Nobody
    owner,     \* [Tokens -> Hosts \cup {Nobody}]: who consumed a pairing token
    revoked,   \* [Hosts -> [generation of a grant -> generation of its revocation or 0]]
    floor      \* [Hosts -> the generation a registration must reach]

vars == <<vote, owner, revoked, floor>>

Generations == 1..MaxGeneration

Init ==
    /\ vote = Nobody
    /\ owner = [t \in Tokens |-> Nobody]
    /\ revoked = [h \in Hosts |-> [g \in Generations |-> 0]]
    /\ floor = [h \in Hosts |-> 0]

Elect(c) ==
    /\ vote = Nobody
    /\ vote' = c
    /\ UNCHANGED <<owner, revoked, floor>>

Pair(t, h) ==
    /\ owner[t] = Nobody
    /\ owner' = [owner EXCEPT ![t] = h]
    /\ UNCHANGED <<vote, revoked, floor>>

Revoke(h, g, r) ==
    /\ revoked[h][g] = 0 /\ g < r
    /\ revoked' = [revoked EXCEPT ![h][g] = r]
    /\ \/ UNCHANGED floor
       \/ floor[h] < r /\ floor' = [floor EXCEPT ![h] = r]
    /\ UNCHANGED <<vote, owner>>

Register(h, g) ==
    /\ revoked[h][g] = 0
    /\ floor[h] < g
    /\ floor' = [floor EXCEPT ![h] = g]
    /\ UNCHANGED <<vote, owner, revoked>>

Next ==
    \/ \E c \in Hosts : Elect(c)
    \/ \E t \in Tokens, h \in Hosts : Pair(t, h)
    \/ \E h \in Hosts, g, r \in Generations : Revoke(h, g, r)
    \/ \E h \in Hosts, g \in Generations : Register(h, g)

Spec == Init /\ [][Next]_vars
=============================================================================
