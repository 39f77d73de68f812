--------------------------- MODULE MCBridgeLedger ---------------------------
(***************************************************************************)
(* Small instances of BridgeLedger.                                        *)
(***************************************************************************)
EXTENDS BridgeLedger

CONSTANTS h1, h2, c1, c2, t1

\* the hosts of two communities, which compete for the token
TwoCommunities == (h1 :> c1) @@ (h2 :> c2)

\* one host with a history of grants and revocations, one that has just come
LongAndShort == (h1 :> 3) @@ (h2 :> 1)

\* crashes, or an append that throws
CrashesOrError == {[crash |-> 2, error |-> 0, short |-> 0], [crash |-> 0, error |-> 1, short |-> 0]}
=============================================================================
