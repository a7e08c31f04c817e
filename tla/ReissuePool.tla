----------------------------- MODULE ReissuePool -----------------------------
(***************************************************************************)
(* What the attach-APN re-sender of ril-shim/k50sv1_ril_shim.c promises    *)
(* about the tokens it invents: each one is leased to one vendor request   *)
(* at a time and comes back only when the vendor completes that request;   *)
(* the worker waits for at most one lease, stops waiting when that very    *)
(* request completes, and may give up the wait without taking the lease    *)
(* back.                                                                   *)
(***************************************************************************)
CONSTANTS Tokens,    \* the synthetic request tokens
          NoToken    \* "the worker waits for no request"

VARIABLES leased,    \* tokens the vendor has not completed yet
          awaited    \* the lease the worker waits for, or NoToken

vars == <<leased, awaited>>

TypeOK == /\ leased \subseteq Tokens
          /\ awaited \in leased \cup {NoToken}

Init == leased = {} /\ awaited = NoToken

\* The worker leases a free token; never while it waits for another request.
Lease(t) == /\ awaited = NoToken
            /\ t \notin leased
            /\ leased' = leased \cup {t}
            /\ awaited' = t

\* The vendor completes the request that carries t.
Return(t) == /\ t \in leased
             /\ leased' = leased \ {t}
             /\ awaited' = IF awaited = t THEN NoToken ELSE awaited

\* The worker stops waiting; the vendor request keeps its token.
GiveUp == /\ awaited # NoToken
          /\ awaited' = NoToken
          /\ UNCHANGED leased

Next == GiveUp \/ \E t \in Tokens : Lease(t) \/ Return(t)

Spec == Init /\ [][Next]_vars
=============================================================================
