----------------------------- MODULE MCService ------------------------------
(***************************************************************************)
(* Two requests at a time: a probe or a profile, and a query or a call.    *)
(***************************************************************************)
EXTENDS Service, TLC

CONSTANTS h1, h2

\* Bound: a slot serves again only if its last request was cancelled.  What an
\* answered one has left behind, a channel that backs off, the other slot meets.
Fresh(h) == Pending(h)' /\ ~ Pending(h) => request[h].status = "cancelled"

MCNext ==
    /\ Next
    /\ Fresh(h1) /\ (Pending(h1)' => request'[h1].kind \in {"probe", "profile"})
    /\ Fresh(h2) /\ (Pending(h2)' => request'[h2].kind \in {"query", "call"})

MCSpec == Init /\ [][MCNext]_vars /\ Fairness
=============================================================================
