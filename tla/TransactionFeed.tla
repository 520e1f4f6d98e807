-------------------------- MODULE TransactionFeed ---------------------------
(***************************************************************************)
(* What the table transactions promises to its readers, with nothing of    *)
(* listeners, writers, brokers or consumers: rows are only added, one at a *)
(* time, each about an event that happened, and an event has more rows     *)
(* than the writer has attempts only if something went wrong that often.   *)
(***************************************************************************)
EXTENDS Naturals, Sequences, FiniteSets, SequencesExt

CONSTANTS
    Contract,  \* the contracts listened to,
    Events,    \* [Contract -> the titles that are recorded of each]
    Plan,
    Price,
    Limit,     \* the largest price a row can hold
    Repeats    \* rows an event may have although nothing went wrong

VARIABLES
    chain,     \* the logs emitted so far
    reverted,  \* indices of those a reorganisation removed
    prices,    \* [Plan -> Seq(Price)], every price each plan has had
    rows,      \* the table, in insertion order
    excuses    \* what has gone wrong so far

feedVars == <<chain, reverted, prices, rows, excuses>>

Init ==
    /\ chain = <<>>
    /\ reverted = {}
    /\ prices \in [Plan -> {<<x>> : x \in Price}]
    /\ rows = <<>>
    /\ excuses = 0

\* The world goes on: nothing that happened is taken back.
History ==
    /\ IsPrefix(chain, chain')
    /\ reverted \subseteq reverted'
    /\ \A plan \in Plan : IsPrefix(prices[plan], prices'[plan])
    /\ excuses <= excuses'

\* A donation is recorded with its amount, any other event with a price its plan
\* has had since.
InForce(i) ==
    IF chain[i].contract = "donate" THEN {chain[i].amount}
    ELSE {prices[chain[i].plan][k] :
            k \in chain[i].since..Len(prices[chain[i].plan])}

Newest == Last(rows)

NewestHappened ==
    /\ Newest.log \in DOMAIN chain
    /\ Newest.title = chain[Newest.log].title
    /\ Newest.title \in Events[chain[Newest.log].contract]
    /\ Newest.removed => Newest.log \in reverted
    /\ Newest.price \in InForce(Newest.log) /\ Newest.price <= Limit

SameEvent ==
    {i \in DOMAIN rows :
        rows[i].log = Newest.log /\ rows[i].removed = Newest.removed}

NewestIsExcused == Cardinality(SameEvent) <= Repeats + excuses

Record ==
    /\ Len(rows') = Len(rows) + 1 /\ IsPrefix(rows, rows')
    /\ NewestHappened'
    /\ NewestIsExcused'

Next == History /\ (Record \/ UNCHANGED rows)

Spec == Init /\ [][Next]_feedVars
=============================================================================
