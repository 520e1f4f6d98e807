------------------------------- MODULE Amounts ------------------------------
(***************************************************************************)
(* What becomes of the value of a payment between the log and the table.   *)
(* The contract counts in wei; the pusher divides by 10^18 and the         *)
(* quotient is rounded to the digits a division keeps; PostgreSQL rounds   *)
(* once more, to the digits of the column, and refuses what is too large.  *)
(* A decimal is the number of its last digits: an amount in a message      *)
(* counts grains, a price in the table counts units.  The order and the    *)
(* losses of the messages are the matter of Pipeline.                      *)
(***************************************************************************)
EXTENDS Integers, FiniteSets

CONSTANTS
    Grain,         \* wei in the last digit of an amount: 10^2
    GrainsPerUnit, \* amounts in the last digit of a price: 10^6
    Limit,         \* the largest price of the column, in units: 10^18 - 1
    Wei,           \* the values that payments may have
    MaxPayments    \* bound: payments

AmountsAssumption ==
    /\ Grain \in Nat \ {0}
    /\ GrainsPerUnit \in Nat \ {0}
    /\ Limit \in Nat
    /\ Wei \subseteq Nat
    /\ MaxPayments \in Nat

ASSUME AmountsAssumption

Unit == Grain * GrainsPerUnit

VARIABLES
    logs,      \* the values on the chain, not handled yet
    messages,  \* [wei, amount]: published, not consumed yet
    rows,      \* [wei, price]: the table
    refused    \* the values whose INSERT failed

vars == <<logs, messages, rows, refused>>

Init ==
    /\ logs = {}
    /\ messages = {}
    /\ rows = {}
    /\ refused = {}

-----------------------------------------------------------------------------

\* The quotient of two numbers, half a digit rounded up, as the decimals of the
\* pusher and of PostgreSQL both do (away from zero, but no payment is negative).
Rounded(a, d) == a \div d + (IF 2 * (a % d) >= d THEN 1 ELSE 0)

\* Mutant: the big integer is taken for a machine word, which is too small.
EtherOfWord(wei) == Rounded(wei % (Limit * Unit), Grain)

\* wei.Div(10^18)
Ether(wei) == Rounded(wei, Grain)

\* Mutant: the digits are cut off.
PriceCutOff(amount) == amount \div GrainsPerUnit

\* The value that reaches the column, before its size is looked at.
Price(amount) == Rounded(amount, GrainsPerUnit)

\* Mutant: the size is looked at before the value is rounded.
FitsUnrounded(amount) == amount <= Limit * GrainsPerUnit

Fits(amount) == Price(amount) <= Limit

\* A contract takes a payment, or a plan has this price.
Pay(wei) ==
    /\ Cardinality(logs \cup {m.wei : m \in messages \cup rows} \cup refused) < MaxPayments
    /\ logs' = logs \cup {wei}
    /\ UNCHANGED <<messages, rows, refused>>

\* The handler publishes the payment, those of the subscriptions the price of the
\* plan; the encoding of the amount is exact.
HandleDonationProcessed(wei) ==
    /\ wei \in logs
    /\ logs' = logs \ {wei}
    /\ messages' = messages \cup {[wei |-> wei, amount |-> Ether(wei)]}
    /\ UNCHANGED <<rows, refused>>

\* The row is inserted, by this INSERT or one of the other five, with what the
\* column makes of the amount ...
SetTransactionDonate(m) ==
    /\ m \in messages
    /\ Fits(m.amount)
    /\ messages' = messages \ {m}
    /\ rows' = rows \cup {[wei |-> m.wei, price |-> Price(m.amount)]}
    /\ UNCHANGED <<logs, refused>>

\* ... or the INSERT fails.
Overflow(m) ==
    /\ m \in messages
    /\ ~ Fits(m.amount)
    /\ messages' = messages \ {m}
    /\ refused' = refused \cup {m.wei}
    /\ UNCHANGED <<logs, rows>>

Next ==
    \/ \E wei \in Wei : Pay(wei)
    \/ \E wei \in logs : HandleDonationProcessed(wei)
    \/ \E m \in messages : SetTransactionDonate(m) \/ Overflow(m)

Spec == Init /\ [][Next]_vars

-----------------------------------------------------------------------------
(* Properties                                                              *)

\* Half a grain or less below the middle between two prices.
JustBelowTie(wei) ==
    LET twice == 2 * Unit * Rounded(wei, Unit) + Unit
    IN 2 * wei < twice /\ twice <= 2 * wei + Grain

\* A price in the table is the value rounded once to the digits of the column.
\* Rounding twice never makes it less, and it makes it one unit more only where
\* the first rounding lifts the value to a tie (Div, then NUMERIC(18, 10)).
PricesAreRounded ==
    \A r \in rows :
        \/ r.price = Rounded(r.wei, Unit)
        \/ r.price = Rounded(r.wei, Unit) + 1 /\ JustBelowTie(r.wei)

\* Whoever pays more has no smaller price in the table, and who is refused paid
\* more than everybody who was not (Div, NUMERIC(18, 10)).
MorePaidIsMoreStored ==
    \A r \in rows :
        /\ \A s \in rows : r.wei <= s.wei => r.price <= s.price
        /\ \A wei \in refused : r.wei < wei

\* An INSERT fails only for a value the column cannot hold, or the one that the
\* two roundings together lift above it; what has a row fits as it was paid.
OnlyTooLargeRefused ==
    /\ \A wei \in refused :
         \/ Rounded(wei, Unit) > Limit
         \/ Rounded(wei, Unit) = Limit /\ JustBelowTie(wei)
    /\ \A r \in rows : Rounded(r.wei, Unit) <= Limit
=============================================================================
