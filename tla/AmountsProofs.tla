---------------------------- MODULE AmountsProofs ---------------------------
(***************************************************************************)
(* Proofs about the two roundings for digits of any size, any column and   *)
(* any payments.                                                           *)
(***************************************************************************)
EXTENDS Amounts, TLAPS

\* What the table holds for a payment of this value, if it fits.
Twice(wei) == Price(Ether(wei))

\* An amount and a price are what the code makes of the payment, a row fits and
\* what was refused does not.
IInv ==
    /\ logs \subseteq Wei
    /\ \A m \in messages : m.wei \in Wei /\ m.amount = Ether(m.wei)
    /\ \A r \in rows : r.wei \in Wei /\ r.price = Twice(r.wei) /\ r.price <= Limit
    /\ \A wei \in refused : wei \in Wei /\ Twice(wei) > Limit

-----------------------------------------------------------------------------
(* Rounding                                                                *)

\* A product of two natural numbers is one, and grows with its factors.
LEMMA Products ==
    ASSUME NEW a \in Nat, NEW b \in Int, NEW c \in Int
    PROVE  /\ a * b \in Int
           /\ b <= c => a * b <= a * c
           /\ b \in Nat => a * b \in Nat
  <1>1. a * b \in Int
    BY SMT
  <1>2. ASSUME b <= c  PROVE a * b <= a * c
    BY <1>2, SMT
  <1>3. ASSUME b \in Nat  PROVE a * b \in Nat
    BY <1>3, SMT
  <1> QED  BY <1>1, <1>2, <1>3

\* The rounded quotient is half the divisor or less away, and at the middle it is
\* the upper one.
LEMMA Nearest ==
    ASSUME NEW a \in Nat, NEW d \in Nat \ {0}
    PROVE  /\ Rounded(a, d) \in Nat
           /\ 2 * (d * Rounded(a, d)) <= 2 * a + d
           /\ 2 * a < 2 * (d * Rounded(a, d)) + d
  <1> DEFINE q == a \div d
             r == a % d
  <1>1. q \in Nat /\ r \in Nat /\ r < d /\ a = d * q + r
    BY SMT
  <1> HIDE DEF q, r
  <1>2. d * q \in Nat /\ d * (q + 1) = d * q + d
    BY <1>1, SMT
  <1>3. CASE 2 * r >= d
    <2>1. Rounded(a, d) = q + 1
      BY <1>3 DEF Rounded, q, r
    <2> QED  BY <1>1, <1>2, <1>3, <2>1
  <1>4. CASE 2 * r < d
    <2>1. Rounded(a, d) = q
      BY <1>1, <1>4 DEF Rounded, q, r
    <2> QED  BY <1>1, <1>2, <1>4, <2>1
  <1> QED  BY <1>1, <1>3, <1>4

\* A larger number does not have a smaller quotient.
LEMMA RoundedGrows ==
    ASSUME NEW a \in Nat, NEW b \in Nat, NEW d \in Nat \ {0}, a <= b
    PROVE  Rounded(a, d) <= Rounded(b, d)
  <1> DEFINE p == Rounded(a, d)
             q == Rounded(b, d)
  <1>1. p \in Nat /\ 2 * (d * p) <= 2 * a + d
    BY Nearest
  <1>2. q \in Nat /\ 2 * b < 2 * (d * q) + d
    BY Nearest
  <1> HIDE DEF p, q
  <1>3. SUFFICES ASSUME q + 1 <= p  PROVE FALSE
    BY <1>1, <1>2 DEF p, q
  <1>4. d * (q + 1) <= d * p
    BY <1>1, <1>2, <1>3, Products
  <1>5. d * (q + 1) = d * q + d /\ d * q \in Nat /\ d * p \in Nat
    BY <1>1, <1>2, SMT
  <1> QED  BY <1>1, <1>2, <1>4, <1>5

-----------------------------------------------------------------------------
(* Rounding twice                                                          *)

\* The sizes of the digits, and how they multiply.
LEMMA Digits ==
    /\ Unit \in Nat \ {0}
    /\ Grain <= Unit
    /\ \A n \in Int : Grain * (GrainsPerUnit * n) = Unit * n
  <1>1. Grain \in Nat \ {0} /\ GrainsPerUnit \in Nat \ {0}
    BY AmountsAssumption DEF AmountsAssumption
  <1>2. Grain * 1 <= Grain * GrainsPerUnit /\ Grain * GrainsPerUnit \in Nat
    BY <1>1, Products
  <1>3. ASSUME NEW n \in Int
        PROVE  Grain * (GrainsPerUnit * n) = (Grain * GrainsPerUnit) * n
    BY <1>1, SMT
  <1> QED  BY <1>1, <1>2, <1>3 DEF Unit

\* Between rounding once and rounding twice is at most one unit, never one less,
\* and one more only just below a tie.
LEMMA TwiceIsOnce ==
    ASSUME NEW wei \in Nat
    PROVE  /\ Twice(wei) \in Nat
           /\ Rounded(wei, Unit) \in Nat
           /\ \/ Twice(wei) = Rounded(wei, Unit)
              \/ Twice(wei) = Rounded(wei, Unit) + 1 /\ JustBelowTie(wei)
  <1> DEFINE e == Ether(wei)
             p == Twice(wei)
             q == Rounded(wei, Unit)
             G == Grain
             K == GrainsPerUnit
  <1>1. G \in Nat \ {0} /\ K \in Nat \ {0}
    BY AmountsAssumption DEF AmountsAssumption
  <1>2. e \in Nat /\ 2 * (G * e) <= 2 * wei + G /\ 2 * wei < 2 * (G * e) + G
    BY <1>1, Nearest DEF Ether
  <1>3. p \in Nat /\ 2 * (K * p) <= 2 * e + K /\ 2 * e < 2 * (K * p) + K
    BY <1>1, <1>2, Nearest DEF Twice, Price
  <1>4. /\ q \in Nat
        /\ 2 * (Unit * q) <= 2 * wei + Unit
        /\ 2 * wei < 2 * (Unit * q) + Unit
    BY Digits, Nearest
  <1> HIDE DEF e, p, q
  <1>5. /\ Unit \in Nat \ {0} /\ G <= Unit /\ G * K = Unit
        /\ \A n \in Int : G * (K * n) = Unit * n
    BY Digits DEF Unit
  <1>6. /\ K * q \in Nat /\ K * p \in Nat /\ G * e \in Nat /\ Unit * q \in Nat
        /\ Unit * p \in Nat /\ G * (K * q) = Unit * q /\ G * (K * p) = Unit * p
    BY <1>1, <1>2, <1>3, <1>4, <1>5, Products
  \* The bounds of the second rounding, in wei.
  <1>7. ASSUME NEW x \in Int, NEW y \in Int, x <= y  PROVE G * x <= G * y
    BY <1>1, <1>7, Products
  <1>8. 2 * (Unit * p) <= 2 * (G * e) + Unit
    <2>1. G * (2 * (K * p)) <= G * (2 * e + K)
      BY <1>1, <1>2, <1>3, <1>6, <1>7
    <2>2. G * (2 * (K * p)) = 2 * (G * (K * p))
      BY <1>1, <1>6, SMT
    <2>3. G * (2 * e + K) = 2 * (G * e) + G * K
      BY <1>1, <1>2, SMT
    <2> QED  BY <1>5, <1>6, <2>1, <2>2, <2>3
  <1>9. 2 * (G * e) + G <= 2 * (Unit * p) + Unit
    <2>1. G * (2 * e + 1) <= G * (2 * (K * p) + K)
      BY <1>1, <1>2, <1>3, <1>6, <1>7
    <2>2. G * (2 * (K * p) + K) = 2 * (G * (K * p)) + G * K
      BY <1>1, <1>6, SMT
    <2>3. G * (2 * e + 1) = 2 * (G * e) + G
      BY <1>1, <1>2, SMT
    <2> QED  BY <1>5, <1>6, <2>1, <2>2, <2>3
  \* Hence how far the price is from the value.
  <1>10. 2 * (Unit * p) <= 2 * wei + G + Unit /\ 2 * wei < 2 * (Unit * p) + Unit
    BY <1>1, <1>2, <1>5, <1>6, <1>8, <1>9
  <1>11. ASSUME NEW n \in Int, NEW k \in Int, n + k <= p
         PROVE  Unit * n + Unit * k <= Unit * p
    <2>1. Unit * (n + k) <= Unit * p
      BY <1>3, <1>5, <1>11, Products
    <2>2. Unit * (n + k) = Unit * n + Unit * k
      BY <1>5, SMT
    <2> QED  BY <2>1, <2>2
  <1>12. q <= p
    <2>1. SUFFICES ASSUME p + 1 <= q  PROVE FALSE
      BY <1>3, <1>4
    <2>2. Unit * (p + 1) <= Unit * q
      BY <1>3, <1>4, <1>5, <2>1, Products
    <2>3. Unit * (p + 1) = Unit * p + Unit
      BY <1>3, <1>5, SMT
    <2> QED  BY <1>4, <1>5, <1>6, <1>10, <2>2, <2>3
  <1>13. ~ q + 2 <= p
    <2>1. SUFFICES ASSUME q + 2 <= p  PROVE FALSE
      OBVIOUS
    <2>2. Unit * q + Unit * 2 <= Unit * p
      BY <1>4, <1>11, <2>1
    <2> QED  BY <1>1, <1>4, <1>5, <1>6, <1>10, <2>2
  <1>14. ASSUME q + 1 <= p  PROVE JustBelowTie(wei)
    <2>1. Unit * q + Unit * 1 <= Unit * p
      BY <1>4, <1>11, <1>14
    <2>2. 2 * (Unit * q) + Unit <= 2 * wei + G
      BY <1>1, <1>5, <1>6, <1>10, <2>1
    <2>3. 2 * Unit * q = 2 * (Unit * q)
      BY <1>4, <1>5, SMT
    <2> QED  BY <1>4, <2>2, <2>3 DEF JustBelowTie, q
  <1> QED  BY <1>3, <1>4, <1>12, <1>13, <1>14 DEF p, q

\* More wei never become a smaller price.
LEMMA TwiceGrows ==
    ASSUME NEW a \in Nat, NEW b \in Nat, a <= b
    PROVE  Twice(a) <= Twice(b)
  <1>1. Grain \in Nat \ {0} /\ GrainsPerUnit \in Nat \ {0}
    BY AmountsAssumption DEF AmountsAssumption
  <1>2. Ether(a) \in Nat /\ Ether(b) \in Nat
    BY <1>1, Nearest DEF Ether
  <1>3. Ether(a) <= Ether(b)
    BY <1>1, RoundedGrows DEF Ether
  <1> QED  BY <1>1, <1>2, <1>3, RoundedGrows DEF Twice, Price

-----------------------------------------------------------------------------
(* The payments                                                            *)

\* The invariant holds in every reachable state.
LEMMA Invariance == Spec => []IInv
  <1>1. Init => IInv
    BY DEF Init, IInv
  <1>2. IInv /\ [Next]_vars => IInv'
    <2> SUFFICES ASSUME IInv, [Next]_vars  PROVE IInv'
      OBVIOUS
    <2>1. ASSUME NEW wei \in Wei, Pay(wei)  PROVE IInv'
      BY <2>1 DEF IInv, Pay
    <2>2. ASSUME NEW wei \in logs, HandleDonationProcessed(wei)  PROVE IInv'
      BY <2>2 DEF IInv, HandleDonationProcessed
    <2>3. ASSUME NEW m \in messages, SetTransactionDonate(m)  PROVE IInv'
      BY <2>3 DEF IInv, SetTransactionDonate, Fits, Twice
    <2>4. ASSUME NEW m \in messages, Overflow(m)  PROVE IInv'
      <3>1. m.wei \in Wei
        BY DEF IInv
      <3>2. Twice(m.wei) \in Nat /\ Limit \in Nat
        BY <3>1, TwiceIsOnce, AmountsAssumption DEF AmountsAssumption
      <3>3. Twice(m.wei) > Limit
        BY <2>4, <3>2 DEF IInv, Overflow, Fits, Twice
      <3> QED  BY <2>4, <3>1, <3>3 DEF IInv, Overflow
    <2>5. CASE UNCHANGED vars
      BY <2>5 DEF IInv, vars
    <2> QED  BY <2>1, <2>2, <2>3, <2>4, <2>5 DEF Next
  <1> QED  BY <1>1, <1>2, PTL DEF Spec

\* A price is the value rounded once, or one unit more just below a tie (Div, then
\* NUMERIC(18, 10)).
THEOREM PricesRounded == Spec => []PricesAreRounded
  <1>1. IInv => PricesAreRounded
    <2> SUFFICES ASSUME IInv, NEW r \in rows
                 PROVE  \/ r.price = Rounded(r.wei, Unit)
                        \/ r.price = Rounded(r.wei, Unit) + 1 /\ JustBelowTie(r.wei)
      BY DEF PricesAreRounded
    <2>1. r.wei \in Nat /\ r.price = Twice(r.wei)
      BY AmountsAssumption DEF IInv, AmountsAssumption
    <2> QED  BY <2>1, TwiceIsOnce
  <1> QED  BY <1>1, Invariance, PTL

\* The roundings and the limit of the column respect the order of the payments.
THEOREM OrderOfPrices == Spec => []MorePaidIsMoreStored
  <1>1. IInv => MorePaidIsMoreStored
    <2> SUFFICES ASSUME IInv, NEW r \in rows
                 PROVE  /\ \A s \in rows : r.wei <= s.wei => r.price <= s.price
                        /\ \A wei \in refused : r.wei < wei
      BY DEF MorePaidIsMoreStored
    <2>1. /\ r.wei \in Nat /\ r.price = Twice(r.wei) /\ Twice(r.wei) <= Limit
          /\ Limit \in Nat
      BY AmountsAssumption DEF IInv, AmountsAssumption
    <2>2. ASSUME NEW s \in rows, r.wei <= s.wei  PROVE r.price <= s.price
      <3>1. s.wei \in Nat /\ s.price = Twice(s.wei)
        BY AmountsAssumption DEF IInv, AmountsAssumption
      <3> QED  BY <2>1, <2>2, <3>1, TwiceGrows
    <2>3. ASSUME NEW wei \in refused  PROVE r.wei < wei
      <3>1. wei \in Nat /\ Twice(wei) > Limit
        BY AmountsAssumption DEF IInv, AmountsAssumption
      <3>2. Twice(wei) \in Nat /\ Twice(r.wei) \in Nat
        BY <2>1, <3>1, TwiceIsOnce
      <3>3. ~ wei <= r.wei
        BY <2>1, <3>1, <3>2, TwiceGrows
      <3> QED  BY <2>1, <3>1, <3>3
    <2> QED  BY <2>2, <2>3
  <1> QED  BY <1>1, Invariance, PTL

\* The column refuses what it cannot hold and, of all it could, only a value that
\* the two roundings lift above its limit.
THEOREM RefusalsAreOverflows == Spec => []OnlyTooLargeRefused
  <1>1. IInv => OnlyTooLargeRefused
    <2> SUFFICES ASSUME IInv  PROVE OnlyTooLargeRefused
      OBVIOUS
    <2>1. Limit \in Nat /\ Wei \subseteq Nat
      BY AmountsAssumption DEF AmountsAssumption
    <2>2. ASSUME NEW wei \in refused
          PROVE  \/ Rounded(wei, Unit) > Limit
                 \/ Rounded(wei, Unit) = Limit /\ JustBelowTie(wei)
      <3>1. wei \in Nat /\ Twice(wei) > Limit
        BY <2>1 DEF IInv
      <3> QED  BY <2>1, <3>1, TwiceIsOnce
    <2>3. ASSUME NEW r \in rows  PROVE Rounded(r.wei, Unit) <= Limit
      <3>1. r.wei \in Nat /\ Twice(r.wei) <= Limit
        BY <2>1 DEF IInv
      <3> QED  BY <2>1, <3>1, TwiceIsOnce
    <2> QED  BY <2>2, <2>3 DEF OnlyTooLargeRefused
  <1> QED  BY <1>1, Invariance, PTL
=============================================================================
