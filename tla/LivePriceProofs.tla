--------------------------- MODULE LivePriceProofs ---------------------------
(***************************************************************************)
(* The live price stays in its band and covers the cost, for every cost,   *)
(* minimum, capacity and number of bookings.                               *)
(***************************************************************************)
EXTENDS LivePrice, TLAPS, FiniteSetTheorems

-----------------------------------------------------------------------------
(* Rounding up *)

LEMMA CeilDivBounds ==
  ASSUME NEW t \in Nat, NEW n \in Nat \ {0}
  PROVE  /\ CeilDiv(t, n) \in Nat
         /\ t <= CeilDiv(t, n) * n
         /\ CeilDiv(t, n) * n < t + n
<1> DEFINE q == (t + n - 1) \div n
           r == (t + n - 1) % n
<1>1. t + n - 1 \in Nat
  OBVIOUS
<1>2. /\ q \in Nat
      /\ r \in 0..(n - 1)
      /\ t + n - 1 = n * q + r
  BY <1>1
<1> HIDE DEF q, r
<1>3. n * q = q * n
  BY <1>2
<1>4. t <= q * n /\ q * n < t + n
  BY <1>2, <1>3
<1> QED
  BY <1>2, <1>4 DEF CeilDiv, q

\* The more share a cost, the less each pays.
LEMMA CeilDivAntitone ==
  ASSUME NEW t \in Nat, NEW m \in Nat \ {0}, NEW n \in Nat \ {0}, m <= n
  PROVE  CeilDiv(t, n) <= CeilDiv(t, m)
<1> DEFINE p == CeilDiv(t, m)
           q == CeilDiv(t, n)
<1>1. /\ p \in Nat /\ t <= p * m
      /\ q \in Nat /\ q * n < t + n
  BY CeilDivBounds
<1> HIDE DEF p, q
<1>2. p * m <= p * n
  BY <1>1
<1>3. q * n < (p + 1) * n
  BY <1>1, <1>2
<1>4. q < p + 1
  BY <1>1, <1>3
<1> QED
  BY <1>1, <1>4 DEF p, q

-----------------------------------------------------------------------------
(* Counting seats *)

LEMMA TakenFinite ==
  LET pairs == {u \in Bookings \X (1..MaxSeats) : u[2] <= taken[u[1]]}
  IN  IsFiniteSet(pairs) /\ Taken \in Nat
<1> DEFINE pairs == {u \in Bookings \X (1..MaxSeats) : u[2] <= taken[u[1]]}
<1>1. IsFiniteSet(1..MaxSeats)
  BY FS_Interval, PriceAssumption
<1>2. IsFiniteSet(Bookings \X (1..MaxSeats))
  BY <1>1, FS_Product, PriceAssumption
<1>3. IsFiniteSet(pairs)
  BY <1>2, FS_Subset
<1>4. Cardinality(pairs) \in Nat
  BY <1>3, FS_CardinalityType
<1> QED
  BY <1>3, <1>4 DEF Taken

\* Taking n seats takes at most n more, and takes none away.
LEMMA TakeCounts ==
  ASSUME NEW b \in Bookings, NEW n \in 1..MaxSeats, Take(b, n),
         taken \in [Bookings -> 0..MaxSeats]
  PROVE  Taken' \in Nat /\ Taken <= Taken' /\ Taken' <= Taken + n
<1> DEFINE old == {u \in Bookings \X (1..MaxSeats) : u[2] <= taken[u[1]]}
           new == {u \in Bookings \X (1..MaxSeats) : u[2] <= taken'[u[1]]}
           own == {b} \X (1..n)
<1>1. IsFiniteSet(old) /\ Taken \in Nat /\ Taken = Cardinality(old)
  BY TakenFinite DEF Taken
<1>2. IsFiniteSet(new) /\ Taken' \in Nat /\ Taken' = Cardinality(new)
  <2>1. IsFiniteSet(1..MaxSeats)
    BY FS_Interval, PriceAssumption
  <2>2. IsFiniteSet(Bookings \X (1..MaxSeats))
    BY <2>1, FS_Product, PriceAssumption
  <2>3. IsFiniteSet(new)
    BY <2>2, FS_Subset
  <2>4. Cardinality(new) \in Nat
    BY <2>3, FS_CardinalityType
  <2> QED
    BY <2>3, <2>4 DEF Taken
<1>3. IsFiniteSet(own) /\ Cardinality(own) = n
  <2>1. IsFiniteSet(1..n) /\ Cardinality(1..n) = n
    BY FS_Interval, PriceAssumption
  <2>2. IsFiniteSet({b}) /\ Cardinality({b}) = 1
    BY FS_Singleton
  <2>3. IsFiniteSet(own) /\ Cardinality(own) = Cardinality({b}) * Cardinality(1..n)
    BY <2>1, <2>2, FS_Product
  <2> QED
    BY <2>1, <2>2, <2>3, PriceAssumption
<1>4. taken' = [taken EXCEPT ![b] = n] /\ taken[b] = 0
  BY DEF Take
<1>5. old \in SUBSET new
  BY <1>4, PriceAssumption
<1>6. new \in SUBSET (old \cup own)
  BY <1>4, PriceAssumption
<1> HIDE DEF old, new, own
<1>7. Cardinality(old \cup own) = Cardinality(old) + n - Cardinality(old \cap own)
      /\ IsFiniteSet(old \cup own)
  BY <1>1, <1>3, FS_Union
<1>8. Cardinality(old \cap own) \in Nat
  <2>1. IsFiniteSet(old \cap own)
    BY <1>1, FS_Subset
  <2> QED
    BY <2>1, FS_CardinalityType
<1>9. Cardinality(old) <= Cardinality(new) /\ Cardinality(new) <= Cardinality(old \cup own)
  BY <1>2, <1>5, <1>6, <1>7, FS_Subset
<1> QED
  BY <1>1, <1>2, <1>7, <1>8, <1>9, PriceAssumption

LEMMA ReleaseCounts ==
  ASSUME NEW b \in Bookings, Release(b), taken \in [Bookings -> 0..MaxSeats]
  PROVE  Taken' \in Nat /\ Taken' <= Taken
<1> DEFINE old == {u \in Bookings \X (1..MaxSeats) : u[2] <= taken[u[1]]}
           new == {u \in Bookings \X (1..MaxSeats) : u[2] <= taken'[u[1]]}
<1>1. IsFiniteSet(old) /\ Taken = Cardinality(old)
  BY TakenFinite DEF Taken
<1>2. taken' = [taken EXCEPT ![b] = 0]
  BY DEF Release
<1>3. new \in SUBSET old
  BY <1>2, PriceAssumption
<1> HIDE DEF old
<1>4. IsFiniteSet(new) /\ Cardinality(new) <= Cardinality(old)
  BY <1>1, <1>3, FS_Subset
<1>5. Cardinality(new) \in Nat
  BY <1>4, FS_CardinalityType
<1>6. Taken' = Cardinality(new)
  BY DEF Taken
<1> QED
  BY <1>1, <1>4, <1>5, <1>6

-----------------------------------------------------------------------------
(* The invariant *)

LEMMA TermsInit == Publish => TermsOK
<1> SUFFICES ASSUME Publish PROVE TermsOK
  OBVIOUS
<1>1. taken \in [Bookings -> 0..MaxSeats]
  BY PriceAssumption DEF Publish, Open
<1>2. Taken = 0
  <2>1. {u \in Bookings \X (1..MaxSeats) : u[2] <= taken[u[1]]} = {}
    BY PriceAssumption DEF Publish, Open
  <2> QED
    BY <2>1, FS_EmptySet DEF Taken
<1> QED
  BY <1>1, <1>2, PriceAssumption DEF TermsOK, Publish, Open

LEMMA TermsNext == TermsOK /\ [PriceStep]_<<ledger, terms>> => TermsOK'
<1> SUFFICES ASSUME TermsOK, [PriceStep]_<<ledger, terms>> PROVE TermsOK'
  OBVIOUS
<1> USE DEF TermsOK, terms
<1>1. CASE UNCHANGED <<ledger, terms>>
  BY <1>1 DEF ledger, Taken
<1>2. ASSUME NEW b \in Bookings, NEW n \in 1..MaxSeats, Take(b, n), UNCHANGED terms
      PROVE  TermsOK'
  <2>1. Taken' \in Nat /\ Taken' <= Taken + n /\ Taken \in Nat
    BY <1>2, TakeCounts, TakenFinite
  <2>2. taken' \in [Bookings -> 0..MaxSeats]
    BY <1>2, PriceAssumption DEF Take
  <2> QED
    BY <1>2, <2>1, <2>2, PriceAssumption DEF Take
<1>3. ASSUME NEW b \in Bookings, Release(b), UNCHANGED terms
      PROVE  TermsOK'
  <2>1. Taken' \in Nat /\ Taken' <= Taken /\ Taken \in Nat
    BY <1>3, ReleaseCounts, TakenFinite
  <2>2. taken' \in [Bookings -> 0..MaxSeats]
    BY <1>3, PriceAssumption DEF Release
  <2> QED
    BY <1>3, <2>1, <2>2 DEF Release
<1> QED
  BY <1>1, <1>2, <1>3 DEF PriceStep, Ledger

\* The ledger never holds more than the trip offers, and its terms stay valid.
THEOREM TermsCorrect == PriceSpec => []TermsOK
  BY TermsInit, TermsNext, PTL DEF PriceSpec

LEMMA SharersRange ==
  ASSUME TermsOK, NEW n \in Nat, n <= capacity
  PROVE  /\ Sharers(n) \in Nat \ {0}
         /\ min <= Sharers(n) /\ Sharers(n) <= capacity
         /\ n >= min => Sharers(n) = n
  BY DEF TermsOK, Sharers, Larger

\* Whatever has been booked and cancelled, passengers pay a price inside the
\* band they were shown.
THEOREM PriceStaysInBand == PriceSpec => []PriceInBand
<1>1. TermsOK => PriceInBand
  <2> SUFFICES ASSUME TermsOK PROVE PriceInBand
    OBVIOUS
  <2>1. CASE mode = "FIXED_PER_SEAT"
    BY <2>1 DEF TermsOK, PriceInBand, PerPerson, LowerBound, UpperBound
  <2>2. CASE mode # "FIXED_PER_SEAT"
    <3>1. /\ Sharers(Taken) \in Nat \ {0}
          /\ min <= Sharers(Taken) /\ Sharers(Taken) <= capacity
      BY SharersRange, TakenFinite DEF TermsOK
    <3>2. /\ CeilDiv(cost, capacity) <= CeilDiv(cost, Sharers(Taken))
          /\ CeilDiv(cost, Sharers(Taken)) <= CeilDiv(cost, min)
      BY <3>1, CeilDivAntitone DEF TermsOK
    <3> QED
      BY <2>2, <3>2 DEF PriceInBand, PerPerson, LowerBound, UpperBound
  <2> QED
    BY <2>1, <2>2
<1> QED
  BY <1>1, TermsCorrect, PTL

\* Once its minimum is booked a shared trip pays for itself, and rounding up
\* adds less than one unit a seat.
THEOREM CostIsCovered == PriceSpec => []CostCovered
<1>1. TermsOK => CostCovered
  <2> SUFFICES ASSUME TermsOK, mode = "SHARED_TOTAL", Taken >= min
               PROVE  cost <= Earnings /\ Earnings < cost + Taken
    BY DEF CostCovered
  <2>1. Taken \in Nat \ {0} /\ Sharers(Taken) = Taken
    BY SharersRange, TakenFinite DEF TermsOK
  <2> DEFINE price == CeilDiv(cost, Taken)
  <2>2. /\ price \in Nat /\ cost <= price * Taken
        /\ price * Taken < cost + Taken
    BY <2>1, CeilDivBounds DEF TermsOK
  <2>3. Earnings = Taken * price
    BY <2>1 DEF Earnings, PerPerson
  <2> HIDE DEF price
  <2>4. Earnings = price * Taken
    BY <2>1, <2>2, <2>3
  <2> QED
    BY <2>2, <2>4
<1> QED
  BY <1>1, TermsCorrect, PTL

\* A confirmed booking makes no seat dearer, a cancelled one none cheaper.
THEOREM PriceFalls == PriceSpec => PriceFallsAsSeatsFill
<1>1. TermsOK /\ TermsOK' /\ [PriceStep]_<<ledger, terms>>
        => [/\ Taken' >= Taken => PerPerson(Taken)' <= PerPerson(Taken)
            /\ Taken' <= Taken => PerPerson(Taken)' >= PerPerson(Taken)]_<<ledger, terms>>
  <2> SUFFICES ASSUME TermsOK, TermsOK', PriceStep
               PROVE  /\ Taken' >= Taken => PerPerson(Taken)' <= PerPerson(Taken)
                      /\ Taken' <= Taken => PerPerson(Taken)' >= PerPerson(Taken)
    OBVIOUS
  <2>1. Taken \in Nat /\ Taken' \in Nat
    <3>1. CASE \E b \in Bookings : Release(b)
      BY <3>1, ReleaseCounts, TakenFinite DEF TermsOK
    <3>2. CASE \E b \in Bookings, n \in 1..MaxSeats : Take(b, n)
      BY <3>2, TakeCounts, TakenFinite DEF TermsOK
    <3> QED
      BY <3>1, <3>2 DEF PriceStep, Ledger
  <2>2. UNCHANGED <<mode, cost, min, capacity>>
    BY DEF PriceStep, Ledger, Take, Release, terms
  <2>3. PerPerson(Taken)' = PerPerson(Taken')
    BY <2>2 DEF PerPerson, Sharers
  <2>4. /\ Sharers(Taken) \in Nat \ {0} /\ Sharers(Taken') \in Nat \ {0}
        /\ Taken <= Taken' => Sharers(Taken) <= Sharers(Taken')
        /\ Taken' <= Taken => Sharers(Taken') <= Sharers(Taken)
    BY <2>1 DEF TermsOK, Sharers, Larger
  <2>5. CASE mode = "FIXED_PER_SEAT"
    BY <2>3, <2>5 DEF PerPerson, TermsOK
  <2>6. CASE mode # "FIXED_PER_SEAT"
    <3>1. /\ PerPerson(Taken) = CeilDiv(cost, Sharers(Taken))
          /\ PerPerson(Taken') = CeilDiv(cost, Sharers(Taken'))
      BY <2>6 DEF PerPerson
    <3>2. /\ Taken <= Taken' => CeilDiv(cost, Sharers(Taken')) <= CeilDiv(cost, Sharers(Taken))
          /\ Taken' <= Taken => CeilDiv(cost, Sharers(Taken)) <= CeilDiv(cost, Sharers(Taken'))
      BY <2>4, CeilDivAntitone DEF TermsOK
    <3> QED
      BY <2>1, <2>3, <3>1, <3>2
  <2> QED
    BY <2>5, <2>6
<1> QED
  BY <1>1, TermsCorrect, PTL DEF PriceSpec, PriceFallsAsSeatsFill
=============================================================================
