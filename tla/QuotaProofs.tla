---------------------------- MODULE QuotaProofs ----------------------------
(***************************************************************************)
(* Theorems about the daily quota, for any number of clients and runs in   *)
(* flight and any charges.                                                 *)
(*                                                                         *)
(* DailyQuotaUsed is a fold over the rows; UsedIsSize makes it the number  *)
(* of pairs of a counted run and one of its nano-units.                    *)
(***************************************************************************)
EXTENDS DailyQuota, RunStoreProofs, FoldLemmas

-----------------------------------------------------------------------------
\* The tables at one moment: what a lemma says of the rows it can say of those
\* before a step and of those after it.
CompletedIn(rows, r) ==
    rows[r].status = "completed" /\ rows[r].settlement = "confirmed"

CountedIn(rows, c, since) ==
    {r \in RunIds : /\ CompletedIn(rows, r)
                    /\ rows[r].client = c
                    /\ rows[r].created >= since
                    /\ rows[r].charge.usd}

UsedIn(rows, c, since) ==
    MapThenSumSet(LAMBDA r : rows[r].charge.total, CountedIn(rows, c, since))

TotalIn(rows) == [r \in RunIds |-> rows[r].charge.total]

\* Finitely many runs are stored, and a completed one has its charge.
RowsOK(rows) ==
    /\ rows \in [RunIds -> Row \cup {Absent}]
    /\ IsFiniteSet({r \in RunIds : rows[r] # Absent})
    /\ \A r \in RunIds : CompletedIn(rows, r) => rows[r].charge \in Charges

\* The sum of the charges is the number of their nano-units.
LEMMA UsedIsSize ==
    ASSUME NEW rows, NEW c, NEW since,
           IsFiniteSet(CountedIn(rows, c, since)),
           \A r \in CountedIn(rows, c, since) : rows[r].charge.total \in Nat
    PROVE  UsedIn(rows, c, since)
               = Cardinality(Units(TotalIn(rows), CountedIn(rows, c, since)))
  <1> DEFINE S == CountedIn(rows, c, since)
             total == TotalIn(rows)
             IsUsedFold(sum) ==
                 sum = [s \in SUBSET S |->
                            IF s = {} THEN 0
                            ELSE LET x == CHOOSE x \in s : TRUE
                                 IN  rows[x].charge.total + sum[s \ {x}]]
  <1>1. UsedIn(rows, c, since) = (CHOOSE sum : IsUsedFold(sum))[S]
    BY DEF UsedIn, MapThenSumSet, MapThenFoldSet
  <1>2. \A r \in S : total[r] = rows[r].charge.total /\ total[r] \in Nat
    BY DEF TotalIn, CountedIn
  <1>3. ASSUME NEW sum PROVE IsUsedFold(sum) <=> IsSum(sum, total, S)
    <2>1. ASSUME NEW s \in SUBSET S
          PROVE  (IF s = {} THEN 0
                  ELSE LET x == CHOOSE x \in s : TRUE
                       IN  rows[x].charge.total + sum[s \ {x}])
                 = (IF s = {} THEN 0
                    ELSE LET x == CHOOSE x \in s : TRUE
                         IN  total[x] + sum[s \ {x}])
      <3>1. s # {} => (CHOOSE x \in s : TRUE) \in S
        OBVIOUS
      <3> HIDE DEF S, total
      <3> QED BY <1>2, <3>1
    <2> HIDE DEF S, total
    <2> QED BY <2>1 DEF IsSum
  <1> HIDE DEF IsUsedFold, S, total
  <1>4. IsFiniteSet(S)
    BY DEF S
  <1>5. \E sum : IsUsedFold(sum)
    <2>1. PICK sum : IsSum(sum, total, S)
      BY <1>2, <1>4, SumExists
    <2> QED BY <1>3, <2>1
  <1>6. IsUsedFold(CHOOSE sum : IsUsedFold(sum))
    BY <1>5
  <1>7. IsSum(CHOOSE sum : IsUsedFold(sum), total, S)
    BY <1>3, <1>6
  <1>8. UsedIn(rows, c, since) = Cardinality(Units(total, S))
    BY <1>1, <1>2, <1>4, <1>7, SumIsSize
  <1> QED BY <1>8 DEF S, total

LEMMA CountedFinite ==
    ASSUME NEW rows, NEW c, NEW since, RowsOK(rows)
    PROVE  /\ IsFiniteSet(CountedIn(rows, c, since))
           /\ \A r \in CountedIn(rows, c, since) :
                  /\ rows[r].charge \in Charges
                  /\ rows[r].charge.total \in Nat
                  /\ TotalIn(rows)[r] = rows[r].charge.total
           /\ IsFiniteSet(Units(TotalIn(rows), CountedIn(rows, c, since)))
           /\ UsedIn(rows, c, since) \in Nat
           /\ UsedIn(rows, c, since)
                  = Cardinality(Units(TotalIn(rows), CountedIn(rows, c, since)))
  <1> DEFINE S == CountedIn(rows, c, since)
  <1>1. IsFiniteSet(S)
    <2>1. S \subseteq {r \in RunIds : rows[r] # Absent}
      BY DEF CountedIn, CompletedIn, Absent
    <2> QED BY <2>1, FS_Subset DEF RowsOK
  <1>2. \A r \in S : /\ rows[r].charge \in Charges
                     /\ rows[r].charge.total \in Nat
                     /\ TotalIn(rows)[r] = rows[r].charge.total
    BY DataAssumption DEF CountedIn, RowsOK, TotalIn
  <1> HIDE DEF S
  <1>3. \A r \in S : TotalIn(rows)[r] \in Nat
    BY <1>2
  <1>4. IsFiniteSet(Units(TotalIn(rows), S))
    BY <1>1, <1>3, UnitsFinite
  <1>5. UsedIn(rows, c, since) = Cardinality(Units(TotalIn(rows), S))
    BY <1>1, <1>2, UsedIsSize DEF S
  <1>6. Cardinality(Units(TotalIn(rows), S)) \in Nat
    BY <1>4, FS_CardinalityType
  <1> QED BY <1>1, <1>2, <1>4, <1>5, <1>6 DEF S

\* Fewer runs with the same charges add up to no more.
LEMMA UsedShrinks ==
    ASSUME NEW rows, NEW next, NEW c, NEW old, NEW new, RowsOK(rows), RowsOK(next),
           CountedIn(next, c, new) \subseteq CountedIn(rows, c, old),
           \A r \in CountedIn(next, c, new) : next[r].charge = rows[r].charge
    PROVE  UsedIn(next, c, new) <= UsedIn(rows, c, old)
  <1> DEFINE A == Units(TotalIn(next), CountedIn(next, c, new))
             B == Units(TotalIn(rows), CountedIn(rows, c, old))
  <1>1. \A r \in CountedIn(next, c, new) : TotalIn(next)[r] = TotalIn(rows)[r]
    BY CountedFinite
  <1>2. A \subseteq B
    BY <1>1 DEF Units
  <1>3. IsFiniteSet(B)
    BY CountedFinite
  <1> HIDE DEF A, B
  <1>4. Cardinality(A) <= Cardinality(B)
    BY <1>2, <1>3, FS_Subset
  <1>5. UsedIn(next, c, new) = Cardinality(A) /\ UsedIn(rows, c, old) = Cardinality(B)
    BY CountedFinite DEF A, B
  <1> QED BY <1>4, <1>5

\* One run more adds its total.
LEMMA UsedGrows ==
    ASSUME NEW rows, NEW next, NEW c, NEW since, NEW r, RowsOK(rows), RowsOK(next),
           r \in CountedIn(next, c, since),
           CountedIn(next, c, since) \ {r} \subseteq CountedIn(rows, c, since),
           \A p \in CountedIn(next, c, since) \ {r} : next[p].charge = rows[p].charge
    PROVE  UsedIn(next, c, since)
               <= UsedIn(rows, c, since) + next[r].charge.total
  <1> DEFINE S == CountedIn(next, c, since)
             rest == Units(TotalIn(next), S \ {r})
             B == Units(TotalIn(rows), CountedIn(rows, c, since))
  <1>1. \A p \in S \ {r} : TotalIn(next)[p] = TotalIn(rows)[p]
    BY CountedFinite
  <1>2. rest \subseteq B
    BY <1>1 DEF Units
  <1>3. IsFiniteSet(B) /\ IsFiniteSet(S) /\ r \in S
        /\ \A p \in S : TotalIn(next)[p] \in Nat
    BY CountedFinite
  <1>4. TotalIn(next)[r] = next[r].charge.total /\ next[r].charge.total \in Nat
    BY CountedFinite
  <1>5. UsedIn(next, c, since) = Cardinality(Units(TotalIn(next), S))
        /\ UsedIn(rows, c, since) = Cardinality(B)
    BY CountedFinite
  <1> HIDE DEF S, rest, B
  <1>6. IsFiniteSet(rest) /\ Cardinality(rest) <= Cardinality(B)
    BY <1>2, <1>3, FS_Subset
  <1>7. Cardinality(Units(TotalIn(next), S)) = TotalIn(next)[r] + Cardinality(rest)
    BY <1>3, <1>6, UnitsOfOneMore DEF rest
  <1>8. Cardinality(rest) \in Nat /\ Cardinality(B) \in Nat
    BY <1>3, <1>6, FS_CardinalityType
  <1> QED BY <1>4, <1>5, <1>6, <1>7, <1>8

-----------------------------------------------------------------------------
\* The largest charge.

\* Charges are finitely many: each has no more nano-units than all together.
LEMMA ChargesBounded ==
    \E n \in Nat : \A ch \in Charges : ch.total <= n
  <1> DEFINE total == [ch \in Charges |-> ch.total]
             all == Units(total, Charges)
  <1>1. \A ch \in Charges : total[ch] \in Nat /\ total[ch] = ch.total
    BY DataAssumption
  <1>2. IsFiniteSet(all) /\ Cardinality(all) \in Nat
    BY <1>1, ChargeAssumption, UnitsFinite, FS_CardinalityType
  <1>3. ASSUME NEW ch \in Charges PROVE ch.total <= Cardinality(all)
    <2>1. /\ IsFiniteSet(Charges \ {ch})
          /\ \A x \in Charges \ {ch} : total[x] \in Nat
      BY <1>1, ChargeAssumption, FS_Subset
    <2>2. IsFiniteSet(Units(total, Charges \ {ch}))
      BY <2>1, UnitsFinite
    <2>3. Cardinality(all) = total[ch] + Cardinality(Units(total, Charges \ {ch}))
      BY <1>1, <2>2, UnitsOfOneMore
    <2>4. Cardinality(Units(total, Charges \ {ch})) \in Nat
      BY <2>2, FS_CardinalityType
    <2>5. total[ch] \in Nat /\ total[ch] = ch.total
      BY <1>1
    <2> HIDE DEF all, total
    <2> QED BY <1>2, <2>3, <2>4, <2>5
  <1> QED BY <1>2, <1>3

LEMMA MaxChargeBounds ==
    /\ MaxCharge \in Nat
    /\ \A ch \in Charges : ch.usd => ch.total <= MaxCharge
  <1> DEFINE S == {ch.total : ch \in {x \in Charges : x.usd}} \cup {0}
             bounds == {n \in Nat : \A x \in S : x <= n}
  <1>1. S \subseteq Nat /\ 0 \in S
    BY DataAssumption
  <1>2. bounds # {}
    BY ChargesBounded
  <1>3. PICK m \in bounds : \A n \in bounds : m <= n
    BY <1>2, LeastNatural
  <1>4. m \in S
    <2> SUFFICES ASSUME m \notin S PROVE FALSE
      OBVIOUS
    <2>1. m \in Nat /\ \A x \in S : x <= m
      BY <1>3
    <2> HIDE DEF S
    <2>2. \A x \in S : x \in Nat /\ x # m /\ x <= m
      BY <1>1, <2>1
    <2>3. m # 0
      BY <1>1
    <2>4. PICK n \in Nat : m = n + 1
      <3>1. m - 1 \in Nat /\ m = (m - 1) + 1
        BY <2>1, <2>3
      <3> QED BY <3>1
    <2>5. n \in bounds
      BY <2>2, <2>4
    <2> QED BY <1>3, <2>1, <2>4, <2>5
  <1>5. \A x \in S : m >= x
    BY <1>1, <1>3
  <1>6. MaxCharge = CHOOSE x \in S : \A y \in S : x >= y
    BY DEF MaxCharge, Max
  <1>7. MaxCharge \in S /\ \A y \in S : MaxCharge >= y
    BY <1>4, <1>5, <1>6
  <1>8. ASSUME NEW ch \in Charges, ch.usd PROVE ch.total <= MaxCharge
    <2>1. ch.total \in S /\ ch.total \in Nat
      BY <1>8, DataAssumption
    <2>2. MaxCharge \in Nat /\ MaxCharge >= ch.total
      BY <1>1, <1>7, <2>1
    <2> QED BY <2>1, <2>2
  <1> QED BY <1>1, <1>7, <1>8

-----------------------------------------------------------------------------
\* The window.

LEMMA Remainder ==
    ASSUME NEW a \in Nat, NEW d \in Nat \ {0}
    PROVE  \E m \in Nat, i \in Nat : a = d * m + i /\ i < d /\ i = a % d
  <1>1. /\ a \div d \in Nat /\ a % d \in Nat
        /\ a = d * (a \div d) + (a % d)
        /\ a % d < d
    OBVIOUS
  <1> QED BY <1>1

LEMMA DayStartGrows ==
    ASSUME NEW a \in Nat, NEW b \in Nat, a <= b
    PROVE  /\ DayStart(a) \in Nat /\ DayStart(b) \in Nat
           /\ DayStart(a) <= DayStart(b)
  <1>1. PICK d \in Nat \ {0} : d = DayLength
    BY QuotaAssumption
  <1>2. PICK m \in Nat, i \in Nat : a = d * m + i /\ i < d /\ i = a % d
    BY Remainder
  <1>3. PICK n \in Nat, j \in Nat : b = d * n + j /\ j < d /\ j = b % d
    BY Remainder
  <1>4. PICK x \in Nat, y \in Nat : x = d * m /\ y = d * n
    BY <1>1
  <1>5. DayStart(a) = x /\ DayStart(b) = y
    BY <1>1, <1>2, <1>3, <1>4 DEF DayStart
  <1>6. x <= y
    <2>1. CASE m <= n
      <3>1. PICK k \in Nat : n = m + k
        BY <2>1
      <3>2. d * n = d * m + d * k /\ d * k \in Nat
        BY <3>1
      <3> QED BY <1>4, <3>2
    <2>2. CASE n < m
      <3>1. PICK k \in Nat : m = n + 1 + k
        BY <2>2
      <3>2. d * m = d * n + d + d * k /\ d * k \in Nat
        BY <3>1
      <3> QED BY <1>2, <1>3, <1>4, <3>2
    <2> QED BY <2>1, <2>2
  <1> QED BY <1>5, <1>6

LEMMA WindowGrows ==
    ASSUME NEW c \in Clients, StoreTypeOK, NEW t \in Nat, t <= now
    PROVE  /\ WindowStart(c, DayStart(t)) \in Nat
           /\ CurrentWindow(c) \in Nat
           /\ WindowStart(c, DayStart(t)) <= CurrentWindow(c)
  <1>1. DayStart(t) \in Nat /\ DayStart(now) \in Nat /\ DayStart(t) <= DayStart(now)
    BY DayStartGrows DEF StoreTypeOK
  <1>2. resetAt[c] \in Nat
    BY DEF StoreTypeOK
  <1> QED BY <1>1, <1>2 DEF WindowStart, CurrentWindow

\* Time passes and resets follow each other: a window never reaches back.
LEMMA WindowMovesForward ==
    ASSUME NEW c \in Clients, StoreTypeOK, StoreTypeOK',
           now <= now', resetAt[c] <= resetAt'[c]
    PROVE  /\ CurrentWindow(c) \in Nat /\ CurrentWindow(c)' \in Nat
           /\ CurrentWindow(c) <= CurrentWindow(c)'
  <1>1. DayStart(now) \in Nat /\ DayStart(now') \in Nat /\ DayStart(now) <= DayStart(now')
    BY DayStartGrows DEF StoreTypeOK
  <1>2. resetAt[c] \in Nat /\ resetAt'[c] \in Nat
    BY DEF StoreTypeOK
  <1> QED BY <1>1, <1>2 DEF WindowStart, CurrentWindow

-----------------------------------------------------------------------------
\* One step and the bound of one client.

Stored == {r \in RunIds : runs[r] # Absent}

Bounded(c) ==
    UsedUSD(c) + MaxCharge * Cardinality(OpenInWindow(c))
        < DailyLimit[c] + MaxCharge * peak[c]

QuotaInv ==
    /\ StoreInv
    /\ IsFiniteSet(Stored)
    /\ peak \in [Clients -> Nat]
    /\ OvershootIsBounded

LEMMA Rows ==
    /\ StoreInv /\ IsFiniteSet(Stored) => RowsOK(runs)
    /\ StoreInv' /\ IsFiniteSet(Stored') => RowsOK(runs')
  <1>1. ASSUME StoreInv, NEW r \in RunIds, CompletedIn(runs, r)
        PROVE  runs[r].charge \in Charges
    BY <1>1 DEF StoreInv, StoreTypeOK, LedgerConsistent, CompletedIn, Absent, Row
  <1>2. ASSUME StoreInv', NEW r \in RunIds, CompletedIn(runs', r)
        PROVE  runs'[r].charge \in Charges
    BY <1>2 DEF StoreInv, StoreTypeOK, LedgerConsistent, CompletedIn, Absent, Row
  <1> QED BY <1>1, <1>2 DEF RowsOK, Stored, StoreInv, StoreTypeOK

LEMMA UsedUSDIsUsedIn ==
    ASSUME NEW c
    PROVE  /\ UsedUSD(c) = UsedIn(runs, c, CurrentWindow(c))
           /\ UsedUSD(c)' = UsedIn(runs', c, CurrentWindow(c)')
           /\ \A since : DailyQuotaUsed(c, since) = UsedIn(runs, c, since)
  <1>1. ASSUME NEW since PROVE DailyQuotaUsed(c, since) = UsedIn(runs, c, since)
    BY DEF DailyQuotaUsed, Counted, Completed, UsedIn, CountedIn, CompletedIn
  <1>2. UsedUSD(c) = UsedIn(runs, c, CurrentWindow(c))
    BY <1>1 DEF UsedUSD
  <1>3. UsedUSD(c)' = UsedIn(runs', c, CurrentWindow(c)')
    BY DEF UsedUSD, DailyQuotaUsed, Counted, Completed, UsedIn, CountedIn,
           CompletedIn, MapThenSumSet, MapThenFoldSet
  <1> QED BY <1>1, <1>2, <1>3

LEMMA OpenFinite ==
    ASSUME NEW c
    PROVE  /\ IsFiniteSet(Stored) => /\ IsFiniteSet(OpenInWindow(c))
                                     /\ Cardinality(OpenInWindow(c)) \in Nat
           /\ IsFiniteSet(Stored') => /\ IsFiniteSet(OpenInWindow(c)')
                                      /\ Cardinality(OpenInWindow(c)') \in Nat
  <1>1. OpenInWindow(c) \subseteq Stored /\ OpenInWindow(c)' \subseteq Stored'
    BY DEF OpenInWindow, Stored, Open, Absent
  <1> QED BY <1>1, FS_Subset, FS_CardinalityType

LEMMA PeakGrows ==
    ASSUME NEW c \in Clients, QuotaNext, peak \in [Clients -> Nat],
           IsFiniteSet(Stored')
    PROVE  /\ peak'[c] \in Nat
           /\ peak[c] <= peak'[c]
           /\ Cardinality(OpenInWindow(c)') <= peak'[c]
  <1>1. PICK p \in Nat, n \in Nat : p = peak[c] /\ n = Cardinality(OpenInWindow(c)')
    BY OpenFinite
  <1>2. peak'[c] = Max({p, n})
    BY <1>1 DEF QuotaNext
  <1>3. \E x \in {p, n} : \A y \in {p, n} : x >= y
    OBVIOUS
  <1>4. Max({p, n}) \in {p, n} /\ \A y \in {p, n} : Max({p, n}) >= y
    BY <1>3 DEF Max
  <1> QED BY <1>1, <1>2, <1>4

\* The arithmetic of the three kinds of steps: nothing is admitted or settled,
\* a run settles, a run is admitted.
LEMMA Arithmetic ==
    ASSUME NEW used \in Nat, NEW usedNext \in Nat, NEW open \in Nat,
           NEW openNext \in Nat, NEW top \in Nat, NEW topNext \in Nat,
           NEW limit \in Nat, NEW max \in Nat, top <= topNext
    PROVE  /\ /\ used + max * open < limit + max * top
              /\ usedNext <= used /\ openNext <= open
              => usedNext + max * openNext < limit + max * topNext
           /\ /\ used + max * open < limit + max * top
              /\ usedNext <= used + max /\ open = openNext + 1
              => usedNext + max * openNext < limit + max * topNext
           /\ usedNext < limit /\ openNext <= topNext
              => usedNext + max * openNext < limit + max * topNext
  <1>1. ASSUME NEW a \in Nat, NEW b \in Nat, a <= b
        PROVE  max * a \in Nat /\ max * b \in Nat /\ max * a <= max * b
    <2>1. PICK k \in Nat : b = a + k
      BY <1>1
    <2>2. max * b = max * a + max * k /\ max * k \in Nat /\ max * a \in Nat
      BY <2>1
    <2> QED BY <2>2
  <1>2. max * (openNext + 1) = max * openNext + max /\ max * openNext \in Nat
    OBVIOUS
  <1>3. max * top <= max * topNext /\ max * top \in Nat /\ max * topNext \in Nat
    BY <1>1
  <1>4. openNext <= open => max * openNext <= max * open /\ max * open \in Nat
    BY <1>1
  <1>5. openNext <= topNext => max * openNext <= max * topNext
    BY <1>1
  <1>6. open = openNext + 1 => max * open = max * openNext + max
    BY <1>2
  <1>7. PICK x \in Nat, y \in Nat, z \in Nat, w \in Nat :
            x = max * open /\ y = max * openNext /\ z = max * top /\ w = max * topNext
    OBVIOUS
  <1> QED BY <1>2, <1>3, <1>4, <1>5, <1>6, <1>7

\* What the lemmas about a step start from.
StepOf(c) ==
    /\ QuotaInv /\ QuotaNext
    /\ StoreInv' /\ IsFiniteSet(Stored')
    /\ c \in Capped /\ Bounded(c)

LEMMA StepTypes ==
    ASSUME NEW c, StepOf(c)
    PROVE  /\ c \in Clients /\ DailyLimit[c] \in Nat /\ MaxCharge \in Nat
           /\ RowsOK(runs) /\ RowsOK(runs')
           /\ UsedUSD(c) \in Nat /\ UsedUSD(c)' \in Nat
           /\ IsFiniteSet(OpenInWindow(c)) /\ IsFiniteSet(OpenInWindow(c)')
           /\ Cardinality(OpenInWindow(c)) \in Nat
           /\ Cardinality(OpenInWindow(c)') \in Nat
           /\ peak[c] \in Nat /\ peak'[c] \in Nat /\ peak[c] <= peak'[c]
           /\ Cardinality(OpenInWindow(c)') <= peak'[c]
  <1>1. c \in Clients /\ DailyLimit[c] \in Nat
    BY QuotaAssumption DEF StepOf, Capped
  <1>2. RowsOK(runs) /\ RowsOK(runs')
    BY Rows DEF StepOf, QuotaInv
  <1>3. UsedUSD(c) \in Nat /\ UsedUSD(c)' \in Nat
    BY <1>2, UsedUSDIsUsedIn, CountedFinite
  <1>4. peak \in [Clients -> Nat] /\ peak[c] \in Nat
    BY <1>1 DEF StepOf, QuotaInv
  <1> QED BY <1>1, <1>2, <1>3, <1>4, OpenFinite, PeakGrows, MaxChargeBounds
          DEF StepOf, QuotaInv

\* The rows the quota counts after the step were counted before it.
LEMMA QuietStep ==
    ASSUME NEW c, StepOf(c),
           CurrentWindow(c) \in Nat, CurrentWindow(c)' \in Nat,
           CurrentWindow(c) <= CurrentWindow(c)',
           \A r \in RunIds :
               CompletedIn(runs', r) => runs'[r] = runs[r],
           \A r \in RunIds : Open(r)' =>
               /\ Open(r)
               /\ runs'[r].client = runs[r].client
               /\ runs'[r].created = runs[r].created
    PROVE  Bounded(c)'
  <1>1. RowsOK(runs) /\ RowsOK(runs')
    BY StepTypes
  <1>2. ASSUME NEW r \in RunIds, runs[r] # Absent PROVE runs[r].created \in Nat
    BY <1>1, <1>2 DEF RowsOK, Row
  <1>3. ASSUME NEW r \in CountedIn(runs', c, CurrentWindow(c)')
        PROVE  /\ r \in CountedIn(runs, c, CurrentWindow(c))
               /\ runs'[r].charge = runs[r].charge
    <2>1. runs'[r] = runs[r] /\ runs[r] # Absent /\ r \in RunIds
      BY <1>3 DEF CountedIn, CompletedIn, Absent
    <2>2. runs[r].created \in Nat /\ runs[r].created >= CurrentWindow(c)'
      BY <1>2, <1>3, <2>1 DEF CountedIn
    <2>3. runs[r].created >= CurrentWindow(c)
      BY <2>2
    <2> QED BY <1>3, <2>1, <2>3 DEF CountedIn, CompletedIn
  <1>4. UsedIn(runs', c, CurrentWindow(c)') <= UsedIn(runs, c, CurrentWindow(c))
    BY <1>1, <1>3, UsedShrinks
  <1>5. OpenInWindow(c)' \subseteq OpenInWindow(c)
    <2> SUFFICES ASSUME NEW r \in RunIds, Open(r)', runs'[r].client = c,
                        runs'[r].created >= CurrentWindow(c)'
                 PROVE  r \in OpenInWindow(c)
      BY DEF OpenInWindow
    <2>1. Open(r) /\ runs[r] # Absent /\ runs[r].client = c
          /\ runs[r].created >= CurrentWindow(c)'
      BY DEF Open, Absent
    <2>2. runs[r].created \in Nat
      BY <1>2, <2>1
    <2>3. runs[r].created >= CurrentWindow(c)
      BY <2>1, <2>2
    <2> QED BY <2>1, <2>3 DEF OpenInWindow
  <1>6. Cardinality(OpenInWindow(c)') <= Cardinality(OpenInWindow(c))
    BY <1>5, StepTypes, FS_Subset
  <1>7. UsedUSD(c)' <= UsedUSD(c)
    BY <1>4, UsedUSDIsUsedIn
  <1>8. UsedUSD(c) + MaxCharge * Cardinality(OpenInWindow(c))
            < DailyLimit[c] + MaxCharge * peak[c]
    BY DEF StepOf, Bounded
  <1>9. UsedUSD(c)' + MaxCharge * Cardinality(OpenInWindow(c)')
            < DailyLimit[c] + MaxCharge * peak'[c]
    BY <1>6, <1>7, <1>8, StepTypes, Arithmetic
  <1> QED BY <1>9 DEF Bounded, MaxCharge

LEMMA CompleteKeepsBound ==
    ASSUME NEW c, StepOf(c), NEW r \in RunIds, NEW ch \in Charges, Complete(r, ch)
    PROVE  Bounded(c)'
  <1>1. RowsOK(runs) /\ RowsOK(runs')
    BY StepTypes
  <1>2. /\ Open(r) /\ runs[r] \in Row
        /\ Completed(r)'
        /\ runs'[r].client = runs[r].client
        /\ runs'[r].created = runs[r].created
        /\ runs'[r].charge = ch
        /\ \A p \in RunIds \ {r} : runs'[p] = runs[p]
    BY CompleteEffect DEF StepOf, QuotaInv, StoreInv
  <1>3. CurrentWindow(c)' = CurrentWindow(c)
    BY DEF Complete, CurrentWindow, WindowStart
  <1> DEFINE w == CurrentWindow(c)
  <1>4. CountedIn(runs', c, w) \ {r} \subseteq CountedIn(runs, c, w)
    BY <1>2 DEF CountedIn, CompletedIn
  <1>5. ~Open(r)' /\ ~CompletedIn(runs, r)
    BY <1>2 DEF Open, Completed, CompletedIn
  <1>6. OpenInWindow(c)' = OpenInWindow(c) \ {r}
    BY <1>2, <1>3, <1>5 DEF OpenInWindow, Open
  <1>7. UsedUSD(c)' = UsedIn(runs', c, w) /\ UsedUSD(c) = UsedIn(runs, c, w)
    BY <1>3, UsedUSDIsUsedIn
  <1>8. UsedUSD(c) + MaxCharge * Cardinality(OpenInWindow(c))
            < DailyLimit[c] + MaxCharge * peak[c]
    BY DEF StepOf, Bounded
  <1> HIDE DEF w
  <1>9. CASE r \in CountedIn(runs', c, w)
    <2>1. UsedIn(runs', c, w) <= UsedIn(runs, c, w) + ch.total
      <3>1. \A p \in CountedIn(runs', c, w) \ {r} : runs'[p].charge = runs[p].charge
        BY <1>2 DEF CountedIn
      <3>2. UsedIn(runs', c, w) <= UsedIn(runs, c, w) + runs'[r].charge.total
        BY <1>1, <1>4, <1>9, <3>1, UsedGrows
      <3> QED BY <1>2, <3>2
    <2>2. ch.usd /\ ch.total \in Nat /\ ch.total <= MaxCharge
      BY <1>2, <1>9, MaxChargeBounds, DataAssumption DEF CountedIn
    <2>3. UsedUSD(c)' <= UsedUSD(c) + MaxCharge
      BY <1>7, <2>1, <2>2, StepTypes
    <2>4. r \in OpenInWindow(c)
      BY <1>2, <1>9 DEF CountedIn, OpenInWindow, w
    <2>5. Cardinality(OpenInWindow(c)') = Cardinality(OpenInWindow(c)) - 1
      BY <1>6, <2>4, StepTypes, FS_RemoveElement
    <2>6. Cardinality(OpenInWindow(c)) = Cardinality(OpenInWindow(c)') + 1
      BY <2>5, StepTypes
    <2>7. UsedUSD(c)' + MaxCharge * Cardinality(OpenInWindow(c)')
              < DailyLimit[c] + MaxCharge * peak'[c]
      BY <1>8, <2>3, <2>6, StepTypes, Arithmetic
    <2> QED BY <2>7 DEF Bounded, MaxCharge
  <1>10. CASE r \notin CountedIn(runs', c, w)
    <2>1. UsedIn(runs', c, w) <= UsedIn(runs, c, w)
      <3>1. CountedIn(runs', c, w) \subseteq CountedIn(runs, c, w)
        BY <1>4, <1>10
      <3>2. \A p \in CountedIn(runs', c, w) : runs'[p].charge = runs[p].charge
        BY <1>2, <1>10 DEF CountedIn
      <3> QED BY <1>1, <3>1, <3>2, UsedShrinks
    <2>2. UsedUSD(c)' <= UsedUSD(c)
      BY <1>7, <2>1
    <2>3. Cardinality(OpenInWindow(c)') <= Cardinality(OpenInWindow(c))
      BY <1>6, StepTypes, FS_Subset
    <2>4. UsedUSD(c)' + MaxCharge * Cardinality(OpenInWindow(c)')
              < DailyLimit[c] + MaxCharge * peak'[c]
      BY <1>8, <2>2, <2>3, StepTypes, Arithmetic
    <2> QED BY <2>4 DEF Bounded, MaxCharge
  <1> QED BY <1>9, <1>10

\* Reserve may measure from an older midnight: it then counts more runs, not
\* fewer.
LEMMA AdmittedBelowLimit ==
    ASSUME StoreInv, IsFiniteSet(Stored), NEW c \in Clients, NEW t \in 0..now,
           DailyLimit[c] # NoLimit, ~QuotaExhausted(c, DayStart(t))
    PROVE  UsedUSD(c) < DailyLimit[c]
  <1>1. StoreTypeOK /\ RowsOK(runs) /\ t \in Nat /\ t <= now /\ DailyLimit[c] \in Nat
    BY Rows, QuotaAssumption DEF StoreInv, StoreTypeOK
  <1>2. PICK old \in Nat : old = WindowStart(c, DayStart(t))
    BY <1>1, WindowGrows
  <1>3. PICK w \in Nat : w = CurrentWindow(c)
    BY <1>1, WindowGrows
  <1>4. old <= w
    BY <1>1, <1>2, <1>3, WindowGrows
  <1>5. CountedIn(runs, c, w) \subseteq CountedIn(runs, c, old)
    <2> SUFFICES ASSUME NEW r \in CountedIn(runs, c, w)
                 PROVE  runs[r].created >= old
      BY DEF CountedIn
    <2>1. runs[r].created \in Nat /\ runs[r].created >= w
      BY <1>1 DEF CountedIn, CompletedIn, RowsOK, Row, Absent
    <2> QED BY <1>4, <2>1
  <1>6. UsedIn(runs, c, w) <= UsedIn(runs, c, old)
    BY <1>1, <1>5, UsedShrinks
  <1>7. UsedIn(runs, c, w) \in Nat /\ UsedIn(runs, c, old) \in Nat
    BY <1>1, CountedFinite
  <1>8. ~ (UsedIn(runs, c, old) >= DailyLimit[c])
    BY <1>2, UsedUSDIsUsedIn DEF QuotaExhausted
  <1>9. UsedUSD(c) = UsedIn(runs, c, w)
    BY <1>3, UsedUSDIsUsedIn
  <1> QED BY <1>1, <1>6, <1>7, <1>8, <1>9

LEMMA ReserveKeepsBound ==
    ASSUME NEW c, StepOf(c), NEW r \in RunIds, NEW d \in Clients,
           NEW k \in Keys \cup {NoKey}, NEW f \in Fingerprints, NEW t \in 0..now,
           Reserve(r, d, k, f, DayStart(t))
    PROVE  Bounded(c)'
  <1>1. /\ RowsOK(runs) /\ RowsOK(runs')
        /\ StoreTypeOK /\ now \in Nat
    BY StepTypes DEF StepOf, QuotaInv, StoreInv, StoreTypeOK
  <1>2. /\ runs[r] = Absent
        /\ Open(r)' /\ runs'[r].client = d
        /\ \A p \in RunIds \ {r} : runs'[p] = runs[p]
    BY <1>1, ReserveEffect
  <1>3. CurrentWindow(c)' = CurrentWindow(c)
    BY DEF Reserve, CurrentWindow, WindowStart
  <1>4. CurrentWindow(c) \in Nat
    BY <1>1, StepTypes, WindowGrows
  <1>5. \A p \in RunIds : CompletedIn(runs', p) => runs'[p] = runs[p]
    BY <1>2 DEF Open, CompletedIn
  <1>6. CASE c # d
    <2>1. CountedIn(runs', c, CurrentWindow(c)) \subseteq CountedIn(runs, c, CurrentWindow(c))
          /\ \A p \in CountedIn(runs', c, CurrentWindow(c)) :
                 runs'[p].charge = runs[p].charge
      BY <1>5 DEF CountedIn, CompletedIn
    <2>2. UsedUSD(c)' <= UsedUSD(c)
      BY <1>1, <1>3, <2>1, UsedShrinks, UsedUSDIsUsedIn
    <2>3. OpenInWindow(c)' \subseteq OpenInWindow(c)
      BY <1>2, <1>3, <1>6 DEF OpenInWindow, Open
    <2>4. Cardinality(OpenInWindow(c)') <= Cardinality(OpenInWindow(c))
      BY <2>3, StepTypes, FS_Subset
    <2>5. UsedUSD(c) + MaxCharge * Cardinality(OpenInWindow(c))
              < DailyLimit[c] + MaxCharge * peak[c]
      BY DEF StepOf, Bounded
    <2>6. UsedUSD(c)' + MaxCharge * Cardinality(OpenInWindow(c)')
              < DailyLimit[c] + MaxCharge * peak'[c]
      BY <2>2, <2>4, <2>5, StepTypes, Arithmetic
    <2> QED BY <2>6 DEF Bounded, MaxCharge
  <1>7. CASE c = d
    <2>1. CountedIn(runs', c, CurrentWindow(c)) \subseteq CountedIn(runs, c, CurrentWindow(c))
          /\ \A p \in CountedIn(runs', c, CurrentWindow(c)) :
                 runs'[p].charge = runs[p].charge
      BY <1>5 DEF CountedIn, CompletedIn
    <2>2. UsedUSD(c)' <= UsedUSD(c)
      BY <1>1, <1>3, <2>1, UsedShrinks, UsedUSDIsUsedIn
    <2>3. DailyLimit[c] # NoLimit /\ ~QuotaExhausted(c, DayStart(t))
      BY <1>7 DEF Reserve, StepOf, Capped
    <2>4. UsedUSD(c) < DailyLimit[c]
      BY <2>3, StepTypes, AdmittedBelowLimit DEF StepOf, QuotaInv
    <2>5. UsedUSD(c)' < DailyLimit[c]
      BY <2>2, <2>4, StepTypes
    <2>6. UsedUSD(c)' + MaxCharge * Cardinality(OpenInWindow(c)')
              < DailyLimit[c] + MaxCharge * peak'[c]
      BY <2>5, StepTypes, Arithmetic
    <2> QED BY <2>6 DEF Bounded, MaxCharge
  <1> QED BY <1>6, <1>7

-----------------------------------------------------------------------------
\* The invariant.

LEMMA StoredStaysFinite ==
    ASSUME StoreInv, IsFiniteSet(Stored), StoreNext
    PROVE  IsFiniteSet(Stored')
  <1>1. ASSUME NEW r \in RunIds, \A p \in RunIds \ {r} : runs'[p] = runs[p]
        PROVE  IsFiniteSet(Stored')
    <2>1. Stored' \subseteq Stored \cup {r}
      BY <1>1 DEF Stored
    <2>2. IsFiniteSet(Stored \cup {r})
      BY FS_AddElement
    <2> QED BY <2>1, <2>2, FS_Subset
  <1>2. ASSUME NEW r \in RunIds,
               \/ \E c \in Clients, k \in Keys \cup {NoKey}, f \in Fingerprints :
                      \E d : Reserve(r, c, k, f, d)
               \/ MarkRunning(r)
               \/ \E s \in FailureSettlements : MarkFailed(r, s)
               \/ \E ch \in Charges : Complete(r, ch)
        PROVE  \A p \in RunIds \ {r} : runs'[p] = runs[p]
    BY <1>2 DEF Reserve, MarkRunning, MarkFailed, UpdateState, Complete,
                StoreInv, StoreTypeOK
  <1>3. CASE RecoverIncompleteRuns
    <2>1. \A r \in RunIds : runs[r] = Absent => runs'[r] = Absent
      BY <1>3, RecoverEffect DEF StoreInv, Open, Absent
    <2>2. Stored' \subseteq Stored
      BY <2>1 DEF Stored
    <2> QED BY <2>2, FS_Subset
  <1>4. CASE runs' = runs
    BY <1>4 DEF Stored
  <1> QED BY <1>1, <1>2, <1>3, <1>4 DEF StoreNext, ResetDailyQuota, Tick

LEMMA StepKeepsBound ==
    ASSUME NEW c, StepOf(c)
    PROVE  Bounded(c)'
  <1>0. /\ StoreTypeOK /\ StoreTypeOK' /\ c \in Clients
        /\ now \in Nat /\ resetAt \in [Clients -> Nat]
        /\ CurrentWindow(c) \in Nat
    BY StepTypes, WindowGrows DEF StepOf, QuotaInv, StoreInv, StoreTypeOK
  <1>1. ASSUME NEW r \in RunIds, NEW status \in {"running", "failed"},
               NEW settlement, UpdateState(r, status, settlement)
        PROVE  Bounded(c)'
    <2>1. /\ Open(r) /\ runs'[r].status = status
          /\ runs'[r].client = runs[r].client
          /\ runs'[r].created = runs[r].created
          /\ \A p \in RunIds \ {r} : runs'[p] = runs[p]
      BY <1>0, <1>1, UpdateStateEffect
    <2>2. CurrentWindow(c)' = CurrentWindow(c)
      BY <1>1 DEF UpdateState, CurrentWindow, WindowStart
    <2>3. \A p \in RunIds : CompletedIn(runs', p) => runs'[p] = runs[p]
      BY <2>1 DEF CompletedIn
    <2>4. \A p \in RunIds : Open(p)' =>
              /\ Open(p)
              /\ runs'[p].client = runs[p].client
              /\ runs'[p].created = runs[p].created
      BY <2>1 DEF Open
    <2> QED BY <1>0, <2>2, <2>3, <2>4, QuietStep
  <1>2. CASE RecoverIncompleteRuns
    <2>1. \A r \in RunIds : /\ ~Open(r) => runs'[r] = runs[r]
                            /\ Open(r) => runs'[r].status = "failed"
      BY <1>0, <1>2, RecoverEffect
    <2>2. CurrentWindow(c)' = CurrentWindow(c)
      BY <1>2 DEF RecoverIncompleteRuns, CurrentWindow, WindowStart
    <2>3. \A p \in RunIds : /\ CompletedIn(runs', p) => runs'[p] = runs[p]
                            /\ ~Open(p)'
      BY <2>1 DEF CompletedIn, Open
    <2> QED BY <1>0, <2>2, <2>3, QuietStep
  <1>3. CASE Tick \/ \E x \in Clients, at \in 0..now : ResetDailyQuota(x, at)
    <2>1. runs' = runs
      BY <1>3 DEF Tick, ResetDailyQuota
    <2>2. now <= now' /\ resetAt[c] <= resetAt'[c]
      BY <1>0, <1>3 DEF Tick, ResetDailyQuota
    <2>3. CurrentWindow(c)' \in Nat /\ CurrentWindow(c) <= CurrentWindow(c)'
      BY <1>0, <2>2, WindowMovesForward
    <2>4. \A p \in RunIds : Open(p)' => Open(p)
      BY <2>1 DEF Open
    <2> QED BY <1>0, <2>1, <2>3, <2>4, QuietStep
  <1>4. ASSUME NEW r \in RunIds, NEW d \in Clients, NEW k \in Keys \cup {NoKey},
               NEW f \in Fingerprints, NEW t \in 0..now,
               Reserve(r, d, k, f, DayStart(t))
        PROVE  Bounded(c)'
    BY <1>4, ReserveKeepsBound
  <1>5. ASSUME NEW r \in RunIds, NEW ch \in Charges, Complete(r, ch)
        PROVE  Bounded(c)'
    BY <1>5, CompleteKeepsBound
  <1>6. ASSUME NEW r \in RunIds, MarkRunning(r)
        PROVE  Bounded(c)'
    BY <1>1, <1>6 DEF MarkRunning
  <1>7. ASSUME NEW r \in RunIds, NEW s \in FailureSettlements, MarkFailed(r, s)
        PROVE  Bounded(c)'
    BY <1>1, <1>7 DEF MarkFailed
  <1>8. StoreNext
    BY DEF StepOf, QuotaNext
  <1> QED BY <1>2, <1>3, <1>4, <1>5, <1>6, <1>7, <1>8 DEF StoreNext

LEMMA QuotaInitInv == QuotaInit => QuotaInv
  <1> SUFFICES ASSUME QuotaInit PROVE QuotaInv
    OBVIOUS
  <1>1. StoreInv /\ Stored = {} /\ IsFiniteSet(Stored)
    BY StoreInitInv, FS_EmptySet DEF QuotaInit, StoreInit, Stored
  <1>2. RowsOK(runs)
    BY <1>1, Rows
  <1>3. peak \in [Clients -> Nat] /\ \A c \in Clients : peak[c] = 0
    BY DEF QuotaInit
  <1>4. ASSUME NEW c \in Capped PROVE Bounded(c)
    <2>1. DailyLimit[c] \in Nat \ {0} /\ c \in Clients
      BY QuotaAssumption DEF Capped
    <2>2. OpenInWindow(c) = {} /\ CountedIn(runs, c, CurrentWindow(c)) = {}
      BY <1>1 DEF OpenInWindow, Open, CountedIn, CompletedIn, Stored, Absent
    <2>3. UsedUSD(c) = 0
      BY <1>2, <2>2, UsedUSDIsUsedIn, CountedFinite, UnitsOfNone
    <2>4. Cardinality(OpenInWindow(c)) = 0
      BY <2>2, FS_EmptySet
    <2>5. MaxCharge \in Nat /\ peak[c] = 0
      BY <1>3, <2>1, MaxChargeBounds
    <2> QED BY <2>1, <2>3, <2>4, <2>5 DEF Bounded
  <1> QED BY <1>1, <1>3, <1>4 DEF QuotaInv, OvershootIsBounded, Bounded

LEMMA QuotaStepKeepsInv == QuotaInv /\ [QuotaNext]_quotaVars => QuotaInv'
  <1> SUFFICES ASSUME QuotaInv, [QuotaNext]_quotaVars PROVE QuotaInv'
    OBVIOUS
  <1>1. CASE QuotaNext
    <2>1. StoreNext /\ StoreInv'
      BY <1>1, StoreStepKeepsInv DEF QuotaNext, QuotaInv
    <2>2. IsFiniteSet(Stored')
      BY <2>1, StoredStaysFinite DEF QuotaInv
    <2>3. peak' \in [Clients -> Nat]
      <3>1. \A c \in Clients : peak'[c] \in Nat
        BY <1>1, <2>2, PeakGrows DEF QuotaInv
      <3>2. peak' = [c \in Clients |-> peak'[c]]
        BY <1>1 DEF QuotaNext
      <3> QED BY <3>1, <3>2
    <2>4. ASSUME NEW c \in Capped PROVE Bounded(c)'
      <3>1. StepOf(c)
        BY <1>1, <2>1, <2>2 DEF StepOf, QuotaInv, OvershootIsBounded, Bounded
      <3> QED BY <3>1, StepKeepsBound
    <2>5. OvershootIsBounded'
      BY <2>4 DEF OvershootIsBounded, Bounded, Capped
    <2> QED BY <2>1, <2>2, <2>3, <2>5 DEF QuotaInv
  <1>2. CASE UNCHANGED quotaVars
    <2>1. StoreInv'
      BY <1>2, StoreStepKeepsInv DEF quotaVars, storeVars, QuotaInv
    <2>2. IsFiniteSet(Stored')
      BY <1>2 DEF quotaVars, QuotaInv, Stored
    <2>3. ASSUME NEW c PROVE /\ UsedUSD(c)' = UsedUSD(c)
                             /\ OpenInWindow(c)' = OpenInWindow(c)
                             /\ peak'[c] = peak[c]
      <3>1. CurrentWindow(c)' = CurrentWindow(c) /\ runs' = runs /\ peak' = peak
        BY <1>2 DEF quotaVars, CurrentWindow, WindowStart
      <3> QED BY <3>1, UsedUSDIsUsedIn DEF OpenInWindow, Open
    <2>4. OvershootIsBounded'
      BY <2>3 DEF OvershootIsBounded, QuotaInv, Capped, MaxCharge
    <2> QED BY <1>2, <2>1, <2>2, <2>4 DEF QuotaInv, quotaVars
  <1> QED BY <1>1, <1>2

\* With any number of clients, keys, runs in flight, resets and days the quota
\* is overrun by no more than the charges of the runs that were open together.
THEOREM QuotaOvershootBounded == QuotaSpec => []OvershootIsBounded
  <1>1. QuotaInv => OvershootIsBounded
    BY DEF QuotaInv
  <1> QED BY QuotaInitInv, QuotaStepKeepsInv, <1>1, PTL DEF QuotaSpec

\* A used-up quota admits no run, whatever midnight the request carries.
THEOREM NothingAdmittedOverQuota == QuotaSpec => UsedUpQuotaAdmitsNothing
  <1> DEFINE Admits ==
        \A c \in Capped, r \in RunIds :
           UsedUSD(c) >= DailyLimit[c] /\ runs[r] = Absent /\ runs'[r] # Absent
               => runs'[r].client # c
  <1>1. QuotaInv /\ [QuotaNext]_quotaVars => [Admits]_quotaVars
    <2> SUFFICES ASSUME QuotaInv, QuotaNext, NEW c \in Capped, NEW r \in RunIds,
                        UsedUSD(c) >= DailyLimit[c], runs[r] = Absent,
                        runs'[r] # Absent, runs'[r].client = c
                 PROVE  FALSE
      OBVIOUS
    <2>1. StoreNext /\ StoreTypeOK
      BY DEF QuotaNext, QuotaInv, StoreInv
    <2>2. ASSUME NEW p \in RunIds, Open(p), \A x \in RunIds \ {p} : runs'[x] = runs[x]
          PROVE  FALSE
      BY <2>2 DEF Open, Absent
    <2>3. ASSUME NEW p \in RunIds, NEW d \in Clients, NEW k \in Keys \cup {NoKey},
                 NEW f \in Fingerprints, NEW t \in 0..now,
                 Reserve(p, d, k, f, DayStart(t))
          PROVE  FALSE
      <3>0. /\ runs'[p].client = d
            /\ \A x \in RunIds \ {p} : runs'[x] = runs[x]
        BY <2>1, <2>3, ReserveEffect
      <3>1. p = r /\ d = c
        BY <3>0
      <3>2. c \in Clients /\ DailyLimit[c] # NoLimit /\ DailyLimit[c] \in Nat
        BY QuotaAssumption DEF Capped
      <3>3. UsedUSD(c) < DailyLimit[c]
        BY <2>3, <3>1, <3>2, AdmittedBelowLimit DEF Reserve, QuotaInv
      <3>4. UsedUSD(c) \in Nat
        BY UsedUSDIsUsedIn, CountedFinite, Rows DEF QuotaInv
      <3> QED BY <3>2, <3>3, <3>4
    <2>4. ASSUME NEW p \in RunIds, NEW status, NEW settlement,
                 UpdateState(p, status, settlement)
          PROVE  FALSE
      BY <2>1, <2>2, <2>4, UpdateStateEffect
    <2>5. ASSUME NEW p \in RunIds, NEW ch \in Charges, Complete(p, ch)
          PROVE  FALSE
      BY <2>1, <2>2, <2>5, CompleteEffect
    <2>6. CASE RecoverIncompleteRuns
      BY <2>1, <2>6, RecoverEffect DEF Open, Absent
    <2>7. CASE runs' = runs
      BY <2>7
    <2> QED BY <2>1, <2>3, <2>4, <2>5, <2>6, <2>7
            DEF StoreNext, MarkRunning, MarkFailed, Tick, ResetDailyQuota
  <1>2. QuotaSpec => [][Admits]_quotaVars
    BY QuotaInitInv, QuotaStepKeepsInv, <1>1, PTL DEF QuotaSpec
  <1> QED BY <1>2 DEF UsedUpQuotaAdmitsNothing
=============================================================================
