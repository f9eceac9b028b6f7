-------------------------- MODULE SettlementProofs --------------------------
(***************************************************************************)
(* What an answer costs and what its caller reads, for every price, usage, *)
(* text and call.                                                          *)
(*                                                                         *)
(* First the arithmetic of internal/pricing: a charge is the nearest       *)
(* amount or an error, never a wrapped one, and a hard budget granted on   *)
(* bounds of the usage bounds the bill of every usage within them.  Then   *)
(* the three goroutines of a request.  Their invariant, SettlementInv,     *)
(* keeps the event of an unbuffered channel and what the caller has read   *)
(* of it apart: a text the gateway has passed on is the caller's unless    *)
(* its delta is still in the outbox, and once a bill is on record the      *)
(* adapter is closed, so the final event the bill was made of stays.  A    *)
(* second invariant, UsageInv, ties the usage of that event to the last    *)
(* report of the service, as its reader understands it.                    *)
(***************************************************************************)
EXTENDS Settlement, FoldLemmas, TLAPS

-----------------------------------------------------------------------------
(* Division by a positive number.                                          *)

LEMMA Division ==
    ASSUME NEW a \in Nat, NEW d \in Nat \ {0}
    PROVE  /\ a \div d \in Nat
           /\ d * (a \div d) <= a
           /\ a < d * (a \div d) + d
  OBVIOUS

LEMMA ProductGrows ==
    ASSUME NEW a \in Nat, NEW b \in Nat, NEW r \in Nat, a <= b
    PROVE  a * r \in Nat /\ b * r \in Nat /\ a * r <= b * r
<1>1. PICK c \in Nat : b = a + c
  BY b - a \in Nat
<1>2. b * r = a * r + c * r /\ c * r \in Nat /\ a * r \in Nat
  BY <1>1
<1> QED
  BY <1>2

LEMMA QuotientGrows ==
    ASSUME NEW a \in Nat, NEW b \in Nat, NEW d \in Nat \ {0}, a <= b
    PROVE  a \div d <= b \div d
<1>1. PICK m \in Nat : m = a \div d
  BY Division
<1>2. PICK n \in Nat : n = b \div d
  BY Division
<1>3. d * m <= a /\ b < d * n + d
  BY <1>1, <1>2, Division
<1>4. CASE m > n
  <2>1. n + 1 <= m
    BY <1>4
  <2>2. d * (n + 1) <= d * m
    BY <2>1, ProductGrows
  <2>3. d * (n + 1) = d * n + d
    OBVIOUS
  <2> QED
    BY <1>3, <2>2, <2>3
<1> QED
  BY <1>1, <1>2, <1>4

-----------------------------------------------------------------------------
(* One charge.                                                             *)

\* The two facts about half a unit that rounding needs.
LEMMA Half ==
    /\ PerMillion \in Nat \ {0} /\ PerMillion \div 2 \in Nat
    /\ 2 * (PerMillion \div 2) <= PerMillion
    /\ PerMillion < 2 * (PerMillion \div 2) + 2
  BY PricingAssumption

\* A charge is an amount of 64 bits, at most half a nano-unit more than tokens
\* times rate and less than half of one less (multiplyTokens rounds half up),
\* or it is an error.
THEOREM ChargeIsNearest ==
    ASSUME NEW tokens \in Nat, NEW rate \in Nat, NEW charge,
           charge = MultiplyTokens(tokens, rate), charge # NoAmount
    PROVE  /\ charge \in 0..MaxInt64
           /\ 2 * (charge * PerMillion - tokens * rate) <= PerMillion
           /\ 2 * (tokens * rate - charge * PerMillion) < PerMillion
<1>1. PICK p \in Nat : p = tokens * rate
  BY ProductGrows
<1>2. PICK h \in Nat : h = PerMillion \div 2
  BY Half
<1>3. PICK c \in Nat : c = (p + h) \div PerMillion
  BY Half, Division
<1>4. PerMillion * c <= p + h /\ p + h < PerMillion * c + PerMillion
  BY <1>3, Half, Division
<1>5. charge = c /\ c <= MaxInt64
  BY <1>1, <1>2, <1>3 DEF MultiplyTokens
<1>6. 2 * (c * PerMillion - p) <= PerMillion
  BY <1>2, <1>4, Half
<1>7. 2 * (p - c * PerMillion) < PerMillion
  BY <1>2, <1>4, Half
<1> QED
  BY <1>1, <1>5, <1>6, <1>7, PricingAssumption

\* Fewer tokens cost no more, and where the charge of more tokens fits into 64
\* bits, so does theirs.
LEMMA ChargeGrows ==
    ASSUME NEW a \in Nat, NEW b \in Nat, NEW rate \in Nat, a <= b,
           MultiplyTokens(b, rate) # NoAmount
    PROVE  /\ MultiplyTokens(a, rate) \in 0..MaxInt64
           /\ MultiplyTokens(b, rate) \in 0..MaxInt64
           /\ MultiplyTokens(a, rate) <= MultiplyTokens(b, rate)
<1>1. PICK h \in Nat : h = PerMillion \div 2
  BY Half
<1>2. PICK p \in Nat, q \in Nat : p = a * rate /\ q = b * rate
  BY ProductGrows
<1>3. p + h \in Nat /\ q + h \in Nat /\ p + h <= q + h
  BY <1>2, ProductGrows
<1>4. PICK m \in Nat, n \in Nat : m = (p + h) \div PerMillion /\ n = (q + h) \div PerMillion
  BY <1>3, Half, Division
<1>5. m <= n
  BY <1>3, <1>4, Half, QuotientGrows
<1>6. /\ MultiplyTokens(a, rate) = IF m <= MaxInt64 THEN m ELSE NoAmount
      /\ MultiplyTokens(b, rate) = IF n <= MaxInt64 THEN n ELSE NoAmount
  BY <1>1, <1>2, <1>4 DEF MultiplyTokens
<1>7. n <= MaxInt64 /\ MultiplyTokens(b, rate) = n
  BY <1>6
<1>8. m <= MaxInt64
  BY <1>5, <1>7, PricingAssumption
<1>9. MultiplyTokens(a, rate) = m
  BY <1>6, <1>8
<1> QED
  BY <1>5, <1>7, <1>8, <1>9, PricingAssumption

-----------------------------------------------------------------------------
(* The bill and the budget.                                                *)

Prices == [input : Nat, output : Nat]

\* Calculate's total is the exact sum of two amounts of 64 bits, itself one, or
\* there is none: Decimal.Add never wraps.
THEOREM TotalNeverWraps ==
    ASSUME NEW price \in Prices, NEW i \in Nat, NEW o \in Nat, NEW total,
           total = Calculate(price, i, o).total, total # NoAmount
    PROVE  /\ MultiplyTokens(i, price.input) \in 0..MaxInt64
           /\ MultiplyTokens(o, price.output) \in 0..MaxInt64
           /\ total = MultiplyTokens(i, price.input) + MultiplyTokens(o, price.output)
           /\ total \in 0..MaxInt64
<1> DEFINE x == MultiplyTokens(i, price.input)
           y == MultiplyTokens(o, price.output)
<1>1. price.input \in Nat /\ price.output \in Nat
  BY DEF Prices
<1>2. total = IF NoAmount \in {x, y} THEN NoAmount ELSE Add(x, y)
  BY DEF Calculate
<1>3. x # NoAmount /\ y # NoAmount /\ total = Add(x, y)
  BY <1>2
<1>4. x \in 0..MaxInt64 /\ y \in 0..MaxInt64
  BY <1>1, <1>3, ChargeIsNearest
<1> HIDE DEF x, y
<1>5. total = x + y /\ x + y <= MaxInt64
  BY <1>3, <1>4, PricingAssumption DEF Add
<1> QED
  BY <1>4, <1>5, PricingAssumption DEF x, y

\* A hard budget that EvaluateHardBudget accepts for an input and a largest
\* output bounds the bill of every usage within the two, and such a bill exists:
\* neither rounding nor 64 bits can break the promise.
THEOREM HardBudgetBoundsTheBill ==
    ASSUME NEW price \in Prices, NEW input \in Nat, NEW maxOutput \in Nat,
           NEW maxCharge \in Int, NEW i \in 0..input, NEW o \in 0..maxOutput,
           EvaluateHardBudget(price, input, maxOutput, maxCharge)
    PROVE  /\ Calculate(price, i, o).total \in 0..MaxInt64
           /\ Calculate(price, i, o).total <= maxCharge
<1> DEFINE x == MultiplyTokens(i, price.input)
           y == MultiplyTokens(o, price.output)
           X == MultiplyTokens(input, price.input)
           Y == MultiplyTokens(maxOutput, price.output)
           maximum == Calculate(price, input, maxOutput).total
<1>1. maximum # NoAmount /\ maximum <= maxCharge
  BY DEF EvaluateHardBudget
<1>2. maximum = X + Y /\ X \in 0..MaxInt64 /\ Y \in 0..MaxInt64 /\ maximum \in 0..MaxInt64
  BY <1>1, TotalNeverWraps
<1>3. X # NoAmount /\ Y # NoAmount
  BY <1>2 DEF NoAmount
<1>4. price.input \in Nat /\ price.output \in Nat /\ i \in Nat /\ o \in Nat
      /\ i <= input /\ o <= maxOutput
  BY DEF Prices
<1>5. x \in 0..MaxInt64 /\ x <= X
  BY <1>3, <1>4, ChargeGrows
<1>6. y \in 0..MaxInt64 /\ y <= Y
  BY <1>3, <1>4, ChargeGrows
<1>7. Calculate(price, i, o).total = IF NoAmount \in {x, y} THEN NoAmount ELSE Add(x, y)
  BY DEF Calculate
<1> HIDE DEF x, y, X, Y, maximum
<1>8. Add(x, y) = x + y
  BY <1>2, <1>5, <1>6, PricingAssumption DEF Add
<1>9. Calculate(price, i, o).total = x + y
  BY <1>5, <1>6, <1>7, <1>8 DEF NoAmount
<1> QED
  BY <1>1, <1>2, <1>5, <1>6, <1>9, PricingAssumption

-----------------------------------------------------------------------------
(* What the parties hand to one another.                                   *)

AnyUsage == [input : Int \cup {NotReported}, output : Int \cup {NotReported}]

\* A missing array has no calls.
AnyArray ==
    {a \in [present : BOOLEAN, length : Nat, text : Text, calls : Seq(Call)] :
        ~a.present => a.calls = <<>>}

Deltas == [type : {"delta"}, text : Text]

\* The text of a final event that comes with the response is the response's.
Finals ==
    {f \in [type : {"completed"}, response : BOOLEAN, array : AnyArray, text : Text,
            usage : AnyUsage] :
        f.response => f.text = f.array.text}

LEMMA PlusIsText ==
    ASSUME NEW s \in Text, NEW t \in Text
    PROVE  Plus(s, t) \in Text
  BY DEF Plus, Text

LEMMA EmptyIsText == Empty \in Text
  BY DEF Empty, Text

LEMMA ArraysTyped ==
    /\ Nothing \in AnyArray /\ NoArray \in AnyArray
    /\ Item \subseteq AnyArray /\ Arrays \subseteq AnyArray
  <1>1. \A n \in Nat, t \in Text, calls \in Seq(Call) : Array(n, t, calls) \in AnyArray
    BY DEF Array, AnyArray
  <1>2. /\ <<>> \in Seq(Call) /\ \A c \in Calls : <<c>> \in Seq(Call)
        /\ \A c, d \in Calls : <<c, d>> \in Seq(Call)
    BY SettlementAssumption
  <1>3. \A t \in Chunks : t \in Text
    BY SettlementAssumption
  <1>4. Item \subseteq AnyArray
    BY <1>1, <1>2, <1>3, EmptyIsText DEF Item
  <1>5. Nothing \in AnyArray
    BY <1>1, <1>2, EmptyIsText DEF Nothing
  <1>6. NoArray \in AnyArray
    <2> DEFINE R == [present : BOOLEAN, length : Nat, text : Text, calls : Seq(Call)]
    <2>1. \A r \in R : /\ [r EXCEPT !.present = FALSE] \in R
                       /\ [r EXCEPT !.present = FALSE].calls = r.calls
      OBVIOUS
    <2>2. Nothing \in R /\ Nothing.calls = <<>>
      BY <1>5 DEF AnyArray, Nothing, Array
    <2>3. NoArray \in R /\ NoArray.calls = <<>>
      BY <2>1, <2>2 DEF NoArray
    <2> QED BY <2>3 DEF AnyArray
  <1>7. \A c, d \in Calls : Array(2, Empty, <<c, d>>) \in AnyArray
    BY <1>1, <1>2, EmptyIsText
  <1>8. ASSUME NEW a \in Arrays PROVE a \in AnyArray
    <2>1. \/ a = NoArray \/ a = Nothing \/ a \in Item
          \/ \E c, d \in Calls : a = Array(2, Empty, <<c, d>>)
      BY DEF Arrays
    <2> QED BY <1>4, <1>5, <1>6, <1>7, <2>1
  <1> QED BY <1>4, <1>5, <1>6, <1>8

LEMMA JoinTyped ==
    ASSUME NEW a \in AnyArray, NEW b \in AnyArray
    PROVE  Join(a, b) \in AnyArray
  <1>1. /\ a.text \in Text /\ b.text \in Text /\ a.calls \in Seq(Call)
        /\ b.calls \in Seq(Call) /\ a.length + b.length \in Nat
    BY DEF AnyArray
  <1>2. Plus(a.text, b.text) \in Text /\ a.calls \o b.calls \in Seq(Call)
    BY <1>1, PlusIsText
  <1> QED BY <1>1, <1>2 DEF Join, Array, AnyArray

\* The items of an answer, joined.
LEMMA JoinedTyped ==
    ASSUME NEW n \in Nat, NEW items \in [1..n -> AnyArray]
    PROVE  FoldLeft(Join, Nothing, items) \in AnyArray
  <1> DEFINE D == DOMAIN items
             step == [u \in AnyArray \X D |-> Join(u[1], items[u[2]])]
             IsFoldOf(g) == g = [s \in SUBSET D |->
                 IF s = {} THEN Nothing
                 ELSE LET x == Max(s) IN Join(g[s \ {x}], items[x])]
  <1>1. D \in SUBSET Nat /\ IsFiniteSet(D)
    BY FS_Interval
  <1>2. step \in [AnyArray \X D -> AnyArray]
    BY JoinTyped
  <1>3. PICK g \in [SUBSET D -> AnyArray] : IsFold(g, step, Nothing, D)
    BY <1>1, <1>2, ArraysTyped, FoldExists
  <1>4. \A s \in SUBSET D : s # {} => Max(s) \in s
    BY <1>1, FS_Subset, GreatestNatural
  <1>5. IsFoldOf(g)
    <2>1. ASSUME NEW s \in SUBSET D, s # {}
          PROVE  LET x == Max(s) IN step[<<g[s \ {x}], x>>] = Join(g[s \ {x}], items[x])
      <3>1. Max(s) \in D /\ g[s \ {Max(s)}] \in AnyArray
        BY <1>4, <2>1
      <3> HIDE DEF D
      <3> QED BY <3>1
    <2> HIDE DEF step
    <2> QED BY <1>3, <2>1 DEF IsFold
  <1> DEFINE iter == CHOOSE h : IsFoldOf(h)
  <1>6. IsFoldOf(iter)
    BY <1>5
  <1>7. FoldLeft(Join, Nothing, items) = iter[D]
    BY DEF FoldLeft, MapThenFoldSet
  <1> DEFINE T == {s \in SUBSET D : iter[s] \in AnyArray}
  <1>8. ASSUME NEW s \in SUBSET D, \A x \in s : s \ {x} \in T
        PROVE  s \in T
    <2>1. CASE s = {}
      BY <1>6, <2>1, ArraysTyped
    <2>2. CASE s # {}
      <3>1. Max(s) \in s /\ items[Max(s)] \in AnyArray
        BY <1>4, <2>2
      <3>2. iter[s] = Join(iter[s \ {Max(s)}], items[Max(s)])
        BY <1>6, <2>2
      <3>3. iter[s \ {Max(s)}] \in AnyArray
        BY <1>8, <3>1
      <3> QED BY <3>1, <3>2, <3>3, JoinTyped
    <2> QED BY <2>1, <2>2
  <1>9. \A s \in SUBSET D : (\A x \in s : s \ {x} \in T) => s \in T
    BY <1>8
  <1> HIDE DEF T, D
  <1>10. \A s \in SUBSET D : s \in T
    BY <1>1, <1>9, SubsetInduction
  <1>11. iter[D] \in AnyArray
    BY <1>10 DEF T
  <1> QED BY <1>7, <1>11

-----------------------------------------------------------------------------
(* The text of a sequence of events.                                       *)

IsTextFold(g, events) ==
    g = [s \in SUBSET DOMAIN events |->
            IF s = {} THEN Empty
            ELSE LET x == Max(s)
                 IN  IF events[x].type = "delta" THEN Plus(g[s \ {x}], events[x].text)
                     ELSE g[s \ {x}]]

LEMMA TextOfIsFold ==
    ASSUME NEW n \in Nat, NEW events, DOMAIN events = 1..n,
           \A k \in 1..n : events[k].type = "delta" => events[k].text \in Text
    PROVE  \E g \in [SUBSET (1..n) -> Text] : IsTextFold(g, events) /\ TextOf(events) = g[1..n]
  <1> DEFINE D == DOMAIN events
             Then(t, e) == IF e.type = "delta" THEN Plus(t, e.text) ELSE t
             step == [u \in Text \X D |-> Then(u[1], events[u[2]])]
  <1>1. D \in SUBSET Nat /\ IsFiniteSet(D)
    <2>1. D = 1..n /\ 1 \in Int /\ n \in Int
      OBVIOUS
    <2> QED BY <2>1, FS_Interval
  <1>2. \A t \in Text, k \in D : Then(t, events[k]) \in Text
    BY PlusIsText
  <1>3. step \in [Text \X D -> Text]
    BY <1>2
  <1>4. PICK g \in [SUBSET D -> Text] : IsFold(g, step, Empty, D)
    BY <1>1, <1>3, EmptyIsText, FoldExists
  <1>5. \A s \in SUBSET D : s # {} => Max(s) \in s
    BY <1>1, FS_Subset, GreatestNatural
  <1>6. IsTextFold(g, events)
    <2>1. ASSUME NEW s \in SUBSET D, s # {}
          PROVE  LET x == Max(s) IN step[<<g[s \ {x}], x>>] = Then(g[s \ {x}], events[x])
      <3>1. Max(s) \in D /\ g[s \ {Max(s)}] \in Text
        BY <1>5, <2>1
      <3> HIDE DEF D, Then
      <3> QED BY <3>1
    <2> HIDE DEF step
    <2> QED BY <1>4, <2>1 DEF IsFold, IsTextFold
  <1> DEFINE iter == CHOOSE h : IsTextFold(h, events)
  <1>7. IsTextFold(iter, events)
    BY <1>6
  <1>8. TextOf(events) = iter[D]
    BY DEF TextOf, FoldLeft, MapThenFoldSet, IsTextFold
  <1> DEFINE T == {s \in SUBSET D : iter[s] \in Text}
  <1>9. ASSUME NEW s \in SUBSET D, \A x \in s : s \ {x} \in T
        PROVE  s \in T
    <2>1. CASE s = {}
      BY <1>7, <2>1, EmptyIsText DEF IsTextFold
    <2>2. CASE s # {}
      <3> DEFINE x == Max(s)
      <3>1. x \in s /\ x \in D
        BY <1>5, <2>2
      <3>2. iter[s] = Then(iter[s \ {x}], events[x])
        BY <1>7, <2>2 DEF IsTextFold
      <3>3. iter[s \ {x}] \in Text
        BY <1>9, <3>1
      <3> HIDE DEF x, Then, iter
      <3>4. iter[s] \in Text
        BY <1>2, <3>1, <3>2, <3>3
      <3> QED BY <3>4
    <2> QED BY <2>1, <2>2
  <1>10. \A s \in SUBSET D : (\A x \in s : s \ {x} \in T) => s \in T
    BY <1>9
  <1>11. \A s \in SUBSET D : s \in T
    <2> HIDE DEF T, D
    <2> QED BY <1>1, <1>10, SubsetInduction
  <1>12. iter = [s \in SUBSET D |-> iter[s]]
    BY <1>7 DEF IsTextFold
  <1>13. iter \in [SUBSET D -> Text]
    <2>1. \A s \in SUBSET D : iter[s] \in Text
      BY <1>11
    <2> HIDE DEF iter
    <2> QED BY <1>12, <2>1
  <1> HIDE DEF iter
  <1> QED BY <1>7, <1>8, <1>13

LEMMA TextOfNothing == TextOf(<<>>) = Empty
  <1>1. DOMAIN <<>> = 1..0 /\ 1..0 = {}
    OBVIOUS
  <1>2. PICK g \in [SUBSET (1..0) -> Text] : IsTextFold(g, <<>>) /\ TextOf(<<>>) = g[1..0]
    BY <1>1, TextOfIsFold
  <1> QED BY <1>1, <1>2 DEF IsTextFold

LEMMA TextOfOneMore ==
    ASSUME NEW E, NEW events \in Seq(E), NEW e \in E,
           \A x \in E : x.type = "delta" => x.text \in Text
    PROVE  /\ TextOf(events) \in Text
           /\ TextOf(Append(events, e)) =
                  IF e.type = "delta" THEN Plus(TextOf(events), e.text) ELSE TextOf(events)
  <1> DEFINE n == Len(events)
             more == Append(events, e)
  <1>1. /\ n \in Nat /\ DOMAIN events = 1..n /\ \A k \in 1..n : events[k] \in E
        /\ DOMAIN more = 1..(n + 1) /\ more[n + 1] = e /\ \A k \in 1..n : more[k] = events[k]
        /\ \A k \in 1..(n + 1) : more[k] \in E
    OBVIOUS
  <1> HIDE DEF n, more
  <1>2. PICK g \in [SUBSET (1..n) -> Text] : IsTextFold(g, events) /\ TextOf(events) = g[1..n]
    BY <1>1, TextOfIsFold
  <1>3. PICK h \in [SUBSET (1..(n + 1)) -> Text] :
            IsTextFold(h, more) /\ TextOf(more) = h[1..(n + 1)]
    <2>1. /\ n + 1 \in Nat
          /\ \A k \in 1..(n + 1) : more[k].type = "delta" => more[k].text \in Text
      BY <1>1
    <2> QED BY <1>1, <2>1, TextOfIsFold
  <1>4. /\ 1..n \in SUBSET Nat /\ IsFiniteSet(1..n)
        /\ 1..(n + 1) \in SUBSET Nat /\ IsFiniteSet(1..(n + 1))
    BY <1>1, FS_Interval
  <1> DEFINE T == {s \in SUBSET (1..n) : h[s] = g[s]}
  <1>5. ASSUME NEW s \in SUBSET (1..n), \A x \in s : s \ {x} \in T
        PROVE  s \in T
    <2>1. s \in SUBSET (1..(n + 1))
      BY <1>1
    <2>2. CASE s = {}
      BY <1>1, <1>2, <1>3, <2>1, <2>2 DEF IsTextFold
    <2>3. CASE s # {}
      <3> DEFINE x == Max(s)
      <3>1. x \in s
        BY <1>4, <2>3, FS_Subset, GreatestNatural
      <3>2. g[s] = IF events[x].type = "delta" THEN Plus(g[s \ {x}], events[x].text)
                   ELSE g[s \ {x}]
        BY <1>1, <1>2, <2>3 DEF IsTextFold
      <3>3. h[s] = IF more[x].type = "delta" THEN Plus(h[s \ {x}], more[x].text)
                   ELSE h[s \ {x}]
        BY <1>1, <1>3, <2>1, <2>3 DEF IsTextFold
      <3>4. more[x] = events[x] /\ h[s \ {x}] = g[s \ {x}]
        BY <1>1, <1>5, <3>1
      <3> QED BY <3>2, <3>3, <3>4
    <2> QED BY <2>2, <2>3
  <1>6. \A s \in SUBSET (1..n) : (\A x \in s : s \ {x} \in T) => s \in T
    BY <1>5
  <1>7. \A s \in SUBSET (1..n) : s \in T
    <2> DEFINE N == 1..n
    <2>1. IsFiniteSet(N)
      BY <1>4
    <2>2. \A s \in SUBSET N : (\A x \in s : s \ {x} \in T) => s \in T
      BY <1>6
    <2> HIDE DEF T, N
    <2>3. \A s \in SUBSET N : s \in T
      BY <2>1, <2>2, SubsetInduction
    <2> QED BY <2>3 DEF N
  <1>8. h[1..n] = g[1..n]
    BY <1>7
  <1> DEFINE all == 1..(n + 1)
             m == Max(all)
  <1>9. m = n + 1
    <2>1. n + 1 \in all
      BY <1>1
    <2>2. m \in all /\ m >= n + 1
      BY <1>4, <2>1, GreatestNatural
    <2> HIDE DEF m
    <2> QED BY <1>1, <2>2
  <1>10. all \ {n + 1} = 1..n /\ all # {} /\ all \in SUBSET all
    <2>1. \A k : k \in 1..(n + 1) /\ k # n + 1 <=> k \in 1..n
      BY <1>1
    <2>2. n + 1 \in 1..(n + 1)
      BY <1>1
    <2> QED BY <2>1, <2>2
  <1>11. h[all] = IF more[m].type = "delta" THEN Plus(h[all \ {m}], more[m].text)
                  ELSE h[all \ {m}]
    BY <1>1, <1>3, <1>10 DEF IsTextFold
  <1> HIDE DEF m, all
  <1>12. h[all] = IF e.type = "delta" THEN Plus(g[1..n], e.text) ELSE g[1..n]
    BY <1>1, <1>8, <1>9, <1>10, <1>11
  <1>13. g[1..n] \in Text
    BY <1>2
  <1> QED BY <1>2, <1>3, <1>12, <1>13 DEF all, more

-----------------------------------------------------------------------------
(* The bill.                                                               *)

Bill == [inputTokens : Nat, outputTokens : Nat, total : 0..MaxInt64, exceeded : BOOLEAN]

LEMMA EstimateIsNat == \A t \in Text : EstimateTextV1(t) \in Nat
  <1> SUFFICES ASSUME NEW t \in Text PROVE EstimateTextV1(t) \in Nat
    OBVIOUS
  <1>1. t.cjk \in Nat /\ t.other + 3 \in Nat
    BY DEF Text
  <1>2. (t.other + 3) \div 4 \in Nat
    BY <1>1, Division
  <1> QED BY <1>1, <1>2 DEF EstimateTextV1

LEMMA ArrayEstimateIsText == \A a \in AnyArray : EstimatedOutputText(a) \in Text
  <1> SUFFICES ASSUME NEW a \in AnyArray PROVE EstimatedOutputText(a) \in Text
    OBVIOUS
  <1>1. a.length \in Nat
    BY DEF AnyArray
  <1>2. 2 + 4 * a.length \in Nat
    BY <1>1
  <1> QED BY <1>2, EmptyIsText DEF EstimatedOutputText, Text

LEMMA ResolveIsNat ==
    ASSUME NEW count \in Int \cup {NotReported}, NEW text \in Text,
           Resolve(count, text) # NoAmount
    PROVE  /\ Resolve(count, text) \in Nat
           /\ Resolve(count, text)
                  = IF count = NotReported THEN EstimateTextV1(text) ELSE count
  BY EstimateIsNat DEF Resolve, NoAmount

\* What a bill says of a final event.
BillMatches(final, b) ==
    /\ b \in Bill
    /\ b.inputTokens = IF final.usage.input = NotReported THEN EstimateTextV1(InputText)
                       ELSE final.usage.input
    /\ b.outputTokens = IF final.usage.output = NotReported
                        THEN EstimateTextV1(UsageOutput(final)) ELSE final.usage.output
    /\ b.total = Calculate(Price, b.inputTokens, b.outputTokens).total
    /\ b.exceeded <=> request.budget # NoBudget /\ b.total > request.budget

LEMMA BillForMatches ==
    ASSUME NEW final \in Finals, output \in Text, BillFor(final) # NoBill
    PROVE  BillMatches(final, BillFor(final))
  <1> DEFINE i == Resolve(final.usage.input, InputText)
             o == Resolve(final.usage.output, UsageOutput(final))
             charge == IF NoAmount \in {i, o} THEN NoBill ELSE Calculate(Price, i, o)
             b == BillFor(final)
  <1>1. OutputText(final) \in Text /\ UsageOutput(final) \in Text
    <2>1. final.text \in Text /\ final.array \in AnyArray
      BY DEF Finals
    <2>2. OutputText(final) \in Text
      BY <2>1 DEF OutputText
    <2> QED BY <2>1, <2>2, ArrayEstimateIsText DEF UsageOutput
  <1>2. /\ final.usage.input \in Int \cup {NotReported}
        /\ final.usage.output \in Int \cup {NotReported}
    BY DEF Finals, AnyUsage
  <1>3. b = IF charge.total = NoAmount THEN NoBill
            ELSE [inputTokens |-> i, outputTokens |-> o, total |-> charge.total,
                  exceeded |-> request.budget # NoBudget /\ charge.total > request.budget]
    BY DEF BillFor
  <1> HIDE DEF i, o, b
  <1>4. charge.total # NoAmount
    BY <1>3 DEF b
  <1>5. i # NoAmount /\ o # NoAmount /\ charge = Calculate(Price, i, o)
    BY <1>4 DEF NoBill
  <1>6. i \in Nat /\ i = IF final.usage.input = NotReported THEN EstimateTextV1(InputText)
                         ELSE final.usage.input
    BY <1>2, <1>5, ResolveIsNat, SettlementAssumption DEF i
  <1>7. o \in Nat /\ o = IF final.usage.output = NotReported
                         THEN EstimateTextV1(UsageOutput(final)) ELSE final.usage.output
    BY <1>1, <1>2, <1>5, ResolveIsNat DEF o
  <1>8. charge.total \in 0..MaxInt64
    BY <1>4, <1>5, <1>6, <1>7, TotalNeverWraps, SettlementAssumption DEF Prices
  <1> HIDE DEF charge
  <1>9. b = [inputTokens |-> i, outputTokens |-> o, total |-> charge.total,
             exceeded |-> request.budget # NoBudget /\ charge.total > request.budget]
    BY <1>3, <1>4
  <1>10. b \in Bill /\ b.inputTokens = i /\ b.outputTokens = o /\ b.total = charge.total
         /\ (b.exceeded <=> request.budget # NoBudget /\ b.total > request.budget)
    BY <1>6, <1>7, <1>8, <1>9 DEF Bill
  <1>11. BillMatches(final, b)
    BY <1>5, <1>6, <1>7, <1>10 DEF BillMatches
  <1> QED BY <1>11 DEF b

\* The total of a bill is right to a nano-unit.
LEMMA BillIsNearest ==
    ASSUME NEW b \in Bill, b.total = Calculate(Price, b.inputTokens, b.outputTokens).total
    PROVE  LET exact == b.inputTokens * Price.input + b.outputTokens * Price.output
               error == b.total * PerMillion - exact
           IN  -PerMillion < error /\ error <= PerMillion
  <1>1. PICK i \in Nat, o \in Nat, t \in 0..MaxInt64 :
            i = b.inputTokens /\ o = b.outputTokens /\ t = b.total
    BY DEF Bill
  <1>2. Price \in Prices
    BY SettlementAssumption DEF Prices
  <1>3. PICK r \in Nat, s \in Nat : r = Price.input /\ s = Price.output
    BY <1>2 DEF Prices
  <1> DEFINE cx == MultiplyTokens(i, r)
             cy == MultiplyTokens(o, s)
  <1>4. t # NoAmount
    BY <1>1 DEF NoAmount
  <1>5. cx \in 0..MaxInt64 /\ cy \in 0..MaxInt64 /\ t = cx + cy
    BY <1>1, <1>2, <1>3, <1>4, TotalNeverWraps
  <1>6. PICK x \in Nat, y \in Nat : x = cx /\ y = cy
    BY <1>5
  <1>7. x # NoAmount /\ y # NoAmount
    BY DEF NoAmount
  <1>8. /\ 2 * (x * PerMillion - i * r) <= PerMillion
        /\ 2 * (i * r - x * PerMillion) < PerMillion
        /\ 2 * (y * PerMillion - o * s) <= PerMillion
        /\ 2 * (o * s - y * PerMillion) < PerMillion
    BY <1>6, <1>7, ChargeIsNearest
  <1>9. PICK m \in Nat : m = PerMillion
    BY PricingAssumption
  <1>10. PICK p \in Nat, q \in Nat, u \in Nat, v \in Nat :
             p = i * r /\ q = o * s /\ u = x * m /\ v = y * m
    BY ProductGrows
  <1>11. t * m = u + v
    BY <1>5, <1>6, <1>10
  <1>12. -m < (u + v) - (p + q) /\ (u + v) - (p + q) <= m
    BY <1>8, <1>9, <1>10
  <1> QED BY <1>1, <1>3, <1>9, <1>10, <1>11, <1>12

-----------------------------------------------------------------------------
(* The invariant.                                                          *)

Bills == Bill \cup {NoBill}

Events ==
    Deltas \cup {Failed} \cup [type : {"billing_completed"}, bill : Bills]
           \cup [type : {"run_completed"}, array : AnyArray, bill : Bills]

SettlementTypes ==
    /\ request \in Requests
    /\ adapter \in {"reading", "offering", "closed"}
    /\ offer \in {NoOffer, Failed} \cup Deltas \cup Finals
    /\ gathered.text \in Text /\ gathered.usage \in AnyUsage
    /\ gathered = [text |-> gathered.text, usage |-> gathered.usage,
                   chunks |-> gathered.chunks, items |-> gathered.items]
    /\ gathered.items \in [1..MaxItems -> Item \cup {Nothing, NoArray}]
    /\ gate \in {"new", "consuming", "telling", "closed"}
    /\ output \in Text /\ seen \in Seq(Events)

Settled ==
    /\ bill # NoBill /\ bill = BillFor(offer) /\ offer \in Finals /\ Honoured(offer)
    /\ adapter = "closed" /\ gate \in {"telling", "closed"} /\ Streamed = output

Unsettled == bill = NoBill

\* What the gateway has to send, and how the caller's text stands to its own.
Outboxes ==
    /\ gate # "telling" => outbox = <<>>
    /\ gate = "telling" =>
          \/ Unsettled /\ outbox = <<Failed>>
          \/ Unsettled /\ \E d \in Deltas :
                              outbox = <<d>> /\ Plus(Streamed, d.text) = output
          \/ Settled /\ outbox = <<BillingCompleted(offer), RunCompleted(offer)>>
          \/ /\ Settled /\ outbox = <<RunCompleted(offer)>>
             /\ Len(seen) > 0 /\ seen[Len(seen)] = BillingCompleted(offer)
    /\ gate = "consuming" => Streamed = output

\* An outcome is the last event, and a completed one follows its bill.
Outcome(k) ==
    /\ k = Len(seen) /\ gate = "closed"
    /\ \/ seen[k] = Failed
       \/ /\ Settled /\ seen[k] = RunCompleted(offer)
          /\ k > 1 /\ seen[k - 1] = BillingCompleted(offer)

SeenInOrder ==
    \A k \in DOMAIN seen :
        seen[k].type \in {"failed", "run_completed"} => Outcome(k)

Gates ==
    /\ gate = "new" => adapter = "closed" /\ seen = <<>> /\ output = Empty
    /\ gate \in {"consuming", "telling"} \/ ~Unsettled => Affordable /\ Choice # "invalid"
    /\ ~Unsettled => Settled

SettlementInv == SettlementTypes /\ Outboxes /\ SeenInOrder /\ Gates

LEMMA EventsTyped == \A e \in Events : e.type = "delta" => e.text \in Text
  BY DEF Events, Deltas, Failed

LEMMA InitSettlement == Init => SettlementInv
  <1> SUFFICES ASSUME Init PROVE SettlementInv
    OBVIOUS
  <1>1. /\ Ungathered.text \in Text /\ Ungathered.usage \in AnyUsage
        /\ Ungathered = [text |-> Ungathered.text, usage |-> Ungathered.usage,
                         chunks |-> Ungathered.chunks, items |-> Ungathered.items]
        /\ Ungathered.items \in [1..MaxItems -> Item \cup {Nothing, NoArray}]
    BY EmptyIsText DEF Ungathered, AnyUsage, Unreported
  <1>2. SettlementTypes
    BY <1>1, EmptyIsText DEF Init, SettlementTypes
  <1>3. seen = <<>> /\ outbox = <<>> /\ gate = "new" /\ bill = NoBill /\ output = Empty
        /\ adapter = "closed"
    BY DEF Init
  <1>4. Outboxes /\ SeenInOrder /\ Gates
    BY <1>3 DEF Outboxes, SeenInOrder, Gates, Unsettled
  <1> QED BY <1>2, <1>4 DEF SettlementInv

\* What a settled bill rests on does not change any more.
LEMMA SettledStays ==
    ASSUME Settled, UNCHANGED <<request, offer, adapter, output, bill>>,
           gate' \in {"telling", "closed"}, Streamed' = Streamed
    PROVE  /\ Settled'
           /\ BillingCompleted(offer)' = BillingCompleted(offer)
           /\ RunCompleted(offer)' = RunCompleted(offer)
  <1>1. BillFor(offer)' = BillFor(offer)
    BY DEF BillFor, UsageOutput, OutputText
  <1>2. Honoured(offer)' = Honoured(offer)
    BY DEF Honoured, Choice
  <1> QED BY <1>1, <1>2
          DEF Settled, BillingCompleted, RunCompleted, PublicResponse, OutputText

LEMMA RequestStays ==
    ASSUME UNCHANGED request
    PROVE  Affordable' = Affordable /\ Choice' = Choice
  BY DEF Affordable, Choice

LEMMA SeenStays ==
    ASSUME UNCHANGED seen
    PROVE  Streamed' = Streamed
  BY DEF Streamed

\* Steps of the adapter, before it has handed over its last event.
LEMMA AdapterStep ==
    ASSUME SettlementInv, adapter # "closed",
           UNCHANGED <<request, gate, output, outbox, bill, seen>>,
           adapter' \in {"reading", "offering", "closed"},
           offer' \in {NoOffer, Failed} \cup Deltas \cup Finals,
           gathered'.text \in Text, gathered'.usage \in AnyUsage,
           gathered' = [text |-> gathered'.text, usage |-> gathered'.usage,
                        chunks |-> gathered'.chunks, items |-> gathered'.items],
           gathered'.items \in [1..MaxItems -> Item \cup {Nothing, NoArray}]
    PROVE  SettlementInv'
  <1>1. ~Settled /\ Unsettled /\ Unsettled' /\ gate # "new"
    BY DEF SettlementInv, Settled, Gates, Unsettled
  <1>2. SettlementTypes'
    BY DEF SettlementInv, SettlementTypes
  <1>3. Outboxes'
    BY <1>1, SeenStays DEF SettlementInv, Outboxes
  <1>4. SeenInOrder'
    BY <1>1 DEF SettlementInv, SeenInOrder, Outcome
  <1>5. Gates'
    BY <1>1, RequestStays DEF SettlementInv, Gates, Unsettled
  <1> QED BY <1>2, <1>3, <1>4, <1>5 DEF SettlementInv

\* Steps that change none of what the invariant speaks of but the gate, which
\* they close.
LEMMA ClosingStep ==
    ASSUME SettlementInv, UNCHANGED <<request, adapter, offer, gathered, output, bill, seen>>,
           \/ UNCHANGED <<gate, outbox>>
           \/ gate # "new" /\ gate' = "closed" /\ outbox' = <<>>
    PROVE  SettlementInv'
  <1>1. SettlementTypes'
    BY DEF SettlementInv, SettlementTypes
  <1>2. Settled => /\ Settled'
                   /\ BillingCompleted(offer)' = BillingCompleted(offer)
                   /\ RunCompleted(offer)' = RunCompleted(offer)
    <2>1. Settled => gate' \in {"telling", "closed"}
      BY DEF Settled
    <2> QED BY <2>1, SettledStays, SeenStays
  <1>3. Unsettled' = Unsettled /\ Streamed' = Streamed
    BY SeenStays DEF Unsettled
  <1>4. Outboxes'
    BY <1>2, <1>3 DEF SettlementInv, Outboxes
  <1>5. SeenInOrder'
    <2> SUFFICES ASSUME NEW k \in DOMAIN seen, seen[k].type \in {"failed", "run_completed"}
                 PROVE  Outcome(k)'
      BY DEF SeenInOrder
    <2>1. Outcome(k)
      BY DEF SettlementInv, SeenInOrder
    <2> QED BY <1>2, <2>1 DEF Outcome
  <1>6. Gates'
    BY <1>2, <1>3, RequestStays DEF SettlementInv, Gates
  <1> QED BY <1>1, <1>4, <1>5, <1>6 DEF SettlementInv

-----------------------------------------------------------------------------
(* The adapter's steps.                                                    *)

LEMMA ExtractedTyped == ASSUME NEW usage \in AnyUsage PROVE Extracted(usage) \in AnyUsage
  <1>1. /\ usage.input \in Int \cup {NotReported} /\ usage.output \in Int \cup {NotReported}
    BY DEF AnyUsage
  <1>2. /\ DOMAIN Extracted(usage) = {"input", "output"}
        /\ Extracted(usage) = [input |-> Extracted(usage).input,
                               output |-> Extracted(usage).output]
        /\ Extracted(usage).input \in Int \cup {NotReported}
        /\ Extracted(usage).output \in Int \cup {NotReported}
    BY <1>1 DEF Extracted
  <1> QED BY <1>2 DEF AnyUsage

\* What the App Server's reader makes of a usage message.
Decoded(usage) ==
    [d \in {"input", "output"} |-> IF usage[d] = NotReported THEN 0 ELSE usage[d]]

LEMMA DecodedTyped == ASSUME NEW usage \in AnyUsage PROVE Decoded(usage) \in AnyUsage
  <1>1. /\ usage.input \in Int \cup {NotReported} /\ usage.output \in Int \cup {NotReported}
    BY DEF AnyUsage
  <1>2. /\ DOMAIN Decoded(usage) = {"input", "output"}
        /\ Decoded(usage) = [input |-> Decoded(usage).input,
                             output |-> Decoded(usage).output]
        /\ Decoded(usage).input \in Int \cup {NotReported}
        /\ Decoded(usage).output \in Int \cup {NotReported}
    BY <1>1 DEF Decoded
  <1> QED BY <1>2 DEF AnyUsage

LEMMA CompletedTyped ==
    ASSUME NEW response \in BOOLEAN, NEW array \in AnyArray, NEW text \in Text,
           NEW usage \in AnyUsage, response => text = array.text
    PROVE  Completed(response, array, text, usage) \in Finals
  BY DEF Completed, Finals

LEMMA UngatheredTyped ==
    /\ Ungathered.text \in Text /\ Ungathered.usage \in AnyUsage
    /\ Ungathered = [text |-> Ungathered.text, usage |-> Ungathered.usage,
                     chunks |-> Ungathered.chunks, items |-> Ungathered.items]
    /\ Ungathered.items \in [1..MaxItems -> Item \cup {Nothing, NoArray}]
  BY EmptyIsText DEF Ungathered, AnyUsage, Unreported

LEMMA ReadDeltaHolds ==
    ASSUME SettlementInv, NEW t \in Chunks, ReadDelta(t)
    PROVE  SettlementInv'
  <1>1. t \in Text /\ Delta(t) \in Deltas
    BY SettlementAssumption DEF Delta, Deltas
  <1>2. Plus(gathered.text, t) \in Text
    BY <1>1, PlusIsText DEF SettlementInv, SettlementTypes
  <1>3. gathered' = [text |-> IF request.reader = "agent" THEN Plus(gathered.text, t)
                              ELSE gathered.text,
                     usage |-> gathered.usage, chunks |-> gathered.chunks + 1,
                     items |-> gathered.items]
    BY DEF ReadDelta, SettlementInv, SettlementTypes
  <1>4. /\ gathered'.text \in Text /\ gathered'.usage \in AnyUsage
        /\ gathered' = [text |-> gathered'.text, usage |-> gathered'.usage,
                        chunks |-> gathered'.chunks, items |-> gathered'.items]
        /\ gathered'.items \in [1..MaxItems -> Item \cup {Nothing, NoArray}]
    BY <1>2, <1>3 DEF SettlementInv, SettlementTypes
  <1>5. /\ adapter # "closed" /\ adapter' = "offering" /\ offer' = Delta(t)
        /\ UNCHANGED <<request, gate, output, outbox, bill, seen>>
    BY DEF ReadDelta, Reading, gateVars
  <1> QED BY <1>1, <1>4, <1>5, AdapterStep

LEMMA GatherHolds ==
    ASSUME SettlementInv,
           \/ \E k \in 1..MaxItems, item \in Item \cup {Nothing} : ReadItem(k, item)
           \/ \E usage \in Usages : ReadUsage(usage)
    PROVE  SettlementInv'
  <1>1. /\ adapter # "closed"
        /\ UNCHANGED <<request, adapter, offer, gate, output, outbox, bill, seen>>
    BY DEF ReadItem, ReadUsage, Reading, gateVars
  <1>2. /\ gathered'.text \in Text /\ gathered'.usage \in AnyUsage
        /\ gathered' = [text |-> gathered'.text, usage |-> gathered'.usage,
                        chunks |-> gathered'.chunks, items |-> gathered'.items]
        /\ gathered'.items \in [1..MaxItems -> Item \cup {Nothing, NoArray}]
    <2>1. ASSUME NEW k \in 1..MaxItems, NEW item \in Item \cup {Nothing}, ReadItem(k, item)
          PROVE  gathered' = [text |-> gathered.text, usage |-> gathered.usage,
                              chunks |-> gathered.chunks,
                              items |-> [gathered.items EXCEPT ![k] = item]]
      BY <2>1 DEF ReadItem, SettlementInv, SettlementTypes
    <2>2. ASSUME NEW usage \in Usages, ReadUsage(usage)
          PROVE  /\ gathered' = [text |-> gathered.text, usage |-> Decoded(usage),
                                 chunks |-> gathered.chunks, items |-> gathered.items]
                 /\ Decoded(usage) \in AnyUsage
      <3>1. usage \in AnyUsage
        BY SettlementAssumption DEF AnyUsage
      <3>2. gathered' = [gathered EXCEPT !.usage = Decoded(usage)]
        BY <2>2 DEF ReadUsage, Decoded
      <3> QED BY <3>1, <3>2, DecodedTyped DEF SettlementInv, SettlementTypes
    <2>3. /\ gathered.text \in Text /\ gathered.usage \in AnyUsage
          /\ gathered.items \in [1..MaxItems -> Item \cup {Nothing, NoArray}]
      BY DEF SettlementInv, SettlementTypes
    <2>4. CASE \E k \in 1..MaxItems, item \in Item \cup {Nothing} : ReadItem(k, item)
      <3>1. PICK k \in 1..MaxItems, item \in Item \cup {Nothing} : ReadItem(k, item)
        BY <2>4
      <3> DEFINE items == [gathered.items EXCEPT ![k] = item]
      <3>2. items \in [1..MaxItems -> Item \cup {Nothing, NoArray}]
        BY <2>3
      <3>3. gathered' = [text |-> gathered.text, usage |-> gathered.usage,
                         chunks |-> gathered.chunks, items |-> items]
        BY <2>1, <3>1
      <3> HIDE DEF items
      <3> QED BY <2>3, <3>2, <3>3
    <2>5. CASE \E usage \in Usages : ReadUsage(usage)
      BY <2>2, <2>3, <2>5
    <2> QED BY <2>4, <2>5
  <1>3. adapter' \in {"reading", "offering", "closed"}
        /\ offer' \in {NoOffer, Failed} \cup Deltas \cup Finals
    BY <1>1 DEF SettlementInv, SettlementTypes
  <1> QED BY <1>1, <1>2, <1>3, AdapterStep

LEMMA OfferLastHolds ==
    ASSUME SettlementInv, NEW event \in Finals \cup {Failed}, adapter # "closed",
           OfferLast(event), UNCHANGED <<request, gate, output, outbox, bill, seen>>
    PROVE  SettlementInv'
  BY UngatheredTyped, AdapterStep DEF OfferLast

LEMMA ReadLastHolds ==
    ASSUME SettlementInv,
           \/ \E array \in Arrays, usage \in Usages :
                  ReadResponse(array, usage) \/ ReadDirectResponse(array, usage)
           \/ ReadTurnCompleted \/ ReadFailure
    PROVE  SettlementInv'
  <1>1. adapter # "closed" /\ UNCHANGED <<request, gate, output, outbox, bill, seen>>
    BY DEF ReadResponse, ReadDirectResponse, ReadTurnCompleted, ReadFailure, Reading, gateVars
  <1>2. Usages \subseteq AnyUsage
    BY SettlementAssumption DEF AnyUsage
  <1>3. \A a \in AnyArray : a.text \in Text
    BY DEF AnyArray
  <1>4. CASE \E array \in Arrays, usage \in Usages : ReadResponse(array, usage)
    <2>1. PICK array \in Arrays, usage \in Usages : ReadResponse(array, usage)
      BY <1>4
    <2>2. array \in AnyArray /\ Extracted(usage) \in AnyUsage
      BY <1>2, ArraysTyped, ExtractedTyped
    <2>3. Completed(TRUE, array, array.text, Extracted(usage)) \in Finals
      BY <1>3, <2>2, CompletedTyped
    <2> QED BY <1>1, <2>1, <2>3, OfferLastHolds DEF ReadResponse
  <1>5. CASE \E array \in Arrays, usage \in Usages : ReadDirectResponse(array, usage)
    <2>1. PICK array \in Arrays, usage \in Usages : ReadDirectResponse(array, usage)
      BY <1>5
    <2> DEFINE items == FoldLeft(Join, Nothing, gathered.items)
               received == \E k \in 1..MaxItems : gathered.items[k] # NoArray
               compacted == IF array.length = 0 /\ received THEN items ELSE array
    <2>2. gathered.items \in [1..MaxItems -> AnyArray] /\ MaxItems \in Nat
      BY ArraysTyped, SettlementAssumption DEF SettlementInv, SettlementTypes
    <2>3. items \in AnyArray
      BY <2>2, JoinedTyped
    <2>4. OfferLast(Completed(Enabled(request.functions), compacted, compacted.text,
                              Extracted(usage)))
      BY <2>1 DEF ReadDirectResponse
    <2> HIDE DEF items, received
    <2>5. compacted \in AnyArray /\ Extracted(usage) \in AnyUsage
      BY <1>2, <2>3, ArraysTyped, ExtractedTyped
    <2> HIDE DEF compacted
    <2>6. Completed(Enabled(request.functions), compacted, compacted.text,
                    Extracted(usage)) \in Finals
      BY <1>3, <2>5, CompletedTyped DEF Enabled
    <2> QED BY <1>1, <2>4, <2>6, OfferLastHolds
  <1>6. CASE ReadTurnCompleted
    <2>1. gathered.text \in Text /\ gathered.usage \in AnyUsage /\ NoArray \in AnyArray
      BY ArraysTyped DEF SettlementInv, SettlementTypes
    <2>2. Completed(FALSE, NoArray, gathered.text, gathered.usage) \in Finals
      BY <2>1, CompletedTyped
    <2> QED BY <1>1, <1>6, <2>2, OfferLastHolds DEF ReadTurnCompleted
  <1>7. CASE ReadFailure
    BY <1>1, <1>7, OfferLastHolds DEF ReadFailure
  <1> QED BY <1>4, <1>5, <1>6, <1>7

LEMMA GiveUpOfferHolds == ASSUME SettlementInv, GiveUpOffer PROVE SettlementInv'
  <1>1. /\ adapter # "closed" /\ adapter' = "closed"
        /\ UNCHANGED <<request, offer, gathered, gate, output, outbox, bill, seen>>
    BY DEF GiveUpOffer, Reading, gateVars
  <1>2. SettlementTypes
    BY DEF SettlementInv
  <1> QED BY <1>1, <1>2, AdapterStep DEF SettlementTypes

-----------------------------------------------------------------------------
(* The gateway's steps.                                                    *)

LEMMA RefuseHolds == ASSUME SettlementInv, Refuse PROVE SettlementInv'
  <1>1. /\ gate = "new" /\ gate' = "closed" /\ seen' = <<Failed>>
        /\ UNCHANGED <<request, adapter, offer, gathered, output, outbox, bill>>
    BY DEF Refuse, adapterVars
  <1>2. adapter = "closed" /\ outbox = <<>> /\ Unsettled /\ Unsettled'
    <2>1. ~Settled
      BY <1>1 DEF Settled
    <2> QED BY <1>1, <2>1 DEF SettlementInv, Gates, Outboxes, Unsettled
  <1>3. <<Failed>> \in Seq(Events) /\ Len(<<Failed>>) = 1 /\ DOMAIN <<Failed>> = {1}
        /\ <<Failed>>[1] = Failed
    BY DEF Events
  <1>4. SettlementTypes'
    BY <1>1, <1>3 DEF SettlementInv, SettlementTypes
  <1>5. Outboxes' /\ SeenInOrder' /\ Gates'
    BY <1>1, <1>2, <1>3 DEF Outboxes, SeenInOrder, Outcome, Gates
  <1> QED BY <1>4, <1>5 DEF SettlementInv

LEMMA StartHolds == ASSUME SettlementInv, Start PROVE SettlementInv'
  <1>1. /\ gate = "new" /\ gate' = "consuming" /\ adapter' = "reading"
        /\ Affordable /\ Choice # "invalid"
        /\ UNCHANGED <<request, offer, gathered, output, outbox, bill, seen>>
    BY DEF Start
  <1>2. seen = <<>> /\ output = Empty /\ outbox = <<>> /\ Unsettled /\ Unsettled'
    <2>1. ~Settled
      BY <1>1 DEF Settled
    <2> QED BY <1>1, <2>1 DEF SettlementInv, Gates, Outboxes, Unsettled
  <1>3. Streamed' = output'
    BY <1>1, <1>2, TextOfNothing DEF Streamed
  <1>4. SettlementTypes'
    BY <1>1 DEF SettlementInv, SettlementTypes
  <1>5. Outboxes' /\ SeenInOrder' /\ Gates'
    BY <1>1, <1>2, <1>3, RequestStays DEF Outboxes, SeenInOrder, Gates
  <1> QED BY <1>4, <1>5 DEF SettlementInv

\* While the gateway consumes nothing is settled, nothing is left to tell and
\* the caller has read no outcome.
LEMMA Consuming ==
    ASSUME SettlementInv, gate = "consuming"
    PROVE  /\ Unsettled /\ Streamed = output /\ Affordable /\ Choice # "invalid"
           /\ \A k \in DOMAIN seen : seen[k].type \notin {"failed", "run_completed"}
  <1>1. ~Settled
    BY DEF Settled
  <1> QED BY <1>1 DEF SettlementInv, Gates, Outboxes, SeenInOrder, Outcome

\* Having consumed an event, the gateway tells of a delta or a failure, or of
\* nothing; or it settles.
LEMMA ConsumeHolds ==
    ASSUME SettlementInv, gate = "consuming", adapter' \in {"reading", "closed"},
           UNCHANGED <<request, offer, gathered, seen>>, output' \in Text,
           \/ bill' = bill /\ output' = output /\ gate' = "telling" /\ outbox' = <<Failed>>
           \/ bill' = bill /\ output' = output /\ gate' = "closed" /\ outbox' = <<>>
           \/ /\ bill' = bill /\ gate' = "telling"
              /\ \E d \in Deltas : outbox' = <<d>> /\ output' = Plus(output, d.text)
           \/ /\ Settled' /\ gate' = "telling"
              /\ outbox' = <<BillingCompleted(offer)', RunCompleted(offer)'>>
    PROVE  SettlementInv'
  <1>1. /\ Unsettled /\ Streamed = output /\ Affordable /\ Choice # "invalid"
        /\ \A k \in DOMAIN seen : seen[k].type \notin {"failed", "run_completed"}
    BY Consuming
  <1>2. Streamed' = Streamed /\ Affordable' = Affordable /\ Choice' = Choice
    BY SeenStays, RequestStays
  <1>3. SettlementTypes'
    BY DEF SettlementInv, SettlementTypes
  <1>4. SeenInOrder'
    BY <1>1 DEF SeenInOrder
  <1>5. Unsettled' \/ Settled'
    BY <1>1 DEF Unsettled
  <1>6. Gates'
    BY <1>1, <1>2, <1>5 DEF Gates
  <1>7. Outboxes'
    BY <1>1, <1>2 DEF Outboxes, Unsettled
  <1> QED BY <1>3, <1>4, <1>6, <1>7 DEF SettlementInv

LEMMA ReceiveHolds ==
    ASSUME SettlementInv,
           \/ ReceiveDelta \/ ReceiveFailure \/ ReceiveDishonoured \/ ReceiveUnpriceable
           \/ Settle \/ SettleFails
    PROVE  SettlementInv'
  <1>1. /\ gate = "consuming" /\ adapter' \in {"reading", "closed"}
        /\ UNCHANGED <<request, offer, gathered, seen>>
    BY DEF ReceiveDelta, ReceiveFailure, ReceiveDishonoured, ReceiveUnpriceable, Settle,
           SettleFails, Consume
  <1>2. output \in Text /\ offer \in {NoOffer, Failed} \cup Deltas \cup Finals
    BY DEF SettlementInv, SettlementTypes
  <1>3. \A events : /\ events # <<>> /\ Send(events) => outbox' = events /\ gate' = "telling"
                    /\ Send(<<>>) => outbox' = <<>> /\ gate' = "closed"
    BY DEF Send
  <1>4. \A e, f : <<e>> # <<>> /\ <<e, f>> # <<>>
    OBVIOUS
  <1>5. CASE ReceiveDelta
    <2>1. offer.type = "delta" /\ output' = Plus(output, offer.text) /\ Send(<<offer>>)
          /\ bill' = bill
      BY <1>5 DEF ReceiveDelta, Consume
    <2>2. offer \in Deltas
      BY <1>2, <2>1 DEF NoOffer, Failed, Finals
    <2>3. output' \in Text
      BY <1>2, <2>1, <2>2, PlusIsText DEF Deltas
    <2>4. gate' = "telling" /\ outbox' = <<offer>>
      BY <1>3, <1>4, <2>1
    <2> QED BY <1>1, <2>1, <2>2, <2>3, <2>4, ConsumeHolds
  <1>6. CASE ReceiveFailure \/ ReceiveDishonoured \/ SettleFails
    <2>1. Send(<<Failed>>) /\ output' = output /\ bill' = bill
      BY <1>6 DEF ReceiveFailure, ReceiveDishonoured, SettleFails
    <2>2. gate' = "telling" /\ outbox' = <<Failed>>
      BY <1>3, <1>4, <2>1
    <2> QED BY <1>1, <1>2, <2>1, <2>2, ConsumeHolds
  <1>7. CASE ReceiveUnpriceable
    <2>1. Send(<<>>) /\ output' = output /\ bill' = bill
      BY <1>7 DEF ReceiveUnpriceable
    <2>2. gate' = "closed" /\ outbox' = <<>>
      BY <1>3, <2>1
    <2> QED BY <1>1, <1>2, <2>1, <2>2, ConsumeHolds
  <1>8. CASE Settle
    <2>1. /\ offer.type = "completed" /\ Honoured(offer) /\ BillFor(offer) # NoBill
          /\ adapter' = "closed" /\ bill' = BillFor(offer) /\ output' = output
          /\ Send(<<BillingCompleted(offer), RunCompleted(offer)>>)
      BY <1>8 DEF Settle, Consume
    <2>2. offer \in Finals
      BY <1>2, <2>1 DEF NoOffer, Failed, Deltas
    <2>3. gate' = "telling" /\ outbox' = <<BillingCompleted(offer), RunCompleted(offer)>>
      BY <1>3, <1>4, <2>1
    <2>4. BillFor(offer)' = BillFor(offer)
      BY <1>1, <2>1 DEF BillFor, UsageOutput, OutputText
    <2>5. Honoured(offer)'
      BY <1>1, <2>1 DEF Honoured, Choice
    <2>6. /\ BillingCompleted(offer)' = BillingCompleted(offer)
          /\ RunCompleted(offer)' = RunCompleted(offer)
      BY <1>1, <2>1, <2>4 DEF BillingCompleted, RunCompleted, PublicResponse, OutputText
    <2>7. Streamed' = output'
      BY <1>1, <2>1, Consuming, SeenStays
    <2>8. Settled'
      BY <1>1, <2>1, <2>2, <2>3, <2>4, <2>5, <2>7 DEF Settled
    <2> QED BY <1>1, <1>2, <2>1, <2>3, <2>6, <2>8, ConsumeHolds
  <1> QED BY <1>5, <1>6, <1>7, <1>8

-----------------------------------------------------------------------------
(* The handler's steps.                                                    *)

LEMMA OutcomeEventsTyped ==
    ASSUME SettlementInv, Settled
    PROVE  BillingCompleted(offer) \in Events /\ RunCompleted(offer) \in Events
  <1>1. BillFor(offer) \in Bills
    BY BillForMatches DEF SettlementInv, SettlementTypes, Settled, BillMatches, Bills
  <1>2. PublicResponse(offer) \in AnyArray
    <2>1. offer.array \in AnyArray /\ offer.text \in Text /\ output \in Text
      BY DEF Settled, Finals, SettlementInv, SettlementTypes
    <2>2. OutputText(offer) \in Text /\ <<>> \in Seq(Call)
      BY <2>1 DEF OutputText
    <2>3. Array(1, OutputText(offer), <<>>) \in AnyArray
      BY <2>2 DEF Array, AnyArray
    <2> QED BY <2>1, <2>3 DEF PublicResponse
  <1> QED BY <1>1, <1>2 DEF Events, BillingCompleted, RunCompleted

LEMMA TellHolds == ASSUME SettlementInv, Tell PROVE SettlementInv'
  <1>1. /\ gate = "telling" /\ seen' = Append(seen, Head(outbox)) /\ outbox' = Tail(outbox)
        /\ gate' = CASE outbox' # <<>> -> "telling"
                     [] Head(outbox).type = "delta" -> "consuming"
                     [] OTHER -> "closed"
        /\ UNCHANGED <<request, adapter, offer, gathered, output, bill>>
    BY DEF Tell, adapterVars
  <1>2. seen \in Seq(Events) /\ adapter \in {"reading", "offering", "closed"}
    BY DEF SettlementInv, SettlementTypes
  <1>3. /\ Affordable /\ Choice # "invalid" /\ Affordable' = Affordable /\ Choice' = Choice
        /\ \A k \in DOMAIN seen : seen[k].type \notin {"failed", "run_completed"}
    BY <1>1, RequestStays DEF SettlementInv, Gates, SeenInOrder, Outcome
  <1>4. ASSUME NEW e \in Events, seen' = Append(seen, e)
        PROVE  /\ seen' \in Seq(Events) /\ Len(seen') = Len(seen) + 1
               /\ seen'[Len(seen')] = e /\ Len(seen) \in Nat
               /\ \A k \in DOMAIN seen' :
                      k = Len(seen') \/ (k \in DOMAIN seen /\ seen'[k] = seen[k])
               /\ Len(seen) > 0 => seen'[Len(seen)] = seen[Len(seen)]
               /\ Streamed' = IF e.type = "delta" THEN Plus(Streamed, e.text) ELSE Streamed
    <2>1. Streamed' = IF e.type = "delta" THEN Plus(Streamed, e.text) ELSE Streamed
      BY <1>2, <1>4, EventsTyped, TextOfOneMore DEF Streamed
    <2> DEFINE n == Len(seen)
    <2>2. n \in Nat /\ DOMAIN seen = 1..n
      BY <1>2
    <2>3. seen' \in Seq(Events) /\ Len(seen') = n + 1 /\ DOMAIN seen' = 1..(n + 1)
      BY <1>2, <1>4
    <2>4. seen'[n + 1] = e /\ \A k \in 1..n : seen'[k] = seen[k]
      BY <1>2, <1>4
    <2> HIDE DEF n
    <2>5. \A k \in 1..(n + 1) : k = n + 1 \/ k \in 1..n
      BY <2>2
    <2>6. n > 0 => n \in 1..n
      BY <2>2
    <2>7. Len(seen) = n
      BY DEF n
    <2>8. \A k \in DOMAIN seen' : k = Len(seen') \/ (k \in DOMAIN seen /\ seen'[k] = seen[k])
      <3> SUFFICES ASSUME NEW k \in DOMAIN seen'
                   PROVE  k = Len(seen') \/ (k \in DOMAIN seen /\ seen'[k] = seen[k])
        OBVIOUS
      <3>1. k = n + 1 \/ k \in 1..n
        BY <2>3, <2>5
      <3>2. CASE k = n + 1
        BY <2>3, <3>2
      <3>3. CASE k \in 1..n
        BY <2>2, <2>4, <3>3
      <3> QED BY <3>1, <3>2, <3>3
    <2>9. n > 0 => seen'[n] = seen[n]
      BY <2>4, <2>6
    <2>10. seen'[Len(seen')] = e
      BY <2>3, <2>4
    <2>11. Len(seen') = Len(seen) + 1 /\ Len(seen) \in Nat
      BY <2>2, <2>3, <2>7
    <2>12. Len(seen) > 0 => seen'[Len(seen)] = seen[Len(seen)]
      BY <2>7, <2>9
    <2> QED BY <2>1, <2>3, <2>8, <2>10, <2>11, <2>12
  <1>5. \A e, f : /\ Head(<<e>>) = e /\ Tail(<<e>>) = <<>>
                  /\ Head(<<e, f>>) = e /\ Tail(<<e, f>>) = <<f>> /\ <<f>> # <<>>
    OBVIOUS
  <1>6. \/ Unsettled /\ outbox = <<Failed>>
        \/ Unsettled /\ \E d \in Deltas : outbox = <<d>> /\ Plus(Streamed, d.text) = output
        \/ Settled /\ outbox = <<BillingCompleted(offer), RunCompleted(offer)>>
        \/ /\ Settled /\ outbox = <<RunCompleted(offer)>>
           /\ Len(seen) > 0 /\ seen[Len(seen)] = BillingCompleted(offer)
    BY <1>1 DEF SettlementInv, Outboxes
  <1>7. Unsettled' = Unsettled
    BY <1>1 DEF Unsettled
  <1>8. ASSUME seen' \in Seq(Events), gate' \in {"consuming", "telling", "closed"}
        PROVE  SettlementTypes'
    BY <1>1, <1>8 DEF SettlementInv, SettlementTypes
  <1>9. CASE Unsettled /\ outbox = <<Failed>>
    <2>1. Failed \in Events /\ Failed.type = "failed"
      BY DEF Events, Failed
    <2>2. seen' = Append(seen, Failed) /\ outbox' = <<>> /\ gate' = "closed"
      BY <1>1, <1>5, <1>9, <2>1
    <2>3. SeenInOrder'
      BY <1>3, <1>4, <2>1, <2>2 DEF SeenInOrder, Outcome
    <2>4. Outboxes' /\ Gates'
      BY <1>7, <1>9, <2>2 DEF Outboxes, Gates
    <2> QED BY <1>4, <1>8, <2>1, <2>2, <2>3, <2>4 DEF SettlementInv
  <1>10. ASSUME Unsettled, NEW d \in Deltas, outbox = <<d>>, Plus(Streamed, d.text) = output
         PROVE  SettlementInv'
    <2>1. d \in Events /\ d.type = "delta"
      BY DEF Events, Deltas
    <2>2. seen' = Append(seen, d) /\ outbox' = <<>> /\ gate' = "consuming"
      BY <1>1, <1>5, <1>10, <2>1
    <2>3. SeenInOrder'
      BY <1>3, <1>4, <2>1, <2>2 DEF SeenInOrder, Outcome
    <2>4. Streamed' = output'
      BY <1>1, <1>4, <1>10, <2>1, <2>2
    <2>5. Outboxes' /\ Gates'
      BY <1>3, <1>7, <1>10, <2>2, <2>4 DEF Outboxes, Gates
    <2> QED BY <1>4, <1>8, <2>1, <2>2, <2>3, <2>5 DEF SettlementInv
  <1>11. CASE Settled /\ outbox = <<BillingCompleted(offer), RunCompleted(offer)>>
    <2> DEFINE e == BillingCompleted(offer)
    <2>1. e \in Events /\ e.type = "billing_completed"
      BY <1>11, OutcomeEventsTyped DEF BillingCompleted
    <2> DEFINE f == RunCompleted(offer)
    <2> HIDE DEF e, f
    <2>2. seen' = Append(seen, e) /\ outbox' = <<RunCompleted(offer)>> /\ gate' = "telling"
      <3>1. outbox = <<e, f>>
        BY <1>11 DEF e, f
      <3>2. Head(outbox) = e /\ Tail(outbox) = <<f>> /\ <<f>> # <<>>
        BY <1>5, <3>1
      <3>3. outbox' # <<>>
        BY <1>1, <3>2
      <3>4. Head(outbox).type # "delta"
        BY <2>1, <3>2
      <3>5. gate' = "telling"
        BY <1>1, <3>3, <3>4
      <3> QED BY <1>1, <3>2, <3>5 DEF f
    <2>3. SeenInOrder'
      BY <1>3, <1>4, <2>1, <2>2 DEF SeenInOrder, Outcome
    <2>4. Streamed' = Streamed /\ Len(seen') > 0 /\ seen'[Len(seen')] = e
      BY <1>4, <2>1, <2>2
    <2>5. /\ Settled' /\ BillingCompleted(offer)' = BillingCompleted(offer)
          /\ RunCompleted(offer)' = RunCompleted(offer)
      BY <1>1, <1>11, <2>2, <2>4, SettledStays
    <2>6. Outboxes' /\ Gates'
      BY <1>3, <2>2, <2>4, <2>5 DEF Outboxes, Gates, e
    <2> QED BY <1>4, <1>8, <2>1, <2>2, <2>3, <2>6 DEF SettlementInv
  <1>12. CASE /\ Settled /\ outbox = <<RunCompleted(offer)>>
              /\ Len(seen) > 0 /\ seen[Len(seen)] = BillingCompleted(offer)
    <2> DEFINE e == RunCompleted(offer)
    <2>1. e \in Events /\ e.type = "run_completed"
      BY <1>12, OutcomeEventsTyped DEF RunCompleted
    <2> HIDE DEF e
    <2>2. seen' = Append(seen, e) /\ outbox' = <<>> /\ gate' = "closed"
      BY <1>1, <1>5, <1>12, <2>1 DEF e
    <2>3. Streamed' = Streamed
      BY <1>4, <2>1, <2>2
    <2>4. /\ Settled' /\ BillingCompleted(offer)' = BillingCompleted(offer)
          /\ RunCompleted(offer)' = RunCompleted(offer)
      BY <1>1, <1>12, <2>2, <2>3, SettledStays
    <2>5. /\ Len(seen') > 1 /\ seen'[Len(seen') - 1] = BillingCompleted(offer)
          /\ seen'[Len(seen')] = RunCompleted(offer)
      BY <1>4, <1>12, <2>1, <2>2 DEF e
    <2>6. SeenInOrder'
      <3> SUFFICES ASSUME NEW k \in DOMAIN seen', seen'[k].type \in {"failed", "run_completed"}
                   PROVE  Outcome(k)'
        BY DEF SeenInOrder
      <3>1. k = Len(seen')
        BY <1>3, <1>4, <2>1, <2>2
      <3> QED BY <2>2, <2>4, <2>5, <3>1 DEF Outcome
    <2>7. Outboxes' /\ Gates'
      BY <1>3, <2>2, <2>4 DEF Outboxes, Gates
    <2> QED BY <1>4, <1>8, <2>1, <2>2, <2>6, <2>7 DEF SettlementInv
  <1> QED BY <1>6, <1>9, <1>10, <1>11, <1>12

LEMMA StepSettlement == SettlementInv /\ [Next]_vars => SettlementInv'
  <1> SUFFICES ASSUME SettlementInv, [Next]_vars PROVE SettlementInv'
    OBVIOUS
  <1>1. CASE StopConsuming \/ GiveUpTelling
    <2>1. /\ gate \in {"consuming", "telling"} /\ gate' = "closed"
          /\ outbox' = outbox \/ outbox' = <<>>
          /\ gate = "consuming" => outbox' = outbox
          /\ gate = "telling" => outbox' = <<>>
          /\ UNCHANGED <<request, adapter, offer, gathered, output, bill, seen>>
      BY <1>1 DEF StopConsuming, GiveUpTelling, adapterVars
    <2>2. outbox' = <<>>
      BY <2>1 DEF SettlementInv, Outboxes
    <2> QED BY <2>1, <2>2, ClosingStep
  <1>2. CASE HandlerEnds \/ Cancel \/ Ended \/ UNCHANGED vars
    BY <1>2, ClosingStep DEF HandlerEnds, Cancel, Ended, vars, adapterVars, gateVars
  <1>3. CASE \E t \in Chunks : ReadDelta(t)
    BY <1>3, ReadDeltaHolds
  <1> QED BY <1>1, <1>2, <1>3, RefuseHolds, StartHolds, GatherHolds, ReadLastHolds,
             GiveUpOfferHolds, ReceiveHolds, TellHolds DEF Next

LEMMA SpecSettlement == Spec => []SettlementInv
  BY InitSettlement, StepSettlement, PTL DEF Spec

-----------------------------------------------------------------------------
(* The usage an adapter offers is its reader's version of the last one the *)
(* service sent.                                                           *)

AsRead ==
    IF reported = NoReport THEN Unreported
    ELSE IF request.reader = "agent" THEN Decoded(reported) ELSE Extracted(reported)

Unfinished == offer.type \in {"none", "delta"}

UsageInv ==
    /\ reported \in AnyUsage \cup {NoReport}
    /\ gate = "new" => reported = NoReport /\ gathered.usage = Unreported /\ Unfinished
    /\ adapter = "reading" => Unfinished
    /\ adapter # "closed" /\ request.reader = "agent" /\ Unfinished
           => gathered.usage = AsRead
    /\ offer.type = "completed" => offer.usage = AsRead

LEMMA UsageIsNoReport == \A usage \in AnyUsage : usage # NoReport
  <1> SUFFICES ASSUME NEW usage \in AnyUsage PROVE usage # NoReport
    OBVIOUS
  <1>1. DOMAIN usage = {"input", "output"} /\ DOMAIN NoReport = {"sent"}
    BY DEF AnyUsage, NoReport
  <1> QED BY <1>1

LEMMA InitUsage == Init => UsageInv
  BY DEF Init, UsageInv, Unfinished, NoOffer, Ungathered, AsRead

\* Steps that read nothing of the service's answer.
LEMMA SameReport ==
    ASSUME SettlementInv, UsageInv, UNCHANGED <<request, offer, gathered, reported>>,
           gate' # "new" \/ gate' = gate,
           \/ adapter' \in {adapter, "closed"}
           \/ adapter = "offering" /\ Unfinished
           \/ gate = "new"
    PROVE  UsageInv'
  <1>1. AsRead' = AsRead /\ Unfinished' = Unfinished
    BY DEF AsRead, Unfinished
  <1>2. gate = "new" => AsRead = Unreported
    BY DEF UsageInv, AsRead
  <1>3. reported' \in AnyUsage \cup {NoReport}
    BY DEF UsageInv
  <1>4. gate' = "new" => gate = "new"
    OBVIOUS
  <1>5. (gate = "new" => reported = NoReport /\ gathered.usage = Unreported /\ Unfinished)'
    BY <1>1, <1>4 DEF UsageInv
  <1>6. (adapter = "reading" => Unfinished)'
    BY <1>1 DEF UsageInv
  <1>7. (adapter # "closed" /\ request.reader = "agent" /\ Unfinished
            => gathered.usage = AsRead)'
    BY <1>1, <1>2 DEF UsageInv
  <1>8. (offer.type = "completed" => offer.usage = AsRead)'
    BY <1>1 DEF UsageInv
  <1> QED BY <1>3, <1>5, <1>6, <1>7, <1>8 DEF UsageInv

\* The adapter's goroutine runs only once the gateway has started it.
LEMMA ReadingIsStarted == SettlementInv /\ adapter # "closed" => gate # "new"
  BY DEF SettlementInv, Gates

LEMMA StepUsage ==
    ASSUME SettlementInv, UsageInv, [Next]_vars
    PROVE  UsageInv'
  <1>1. CASE Refuse \/ Start
    BY <1>1, SameReport DEF Refuse, Start, adapterVars
  <1>2. CASE \E t \in Chunks : ReadDelta(t)
    <2>1. PICK t \in Chunks : ReadDelta(t)
      BY <1>2
    <2>2. /\ adapter = "reading" /\ adapter' = "offering" /\ offer' = Delta(t)
          /\ UNCHANGED <<request, gate, reported>>
      BY <2>1 DEF ReadDelta, Reading, gateVars
    <2>3. gathered'.usage = gathered.usage
      BY <2>1 DEF ReadDelta, SettlementInv, SettlementTypes
    <2>4. gate # "new" /\ offer'.type = "delta" /\ AsRead' = AsRead
      BY <2>2, ReadingIsStarted DEF Delta, AsRead
    <2> QED BY <2>2, <2>3, <2>4 DEF UsageInv, Unfinished
  <1>3. CASE \E k \in 1..MaxItems, item \in Item \cup {Nothing} : ReadItem(k, item)
    <2>1. PICK k \in 1..MaxItems, item \in Item \cup {Nothing} : ReadItem(k, item)
      BY <1>3
    <2>2. /\ request.reader = "direct" /\ adapter = "reading"
          /\ UNCHANGED <<request, adapter, offer, gate, reported>>
      BY <2>1 DEF ReadItem, Reading, gateVars
    <2>3. gate # "new" /\ AsRead' = AsRead
      BY <2>2, ReadingIsStarted DEF AsRead
    <2> QED BY <2>2, <2>3 DEF UsageInv, Unfinished
  <1>4. CASE \E usage \in Usages : ReadUsage(usage)
    <2>1. PICK usage \in Usages : ReadUsage(usage)
      BY <1>4
    <2>2. /\ request.reader = "agent" /\ adapter = "reading" /\ reported' = usage
          /\ gathered' = [gathered EXCEPT !.usage = Decoded(usage)]
          /\ UNCHANGED <<request, adapter, offer, gate>>
      BY <2>1 DEF ReadUsage, Reading, gateVars, Decoded
    <2>3. usage \in AnyUsage /\ usage # NoReport
      BY SettlementAssumption, UsageIsNoReport DEF AnyUsage
    <2>4. gathered'.usage = Decoded(usage)
      BY <2>2 DEF SettlementInv, SettlementTypes
    <2>5. gate # "new" /\ AsRead' = Decoded(usage)
      BY <2>2, <2>3, ReadingIsStarted DEF AsRead
    <2> QED BY <2>2, <2>3, <2>4, <2>5 DEF UsageInv, Unfinished
  <1>5. ASSUME NEW array \in Arrays, NEW usage \in Usages,
               ReadResponse(array, usage) \/ ReadDirectResponse(array, usage)
        PROVE  UsageInv'
    <2>1. usage \in AnyUsage /\ usage # NoReport
      BY SettlementAssumption, UsageIsNoReport DEF AnyUsage
    <2>2. /\ request.reader # "agent" /\ adapter = "reading" /\ reported' = usage
          /\ UNCHANGED <<request, gate>> /\ adapter' = "offering"
          /\ offer'.type = "completed" /\ offer'.usage = Extracted(usage)
      BY <1>5 DEF ReadResponse, ReadDirectResponse, Reading, gateVars, OfferLast, Completed
    <2>3. gate # "new" /\ AsRead' = Extracted(usage)
      BY <2>1, <2>2, ReadingIsStarted DEF AsRead
    <2> QED BY <2>1, <2>2, <2>3 DEF UsageInv, Unfinished
  <1>6. CASE ReadTurnCompleted
    <2>1. /\ request.reader = "agent" /\ adapter = "reading" /\ adapter' = "offering"
          /\ UNCHANGED <<request, gate, reported>>
          /\ offer'.type = "completed" /\ offer'.usage = gathered.usage
      BY <1>6 DEF ReadTurnCompleted, Reading, gateVars, OfferLast, Completed
    <2>2. gate # "new" /\ AsRead' = AsRead /\ gathered.usage = AsRead
      BY <2>1, ReadingIsStarted DEF AsRead, UsageInv
    <2> QED BY <2>1, <2>2 DEF UsageInv, Unfinished
  <1>7. CASE ReadFailure
    <2>1. /\ adapter = "reading" /\ adapter' = "offering" /\ offer'.type = "failed"
          /\ UNCHANGED <<request, gate, reported>>
      BY <1>7 DEF ReadFailure, Reading, gateVars, OfferLast, Failed
    <2>2. gate # "new"
      BY <2>1, ReadingIsStarted
    <2> QED BY <2>1, <2>2 DEF UsageInv, Unfinished
  <1>8. CASE GiveUpOffer
    BY <1>8, SameReport DEF GiveUpOffer, gateVars
  <1>9. CASE ReceiveDelta
    BY <1>9, SameReport DEF ReceiveDelta, Consume, Send, Unfinished
  <1>10. CASE ReceiveFailure \/ ReceiveDishonoured \/ ReceiveUnpriceable \/ Settle \/ SettleFails
    BY <1>10, SameReport
       DEF ReceiveFailure, ReceiveDishonoured, ReceiveUnpriceable, Settle, SettleFails,
           Consume, Send
  <1>11. CASE StopConsuming \/ Tell \/ GiveUpTelling
    BY <1>11, SameReport DEF StopConsuming, Tell, GiveUpTelling, adapterVars
  <1>12. CASE HandlerEnds \/ Cancel \/ Ended \/ UNCHANGED vars
    BY <1>12, SameReport DEF HandlerEnds, Cancel, Ended, vars, adapterVars, gateVars
  <1> QED BY <1>1, <1>2, <1>3, <1>4, <1>5, <1>6, <1>7, <1>8, <1>9, <1>10, <1>11, <1>12
          DEF Next

LEMMA SpecUsage == Spec => []UsageInv
  BY SpecSettlement, InitUsage, StepUsage, PTL DEF Spec

-----------------------------------------------------------------------------
(* What the caller reads and what it pays.                                 *)

\* The calls of a completed function request are those its choice asks for.
LEMMA CallsHonoured ==
    ASSUME SettlementInv, Settled, Enabled(request.functions)
    PROVE  LET calls == PublicResponse(offer).calls
               named == {calls[j].name : j \in DOMAIN calls}
           IN  /\ Len(calls) <= 1 /\ named \subseteq request.functions
               /\ request.raw = "none" => named = {}
               /\ request.raw = "required" => named # {}
               /\ request.raw \in FunctionNames => named = {request.raw}
  <1> DEFINE calls == PublicResponse(offer).calls
             named == {calls[j].name : j \in DOMAIN calls}
  <1>1. offer.response /\ ValidateResponse(request.functions, Choice, offer.array.calls)
    BY DEF Settled, Honoured
  <1>2. offer.array \in AnyArray
    BY DEF Settled, Finals
  <1>3. calls = offer.array.calls
    BY <1>1, <1>2 DEF PublicResponse, AnyArray, Array
  <1> HIDE DEF calls
  <1>4. /\ calls \in Seq(Call) /\ Len(calls) \in Nat /\ DOMAIN calls = 1..Len(calls)
        /\ calls = <<>> <=> Len(calls) = 0
    BY <1>2, <1>3 DEF AnyArray
  <1>5. /\ \A j \in DOMAIN calls : calls[j].name \in request.functions
        /\ Len(calls) <= 1
        /\ Choice = "none" => calls = <<>>
        /\ Choice = "required" => Len(calls) = 1
        /\ Choice \in FunctionNames => Len(calls) = 1 /\ Last(calls).name = Choice
    BY <1>1, <1>3 DEF ValidateResponse
  <1>6. Choice # "invalid"
    BY DEF SettlementInv, Gates, Settled, Unsettled
  <1>7. request.functions # {}
    BY DEF Enabled
  <1>8. request.raw \in {"none", "required"} => Choice = request.raw
    BY <1>7, NamesAreNoModes DEF Choice, ParseChoice, Modes
  <1>9. request.raw \in FunctionNames => Choice = request.raw
    BY <1>6, NamesAreNoModes DEF Choice, ParseChoice, Modes
  <1>10. Len(calls) = 1 => DOMAIN calls = {1} /\ Last(calls) = calls[1]
    BY <1>4 DEF Last
  <1>11. named \subseteq request.functions
    BY <1>5
  <1>12. calls = <<>> => named = {}
    BY <1>4
  <1>13. Len(calls) = 1 => named = {Last(calls).name}
    BY <1>10
  <1>14. /\ request.raw = "none" => named = {}
         /\ request.raw = "required" => named # {}
         /\ request.raw \in FunctionNames => named = {request.raw}
    BY <1>5, <1>8, <1>9, <1>12, <1>13
  <1> QED BY <1>5, <1>11, <1>14 DEF calls

LEMMA VerifiedOutcome == SettlementInv => CallerSeesOneVerifiedOutcome
  <1> SUFFICES ASSUME SettlementInv PROVE CallerSeesOneVerifiedOutcome
    OBVIOUS
  <1> DEFINE Verified(e) ==
          LET calls == e.array.calls
              named == {calls[j].name : j \in DOMAIN calls}
          IN  /\ e.bill = bill
              /\ Enabled(request.functions) =>
                    /\ Len(calls) <= 1 /\ named \subseteq request.functions
                    /\ request.raw = "none" => named = {}
                    /\ request.raw = "required" => named # {}
                    /\ request.raw \in FunctionNames => named = {request.raw}
  <1>1. ASSUME Settled PROVE Verified(RunCompleted(offer))
    <2>1. /\ RunCompleted(offer).array = PublicResponse(offer)
          /\ RunCompleted(offer).bill = bill
      BY <1>1 DEF RunCompleted, Settled
    <2> DEFINE calls == PublicResponse(offer).calls
               named == {calls[j].name : j \in DOMAIN calls}
    <2>2. Enabled(request.functions) =>
              /\ Len(calls) <= 1 /\ named \subseteq request.functions
              /\ request.raw = "none" => named = {}
              /\ request.raw = "required" => named # {}
              /\ request.raw \in FunctionNames => named = {request.raw}
      BY <1>1, CallsHonoured
    <2> QED BY <2>1, <2>2
  <1>2. ASSUME NEW k \in DOMAIN seen, seen[k].type \in {"failed", "run_completed"}
        PROVE  /\ k = Len(seen)
               /\ seen[k].type = "run_completed" =>
                     /\ Verified(seen[k]) /\ k > 1
                     /\ seen[k - 1].type = "billing_completed" /\ seen[k - 1].bill = bill
    <2>1. Outcome(k)
      BY <1>2 DEF SettlementInv, SeenInOrder
    <2>2. CASE seen[k] = Failed
      BY <2>1, <2>2 DEF Failed, Outcome
    <2>3. CASE /\ Settled /\ seen[k] = RunCompleted(offer)
               /\ k > 1 /\ seen[k - 1] = BillingCompleted(offer)
      <3>1. seen[k - 1].type = "billing_completed" /\ seen[k - 1].bill = bill
        BY <2>3 DEF BillingCompleted, Settled
      <3> HIDE DEF Verified
      <3> QED BY <1>1, <2>1, <2>3, <3>1 DEF Outcome
    <2> QED BY <2>1, <2>2, <2>3 DEF Outcome
  <1> HIDE DEF Verified
  <1>3. CASE request.stream
    <2>1. Shown = seen
      BY <1>3 DEF Shown
    <2>2. ASSUME NEW k \in Outcomes
          PROVE  /\ k = Len(Shown)
                 /\ Shown[k].type = "run_completed" =>
                       /\ Verified(Shown[k]) /\ k > 1
                       /\ Shown[k - 1].type = "billing_completed"
                       /\ Shown[k - 1].bill = bill
      BY <1>2, <2>1, <2>2 DEF Outcomes
    <2> QED BY <2>2 DEF CallerSeesOneVerifiedOutcome, Verified
  <1>4. CASE ~request.stream
    <2>1. ASSUME NEW k \in Outcomes
          PROVE  /\ k = Len(Shown)
                 /\ Shown[k].type = "run_completed" => Verified(Shown[k])
      <3>1. Shown = <<>> \/ Shown = Answer
        BY <1>4 DEF Shown
      <3>2. Shown # <<>> /\ k \in DOMAIN Shown
        BY DEF Outcomes
      <3>3. CASE Answer = <<Failed>>
        <4>1. Shown = <<Failed>> /\ k = 1
          BY <3>1, <3>2, <3>3
        <4> QED BY <4>1 DEF Failed
      <3>4. CASE Answer # <<Failed>>
        <4> DEFINE S == Received("run_completed")
                   m == Max(S)
        <4>1. S # {} /\ Answer = <<seen[m]>>
          BY <3>4 DEF Answer
        <4>2. m \in DOMAIN seen /\ seen[m].type = "run_completed"
          <5>1. seen \in Seq(Events)
            BY DEF SettlementInv, SettlementTypes
          <5>2. DOMAIN seen \in SUBSET Nat /\ IsFiniteSet(DOMAIN seen)
            BY <5>1, FS_Interval
          <5>3. S \in SUBSET DOMAIN seen
            BY DEF Received
          <5>4. m \in S
            BY <4>1, <5>2, <5>3, FS_Subset, GreatestNatural
          <5> QED BY <5>4 DEF Received
        <4> HIDE DEF S, m
        <4>3. Verified(seen[m])
          BY <1>2, <4>2
        <4>4. Shown = <<seen[m]>> /\ k = 1
          BY <3>1, <3>2, <4>1
        <4> QED BY <4>3, <4>4
      <3> QED BY <3>3, <3>4
    <2> QED BY <1>4, <2>1 DEF CallerSeesOneVerifiedOutcome, Verified
  <1> QED BY <1>3, <1>4

LEMMA FittingBill == SettlementInv /\ UsageInv => BillFitsTheAnswer
  <1> SUFFICES ASSUME SettlementInv, UsageInv, bill # NoBill PROVE BillFitsTheAnswer
    BY DEF BillFitsTheAnswer
  <1>1. Settled /\ Affordable
    BY DEF SettlementInv, Gates, Unsettled
  <1>2. BillMatches(offer, bill)
    BY <1>1, BillForMatches DEF Settled, SettlementInv, SettlementTypes
  <1>3. offer \in Finals /\ offer.type = "completed" /\ bill \in Bill /\ Streamed = output
    BY <1>1, <1>2 DEF Settled, BillMatches, Finals
  <1>4. Billed(offer)
    <2> DEFINE served == PublicResponse(offer)
               sent == IF served.text # Empty THEN served.text
                       ELSE IF Streamed # Empty THEN Streamed
                       ELSE IF offer.response THEN EstimatedOutputText(offer.array)
                            ELSE Empty
    <2>1. UsageOutput(offer) = sent
      <3>1. offer.response => offer.text = offer.array.text
        BY <1>3 DEF Finals
      <3>2. CASE offer.response /\ offer.array.present
        <4>1. served.text = offer.text
          BY <3>1, <3>2 DEF PublicResponse
        <4> HIDE DEF served
        <4>2. CASE offer.text # Empty
          BY <4>1, <4>2 DEF UsageOutput, OutputText
        <4>3. CASE offer.text = Empty /\ Streamed # Empty
          BY <1>3, <4>1, <4>3 DEF UsageOutput, OutputText
        <4>4. CASE offer.text = Empty /\ Streamed = Empty
          BY <1>3, <3>2, <4>1, <4>4 DEF UsageOutput, OutputText
        <4> QED BY <4>2, <4>3, <4>4
      <3>3. CASE ~(offer.response /\ offer.array.present)
        <4>1. served.text = OutputText(offer)
          BY <3>3 DEF PublicResponse, Array
        <4> HIDE DEF served
        <4>2. CASE OutputText(offer) # Empty
          BY <4>1, <4>2 DEF UsageOutput
        <4>3. CASE OutputText(offer) = Empty
          <5>1. Streamed = Empty
            BY <1>3, <4>3 DEF OutputText
          <5> QED BY <4>1, <4>3, <5>1 DEF UsageOutput
        <4> QED BY <4>2, <4>3
      <3> QED BY <3>2, <3>3
    <2>2. EstimateTextV1(sent) = OutputEstimate(offer)
      BY DEF OutputEstimate
    <2> HIDE DEF sent
    <2>3. /\ bill.inputTokens = IF offer.usage.input = NotReported
                                THEN EstimateTextV1(InputText) ELSE offer.usage.input
          /\ bill.outputTokens = IF offer.usage.output = NotReported
                                 THEN OutputEstimate(offer) ELSE offer.usage.output
      BY <1>2, <2>1, <2>2 DEF BillMatches
    <2>4. bill.inputTokens >= 0 /\ bill.outputTokens >= 0
      BY <1>3 DEF Bill
    <2>5. offer.usage = AsRead
      BY <1>3 DEF UsageInv
    <2>6. CASE reported = NoReport
      <3>1. offer.usage.input = NotReported /\ offer.usage.output = NotReported
        BY <2>5, <2>6 DEF AsRead, Unreported
      <3> QED BY <2>3, <2>6, <3>1 DEF Billed, BilledCount, Counted, LeftOut
    <2>7. CASE reported # NoReport
      <3>1. /\ reported.input \in Int \cup {NotReported}
            /\ reported.output \in Int \cup {NotReported}
        BY <2>7 DEF UsageInv, AnyUsage
      <3>2. CASE request.reader = "agent"
        <4>1. /\ offer.usage.input = IF reported.input = NotReported THEN 0
                                     ELSE reported.input
              /\ offer.usage.output = IF reported.output = NotReported THEN 0
                                      ELSE reported.output
          BY <2>5, <2>7, <3>2 DEF AsRead, Decoded
        <4> QED BY <2>3, <2>4, <2>7, <3>1, <3>2, <4>1, PricingAssumption
                DEF Billed, BilledCount, Counted, LeftOut
      <3>3. CASE request.reader # "agent"
        <4>1. /\ offer.usage.input = IF reported.input # NotReported /\ reported.input < 0
                                     THEN NotReported ELSE reported.input
              /\ offer.usage.output = IF reported.output # NotReported /\ reported.output < 0
                                      THEN NotReported ELSE reported.output
          BY <2>5, <2>7, <3>3 DEF AsRead, Extracted
        <4> QED BY <2>3, <2>7, <3>1, <3>3, <4>1
                DEF Billed, BilledCount, Counted, LeftOut
      <3> QED BY <3>2, <3>3
    <2> QED BY <2>6, <2>7
  <1>5. LET exact == bill.inputTokens * Price.input + bill.outputTokens * Price.output
            error == bill.total * PerMillion - exact
        IN  -PerMillion < error /\ error <= PerMillion
    BY <1>2, <1>3, BillIsNearest DEF BillMatches
  <1>6. ASSUME request.budget # NoBudget
        PROVE  /\ bill.exceeded <=> bill.total > request.budget
               /\ /\ bill.inputTokens <= EstimateTextV1(InputText)
                  /\ bill.outputTokens <= MaxOutput
                  => ~bill.exceeded
    <2>1. bill.exceeded <=> bill.total > request.budget
      BY <1>2, <1>6 DEF BillMatches
    <2>2. ASSUME bill.inputTokens <= EstimateTextV1(InputText), bill.outputTokens <= MaxOutput
          PROVE  ~(bill.total > request.budget)
      <3>1. PICK input \in Nat, b \in Int :
                input = EstimateTextV1(InputText) /\ b = request.budget
        BY <1>6, EstimateIsNat, SettlementAssumption
           DEF SettlementInv, SettlementTypes, Requests
      <3>2. PICK i \in 0..input, o \in 0..MaxOutput :
                i = bill.inputTokens /\ o = bill.outputTokens
        BY <1>3, <2>2, <3>1, SettlementAssumption DEF Bill
      <3>3. EvaluateHardBudget(Price, input, MaxOutput, b)
        BY <1>1, <1>6, <3>1 DEF Affordable
      <3>4. Calculate(Price, i, o).total \in 0..MaxInt64 /\ Calculate(Price, i, o).total <= b
        BY <3>3, HardBudgetBoundsTheBill, SettlementAssumption DEF Prices
      <3>5. bill.total = Calculate(Price, i, o).total
        BY <1>2, <3>2 DEF BillMatches
      <3> QED BY <3>1, <3>4, <3>5, PricingAssumption
    <2> QED BY <2>1, <2>2
  <1> QED BY <1>3, <1>4, <1>5, <1>6 DEF BillFitsTheAnswer, Bill

\* In every execution a caller reads one outcome, last, with the bill on record
\* announced before it, and a completed function request has the call its choice
\* asks for: whatever the service sends, consume checks it before it settles.
THEOREM OutcomesAreVerified == Spec => []CallerSeesOneVerifiedOutcome
  BY SpecSettlement, VerifiedOutcome, PTL

\* In every execution the bill on record is made of what the service itself
\* reported, where it reported nothing of the text the caller is sent, and of zero
\* where an App Server's usage message left a count out; its total is right to a
\* nano-unit, and an answer within the bounds of its hard budget is not billed
\* above the budget.
THEOREM BillsFitTheAnswer == Spec => []BillFitsTheAnswer
  BY SpecSettlement, SpecUsage, FittingBill, PTL
=============================================================================
