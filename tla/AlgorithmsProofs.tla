---------------------------- MODULE AlgorithmsProofs ---------------------------
(***************************************************************************)
(* The replay against its references, for every sequence of transactions   *)
(* of any length, and the scheduler for any number of days.                *)
(***************************************************************************)
EXTENDS MCPositionCalculator, MarketSchedule, SymbolLookup, BoursoramaUrls,
        CalculatorProofs, FiniteSetTheorems

(* The function by which MapThenSumSet adds up the quantities of the       *)
(* transactions in every subset of D, one after the other.                 *)
Chosen(s) == CHOOSE x \in s : TRUE

IsSum(g, t, D) ==
  g = [s \in SUBSET D |-> IF s = {} THEN 0 ELSE t[Chosen(s)].quantity + g[s \ {Chosen(s)}]]

(* Fewer remain when one is taken away.                                    *)
LEMMA OneFewer ==
  ASSUME NEW s, IsFiniteSet(s), s # {}, NEW n \in Nat, Cardinality(s) <= n + 1
  PROVE  /\ Chosen(s) \in s /\ IsFiniteSet(s \ {Chosen(s)})
         /\ Cardinality(s \ {Chosen(s)}) <= n
<1>1. Chosen(s) \in s
  BY DEF Chosen
<1>2. /\ IsFiniteSet(s \ {Chosen(s)})
      /\ Cardinality(s \ {Chosen(s)}) = Cardinality(s) - 1
  BY <1>1, FS_RemoveElement
<1>3. Cardinality(s) \in Nat
  BY FS_CardinalityType
<1> QED BY <1>1, <1>2, <1>3

LEMMA SumExists ==
  ASSUME NEW t, NEW D, IsFiniteSet(D)
  PROVE  \E g : IsSum(g, t, D)
<1> DEFINE Small(n) == {s \in SUBSET D : Cardinality(s) <= n}
           IsPart(g, n) ==
             g = [s \in Small(n) |-> IF s = {} THEN 0 ELSE t[Chosen(s)].quantity + g[s \ {Chosen(s)}]]
           S == {n \in Nat : \E g : IsPart(g, n)}
<1>1. \A s \in SUBSET D : IsFiniteSet(s) /\ Cardinality(s) \in Nat /\ Cardinality(s) <= Cardinality(D)
  BY FS_Subset, FS_CardinalityType
<1>2. 0 \in S
  <2> DEFINE none == [s \in Small(0) |-> 0]
  <2>1. \A s \in Small(0) : s = {}
    BY <1>1, FS_EmptySet
  <2>2. none = [s \in Small(0) |->
                 IF s = {} THEN 0 ELSE t[Chosen(s)].quantity + none[s \ {Chosen(s)}]]
    <3> HIDE DEF Small
    <3> QED BY <2>1
  <2>3. IsPart(none, 0)
    BY <2>2
  <2> QED BY <2>3
<1>3. ASSUME NEW n \in Nat, n \in S
      PROVE  n + 1 \in S
  <2>1. PICK g : IsPart(g, n)
    BY <1>3
  <2> DEFINE next == [s \in Small(n + 1) |->
                        IF s = {} THEN 0 ELSE t[Chosen(s)].quantity + g[s \ {Chosen(s)}]]
  <2>2. \A s \in Small(n) : s \in Small(n + 1) /\ next[s] = g[s]
    <3>1. \A s \in Small(n) : s \in Small(n + 1)
      BY <1>1
    <3> HIDE DEF Small
    <3> QED BY <2>1, <3>1
  <2>3. \A s \in Small(n + 1) : s # {} => s \ {Chosen(s)} \in Small(n)
    BY <1>1, OneFewer
  <2>4. IsPart(next, n + 1)
    BY <2>2, <2>3
  <2> HIDE DEF IsPart, next
  <2> QED BY <2>4
<1>4. Nat \subseteq S
  <2> HIDE DEF S
  <2> QED BY <1>2, <1>3, NatSetInduction
<1>5. PICK g : IsPart(g, Cardinality(D))
  BY <1>1, <1>4
<1>6. Small(Cardinality(D)) = SUBSET D
  BY <1>1
<1> QED BY <1>5, <1>6 DEF IsSum

(* The sum of a set does not depend on the set it is taken within.         *)
LEMMA SumUnique ==
  ASSUME NEW t, NEW D, NEW E, IsFiniteSet(D), NEW g, NEW h, IsSum(g, t, D), IsSum(h, t, E),
         NEW s, s \subseteq D, s \subseteq E
  PROVE  g[s] = h[s]
<1> DEFINE S == {n \in Nat : \A r \in SUBSET (D \cap E) : Cardinality(r) <= n => g[r] = h[r]}
<1>1. \A r \in SUBSET (D \cap E) : IsFiniteSet(r) /\ Cardinality(r) \in Nat
  BY FS_Subset, FS_CardinalityType
<1>2. 0 \in S
  <2>1. g[{}] = 0 /\ h[{}] = 0
    BY DEF IsSum
  <2> QED BY <1>1, <2>1, FS_EmptySet
<1>3. ASSUME NEW n \in Nat, n \in S
      PROVE  n + 1 \in S
  <2> SUFFICES ASSUME NEW r \in SUBSET (D \cap E), Cardinality(r) <= n + 1
               PROVE  g[r] = h[r]
    OBVIOUS
  <2>1. CASE r = {}
    BY <2>1 DEF IsSum
  <2>2. CASE r # {}
    <3>1. Cardinality(r \ {Chosen(r)}) <= n
      BY <1>1, <2>2, OneFewer
    <3>2. g[r \ {Chosen(r)}] = h[r \ {Chosen(r)}]
      BY <1>3, <3>1
    <3>3. /\ g[r] = t[Chosen(r)].quantity + g[r \ {Chosen(r)}]
          /\ h[r] = t[Chosen(r)].quantity + h[r \ {Chosen(r)}]
      BY <2>2 DEF IsSum
    <3> QED BY <3>2, <3>3
  <2> QED BY <2>1, <2>2
<1>4. Nat \subseteq S
  <2> HIDE DEF S
  <2> QED BY <1>2, <1>3, NatSetInduction
<1> QED BY <1>1, <1>4

LEMMA SumType ==
  ASSUME NEW t, NEW D, IsFiniteSet(D), NEW g, IsSum(g, t, D),
         \A k \in D : t[k].quantity \in Nat, NEW s \in SUBSET D
  PROVE  g[s] \in Nat
<1> DEFINE S == {n \in Nat : \A r \in SUBSET D : Cardinality(r) <= n => g[r] \in Nat}
<1>1. \A r \in SUBSET D : IsFiniteSet(r) /\ Cardinality(r) \in Nat
  BY FS_Subset, FS_CardinalityType
<1>2. 0 \in S
  BY <1>1, FS_EmptySet DEF IsSum
<1>3. ASSUME NEW n \in Nat, n \in S
      PROVE  n + 1 \in S
  <2> SUFFICES ASSUME NEW r \in SUBSET D, Cardinality(r) <= n + 1
               PROVE  g[r] \in Nat
    OBVIOUS
  <2>1. CASE r = {}
    BY <2>1 DEF IsSum
  <2>2. CASE r # {}
    <3>1. Chosen(r) \in D /\ Cardinality(r \ {Chosen(r)}) <= n
      BY <1>1, <2>2, OneFewer
    <3>2. g[r \ {Chosen(r)}] \in Nat
      BY <1>3, <3>1
    <3>3. g[r] = t[Chosen(r)].quantity + g[r \ {Chosen(r)}]
      BY <2>2 DEF IsSum
    <3> QED BY <3>1, <3>2, <3>3
  <2> QED BY <2>1, <2>2
<1>4. Nat \subseteq S
  <2> HIDE DEF S
  <2> QED BY <1>2, <1>3, NatSetInduction
<1> QED BY <1>1, <1>4

(* Whichever is taken away first, the sum is the same.                     *)
LEMMA SumTakeAway ==
  ASSUME NEW t, NEW D, IsFiniteSet(D), NEW g, IsSum(g, t, D),
         \A k \in D : t[k].quantity \in Nat, NEW s, s \subseteq D, NEW x, x \in s
  PROVE  g[s] = t[x].quantity + g[s \ {x}]
<1> DEFINE S == {n \in Nat : \A r \in SUBSET D : Cardinality(r) <= n =>
                               \A y \in r : g[r] = t[y].quantity + g[r \ {y}]}
<1>1. \A r \in SUBSET D : /\ IsFiniteSet(r) /\ Cardinality(r) \in Nat
                          /\ g[r] \in Nat
  BY FS_Subset, FS_CardinalityType, SumType
<1>2. 0 \in S
  BY <1>1, FS_EmptySet
<1>3. ASSUME NEW n \in Nat, n \in S
      PROVE  n + 1 \in S
  <2> SUFFICES ASSUME NEW r \in SUBSET D, Cardinality(r) <= n + 1, NEW y \in r
               PROVE  g[r] = t[y].quantity + g[r \ {y}]
    OBVIOUS
  <2> DEFINE c == Chosen(r)
  <2>1. c \in r /\ Cardinality(r \ {c}) <= n
    BY <1>1, OneFewer
  <2>2. g[r] = t[c].quantity + g[r \ {c}]
    BY DEF IsSum
  <2> HIDE DEF c
  <2>3. CASE y = c
    BY <2>2, <2>3
  <2>4. CASE y # c
    <3>1. g[r \ {c}] = t[y].quantity + g[(r \ {c}) \ {y}]
      BY <1>3, <2>1, <2>4
    <3>2. Cardinality(r \ {y}) <= n
      <4>1. Cardinality(r \ {y}) = Cardinality(r) - 1
        BY <1>1, FS_RemoveElement
      <4> QED BY <1>1, <4>1
    <3>3. g[r \ {y}] = t[c].quantity + g[(r \ {y}) \ {c}]
      BY <1>3, <2>1, <2>4, <3>2
    <3>4. g[(r \ {y}) \ {c}] = g[(r \ {c}) \ {y}]
      <4>1. (r \ {y}) \ {c} = (r \ {c}) \ {y}
        OBVIOUS
      <4> QED BY <4>1
    <3>5. t[c].quantity \in Nat /\ t[y].quantity \in Nat /\ g[(r \ {c}) \ {y}] \in Nat
      BY <1>1, <2>1
    <3> QED BY <2>2, <3>1, <3>3, <3>4, <3>5
  <2> QED BY <2>3, <2>4
<1>4. Nat \subseteq S
  <2> HIDE DEF S
  <2> QED BY <1>2, <1>3, NatSetInduction
<1> QED BY <1>1, <1>4


-----------------------------------------------------------------------------
Transactions ==
  [type : {"BUY", "SELL"}, quantity : Quantities, price : Prices, fees : Fees, date : Nat]

(* What every ledger of MCPositionCalculator is.                           *)
Numbered ==
  txs \in Seq(Transactions) /\ \A n \in 1 .. Len(txs) : txs[n].date = n

Traded(type, n) == MapThenSumSet(LAMBDA k : txs[k].quantity, Of(type, n))

LEMMA TransactionFacts ==
  ASSUME Numbered, NEW n \in 1 .. Len(txs)
  PROVE  /\ Amounts(txs[n]) /\ txs[n].type \in {"BUY", "SELL"}
         /\ txs[n].quantity \in Quantities /\ txs[n].date = n
<1>1. txs[n] \in Transactions
  BY DEF Numbered
<1> QED BY <1>1, AmountsAssumption DEF Numbered, Transactions, Amounts

LEMMA OfIsFinite ==
  ASSUME NEW type, NEW n \in Nat
  PROVE  IsFiniteSet(Of(type, n)) /\ Of(type, n) \subseteq 1 .. n
<1>1. IsFiniteSet(1 .. n)
  BY FS_Interval
<1> QED BY <1>1, FS_Subset DEF Of

LEMMA TradedIsSum ==
  ASSUME NEW type, NEW n \in Nat
  PROVE  \E g : IsSum(g, txs, Of(type, n)) /\ Traded(type, n) = g[Of(type, n)]
<1>1. Traded(type, n) = (CHOOSE g : IsSum(g, txs, Of(type, n)))[Of(type, n)]
  BY DEF Traded, MapThenSumSet, MapThenFoldSet, IsSum, Chosen
<1>2. \E g : IsSum(g, txs, Of(type, n))
  BY OfIsFinite, SumExists
<1> QED BY <1>1, <1>2

(* What is traded up to a transaction is what was before it and what it    *)
(* trades itself.                                                          *)
LEMMA TradedStep ==
  ASSUME Numbered, NEW type, NEW n \in Nat, n < Len(txs)
  PROVE  /\ Traded(type, n) \in Nat
         /\ txs[n + 1].type = type => Traded(type, n + 1) = Traded(type, n) + txs[n + 1].quantity
         /\ txs[n + 1].type # type => Traded(type, n + 1) = Traded(type, n)
<1>1. Len(txs) \in Nat /\ n + 1 \in 1 .. Len(txs) /\ \A k \in 1 .. n + 1 : k \in 1 .. Len(txs)
  BY DEF Numbered
<1>2. \A k \in 1 .. n + 1 : txs[k].quantity \in Nat
  BY <1>1, TransactionFacts DEF Amounts
<1> DEFINE D == Of(type, n + 1)
           E == Of(type, n)
<1>3. PICK g : IsSum(g, txs, D) /\ Traded(type, n + 1) = g[D]
  BY TradedIsSum
<1>4. PICK h : IsSum(h, txs, E) /\ Traded(type, n) = h[E]
  BY TradedIsSum
<1>5. IsFiniteSet(D) /\ IsFiniteSet(E) /\ D \subseteq 1 .. n + 1 /\ E \subseteq D
  <2>1. 1 .. n \subseteq 1 .. n + 1
    OBVIOUS
  <2>2. E \subseteq D
    BY <2>1 DEF Of
  <2> QED BY <2>2, OfIsFinite
<1>6. /\ \A k \in D : txs[k].quantity \in Nat
      /\ \A k \in E : txs[k].quantity \in Nat
  BY <1>2, <1>5
<1>7. txs[n + 1].type = type => n + 1 \in D /\ D \ {n + 1} = E
  BY DEF Of
<1>8. txs[n + 1].type # type => D = E
  BY DEF Of
<1> HIDE DEF D, E
<1>9. h[E] \in Nat
  BY <1>4, <1>5, <1>6, SumType
<1>10. g[E] = h[E]
  <2>1. E \subseteq D /\ E \subseteq E
    BY <1>5
  <2>2. IsFiniteSet(D) /\ IsSum(g, txs, D) /\ IsSum(h, txs, E)
    BY <1>3, <1>4, <1>5
  <2> QED BY <2>1, <2>2, SumUnique
<1>11. ASSUME txs[n + 1].type = type
       PROVE  g[D] = txs[n + 1].quantity + g[E]
  <2>1. D \subseteq D /\ n + 1 \in D /\ D \ {n + 1} = E
    BY <1>7, <1>11
  <2>2. g[D] = txs[n + 1].quantity + g[D \ {n + 1}]
    <3>1. IsFiniteSet(D) /\ IsSum(g, txs, D) /\ \A k \in D : txs[k].quantity \in Nat
      BY <1>3, <1>5, <1>6
    <3> QED BY <2>1, <3>1, SumTakeAway
  <2> QED BY <2>1, <2>2
<1>12. txs[n + 1].quantity \in Nat
  BY <1>1, <1>2
<1> QED BY <1>3, <1>4, <1>8, <1>9, <1>10, <1>11, <1>12

LEMMA TradedStart ==
  ASSUME NEW type
  PROVE  Traded(type, 0) = 0
<1>1. PICK g : IsSum(g, txs, Of(type, 0)) /\ Traded(type, 0) = g[Of(type, 0)]
  BY TradedIsSum
<1>2. Of(type, 0) = {}
  BY DEF Of
<1> QED BY <1>1, <1>2 DEF IsSum

LEMMA BoughtSold ==
  ASSUME NEW n
  PROVE  Bought(n) = Traded("BUY", n) /\ Sold(n) = Traded("SELL", n)
BY DEF Bought, Sold, Traded


-----------------------------------------------------------------------------
(* One turn of replay's loop, field by field.                              *)
LEMMA BookBuys ==
  ASSUME NEW s \in Snapshots, s.ok, NEW tx, Amounts(tx), tx.type = "BUY"
  PROVE  /\ Book(s, tx).ok
         /\ Book(s, tx).quantity = s.quantity + tx.quantity
         /\ Book(s, tx).cost = s.quantity * s.cost + (tx.quantity * tx.price + tx.fees) * s.units
         /\ Book(s, tx).units = s.units * (s.quantity + tx.quantity)
         /\ Book(s, tx).last_update = tx.date
<1>1. Book(s, tx) = Buy(s, tx)
  BY DEF Book
<1> QED BY <1>1 DEF Buy, Snapshots

LEMMA BookSells ==
  ASSUME NEW s \in Snapshots, s.ok, NEW tx, Amounts(tx), tx.type = "SELL"
  PROVE  /\ Book(s, tx).ok <=> tx.quantity <= s.quantity
         /\ Book(s, tx).ok =>
              /\ Book(s, tx).quantity = s.quantity - tx.quantity
              /\ Book(s, tx).last_update = tx.date
              /\ s.quantity # tx.quantity =>
                   Book(s, tx).cost = s.cost /\ Book(s, tx).units = s.units
<1>1. Book(s, tx) = Sell(s, tx)
  BY DEF Book
<1>2. s.quantity \in Nat /\ tx.quantity \in Nat
  BY DEF Snapshots, Amounts
<1>3. CASE tx.quantity > s.quantity
  <2>1. Sell(s, tx) = [s EXCEPT !.ok = FALSE]
    BY <1>3 DEF Sell
  <2> QED BY <1>1, <1>2, <1>3, <2>1 DEF Snapshots
<1>4. CASE ~(tx.quantity > s.quantity)
  <2> DEFINE left == s.quantity - tx.quantity
             cost == IF left = 0 THEN 0 ELSE s.cost
             units == IF left = 0 THEN 1 ELSE s.units
  <2>1. Sell(s, tx) = [s EXCEPT !.quantity = left, !.cost = cost,
                                !.units = units, !.last_update = tx.date]
    BY <1>4 DEF Sell
  <2>2. s.quantity # tx.quantity => cost = s.cost /\ units = s.units
    BY <1>2
  <2> HIDE DEF cost, units
  <2>3. /\ Sell(s, tx).ok /\ Sell(s, tx).quantity = s.quantity - tx.quantity
        /\ Sell(s, tx).last_update = tx.date
        /\ Sell(s, tx).cost = cost /\ Sell(s, tx).units = units
    BY <2>1 DEF Snapshots
  <2> QED BY <1>1, <1>2, <1>4, <2>2, <2>3
<1> QED BY <1>3, <1>4

(* A sale of all that is held.                                             *)
LEMMA SoldOut ==
  ASSUME NEW s \in Snapshots, s.ok, NEW tx, Amounts(tx), tx.type = "SELL",
         s.quantity = tx.quantity
  PROVE  /\ Book(s, tx).ok /\ Book(s, tx).quantity = 0
         /\ Book(s, tx).cost = 0 /\ Book(s, tx).units = 1
<1>1. Book(s, tx) = Sell(s, tx)
  BY DEF Book
<1>2. s.quantity \in Nat /\ ~(tx.quantity > s.quantity) /\ s.quantity - tx.quantity = 0
  BY DEF Snapshots
<1>3. Sell(s, tx) = [s EXCEPT !.quantity = 0, !.cost = 0, !.units = 1, !.last_update = tx.date]
  BY <1>2 DEF Sell
<1> QED BY <1>1, <1>3 DEF Snapshots

LEMMA BookRefused ==
  ASSUME NEW s, ~s.ok, NEW tx
  PROVE  Book(s, tx) = s
BY DEF Book

(* The snapshots of the replay of txs.                                     *)
IsReplay(g) == IsRun(g, txs, Len(txs))

LEMMA ReplayStep ==
  ASSUME Numbered, NEW g, IsReplay(g), NEW n \in Nat, n < Len(txs)
  PROVE  /\ n + 1 \in 1 .. Len(txs) /\ Amounts(txs[n + 1])
         /\ txs[n + 1].type \in {"BUY", "SELL"} /\ txs[n + 1].date = n + 1
         /\ g[n + 1] = Book(g[n], txs[n + 1])
<1>1. Len(txs) \in Nat
  BY DEF Numbered
<1>2. n + 1 \in 1 .. Len(txs) /\ n + 1 \in 0 .. Len(txs) /\ n + 1 # 0 /\ (n + 1) - 1 = n
  BY <1>1
<1>3. g[n + 1] = Book(g[n], txs[n + 1])
  BY <1>2 DEF IsReplay, IsRun
<1> QED BY <1>2, <1>3, TransactionFacts

(* What the snapshot after n transactions holds: unless more was sold than *)
(* bought before, what was bought less what was sold.                      *)
NeverOversold(n) == \A m \in 1 .. n : Traded("SELL", m) <= Traded("BUY", m)

Holds(s, n) ==
  /\ s \in Snapshots
  /\ s.ok <=> NeverOversold(n)
  /\ s.ok => /\ s.quantity = Traded("BUY", n) - Traded("SELL", n)
             /\ s.last_update = n

LEMMA HoldsStep ==
  ASSUME Numbered, NEW g, IsReplay(g), NEW n \in Nat, n < Len(txs), Holds(g[n], n)
  PROVE  Holds(g[n + 1], n + 1)
<1> DEFINE s == g[n]
           tx == txs[n + 1]
           bought == Traded("BUY", n)
           sold == Traded("SELL", n)
<1>1. /\ Amounts(tx) /\ tx.type \in {"BUY", "SELL"} /\ tx.date = n + 1
      /\ g[n + 1] = Book(s, tx)
  BY ReplayStep
<1>2. /\ bought \in Nat /\ sold \in Nat /\ tx.quantity \in Nat
      /\ tx.type = "BUY" => Traded("BUY", n + 1) = bought + tx.quantity /\ Traded("SELL", n + 1) = sold
      /\ tx.type = "SELL" => Traded("BUY", n + 1) = bought /\ Traded("SELL", n + 1) = sold + tx.quantity
  BY <1>1, TradedStep DEF Amounts
<1>3. NeverOversold(n + 1) <=> NeverOversold(n) /\ Traded("SELL", n + 1) <= Traded("BUY", n + 1)
  <2>1. \A m : m \in 1 .. n + 1 <=> m \in 1 .. n \/ m = n + 1
    OBVIOUS
  <2> QED BY <2>1 DEF NeverOversold
<1>4. s \in Snapshots /\ s.quantity \in Nat
  BY DEF Holds, Snapshots
<1>5. g[n + 1] \in Snapshots
  BY <1>1, <1>4, BookType
<1> HIDE DEF s, tx, bought, sold
<1>6. CASE ~s.ok
  BY <1>1, <1>3, <1>5, <1>6, BookRefused DEF Holds, s
<1>7. CASE s.ok /\ tx.type = "BUY"
  <2>1. g[n + 1].ok /\ g[n + 1].quantity = s.quantity + tx.quantity /\ g[n + 1].last_update = n + 1
    BY <1>1, <1>4, <1>7, BookBuys
  <2>2. s.quantity = bought - sold /\ NeverOversold(n)
    BY <1>7 DEF Holds, s, bought, sold
  <2> QED BY <1>2, <1>3, <1>4, <1>5, <1>7, <2>1, <2>2 DEF Holds
<1>8. CASE s.ok /\ tx.type = "SELL"
  <2>1. /\ g[n + 1].ok <=> tx.quantity <= s.quantity
        /\ g[n + 1].ok => g[n + 1].quantity = s.quantity - tx.quantity /\ g[n + 1].last_update = n + 1
    BY <1>1, <1>4, <1>8, BookSells
  <2>2. s.quantity = bought - sold /\ NeverOversold(n)
    BY <1>8 DEF Holds, s, bought, sold
  <2> QED BY <1>2, <1>3, <1>4, <1>5, <1>8, <2>1, <2>2 DEF Holds
<1> QED BY <1>1, <1>6, <1>7, <1>8

LEMMA HoldsAt ==
  ASSUME Numbered, NEW g, IsReplay(g), NEW n \in 0 .. Len(txs)
  PROVE  Holds(g[n], n)
<1> DEFINE S == {m \in Nat : m <= Len(txs) => Holds(g[m], m)}
<1>1. Len(txs) \in Nat
  BY DEF Numbered
<1>2. 0 \in S
  <2>1. g[0] = Flat
    BY <1>1 DEF IsReplay, IsRun
  <2>2. NeverOversold(0)
    BY DEF NeverOversold
  <2>3. Flat \in Snapshots /\ Flat.ok /\ Flat.quantity = 0 /\ Flat.last_update = 0
    BY DEF Flat, Snapshots
  <2>4. Traded("BUY", 0) = 0 /\ Traded("SELL", 0) = 0
    BY TradedStart
  <2>5. Holds(g[0], 0)
    BY <2>1, <2>2, <2>3, <2>4 DEF Holds
  <2> QED BY <2>5
<1>3. ASSUME NEW m \in Nat, m \in S
      PROVE  m + 1 \in S
  BY <1>1, <1>3, HoldsStep
<1>4. Nat \subseteq S
  <2> HIDE DEF S
  <2> QED BY <1>2, <1>3, NatSetInduction
<1> QED BY <1>1, <1>4

LEMMA ReplayOfTxs ==
  ASSUME Numbered
  PROVE  \E g : IsReplay(g) /\ Replay(txs) = g[Len(txs)]
<1>1. Len(txs) \in Nat
  BY DEF Numbered
<1> QED BY <1>1, ReplayIsRun DEF IsReplay

LEMMA HoldingIsNet ==
  ASSUME Numbered
  PROVE  HoldingIsNetFlow
<1>1. PICK g : IsReplay(g) /\ Replay(txs) = g[Len(txs)]
  BY ReplayOfTxs
<1>2. Holds(g[Len(txs)], Len(txs))
  <2>1. Len(txs) \in 0 .. Len(txs)
    BY DEF Numbered
  <2> QED BY <1>1, <2>1, HoldsAt
<1> QED BY <1>1, <1>2, BoughtSold DEF HoldingIsNetFlow, Holds, NeverOversold


-----------------------------------------------------------------------------
LEMMA TimesMonotone ==
  ASSUME NEW a \in Nat, NEW b \in Nat, NEW x \in Nat, a <= b
  PROVE  a * x <= b * x
OBVIOUS

LEMMA TimesCancels ==
  ASSUME NEW a \in Nat, NEW b \in Nat, NEW x \in Nat \ {0}, a * x <= b * x
  PROVE  a <= b
OBVIOUS

(* An average cost c / u against a unit cost r / p, and what q units for s *)
(* make of the average of Q units.                                         *)
AtLeast(c, u, r, p) == c * p >= r * u

AtMost(c, u, r, p) == c * p <= r * u

Mixed(c2, u2, c, u, Q, s, q) ==
  /\ c \in Nat /\ u \in Nat \ {0} /\ Q \in Nat /\ q \in Nat \ {0} /\ s \in Nat
  /\ c2 = Q * c + s * u /\ u2 = u * (Q + q)

LEMMA MixedProducts ==
  ASSUME NEW c, NEW u, NEW Q, NEW q, NEW s, NEW c2, NEW u2, Mixed(c2, u2, c, u, Q, s, q),
         NEW p \in Nat \ {0}, NEW r \in Nat
  PROVE  /\ c2 * p = (c * p) * Q + (s * p) * u
         /\ r * u2 = (r * u) * Q + (r * q) * u
         /\ c2 * q = (c * q) * Q + (s * q) * u
         /\ s * u2 = (s * u) * Q + (s * q) * u
         /\ (c * p) * q = (c * q) * p
         /\ (r * u) * q = (r * q) * u
         /\ (s * u) * p = (s * p) * u
         /\ {c * p, r * u, c * q, s * u, s * p, r * q, s * q} \subseteq Nat
         /\ {(s * p) * u, (r * q) * u, (s * q) * u, (c * p) * Q, (r * u) * Q, (c * q) * Q, (s * u) * Q}
               \subseteq Nat
BY DEF Mixed

(* A purchase moves the average towards its own unit cost: a unit cost     *)
(* that was no higher than the average stays no higher, unless the one of  *)
(* the purchase is lower still; and the same upside down.                  *)
LEMMA AverageFalls ==
  ASSUME NEW c, NEW u, NEW Q, NEW q, NEW s, NEW c2, NEW u2, Mixed(c2, u2, c, u, Q, s, q),
         NEW p \in Nat \ {0}, NEW r \in Nat, AtLeast(c, u, r, p)
  PROVE  AtLeast(c2, u2, r, p) \/ AtLeast(c2, u2, s, q)
<1>1. /\ Q \in Nat /\ u \in Nat \ {0} /\ q \in Nat \ {0} /\ p \in Nat
      /\ c * p \in Nat /\ r * u \in Nat /\ c * q \in Nat /\ s * u \in Nat
  BY DEF Mixed
<1>2. r * u <= c * p
  BY MixedProducts DEF AtLeast
<1>3. CASE s * u <= c * q
  <2>1. (s * u) * Q <= (c * q) * Q
    BY <1>1, <1>3, TimesMonotone
  <2>2. s * u2 <= c2 * q
    BY <2>1, MixedProducts
  <2> QED BY <2>2, MixedProducts DEF AtLeast
<1>4. CASE c * q <= s * u
  <2>1. /\ (r * u) * q <= (c * p) * q /\ (r * u) * Q <= (c * p) * Q
        /\ (c * q) * p <= (s * u) * p
    BY <1>1, <1>2, <1>4, TimesMonotone
  <2>2. r * u2 <= c2 * p
    BY <2>1, MixedProducts
  <2> QED BY <2>2, MixedProducts DEF AtLeast
<1> QED BY <1>3, <1>4, MixedProducts

LEMMA AverageRises ==
  ASSUME NEW c, NEW u, NEW Q, NEW q, NEW s, NEW c2, NEW u2, Mixed(c2, u2, c, u, Q, s, q),
         NEW p \in Nat \ {0}, NEW r \in Nat, AtMost(c, u, r, p)
  PROVE  AtMost(c2, u2, r, p) \/ AtMost(c2, u2, s, q)
<1>1. /\ Q \in Nat /\ u \in Nat \ {0} /\ q \in Nat \ {0} /\ p \in Nat
      /\ c * p \in Nat /\ r * u \in Nat /\ c * q \in Nat /\ s * u \in Nat
  BY DEF Mixed
<1>2. c * p <= r * u
  BY DEF AtMost
<1>3. CASE c * q <= s * u
  <2>1. (c * q) * Q <= (s * u) * Q
    BY <1>1, <1>3, TimesMonotone
  <2>2. c2 * q <= s * u2
    BY <2>1, MixedProducts
  <2> QED BY <2>2 DEF AtMost
<1>4. CASE s * u <= c * q
  <2>1. /\ (c * p) * q <= (r * u) * q /\ (c * p) * Q <= (r * u) * Q
        /\ (s * u) * p <= (c * q) * p
    BY <1>1, <1>2, <1>4, TimesMonotone
  <2>2. c2 * p <= r * u2
    BY <2>1, MixedProducts
  <2> QED BY <2>2 DEF AtMost
<1> QED BY <1>3, <1>4, MixedProducts

-----------------------------------------------------------------------------
Spending(k) == txs[k].quantity * txs[k].price + txs[k].fees

OpenSince(last, n) == {k \in Of("BUY", n) : k > last}

(* The average of a snapshot lies between two unit costs of purchases      *)
(* since the holding was last empty.                                       *)
Within(s, last, n) ==
  /\ \E k \in OpenSince(last, n) : AtLeast(s.cost, s.units, Spending(k), txs[k].quantity)
  /\ \E k \in OpenSince(last, n) : AtMost(s.cost, s.units, Spending(k), txs[k].quantity)

LEMMA SpendingType ==
  ASSUME NEW k, Amounts(txs[k])
  PROVE  Spending(k) \in Nat /\ txs[k].quantity \in Nat \ {0}
BY DEF Amounts, Spending

LEMMA WithinAfterBuy ==
  ASSUME Numbered, NEW last \in Nat, NEW n \in Nat, n < Len(txs), last <= n,
         NEW s \in Snapshots, s.ok, txs[n + 1].type = "BUY", Amounts(txs[n + 1]),
         s.quantity = 0 \/ Within(s, last, n)
  PROVE  Within(Book(s, txs[n + 1]), last, n + 1)
<1> DEFINE tx == txs[n + 1]
           t == Book(s, tx)
           spent == Spending(n + 1)
           q == tx.quantity
<1>1. Mixed(t.cost, t.units, s.cost, s.units, s.quantity, spent, q)
  <2>1. spent \in Nat /\ q \in Nat \ {0}
    BY SpendingType
  <2>2. s.quantity \in Nat /\ s.cost \in Nat /\ s.units \in Nat \ {0}
    BY DEF Snapshots
  <2> QED BY <2>1, <2>2, BookBuys DEF Spending, Mixed
<1>2. spent \in Nat /\ q \in Nat \ {0}
  BY SpendingType
<1>3. s.units \in Nat \ {0} /\ t.cost \in Nat
  BY BookType DEF Snapshots
<1>4. n + 1 \in OpenSince(last, n + 1) /\ OpenSince(last, n) \subseteq OpenSince(last, n + 1)
  BY DEF OpenSince, Of
<1>5. CASE s.quantity = 0
  <2> HIDE DEF t, spent, q
  <2>1. t.cost = spent * s.units /\ t.units = s.units * q
    BY <1>1, <1>2, <1>3, <1>5 DEF Mixed
  <2>2. t.cost * q = spent * t.units
    BY <1>2, <1>3, <2>1
  <2>3. t.cost * q \in Nat
    BY <1>2, <1>3
  <2>4. AtLeast(t.cost, t.units, spent, q) /\ AtMost(t.cost, t.units, spent, q)
    BY <2>2, <2>3 DEF AtLeast, AtMost
  <2> QED BY <1>4, <2>4 DEF Within, t, spent, q, tx
<1>6. CASE Within(s, last, n)
  <2>1. \A k \in OpenSince(last, n) : txs[k].quantity \in Nat \ {0} /\ Spending(k) \in Nat
    <3> TAKE k \in OpenSince(last, n)
    <3>1. k \in 1 .. Len(txs)
      BY DEF OpenSince, Of, Numbered
    <3> QED BY <3>1, TransactionFacts, SpendingType
  <2> HIDE DEF t, spent, q
  <2>2. PICK k \in OpenSince(last, n) : AtLeast(s.cost, s.units, Spending(k), txs[k].quantity)
    BY <1>6 DEF Within
  <2>3. \/ AtLeast(t.cost, t.units, Spending(k), txs[k].quantity)
        \/ AtLeast(t.cost, t.units, spent, q)
    <3>1. txs[k].quantity \in Nat \ {0} /\ Spending(k) \in Nat
      BY <2>1
    <3> QED BY <1>1, <2>2, <3>1, AverageFalls
  <2>4. PICK j \in OpenSince(last, n) : AtMost(s.cost, s.units, Spending(j), txs[j].quantity)
    BY <1>6 DEF Within
  <2>5. \/ AtMost(t.cost, t.units, Spending(j), txs[j].quantity)
        \/ AtMost(t.cost, t.units, spent, q)
    <3>1. txs[j].quantity \in Nat \ {0} /\ Spending(j) \in Nat
      BY <2>1
    <3> QED BY <1>1, <2>4, <3>1, AverageRises
  <2> QED BY <1>4, <2>3, <2>5 DEF Within, t, spent, q, tx
<1> QED BY <1>5, <1>6

(* Sales at any price leave the average where it is.                       *)
LEMMA WithinAfterSell ==
  ASSUME NEW last, NEW n \in Nat, NEW s, NEW t, Within(s, last, n),
         t.cost = s.cost, t.units = s.units
  PROVE  Within(t, last, n + 1)
<1>1. OpenSince(last, n) \subseteq OpenSince(last, n + 1)
  BY DEF OpenSince, Of
<1> QED BY <1>1 DEF Within

LEMMA WithinSince ==
  ASSUME Numbered, NEW g, IsReplay(g),
         NEW last \in 0 .. Len(txs), Traded("BUY", last) = Traded("SELL", last),
         \A m \in last + 1 .. Len(txs) : Traded("BUY", m) # Traded("SELL", m),
         NEW n \in last + 1 .. Len(txs), g[n].ok
  PROVE  Within(g[n], last, n)
<1> DEFINE S == {m \in Nat : last < m /\ m <= Len(txs) /\ g[m].ok => Within(g[m], last, m)}
<1>1. Len(txs) \in Nat /\ last \in Nat
  BY DEF Numbered
<1>2. 0 \in S
  BY <1>1
<1>3. ASSUME NEW m \in Nat, m \in S
      PROVE  m + 1 \in S
  <2> SUFFICES ASSUME last < m + 1, m + 1 <= Len(txs), g[m + 1].ok
               PROVE  Within(g[m + 1], last, m + 1)
    OBVIOUS
  <2> DEFINE s == g[m]
             tx == txs[m + 1]
  <2>1. m < Len(txs) /\ last <= m /\ m \in 0 .. Len(txs)
    BY <1>1
  <2>2. /\ Amounts(tx) /\ tx.type \in {"BUY", "SELL"} /\ g[m + 1] = Book(s, tx)
    BY <2>1, ReplayStep
  <2>3. Holds(s, m)
    BY <2>1, HoldsAt
  <2>4. s \in Snapshots /\ s.ok /\ s.quantity = Traded("BUY", m) - Traded("SELL", m)
    <3> HIDE DEF s
    <3> QED BY <2>2, <2>3, BookRefused DEF Holds
  <2>5. s.quantity \in Nat /\ tx.quantity \in Nat \ {0}
    BY <2>2, <2>4 DEF Snapshots, Amounts
  <2>6. Traded("BUY", m) \in Nat /\ Traded("SELL", m) \in Nat
    BY <2>1, TradedStep
  <2>7. m = last => s.quantity = 0
    <3> HIDE DEF s
    <3> QED BY <2>4, <2>6
  <2>8. m # last => Within(s, last, m)
    BY <1>1, <1>3, <2>1, <2>4
  <2>9. CASE tx.type = "BUY"
    <3>1. s.quantity = 0 \/ Within(s, last, m)
      BY <2>7, <2>8
    <3> QED BY <1>1, <2>1, <2>2, <2>4, <2>9, <3>1, WithinAfterBuy
  <2>10. CASE tx.type = "SELL"
    <3>1. /\ tx.quantity <= s.quantity
          /\ g[m + 1].quantity = s.quantity - tx.quantity
          /\ s.quantity # tx.quantity => g[m + 1].cost = s.cost /\ g[m + 1].units = s.units
      BY <2>2, <2>4, <2>10, BookSells
    <3>2. m # last
      BY <2>5, <2>7, <3>1
    <3>3. g[m + 1].quantity # 0
      <4>1. Holds(g[m + 1], m + 1)
        <5>1. m + 1 \in 0 .. Len(txs)
          BY <1>1
        <5> QED BY <5>1, HoldsAt
      <4>2. m + 1 \in last + 1 .. Len(txs)
        BY <1>1, <2>1
      <4>3. Traded("BUY", m + 1) # Traded("SELL", m + 1)
        BY <4>2
      <4>4. Traded("BUY", m + 1) \in Nat /\ Traded("SELL", m + 1) \in Nat
        BY <2>1, <2>2, <2>5, <2>6, TradedStep
      <4> QED BY <4>1, <4>3, <4>4 DEF Holds
    <3>4. s.quantity # tx.quantity
      BY <2>5, <3>1, <3>3
    <3> QED BY <2>8, <3>1, <3>2, <3>4, WithinAfterSell
  <2> QED BY <2>2, <2>9, <2>10
<1>4. Nat \subseteq S
  <2> HIDE DEF S
  <2> QED BY <1>2, <1>3, NatSetInduction
<1> QED BY <1>1, <1>4

(* A bounded set of natural numbers has a greatest one.                    *)
LEMMA MaxExists ==
  ASSUME NEW N \in Nat, NEW T, T \subseteq 0 .. N, T # {}
  PROVE  Max(T) \in T /\ \A y \in T : Max(T) >= y
<1> DEFINE S == {n \in Nat : \A U : U \subseteq 0 .. n /\ U # {} => \E x \in U : \A y \in U : x >= y}
<1>1. 0 \in S
  OBVIOUS
<1>2. ASSUME NEW n \in Nat, n \in S
      PROVE  n + 1 \in S
  <2> SUFFICES ASSUME NEW U, U \subseteq 0 .. n + 1, U # {}
               PROVE  \E x \in U : \A y \in U : x >= y
    OBVIOUS
  <2>1. CASE n + 1 \in U
    BY <2>1
  <2>2. CASE n + 1 \notin U
    <3>1. U \subseteq 0 .. n
      BY <2>2
    <3> QED BY <1>2, <3>1
  <2> QED BY <2>1, <2>2
<1>3. Nat \subseteq S
  <2> HIDE DEF S
  <2> QED BY <1>1, <1>2, NatSetInduction
<1>4. \E x \in T : \A y \in T : x >= y
  BY <1>3
<1> QED BY <1>4 DEF Max

LEMMA AverageIsWithin ==
  ASSUME Numbered
  PROVE  AverageWithinOpenCosts
<1> DEFINE N == Len(txs)
           T == {n \in 0 .. N : Bought(n) = Sold(n)}
<1>1. PICK g : IsReplay(g) /\ Replay(txs) = g[N]
  BY ReplayOfTxs
<1>2. N \in Nat
  BY DEF Numbered
<1>3. LastFlat \in T /\ \A n \in T : LastFlat >= n
  <2>1. 0 \in T
    BY <1>2, TradedStart, BoughtSold
  <2>2. LastFlat = Max(T)
    BY DEF LastFlat
  <2>3. T \subseteq 0 .. N /\ T # {}
    BY <2>1
  <2> HIDE DEF T
  <2> QED BY <1>2, <2>2, <2>3, MaxExists
<1> SUFFICES ASSUME g[N].ok, g[N].quantity > 0
             PROVE  /\ \E k \in Open : g[N].cost * txs[k].quantity >= Spending(k) * g[N].units
                    /\ \E k \in Open : g[N].cost * txs[k].quantity <= Spending(k) * g[N].units
  BY <1>1 DEF AverageWithinOpenCosts, Spending
<1>4. /\ LastFlat \in 0 .. N /\ Traded("BUY", LastFlat) = Traded("SELL", LastFlat)
      /\ \A m \in LastFlat + 1 .. N : Traded("BUY", m) # Traded("SELL", m)
  <2>1. \A n \in 0 .. N : Traded("BUY", n) = Traded("SELL", n) <=> n \in T
    BY BoughtSold
  <2>2. \A m \in LastFlat + 1 .. N : m \in 0 .. N /\ m \notin T
    BY <1>2, <1>3
  <2> QED BY <1>3, <2>1, <2>2
<1>5. LastFlat # N
  <2>1. Holds(g[N], N)
    BY <1>1, <1>2, HoldsAt
  <2>2. CASE N = 0
    BY <2>1, <2>2, TradedStart DEF Holds
  <2>3. CASE N # 0
    <3>1. N - 1 \in Nat /\ N - 1 < N /\ (N - 1) + 1 = N
      BY <1>2, <2>3
    <3>2. Traded("BUY", N) \in Nat /\ Traded("SELL", N) \in Nat
      <4>1. N \in 1 .. N /\ txs[N].quantity \in Nat
        BY <1>2, <2>3, TransactionFacts DEF Amounts
      <4> DEFINE m == N - 1
      <4>2. m \in Nat /\ m < N /\ m + 1 = N
        BY <3>1
      <4> HIDE DEF m
      <4>3. /\ Traded("BUY", m) \in Nat /\ Traded("SELL", m) \in Nat
            /\ Traded("BUY", m + 1) \in {Traded("BUY", m), Traded("BUY", m) + txs[m + 1].quantity}
            /\ Traded("SELL", m + 1) \in {Traded("SELL", m), Traded("SELL", m) + txs[m + 1].quantity}
        BY <4>2, TradedStep
      <4> HIDE DEF N
      <4> QED BY <4>1, <4>2, <4>3
    <3> QED BY <1>4, <2>1, <3>2 DEF Holds
  <2> QED BY <2>2, <2>3
<1>6. N \in LastFlat + 1 .. N
  BY <1>2, <1>4, <1>5
<1>7. Within(g[N], LastFlat, N)
  BY <1>1, <1>4, <1>6, WithinSince
<1> QED BY <1>7 DEF Within, OpenSince, Open, AtLeast, AtMost


-----------------------------------------------------------------------------
(* Rounding to the nearest is off by half a unit at most.                  *)
LEMMA NearestIsNear ==
  ASSUME NEW n \in Nat, NEW d \in Nat \ {0}
  PROVE  /\ 2 * (Nearest(n, d) * d - n) <= d
         /\ 2 * (n - Nearest(n, d) * d) <= d
<1> DEFINE a == 2 * n + d
           b == 2 * d
           m == a \div b
<1>1. a \in Nat /\ b \in Nat \ {0}
  OBVIOUS
<1>2. m \in Nat /\ b * m <= a /\ a < b * m + b
  <2> HIDE DEF a, b
  <2> QED BY <1>1
<1>3. b * m = 2 * (m * d) /\ m * d \in Nat
  <2> HIDE DEF m
  <2> QED BY <1>2
<1> DEFINE md == m * d
<1>4. Nearest(n, d) * d = md
  BY DEF Nearest
<1> HIDE DEF m, md
<1>5. md \in Nat /\ 2 * md <= 2 * n + d /\ 2 * n + d < 2 * md + 2 * d
  BY <1>2, <1>3 DEF md
<1> QED BY <1>4, <1>5

(* A quantity with no more decimals than the column.                       *)
Fits(q) == \E k \in Nat : q = Grain * k

LEMMA FittingIsExact ==
  ASSUME NEW q, Fits(q)
  PROVE  StoredQuantity(q) = q
<1>1. PICK k \in Nat : q = Grain * k
  BY DEF Fits
<1> DEFINE a == 2 * q + Grain
           b == 2 * Grain
           m == a \div b
<1>2. a \in Nat /\ b \in Nat \ {0} /\ a = b * k + Grain /\ 0 < Grain /\ Grain < b
  BY <1>1, ScaleAssumption
<1>3. m = k
  <2> HIDE DEF a, b
  <2>1. m \in Nat /\ b * m <= a /\ a < b * m + b
    BY <1>2
  <2> HIDE DEF m
  <2>2. CASE m < k
    <3>1. m + 1 <= k /\ m + 1 \in Nat
      BY <2>1, <2>2
    <3>2. (m + 1) * b <= k * b
      BY <1>2, <3>1, TimesMonotone
    <3> QED BY <1>2, <2>1, <3>2, ScaleAssumption
  <2>3. CASE m > k
    <3>1. k + 1 <= m /\ k + 1 \in Nat
      BY <2>1, <2>3
    <3>2. (k + 1) * b <= m * b
      BY <1>2, <2>1, <3>1, TimesMonotone
    <3> QED BY <1>2, <2>1, <3>2, ScaleAssumption
  <2> QED BY <2>1, <2>2, <2>3
<1>4. Nearest(q, Grain) = m
  BY DEF Nearest
<1> QED BY <1>1, <1>3, <1>4 DEF StoredQuantity

LEMMA FittingAdds ==
  ASSUME NEW a, NEW b, Fits(a), Fits(b)
  PROVE  /\ Fits(a + b)
         /\ b <= a => Fits(a - b)
<1>1. PICK j \in Nat : a = Grain * j
  BY DEF Fits
<1>2. PICK k \in Nat : b = Grain * k
  BY DEF Fits
<1>3. a + b = Grain * (j + k) /\ j + k \in Nat
  BY <1>1, <1>2, ScaleAssumption
<1>4. ASSUME b <= a PROVE Fits(a - b)
  <2>1. k * Grain <= j * Grain
    BY <1>1, <1>2, <1>4, ScaleAssumption
  <2>2. k <= j
    BY <2>1, ScaleAssumption, TimesCancels
  <2>3. j - k \in Nat /\ a - b = Grain * (j - k)
    BY <1>1, <1>2, <2>2, ScaleAssumption
  <2> QED BY <2>3 DEF Fits
<1> QED BY <1>3, <1>4 DEF Fits

LEMMA HoldingFits ==
  ASSUME Numbered, NEW g, IsReplay(g), \A q \in Quantities : Fits(q),
         NEW n \in 0 .. Len(txs), g[n].ok
  PROVE  Fits(g[n].quantity)
<1> DEFINE S == {m \in Nat : m <= Len(txs) /\ g[m].ok => Fits(g[m].quantity)}
<1>1. Len(txs) \in Nat
  BY DEF Numbered
<1>2. 0 \in S
  <2>1. g[0] = Flat
    BY <1>1 DEF IsReplay, IsRun
  <2>2. Fits(0)
    BY ScaleAssumption DEF Fits
  <2> QED BY <2>1, <2>2 DEF Flat
<1>3. ASSUME NEW m \in Nat, m \in S
      PROVE  m + 1 \in S
  <2> SUFFICES ASSUME m + 1 <= Len(txs), g[m + 1].ok
               PROVE  Fits(g[m + 1].quantity)
    OBVIOUS
  <2> DEFINE s == g[m]
             tx == txs[m + 1]
  <2>1. m < Len(txs) /\ m \in 0 .. Len(txs)
    BY <1>1
  <2>2. /\ Amounts(tx) /\ tx.type \in {"BUY", "SELL"} /\ g[m + 1] = Book(s, tx)
        /\ m + 1 \in 1 .. Len(txs)
    BY <2>1, ReplayStep
  <2>3. s \in Snapshots
    BY <2>1, HoldsAt DEF Holds
  <2>4. s.ok
    <3> HIDE DEF s
    <3> QED BY <2>2, BookRefused
  <2>5. Fits(s.quantity)
    BY <1>3, <2>1, <2>4
  <2>6. Fits(tx.quantity)
    BY <2>2, TransactionFacts
  <2> HIDE DEF s, tx
  <2>7. CASE tx.type = "BUY"
    <3>1. g[m + 1].quantity = s.quantity + tx.quantity
      BY <2>2, <2>3, <2>4, <2>7, BookBuys
    <3> QED BY <2>5, <2>6, <3>1, FittingAdds
  <2>8. CASE tx.type = "SELL"
    <3>1. tx.quantity <= s.quantity /\ g[m + 1].quantity = s.quantity - tx.quantity
      BY <2>2, <2>3, <2>4, <2>8, BookSells
    <3> QED BY <2>5, <2>6, <3>1, FittingAdds
  <2> QED BY <2>2, <2>7, <2>8
<1>4. Nat \subseteq S
  <2> HIDE DEF S
  <2> QED BY <1>2, <1>3, NatSetInduction
<1> QED BY <1>1, <1>4

LEMMA StoredIsClose ==
  ASSUME Numbered, \A q \in Quantities : Fits(q)
  PROVE  StoredColumnsAreClose
<1> DEFINE N == Len(txs)
<1>1. PICK g : IsReplay(g) /\ Replay(txs) = g[N]
  BY ReplayOfTxs
<1> DEFINE s == g[N]
           c == Columns(s)
<1> SUFFICES ASSUME s.ok, s.quantity > 0
             PROVE  /\ 2 * (c.average_cost * s.units - s.cost * AvgScale) <= s.units
                    /\ 2 * (s.cost * AvgScale - c.average_cost * s.units) <= s.units
                    /\ c.quantity = s.quantity
                    /\ c.last_update = N
  BY <1>1 DEF StoredColumnsAreClose
<1>2. N \in 0 .. Len(txs)
  BY DEF Numbered
<1>3. s \in Snapshots /\ s.last_update = N
  BY <1>1, <1>2, HoldsAt DEF Holds
<1>4. Fits(s.quantity)
  BY <1>1, <1>2, HoldingFits
<1>5. s.cost * AvgScale \in Nat /\ s.units \in Nat \ {0}
  BY <1>3, ScaleAssumption DEF Snapshots
<1>6. /\ c.quantity = StoredQuantity(s.quantity)
      /\ c.average_cost = Nearest(s.cost * AvgScale, s.units)
      /\ c.last_update = s.last_update
  BY DEF Columns
<1> HIDE DEF s, c, N
<1> QED BY <1>3, <1>4, <1>5, <1>6, NearestIsNear, FittingIsExact


-----------------------------------------------------------------------------
(* Two snapshots with the same holding at the same average cost.           *)
Alike(s, t) ==
  /\ s \in Snapshots /\ t \in Snapshots /\ s.ok = t.ok
  /\ s.ok => s.quantity = t.quantity /\ s.cost * t.units = t.cost * s.units

LEMMA AlikeItself ==
  ASSUME NEW s \in Snapshots
  PROVE  Alike(s, s)
BY DEF Alike

LEMMA MixedAlike ==
  ASSUME NEW c, NEW u, NEW d, NEW v, NEW Q, NEW q, NEW s, NEW c2, NEW u2, NEW d2, NEW v2,
         Mixed(c2, u2, c, u, Q, s, q), Mixed(d2, v2, d, v, Q, s, q), c * v = d * u
  PROVE  c2 * v2 = d2 * u2
<1>1. /\ c \in Nat /\ u \in Nat /\ d \in Nat /\ v \in Nat /\ Q \in Nat /\ q \in Nat /\ s \in Nat
      /\ c2 = Q * c + s * u /\ u2 = u * (Q + q)
      /\ d2 = Q * d + s * v /\ v2 = v * (Q + q)
  BY DEF Mixed
<1>2. c2 * v2 = (Q * (Q + q)) * (c * v) + (s * (Q + q)) * (u * v)
  BY <1>1
<1>3. d2 * u2 = (Q * (Q + q)) * (d * u) + (s * (Q + q)) * (u * v)
  BY <1>1
<1> QED BY <1>2, <1>3

LEMMA BoughtMixed ==
  ASSUME NEW s \in Snapshots, s.ok, NEW tx, Amounts(tx), tx.type = "BUY"
  PROVE  /\ Book(s, tx) \in Snapshots /\ Book(s, tx).ok
         /\ Book(s, tx).quantity = s.quantity + tx.quantity
         /\ Mixed(Book(s, tx).cost, Book(s, tx).units, s.cost, s.units, s.quantity,
                  tx.quantity * tx.price + tx.fees, tx.quantity)
<1>1. /\ s.cost \in Nat /\ s.units \in Nat \ {0} /\ s.quantity \in Nat
      /\ tx.quantity \in Nat \ {0} /\ tx.quantity * tx.price + tx.fees \in Nat
  BY DEF Snapshots, Amounts
<1>2. Book(s, tx) \in Snapshots
  BY BookType
<1> QED BY <1>1, <1>2, BookBuys DEF Mixed

(* The same transaction keeps them alike.                                  *)
LEMMA AlikeStep ==
  ASSUME NEW s, NEW t, Alike(s, t), NEW tx, Amounts(tx), tx.type \in {"BUY", "SELL"}
  PROVE  Alike(Book(s, tx), Book(t, tx))
<1>1. /\ s \in Snapshots /\ t \in Snapshots /\ s.ok = t.ok
      /\ Book(s, tx) \in Snapshots /\ Book(t, tx) \in Snapshots
  BY BookType DEF Alike
<1>2. CASE ~s.ok
  <2>1. Book(s, tx) = s /\ Book(t, tx) = t
    BY <1>1, <1>2, BookRefused
  <2> QED BY <2>1
<1>3. CASE s.ok /\ tx.type = "BUY"
  <2>1. t.ok /\ s.quantity = t.quantity /\ s.cost * t.units = t.cost * s.units
    BY <1>1, <1>3 DEF Alike
  <2>2. /\ Book(s, tx).ok /\ Book(s, tx).quantity = s.quantity + tx.quantity
        /\ Mixed(Book(s, tx).cost, Book(s, tx).units, s.cost, s.units, s.quantity,
                 tx.quantity * tx.price + tx.fees, tx.quantity)
    BY <1>1, <1>3, BoughtMixed
  <2>3. /\ Book(t, tx).ok /\ Book(t, tx).quantity = s.quantity + tx.quantity
        /\ Mixed(Book(t, tx).cost, Book(t, tx).units, t.cost, t.units, s.quantity,
                 tx.quantity * tx.price + tx.fees, tx.quantity)
    BY <1>1, <1>3, <2>1, BoughtMixed
  <2>4. Book(s, tx).cost * Book(t, tx).units = Book(t, tx).cost * Book(s, tx).units
    BY <2>1, <2>2, <2>3, MixedAlike
  <2> QED BY <1>1, <2>2, <2>3, <2>4 DEF Alike
<1>4. CASE s.ok /\ tx.type = "SELL"
  <2>1. t.ok /\ s.quantity = t.quantity /\ s.cost * t.units = t.cost * s.units
    BY <1>1, <1>4 DEF Alike
  <2>2. CASE s.quantity # tx.quantity
    <3>1. /\ Book(s, tx).ok <=> tx.quantity <= s.quantity
          /\ Book(s, tx).ok => /\ Book(s, tx).quantity = s.quantity - tx.quantity
                               /\ Book(s, tx).cost = s.cost /\ Book(s, tx).units = s.units
      BY <1>1, <1>4, <2>2, BookSells
    <3>2. /\ Book(t, tx).ok <=> tx.quantity <= s.quantity
          /\ Book(t, tx).ok => /\ Book(t, tx).quantity = s.quantity - tx.quantity
                               /\ Book(t, tx).cost = t.cost /\ Book(t, tx).units = t.units
      BY <1>1, <1>4, <2>1, <2>2, BookSells
    <3>3. Book(s, tx).ok \in BOOLEAN /\ Book(t, tx).ok \in BOOLEAN
      BY <1>1 DEF Snapshots
    <3> HIDE DEF Amounts
    <3> QED BY <1>1, <2>1, <3>1, <3>2, <3>3 DEF Alike
  <2>3. CASE s.quantity = tx.quantity
    <3>1. Book(s, tx).ok /\ Book(s, tx).quantity = 0 /\ Book(s, tx).cost = 0 /\ Book(s, tx).units = 1
      BY <1>1, <1>4, <2>3, SoldOut
    <3>2. Book(t, tx).ok /\ Book(t, tx).quantity = 0 /\ Book(t, tx).cost = 0 /\ Book(t, tx).units = 1
      BY <1>1, <1>4, <2>1, <2>3, SoldOut
    <3> QED BY <1>1, <3>1, <3>2 DEF Alike
  <2> QED BY <2>2, <2>3
<1> QED BY <1>2, <1>3, <1>4

(* Two purchases, in either order.                                         *)
LEMMA MixedTwice ==
  ASSUME NEW c, NEW u, NEW Q, NEW a, NEW x, NEW b, NEW y,
         NEW c1, NEW u1, NEW c2, NEW u2, NEW d1, NEW v1, NEW d2, NEW v2,
         Mixed(c1, u1, c, u, Q, a, x), Mixed(c2, u2, c1, u1, Q + x, b, y),
         Mixed(d1, v1, c, u, Q, b, y), Mixed(d2, v2, d1, v1, Q + y, a, x)
  PROVE  c2 * v2 = d2 * u2
<1>1. /\ c \in Nat /\ u \in Nat /\ Q \in Nat /\ a \in Nat /\ x \in Nat /\ b \in Nat /\ y \in Nat
      /\ c2 = (Q + x) * (Q * c + a * u) + b * (u * (Q + x))
      /\ u2 = (u * (Q + x)) * ((Q + x) + y)
      /\ d2 = (Q + y) * (Q * c + b * u) + a * (u * (Q + y))
      /\ v2 = (u * (Q + y)) * ((Q + y) + x)
  BY DEF Mixed
<1> DEFINE w == Q * c + a * u + b * u
           z == (Q + x) * (Q + y) * (Q + x + y)
<1>2. c2 = (Q + x) * w /\ d2 = (Q + y) * w
  BY <1>1
<1>3. u2 = u * (Q + x) * (Q + x + y) /\ v2 = u * (Q + y) * (Q + x + y)
  BY <1>1
<1>4. w \in Nat
  BY <1>1
<1> HIDE DEF w
<1> QED BY <1>1, <1>2, <1>3, <1>4

LEMMA AlikeTwice ==
  ASSUME NEW s \in Snapshots, NEW a, Amounts(a), a.type = "BUY", NEW b, Amounts(b), b.type = "BUY"
  PROVE  Alike(Book(Book(s, a), b), Book(Book(s, b), a))
<1>1. CASE ~s.ok
  <2>1. Book(Book(s, a), b) = s /\ Book(Book(s, b), a) = s
    BY <1>1, BookRefused
  <2> QED BY <2>1, AlikeItself
<1>2. CASE s.ok
  <2> DEFINE s1 == Book(s, a)
             s2 == Book(s1, b)
             t1 == Book(s, b)
             t2 == Book(t1, a)
             spentA == a.quantity * a.price + a.fees
             spentB == b.quantity * b.price + b.fees
  <2>1. /\ s1 \in Snapshots /\ s1.ok /\ s1.quantity = s.quantity + a.quantity
        /\ Mixed(s1.cost, s1.units, s.cost, s.units, s.quantity, spentA, a.quantity)
    BY <1>2, BoughtMixed
  <2>2. /\ t1 \in Snapshots /\ t1.ok /\ t1.quantity = s.quantity + b.quantity
        /\ Mixed(t1.cost, t1.units, s.cost, s.units, s.quantity, spentB, b.quantity)
    BY <1>2, BoughtMixed
  <2> HIDE DEF s1, t1
  <2>3. /\ s2 \in Snapshots /\ s2.ok /\ s2.quantity = s.quantity + a.quantity + b.quantity
        /\ Mixed(s2.cost, s2.units, s1.cost, s1.units, s.quantity + a.quantity, spentB, b.quantity)
    BY <2>1, BoughtMixed
  <2>4. /\ t2 \in Snapshots /\ t2.ok /\ t2.quantity = s.quantity + b.quantity + a.quantity
        /\ Mixed(t2.cost, t2.units, t1.cost, t1.units, s.quantity + b.quantity, spentA, a.quantity)
    BY <2>2, BoughtMixed
  <2> HIDE DEF s2, t2, spentA, spentB
  <2>5. s2.cost * t2.units = t2.cost * s2.units
    BY <2>1, <2>2, <2>3, <2>4, MixedTwice
  <2>6. s.quantity \in Nat /\ a.quantity \in Nat /\ b.quantity \in Nat
    BY DEF Snapshots, Amounts
  <2>7. Alike(s2, t2)
    BY <2>3, <2>4, <2>5, <2>6 DEF Alike
  <2> QED BY <2>7 DEF s2, s1, t2, t1
<1> QED BY <1>1, <1>2


(* A sequence with its elements k and k + 1 the other way round.           *)
LEMMA SwappedFacts ==
  ASSUME NEW S, NEW rows \in Seq(S), NEW k \in 1 .. Len(rows) - 1
  PROVE  /\ Swapped(rows, k) \in Seq(S) /\ Len(Swapped(rows, k)) = Len(rows)
         /\ k \in 1 .. Len(rows) /\ k + 1 \in 1 .. Len(rows)
         /\ Swapped(rows, k)[k] = rows[k + 1] /\ Swapped(rows, k)[k + 1] = rows[k]
         /\ \A n \in 1 .. Len(rows) : n # k /\ n # k + 1 => Swapped(rows, k)[n] = rows[n]
<1>1. Len(rows) \in Nat /\ DOMAIN rows = 1 .. Len(rows)
  OBVIOUS
<1>2. k \in 1 .. Len(rows) /\ k + 1 \in 1 .. Len(rows) /\ k # k + 1
  BY <1>1
<1>3. Swapped(rows, k) \in [1 .. Len(rows) -> S]
  <2>1. rows \in [1 .. Len(rows) -> S]
    BY <1>1
  <2> QED BY <1>2, <2>1 DEF Swapped
<1>4. Swapped(rows, k) \in Seq(S) /\ Len(Swapped(rows, k)) = Len(rows)
  BY <1>1, <1>3
<1> QED BY <1>1, <1>2, <1>4 DEF Swapped

LEMMA SwappedIsAlike ==
  ASSUME Numbered, NEW k \in 1 .. Len(txs) - 1, txs[k].type = "BUY", txs[k + 1].type = "BUY"
  PROVE  Alike(Replay(txs), Replay(Swapped(txs, k)))
<1> DEFINE N == Len(txs)
           W == Swapped(txs, k)
<1>0. txs \in Seq(Transactions)
  BY DEF Numbered
<1>1. N \in Nat /\ Len(W) = N /\ k \in Nat /\ k # 0 /\ k + 1 <= N /\ k - 1 \in Nat
  BY <1>0, SwappedFacts
<1>2. PICK g : IsReplay(g) /\ Replay(txs) = g[N]
  BY ReplayOfTxs
<1>3. PICK h : IsRun(h, W, N) /\ Replay(W) = h[N]
  <2> HIDE DEF N, W
  <2> QED BY <1>1, ReplayIsRun
<1>4. \A n \in Nat : n < N => h[n + 1] = Book(h[n], W[n + 1])
  <2> SUFFICES ASSUME NEW n \in Nat, n < N
               PROVE  h[n + 1] = Book(h[n], W[n + 1])
    OBVIOUS
  <2> HIDE DEF N, W
  <2>1. n + 1 \in 0 .. N /\ n + 1 # 0 /\ (n + 1) - 1 = n
    BY <1>1
  <2> QED BY <1>3, <2>1 DEF IsRun
<1>5. g[0] = Flat /\ h[0] = Flat
  <2>1. 0 \in 0 .. N
    BY <1>1
  <2> HIDE DEF N, W
  <2> QED BY <1>2, <1>3, <2>1 DEF IsReplay, IsRun, N
<1>6. \A n \in Nat : n < N => /\ Amounts(txs[n + 1]) /\ txs[n + 1].type \in {"BUY", "SELL"}
                              /\ g[n + 1] = Book(g[n], txs[n + 1]) /\ g[n] \in Snapshots
  <2> SUFFICES ASSUME NEW n \in Nat, n < N
               PROVE  /\ Amounts(txs[n + 1]) /\ txs[n + 1].type \in {"BUY", "SELL"}
                      /\ g[n + 1] = Book(g[n], txs[n + 1]) /\ g[n] \in Snapshots
    OBVIOUS
  <2>1. n \in 0 .. N
    BY <1>1
  <2>2. g[n] \in Snapshots
    BY <1>2, <2>1, HoldsAt DEF Holds
  <2> QED BY <1>2, <2>2, ReplayStep
<1>7. /\ W[k] = txs[k + 1] /\ W[k + 1] = txs[k]
      /\ \A n \in Nat : n < N /\ n + 1 # k /\ n + 1 # k + 1 => W[n + 1] = txs[n + 1]
  <2>1. \A n \in Nat : n < N => n + 1 \in 1 .. N
    BY <1>1
  <2> QED BY <1>0, <2>1, SwappedFacts
<1> HIDE DEF N, W
<1>8. h[k - 1] = g[k - 1]
  <2> DEFINE S == {m \in Nat : m <= k - 1 => h[m] = g[m]}
  <2>1. 0 \in S
    BY <1>5
  <2>2. ASSUME NEW m \in Nat, m \in S
        PROVE  m + 1 \in S
    <3> SUFFICES ASSUME m + 1 <= k - 1
                 PROVE  h[m + 1] = g[m + 1]
      OBVIOUS
    <3>1. m < N /\ m <= k - 1 /\ m + 1 # k /\ m + 1 # k + 1
      BY <1>1
    <3>2. h[m] = g[m] /\ W[m + 1] = txs[m + 1]
      BY <1>7, <2>2, <3>1
    <3>3. h[m + 1] = Book(h[m], W[m + 1]) /\ g[m + 1] = Book(g[m], txs[m + 1])
      BY <1>4, <1>6, <3>1
    <3> QED BY <3>2, <3>3
  <2>3. Nat \subseteq S
    <3> HIDE DEF S
    <3> QED BY <2>1, <2>2, NatSetInduction
  <2> QED BY <1>1, <2>3
<1>9. Alike(g[k + 1], h[k + 1])
  <2>1. k - 1 < N /\ k < N /\ (k - 1) + 1 = k
    BY <1>1
  <2>2. /\ g[k] = Book(g[k - 1], txs[k]) /\ g[k + 1] = Book(g[k], txs[k + 1])
        /\ Amounts(txs[k]) /\ Amounts(txs[k + 1]) /\ g[k - 1] \in Snapshots
    BY <1>1, <1>6, <2>1
  <2>3. h[k] = Book(h[k - 1], W[k]) /\ h[k + 1] = Book(h[k], W[k + 1])
    BY <1>1, <1>4, <2>1
  <2>4. Alike(Book(Book(g[k - 1], txs[k]), txs[k + 1]), Book(Book(g[k - 1], txs[k + 1]), txs[k]))
    BY <2>2, AlikeTwice
  <2> QED BY <1>7, <1>8, <2>2, <2>3, <2>4
<1>10. Alike(g[N], h[N])
  <2> DEFINE S == {m \in Nat : k + 1 <= m /\ m <= N => Alike(g[m], h[m])}
  <2>1. 0 \in S
    BY <1>1
  <2>2. ASSUME NEW m \in Nat, m \in S
        PROVE  m + 1 \in S
    <3> SUFFICES ASSUME k + 1 <= m + 1, m + 1 <= N
                 PROVE  Alike(g[m + 1], h[m + 1])
      OBVIOUS
    <3>1. CASE m = k
      BY <1>9, <3>1
    <3>2. CASE m # k
      <4>1. m < N /\ k + 1 <= m /\ m + 1 # k /\ m + 1 # k + 1
        BY <1>1, <3>2
      <4>2. Alike(g[m], h[m]) /\ W[m + 1] = txs[m + 1]
        <5>1. Alike(g[m], h[m])
          BY <1>1, <2>2, <4>1
        <5>2. W[m + 1] = txs[m + 1]
          BY <1>7, <2>2, <4>1
        <5> QED BY <5>1, <5>2
      <4>3. /\ h[m + 1] = Book(h[m], W[m + 1]) /\ g[m + 1] = Book(g[m], txs[m + 1])
            /\ Amounts(txs[m + 1]) /\ txs[m + 1].type \in {"BUY", "SELL"}
        BY <1>4, <1>6, <4>1
      <4>4. Alike(Book(g[m], txs[m + 1]), Book(h[m], txs[m + 1]))
        BY <4>2, <4>3, AlikeStep
      <4> QED BY <4>2, <4>3, <4>4
    <3> QED BY <3>1, <3>2
  <2>3. Nat \subseteq S
    <3> HIDE DEF S
    <3> QED BY <2>1, <2>2, NatSetInduction
  <2> QED BY <1>1, <2>3
<1> QED BY <1>2, <1>3, <1>10 DEF W

LEMMA BuysCommute ==
  ASSUME Numbered
  PROVE  AdjacentBuysCommute
<1> SUFFICES ASSUME NEW k \in 1 .. Len(txs) - 1, txs[k].type = "BUY", txs[k + 1].type = "BUY"
             PROVE  LET s == Replay(txs)
                        t == Replay([txs EXCEPT ![k] = txs[k + 1], ![k + 1] = txs[k]])
                    IN  /\ s.ok = t.ok
                        /\ s.ok => s.quantity = t.quantity /\ s.cost * t.units = t.cost * s.units
  BY DEF AdjacentBuysCommute
<1>1. Alike(Replay(txs), Replay(Swapped(txs, k)))
  BY SwappedIsAlike
<1> QED BY <1>1 DEF Alike, Swapped

-----------------------------------------------------------------------------
LEMMA StartsNumbered ==
  ASSUME Init
  PROVE  Numbered
BY DEF Init, Numbered

LEMMA StaysNumbered ==
  ASSUME Numbered, [Next]_txs
  PROVE  Numbered'
<1>1. CASE Next
  <2>1. PICK type \in {"BUY", "SELL"}, q \in Quantities, p \in Prices, f \in Fees :
          txs' = Append(txs, [type |-> type, quantity |-> q, price |-> p, fees |-> f,
                              date |-> Len(txs) + 1])
    BY <1>1 DEF Next
  <2> DEFINE tx == [type |-> type, quantity |-> q, price |-> p, fees |-> f, date |-> Len(txs) + 1]
  <2>2. txs \in Seq(Transactions) /\ Len(txs) \in Nat
    BY DEF Numbered
  <2>3. tx \in Transactions /\ tx.date = Len(txs) + 1
    BY <2>2 DEF Transactions
  <2> HIDE DEF tx
  <2>4. txs' = Append(txs, tx)
    BY <2>1 DEF tx
  <2>5. /\ txs' \in Seq(Transactions) /\ Len(txs') = Len(txs) + 1
        /\ txs'[Len(txs) + 1] = tx /\ \A n \in 1 .. Len(txs) : txs'[n] = txs[n]
    BY <2>2, <2>3, <2>4
  <2>6. \A n \in 1 .. Len(txs) + 1 : n \in 1 .. Len(txs) \/ n = Len(txs) + 1
    BY <2>2
  <2>7. \A n \in 1 .. Len(txs') : txs'[n].date = n
    BY <2>3, <2>5, <2>6 DEF Numbered
  <2> QED BY <2>5, <2>7 DEF Numbered
<1>2. CASE UNCHANGED txs
  BY <1>2 DEF Numbered
<1> QED BY <1>1, <1>2

LEMMA AlwaysNumbered == Spec => []Numbered
BY StartsNumbered, StaysNumbered, PTL DEF Spec

(* A replay of a ledger of any length succeeds exactly when no prefix of   *)
(* it sells more than it bought, and then holds the difference             *)
(* (PositionCalculator.replay and its InsufficientQuantityError).          *)
THEOREM ReplayHoldsNet == Spec => []HoldingIsNetFlow
BY AlwaysNumbered, HoldingIsNet, PTL

(* The average cost of a ledger of any length lies between the cheapest    *)
(* and the dearest unit cost of the purchases since the holding was last   *)
(* empty: nothing of a settled holding leaks into the next one.            *)
THEOREM AverageStaysWithin == Spec => []AverageWithinOpenCosts
BY AlwaysNumbered, AverageIsWithin, PTL

(* Two purchases next to each other in a ledger of any length can be       *)
(* replayed in either order.                                               *)
THEOREM PurchasesCommute == Spec => []AdjacentBuysCommute
BY AlwaysNumbered, BuysCommute, PTL

(* When requests carry no more decimals than the column, the stored        *)
(* quantity is the exact holding and the stored average is the exact one   *)
(* to half a unit of its last place.                                       *)
THEOREM StoredIsExact ==
  ASSUME \A q \in Quantities : Fits(q)
  PROVE  Spec => []StoredColumnsAreClose
<1>1. Numbered => StoredColumnsAreClose
  BY StoredIsClose
<1> QED BY <1>1, AlwaysNumbered, PTL


-----------------------------------------------------------------------------
(* The scheduler's jobs, time by time.                                     *)
Jobs == MarketJobs \cup IngestJobs

Opens == [EU |-> 54, US |-> 93, ASIA |-> 12]
Closes == [EU |-> 105, US |-> 132, ASIA |-> 48]

LEMMA ClockTimes ==
  /\ Clock(0, 10) = 1 /\ Clock(0, 20) = 2 /\ Clock(2, 0) = 12
  /\ Clock(9, 0) = 54 /\ Clock(17, 30) = 105 /\ Clock(15, 30) = 93
  /\ Clock(22, 0) = 132 /\ Clock(8, 0) = 48
BY DEF Clock

LEMMA SessionTimes ==
  /\ DOMAIN MARKET_SESSIONS = {"EU", "US", "ASIA"}
  /\ \A m \in {"EU", "US", "ASIA"} :
       MARKET_SESSIONS[m].open_time = Opens[m] /\ MARKET_SESSIONS[m].close_time = Closes[m]
BY ClockTimes DEF MARKET_SESSIONS, Opens, Closes

LEMMA PeriodicTimes ==
  ASSUME NEW m \in {"EU", "US", "ASIA"}, NEW t
  PROVE  t \in Periodic(MARKET_SESSIONS[m]) <=>
           t \in Opens[m] + 2 .. Closes[m] /\ (t - Opens[m] - 2) % 12 = 0
BY SessionTimes, ClockTimes DEF Periodic

LEMMA EuropeanTimes == Periodic(MARKET_SESSIONS["EU"]) = {56, 68, 80, 92, 104}
<1>1. \A t : t \in Periodic(MARKET_SESSIONS["EU"]) <=>
             t \in 56 .. 105 /\ (t - 54 - 2) % 12 = 0
  BY PeriodicTimes DEF Opens, Closes
<1>2. \A t \in 56 .. 105 : (t - 54 - 2) % 12 = 0 <=> t \in {56, 68, 80, 92, 104}
  OBVIOUS
<1>3. \A t \in {56, 68, 80, 92, 104} : t \in 56 .. 105
  OBVIOUS
<1> QED BY <1>1, <1>2, <1>3

(* The news are read at 9:20, 11:20 and 17:30.                             *)
LEMMA IngestTimes ==
  ASSUME NEW j \in IngestJobs
  PROVE  \E t \in {56, 68, 105} : j = Job("EU", "INGEST", t)
<1> DEFINE P == Periodic(MARKET_SESSIONS["EU"])
           second == {t \in P : Cardinality({u \in P : u < t}) = 1}
<1>1. second = {68}
  <2>1. P = {56, 68, 80, 92, 104}
    BY EuropeanTimes
  <2> HIDE DEF P
  <2>2. 68 \in second
    <3>1. {u \in P : u < 68} = {56}
      BY <2>1
    <3>2. Cardinality({56}) = 1
      BY FS_Singleton
    <3> QED BY <2>1, <3>1, <3>2
  <2>3. 56 \notin second
    <3>1. {u \in P : u < 56} = {}
      BY <2>1
    <3> QED BY <3>1, FS_EmptySet
  <2>4. ASSUME NEW t \in {80, 92, 104}
        PROVE  t \notin second
    <3> DEFINE before == {u \in P : u < t}
    <3>1. 56 \in before /\ 68 \in before
      BY <2>1
    <3>2. IsFiniteSet(before)
      <4>1. IsFiniteSet({56, 68, 80, 92, 104})
        <5>1. PICK a \in Int, b \in Int : a = 56 /\ b = 104
          OBVIOUS
        <5>2. IsFiniteSet(a .. b)
          BY FS_Interval
        <5>3. {56, 68, 80, 92, 104} \subseteq a .. b
          BY <5>1
        <5> QED BY <5>2, <5>3, FS_Subset
      <4> QED BY <2>1, <4>1, FS_Subset
    <3>3. Cardinality(before) # 1
      <4> HIDE DEF before
      <4> SUFFICES ASSUME Cardinality(before) = 1
                   PROVE  FALSE
        OBVIOUS
      <4>1. PICK x : before = {x}
        BY <3>2, FS_Singleton
      <4> QED BY <3>1, <4>1
    <3> QED BY <3>3
  <2> QED BY <2>1, <2>2, <2>3, <2>4
<1>2. MARKET_SESSIONS["EU"].open_time + Clock(0, 20) = 56 /\ MARKET_SESSIONS["EU"].close_time = 105
  BY SessionTimes, ClockTimes DEF Opens, Closes
<1>3. IngestJobs = {Job("EU", "INGEST", t) :
                      t \in {MARKET_SESSIONS["EU"].open_time + Clock(0, 20), MARKET_SESSIONS["EU"].close_time}
                            \cup (IF second # {} THEN second ELSE P)}
  BY DEF IngestJobs
<1> HIDE DEF second, P
<1> QED BY <1>1, <1>2, <1>3

LEMMA MarketTimes ==
  ASSUME NEW j \in MarketJobs
  PROVE  \E m \in {"EU", "US", "ASIA"} :
           \/ j = Job(m, "PRE_OPEN", Opens[m] - 1)
           \/ j = Job(m, "POST_OPEN", Opens[m] + 2)
           \/ j = Job(m, "CLOSE", Closes[m])
           \/ \E t \in Opens[m] + 2 .. Closes[m] :
                (t - Opens[m] - 2) % 12 = 0 /\ j = Job(m, "PERIODIC", t)
<1>1. PICK m \in DOMAIN MARKET_SESSIONS :
        j \in LET session == MARKET_SESSIONS[m]
              IN  {Job(m, "PRE_OPEN", session.open_time - Clock(0, 10)),
                   Job(m, "POST_OPEN", session.open_time + Clock(0, 20)),
                   Job(m, "CLOSE", session.close_time)}
                  \cup {Job(m, "PERIODIC", t) : t \in Periodic(session)}
  BY DEF MarketJobs
<1>2. m \in {"EU", "US", "ASIA"}
  BY SessionTimes
<1>3. \/ j = Job(m, "PRE_OPEN", Opens[m] - 1)
      \/ j = Job(m, "POST_OPEN", Opens[m] + 2)
      \/ j = Job(m, "CLOSE", Closes[m])
      \/ \E t \in Periodic(MARKET_SESSIONS[m]) : j = Job(m, "PERIODIC", t)
  BY <1>1, <1>2, SessionTimes, ClockTimes
<1> QED BY <1>2, <1>3, PeriodicTimes

(* A time of the day at which a job may be due.                            *)
LEMMA JobTimes ==
  ASSUME NEW j \in Jobs
  PROVE  j.time \in 11 .. 143
<1>1. CASE j \in IngestJobs
  BY <1>1, IngestTimes DEF Job
<1>2. CASE j \in MarketJobs
  <2>1. PICK m \in {"EU", "US", "ASIA"} : j.time \in Opens[m] - 1 .. Closes[m]
    <3>1. \A m \in {"EU", "US", "ASIA"} :
            /\ Opens[m] \in Int /\ Closes[m] \in Int /\ Opens[m] + 2 <= Closes[m]
            /\ Opens[m] - 1 \in Opens[m] - 1 .. Closes[m] /\ Opens[m] + 2 \in Opens[m] - 1 .. Closes[m]
            /\ Closes[m] \in Opens[m] - 1 .. Closes[m]
            /\ \A t \in Opens[m] + 2 .. Closes[m] : t \in Opens[m] - 1 .. Closes[m]
      BY DEF Opens, Closes
    <3> QED BY <1>2, <3>1, MarketTimes DEF Job
  <2> QED BY <2>1 DEF Opens, Closes
<1> QED BY <1>1, <1>2 DEF Jobs

(* Two jobs of one market and one phase are two hours apart, and both      *)
(* fall after two in the morning.                                          *)
LEMMA JobsApart ==
  ASSUME NEW j \in Jobs, NEW k \in Jobs, j.market = k.market, j.phase = k.phase, j # k
  PROVE  /\ j.time >= 12 /\ k.time >= 12
         /\ j.time - k.time >= 12 \/ k.time - j.time >= 12
<1>1. CASE j \in IngestJobs
  <2>1. PICK t \in {56, 68, 105} : j = Job("EU", "INGEST", t)
    BY <1>1, IngestTimes
  <2>2. k \in IngestJobs
    <3> SUFFICES ASSUME k \in MarketJobs
                 PROVE  FALSE
      BY DEF Jobs
    <3>1. k.phase \in {"PRE_OPEN", "POST_OPEN", "CLOSE", "PERIODIC"}
      BY MarketTimes DEF Job
    <3> QED BY <2>1, <3>1 DEF Job
  <2>3. PICK u \in {56, 68, 105} : k = Job("EU", "INGEST", u)
    BY <2>2, IngestTimes
  <2>4. j.time = t /\ k.time = u /\ t # u
    BY <2>1, <2>3 DEF Job
  <2> QED BY <2>4
<1>2. CASE j \in MarketJobs
  <2>1. k \in MarketJobs
    <3> SUFFICES ASSUME k \in IngestJobs
                 PROVE  FALSE
      BY DEF Jobs
    <3>1. j.phase \in {"PRE_OPEN", "POST_OPEN", "CLOSE", "PERIODIC"}
      BY <1>2, MarketTimes DEF Job
    <3>2. k.phase = "INGEST"
      BY IngestTimes DEF Job
    <3> QED BY <3>1, <3>2
  <2>2. PICK m \in {"EU", "US", "ASIA"} :
           \/ j = Job(m, "PRE_OPEN", Opens[m] - 1)
           \/ j = Job(m, "POST_OPEN", Opens[m] + 2)
           \/ j = Job(m, "CLOSE", Closes[m])
           \/ \E t \in Opens[m] + 2 .. Closes[m] :
                (t - Opens[m] - 2) % 12 = 0 /\ j = Job(m, "PERIODIC", t)
    BY <1>2, MarketTimes
  <2>3. PICK n \in {"EU", "US", "ASIA"} :
           \/ k = Job(n, "PRE_OPEN", Opens[n] - 1)
           \/ k = Job(n, "POST_OPEN", Opens[n] + 2)
           \/ k = Job(n, "CLOSE", Closes[n])
           \/ \E t \in Opens[n] + 2 .. Closes[n] :
                (t - Opens[n] - 2) % 12 = 0 /\ k = Job(n, "PERIODIC", t)
    BY <2>1, MarketTimes
  <2>4. m = n
    BY <2>2, <2>3 DEF Job
  <2>5. PICK t \in Opens[m] + 2 .. Closes[m] :
          (t - Opens[m] - 2) % 12 = 0 /\ j = Job(m, "PERIODIC", t)
    BY <2>2, <2>3, <2>4 DEF Job
  <2>6. PICK u \in Opens[m] + 2 .. Closes[m] :
          (u - Opens[m] - 2) % 12 = 0 /\ k = Job(m, "PERIODIC", u)
    BY <2>3, <2>4, <2>5 DEF Job
  <2>7. j.time = t /\ k.time = u /\ t # u
    BY <2>5, <2>6 DEF Job
  <2>8. Opens[m] \in 12 .. 93 /\ Closes[m] \in Int
    BY DEF Opens, Closes
  <2> QED BY <2>5, <2>6, <2>7, <2>8
<1> QED BY <1>1, <1>2 DEF Jobs


-----------------------------------------------------------------------------
(* A run of day d: its thread is that day's, and when the day is today its *)
(* job has come up and does so no more.                                    *)
IsRunOf(r, d) ==
  /\ r.job \in Jobs
  /\ r = [job |-> r.job, thread |-> <<r.job.market, r.job.phase, ThreadDay(d, r.job.time)>>]

PastToday(r) == r.job.time <= now /\ r.job \notin due

(* The scheduler's inductive invariant.                                    *)
ScheduleInv ==
  /\ offset \in Offsets /\ day \in Nat /\ now \in 0 .. Midnight - 1
  /\ due \subseteq DueAt(day, now)
  /\ \A r \in running : \E d \in Nat :
       d <= day /\ IsRunOf(r, d) /\ (d = day => PastToday(r))

LEMMA DueNow ==
  ASSUME NEW d, NEW t, NEW j \in DueAt(d, t)
  PROVE  j \in Jobs /\ j.time = t
BY DEF DueAt, Jobs

LEMMA ScheduleStarts ==
  ASSUME ScheduleInit
  PROVE  ScheduleInv
BY DEF ScheduleInit, ScheduleInv, Midnight

LEMMA SameThreadDay ==
  ASSUME UNCHANGED offset, NEW r, NEW d
  PROVE  IsRunOf(r, d)' <=> IsRunOf(r, d)
BY DEF IsRunOf, ThreadDay, Jobs, MarketJobs, IngestJobs

LEMMA TickKeeps ==
  ASSUME ScheduleInv, Tick
  PROVE  ScheduleInv'
<1>1. /\ day \in Nat /\ now \in 0 .. 143 /\ UNCHANGED <<offset, running>>
      /\ due' = DueAt(day', now')
      /\ now' = (now + 1) % 144
      /\ day' = IF now + 1 = 144 THEN day + 1 ELSE day
  BY DEF Tick, ScheduleInv, Midnight
<1>2. \/ day' = day /\ now' = now + 1 /\ now' \in 0 .. 143
      \/ day' = day + 1 /\ now' = 0
  BY <1>1
<1>3. /\ offset' \in Offsets /\ day' \in Nat /\ now' \in 0 .. Midnight - 1
      /\ due' \subseteq DueAt(day, now)'
  <2>1. offset \in Offsets
    BY DEF ScheduleInv
  <2>2. DueAt(day, now)' = DueAt(day', now')
    BY DEF DueAt, MarketJobs, IngestJobs
  <2> QED BY <1>1, <1>2, <2>1, <2>2 DEF Midnight
<1>4. ASSUME NEW r \in running
      PROVE  \E d \in Nat : d <= day' /\ IsRunOf(r, d)' /\ (d = day' => PastToday(r)')
  <2>1. PICK d \in Nat : d <= day /\ IsRunOf(r, d) /\ (d = day => PastToday(r))
    BY DEF ScheduleInv
  <2>2. d <= day' /\ IsRunOf(r, d)'
    BY <1>1, <1>2, <2>1, SameThreadDay
  <2>3. ASSUME d = day'
        PROVE  PastToday(r)'
    <3>1. day' = day /\ now' = now + 1
      BY <1>1, <1>2, <2>1, <2>3
    <3>2. r.job.time <= now /\ r.job.time \in Int
      BY <2>1, <2>3, <3>1, JobTimes DEF PastToday, IsRunOf
    <3>3. \A j \in due' : j.time = now + 1
      BY <1>1, <3>1, DueNow
    <3>4. r.job.time <= now' /\ r.job \notin due'
      BY <1>1, <3>1, <3>2, <3>3
    <3> QED BY <3>4 DEF PastToday
  <2> QED BY <2>2, <2>3
<1> QED BY <1>1, <1>3, <1>4 DEF ScheduleInv

(* A step other than a tick: fewer jobs are due, and no new run but what   *)
(* one of them starts.                                                     *)
LEMMA NoTickKeeps ==
  ASSUME ScheduleInv, UNCHANGED <<day, now, offset>>, due' \subseteq due,
         \A r \in running' : r \in running \/ \E d \in Nat : d = day /\ IsRunOf(r, d) /\ PastToday(r)'
  PROVE  ScheduleInv'
<1>1. /\ offset' \in Offsets /\ day' \in Nat /\ now' \in 0 .. Midnight - 1
      /\ due' \subseteq DueAt(day, now)'
  <2>1. DueAt(day, now)' = DueAt(day, now)
    BY DEF DueAt, MarketJobs, IngestJobs
  <2> QED BY <2>1 DEF ScheduleInv, Midnight
<1>2. ASSUME NEW r \in running'
      PROVE  \E d \in Nat : d <= day' /\ IsRunOf(r, d)' /\ (d = day' => PastToday(r)')
  <2>1. CASE r \in running
    <3>1. PICK d \in Nat : d <= day /\ IsRunOf(r, d) /\ (d = day => PastToday(r))
      BY <2>1 DEF ScheduleInv
    <3>2. d = day' => PastToday(r)'
      BY <3>1 DEF PastToday
    <3> QED BY <3>1, <3>2, SameThreadDay
  <2>2. CASE \E d \in Nat : d = day /\ IsRunOf(r, d) /\ PastToday(r)'
    <3>1. PICK d \in Nat : d = day /\ IsRunOf(r, d) /\ PastToday(r)'
      BY <2>2
    <3> QED BY <3>1, SameThreadDay
  <2> QED BY <1>2, <2>1, <2>2
<1> QED BY <1>1, <1>2 DEF ScheduleInv

LEMMA FiresKeeps ==
  ASSUME ScheduleInv, NEW j, Fires(j)
  PROVE  ScheduleInv'
<1>1. PICK new : new = [job |-> j, thread |-> <<j.market, j.phase, ThreadDay(day, now)>>]
  OBVIOUS
<1>2. /\ j \in due /\ due' = due \ {j} /\ UNCHANGED <<day, now, offset>>
      /\ running' = running \cup {new}
  BY <1>1 DEF Fires
<1>3. j \in Jobs /\ j.time = now
  BY <1>2, DueNow DEF ScheduleInv
<1>4. PICK d \in Nat : d = day
  BY DEF ScheduleInv
<1>5. IsRunOf(new, d)
  BY <1>1, <1>3, <1>4 DEF IsRunOf
<1>6. now \in Int
  BY DEF ScheduleInv, Midnight
<1>7. PastToday(new)'
  BY <1>1, <1>2, <1>3, <1>6 DEF PastToday
<1>8. \A r \in running' : r \in running \/ \E e \in Nat : e = day /\ IsRunOf(r, e) /\ PastToday(r)'
  BY <1>2, <1>4, <1>5, <1>7
<1> QED BY <1>2, <1>8, NoTickKeeps

(* Starting a run never joins it to one that is running: what runs can be  *)
(* kept as a set.                                                          *)
LEMMA FiresAnother ==
  ASSUME ScheduleInv, NEW j, Fires(j)
  PROVE  [job |-> j, thread |-> <<j.market, j.phase, ThreadDay(day, now)>>] \notin running
<1> DEFINE new == [job |-> j, thread |-> <<j.market, j.phase, ThreadDay(day, now)>>]
<1> SUFFICES ASSUME new \in running
             PROVE  FALSE
  OBVIOUS
<1>1. PICK d \in Nat : d <= day /\ IsRunOf(new, d) /\ (d = day => PastToday(new))
  BY DEF ScheduleInv
<1>2. j \in due /\ j.time = now
  BY DueNow DEF ScheduleInv, Fires
<1>3. new.thread = <<j.market, j.phase, ThreadDay(d, now)>>
  BY <1>1, <1>2 DEF IsRunOf
<1>4. ThreadDay(d, now) = ThreadDay(day, now)
  BY <1>3
<1>5. d = day
  BY <1>4 DEF ThreadDay, ScheduleInv
<1> QED BY <1>1, <1>2, <1>5 DEF PastToday

LEMMA ScheduleSteps ==
  ASSUME ScheduleInv, [ScheduleNext]_scheduleVars
  PROVE  ScheduleInv'
<1>1. CASE Tick
  BY <1>1, TickKeeps
<1>2. CASE Restarts
  <2>1. UNCHANGED <<day, now, offset>> /\ due' \subseteq due /\ running' = {}
    BY <1>2 DEF Restarts
  <2> QED BY <2>1, NoTickKeeps
<1>3. ASSUME NEW j \in due, Fires(j)
      PROVE  ScheduleInv'
  BY <1>3, FiresKeeps
<1>4. ASSUME NEW j \in due, Misses(j)
      PROVE  ScheduleInv'
  <2>1. UNCHANGED <<day, now, offset>> /\ due' \subseteq due /\ running' = running
    BY <1>4 DEF Misses
  <2> QED BY <2>1, NoTickKeeps
<1>5. ASSUME NEW r \in running, RunEnds(r)
      PROVE  ScheduleInv'
  <2>1. UNCHANGED <<day, now, offset>> /\ due' \subseteq due /\ running' \subseteq running
    BY <1>5 DEF RunEnds
  <2> QED BY <2>1, NoTickKeeps
<1>6. CASE UNCHANGED scheduleVars
  <2>1. UNCHANGED <<day, now, offset>> /\ due' \subseteq due /\ running' = running
    BY <1>6 DEF scheduleVars
  <2> QED BY <2>1, NoTickKeeps
<1> QED BY <1>1, <1>2, <1>3, <1>4, <1>5, <1>6 DEF ScheduleNext

LEMMA RunsTwoHoursApart ==
  ASSUME ScheduleInv
  PROVE  TwoHoursApart
<1> SUFFICES ASSUME NEW r \in running, NEW s \in running, r # s, r.thread = s.thread
             PROVE  r.job.time - s.job.time >= 12 \/ s.job.time - r.job.time >= 12
  BY ClockTimes DEF TwoHoursApart
<1>1. PICK d \in Nat : IsRunOf(r, d)
  BY DEF ScheduleInv
<1>2. PICK e \in Nat : IsRunOf(s, e)
  BY DEF ScheduleInv
<1>3. r.job \in Jobs /\ s.job \in Jobs
  BY <1>1, <1>2 DEF IsRunOf
<1>4. r.thread = <<r.job.market, r.job.phase, ThreadDay(d, r.job.time)>>
  BY <1>1 DEF IsRunOf
<1>5. s.thread = <<s.job.market, s.job.phase, ThreadDay(e, s.job.time)>>
  BY <1>2 DEF IsRunOf
<1>6. r = [job |-> r.job, thread |-> r.thread] /\ s = [job |-> s.job, thread |-> s.thread]
  BY <1>1, <1>2, <1>4, <1>5 DEF IsRunOf
<1>7. r.job # s.job
  BY <1>6
<1>8. r.job.market = s.job.market /\ r.job.phase = s.job.phase
  <2>1. \A a, b, c, x, y, z : <<a, b, c>> = <<x, y, z>> => a = x /\ b = y
    OBVIOUS
  <2>2. <<r.job.market, r.job.phase, ThreadDay(d, r.job.time)>>
          = <<s.job.market, s.job.phase, ThreadDay(e, s.job.time)>>
    BY <1>4, <1>5
  <2> QED BY <2>1, <2>2
<1> QED BY <1>3, <1>7, <1>8, JobsApart

LEMMA ThreadsOfOneDay ==
  ASSUME ScheduleInv
  PROVE  ThreadsAreDays
<1> SUFFICES ASSUME NEW j \in MarketJobs, NEW k \in MarketJobs, j.market = k.market, j.phase = k.phase
             PROVE  ThreadDay(day, j.time) = ThreadDay(day, k.time)
  BY DEF ThreadsAreDays
<1>1. CASE j = k
  BY <1>1
<1>2. CASE j # k
  <2>1. j.time >= 12 /\ k.time >= 12
    BY <1>2, JobsApart DEF Jobs
  <2>2. j.time \in Int /\ k.time \in Int
    BY JobTimes DEF Jobs
  <2>3. offset \in 0 .. 12
    BY ScheduleAssumption, ClockTimes DEF ScheduleInv
  <2> QED BY <2>1, <2>2, <2>3 DEF ThreadDay
<1> QED BY <1>1, <1>2

(* However long a run lasts and for any number of days, two runs of one    *)
(* thread were due two hours apart or more, and a thread holds one day of  *)
(* one market's phase (the cron jobs of scheduler.py and the thread ids of *)
(* event_handler.py).                                                      *)
THEOREM RunsKeepApart == ScheduleSpec => []ThreadsKeepApart
<1>1. ScheduleInit => ScheduleInv
  BY ScheduleStarts
<1>2. ScheduleInv /\ [ScheduleNext]_scheduleVars => ScheduleInv'
  BY ScheduleSteps
<1>3. ScheduleInv => ThreadsKeepApart
  BY RunsTwoHoursApart, ThreadsOfOneDay DEF ThreadsKeepApart
<1> QED BY <1>1, <1>2, <1>3, PTL DEF ScheduleSpec


-----------------------------------------------------------------------------
(* The choice of a symbol.                                                 *)
LEMMA PickTheBest ==
  ASSUME NEW rows, NEW places, NEW k \in places, Best(rows, places) = {k}
  PROVE  PickLookupRow(rows, places) = rows[k].symbol
<1> DEFINE c == CHOOSE m \in places : Best(rows, places) = {m}
<1>1. c \in places /\ Best(rows, places) = {c}
  OBVIOUS
<1>2. c = k
  BY <1>1
<1> HIDE DEF c
<1>3. PickLookupRow(rows, places) = rows[c].symbol
  BY DEF PickLookupRow, c
<1> QED BY <1>2, <1>3

LEMMA PoolIsPart ==
  ASSUME NEW rows, NEW places
  PROVE  Best(rows, places) \subseteq Pool(rows, places) /\ Pool(rows, places) \subseteq places
BY DEF Best, Pool

(* The same rows at other places.                                          *)
Moves(p, rows, A, other, B, D) ==
  /\ A \subseteq D /\ B \subseteq D
  /\ \A i \in D : p[i] \in D /\ p[p[i]] = i
  /\ \A i \in D : other[p[i]] = rows[i]
  /\ \A i \in D : i \in A <=> p[i] \in B

LEMMA MovedBack ==
  ASSUME NEW p, NEW rows, NEW A, NEW other, NEW B, NEW D, Moves(p, rows, A, other, B, D)
  PROVE  Moves(p, other, B, rows, A, D)
BY DEF Moves

LEMMA MovedPool ==
  ASSUME NEW p, NEW rows, NEW A, NEW other, NEW B, NEW D, Moves(p, rows, A, other, B, D)
  PROVE  Moves(p, rows, Pool(rows, A), other, Pool(other, B), D)
<1>1. \A i \in A : rows[i].preferred <=> other[p[i]].preferred
  BY DEF Moves
<1>2. (\E i \in A : rows[i].preferred) <=> (\E i \in B : other[i].preferred)
  BY DEF Moves
<1> QED BY <1>1, <1>2, PoolIsPart DEF Moves, Pool

LEMMA MovedBest ==
  ASSUME NEW p, NEW rows, NEW A, NEW other, NEW B, NEW D, Moves(p, rows, A, other, B, D)
  PROVE  Moves(p, rows, Best(rows, A), other, Best(other, B), D)
<1> DEFINE P == Pool(rows, A)
           R == Pool(other, B)
           Worse(i, j) == Before(CandidateRank(rows[j]), CandidateRank(rows[i]))
           Worse2(i, j) == Before(CandidateRank(other[j]), CandidateRank(other[i]))
<1>1. Moves(p, rows, P, other, R, D)
  BY MovedPool
<1>2. /\ Best(rows, A) = {i \in P : \A j \in P : ~Worse(i, j)}
      /\ Best(other, B) = {i \in R : \A j \in R : ~Worse2(i, j)}
  BY DEF Best
<1>3. \A i \in D : \A j \in D : Worse(i, j) <=> Worse2(p[i], p[j])
  BY <1>1 DEF Moves
<1> HIDE DEF P, R, Worse, Worse2
<1>4. P \subseteq D /\ R \subseteq D
  BY <1>1 DEF Moves
<1>5. ASSUME NEW i \in D
      PROVE  i \in Best(rows, A) <=> p[i] \in Best(other, B)
  <2>1. i \in P <=> p[i] \in R
    BY <1>1 DEF Moves
  <2>2. (\A j \in P : ~Worse(i, j)) <=> (\A j \in R : ~Worse2(p[i], j))
    <3>1. ASSUME \A j \in P : ~Worse(i, j), NEW j \in R
          PROVE  ~Worse2(p[i], j)
      <4>1. p[j] \in P /\ p[j] \in D /\ p[p[j]] = j
        BY <1>1, <1>4 DEF Moves
      <4> QED BY <1>3, <3>1, <4>1
    <3>2. ASSUME \A j \in R : ~Worse2(p[i], j), NEW j \in P
          PROVE  ~Worse(i, j)
      <4>1. p[j] \in R /\ j \in D
        BY <1>1, <1>4 DEF Moves
      <4> QED BY <1>3, <3>2, <4>1
    <3> QED BY <3>1, <3>2
  <2> QED BY <1>2, <2>1, <2>2
<1>6. Best(rows, A) \subseteq D /\ Best(other, B) \subseteq D
  BY <1>2, <1>4
<1> QED BY <1>1, <1>5, <1>6 DEF Moves

LEMMA PickMoved ==
  ASSUME NEW p, NEW rows, NEW A, NEW other, NEW B, NEW D, Moves(p, rows, A, other, B, D)
  PROVE  PickLookupRow(other, B) = PickLookupRow(rows, A)
<1>1. Moves(p, rows, Best(rows, A), other, Best(other, B), D)
  BY MovedBest
<1>2. CASE \E k \in A : Best(rows, A) = {k}
  <2>1. PICK k \in A : Best(rows, A) = {k}
    BY <1>2
  <2>2. p[k] \in B /\ other[p[k]] = rows[k]
    BY DEF Moves
  <2>3. Best(other, B) = {p[k]}
    BY <1>1, <2>1 DEF Moves
  <2> QED BY <2>1, <2>2, <2>3, PickTheBest
<1>3. CASE ~ \E k \in A : Best(rows, A) = {k}
  <2>1. ~ \E k \in B : Best(other, B) = {k}
    <3> SUFFICES ASSUME NEW k \in B, Best(other, B) = {k}
                 PROVE  FALSE
      OBVIOUS
    <3>1. p[k] \in A
      BY DEF Moves
    <3>2. Best(rows, A) = {p[k]}
      BY <1>1 DEF Moves
    <3> QED BY <1>3, <3>1, <3>2
  <2> QED BY <1>3, <2>1 DEF PickLookupRow
<1> QED BY <1>2, <1>3

LEMMA SwappedHit ==
  ASSUME NEW S, NEW rows \in Seq(S), NEW k \in 1 .. Len(rows) - 1, NEW t
  PROVE  LookupHit(Swapped(rows, k), t) = LookupHit(rows, t)
<1> DEFINE D == DOMAIN rows
           other == Swapped(rows, k)
           p == [i \in D |-> IF i = k THEN k + 1 ELSE IF i = k + 1 THEN k ELSE i]
           A == FilterByIndexType(rows, t)
           B == FilterByIndexType(other, t)
<1>1. /\ other \in Seq(S) /\ Len(other) = Len(rows) /\ k \in D /\ k + 1 \in D /\ k # k + 1
      /\ other[k] = rows[k + 1] /\ other[k + 1] = rows[k]
      /\ \A n \in D : n # k /\ n # k + 1 => other[n] = rows[n]
  <2>1. D = 1 .. Len(rows)
    OBVIOUS
  <2> HIDE DEF D
  <2> QED BY <2>1, SwappedFacts
<1>2. DOMAIN other = D
  BY <1>1
<1>3. /\ \A i \in D : p[i] \in D /\ p[p[i]] = i
      /\ \A i \in D : other[p[i]] = rows[i]
  <2> HIDE DEF D, other
  <2> QED BY <1>1
<1>4. A \subseteq D /\ B \subseteq D
  BY <1>2 DEF FilterByIndexType
<1>5. \A i \in D : i \in A <=> p[i] \in B
  <2> HIDE DEF p, other
  <2> QED BY <1>2, <1>3 DEF FilterByIndexType
<1> HIDE DEF D, other, p, A, B
<1>6. Moves(p, rows, A, other, B, D)
  BY <1>3, <1>4, <1>5 DEF Moves
<1>7. PickLookupRow(other, B) = PickLookupRow(rows, A)
  BY <1>6, PickMoved
<1> QED BY <1>7 DEF LookupHit, other, A, B

-----------------------------------------------------------------------------
(* Ranks compare like words of four letters, so that no listing is before  *)
(* itself and what is before one is before all that follow it.             *)
LEMMA FourthFromTheLeft ==
  ASSUME NEW a1, NEW a2, NEW a3, NEW a4, NEW b1, NEW b2, NEW b3, NEW b4
  PROVE  Before(<<a1, a2, a3, a4>>, <<b1, b2, b3, b4>>) <=>
           \/ a1 < b1
           \/ a1 = b1 /\ a2 < b2
           \/ a1 = b1 /\ a2 = b2 /\ a3 < b3
           \/ a1 = b1 /\ a2 = b2 /\ a3 = b3 /\ a4 < b4
<1> DEFINE a == <<a1, a2, a3, a4>>
           b == <<b1, b2, b3, b4>>
           At(k) == a[k] < b[k] /\ \A n \in 1 .. k - 1 : a[n] = b[n]
<1>1. Before(a, b) <=> \E k \in 1 .. 4 : At(k)
  <2>1. Len(a) = 4
    OBVIOUS
  <2> HIDE DEF a, b
  <2> QED BY <2>1 DEF Before
<1>2. /\ a[1] = a1 /\ a[2] = a2 /\ a[3] = a3 /\ a[4] = a4
      /\ b[1] = b1 /\ b[2] = b2 /\ b[3] = b3 /\ b[4] = b4
  OBVIOUS
<1> HIDE DEF a, b
<1>3. /\ At(1) <=> a[1] < b[1]
      /\ At(2) <=> a[2] < b[2] /\ a[1] = b[1]
      /\ At(3) <=> a[3] < b[3] /\ a[1] = b[1] /\ a[2] = b[2]
      /\ At(4) <=> a[4] < b[4] /\ a[1] = b[1] /\ a[2] = b[2] /\ a[3] = b[3]
  <2>1. 1 .. 1 - 1 = {} /\ 1 .. 2 - 1 = {1} /\ 1 .. 3 - 1 = {1, 2} /\ 1 .. 4 - 1 = {1, 2, 3}
    OBVIOUS
  <2> QED BY <2>1
<1>4. (\E k \in 1 .. 4 : At(k)) <=> At(1) \/ At(2) \/ At(3) \/ At(4)
  <2>1. 1 .. 4 = {1, 2, 3, 4}
    OBVIOUS
  <2> HIDE DEF At
  <2> QED BY <2>1
<1> HIDE DEF At
<1>5. Before(a, b) <=>
           \/ a1 < b1
           \/ a1 = b1 /\ a2 < b2
           \/ a1 = b1 /\ a2 = b2 /\ a3 < b3
           \/ a1 = b1 /\ a2 = b2 /\ a3 = b3 /\ a4 < b4
  BY <1>1, <1>2, <1>3, <1>4
<1> QED BY <1>5 DEF a, b

(* The listing s has a better rank than r. *)
Better(s, r) == Before(CandidateRank(s), CandidateRank(r))

LEMMA BetterIsOrder ==
  /\ \A r \in Listings : ~Better(r, r)
  /\ \A r, s, t \in Listings : Better(r, s) /\ Better(s, t) => Better(r, t)
<1> DEFINE p(r) == IF r.preferred THEN 0 ELSE 1
           i(r) == IF r.isin_style THEN 1 ELSE 0
<1>1. \A r \in Listings : p(r) \in Int /\ i(r) \in Int /\ r.exchange \in Int /\ r.length \in Int
  BY LookupAssumption
<1>2. \A r, s \in Listings : Better(r, s) <=>
           \/ p(r) < p(s)
           \/ p(r) = p(s) /\ r.exchange < s.exchange
           \/ p(r) = p(s) /\ r.exchange = s.exchange /\ i(r) < i(s)
           \/ p(r) = p(s) /\ r.exchange = s.exchange /\ i(r) = i(s) /\ r.length < s.length
  <2> SUFFICES ASSUME NEW r \in Listings, NEW s \in Listings
               PROVE  Better(r, s) <=>
                        \/ p(r) < p(s)
                        \/ p(r) = p(s) /\ r.exchange < s.exchange
                        \/ p(r) = p(s) /\ r.exchange = s.exchange /\ i(r) < i(s)
                        \/ p(r) = p(s) /\ r.exchange = s.exchange /\ i(r) = i(s) /\ r.length < s.length
    OBVIOUS
  <2>1. /\ CandidateRank(r) = <<p(r), r.exchange, i(r), r.length>>
        /\ CandidateRank(s) = <<p(s), s.exchange, i(s), s.length>>
    BY DEF CandidateRank
  <2> HIDE DEF p, i
  <2> QED BY <2>1, FourthFromTheLeft DEF Better
<1> HIDE DEF p, i
<1>3. ASSUME NEW r \in Listings
      PROVE  ~Better(r, r)
  BY <1>1, <1>2
<1>4. ASSUME NEW r \in Listings, NEW s \in Listings, NEW t \in Listings, Better(r, s), Better(s, t)
      PROVE  Better(r, t)
  BY <1>1, <1>2, <1>4
<1> QED BY <1>3, <1>4

(* The same best rows leave the same symbol.                               *)
LEMMA PickAlike ==
  ASSUME NEW rows, NEW A, NEW other, NEW B, Best(other, B) = Best(rows, A),
         \A k \in Best(rows, A) : other[k] = rows[k]
  PROVE  PickLookupRow(other, B) = PickLookupRow(rows, A)
<1>1. Best(rows, A) \subseteq A /\ Best(rows, A) \subseteq B
  BY PoolIsPart
<1>2. CASE \E k \in A : Best(rows, A) = {k}
  <2>1. PICK k \in A : Best(rows, A) = {k}
    BY <1>2
  <2>2. k \in B /\ Best(other, B) = {k} /\ other[k] = rows[k]
    BY <1>1, <2>1
  <2> QED BY <2>1, <2>2, PickTheBest
<1>3. CASE ~ \E k \in A : Best(rows, A) = {k}
  <2>1. ~ \E k \in B : Best(other, B) = {k}
    BY <1>1, <1>3
  <2> QED BY <1>3, <2>1 DEF PickLookupRow
<1> QED BY <1>2, <1>3

(* What one more row, at place n, does to the pool.                        *)
LEMMA PoolGrows ==
  ASSUME NEW rows, NEW A, NEW more, NEW n, n \notin A, \A k \in A : more[k] = rows[k]
  PROVE  /\ Pool(more, A) = Pool(rows, A)
         /\ Pool(more, A \cup {n}) \in {Pool(rows, A), Pool(rows, A) \cup {n}, {n}}
<1> DEFINE preferred == {k \in A : rows[k].preferred}
<1>1. {k \in A : more[k].preferred} = preferred
  OBVIOUS
<1>2. /\ more[n].preferred => {k \in A \cup {n} : more[k].preferred} = preferred \cup {n}
      /\ ~more[n].preferred => {k \in A \cup {n} : more[k].preferred} = preferred
  OBVIOUS
<1>3. Pool(rows, A) = IF preferred # {} THEN preferred ELSE A
  BY DEF Pool
<1>4. Pool(more, A) = IF preferred # {} THEN preferred ELSE A
  BY <1>1 DEF Pool
<1>5. CASE more[n].preferred
  <2>1. Pool(more, A \cup {n}) = preferred \cup {n}
    BY <1>2, <1>5 DEF Pool
  <2> HIDE DEF preferred
  <2> QED BY <1>3, <1>4, <2>1
<1>6. CASE ~more[n].preferred
  <2>1. Pool(more, A \cup {n}) = IF preferred # {} THEN preferred ELSE A \cup {n}
    BY <1>2, <1>6 DEF Pool
  <2> HIDE DEF preferred
  <2> QED BY <1>3, <1>4, <2>1
<1> QED BY <1>5, <1>6

(* A row that is not among the best leaves them what they were.            *)
LEMMA BestStay ==
  ASSUME NEW rows \in Seq(Listings), NEW A, A \subseteq DOMAIN rows,
         NEW more, NEW n, n \notin A, more[n] \in Listings,
         \A k \in A : more[k] = rows[k],
         n \notin Best(more, A \cup {n})
  PROVE  Best(more, A \cup {n}) = Best(rows, A)
<1> DEFINE P == Pool(rows, A)
           R == Pool(more, A \cup {n})
<1>1. R \in {P, P \cup {n}, {n}}
  BY PoolGrows
<1>2. P \subseteq A /\ n \notin P
  BY PoolIsPart
<1>3. \A k \in P : more[k] = rows[k] /\ rows[k] \in Listings
  BY <1>2
<1>4. /\ Best(more, A \cup {n}) = {k \in R : \A m \in R : ~Better(more[m], more[k])}
      /\ Best(rows, A) = {k \in P : \A m \in P : ~Better(rows[m], rows[k])}
  BY DEF Best, Better
<1> HIDE DEF P, R
<1>5. CASE R = P
  BY <1>3, <1>4, <1>5
<1>6. CASE n \in R
  <2>1. PICK m \in R : Better(more[m], more[n])
    BY <1>4, <1>6
  <2>2. m # n
    BY <2>1, BetterIsOrder
  <2>3. m \in P /\ R = P \cup {n}
    BY <1>1, <1>2, <1>6, <2>2
  <2>4. ASSUME NEW k \in P, \A j \in P : ~Better(rows[j], rows[k])
        PROVE  ~Better(more[n], more[k])
    BY <1>3, <2>1, <2>3, <2>4, BetterIsOrder
  <2> QED BY <1>2, <1>3, <1>4, <2>3, <2>4
<1> QED BY <1>1, <1>5, <1>6

(* Whether a row suits the type does not depend on its place.              *)
LEMMA SuitsAnywhere ==
  ASSUME NEW rows, NEW other, NEW t
  PROVE  /\ FilterByIndexType(rows, t) \subseteq DOMAIN rows
         /\ \A k \in DOMAIN rows : \A m \in DOMAIN other :
              other[m] = rows[k] => (k \in FilterByIndexType(rows, t) <=> m \in FilterByIndexType(other, t))
BY DEF FilterByIndexType

(* One more row wins, or leaves the best ones tied, or changes nothing.    *)
LEMMA OneMoreRow ==
  ASSUME NEW rows \in Seq(Listings), NEW r \in Listings, NEW t, ~Tied(Append(rows, r), t)
  PROVE  LookupHit(Append(rows, r), t) \in {LookupHit(rows, t), r.symbol}
<1> DEFINE more == Append(rows, r)
           n == Len(rows) + 1
           A == FilterByIndexType(rows, t)
           B == FilterByIndexType(more, t)
<1>1. /\ DOMAIN rows = 1 .. Len(rows) /\ DOMAIN more = 1 .. n /\ n \notin DOMAIN rows
      /\ more[n] = r /\ \A k \in DOMAIN rows : more[k] = rows[k]
  OBVIOUS
<1>2. DOMAIN more = DOMAIN rows \cup {n}
  <2> HIDE DEF more
  <2> QED BY <1>1
<1>3. ~ \E k, m \in Best(more, B) : k # m
  BY DEF Tied
<1>4. LookupHit(more, t) = PickLookupRow(more, B) /\ LookupHit(rows, t) = PickLookupRow(rows, A)
  BY DEF LookupHit
<1>5. A \subseteq DOMAIN rows /\ B \subseteq DOMAIN more
  BY SuitsAnywhere
<1>6. \A k \in DOMAIN rows : k \in A <=> k \in B
  <2> HIDE DEF more
  <2> QED BY <1>1, <1>2, SuitsAnywhere
<1> HIDE DEF more, n, A, B
<1>7. n \notin A /\ (B = A \/ B = A \cup {n})
  BY <1>1, <1>2, <1>5, <1>6
<1>8. \A k \in A : more[k] = rows[k]
  BY <1>1, <1>5
<1>9. Best(rows, A) \subseteq A
  BY PoolIsPart
<1>10. \A k \in Best(rows, A) : more[k] = rows[k]
  BY <1>8, <1>9
<1>11. Best(more, B) = Best(rows, A) => PickLookupRow(more, B) = PickLookupRow(rows, A)
  BY <1>10, PickAlike
<1>12. CASE B = A
  <2>1. Pool(more, A) = Pool(rows, A)
    BY <1>7, <1>8, PoolGrows
  <2>2. Pool(rows, A) \subseteq A
    BY PoolIsPart
  <2>3. \A k \in Pool(rows, A) : more[k] = rows[k]
    BY <1>8, <2>2
  <2>4. Best(more, A) = Best(rows, A)
    BY <2>1, <2>3 DEF Best
  <2> QED BY <1>4, <1>11, <1>12, <2>4 DEF more
<1>13. CASE B = A \cup {n} /\ n \in Best(more, B)
  <2>1. Best(more, B) = {n} /\ n \in B
    BY <1>3, <1>13
  <2>2. PickLookupRow(more, B) = more[n].symbol
    BY <2>1, PickTheBest
  <2> QED BY <1>1, <1>4, <2>2 DEF more
<1>14. CASE B = A \cup {n} /\ n \notin Best(more, B)
  <2>1. n \notin Best(more, A \cup {n}) /\ more[n] \in Listings
    BY <1>1, <1>14
  <2>2. Best(more, A \cup {n}) = Best(rows, A)
    BY <1>5, <1>7, <1>8, <2>1, BestStay
  <2> QED BY <1>4, <1>11, <1>14, <2>2 DEF more
<1> QED BY <1>7, <1>12, <1>13, <1>14

LEMMA NoHit ==
  ASSUME NEW rows, NEW t
  PROVE  /\ Tied(rows, t) => LookupHit(rows, t) = Absent
         /\ LookupHit(<<>>, t) = Absent
<1>1. FilterByIndexType(<<>>, t) = {}
  BY DEF FilterByIndexType
<1> QED BY <1>1 DEF Tied, LookupHit, PickLookupRow

-----------------------------------------------------------------------------
(* Calls and answers at any time of a lookup.                              *)
LookupInv == call \in Calls /\ lookup \in [Queries -> Seq(Listings)]

LEMMA IdentityFields ==
  ASSUME NEW c \in Calls
  PROVE  /\ Identity(c).yahoo_symbol = Clean(c.yahoo_symbol)
         /\ Identity(c).isin \in Queries \cup {Absent}
<1> DEFINE cleaned == [c EXCEPT !.yahoo_symbol = Clean(@), !.isin = Clean(@)]
           priority == <<"yahoo_symbol", "index_id", "isin">>
           Kept(f) == \E n \in 1 .. 3 : /\ f = priority[n]
                                        /\ \A m \in 1 .. n - 1 : cleaned[priority[m]] = Absent
<1>1. c = [yahoo_symbol |-> c.yahoo_symbol, index_id |-> c.index_id, isin |-> c.isin]
  BY LookupAssumption
<1>2. /\ DOMAIN c = {"yahoo_symbol", "index_id", "isin"}
      /\ cleaned.yahoo_symbol = Clean(c.yahoo_symbol) /\ cleaned.isin = Clean(c.isin)
  BY <1>1
<1>3. Identity(c) = [f \in DOMAIN c |-> IF Kept(f) THEN cleaned[f] ELSE Absent]
  BY DEF Identity
<1>4. Kept("yahoo_symbol")
  <2>1. 1 \in 1 .. 3 /\ priority[1] = "yahoo_symbol" /\ \A m \in 1 .. 1 - 1 : FALSE
    OBVIOUS
  <2> QED BY <2>1
<1> HIDE DEF Kept, cleaned
<1> QED BY <1>2, <1>3, <1>4, LookupAssumption

(* What the n-th query of a call hits, and which queries hit.              *)
HitOf(c, answers, n) == LookupHit(answers[QueriesOf(c)[n]], TypeOf(c))

HitsOf(c, answers) == {n \in DOMAIN QueriesOf(c) : HitOf(c, answers, n) # Absent}

(* A symbol that the call or its row has is not looked up.                 *)
Given(c) ==
  \/ Identity(c).yahoo_symbol # Absent
  \/ Loaded(Identity(c)) # Absent /\ Loaded(Identity(c)).yahoo_symbol # Absent

LEMMA ResolveIs ==
  ASSUME NEW c, NEW first, NEW second
  PROVE  /\ Given(c) => Resolve(c, first) = Resolve(c, second)
         /\ ~Given(c) => Resolve(c, first) = IF HitsOf(c, first) = {} THEN Absent
                                             ELSE HitOf(c, first, Min(HitsOf(c, first)))
BY DEF Given, Resolve, HitsOf, HitOf

(* A call looks up one or two queries, and not the same one twice.         *)
LEMMA QueriesDiffer ==
  ASSUME NEW c \in Calls
  PROVE  /\ DOMAIN QueriesOf(c) \subseteq {1, 2}
         /\ \A n \in DOMAIN QueriesOf(c) : QueriesOf(c)[n] \in Queries
         /\ \A n, m \in DOMAIN QueriesOf(c) : QueriesOf(c)[n] = QueriesOf(c)[m] => n = m
<1> DEFINE identity == Identity(c)
           index == Loaded(identity)
           queries == LookupQueries(identity, index)
<1>1. QueriesOf(c) = queries
  BY DEF QueriesOf
<1>2. identity.isin \in Queries \cup {Absent}
  BY IdentityFields
<1>3. index # Absent => index \in Indices
  BY DEF Loaded
<1> HIDE DEF identity, index
<1>4. CASE index # Absent
  <2>1. index.isin \in Queries /\ index.name \in Queries
    BY <1>3, <1>4, LookupAssumption
  <2>2. \/ queries = <<index.isin, index.name>> /\ index.name # index.isin
        \/ queries = <<index.isin>>
    BY <1>4 DEF LookupQueries
  <2> QED BY <1>1, <2>1, <2>2
<1>5. CASE index = Absent
  <2>1. \/ queries = <<identity.isin>> /\ identity.isin \in Queries
        \/ queries = <<>>
    BY <1>2, <1>5 DEF LookupQueries
  <2> QED BY <1>1, <2>1
<1> QED BY <1>4, <1>5

LEMMA FirstHit ==
  ASSUME NEW S \in SUBSET {1, 2}, S # {}
  PROVE  Min(S) \in S /\ \A m \in S : Min(S) <= m
<1>1. \E x \in S : \A y \in S : x <= y
  <2>1. 1 \in S => \A y \in S : 1 <= y
    OBVIOUS
  <2>2. 1 \notin S => \A y \in S : y = 2 /\ 2 <= y
    OBVIOUS
  <2> QED BY <2>1, <2>2
<1> QED BY <1>1 DEF Min

(* A lookup goes by what each query hits.                                  *)
LEMMA ResolveByHits ==
  ASSUME NEW c \in Calls, NEW first, NEW second,
         \A q \in Queries : LookupHit(first[q], TypeOf(c)) = LookupHit(second[q], TypeOf(c))
  PROVE  Resolve(c, first) = Resolve(c, second)
<1>1. \A n \in DOMAIN QueriesOf(c) : HitOf(c, first, n) = HitOf(c, second, n)
  BY QueriesDiffer DEF HitOf
<1>2. HitsOf(c, first) = HitsOf(c, second)
  BY <1>1 DEF HitsOf
<1>3. HitsOf(c, first) \subseteq {1, 2} /\ HitsOf(c, first) \subseteq DOMAIN QueriesOf(c)
  BY QueriesDiffer DEF HitsOf
<1>4. HitsOf(c, first) # {} => Min(HitsOf(c, first)) \in DOMAIN QueriesOf(c)
  BY <1>3, FirstHit
<1> QED BY <1>1, <1>2, <1>4, ResolveIs

(* When one answer changes, the call has the symbol it had or what this    *)
(* answer now hits, unless that is nothing.                                *)
LEMMA OneAnswerChanges ==
  ASSUME NEW c \in Calls, NEW first, NEW second, NEW q \in Queries,
         \A x \in Queries \ {q} : second[x] = first[x],
         LookupHit(second[q], TypeOf(c)) # Absent
  PROVE  Resolve(c, second) \in {Resolve(c, first), LookupHit(second[q], TypeOf(c))}
<1> DEFINE H == HitsOf(c, first)
           I == HitsOf(c, second)
           D == DOMAIN QueriesOf(c)
<1>1. /\ D \subseteq {1, 2} /\ \A n \in D : QueriesOf(c)[n] \in Queries
      /\ \A n, m \in D : QueriesOf(c)[n] = QueriesOf(c)[m] => n = m
  BY QueriesDiffer
<1>2. \A n \in D : QueriesOf(c)[n] # q => HitOf(c, second, n) = HitOf(c, first, n)
  BY <1>1 DEF HitOf
<1>3. \A n \in D : QueriesOf(c)[n] = q => HitOf(c, second, n) = LookupHit(second[q], TypeOf(c))
  BY DEF HitOf
<1>4. /\ H = {n \in D : HitOf(c, first, n) # Absent}
      /\ I = {n \in D : HitOf(c, second, n) # Absent}
  BY DEF HitsOf
<1> HIDE DEF H, I, D
<1>5. CASE Given(c)
  BY <1>5, ResolveIs
<1>6. CASE ~Given(c) /\ I = {}
  <2>1. H = {}
    BY <1>2, <1>3, <1>4, <1>6
  <2> QED BY <1>6, <2>1, ResolveIs DEF H, I
<1>7. CASE ~Given(c) /\ I # {} /\ QueriesOf(c)[Min(I)] = q
  <2>1. Min(I) \in D
    BY <1>1, <1>4, <1>7, FirstHit
  <2>2. Resolve(c, second) = HitOf(c, second, Min(I))
    BY <1>7, ResolveIs DEF I
  <2> QED BY <1>3, <1>7, <2>1, <2>2
<1>8. CASE ~Given(c) /\ I # {} /\ QueriesOf(c)[Min(I)] # q
  <2>1. Min(I) \in I /\ Min(I) \in D /\ \A m \in I : Min(I) <= m
    BY <1>1, <1>4, <1>8, FirstHit
  <2>2. Min(I) \in H /\ HitOf(c, second, Min(I)) = HitOf(c, first, Min(I))
    BY <1>2, <1>4, <1>8, <2>1
  <2>3. H \subseteq I
    BY <1>2, <1>3, <1>4
  <2>4. H \subseteq {1, 2} /\ H # {} /\ Min(H) \in H /\ \A m \in H : Min(H) <= m
    BY <1>1, <1>4, <2>2, FirstHit
  <2>5. Min(H) = Min(I)
    <3>1. Min(H) <= Min(I) /\ Min(I) <= Min(H)
      BY <2>1, <2>2, <2>3, <2>4
    <3>2. Min(H) \in {1, 2} /\ Min(I) \in {1, 2}
      BY <2>2, <2>4
    <3> QED BY <3>1, <3>2
  <2>6. Resolve(c, second) = HitOf(c, second, Min(I)) /\ Resolve(c, first) = HitOf(c, first, Min(H))
    BY <1>8, <2>4, ResolveIs DEF H, I
  <2> QED BY <2>2, <2>5, <2>6
<1> QED BY <1>5, <1>6, <1>7, <1>8

LEMMA OrderIsNothing ==
  ASSUME LookupInv, NEW q \in Queries, NEW k \in 1 .. Len(lookup[q]) - 1
  PROVE  Resolve(call, [lookup EXCEPT ![q] = Swapped(@, k)]) = Resolve(call, lookup)
<1> DEFINE other == [lookup EXCEPT ![q] = Swapped(@, k)]
<1>1. lookup[q] \in Seq(Listings) /\ DOMAIN lookup = Queries /\ call \in Calls
  BY DEF LookupInv
<1>2. ASSUME NEW x \in Queries, NEW t
      PROVE  LookupHit(other[x], t) = LookupHit(lookup[x], t)
  <2>1. CASE x = q
    <3>1. other[x] = Swapped(lookup[q], k)
      BY <1>1, <2>1
    <3>2. LookupHit(Swapped(lookup[q], k), t) = LookupHit(lookup[q], t)
      BY <1>1, SwappedHit
    <3> QED BY <2>1, <3>1, <3>2
  <2>2. CASE x # q
    BY <1>1, <2>2
  <2> QED BY <2>1, <2>2
<1> HIDE DEF other
<1>3. Resolve(call, other) = Resolve(call, lookup)
  BY <1>1, <1>2, ResolveByHits
<1> QED BY <1>3 DEF other

LEMMA OneMoreListing ==
  ASSUME LookupInv, NEW q \in Queries, NEW r \in Listings,
         ~Tied(Append(lookup[q], r), TypeOf(call))
  PROVE  Resolve(call, [lookup EXCEPT ![q] = Append(@, r)]) \in {Resolve(call, lookup), r.symbol}
<1> DEFINE more == [lookup EXCEPT ![q] = Append(@, r)]
           t == TypeOf(call)
<1>1. lookup[q] \in Seq(Listings) /\ DOMAIN lookup = Queries /\ call \in Calls
  BY DEF LookupInv
<1>2. more[q] = Append(lookup[q], r) /\ \A x \in Queries \ {q} : more[x] = lookup[x]
  BY <1>1
<1>3. LookupHit(Append(lookup[q], r), t) \in {LookupHit(lookup[q], t), r.symbol}
  BY <1>1, OneMoreRow
<1> HIDE DEF more
<1>4. CASE LookupHit(more[q], t) = LookupHit(lookup[q], t)
  <2>1. \A x \in Queries : LookupHit(more[x], t) = LookupHit(lookup[x], t)
    BY <1>2, <1>4
  <2>2. Resolve(call, more) = Resolve(call, lookup)
    BY <1>1, <2>1, ResolveByHits
  <2> QED BY <2>2 DEF more
<1>5. CASE LookupHit(more[q], t) = r.symbol
  <2>1. r.symbol # Absent
    BY LookupAssumption
  <2>2. Resolve(call, more) \in {Resolve(call, lookup), LookupHit(more[q], t)}
    BY <1>1, <1>2, <1>5, <2>1, OneAnswerChanges
  <2> QED BY <1>5, <2>2 DEF more
<1> QED BY <1>2, <1>3, <1>4, <1>5

(* A tied answer is worth an empty one.                                    *)
LEMMA TieIsNothing ==
  ASSUME LookupInv, NEW q \in Queries, NEW r \in Listings,
         Tied(Append(lookup[q], r), TypeOf(call))
  PROVE  Resolve(call, [lookup EXCEPT ![q] = Append(@, r)])
           = Resolve(call, [lookup EXCEPT ![q] = <<>>])
<1> DEFINE more == [lookup EXCEPT ![q] = Append(@, r)]
           none == [lookup EXCEPT ![q] = <<>>]
<1>1. DOMAIN lookup = Queries /\ call \in Calls
  BY DEF LookupInv
<1>2. /\ more[q] = Append(lookup[q], r) /\ none[q] = <<>>
      /\ \A x \in Queries \ {q} : more[x] = lookup[x] /\ none[x] = lookup[x]
  BY <1>1
<1> HIDE DEF more, none
<1>3. LookupHit(more[q], TypeOf(call)) = Absent /\ LookupHit(none[q], TypeOf(call)) = Absent
  BY <1>2, NoHit
<1>4. \A x \in Queries : LookupHit(more[x], TypeOf(call)) = LookupHit(none[x], TypeOf(call))
  BY <1>2, <1>3
<1>5. Resolve(call, more) = Resolve(call, none)
  BY <1>1, <1>4, ResolveByHits
<1> QED BY <1>5 DEF more, none

LEMMA NeverByChance ==
  ASSUME LookupInv
  PROVE  SymbolNotByChance
<1>1. DOMAIN lookup = Queries
  BY DEF LookupInv
<1>2. ASSUME NEW q \in Queries, NEW r \in Listings
      PROVE  LET more == [lookup EXCEPT ![q] = Append(@, r)]
             IN  IF Tied(more[q], TypeOf(call))
                 THEN Resolve(call, more) = Resolve(call, [lookup EXCEPT ![q] = <<>>])
                 ELSE Resolve(call, more) \in {Resolve(call, lookup), r.symbol}
  <2> DEFINE more == [lookup EXCEPT ![q] = Append(@, r)]
  <2>1. more[q] = Append(lookup[q], r)
    BY <1>1
  <2>2. Tied(more[q], TypeOf(call)) => Resolve(call, more) = Resolve(call, [lookup EXCEPT ![q] = <<>>])
    BY <2>1, TieIsNothing
  <2>3. ~Tied(more[q], TypeOf(call)) => Resolve(call, more) \in {Resolve(call, lookup), r.symbol}
    BY <2>1, OneMoreListing
  <2> HIDE DEF more
  <2>4. IF Tied(more[q], TypeOf(call))
        THEN Resolve(call, more) = Resolve(call, [lookup EXCEPT ![q] = <<>>])
        ELSE Resolve(call, more) \in {Resolve(call, lookup), r.symbol}
    BY <2>2, <2>3
  <2> QED BY <2>4 DEF more
<1> QED BY <1>1, <1>2, OrderIsNothing DEF SymbolNotByChance

(* For any listings and any number of them, a call resolves to the same    *)
(* symbol in whatever order Yahoo returns them, and one more of them wins, *)
(* changes nothing, or ties, which leaves its query without a hit and the  *)
(* call with what the other query hits (pick_lookup_row and                *)
(* YahooIndexResolver.resolve).                                            *)
THEOREM SymbolByMerit == LookupSpec => []SymbolNotByChance
<1>1. LookupInit => LookupInv
  <2>1. <<>> \in Seq(Listings)
    OBVIOUS
  <2> QED BY <2>1 DEF LookupInit, LookupInv
<1>2. LookupInv /\ [LookupNext]_lookupVars => LookupInv'
  <2> SUFFICES ASSUME LookupInv, [LookupNext]_lookupVars
               PROVE  LookupInv'
    OBVIOUS
  <2>1. CASE UNCHANGED lookupVars
    BY <2>1 DEF LookupInv, lookupVars
  <2>2. CASE LookupNext
    <3>1. PICK q \in DOMAIN lookup, r \in Listings : Lists(q, r)
      BY <2>2 DEF LookupNext
    <3>2. lookup[q] \in Seq(Listings) /\ q \in Queries
      BY <3>1 DEF LookupInv
    <3>3. Append(lookup[q], r) \in Seq(Listings)
      BY <3>1, <3>2
    <3>4. lookup' = [lookup EXCEPT ![q] = Append(lookup[q], r)] /\ call' = call
      BY <3>1 DEF Lists
    <3> QED BY <3>2, <3>3, <3>4 DEF LookupInv
  <2> QED BY <2>1, <2>2
<1> QED BY <1>1, <1>2, NeverByChance, PTL DEF LookupSpec


-----------------------------------------------------------------------------
(* The addresses of a page's links.                                        *)
AddressOf(h) == AbsoluteBoursoramaUrl(h)

(* No address twice, and none but the links'.                              *)
Distinct(entries, hrefs) ==
  /\ entries \in Seq({AddressOf(h) : h \in Range(hrefs)})
  /\ \A i, j \in 1 .. Len(entries) : entries[i] = entries[j] => i = j

(* The function the parsers' loop computes.                                *)
IsSeen(f, hrefs, kept, m) ==
  f = [n \in 0 .. m |->
         IF n = 0 THEN <<>>
         ELSE LET url == AbsoluteBoursoramaUrl(hrefs[n])
              IN  IF hrefs[n] \notin kept \/ url \in Range(f[n - 1]) THEN f[n - 1]
                  ELSE Append(f[n - 1], url)]

LEMMA SeenExists ==
  ASSUME NEW hrefs, NEW kept, NEW N \in Nat
  PROVE  \E f : IsSeen(f, hrefs, kept, N)
<1> DEFINE More(s, n) == LET url == AbsoluteBoursoramaUrl(hrefs[n])
                         IN  IF hrefs[n] \notin kept \/ url \in Range(s) THEN s ELSE Append(s, url)
           Is(f, m) == f = [n \in 0 .. m |-> IF n = 0 THEN <<>> ELSE More(f[n - 1], n)]
           S == {m \in Nat : \E f : Is(f, m)}
<1>1. \A f : Is(f, N) <=> IsSeen(f, hrefs, kept, N)
  BY DEF IsSeen
<1> HIDE DEF More
<1>2. 0 \in S
  <2> DEFINE f == [n \in 0 .. 0 |-> <<>>]
  <2>1. Is(f, 0)
    OBVIOUS
  <2> QED BY <2>1
<1>3. ASSUME NEW m \in Nat, m \in S
      PROVE  m + 1 \in S
  <2>1. PICK f : Is(f, m)
    BY <1>3
  <2> DEFINE next == [n \in 0 .. m + 1 |-> IF n = 0 THEN <<>> ELSE More(f[n - 1], n)]
  <2>2. \A n \in 0 .. m : next[n] = f[n]
    BY <2>1
  <2>3. \A n \in 0 .. m + 1 : n # 0 => n - 1 \in 0 .. m
    OBVIOUS
  <2>4. Is(next, m + 1)
    BY <2>2, <2>3
  <2> HIDE DEF next, Is
  <2> QED BY <2>4
<1>4. Nat \subseteq S
  <2> HIDE DEF S
  <2> QED BY <1>2, <1>3, NatSetInduction
<1> HIDE DEF Is
<1> QED BY <1>1, <1>4

LEMMA EntriesDistinct ==
  ASSUME NEW T, NEW hrefs \in Seq(T), NEW kept
  PROVE  Distinct(Entries(hrefs, kept), hrefs)
<1> DEFINE N == Len(hrefs)
           A == {AddressOf(h) : h \in Range(hrefs)}
           Good(s) == s \in Seq(A) /\ \A i, j \in 1 .. Len(s) : s[i] = s[j] => i = j
<1>1. N \in Nat /\ \A n \in 1 .. N : AddressOf(hrefs[n]) \in A
  BY DEF Range
<1>2. \E f : IsSeen(f, hrefs, kept, N) /\ Entries(hrefs, kept) = f[N]
  <2>1. \E f : IsSeen(f, hrefs, kept, N)
    BY <1>1, SeenExists
  <2> QED BY <2>1 DEF Entries, IsSeen
<1>3. PICK f : IsSeen(f, hrefs, kept, N) /\ Entries(hrefs, kept) = f[N]
  BY <1>2
<1> DEFINE S == {m \in Nat : m <= N => Good(f[m])}
<1>4. 0 \in S
  <2>1. f[0] = <<>>
    BY <1>1, <1>3 DEF IsSeen
  <2>2. Good(<<>>)
    OBVIOUS
  <2> HIDE DEF Good
  <2> QED BY <2>1, <2>2
<1>5. ASSUME NEW s, Good(s), NEW u \in A, u \notin Range(s)
      PROVE  Good(Append(s, u))
  <2> DEFINE t == Append(s, u)
  <2>1. s \in Seq(A) /\ Len(s) \in Nat
    BY <1>5
  <2> HIDE DEF A
  <2>2. /\ t \in Seq(A) /\ Len(t) = Len(s) + 1 /\ t[Len(s) + 1] = u
        /\ \A n \in 1 .. Len(s) : t[n] = s[n]
    BY <2>1
  <2>3. \A n \in 1 .. Len(s) : s[n] # u
    BY <1>5, <2>1 DEF Range
  <2>4. \A n \in 1 .. Len(s) + 1 : n \in 1 .. Len(s) \/ n = Len(s) + 1
    BY <2>1
  <2> HIDE DEF t
  <2>5. \A i, j \in 1 .. Len(t) : t[i] = t[j] => i = j
    BY <1>5, <2>2, <2>3, <2>4
  <2>6. Good(t)
    BY <2>2, <2>5
  <2> QED BY <2>6 DEF t
<1>6. ASSUME NEW m \in Nat, m \in S
      PROVE  m + 1 \in S
  <2> SUFFICES ASSUME m + 1 <= N
               PROVE  Good(f[m + 1])
    OBVIOUS
  <2> DEFINE u == AddressOf(hrefs[m + 1])
  <2>1. m + 1 \in 1 .. N /\ m + 1 \in 0 .. N /\ m + 1 # 0 /\ (m + 1) - 1 = m
    BY <1>1
  <2>2. Good(f[m])
    BY <1>1, <1>6, <2>1
  <2>3. u \in A
    BY <1>1, <2>1
  <2>4. f[m + 1] = IF hrefs[m + 1] \notin kept \/ u \in Range(f[m]) THEN f[m] ELSE Append(f[m], u)
    <3> HIDE DEF N
    <3> QED BY <1>3, <2>1 DEF IsSeen, AddressOf
  <2> HIDE DEF Good, A, u
  <2> QED BY <1>5, <2>2, <2>3, <2>4
<1>7. Nat \subseteq S
  <2> HIDE DEF S
  <2> QED BY <1>4, <1>6, NatSetInduction
<1>8. Good(f[N])
  <2> HIDE DEF Good, N
  <2> QED BY <1>1, <1>7
<1> QED BY <1>3, <1>8 DEF Distinct

(* An address without query is its own normal form.                        *)
LEMMA AddressFacts ==
  ASSUME NEW h \in Hrefs
  PROVE  /\ IsAddress(AddressOf(h)) /\ AddressOf(h).absolute
         /\ h.absolute \/ ~h.query => NormalizeBoursoramaUrl(AddressOf(h)) = AddressOf(h)
<1>1. IsAddress(h)
  BY UrlsAssumption
<1> DEFINE e == AddressOf(h)
<1>2. CASE h.absolute
  <2>1. e = [h EXCEPT !.query = FALSE]
    BY <1>2 DEF AddressOf, AbsoluteBoursoramaUrl, NormalizeBoursoramaUrl
  <2>2. IsAddress(e) /\ e.absolute /\ ~e.query
    <3> HIDE DEF e
    <3> QED BY <1>1, <1>2, <2>1 DEF IsAddress
  <2> HIDE DEF e
  <2>3. NormalizeBoursoramaUrl(e) = e
    BY <2>2 DEF NormalizeBoursoramaUrl, IsAddress
  <2> QED BY <2>2, <2>3 DEF e
<1>3. CASE ~h.absolute
  <2>1. e = [h EXCEPT !.absolute = TRUE, !.host = "www.boursorama.com"]
    BY <1>3 DEF AddressOf, AbsoluteBoursoramaUrl
  <2>2. IsAddress(e) /\ e.absolute /\ e.query = h.query
    <3> HIDE DEF e
    <3> QED BY <1>1, <2>1 DEF IsAddress
  <2> HIDE DEF e
  <2>3. ~h.query => NormalizeBoursoramaUrl(e) = e
    BY <1>1, <2>2 DEF NormalizeBoursoramaUrl, IsAddress
  <2> QED BY <1>3, <2>2, <2>3 DEF e
<1> QED BY <1>2, <1>3

(* What the page reader requests of an accepted page is accepted.          *)
LEMMA RequestAccepted ==
  ASSUME NEW u, IsAddress(u), u.absolute, ClientAccepts(u)
  PROVE  ClientAccepts(Requested(u))
<1>1. CASE ClassifyUrl(u.path) = "company_news_index"
  <2>1. CompanyNewsPartialUrl.host = "www.boursorama.com" /\ CompanyNewsPartialUrl.path = <<"actualites", "_liste">>
    BY DEF CompanyNewsPartialUrl, Page
  <2>2. HasPrefix(CompanyNewsPartialUrl, {"bourse", "cours", "actualites", "recherche"})
    BY <2>1 DEF HasPrefix
  <2> QED BY <1>1, <2>1, <2>2 DEF Requested, ClientAccepts, ALLOWED_HOSTS
<1>2. CASE ClassifyUrl(u.path) # "company_news_index"
  <2> DEFINE v == [u EXCEPT !.query = FALSE]
  <2>1. Requested(u) = v
    BY <1>2 DEF Requested, NormalizeBoursoramaUrl
  <2>2. v.host = u.host /\ v.path = u.path /\ v.slash = u.slash
    BY DEF IsAddress
  <2> HIDE DEF v
  <2> QED BY <2>1, <2>2 DEF ClientAccepts, HasPrefix
<1> QED BY <1>1, <1>2

LEMMA ValidIsAccepted ==
  ASSUME NEW u, ValidBoursoramaUrl(u)
  PROVE  u.absolute /\ ClientAccepts(u)
BY DEF ValidBoursoramaUrl, ClientAccepts, HasPrefix

LEMMA StoredSource ==
  ASSUME NEW u, StoredRow(u) # None
  PROVE  StoredRow(u).source_url = NormalizeBoursoramaUrl(u)
BY DEF StoredRow

LEMMA HeadlinesMeet ==
  ASSUME links \in Seq(Hrefs), NEW entries, Distinct(entries, links), NEW n \in DOMAIN entries
  PROVE  /\ StoredRow(entries[n]) # None => \/ StoredRow(entries[n]).source_url = entries[n]
                                            \/ \E h \in Range(links) : ~h.absolute /\ h.query
         /\ \A k \in 1 .. n - 1 :
              StoredRow(entries[k]) # None /\ StoredRow(entries[k]) = StoredRow(entries[n]) =>
                \E h \in Range(links) : ~h.absolute /\ h.query
         /\ Reads(entries[n]) # "refused" => ClientAccepts(Requested(entries[n]))
<1> DEFINE A == {AddressOf(h) : h \in Range(links)}
<1>1. entries \in Seq(A) /\ DOMAIN entries = 1 .. Len(entries) /\ Len(entries) \in Nat
  BY DEF Distinct
<1>2. \A k \in DOMAIN entries : entries[k] \in A
  <2> HIDE DEF A
  <2> QED BY <1>1
<1>3. \A h \in Range(links) : h \in Hrefs
  BY DEF Range
<1>4. \A k \in DOMAIN entries :
        /\ IsAddress(entries[k])
        /\ \/ NormalizeBoursoramaUrl(entries[k]) = entries[k]
           \/ \E h \in Range(links) : ~h.absolute /\ h.query
  <2> SUFFICES ASSUME NEW k \in DOMAIN entries
               PROVE  /\ IsAddress(entries[k])
                      /\ \/ NormalizeBoursoramaUrl(entries[k]) = entries[k]
                         \/ \E h \in Range(links) : ~h.absolute /\ h.query
    OBVIOUS
  <2>1. PICK h \in Range(links) : entries[k] = AddressOf(h)
    BY <1>2
  <2>2. h \in Hrefs
    BY <1>3
  <2>3. h.absolute \in BOOLEAN /\ h.query \in BOOLEAN
    BY <2>2, UrlsAssumption DEF IsAddress
  <2> QED BY <2>1, <2>2, <2>3, AddressFacts
<1>5. StoredRow(entries[n]) # None => \/ StoredRow(entries[n]).source_url = entries[n]
                                      \/ \E h \in Range(links) : ~h.absolute /\ h.query
  BY <1>4, StoredSource
<1>6. ASSUME NEW k \in 1 .. n - 1, StoredRow(entries[k]) # None, StoredRow(entries[k]) = StoredRow(entries[n]),
             ~ \E h \in Range(links) : ~h.absolute /\ h.query
      PROVE  FALSE
  <2>1. k \in DOMAIN entries /\ k # n
    BY <1>1
  <2>2. NormalizeBoursoramaUrl(entries[k]) = NormalizeBoursoramaUrl(entries[n])
    BY <1>6, StoredSource
  <2>3. entries[k] = entries[n]
    BY <1>4, <1>6, <2>1, <2>2
  <2> QED BY <1>1, <2>1, <2>3 DEF Distinct
<1>7. Reads(entries[n]) # "refused" => ClientAccepts(Requested(entries[n]))
  BY <1>4, ValidIsAccepted, RequestAccepted DEF Reads
<1> QED BY <1>5, <1>6, <1>7


LEMMA FollowingOnly ==
  ASSUME NEW marks, NEW path, NEW k \in 1 .. Len(path) - Len(marks),
         \A m \in 1 .. Len(path) - Len(marks) :
           (\A n \in DOMAIN marks : path[m + n - 1] = marks[n]) <=> m = k
  PROVE  Following(marks, path) = path[k + Len(marks)]
<1> DEFINE places == {m \in 1 .. Len(path) - Len(marks) :
                        \A n \in DOMAIN marks : path[m + n - 1] = marks[n]}
<1>1. places = {k}
  OBVIOUS
<1>2. Min({k}) = k
  BY DEF Min
<1>3. Following(marks, path) = IF places = {} THEN None ELSE path[Min(places) + Len(marks)]
  BY DEF Following
<1> HIDE DEF places
<1> QED BY <1>1, <1>2, <1>3

LEMMA QuotesReturn ==
  ASSUME NEW t \in Tickers
  PROVE  /\ HitFromPath(Page(<<"cours", t>>, TRUE)) = [ticker |-> t, is_company |-> TRUE]
         /\ HitFromPath(Page(<<"bourse", "trackers", "cours", t>>, TRUE)) = [ticker |-> t, is_company |-> FALSE]
<1> DEFINE c == <<"cours", t>>
           e == <<"bourse", "trackers", "cours", t>>
           mark == <<"cours">>
           marks == <<"bourse", "trackers", "cours">>
<1>1. /\ Len(c) = 2 /\ Len(e) = 4 /\ Len(mark) = 1 /\ Len(marks) = 3
      /\ c[1] = "cours" /\ c[2] = t /\ e[1] = "bourse" /\ e[2] = "trackers" /\ e[3] = "cours" /\ e[4] = t
      /\ DOMAIN mark = {1} /\ mark[1] = "cours"
      /\ DOMAIN marks = {1, 2, 3} /\ marks[1] = "bourse" /\ marks[2] = "trackers" /\ marks[3] = "cours"
  OBVIOUS
<1>2. Page(c, TRUE).path = c /\ Page(e, TRUE).path = e
  BY DEF Page
<1> HIDE DEF c, e, mark, marks
<1>3. Following(marks, c) = None
  BY <1>1 DEF Following
<1>4. Following(mark, c) = t
  <2>1. Len(c) - Len(mark) = 1
    BY <1>1
  <2>2. 1 \in 1 .. Len(c) - Len(mark)
    BY <2>1
  <2>3. \A m \in 1 .. Len(c) - Len(mark) : (\A n \in DOMAIN mark : c[m + n - 1] = mark[n]) <=> m = 1
    BY <1>1, <2>1
  <2>4. Following(mark, c) = c[1 + Len(mark)]
    BY <2>2, <2>3, FollowingOnly
  <2> QED BY <1>1, <2>4
<1>5. Following(marks, e) = t
  <2>1. Len(e) - Len(marks) = 1
    BY <1>1
  <2>2. 1 \in 1 .. Len(e) - Len(marks)
    BY <2>1
  <2>3. \A m \in 1 .. Len(e) - Len(marks) : (\A n \in DOMAIN marks : e[m + n - 1] = marks[n]) <=> m = 1
    BY <1>1, <2>1
  <2>4. Following(marks, e) = e[1 + Len(marks)]
    BY <2>2, <2>3, FollowingOnly
  <2> QED BY <1>1, <2>4
<1>6. t # None
  BY UrlsAssumption
<1> QED BY <1>2, <1>3, <1>4, <1>5, <1>6 DEF HitFromPath, c, e, mark, marks

(* Where the pages built from a ticker lead.                               *)
LEMMA ClassesOfPages ==
  ASSUME NEW t
  PROVE  /\ ClassifyUrl(<<"cours", "actualites", t>>) = "company_news_index"
         /\ ClassifyUrl(<<"cours", "societe", "chiffres-cles", t>>) = "company_key_figures"
BY DEF ClassifyUrl

Rooted(path) == path # <<>> /\ Len(path) > 1 /\ Head(path) \in {"bourse", "cours"}

LEMMA RootedPaths ==
  ASSUME NEW a \in {"bourse", "cours"}, NEW b, NEW c, NEW d, NEW e
  PROVE  Rooted(<<a, b>>) /\ Rooted(<<a, b, c>>) /\ Rooted(<<a, b, c, d>>) /\ Rooted(<<a, b, c, d, e>>)
BY DEF Rooted

LEMMA PagesAccepted ==
  ASSUME NEW path, NEW slash, Rooted(path)
  PROVE  /\ ValidBoursoramaUrl(Page(path, slash)) /\ ClientAccepts(Page(path, slash))
         /\ ClientAccepts(Requested(Page(path, slash)))
<1> DEFINE u == Page(path, slash)
<1>1. /\ u = [absolute |-> TRUE, host |-> "www.boursorama.com", path |-> path,
              slash |-> slash, query |-> FALSE]
  BY DEF Page
<1>2. ValidBoursoramaUrl(u) /\ ClientAccepts(u)
  BY <1>1 DEF ValidBoursoramaUrl, ClientAccepts, ALLOWED_HOSTS, HasPrefix, Rooted
<1>3. NormalizeBoursoramaUrl(u) = u
  <2> HIDE DEF u
  <2>1. IsAddress(u) /\ u.absolute /\ ~u.query
    BY <1>1 DEF IsAddress
  <2> QED BY <2>1 DEF NormalizeBoursoramaUrl, IsAddress
<1>4. ClientAccepts(CompanyNewsPartialUrl)
  <2>1. CompanyNewsPartialUrl.host = "www.boursorama.com" /\ CompanyNewsPartialUrl.path = <<"actualites", "_liste">>
    BY DEF CompanyNewsPartialUrl, Page
  <2>2. HasPrefix(CompanyNewsPartialUrl, {"bourse", "cours", "actualites", "recherche"})
    BY <2>1 DEF HasPrefix
  <2> QED BY <2>1, <2>2 DEF ClientAccepts, ALLOWED_HOSTS
<1> HIDE DEF u
<1>5. ClientAccepts(Requested(u))
  BY <1>2, <1>3, <1>4 DEF Requested
<1> QED BY <1>2, <1>5 DEF u

(* The pages the code asks for.                                            *)
Asked(t) ==
  {Page(<<"cours", t>>, TRUE), Page(<<"cours", "actualites", t>>, TRUE),
   Page(<<"cours", "societe", "chiffres-cles", t>>, TRUE),
   Page(<<"bourse", "trackers", "cours", t>>, TRUE),
   Page(<<"bourse", "trackers", "cours", "composition", t>>, TRUE)}
  \cup SESSION_FEEDS \cup CALENDAR_FEEDS

LEMMA AskedIsAccepted ==
  ASSUME NEW t, NEW u \in Asked(t)
  PROVE  ClientAccepts(u) /\ ClientAccepts(Requested(u))
<1>1. \A c \in {"societes-cotees", "macroeconomique", "dividendes"} :
        Rooted(<<"bourse", "actualites", "calendriers", c>>)
  BY RootedPaths
<1>2. /\ Rooted(<<"cours", t>>) /\ Rooted(<<"cours", "actualites", t>>)
      /\ Rooted(<<"cours", "societe", "chiffres-cles", t>>)
      /\ Rooted(<<"bourse", "trackers", "cours", t>>)
      /\ Rooted(<<"bourse", "trackers", "cours", "composition", t>>)
      /\ Rooted(<<"bourse", "actualites", "marches">>) /\ Rooted(<<"bourse", "actualites", "finances">>)
      /\ Rooted(<<"bourse", "actualites", "calendriers">>)
  BY RootedPaths
<1>3. \E path : \E slash : Rooted(path) /\ u = Page(path, slash)
  <2>1. CASE u \in SESSION_FEEDS
    BY <1>2, <2>1 DEF SESSION_FEEDS
  <2>2. CASE u \in CALENDAR_FEEDS
    BY <1>1, <1>2, <2>2 DEF CALENDAR_FEEDS
  <2>3. CASE u \notin SESSION_FEEDS /\ u \notin CALENDAR_FEEDS
    BY <1>2, <2>3 DEF Asked
  <2> QED BY <2>1, <2>2, <2>3
<1> QED BY <1>3, PagesAccepted

LEMMA PagesReturn == TickersReturn
<1> SUFFICES ASSUME NEW t \in Tickers
             PROVE  LET company == TypeAwareUrls(t, "COMPANY")
                        etf == TypeAwareUrls(t, "ETF")
                    IN  /\ HitFromPath(company.quote_url) = [ticker |-> t, is_company |-> TRUE]
                        /\ HitFromPath(etf.quote_url) = [ticker |-> t, is_company |-> FALSE]
                        /\ Reads(company.news_url) = "news_index" /\ ExtractTicker(company.news_url.path) = t
                        /\ StoredRow(company.key_figures_url).about = <<"COMPANY_NEWS", t>>
                        /\ \A u \in {company.quote_url, company.news_url, company.key_figures_url, etf.quote_url,
                                     etf.composition_url} \cup SESSION_FEEDS \cup CALENDAR_FEEDS :
                             ClientAccepts(u) /\ ClientAccepts(Requested(u))
  BY DEF TickersReturn
<1> DEFINE news == Page(<<"cours", "actualites", t>>, TRUE)
           figures == Page(<<"cours", "societe", "chiffres-cles", t>>, TRUE)
<1>1. /\ TypeAwareUrls(t, "COMPANY").quote_url = Page(<<"cours", t>>, TRUE)
      /\ TypeAwareUrls(t, "COMPANY").news_url = news
      /\ TypeAwareUrls(t, "COMPANY").key_figures_url = figures
      /\ TypeAwareUrls(t, "ETF").quote_url = Page(<<"bourse", "trackers", "cours", t>>, TRUE)
      /\ TypeAwareUrls(t, "ETF").composition_url
           = Page(<<"bourse", "trackers", "cours", "composition", t>>, TRUE)
  BY DEF TypeAwareUrls
<1>2. news.path = <<"cours", "actualites", t>> /\ figures.path = <<"cours", "societe", "chiffres-cles", t>>
  BY DEF Page
<1>3. ValidBoursoramaUrl(news) /\ ValidBoursoramaUrl(figures)
  <2>1. Rooted(<<"cours", "actualites", t>>) /\ Rooted(<<"cours", "societe", "chiffres-cles", t>>)
    BY RootedPaths
  <2> QED BY <2>1, PagesAccepted
<1> HIDE DEF news, figures
<1>4. Reads(news) = "news_index" /\ Reads(figures) = "article"
  BY <1>2, <1>3, ClassesOfPages DEF Reads
<1>5. ExtractTicker(news.path) = t
  BY <1>2, ClassesOfPages DEF ExtractTicker, Last
<1>6. StoredRow(figures).about = <<"COMPANY_NEWS", t>>
  <2>1. InferNewsMetadata(figures) = <<"COMPANY_NEWS", t>>
    BY <1>2, ClassesOfPages DEF InferNewsMetadata, Last
  <2> QED BY <1>4, <2>1 DEF StoredRow
<1>7. \A u \in Asked(t) : ClientAccepts(u) /\ ClientAccepts(Requested(u))
  BY AskedIsAccepted
<1> QED BY <1>1, <1>4, <1>5, <1>6, <1>7, QuotesReturn DEF Asked, news, figures

(* For any links on any page and any tickers: a headline and its deep read *)
(* meet in one row but for a relative link with a query, a page built from *)
(* a ticker leads back to it, and nothing the code asks for is refused by  *)
(* the client (urls.py, the list parsers and the page reader).             *)
THEOREM AddressesStayTogether == UrlsSpec => []AddressesAgree
<1>1. UrlsInit => links \in Seq(Hrefs)
  BY DEF UrlsInit
<1>2. links \in Seq(Hrefs) /\ [UrlsNext]_links => (links \in Seq(Hrefs))'
  BY DEF UrlsNext
<1>3. links \in Seq(Hrefs) => AddressesAgree
  <2> SUFFICES ASSUME links \in Seq(Hrefs)
               PROVE  AddressesAgree
    OBVIOUS
  <2>1. Distinct(ParseListPage(links), links) /\ Distinct(ParseCompanyNews(links), links)
    BY EntriesDistinct DEF ParseListPage, ParseCompanyNews
  <2>2. \A entries \in {ParseListPage(links), ParseCompanyNews(links)} : Distinct(entries, links)
    BY <2>1
  <2>3. DeepReadsMeetHeadlines
    BY <2>2, HeadlinesMeet DEF DeepReadsMeetHeadlines
  <2> QED BY <2>3, PagesReturn DEF AddressesAgree
<1> QED BY <1>1, <1>2, <1>3, PTL DEF UrlsSpec
=============================================================================
