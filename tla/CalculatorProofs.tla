----------------------------- MODULE CalculatorProofs --------------------------
(***************************************************************************)
(* What PositionCalculator.replay returns for every sequence of            *)
(* transactions, by induction over its loop.                               *)
(***************************************************************************)
EXTENDS PositionCalculator, WellFoundedInduction, TLAPS

(* Induction on the natural numbers, for a set. *)
LEMMA NatSetInduction ==
  ASSUME NEW S, 0 \in S, \A n \in Nat : n \in S => n + 1 \in S
  PROVE  Nat \subseteq S
<1> DEFINE T == Nat \ S
           R == OpToRel(<, Nat)
<1>1. SUFFICES ASSUME T # {} PROVE FALSE
  OBVIOUS
<1>2. \E x \in T : \A y \in T : ~ (<<y, x>> \in R)
  <2>1. IsWellFoundedOn(R, Nat)
    BY NatLessThanWellFounded
  <2>2. T \subseteq Nat
    OBVIOUS
  <2> HIDE DEF T, R
  <2>3. QED
    BY <2>1, <2>2, <1>1, WFMin
<1>3. \A x, y \in Nat : y < x => <<y, x>> \in R
  BY DEF OpToRel
<1> HIDE DEF R
<1>4. PICK x \in T : \A y \in T : ~ (<<y, x>> \in R)
  BY <1>2
<1>5. x \in Nat /\ x # 0 /\ x - 1 \in Nat /\ x - 1 < x /\ x = (x - 1) + 1
  OBVIOUS
<1>6. x - 1 \in T
  BY <1>5
<1>7. QED
  BY <1>3, <1>4, <1>5, <1>6

(* The function replay's loop computes: the state after each transaction.  *)
IsRun(g, txs, m) ==
  g = [n \in 0 .. m |-> IF n = 0 THEN Flat ELSE Book(g[n - 1], txs[n])]

LEMMA RunExists ==
  ASSUME NEW txs, NEW N \in Nat
  PROVE  \E g : IsRun(g, txs, N)
<1> DEFINE S == {m \in Nat : \E g : IsRun(g, txs, m)}
<1>1. 0 \in S
  <2> DEFINE g == [n \in 0 .. 0 |-> Flat]
  <2>1. IsRun(g, txs, 0)
    BY DEF IsRun
  <2>2. QED
    BY <2>1
<1>2. ASSUME NEW m \in Nat, m \in S
      PROVE  m + 1 \in S
  <2>1. PICK g : IsRun(g, txs, m)
    BY <1>2
  <2> DEFINE next == [n \in 0 .. m + 1 |->
                        IF n = 0 THEN Flat ELSE Book(g[n - 1], txs[n])]
  <2>2. \A n \in 0 .. m : next[n] = g[n]
    BY <2>1 DEF IsRun
  <2>3. \A n \in 0 .. m + 1 : n # 0 => n - 1 \in 0 .. m
    OBVIOUS
  <2>4. IsRun(next, txs, m + 1)
    BY <2>2, <2>3 DEF IsRun
  <2>5. QED
    BY <2>4
<1>3. Nat \subseteq S
  <2> HIDE DEF S
  <2>1. QED
    BY <1>1, <1>2, NatSetInduction
<1>4. QED
  BY <1>3

LEMMA ReplayIsRun ==
  ASSUME NEW txs, Len(txs) \in Nat
  PROVE  \E g : IsRun(g, txs, Len(txs)) /\ Replay(txs) = g[Len(txs)]
BY RunExists DEF Replay, IsRun

(* What the loop reads of a transaction. *)
Amounts(tx) ==
  /\ tx.quantity \in Nat \ {0}
  /\ tx.price \in Nat \ {0}
  /\ tx.fees \in Nat
  /\ tx.date \in Nat

LEMMA BookType ==
  ASSUME NEW s \in Snapshots, NEW tx, Amounts(tx)
  PROVE  Book(s, tx) \in Snapshots
<1>1. Buy(s, tx) \in Snapshots
  <2>1. /\ s.quantity + tx.quantity \in Nat \ {0}
        /\ s.quantity * s.cost + (tx.quantity * tx.price + tx.fees) * s.units \in Nat
    BY DEF Snapshots, Amounts
  <2>2. s.units * (s.quantity + tx.quantity) \in Nat \ {0}
    BY <2>1 DEF Snapshots
  <2>3. QED
    BY <2>1, <2>2 DEF Buy, Snapshots, Amounts
<1>2. Sell(s, tx) \in Snapshots
  <2>1. CASE tx.quantity > s.quantity
    BY <2>1 DEF Sell, Snapshots
  <2>2. CASE ~(tx.quantity > s.quantity)
    <3> DEFINE left == s.quantity - tx.quantity
               cost == IF left = 0 THEN 0 ELSE s.cost
               units == IF left = 0 THEN 1 ELSE s.units
    <3>1. left \in Nat /\ tx.date \in Nat
      BY <2>2 DEF Snapshots, Amounts
    <3>2. cost \in Nat /\ units \in Nat \ {0}
      BY DEF Snapshots
    <3>3. Sell(s, tx) = [s EXCEPT !.quantity = left, !.cost = cost,
                                  !.units = units, !.last_update = tx.date]
      BY <2>2 DEF Sell
    <3> HIDE DEF left, cost, units
    <3>4. QED
      BY <3>1, <3>2, <3>3 DEF Snapshots
  <2>3. QED
    BY <2>1, <2>2
<1>3. QED
  BY <1>1, <1>2 DEF Book

(* Replaying any finite ledger of well-formed transactions gives a held    *)
(* quantity and a cost that are natural numbers and a non-zero divisor:    *)
(* an average cost never has to be divided by an empty holding.            *)
THEOREM ReplayType ==
  ASSUME NEW txs, Len(txs) \in Nat, \A n \in 1 .. Len(txs) : Amounts(txs[n])
  PROVE  Replay(txs) \in Snapshots
<1>1. PICK g : IsRun(g, txs, Len(txs)) /\ Replay(txs) = g[Len(txs)]
  BY ReplayIsRun
<1> DEFINE S == {n \in Nat : n <= Len(txs) => g[n] \in Snapshots}
<1>2. 0 \in S
  BY <1>1 DEF IsRun, Flat, Snapshots
<1>3. ASSUME NEW n \in Nat, n \in S
      PROVE  n + 1 \in S
  <2>1. SUFFICES ASSUME n + 1 <= Len(txs)
                 PROVE  g[n + 1] \in Snapshots
    OBVIOUS
  <2>2. g[n + 1] = Book(g[n], txs[n + 1])
    BY <1>1, <2>1 DEF IsRun
  <2>3. g[n] \in Snapshots
    BY <1>3, <2>1
  <2>4. Amounts(txs[n + 1])
    BY <2>1
  <2>5. QED
    BY <2>2, <2>3, <2>4, BookType
<1>4. Nat \subseteq S
  <2> HIDE DEF S
  <2>1. QED
    BY <1>2, <1>3, NatSetInduction
<1>5. QED
  BY <1>1, <1>4

-----------------------------------------------------------------------------
LEMMA NearestType ==
  ASSUME NEW n \in Nat, NEW d \in Nat \ {0}
  PROVE  Nearest(n, d) \in Nat
<1>1. 2 * n + d \in Nat /\ 2 * d \in Nat \ {0}
  OBVIOUS
<1>2. QED
  BY <1>1 DEF Nearest

LEMMA StoredQuantityType ==
  ASSUME NEW q \in Nat
  PROVE  StoredQuantity(q) \in Nat
<1>1. Nearest(q, Grain) \in Nat
  BY ScaleAssumption, NearestType
<1>2. QED
  BY <1>1, ScaleAssumption DEF StoredQuantity

(* No more decimals than the column: storing loses nothing. *)
LEMMA ExactQuantity ==
  ASSUME Grain = 1, NEW q \in Nat
  PROVE  StoredQuantity(q) = q
<1>1. (2 * q + 1) \div 2 = q
  OBVIOUS
<1>2. QED
  BY <1>1 DEF StoredQuantity, Nearest

LEMMA ColumnsType ==
  ASSUME NEW s \in Snapshots
  PROVE  Columns(s) \in [quantity : Nat, average_cost : Nat, last_update : Nat]
<1>1. s.cost * AvgScale \in Nat
  BY ScaleAssumption DEF Snapshots
<1>2. Nearest(s.cost * AvgScale, s.units) \in Nat
  BY <1>1, NearestType DEF Snapshots
<1>3. QED
  BY <1>2, StoredQuantityType DEF Columns, Snapshots
==============================================================================
