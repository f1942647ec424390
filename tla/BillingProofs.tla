---------------------------- MODULE BillingProofs ----------------------------
(***************************************************************************)
(* Proofs about module Billing, for any items, amounts, rates and          *)
(* cashiers.  The inductive invariant says, beside the properties, that a  *)
(* screen whose version is the bill's shows the bill's lines and tax       *)
(* (ScreensRecall): every command but the opening of a bill makes a new    *)
(* version, and no command gives a version twice.                          *)
(*                                                                         *)
(* The sums are folds of the library, a choice of a recursive function.    *)
(* Its values are a function on the subsets of a finite set (Sums), which  *)
(* exists, does not depend on the set it is taken in, and takes the parts  *)
(* in any order (SumTake).  A claim about every subset is shown of a least *)
(* one that would break it.                                                *)
(***************************************************************************)
EXTENDS Billing, FiniteSetTheorems, WellFoundedInduction, TLAPS

\* A number, or a finite set, that is least among those of a kind.
LEMMA LeastNumber ==
  ASSUME NEW C, C \subseteq Nat, C # {}
  PROVE  \E n \in C : \A m \in C : n <= m
<1> DEFINE R == OpToRel(<, Nat)
<1>1. IsWellFoundedOn(R, Nat) BY NatLessThanWellFounded
<1>2. \A m, n \in Nat : m < n => <<m, n>> \in R BY DEF OpToRel
<1> HIDE DEF R
<1>3. PICK n \in C : \A m \in C : <<m, n>> \notin R BY <1>1, WFMin
<1>4. \A m \in C : n <= m
  <2> SUFFICES ASSUME NEW m \in C PROVE n <= m OBVIOUS
  <2>1. m \in Nat /\ n \in Nat OBVIOUS
  <2>2. ~(m < n) BY <1>2, <1>3, <2>1
  <2> QED BY <2>1, <2>2
<1> QED BY <1>4

LEMMA LeastSet ==
  ASSUME NEW C, C # {}, \A s \in C : IsFiniteSet(s)
  PROVE  \E s \in C : \A t \in C : Cardinality(s) <= Cardinality(t)
<1> DEFINE N == {Cardinality(s) : s \in C}
<1>1. N \subseteq Nat /\ N # {} BY FS_CardinalityType
<1>2. PICK n \in N : \A m \in N : n <= m BY <1>1, LeastNumber
<1> QED BY <1>2

LEMMA Smaller ==
  ASSUME NEW S, IsFiniteSet(S), NEW x \in S
  PROVE  /\ IsFiniteSet(S \ {x}) /\ Cardinality(S) \in Nat \ {0}
         /\ Cardinality(S \ {x}) = Cardinality(S) - 1
BY FS_RemoveElement, FS_CardinalityType, FS_EmptySet

Pick(s) == CHOOSE x \in s : TRUE
FirstAndRest(g, f, s) == IF s = {} THEN 0 ELSE f[Pick(s)] + g[s \ {Pick(s)}]

\* The function on the subsets of S that SumFunctionOnSet computes with, and its
\* part for the subsets of at most n elements.
IsSums(g, f, S) == g = [s \in SUBSET S |-> FirstAndRest(g, f, s)]
Sums(f, S) == CHOOSE g : IsSums(g, f, S)
Small(S, n) == {s \in SUBSET S : Cardinality(s) <= n}
SumsUpTo(g, f, S, n) == g = [s \in Small(S, n) |-> FirstAndRest(g, f, s)]

LEMMA SumIsRecursive ==
  ASSUME NEW f, NEW S
  PROVE  SumFunctionOnSet(f, S) = Sums(f, S)[S]
<1>1. SumFunctionOnSet(f, S) =
        LET iter[s \in SUBSET S] == IF s = {} THEN 0
                                    ELSE LET x == CHOOSE y \in s : TRUE
                                         IN  f[x] + iter[s \ {x}]
        IN  iter[S]
  BY DEF SumFunctionOnSet, FoldFunctionOnSet, MapThenFoldSet
<1> QED BY <1>1, Zenon DEF Sums, IsSums, FirstAndRest, Pick

\* The sums of the sets of n elements from those of the smaller ones.
LEMMA OneLess ==
  ASSUME NEW f, NEW S, IsFiniteSet(S), NEW n \in Nat, n # 0, NEW g, SumsUpTo(g, f, S, n - 1)
  PROVE  \E h : SumsUpTo(h, f, S, n)
<1>1. \A s \in SUBSET S : IsFiniteSet(s) /\ Cardinality(s) \in Nat
  BY FS_Subset, FS_CardinalityType
<1> DEFINE h == [s \in Small(S, n) |-> FirstAndRest(g, f, s)]
<1>2. \A s \in Small(S, n - 1) : s \in Small(S, n) /\ h[s] = g[s]
  <2> SUFFICES ASSUME NEW s \in Small(S, n - 1) PROVE s \in Small(S, n) /\ h[s] = g[s]
    OBVIOUS
  <2>1. s \in Small(S, n) BY <1>1 DEF Small
  <2>2. h[s] = FirstAndRest(g, f, s) BY <2>1
  <2>3. g[s] = FirstAndRest(g, f, s) BY DEF SumsUpTo
  <2> QED BY <2>1, <2>2, <2>3
<1>3. \A s \in Small(S, n) : s # {} => s \ {Pick(s)} \in Small(S, n - 1)
  <2> SUFFICES ASSUME NEW s \in Small(S, n), s # {} PROVE s \ {Pick(s)} \in Small(S, n - 1)
    OBVIOUS
  <2>1. Pick(s) \in s BY DEF Pick
  <2>2. IsFiniteSet(s) BY <1>1 DEF Small
  <2>3. Cardinality(s \ {Pick(s)}) = Cardinality(s) - 1 BY <2>1, <2>2, Smaller
  <2> QED BY <1>1, <2>3 DEF Small
<1>4. \A s \in Small(S, n) : FirstAndRest(g, f, s) = FirstAndRest(h, f, s)
  BY <1>2, <1>3 DEF FirstAndRest
<1>5. SumsUpTo(h, f, S, n) BY <1>4 DEF SumsUpTo
<1> QED BY <1>5

\* Of a finite set there are sums, and those of a part of it are the same.
LEMMA SumsExist ==
  ASSUME NEW f, NEW S, IsFiniteSet(S)
  PROVE  IsSums(Sums(f, S), f, S)
<1>1. \A s \in SUBSET S : IsFiniteSet(s) /\ Cardinality(s) \in Nat
  BY FS_Subset, FS_CardinalityType
<1> DEFINE Bad == {n \in Nat : ~ \E g : SumsUpTo(g, f, S, n)}
<1>2. Bad = {}
  <2> SUFFICES ASSUME Bad # {} PROVE FALSE OBVIOUS
  <2>1. PICK n \in Bad : \A m \in Bad : n <= m
    <3>1. Bad \subseteq Nat OBVIOUS
    <3> HIDE DEF Bad
    <3> QED BY <3>1, LeastNumber
  <2>2. n \in Nat BY <2>1
  <2>3. CASE n = 0
    <3>1. Small(S, 0) = {{}} BY <1>1, FS_EmptySet DEF Small
    <3>2. SumsUpTo([s \in Small(S, 0) |-> 0], f, S, 0) BY <3>1 DEF SumsUpTo, FirstAndRest
    <3> QED BY <2>1, <2>3, <3>2
  <2>4. CASE n # 0
    <3>1. n - 1 \notin Bad
      <4> HIDE DEF Bad
      <4>1. ~(n <= n - 1) BY <2>2
      <4> QED BY <2>1, <4>1
    <3>2. PICK g : SumsUpTo(g, f, S, n - 1) BY <2>2, <2>4, <3>1
    <3> QED BY <2>1, <2>2, <2>4, <3>2, OneLess
  <2> QED BY <2>3, <2>4
<1>3. Cardinality(S) \in Nat \ Bad BY <1>1, <1>2
<1>4. PICK g : SumsUpTo(g, f, S, Cardinality(S)) BY <1>3
<1>5. Small(S, Cardinality(S)) = SUBSET S BY FS_Subset DEF Small
<1>6. IsSums(g, f, S) BY <1>4, <1>5 DEF IsSums, SumsUpTo
<1> QED BY <1>6 DEF Sums

LEMMA SumsAgree ==
  ASSUME NEW f, NEW S, IsFiniteSet(S), NEW T, T \subseteq S,
         NEW g, IsSums(g, f, S), NEW h, IsSums(h, f, T)
  PROVE  g[T] = h[T]
<1> DEFINE Bad == {s \in SUBSET T : g[s] # h[s]}
<1> SUFFICES ASSUME Bad # {} PROVE FALSE OBVIOUS
<1>1. \A s \in Bad : IsFiniteSet(s) BY FS_Subset
<1>2. PICK s \in Bad : \A t \in Bad : Cardinality(s) <= Cardinality(t)
  <2> HIDE DEF Bad
  <2> QED BY <1>1, LeastSet
<1>3. s \in SUBSET T /\ s \in SUBSET S /\ IsFiniteSet(s) BY <1>1
<1>4. /\ g[s] = FirstAndRest(g, f, s)
      /\ h[s] = FirstAndRest(h, f, s)
  BY <1>3 DEF IsSums
<1>5. s # {} BY <1>4 DEF FirstAndRest
<1>6. Pick(s) \in s BY <1>5 DEF Pick
<1>7. s \ {Pick(s)} \notin Bad
  <2> HIDE DEF Bad
  <2> QED BY <1>2, <1>3, <1>6, Smaller
<1> QED BY <1>3, <1>4, <1>5, <1>7 DEF FirstAndRest

\* What the fold computes: nothing for the empty set, else one number and the rest.
LEMMA SumEmpty ==
  ASSUME NEW f
  PROVE  SumFunctionOnSet(f, {}) = 0
<1>1. IsSums(Sums(f, {}), f, {}) BY FS_EmptySet, SumsExist
<1>2. Sums(f, {})[{}] = 0 BY <1>1 DEF IsSums, FirstAndRest
<1> QED BY <1>2, SumIsRecursive

LEMMA SumPick ==
  ASSUME NEW f, NEW S, IsFiniteSet(S), S # {}
  PROVE  SumFunctionOnSet(f, S) = f[Pick(S)] + SumFunctionOnSet(f, S \ {Pick(S)})
<1> DEFINE T == S \ {Pick(S)}
<1>1. Pick(S) \in S BY DEF Pick
<1>2. IsFiniteSet(T) /\ T \subseteq S BY <1>1, Smaller
<1> HIDE DEF T
<1>3. IsSums(Sums(f, S), f, S) /\ IsSums(Sums(f, T), f, T) BY <1>2, SumsExist
<1>4. Sums(f, S)[T] = Sums(f, T)[T] BY <1>2, <1>3, SumsAgree
<1>5. SumFunctionOnSet(f, T) = Sums(f, T)[T] /\ SumFunctionOnSet(f, S) = Sums(f, S)[S]
  BY SumIsRecursive
<1>6. Sums(f, S)[S] = FirstAndRest(Sums(f, S), f, S) BY <1>3 DEF IsSums
<1> QED BY <1>4, <1>5, <1>6 DEF FirstAndRest, T

LEMMA SumNat ==
  ASSUME NEW I, NEW f \in [I -> Nat], NEW S \in SUBSET I, IsFiniteSet(S)
  PROVE  SumFunctionOnSet(f, S) \in Nat
<1> DEFINE Bad == {s \in SUBSET S : SumFunctionOnSet(f, s) \notin Nat}
<1> SUFFICES ASSUME Bad # {} PROVE FALSE OBVIOUS
<1>1. \A s \in Bad : IsFiniteSet(s) BY FS_Subset
<1>2. PICK s \in Bad : \A t \in Bad : Cardinality(s) <= Cardinality(t)
  <2> HIDE DEF Bad
  <2> QED BY <1>1, LeastSet
<1>3. s \in SUBSET S /\ IsFiniteSet(s) BY <1>1
<1>4. s # {} BY SumEmpty
<1>5. Pick(s) \in s BY <1>4 DEF Pick
<1>6. s \ {Pick(s)} \notin Bad
  <2> HIDE DEF Bad
  <2> QED BY <1>2, <1>3, <1>5, Smaller
<1>7. SumFunctionOnSet(f, s \ {Pick(s)}) \in Nat BY <1>3, <1>6
<1>8. f[Pick(s)] \in Nat BY <1>3, <1>5
<1> QED BY <1>3, <1>4, <1>7, <1>8, SumPick

\* Any of the numbers may be taken first.
LEMMA SumTake ==
  ASSUME NEW I, NEW f \in [I -> Nat], NEW S \in SUBSET I, IsFiniteSet(S), NEW x \in S
  PROVE  SumFunctionOnSet(f, S) = f[x] + SumFunctionOnSet(f, S \ {x})
<1> DEFINE Wrong(s, y) == SumFunctionOnSet(f, s) # f[y] + SumFunctionOnSet(f, s \ {y})
           Bad == {s \in SUBSET S : \E y \in s : Wrong(s, y)}
<1> SUFFICES ASSUME Bad # {} PROVE FALSE OBVIOUS
<1>1. \A s \in Bad : IsFiniteSet(s) BY FS_Subset
<1>2. PICK s \in Bad : \A t \in Bad : Cardinality(s) <= Cardinality(t)
  <2> HIDE DEF Bad
  <2> QED BY <1>1, LeastSet
<1>3. s \in SUBSET S /\ IsFiniteSet(s) BY <1>1
<1>4. PICK y \in s : Wrong(s, y) OBVIOUS
<1> DEFINE p == Pick(s)
<1>5. p \in s BY DEF Pick
<1>6. SumFunctionOnSet(f, s) = f[p] + SumFunctionOnSet(f, s \ {p}) BY <1>3, SumPick
<1>7. p # y BY <1>4, <1>6
<1>8. s \ {p} \notin Bad /\ s \ {y} \notin Bad
  <2> HIDE DEF Bad, p
  <2>1. \A z \in s : s \ {z} \notin Bad BY <1>2, <1>3, Smaller
  <2> QED BY <1>5, <2>1
<1> HIDE DEF p
<1>9. /\ SumFunctionOnSet(f, s \ {p}) = f[y] + SumFunctionOnSet(f, (s \ {p}) \ {y})
      /\ SumFunctionOnSet(f, s \ {y}) = f[p] + SumFunctionOnSet(f, (s \ {y}) \ {p})
  BY <1>3, <1>5, <1>7, <1>8
<1>10. (s \ {p}) \ {y} = (s \ {y}) \ {p} OBVIOUS
<1> DEFINE t == (s \ {y}) \ {p}
<1>11. t \in SUBSET I /\ IsFiniteSet(t) BY <1>3, FS_Subset
<1>12. SumFunctionOnSet(f, t) \in Nat /\ f[p] \in Nat /\ f[y] \in Nat
  <2> HIDE DEF t
  <2> QED BY <1>3, <1>5, <1>11, SumNat
<1>13. /\ SumFunctionOnSet(f, s \ {p}) = f[y] + SumFunctionOnSet(f, t)
       /\ SumFunctionOnSet(f, s \ {y}) = f[p] + SumFunctionOnSet(f, t)
  BY <1>9, <1>10
<1> HIDE DEF t, Bad
<1> QED BY <1>4, <1>6, <1>12, <1>13

\* Equal numbers have equal sums.
LEMMA SumSame ==
  ASSUME NEW S, IsFiniteSet(S), NEW f, NEW g, \A x \in S : f[x] = g[x]
  PROVE  SumFunctionOnSet(f, S) = SumFunctionOnSet(g, S)
<1> DEFINE Bad == {s \in SUBSET S : SumFunctionOnSet(f, s) # SumFunctionOnSet(g, s)}
<1> SUFFICES ASSUME Bad # {} PROVE FALSE OBVIOUS
<1>1. \A s \in Bad : IsFiniteSet(s) BY FS_Subset
<1>2. PICK s \in Bad : \A t \in Bad : Cardinality(s) <= Cardinality(t)
  <2> HIDE DEF Bad
  <2> QED BY <1>1, LeastSet
<1>3. s \in SUBSET S /\ IsFiniteSet(s) BY <1>1
<1>4. s # {} BY SumEmpty
<1>5. Pick(s) \in s BY <1>4 DEF Pick
<1>6. s \ {Pick(s)} \notin Bad
  <2> HIDE DEF Bad
  <2> QED BY <1>2, <1>3, <1>5, Smaller
<1>7. SumFunctionOnSet(f, s \ {Pick(s)}) = SumFunctionOnSet(g, s \ {Pick(s)}) BY <1>3, <1>6
<1> QED BY <1>3, <1>4, <1>5, <1>7, SumPick

\* Parts that are rounded down add up to no more than the whole.
LEMMA SumFloors ==
  ASSUME NEW I, NEW f \in [I -> Nat], NEW a \in [I -> Nat], NEW A \in Nat, NEW sum \in Nat,
         \A x \in I : f[x] * A <= sum * a[x],
         NEW S \in SUBSET I, IsFiniteSet(S)
  PROVE  SumFunctionOnSet(f, S) * A <= sum * SumFunctionOnSet(a, S)
<1> DEFINE Bad ==
      {s \in SUBSET S : ~(SumFunctionOnSet(f, s) * A <= sum * SumFunctionOnSet(a, s))}
<1> SUFFICES ASSUME Bad # {} PROVE FALSE OBVIOUS
<1>1. \A s \in Bad : IsFiniteSet(s) BY FS_Subset
<1>2. PICK s \in Bad : \A t \in Bad : Cardinality(s) <= Cardinality(t)
  <2> HIDE DEF Bad
  <2> QED BY <1>1, LeastSet
<1>3. s \in SUBSET S /\ IsFiniteSet(s) BY <1>1
<1>4. s # {}
  <2> SUFFICES ASSUME s = {} PROVE FALSE OBVIOUS
  <2>1. SumFunctionOnSet(f, s) = 0 /\ SumFunctionOnSet(a, s) = 0 BY SumEmpty
  <2>2. 0 * A <= sum * 0 OBVIOUS
  <2> QED BY <2>1, <2>2
<1>5. Pick(s) \in s BY <1>4 DEF Pick
<1> DEFINE t == s \ {Pick(s)}
<1>6. t \notin Bad
  <2> HIDE DEF Bad
  <2>1. Cardinality(s) \in Nat /\ Cardinality(t) = Cardinality(s) - 1 BY <1>3, <1>5, Smaller
  <2>2. ~(Cardinality(s) <= Cardinality(t)) BY <2>1
  <2> QED BY <1>2, <2>2
<1>7. t \in SUBSET I /\ IsFiniteSet(t) BY <1>3, FS_Subset
<1> DEFINE F == SumFunctionOnSet(f, t)
           B == SumFunctionOnSet(a, t)
           u == f[Pick(s)]
           v == a[Pick(s)]
<1>8. F * A <= sum * B BY <1>3, <1>6
<1>9. SumFunctionOnSet(f, s) = u + F /\ SumFunctionOnSet(a, s) = v + B
  BY <1>3, <1>4, SumPick
<1>10. F \in Nat /\ B \in Nat
  <2> HIDE DEF t
  <2> QED BY <1>7, SumNat
<1>11. u \in Nat /\ v \in Nat /\ u * A <= sum * v BY <1>3, <1>5
<1>12. ~((u + F) * A <= sum * (v + B)) BY <1>9
<1> HIDE DEF F, B, u, v
<1>13. (u + F) * A = u * A + F * A /\ sum * (v + B) = sum * v + sum * B BY <1>10, <1>11
<1>14. /\ u * A \in Int /\ F * A \in Int /\ sum * v \in Int /\ sum * B \in Int
  BY <1>10, <1>11
<1> QED BY <1>8, <1>11, <1>12, <1>13, <1>14

-----------------------------------------------------------------------------
\* The arithmetic of the bill.
LEMMA HalfUpNat ==
  ASSUME NEW n \in Nat, NEW d \in Nat \ {0}
  PROVE  HalfUp(n, d) \in Nat
BY DEF HalfUp

\* A discount in percent is no more than what it is taken of (order_pay).
LEMMA PercentOf ==
  ASSUME NEW n \in Nat, NEW p \in Hundredths
  PROVE  HalfUp(n * p, 10000) \in Nat /\ HalfUp(n * p, 10000) <= n
<1>1. n * p \in Nat /\ n * p <= n * 10000
  <2>1. p \in Nat /\ p <= 10000 BY DEF Hundredths
  <2>2. n * p + n * (10000 - p) = n * 10000 BY <2>1, SMT
  <2>3. n * p \in Nat /\ n * (10000 - p) \in Nat BY <2>1, SMT
  <2> QED BY <2>2, <2>3
<1> DEFINE m == n * p
<1>2. m \in Nat /\ m <= 10000 * n BY <1>1
<1> HIDE DEF m
<1>3. (2 * m + 10000) \div 20000 \in Nat /\ (2 * m + 10000) \div 20000 <= n BY <1>2
<1> QED BY <1>3 DEF HalfUp, m

\* The discount of the screen is that of the database, or one unit less at a tie;
\* without a percentage both are nothing.
LEMMA ScreenDiscount ==
  ASSUME NEW c \in Cashiers, screen[c].subtotal \in Nat, NEW pct \in Hundredths
  PROVE  /\ \/ Discounted(c, pct) = HalfUp(screen[c].subtotal * pct, 10000)
            \/ /\ Discounted(c, pct) = HalfUp(screen[c].subtotal * pct, 10000) - 1
               /\ Tie(screen[c].subtotal, pct)
         /\ pct = 0 => Discounted(c, pct) = 0
<1> DEFINE n == screen[c].subtotal
           h == HalfUp(n * pct, 10000)
<1>1. h \in Nat
  <2> HIDE DEF n
  <2> QED BY PercentOf DEF n
<1>2. <<n, pct>> \in TiesLost => Tie(n, pct)
  <2> HIDE DEF n
  <2> QED BY TiesAssumption
<1>3. Discounted(c, pct) = h - (IF <<n, pct>> \in TiesLost THEN 1 ELSE 0) BY DEF Discounted
<1>4. pct = 0 => h = 0 /\ ~Tie(n, pct)
  <2> HIDE DEF n
  <2> SUFFICES ASSUME pct = 0 PROVE h = 0 /\ ~Tie(n, pct) OBVIOUS
  <2>1. n * pct = 0 BY DEF n
  <2>2. (2 * 0 + 10000) \div (2 * 10000) = 0 /\ 0 % 10000 = 0 OBVIOUS
  <2> QED BY <2>1, <2>2 DEF HalfUp, Tie
<1> HIDE DEF h, n
<1>5. CASE <<n, pct>> \in TiesLost BY <1>1, <1>2, <1>3, <1>4, <1>5 DEF h, n
<1>6. CASE <<n, pct>> \notin TiesLost BY <1>1, <1>3, <1>4, <1>6 DEF h, n
<1> QED BY <1>5, <1>6

\* The two columns a payment writes, on a bill as the cashier has it on the screen.
LEMMA PaidColumns ==
  ASSUME NEW c \in Cashiers, Subtotal(bill) \in Nat, screen[c].subtotal = Subtotal(bill),
         NEW pct \in Hundredths
  PROVE  /\ PaidDiscount(pct, Discounted(c, pct)) = HalfUp(Subtotal(bill) * pct, 10000)
         /\ PaidDiscount(pct, Discounted(c, pct)) \in Nat
         /\ PaidDiscount(pct, Discounted(c, pct)) <= Subtotal(bill)
         /\ PaidPercent(pct, Discounted(c, pct)) = pct
<1> DEFINE n == Subtotal(bill)
           h == HalfUp(n * pct, 10000)
           sent == Discounted(c, pct)
<1>1. h \in Nat /\ h <= n
  <2> HIDE DEF n
  <2> QED BY PercentOf DEF n
<1>2. pct = 0 => sent = 0 BY ScreenDiscount
<1>3. pct = 0 => h = 0
  <2> SUFFICES ASSUME pct = 0 PROVE h = 0 OBVIOUS
  <2> HIDE DEF n
  <2>1. n * pct = 0 BY DEF n
  <2>2. (2 * 0 + 10000) \div (2 * 10000) = 0 OBVIOUS
  <2> QED BY <2>1, <2>2 DEF HalfUp
<1>4. PaidDiscount(pct, sent) = IF pct > 0 THEN h ELSE sent BY DEF PaidDiscount
<1>5. PaidPercent(pct, sent) = IF pct > 0 THEN pct
                               ELSE IF n > 0 THEN HalfUp(sent * 10000, n) ELSE 0
  BY DEF PaidPercent
<1> HIDE DEF n, h, sent
<1>6. n \in Nat BY DEF n
<1>7. n > 0 => HalfUp(0 * 10000, n) = 0
  <2> SUFFICES ASSUME n > 0 PROVE HalfUp(0 * 10000, n) = 0 OBVIOUS
  <2>1. (2 * (0 * 10000) + n) \div (2 * n) = 0
    <3>1. 2 * (0 * 10000) + n = n /\ 0 <= n /\ n < 2 * n BY <1>6
    <3>2. \A k \in Nat : k > 0 => k \div (2 * k) = 0 OBVIOUS
    <3> QED BY <1>6, <3>1, <3>2
  <2> QED BY <2>1 DEF HalfUp
<1>8. pct > 0 \/ pct = 0 BY DEF Hundredths
<1>9. PaidDiscount(pct, sent) = h BY <1>2, <1>3, <1>4, <1>8
<1>10. PaidPercent(pct, sent) = pct BY <1>2, <1>5, <1>7, <1>8
<1> QED BY <1>1, <1>9, <1>10 DEF n, h, sent

LEMMA AmountsAreNumbers ==
  ASSUME NEW amount \in Lines
  PROVE  amount \in [Items -> Nat] /\ SumFunction(amount) \in Nat
<1>1. Amounts \cup {0} \subseteq Nat BY MoneyAssumption
<1>2. amount \in [Items -> Nat] /\ DOMAIN amount = Items BY <1>1 DEF Lines
<1> QED BY <1>2, SumNat, MoneyAssumption DEF SumFunction

\* The shares of a sum add up to it, and none is negative: what the lines rounded
\* down leave is taken by the last one (allocate_order).
LEMMA SplitReconciles ==
  ASSUME NEW amount \in [Items -> Nat], NEW last \in Items, amount[last] > 0,
         NEW sum \in Nat
  PROVE  /\ Split(sum, amount, last) \in [Items -> Nat]
         /\ SumFunction(Split(sum, amount, last)) = sum
<1> DEFINE A == SumFunction(amount)
           part == [i \in Items |-> (sum * amount[i]) \div A]
           others == Items \ {last}
           borne == SumFunctionOnSet(part, others)
           rest == sum - borne
<1>1. IsFiniteSet(Items) /\ IsFiniteSet(others) /\ others \subseteq Items
  BY MoneyAssumption, FS_Subset
<1>2. /\ A = amount[last] + SumFunctionOnSet(amount, others)
      /\ SumFunctionOnSet(amount, others) \in Nat
  <2>1. A = SumFunctionOnSet(amount, Items) BY DEF SumFunction
  <2> HIDE DEF A
  <2>2. SumFunctionOnSet(amount, Items) =
          amount[last] + SumFunctionOnSet(amount, Items \ {last})
    BY <1>1, SumTake
  <2>3. SumFunctionOnSet(amount, others) \in Nat
    <3> HIDE DEF others
    <3> QED BY <1>1, SumNat
  <2> QED BY <2>1, <2>2, <2>3
<1>3. A \in Nat \ {0} /\ SumFunctionOnSet(amount, others) <= A BY <1>2
<1> HIDE DEF A
<1>4. \A i \in Items : part[i] \in Nat /\ part[i] * A <= sum * amount[i]
  <2> SUFFICES ASSUME NEW i \in Items
               PROVE  part[i] \in Nat /\ part[i] * A <= sum * amount[i]
    OBVIOUS
  <2> DEFINE n == sum * amount[i]
  <2>1. n \in Nat BY SMT
  <2>2. part[i] = n \div A OBVIOUS
  <2> HIDE DEF n, part
  <2>3. n \div A \in Nat /\ (n \div A) * A <= n BY <1>3, <2>1
  <2> QED BY <2>2, <2>3 DEF n
<1>5. part \in [Items -> Nat] BY <1>4
<1>6. borne \in Nat /\ borne * A <= sum * SumFunctionOnSet(amount, others)
  <2> HIDE DEF part, others
  <2>1. borne \in Nat BY <1>1, <1>5, SumNat
  <2>2. borne * A <= sum * SumFunctionOnSet(amount, others)
    BY <1>1, <1>3, <1>4, <1>5, SumFloors
  <2> QED BY <2>1, <2>2
<1>7. rest \in Nat
  <2> DEFINE o == SumFunctionOnSet(amount, others)
  <2> HIDE DEF borne, o
  <2>1. o \in Nat /\ o <= A /\ borne * A <= sum * o /\ borne \in Nat
    BY <1>2, <1>3, <1>6 DEF o
  <2>2. sum * o <= sum * A
    <3>1. sum * o + sum * (A - o) = sum * A BY <1>3, <2>1
    <3>2. sum * (A - o) \in Nat /\ sum * o \in Nat BY <1>3, <2>1
    <3> QED BY <3>1, <3>2
  <2>3. borne <= sum
    <3> SUFFICES ASSUME sum + 1 <= borne PROVE FALSE BY <2>1
    <3>1. borne * A = sum * A + (borne - sum) * A BY <1>3, <2>1
    <3>2. (borne - sum) * A \in Nat \ {0} BY <1>3, <2>1
    <3>3. sum * A \in Int /\ borne * A \in Int /\ sum * o \in Int BY <1>3, <2>1
    <3> QED BY <2>1, <2>2, <3>1, <3>2, <3>3
  <2> QED BY <2>1, <2>3
<1>8. Split(sum, amount, last) = [part EXCEPT ![last] = rest] BY DEF Split, A
<1> DEFINE share == [part EXCEPT ![last] = rest]
<1>9. share \in [Items -> Nat] /\ share[last] = rest /\ \A i \in others : share[i] = part[i]
  <2> HIDE DEF rest, part
  <2> QED BY <1>5, <1>7
<1> HIDE DEF share, rest, part, borne
<1>10. SumFunction(share) = SumFunctionOnSet(share, Items) BY <1>9 DEF SumFunction
<1>11. SumFunctionOnSet(share, Items) =
         share[last] + SumFunctionOnSet(share, Items \ {last})
  BY <1>1, <1>9, SumTake
<1>12. SumFunctionOnSet(share, others) = borne
  <2> HIDE DEF others
  <2> QED BY <1>1, <1>9, SumSame DEF borne
<1>13. SumFunction(share) = rest + borne BY <1>9, <1>10, <1>11, <1>12
<1>14. rest + borne = sum BY <1>6 DEF rest
<1> QED BY <1>8, <1>9, <1>13, <1>14 DEF share

-----------------------------------------------------------------------------
\* The columns of an order, and two ways it is changed.
LEMMA Columns ==
  ASSUME NEW b \in Bill
  PROVE  /\ b.status \in Statuses /\ b.version \in 0..MaxVersion /\ b.amount \in Lines
         /\ b.discount \in Nat /\ b.fee \in Fees \cup {0} /\ b.tax \in Nat
         /\ b.seated \in BOOLEAN /\ b.rate \in StoredRates
BY DEF Bill

LEMMA Moved ==
  ASSUME NEW b \in Bill, NEW s \in Statuses, NEW v \in 0..MaxVersion
  PROVE  [b EXCEPT !.status = s, !.version = v] \in Bill
BY Zenon DEF Bill

LEMMA Settled ==
  ASSUME NEW b \in Bill, NEW s \in Statuses, NEW v \in 0..MaxVersion, NEW discount \in Nat,
         NEW percent \in Hundredths, NEW cash \in Nat, NEW change \in Nat
  PROVE  [b EXCEPT !.status = s, !.version = v, !.discount = discount, !.percent = percent,
                   !.cash = cash, !.change = change] \in Bill
BY Zenon DEF Bill

\* What the type invariant says of the columns that are reckoned with.
LEMMA Kept ==
  ASSUME TypeOK
  PROVE  /\ bill \in Bill /\ bill.version \in Nat /\ bill.tax \in Nat
         /\ bill.discount \in Nat /\ bill.amount \in [Items -> Nat]
         /\ Subtotal(bill) \in Nat
         /\ \A c \in Cashiers : screen[c].version \in Nat
<1>1. bill \in Bill /\ bill.amount \in Lines /\ bill.version \in Nat
  BY Columns, MoneyAssumption DEF TypeOK
<1>2. bill.tax \in Nat /\ bill.discount \in Nat BY <1>1, Columns
<1>3. bill.amount \in [Items -> Nat] /\ Subtotal(bill) \in Nat
  BY <1>1, AmountsAreNumbers DEF Subtotal
<1>4. \A c \in Cashiers : screen[c].version \in Nat BY DEF TypeOK, Screen
<1> QED BY <1>1, <1>2, <1>3, <1>4

-----------------------------------------------------------------------------
\* What is on a screen is what the bill was at the version on the screen.
ScreensRecall ==
  /\ bill.status = "absent" => bill = NoBill
  /\ bill.status # "absent" => bill.version > 0
  /\ \A c \in Cashiers :
       /\ screen[c].version <= bill.version
       /\ bill.status # "absent" /\ screen[c].version = bill.version =>
            screen[c].subtotal = Subtotal(bill) /\ screen[c].tax = bill.tax

IInv == TypeOK /\ DrawerMatchesReceipt /\ SharesReconcile /\ ScreensRecall

LEMMA ZeroSum ==
  SumFunction([i \in Items |-> 0]) = 0
<1> DEFINE f == [i \in Items |-> 0]
           Bad == {s \in SUBSET Items : SumFunctionOnSet(f, s) # 0}
<1>1. Bad = {}
  <2> SUFFICES ASSUME Bad # {} PROVE FALSE OBVIOUS
  <2>1. \A s \in Bad : IsFiniteSet(s) BY MoneyAssumption, FS_Subset
  <2>2. PICK s \in Bad : \A t \in Bad : Cardinality(s) <= Cardinality(t)
    <3> HIDE DEF Bad
    <3> QED BY <2>1, LeastSet
  <2>3. s \in SUBSET Items /\ IsFiniteSet(s) BY <2>1
  <2>4. s # {} BY SumEmpty
  <2>5. Pick(s) \in s BY <2>4 DEF Pick
  <2>6. s \ {Pick(s)} \notin Bad
    <3> HIDE DEF Bad
    <3>1. Cardinality(s) \in Nat /\ Cardinality(s \ {Pick(s)}) = Cardinality(s) - 1
      BY <2>3, <2>5, Smaller
    <3>2. ~(Cardinality(s) <= Cardinality(s \ {Pick(s)})) BY <3>1
    <3> QED BY <2>2, <3>2
  <2>7. SumFunctionOnSet(f, s \ {Pick(s)}) = 0 BY <2>3, <2>6
  <2>8. f[Pick(s)] = 0 BY <2>3, <2>5
  <2> QED BY <2>3, <2>4, <2>7, <2>8, SumPick
<1>2. SumFunctionOnSet(f, Items) = 0 BY <1>1
<1> QED BY <1>2 DEF SumFunction

LEMMA InitIInv ==
  ASSUME Init
  PROVE  IInv
<1>1. TypeOK
  <2>1. NoBill \in Bill
    BY MoneyAssumption DEF NoBill, Bill, Statuses, Lines, Shares, StoredRates, Hundredths
  <2>2. Closed \in Screen BY DEF Closed, Screen
  <2> QED BY <2>1, <2>2 DEF Init, TypeOK
<1>2. SharesReconcile
  <2>1. Subtotal(NoBill) = 0 BY ZeroSum DEF Subtotal, NoBill
  <2> QED BY <2>1 DEF Init, SharesReconcile, NoBill, Unpaid
<1>3. DrawerMatchesReceipt BY DEF Init, DrawerMatchesReceipt, NoBill
<1>4. ScreensRecall BY DEF Init, ScreensRecall, NoBill, Closed
<1> QED BY <1>1, <1>2, <1>3, <1>4 DEF IInv

\* An order is written: created or changed.
LEMMA WrittenIInv ==
  ASSUME IInv, NEW b \in Bill, b.version = bill.version, b.version < MaxVersion,
         NEW amount \in Lines, NEW atTable \in BOOLEAN,
         NEW discount \in Nat, NEW fee \in Fees, NEW tax \in Taxes,
         Written(b, amount, atTable, discount, fee, tax)
  PROVE  IInv'
<1>1. amount \in [Items -> Nat] /\ SumFunction(amount) \in Nat BY AmountsAreNumbers
<1>2. PICK last \in {i \in Items : amount[i] > 0} :
        bill' = [b EXCEPT !.status = "pending", !.version = @ + 1, !.amount = amount,
                   !.seated = @ \/ atTable, !.discount = discount, !.fee = fee,
                   !.tax = IF atTable THEN TableTax(amount) ELSE tax,
                   !.rate = IF atTable THEN rate ELSE @,
                   !.discountShare = Split(discount, amount, last),
                   !.feeShare = Split(fee, amount, last)]
  BY DEF Written
<1>3. discount <= SumFunction(amount) /\ UNCHANGED <<rate, screen>>
  BY DEF Written, Within
<1> DEFINE shares == Split(discount, amount, last)
           fees == Split(fee, amount, last)
           taxed == IF atTable THEN TableTax(amount) ELSE tax
           rated == IF atTable THEN rate ELSE b.rate
<1>4. /\ shares \in Shares /\ SumFunction(shares) = discount
      /\ fees \in Shares /\ SumFunction(fees) = fee
  <2>1. fee \in Nat BY MoneyAssumption
  <2> QED BY <1>1, <2>1, SplitReconciles DEF Shares
<1>5. taxed \in Nat
  <2>1. rate \in Nat BY MoneyAssumption DEF IInv, TypeOK
  <2>2. SumFunction(amount) * rate \in Nat BY <1>1, <2>1
  <2>3. TableTax(amount) \in Nat BY <2>2, HalfUpNat DEF TableTax
  <2> QED BY <2>3, MoneyAssumption
<1>6. rated \in StoredRates BY Columns DEF IInv, TypeOK, StoredRates
<1>7. bill' = [b EXCEPT !.status = "pending", !.version = @ + 1, !.amount = amount,
                   !.seated = @ \/ atTable, !.discount = discount, !.fee = fee,
                   !.tax = taxed, !.rate = rated,
                   !.discountShare = shares, !.feeShare = fees]
  BY <1>2
<1> HIDE DEF shares, fees, taxed, rated
<1>8. b.version \in Nat /\ b.version + 1 \in 1 .. MaxVersion BY Columns, MoneyAssumption
<1>9. bill' \in Bill
  <2> DEFINE v == b.version + 1
             seated == b.seated \/ atTable
  <2>1. seated \in BOOLEAN BY Columns
  <2>2. v \in 0 .. MaxVersion /\ "pending" \in Statuses BY <1>8 DEF Statuses
  <2>3. bill' = [b EXCEPT !.status = "pending", !.version = v, !.amount = amount,
                   !.seated = seated, !.discount = discount, !.fee = fee,
                   !.tax = taxed, !.rate = rated,
                   !.discountShare = shares, !.feeShare = fees]
    BY <1>7, Zenon
  <2>4. fee \in Fees \cup {0} OBVIOUS
  <2> HIDE DEF v, seated
  <2>5. shares \in Shares /\ fees \in Shares BY <1>4
  <2>6. [b EXCEPT !.status = "pending", !.version = v, !.amount = amount, !.seated = seated,
                  !.discount = discount, !.fee = fee, !.tax = taxed, !.rate = rated,
                  !.discountShare = shares, !.feeShare = fees] \in Bill
    BY <1>5, <1>6, <2>1, <2>2, <2>4, <2>5, Zenon DEF Bill
  <2> QED BY <2>3, <2>6
<1>10. /\ bill'.status = "pending" /\ bill'.version = bill.version + 1
       /\ bill'.amount = amount /\ bill'.discount = discount /\ bill'.fee = fee
       /\ bill'.discountShare = shares /\ bill'.feeShare = fees
  BY <1>7 DEF Bill
<1>11. TypeOK' BY <1>3, <1>9 DEF IInv, TypeOK
<1>12. DrawerMatchesReceipt' BY <1>10 DEF DrawerMatchesReceipt
<1>13. SharesReconcile'
  <2>1. \A i \in Items : shares[i] >= 0 /\ fees[i] >= 0 BY <1>4 DEF Shares
  <2> QED BY <1>3, <1>4, <1>10, <2>1 DEF SharesReconcile, Subtotal
<1>14. ScreensRecall'
  <2>1. bill.version \in Nat BY <1>8
  <2>2. \A c \in Cashiers : screen[c].version \in Nat /\ screen[c].version <= bill.version
    BY Kept DEF IInv, ScreensRecall
  <2>3. \A c \in Cashiers : screen'[c].version < bill'.version BY <1>3, <1>10, <2>1, <2>2
  <2>4. \A c \in Cashiers : screen'[c].version \in Nat BY <1>3, <2>2
  <2> QED BY <1>10, <2>1, <2>3, <2>4 DEF ScreensRecall
<1> QED BY <1>11, <1>12, <1>13, <1>14 DEF IInv

LEMMA CreateIInv ==
  ASSUME IInv, NEW role \in Roles, NEW amount \in Lines,
         NEW atTable \in BOOLEAN, NEW discount \in Discounts, NEW fee \in Fees,
         NEW tax \in Taxes, OrderCreate(role, amount, atTable, discount, fee, tax)
  PROVE  IInv'
<1>1. bill = NoBill /\ bill \in Bill
  BY DEF OrderCreate, IInv, ScreensRecall, TypeOK
<1>2. NoBill.version < MaxVersion BY MoneyAssumption DEF NoBill
<1>3. Granted(role, atTable, discount) \in Nat
  BY <1>1, Columns, MoneyAssumption DEF Granted
<1> QED BY <1>1, <1>2, <1>3, WrittenIInv DEF OrderCreate

LEMMA UpdateIInv ==
  ASSUME IInv, NEW role \in Roles, NEW amount \in Lines,
         NEW atTable \in BOOLEAN, NEW discount \in Discounts, NEW fee \in Fees,
         NEW tax \in Taxes, OrderUpdate(role, amount, atTable, discount, fee, tax)
  PROVE  IInv'
<1>1. bill \in Bill BY DEF IInv, TypeOK
<1>2. Granted(role, atTable, discount) \in Nat
  BY <1>1, Columns, MoneyAssumption DEF Granted
<1> QED BY <1>1, <1>2, WrittenIInv DEF OrderUpdate

LEMMA TransitionIInv ==
  ASSUME IInv, NEW s \in {"preparing", "ready", "cancelled"}, OrderTransition(s)
  PROVE  IInv'
<1>1. bill \in Bill /\ bill.version \in Nat /\ bill.version + 1 \in 0 .. MaxVersion
  <2>1. bill \in Bill /\ bill.version \in 0 .. MaxVersion /\ bill.version < MaxVersion
    BY Columns DEF IInv, TypeOK, OrderTransition
  <2> QED BY <2>1, MoneyAssumption
<1>2. /\ bill' = [bill EXCEPT !.status = s, !.version = @ + 1] /\ UNCHANGED <<rate, screen>>
      /\ bill.status \in {"pending", "preparing", "ready"}
  BY DEF OrderTransition, Follows
<1>3. bill' \in Bill BY <1>1, <1>2, Moved DEF Statuses
<1>4. /\ bill'.status = s /\ bill'.version = bill.version + 1 /\ bill'.amount = bill.amount
      /\ bill'.discount = bill.discount /\ bill'.fee = bill.fee
      /\ bill'.discountShare = bill.discountShare /\ bill'.feeShare = bill.feeShare
  BY <1>1, <1>2 DEF Bill
<1>5. TypeOK' BY <1>2, <1>3 DEF IInv, TypeOK
<1>6. DrawerMatchesReceipt' BY <1>4 DEF DrawerMatchesReceipt
<1>7. SharesReconcile' BY <1>2, <1>4 DEF IInv, SharesReconcile, Subtotal, Unpaid, Shares
<1>8. ScreensRecall'
  <2>1. \A c \in Cashiers : screen[c].version \in Nat /\ screen[c].version <= bill.version
    BY Kept DEF IInv, ScreensRecall
  <2> QED BY <1>1, <1>2, <1>4, <2>1 DEF ScreensRecall
<1> QED BY <1>5, <1>6, <1>7, <1>8 DEF IInv

LEMMA OpenIInv ==
  ASSUME IInv, NEW c \in Cashiers, OpenBill(c)
  PROVE  IInv'
<1> DEFINE seen == [version |-> bill.version, subtotal |-> Subtotal(bill), tax |-> bill.tax]
<1>1. UNCHANGED <<rate, bill>> /\ bill.status # "absent"
      /\ screen' = [screen EXCEPT ![c] = seen]
  BY DEF OpenBill
<1>2. bill.version \in Nat /\ bill.tax \in Nat BY Kept DEF IInv
<1>3. Subtotal(bill) \in Nat BY Kept DEF IInv
<1>4. /\ seen \in Screen /\ seen.version = bill.version
      /\ seen.subtotal = Subtotal(bill) /\ seen.tax = bill.tax
  BY <1>2, <1>3 DEF Screen
<1> HIDE DEF seen
<1>5. /\ screen' \in [Cashiers -> Screen]
      /\ screen'[c] = seen /\ \A d \in Cashiers : d # c => screen'[d] = screen[d]
  BY <1>1, <1>4 DEF IInv, TypeOK
<1>6. TypeOK' BY <1>1, <1>5 DEF IInv, TypeOK
<1>7. DrawerMatchesReceipt' /\ SharesReconcile'
  BY <1>1 DEF IInv, DrawerMatchesReceipt, SharesReconcile, Total, Subtotal, Unpaid
<1>8. ScreensRecall' BY <1>1, <1>2, <1>4, <1>5 DEF IInv, ScreensRecall, Subtotal
<1> QED BY <1>6, <1>7, <1>8 DEF IInv

LEMMA PayIInv ==
  ASSUME IInv, NEW c \in Cashiers, NEW pct \in Percents, NEW cash \in Cash,
         OrderPay(c, pct, cash)
  PROVE  IInv'
<1> DEFINE sent == Discounted(c, pct)
           given == PaidDiscount(pct, sent)
           due == Due(given)
<1>1. bill \in Bill /\ bill.version \in Nat /\ bill.version + 1 \in 0 .. MaxVersion
  <2>1. bill \in Bill /\ bill.version \in 0 .. MaxVersion /\ bill.version < MaxVersion
    BY Columns DEF IInv, TypeOK, OrderPay
  <2> QED BY <2>1, MoneyAssumption
<1>2. Subtotal(bill) \in Nat BY Kept DEF IInv
<1>3. pct \in Hundredths /\ cash \in Nat BY MoneyAssumption
<1>4. given \in Nat /\ given <= Subtotal(bill) /\ PaidPercent(pct, sent) = pct
  <2>1. screen[c].subtotal = Subtotal(bill)
    BY DEF OrderPay, SameVersion, IInv, ScreensRecall
  <2> QED BY <1>2, <1>3, <2>1, PaidColumns
<1>5. /\ bill' = [bill EXCEPT !.status = "completed", !.version = @ + 1, !.discount = given,
                    !.percent = pct, !.cash = cash, !.change = cash - due]
      /\ UNCHANGED <<rate, screen>> /\ cash >= due
  BY <1>4 DEF OrderPay, Covers
<1>6. due = Subtotal(bill) - given + bill.tax BY DEF Due
<1> HIDE DEF given, due, sent
<1>7. bill.tax \in Nat BY Kept DEF IInv
<1>8. due \in Nat /\ cash - due \in Nat BY <1>2, <1>3, <1>4, <1>5, <1>6, <1>7
<1>9. bill' \in Bill
  <2> DEFINE v == bill.version + 1
             x == cash - due
  <2>1. bill' = [bill EXCEPT !.status = "completed", !.version = v, !.discount = given,
                    !.percent = pct, !.cash = cash, !.change = x]
    BY <1>5, Zenon
  <2>2. /\ v \in 0 .. MaxVersion /\ pct \in Hundredths /\ x \in Nat
        /\ "completed" \in Statuses
    BY <1>1, <1>3, <1>8 DEF Statuses
  <2> HIDE DEF v, x
  <2> QED BY <1>1, <1>3, <1>4, <2>1, <2>2, Settled
<1>10. /\ bill'.status = "completed" /\ bill'.version = bill.version + 1
       /\ bill'.amount = bill.amount /\ bill'.tax = bill.tax /\ bill'.discount = given
       /\ bill'.cash = cash /\ bill'.change = cash - due
  BY <1>1, <1>5 DEF Bill
<1>11. TypeOK' BY <1>5, <1>9 DEF IInv, TypeOK
<1>12. DrawerMatchesReceipt'
  <2>1. Subtotal(bill)' = Subtotal(bill) BY <1>10 DEF Subtotal
  <2>2. Total(bill)' = due BY <1>6, <1>10, <2>1 DEF Total
  <2> QED BY <1>3, <1>8, <1>10, <2>2 DEF DrawerMatchesReceipt
<1>13. SharesReconcile' BY <1>4, <1>10 DEF SharesReconcile, Subtotal, Unpaid
<1>14. ScreensRecall'
  <2>1. \A d \in Cashiers : screen[d].version \in Nat /\ screen[d].version <= bill.version
    BY Kept DEF IInv, ScreensRecall
  <2> QED BY <1>1, <1>5, <1>10, <2>1 DEF ScreensRecall
<1> QED BY <1>11, <1>12, <1>13, <1>14 DEF IInv

LEMMA NextIInv ==
  ASSUME IInv, [Next]_vars
  PROVE  IInv'
<1>1. ASSUME NEW r \in Rates, RateSet(r) PROVE IInv'
  BY <1>1 DEF RateSet, IInv, TypeOK, DrawerMatchesReceipt, SharesReconcile, ScreensRecall,
              Total, Subtotal, Unpaid
<1>2. CASE UNCHANGED vars
  BY <1>2 DEF vars, IInv, TypeOK, DrawerMatchesReceipt, SharesReconcile, ScreensRecall,
              Total, Subtotal, Unpaid
<1> QED BY <1>1, <1>2, CreateIInv, UpdateIInv, TransitionIInv, OpenIInv, PayIInv DEF Next

LEMMA AlwaysIInv ==
  Spec => []IInv
<1>1. Init => IInv BY InitIInv
<1>2. IInv /\ [Next]_vars => IInv' BY NextIInv
<1> QED BY <1>1, <1>2, PTL DEF Spec

-----------------------------------------------------------------------------
\* The columns keep their types: no rounding, share or change is ever negative
\* (checks of the order tables).
THEOREM BillTypes ==
  Spec => []TypeOK
<1>1. IInv => TypeOK BY DEF IInv
<1> QED BY <1>1, AlwaysIInv, PTL

\* What stays in the drawer for a completed order is the total of its receipt
\* (order_pay, order_json).
THEOREM DrawerCounts ==
  Spec => []DrawerMatchesReceipt
<1>1. IInv => DrawerMatchesReceipt BY DEF IInv
<1> QED BY <1>1, AlwaysIInv, PTL

\* Whatever a line is, and whichever takes the rest: the shares add up to the
\* discount and the fees, and a discount is no more than the lines (allocate_order).
THEOREM SharesAddUp ==
  Spec => []SharesReconcile
<1>1. IInv => SharesReconcile BY DEF IInv
<1> QED BY <1>1, AlwaysIInv, PTL

-----------------------------------------------------------------------------
\* The action properties.
LEMMA MovedIsFixed ==
  ASSUME NEW b \in Bill, NEW s, NEW v
  PROVE  Fixed([b EXCEPT !.status = s, !.version = v]) = Fixed(b)
BY Zenon DEF Bill, Fixed

\* From preparation on no command changes the lines, the fees or the tax of an
\* order, and none but the payment the discount (order_update refuses, the rate of
\* the table is copied when the order is written).
THEOREM FrozenBill ==
  Spec => BillFrozen
<1> DEFINE Keeps ==
      bill.status \notin {"absent", "pending"} =>
        /\ Fixed(bill') = Fixed(bill)
        /\ bill'.status # "completed" \/ bill.status = "completed" =>
             bill'.discount = bill.discount /\ bill'.cash = bill.cash
<1>1. IInv /\ [Next]_vars => [Keeps]_vars
  <2> SUFFICES ASSUME IInv, Next, bill.status \notin {"absent", "pending"} PROVE Keeps
    OBVIOUS
  <2>1. bill \in Bill BY Kept DEF IInv
  <2>2. CASE bill' = bill BY <2>2
  <2>3. ASSUME NEW s \in {"preparing", "ready", "cancelled"}, OrderTransition(s) PROVE Keeps
    <3> DEFINE v == bill.version + 1
    <3>1. bill' = [bill EXCEPT !.status = s, !.version = v] BY <2>3 DEF OrderTransition
    <3> HIDE DEF v
    <3>2. Fixed(bill') = Fixed(bill) BY <2>1, <3>1, MovedIsFixed
    <3>3. bill'.discount = bill.discount /\ bill'.cash = bill.cash
      BY <2>1, <3>1 DEF Bill
    <3> QED BY <3>2, <3>3
  <2>4. ASSUME NEW c \in Cashiers, NEW pct \in Percents, NEW cash \in Cash,
               OrderPay(c, pct, cash)
        PROVE  Keeps
    <3> DEFINE v == bill.version + 1
               sent == Discounted(c, pct)
               given == PaidDiscount(pct, sent)
               p == PaidPercent(pct, sent)
               x == cash - Due(given)
    <3>1. bill' = [bill EXCEPT !.status = "completed", !.version = v, !.discount = given,
                     !.percent = p, !.cash = cash, !.change = x] /\ bill.status = "ready"
      BY <2>4 DEF OrderPay
    <3> HIDE DEF v, sent, given, p, x
    <3>2. Fixed(bill') = Fixed(bill) BY <2>1, <3>1, Zenon DEF Bill, Fixed
    <3>3. bill'.status = "completed" BY <2>1, <3>1 DEF Bill
    <3> QED BY <3>1, <3>2, <3>3
  <2>5. \A role, amount, atTable, discount, fee, tax :
          /\ ~OrderCreate(role, amount, atTable, discount, fee, tax)
          /\ ~OrderUpdate(role, amount, atTable, discount, fee, tax)
    BY DEF OrderCreate, OrderUpdate, Editable
  <2>6. \A r : RateSet(r) => bill' = bill BY DEF RateSet
  <2>7. \A c : OpenBill(c) => bill' = bill BY DEF OpenBill
  <2> HIDE DEF Keeps
  <2> QED BY <2>2, <2>3, <2>4, <2>5, <2>6, <2>7 DEF Next
<1> HIDE DEF Keeps
<1>2. Spec => [][Keeps]_vars BY <1>1, AlwaysIInv, PTL DEF Spec
<1> QED BY <1>2 DEF BillFrozen, Keeps

\* However old the screen of the cashier is, and whatever others do to the order in
\* between: a payment that is accepted takes the amount the screen showed (the
\* version order_pay compares stands for the lines and the tax), or one unit less
\* where the exact discount is a tie, whichever ties the browser rounds down.
THEOREM ShownIsCollected ==
  Spec => CollectedAsShown
<1> DEFINE Taken ==
      bill.status = "ready" /\ bill'.status = "completed" =>
        \E c \in Cashiers :
          LET taken == bill'.cash - bill'.change
              shown == Shown(c, bill'.percent)
          IN  taken = shown
              \/ (taken = shown - 1 /\ Tie(screen[c].subtotal, bill'.percent))
<1>1. IInv /\ [Next]_vars => [Taken]_vars
  <2> SUFFICES ASSUME IInv, Next, bill.status = "ready", bill'.status = "completed"
               PROVE  Taken
    OBVIOUS
  <2>1. bill \in Bill /\ Subtotal(bill) \in Nat /\ bill.tax \in Nat BY Kept DEF IInv
  <2>2. PICK c \in Cashiers, pct \in Percents, cash \in Cash : OrderPay(c, pct, cash)
    <3>1. \A role, amount, atTable, discount, fee, tax :
            /\ ~OrderCreate(role, amount, atTable, discount, fee, tax)
            /\ ~OrderUpdate(role, amount, atTable, discount, fee, tax)
      BY DEF OrderCreate, OrderUpdate, Editable
    <3>2. \A s \in {"preparing", "ready", "cancelled"} : ~OrderTransition(s)
      <4> SUFFICES ASSUME NEW s \in {"preparing", "ready", "cancelled"}, OrderTransition(s)
                   PROVE  FALSE
        OBVIOUS
      <4>1. bill'.status = s BY <2>1 DEF OrderTransition, Bill
      <4> QED BY <4>1
    <3>3. \A r : ~RateSet(r) BY DEF RateSet
    <3>4. \A d : ~OpenBill(d) BY DEF OpenBill
    <3> QED BY <3>1, <3>2, <3>3, <3>4 DEF Next
  <2> DEFINE n == Subtotal(bill)
             h == HalfUp(n * pct, 10000)
             sent == Discounted(c, pct)
             given == PaidDiscount(pct, sent)
             due == Due(given)
  <2>3. screen[c].version = bill.version BY <2>2 DEF OrderPay, SameVersion
  <2>4. screen[c].subtotal = n /\ screen[c].tax = bill.tax BY <2>3 DEF IInv, ScreensRecall
  <2>5. pct \in Hundredths /\ cash \in Nat BY MoneyAssumption
  <2>6. /\ given = h /\ h \in Nat /\ n \in Nat
        /\ PaidPercent(pct, sent) = pct
    BY <2>1, <2>4, <2>5, PaidColumns
  <2>7. bill' = [bill EXCEPT !.status = "completed", !.version = @ + 1,
                   !.discount = given, !.percent = pct,
                   !.cash = cash, !.change = cash - due]
    BY <2>2, <2>6 DEF OrderPay
  <2>8. bill'.percent = pct /\ bill'.cash = cash /\ bill'.change = cash - due
    <3> HIDE DEF given, due
    <3> QED BY <2>1, <2>7 DEF Bill
  <2>9. Shown(c, pct) = n - sent + bill.tax BY <2>4 DEF Shown
  <2>10. sent = h \/ (sent = h - 1 /\ Tie(screen[c].subtotal, pct))
    BY <2>1, <2>4, <2>5, ScreenDiscount
  <2>11. due = n - given + bill.tax BY DEF Due
  <2> HIDE DEF n, h, sent, given, due
  <2>12. cash - (cash - due) = n - h + bill.tax BY <2>1, <2>5, <2>6, <2>11
  <2>13. CASE sent = h BY <2>8, <2>9, <2>12, <2>13
  <2>14. CASE sent = h - 1 /\ Tie(screen[c].subtotal, pct)
    <3>1. Shown(c, pct) = n - h + 1 + bill.tax BY <2>1, <2>6, <2>9, <2>14
    <3>2. cash - (cash - due) = Shown(c, pct) - 1 BY <2>1, <2>6, <2>12, <3>1
    <3> QED BY <2>8, <2>14, <3>2
  <2> QED BY <2>10, <2>13, <2>14
<1> HIDE DEF Taken
<1>2. Spec => [][Taken]_vars BY <1>1, AlwaysIInv, PTL DEF Spec
<1> QED BY <1>2 DEF CollectedAsShown, Taken

=============================================================================
