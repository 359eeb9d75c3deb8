------------------------- MODULE CallSettlementProofs -------------------------
(***************************************************************************)
(* Proofs about CallSettlement for any calls, reconcilers, charges, holds, *)
(* deposits and crashes: the wallet pays what the sessions show, and no    *)
(* refund turns promotional credit into paid credit.                       *)
(***************************************************************************)
EXTENDS CallSettlement, FiniteSetTheorems, WellFoundedInduction, TLAPS

-----------------------------------------------------------------------------
(* Sums over finite sets, by induction on least counterexamples.           *)

\* Induction over the natural numbers, about a set instead of a predicate.
LEMMA Induction ==
    ASSUME NEW T, 0 \in T, \A n \in Nat : n \in T => n + 1 \in T
    PROVE  \A n \in Nat : n \in T
  <1> SUFFICES ASSUME NEW k \in Nat \ T PROVE FALSE
    OBVIOUS
  <1>1. IsWellFoundedOn(OpToRel(<,Nat), Nat)
    BY NatLessThanWellFounded
  <1>2. PICK m \in Nat \ T : \A y \in Nat \ T : ~ (<<y, m>> \in OpToRel(<,Nat))
    BY <1>1, WFMin
  <1>3. \A y \in Nat \ T : ~(y < m)
    BY <1>2 DEF OpToRel
  <1>4. m - 1 \in Nat /\ m - 1 < m
    OBVIOUS
  <1>5. m - 1 \in T
    BY <1>3, <1>4
  <1> QED BY <1>4, <1>5

\* The recursion that the library's fold follows.
Pick(T) == CHOOSE x \in T : TRUE
SumStep(g, f, T) == IF T = {} THEN 0 ELSE f[Pick(T)] + g[T \ {Pick(T)}]
Sums(g, f, S) == g = [T \in SUBSET S |-> SumStep(g, f, T)]

LEMMA Parts ==
    ASSUME NEW S, IsFiniteSet(S), NEW T \in SUBSET S
    PROVE  /\ IsFiniteSet(T) /\ Cardinality(T) \in Nat /\ Cardinality(T) <= Cardinality(S)
           /\ T # {} => Pick(T) \in T
           /\ Cardinality(T) = 0 => T = {}
           /\ \A x \in T : /\ T \ {x} \in SUBSET S
                           /\ Cardinality(T \ {x}) = Cardinality(T) - 1
  <1>1. IsFiniteSet(T) /\ Cardinality(T) \in Nat /\ Cardinality(T) <= Cardinality(S)
    BY FS_Subset, FS_CardinalityType
  <1>2. T # {} => Pick(T) \in T
    BY DEF Pick
  <1>3. Cardinality(T) = 0 => T = {}
    BY <1>1, FS_EmptySet
  <1>4. \A x \in T : Cardinality(T \ {x}) = Cardinality(T) - 1
    BY <1>1, FS_RemoveElement
  <1> QED BY <1>1, <1>2, <1>3, <1>4

LEMMA SumsExist ==
    ASSUME NEW S, IsFiniteSet(S), NEW f \in [S -> Int]
    PROVE  \E g \in [SUBSET S -> Int] : Sums(g, f, S)
  <1> DEFINE To(n, g) == \A T \in SUBSET S : Cardinality(T) <= n => g[T] = SumStep(g, f, T)
             Good == {n \in Nat : \E g \in [SUBSET S -> Int] : To(n, g)}
  <1>1. 0 \in Good
    <2> DEFINE g == [T \in SUBSET S |-> 0]
    <2>1. g \in [SUBSET S -> Int]
      OBVIOUS
    <2>2. ASSUME NEW T \in SUBSET S, Cardinality(T) <= 0
          PROVE  g[T] = SumStep(g, f, T)
      <3>1. T = {}
        BY <2>2, Parts
      <3> QED BY <3>1 DEF SumStep
    <2> QED BY <2>1, <2>2
  <1>2. ASSUME NEW n \in Nat, n \in Good
        PROVE  n + 1 \in Good
    <2>1. PICK g \in [SUBSET S -> Int] : To(n, g)
      BY <1>2
    <2> DEFINE h == [T \in SUBSET S |-> IF Cardinality(T) = n + 1 THEN SumStep(g, f, T) ELSE g[T]]
    <2>2. ASSUME NEW T \in SUBSET S, T # {}
          PROVE  f[Pick(T)] \in Int /\ g[T \ {Pick(T)}] \in Int
      BY <2>2, Parts
    <2>3. h \in [SUBSET S -> Int]
      <3>1. \A T \in SUBSET S : SumStep(g, f, T) \in Int
        BY <2>2 DEF SumStep
      <3> QED BY <3>1
    <2>4. ASSUME NEW T \in SUBSET S, Cardinality(T) <= n + 1
          PROVE  h[T] = SumStep(h, f, T)
      <3>1. CASE T = {}
        <4>1. Cardinality(T) = 0
          BY <3>1, FS_EmptySet
        <4>2. g[T] = 0
          BY <2>1, <3>1, <4>1 DEF SumStep
        <4>3. Cardinality(T) # n + 1
          BY <4>1
        <4>4. h[T] = g[T]
          BY <4>3
        <4> QED BY <3>1, <4>2, <4>4 DEF SumStep
      <3>2. CASE T # {}
        <4>1. PICK p : p = Pick(T)
          OBVIOUS
        <4>2. p \in T /\ T \ {p} \in SUBSET S /\ Cardinality(T \ {p}) = Cardinality(T) - 1
              /\ Cardinality(T) \in Nat
          BY <3>2, <4>1, Parts
        <4>3. Cardinality(T \ {p}) # n + 1
          BY <2>4, <4>2
        <4>4. h[T \ {p}] = g[T \ {p}]
          BY <4>2, <4>3
        <4>5. SumStep(h, f, T) = SumStep(g, f, T)
          BY <4>1, <4>4 DEF SumStep
        <4>6. CASE Cardinality(T) = n + 1
          BY <4>5, <4>6
        <4>7. CASE Cardinality(T) # n + 1
          <5>1. Cardinality(T) <= n
            BY <2>4, <4>2, <4>7
          <5>2. g[T] = SumStep(g, f, T)
            BY <2>1, <5>1
          <5> QED BY <4>5, <4>7, <5>2
        <4> QED BY <4>6, <4>7
      <3> QED BY <3>1, <3>2
    <2>5. To(n + 1, h)
      BY <2>4
    <2> HIDE DEF h
    <2> QED BY <2>3, <2>5
  <1>3. Cardinality(S) \in Good
    <2> HIDE DEF Good
    <2> QED BY <1>1, <1>2, Induction, FS_CardinalityType
  <1>4. PICK g \in [SUBSET S -> Int] : To(Cardinality(S), g)
    BY <1>3
  <1>5. \A T \in SUBSET S : g[T] = SumStep(g, f, T)
    BY <1>4, Parts
  <1>6. Sums(g, f, S)
    BY <1>5 DEF Sums
  <1> QED BY <1>6

\* Induction over the subsets of a finite set.
LEMMA PartsInduction ==
    ASSUME NEW S, IsFiniteSet(S), NEW Q,
           \A T \in SUBSET S : (\A x \in T : T \ {x} \in Q) => T \in Q
    PROVE  \A T \in SUBSET S : T \in Q
  <1> DEFINE Good == {n \in Nat : \A T \in SUBSET S : Cardinality(T) = n => T \in Q}
  <1>1. 0 \in Good
    <2>1. ASSUME NEW T \in SUBSET S, Cardinality(T) = 0
          PROVE  T \in Q
      <3>1. T = {}
        BY <2>1, Parts
      <3> QED BY <3>1
    <2> QED BY <2>1
  <1>2. ASSUME NEW n \in Nat, n \in Good
        PROVE  n + 1 \in Good
    <2>1. ASSUME NEW T \in SUBSET S, Cardinality(T) = n + 1
          PROVE  T \in Q
      <3>1. \A x \in T : T \ {x} \in SUBSET S /\ Cardinality(T \ {x}) = n
        <4>1. \A x \in T : T \ {x} \in SUBSET S /\ Cardinality(T \ {x}) = Cardinality(T) - 1
          BY Parts
        <4> QED BY <2>1, <4>1
      <3>2. \A x \in T : T \ {x} \in Q
        BY <1>2, <3>1
      <3> QED BY <3>2
    <2> QED BY <2>1
  <1>3. \A n \in Nat : n \in Good
    <2> HIDE DEF Good
    <2> QED BY <1>1, <1>2, Induction
  <1> QED BY <1>3, Parts

LEMMA SumsUnique ==
    ASSUME NEW S, IsFiniteSet(S), NEW f, NEW g, NEW h, Sums(g, f, S), Sums(h, f, S)
    PROVE  g = h
  <1> DEFINE Q == {T \in SUBSET S : g[T] = h[T]}
  <1>1. ASSUME NEW T \in SUBSET S, \A x \in T : T \ {x} \in Q
        PROVE  T \in Q
    <2>1. g[T] = SumStep(g, f, T) /\ h[T] = SumStep(h, f, T)
      BY DEF Sums
    <2>2. T # {} => Pick(T) \in T
      BY Parts
    <2>3. SumStep(g, f, T) = SumStep(h, f, T)
      BY <1>1, <2>2 DEF SumStep
    <2> QED BY <2>1, <2>3
  <1>2. \A T \in SUBSET S : T \in Q
    <2> HIDE DEF Q
    <2> QED BY <1>1, PartsInduction
  <1>3. g = [T \in SUBSET S |-> g[T]] /\ h = [T \in SUBSET S |-> h[T]]
    BY DEF Sums
  <1> QED BY <1>2, <1>3

\* A function that adds up every subset, whichever element is taken first.
AddsUp(g, f, S) ==
    /\ g \in [SUBSET S -> Int]
    /\ SumFunctionOnSet(f, S) = g[S]
    /\ g[{}] = 0
    /\ \A T \in SUBSET S : \A x \in T : g[T] = f[x] + g[T \ {x}]

LEMMA SumIs ==
    ASSUME NEW S, IsFiniteSet(S), NEW f \in [S -> Int]
    PROVE  \E g : AddsUp(g, f, S)
  <1> DEFINE it == CHOOSE g : g = [T \in SUBSET S |->
                       IF T = {} THEN 0
                       ELSE f[CHOOSE x \in T : TRUE] + g[T \ {CHOOSE x \in T : TRUE}]]
  <1>1. SumFunctionOnSet(f, S) = it[S]
    BY DEF SumFunctionOnSet, FoldFunctionOnSet, MapThenFoldSet
  <1>2. it = CHOOSE g : Sums(g, f, S)
    BY DEF Sums, SumStep, Pick
  <1> HIDE DEF it
  <1>3. PICK g \in [SUBSET S -> Int] : Sums(g, f, S)
    BY SumsExist
  <1>4. Sums(it, f, S)
    BY <1>2, <1>3
  <1>5. it = g
    BY <1>3, <1>4, SumsUnique
  <1>6. \A T \in SUBSET S : g[T] = SumStep(g, f, T)
    BY <1>3 DEF Sums
  <1>7. g[{}] = 0
    BY <1>6 DEF SumStep
  <1> DEFINE Q == {T \in SUBSET S : \A x \in T : g[T] = f[x] + g[T \ {x}]}
  <1>8. ASSUME NEW T \in SUBSET S, \A x \in T : T \ {x} \in Q
        PROVE  T \in Q
    <2> SUFFICES ASSUME NEW x \in T
                 PROVE  g[T] = f[x] + g[T \ {x}]
      OBVIOUS
    <2>1. PICK p : p = Pick(T)
      OBVIOUS
    <2>2. p \in T
      BY <2>1, Parts
    <2>3. g[T] = f[p] + g[T \ {p}]
      BY <1>6, <2>1, <2>2 DEF SumStep
    <2>4. CASE x = p
      BY <2>3, <2>4
    <2>5. CASE x # p
      <3>1. g[T \ {p}] = f[x] + g[(T \ {p}) \ {x}]
        BY <1>8, <2>2, <2>5
      <3>2. g[T \ {x}] = f[p] + g[(T \ {x}) \ {p}]
        BY <1>8, <2>2, <2>5
      <3>3. (T \ {p}) \ {x} = (T \ {x}) \ {p} /\ (T \ {p}) \ {x} \in SUBSET S
        OBVIOUS
      <3>4. PICK rest \in Int : rest = g[(T \ {p}) \ {x}]
        BY <3>3
      <3>5. g[T \ {p}] = f[x] + rest /\ g[T \ {x}] = f[p] + rest
        BY <3>1, <3>2, <3>3, <3>4
      <3>6. f[x] \in Int /\ f[p] \in Int
        BY <2>2
      <3>7. f[p] + (f[x] + rest) = f[x] + (f[p] + rest)
        BY <3>4, <3>6
      <3> QED BY <2>3, <3>5, <3>7
    <2> QED BY <2>4, <2>5
  <1>9. \A T \in SUBSET S : T \in Q
    <2> HIDE DEF Q
    <2> QED BY <1>8, PartsInduction
  <1> QED BY <1>1, <1>3, <1>5, <1>7, <1>9 DEF AddsUp

LEMMA SumType ==
    ASSUME NEW S, IsFiniteSet(S), NEW f \in [S -> Int]
    PROVE  SumFunctionOnSet(f, S) \in Int
  <1>1. PICK g : AddsUp(g, f, S)
    BY SumIs
  <1> QED BY <1>1 DEF AddsUp

LEMMA SumOfZeros ==
    ASSUME NEW S, IsFiniteSet(S), NEW f \in [S -> Int], \A x \in S : f[x] = 0
    PROVE  SumFunctionOnSet(f, S) = 0
  <1>1. PICK g : AddsUp(g, f, S)
    BY SumIs
  <1> DEFINE Q == {T \in SUBSET S : g[T] = 0}
  <1>2. ASSUME NEW T \in SUBSET S, \A x \in T : T \ {x} \in Q
        PROVE  T \in Q
    <2>1. CASE T = {}
      BY <1>1, <2>1 DEF AddsUp
    <2>2. CASE T # {}
      <3>1. PICK x \in T : TRUE
        BY <2>2
      <3>2. g[T] = f[x] + g[T \ {x}] /\ f[x] = 0 /\ g[T \ {x}] = 0
        BY <1>1, <1>2, <3>1 DEF AddsUp
      <3> QED BY <3>2
    <2> QED BY <2>1, <2>2
  <1>3. \A T \in SUBSET S : T \in Q
    <2> HIDE DEF Q
    <2> QED BY <1>2, PartsInduction
  <1> QED BY <1>1, <1>3 DEF AddsUp

\* No term of a sum of naturals exceeds it.
LEMMA SumOfNaturals ==
    ASSUME NEW S, IsFiniteSet(S), NEW f \in [S -> Nat]
    PROVE  /\ SumFunctionOnSet(f, S) \in Nat
           /\ \A x \in S : f[x] <= SumFunctionOnSet(f, S)
  <1>0. f \in [S -> Int]
    OBVIOUS
  <1>1. PICK g : AddsUp(g, f, S)
    BY <1>0, SumIs
  <1> DEFINE Q == {T \in SUBSET S : g[T] >= 0}
  <1>2. ASSUME NEW T \in SUBSET S, \A x \in T : T \ {x} \in Q
        PROVE  T \in Q
    <2>1. CASE T = {}
      BY <1>1, <2>1 DEF AddsUp
    <2>2. CASE T # {}
      <3>1. PICK x \in T : TRUE
        BY <2>2
      <3>2. g[T] = f[x] + g[T \ {x}] /\ f[x] \in Nat /\ g[T \ {x}] >= 0 /\ g[T \ {x}] \in Int
        BY <1>1, <1>2, <3>1 DEF AddsUp
      <3> QED BY <3>2
    <2> QED BY <2>1, <2>2
  <1>3. \A T \in SUBSET S : T \in Q
    <2> HIDE DEF Q
    <2> QED BY <1>2, PartsInduction
  <1>4. ASSUME NEW x \in S
        PROVE  f[x] <= g[S]
    <2>1. g[S] = f[x] + g[S \ {x}] /\ g[S \ {x}] >= 0 /\ g[S \ {x}] \in Int /\ f[x] \in Nat
      BY <1>1, <1>3 DEF AddsUp
    <2> QED BY <2>1
  <1> QED BY <1>1, <1>3, <1>4 DEF AddsUp

\* A sum whose terms change in one place.
LEMMA SumChange ==
    ASSUME NEW S, IsFiniteSet(S), NEW f \in [S -> Int], NEW h \in [S -> Int], NEW c \in S,
           \A x \in S \ {c} : h[x] = f[x]
    PROVE  SumFunctionOnSet(h, S) = SumFunctionOnSet(f, S) - f[c] + h[c]
  <1>1. PICK F : AddsUp(F, f, S)
    BY SumIs
  <1>2. PICK H : AddsUp(H, h, S)
    BY SumIs
  <1> DEFINE Q == {T \in SUBSET S : c \notin T => F[T] = H[T]}
  <1>3. ASSUME NEW T \in SUBSET S, \A x \in T : T \ {x} \in Q
        PROVE  T \in Q
    <2>1. CASE T = {}
      BY <1>1, <1>2, <2>1 DEF AddsUp
    <2>2. CASE T # {} /\ c \notin T
      <3>1. PICK x \in T : TRUE
        BY <2>2
      <3>2. h[x] = f[x] /\ F[T \ {x}] = H[T \ {x}]
        BY <1>3, <2>2, <3>1
      <3>3. F[T] = f[x] + F[T \ {x}] /\ H[T] = h[x] + H[T \ {x}]
        BY <1>1, <1>2, <3>1 DEF AddsUp
      <3>4. F[T] = H[T]
        BY <3>2, <3>3
      <3> QED BY <3>4
    <2> QED BY <2>1, <2>2
  <1>4. \A T \in SUBSET S : T \in Q
    <2> HIDE DEF Q
    <2> QED BY <1>3, PartsInduction
  <1>5. F[S \ {c}] = H[S \ {c}]
    BY <1>4
  <1>6. /\ F[S] = f[c] + F[S \ {c}] /\ H[S] = h[c] + H[S \ {c}]
        /\ F[S \ {c}] \in Int /\ f[c] \in Int /\ h[c] \in Int
    BY <1>1, <1>2 DEF AddsUp
  <1> QED BY <1>1, <1>2, <1>5, <1>6 DEF AddsUp
-----------------------------------------------------------------------------
(* What the wallet's deltas do to an account.                              *)

Net(a) == a.paid + a.promo + a.reservedPaid + a.reservedPromo - a.debt

LEMMA Payment ==
    ASSUME NEW a \in Accounts, NEW amount \in Nat,
           NEW b, b = Projected(a, CreditDeltas(a, amount))
    PROVE  /\ b \in Accounts /\ Net(b) = Net(a) + amount
           /\ b.reservedPaid = a.reservedPaid /\ b.reservedPromo = a.reservedPromo
           /\ b.paid - b.debt = a.paid - a.debt + amount
           /\ b.paid <= a.paid + amount /\ b.debt <= a.debt
           /\ b.debt > 0 => b.paid = a.paid
  BY DEF Accounts, Projected, CreditDeltas, BalanceDeltas, MinMicros, Net

LEMMA Reservation ==
    ASSUME NEW a \in Accounts, NEW p \in Nat, NEW q \in Nat, p <= a.paid, q <= a.promo,
           NEW b, b = Projected(a, ReserveDeltas(p, q))
    PROVE  /\ b \in Accounts /\ Net(b) = Net(a) /\ b.debt = a.debt
           /\ b.reservedPaid = a.reservedPaid + p /\ b.reservedPromo = a.reservedPromo + q
           /\ b.paid = a.paid - p
  BY DEF Accounts, Projected, ReserveDeltas, Net

\* What a settlement takes: from the hold, from the balances, then as debt.
Takes(a, p, q, actual, d) ==
    \E spent, paidSpent, promoDebit, paidDebit \in Nat :
       LET over == actual - spent - paidSpent
       IN  /\ spent <= q /\ spent <= actual
           /\ paidSpent <= p /\ paidSpent <= actual - spent
           /\ over > 0 => paidSpent = p
           /\ promoDebit <= a.promo /\ promoDebit <= over
           /\ paidDebit <= a.paid /\ paidDebit <= over - promoDebit
           /\ over > promoDebit + paidDebit => paidDebit = a.paid
           /\ d = [paid |-> p - paidSpent - paidDebit, promo |-> q - spent - promoDebit,
                   reservedPaid |-> -p, reservedPromo |-> -q,
                   debt |-> over - promoDebit - paidDebit]

LEMMA SettlementTakes ==
    ASSUME NEW a \in Accounts, NEW p \in Nat, NEW q \in Nat, NEW actual \in Nat,
           NEW d, d = SettleDeltas(a, p, q, TRUE, actual)
    PROVE  Takes(a, p, q, actual, d)
  <1>1. PICK spent : spent = MinMicros(q, actual)
    OBVIOUS
  <1>2. PICK paidSpent : paidSpent = MinMicros(p, actual - spent)
    OBVIOUS
  <1>3. PICK over : over = actual - spent - paidSpent
    OBVIOUS
  <1>4. PICK promoDebit : promoDebit = MinMicros(a.promo, over)
    OBVIOUS
  <1>5. PICK paidDebit : paidDebit = MinMicros(a.paid, over - promoDebit)
    OBVIOUS
  <1>6. d = [paid |-> p - paidSpent - paidDebit, promo |-> q - spent - promoDebit,
             reservedPaid |-> -p, reservedPromo |-> -q,
             debt |-> over - promoDebit - paidDebit]
    BY <1>1, <1>2, <1>3, <1>4, <1>5 DEF SettleDeltas
  <1>7. /\ spent \in Nat /\ spent <= q /\ spent <= actual
        /\ paidSpent \in Nat /\ paidSpent <= p /\ paidSpent <= actual - spent
        /\ over \in Nat /\ (over > 0 => paidSpent = p)
    BY <1>1, <1>2, <1>3 DEF MinMicros
  <1>8. /\ promoDebit \in Nat /\ promoDebit <= a.promo /\ promoDebit <= over
        /\ paidDebit \in Nat /\ paidDebit <= a.paid /\ paidDebit <= over - promoDebit
        /\ over > promoDebit + paidDebit => paidDebit = a.paid
    BY <1>4, <1>5, <1>7 DEF MinMicros, Accounts
  <1> QED BY <1>3, <1>6, <1>7, <1>8, Zenon DEF Takes

LEMMA Settlement ==
    ASSUME NEW a \in Accounts, NEW p \in Nat, NEW q \in Nat, NEW actual \in Nat,
           p <= a.reservedPaid, q <= a.reservedPromo,
           NEW d, Takes(a, p, q, actual, d),
           NEW b, b = Projected(a, d)
    PROVE  /\ b \in Accounts /\ Net(b) = Net(a) - actual
           /\ b.reservedPaid = a.reservedPaid - p
           /\ b.reservedPromo = a.reservedPromo - q
           /\ Positive(-d.reservedPaid - d.paid) = a.paid + p - b.paid
           /\ a.paid + p - b.paid \in Nat
           /\ Positive(-d.reservedPromo - d.promo) \in Nat
           /\ Positive(d.debt) = b.debt - a.debt
           /\ b.paid <= a.paid + p /\ a.debt <= b.debt
           /\ b.debt > a.debt => b.paid = 0
  <1>1. PICK spent \in Nat, paidSpent \in Nat, promoDebit \in Nat, paidDebit \in Nat :
           /\ spent <= q /\ spent <= actual
           /\ paidSpent <= p /\ paidSpent <= actual - spent
           /\ actual - spent - paidSpent > 0 => paidSpent = p
           /\ promoDebit <= a.promo /\ promoDebit <= actual - spent - paidSpent
           /\ paidDebit <= a.paid /\ paidDebit <= actual - spent - paidSpent - promoDebit
           /\ actual - spent - paidSpent > promoDebit + paidDebit => paidDebit = a.paid
           /\ d = [paid |-> p - paidSpent - paidDebit, promo |-> q - spent - promoDebit,
                   reservedPaid |-> -p, reservedPromo |-> -q,
                   debt |-> actual - spent - paidSpent - promoDebit - paidDebit]
    BY Zenon DEF Takes
  <1>2. /\ d.paid = p - paidSpent - paidDebit /\ d.promo = q - spent - promoDebit
        /\ d.reservedPaid = -p /\ d.reservedPromo = -q
        /\ d.debt = actual - spent - paidSpent - promoDebit - paidDebit
    BY <1>1
  <1>3. b = [paid |-> a.paid + (p - paidSpent - paidDebit),
             promo |-> a.promo + (q - spent - promoDebit),
             reservedPaid |-> a.reservedPaid - p, reservedPromo |-> a.reservedPromo - q,
             debt |-> a.debt + (actual - spent - paidSpent - promoDebit - paidDebit)]
    BY <1>2 DEF Projected, Accounts
  <1>4. a.paid \in Nat /\ a.promo \in Nat /\ a.reservedPaid \in Nat
        /\ a.reservedPromo \in Nat /\ a.debt \in Nat
    BY DEF Accounts
  <1>5. b \in Accounts
    BY <1>1, <1>3, <1>4 DEF Accounts
  <1>6. /\ b.paid = a.paid + (p - paidSpent - paidDebit)
        /\ b.promo = a.promo + (q - spent - promoDebit)
        /\ b.reservedPaid = a.reservedPaid - p /\ b.reservedPromo = a.reservedPromo - q
        /\ b.debt = a.debt + (actual - spent - paidSpent - promoDebit - paidDebit)
    BY <1>3
  <1>7. Net(b) = Net(a) - actual
    BY <1>4, <1>6 DEF Net
  <1>8. /\ Positive(-d.reservedPaid - d.paid) = a.paid + p - b.paid
        /\ a.paid + p - b.paid \in Nat
        /\ Positive(-d.reservedPromo - d.promo) \in Nat
        /\ Positive(d.debt) = b.debt - a.debt
    BY <1>1, <1>2, <1>4, <1>6 DEF Positive
  <1>9. b.paid <= a.paid + p /\ a.debt <= b.debt
    BY <1>1, <1>4, <1>6
  <1>10. b.debt > a.debt => b.paid = 0
    BY <1>1, <1>4, <1>6
  <1> QED BY <1>5, <1>6, <1>7, <1>8, <1>9, <1>10

LEMMA UsageDebit ==
    ASSUME NEW a \in Accounts, NEW amount \in Nat,
           NEW b, b = Projected(a, UsageDebitDeltas(a, amount))
    PROVE  /\ b \in Accounts /\ Net(b) = Net(a) - amount
           /\ b.reservedPaid = a.reservedPaid /\ b.reservedPromo = a.reservedPromo
           /\ b.paid <= a.paid
  <1>1. PICK p : p = MinMicros(a.promo, amount)
    OBVIOUS
  <1>2. PICK q : q = MinMicros(a.paid, amount - p)
    OBVIOUS
  <1>3. /\ p \in Nat /\ p <= a.promo /\ p <= amount
        /\ q \in Nat /\ q <= a.paid /\ q <= amount - p
    BY <1>1, <1>2 DEF MinMicros, Accounts
  <1>4. /\ b.paid = a.paid - q /\ b.promo = a.promo - p /\ b.debt = a.debt + (amount - p - q)
        /\ b.reservedPaid = a.reservedPaid /\ b.reservedPromo = a.reservedPromo
    BY <1>1, <1>2, <1>3 DEF UsageDebitDeltas, BalanceDeltas, Projected, Accounts
  <1>5. b \in Accounts
    BY <1>1, <1>2, <1>3 DEF UsageDebitDeltas, BalanceDeltas, Projected, Accounts
  <1> QED BY <1>3, <1>4, <1>5 DEF Net, Accounts

LEMMA UsageCredit ==
    ASSUME NEW a \in Accounts, NEW paid \in Nat, NEW promo \in Nat,
           NEW b, b = Projected(a, UsageCreditDeltas(a, paid, promo))
    PROVE  /\ b \in Accounts /\ Net(b) = Net(a) + paid + promo
           /\ b.reservedPaid = a.reservedPaid /\ b.reservedPromo = a.reservedPromo
           /\ b.paid <= a.paid + paid
           /\ paid >= a.debt => b.paid = a.paid + paid - a.debt
           /\ paid < a.debt => b.paid = a.paid
  BY DEF Accounts, Projected, UsageCreditDeltas, BalanceDeltas, MinMicros, Net

LEMMA Refund ==
    ASSUME NEW refund \in Nat, NEW from \in [paid : Nat, promo : Nat, debt : Nat],
           NEW r, r = AllocateUsageRefund(refund, from)
    PROVE  r.paid \in Nat /\ r.promo \in Nat /\ r.paid + r.promo = refund
           /\ r.paid <= from.debt + from.paid
  BY DEF AllocateUsageRefund, MinMicros
-----------------------------------------------------------------------------
(* The inductive invariant.                                                *)

Rows == [status : {"NEW", "ACTIVE", "RECONCILING", "SETTLED", "DEBT"},
         total : Nat, final : Charges, claimed : BOOLEAN, stale : BOOLEAN]
Splits == [paid : Nat, promo : Nat, debt : Nat]
Procs == [pc : {"idle", "claim", "adjust", "finish"}, call : Calls \cup {NoCall},
          total : Nat, debt : BOOLEAN]

Total(f) == SumFunctionOnSet(f, Calls)
Running(c) == session[c].status \in {"NEW", "ACTIVE"}

HeldPaid == [c \in Calls |-> IF session[c].status = "ACTIVE" THEN hold[c].paid ELSE 0]
HeldPromo == [c \in Calls |-> IF session[c].status = "ACTIVE" THEN hold[c].promo ELSE 0]
Costs == [c \in Calls |-> Cost(c)]
\* What an adjustment may still pay back to the paid balance.
Returnable == [c \in Calls |-> IF adjusted[c] = "NO" THEN funding[c].paid ELSE 0]

\* The reserved columns are the holds of the active calls.
HoldsAgree ==
    /\ account.reservedPaid = Total(HeldPaid)
    /\ account.reservedPromo = Total(HeldPromo)

NetAgrees == Net(account) = Promo + deposited - Total(Costs)

RowAgrees(c) ==
    /\ Running(c) => session[c].total = 0 /\ adjusted[c] = "NO" /\ funding[c] = NoFunding
    /\ Finalized(c) => session[c].total = session[c].final

\* Until the adjustment of its call is posted, what a reconciler has read is
\* true, and one that finishes has found nothing to adjust.
Follows(c, p) ==
    /\ c \in Calls /\ ~Running(c)
    /\ adjusted[c] = "NO" =>
          /\ p.total = session[c].total
          /\ p.pc = "finish" => session[c].total = session[c].final

RowsAgree == \A c \in Calls : RowAgrees(c)
ProcsAgree == \A q \in Reconcilers : proc[q].pc # "idle" => Follows(proc[q].call, proc[q])

\* No call ended owing: everything that can come back was paid in.
NobodyOwed ==
    (\A c \in Calls : funding[c].debt = 0) =>
        account.paid + account.reservedPaid + Total(Returnable) <= deposited

\* One call ended owing, and it is the only one that was ever made.
Backed(c) ==
    /\ account.paid <= deposited
    /\ adjusted[c] = "NO" =>
          /\ account.paid + funding[c].paid + funding[c].debt <= deposited + account.debt
          /\ account.debt > 0 => account.paid = 0
Only(c) == funding[c].debt > 0 /\ \A d \in Calls \ {c} : session[d].status = "NEW"
OneOwed == \A c \in Calls : Only(c) => Backed(c)

\* Only the end of a call makes debt.
NoDebtYet == (\A c \in Calls : Running(c)) => account.debt = 0

Inv == /\ TypeOK /\ HoldsAgree /\ NetAgrees /\ RowsAgree /\ ProcsAgree
       /\ NobodyOwed /\ OneOwed /\ NoDebtYet

LEMMA Types ==
    ASSUME TypeOK
    PROVE  /\ account \in Accounts /\ deposited \in Nat
           /\ session \in [Calls -> Rows] /\ hold \in [Calls -> Splits]
           /\ funding \in [Calls -> Splits] /\ adjusted \in [Calls -> {"NO", "YES"}]
           /\ proc \in [Reconcilers -> Procs]
           /\ IsFiniteSet(Calls) /\ Charges \subseteq Nat
  BY CallsAreDistinct, AmountsAreMicros DEF TypeOK, Rows, Splits, Procs

LEMMA Summands ==
    ASSUME TypeOK
    PROVE  /\ HeldPaid \in [Calls -> Nat] /\ HeldPromo \in [Calls -> Nat]
           /\ Costs \in [Calls -> Nat] /\ Returnable \in [Calls -> Nat]
  <1>1. ASSUME NEW c \in Calls
        PROVE  /\ session[c].total \in Nat /\ session[c].final \in Nat
               /\ hold[c].paid \in Nat /\ hold[c].promo \in Nat /\ funding[c].paid \in Nat
    BY Types DEF Rows, Splits
  <1> QED BY <1>1 DEF HeldPaid, HeldPromo, Costs, Returnable, Cost

\* How the sums change when one call does.
LEMMA OneCall ==
    ASSUME TypeOK, TypeOK', NEW c \in Calls,
           \A x \in Calls \ {c} :
              /\ session'[x] = session[x] /\ hold'[x] = hold[x]
              /\ funding'[x] = funding[x] /\ adjusted'[x] = adjusted[x]
    PROVE  /\ Total(HeldPaid') = Total(HeldPaid) - HeldPaid[c] + HeldPaid'[c]
           /\ Total(HeldPromo') = Total(HeldPromo) - HeldPromo[c] + HeldPromo'[c]
           /\ Total(Costs') = Total(Costs) - Costs[c] + Costs'[c]
           /\ Total(Returnable') = Total(Returnable) - Returnable[c] + Returnable'[c]
  <1>1. IsFiniteSet(Calls)
    BY CallsAreDistinct
  <1>2. /\ HeldPaid \in [Calls -> Int] /\ HeldPromo \in [Calls -> Int]
        /\ Costs \in [Calls -> Int] /\ Returnable \in [Calls -> Int]
    BY Summands
  <1>3. /\ HeldPaid' \in [Calls -> Int] /\ HeldPromo' \in [Calls -> Int]
        /\ Costs' \in [Calls -> Int] /\ Returnable' \in [Calls -> Int]
    <2>1. ASSUME NEW x \in Calls
          PROVE  /\ session'[x].total \in Nat /\ session'[x].final \in Nat
                 /\ hold'[x].paid \in Nat /\ hold'[x].promo \in Nat /\ funding'[x].paid \in Nat
      BY AmountsAreMicros DEF TypeOK
    <2> QED BY <2>1 DEF HeldPaid, HeldPromo, Costs, Returnable, Cost
  <1>4. \A x \in Calls \ {c} : /\ HeldPaid'[x] = HeldPaid[x] /\ HeldPromo'[x] = HeldPromo[x]
                               /\ Costs'[x] = Costs[x] /\ Returnable'[x] = Returnable[x]
    BY DEF HeldPaid, HeldPromo, Costs, Returnable, Cost, Finalized
  <1>5. Total(HeldPaid') = Total(HeldPaid) - HeldPaid[c] + HeldPaid'[c]
    BY <1>1, <1>2, <1>3, <1>4, SumChange DEF Total
  <1>6. Total(HeldPromo') = Total(HeldPromo) - HeldPromo[c] + HeldPromo'[c]
    BY <1>1, <1>2, <1>3, <1>4, SumChange DEF Total
  <1>7. Total(Costs') = Total(Costs) - Costs[c] + Costs'[c]
    BY <1>1, <1>2, <1>3, <1>4, SumChange DEF Total
  <1>8. Total(Returnable') = Total(Returnable) - Returnable[c] + Returnable'[c]
    BY <1>1, <1>2, <1>3, <1>4, SumChange DEF Total
  <1> QED BY <1>5, <1>6, <1>7, <1>8

LEMMA TotalTypes ==
    ASSUME TypeOK
    PROVE  /\ Total(HeldPaid) \in Nat /\ Total(HeldPromo) \in Nat
           /\ Total(Costs) \in Nat /\ Total(Returnable) \in Nat
           /\ \A c \in Calls : /\ HeldPaid[c] <= Total(HeldPaid)
                               /\ HeldPromo[c] <= Total(HeldPromo)
  BY CallsAreDistinct, Summands, SumOfNaturals DEF Total

\* A step that only moves rows and reconcilers on.
LEMMA Bookkeeping ==
    ASSUME Inv, TypeOK', UNCHANGED <<account, deposited, hold, funding, adjusted>>,
           \A c \in Calls :
              /\ Running(c) \/ Running(c)' =>
                    session'[c].status = session[c].status /\ session'[c].total = session[c].total
              /\ Cost(c)' = Cost(c)
              /\ Finalized(c)' => session'[c].total = session'[c].final,
           ProcsAgree'
    PROVE  Inv'
  <1> USE DEF Inv
  <1>1. \A c \in Calls : /\ session[c].status = "ACTIVE" <=> session'[c].status = "ACTIVE"
                         /\ session[c].status = "NEW" <=> session'[c].status = "NEW"
    BY DEF Running
  <1>2. HeldPaid' = HeldPaid /\ HeldPromo' = HeldPromo
    BY <1>1 DEF HeldPaid, HeldPromo
  <1>3. Costs' = Costs /\ Returnable' = Returnable
    BY DEF Costs, Returnable
  <1>4. HoldsAgree' /\ NetAgrees'
    BY <1>2, <1>3 DEF HoldsAgree, NetAgrees
  <1>5. RowsAgree'
    BY <1>1 DEF RowsAgree, RowAgrees, Running
  <1>6. NobodyOwed'
    BY <1>3 DEF NobodyOwed
  <1>7. OneOwed'
    BY <1>1 DEF OneOwed, Only, Backed
  <1>8. NoDebtYet'
    BY <1>1 DEF NoDebtYet, Running
  <1> QED BY <1>4, <1>5, <1>6, <1>7, <1>8
-----------------------------------------------------------------------------
(* The steps that only move rows and reconcilers on.                       *)

\* One row changes, and what it costs does not.
LEMMA RowMoves ==
    ASSUME Inv, NEW c \in Calls, NEW row \in Rows, session' = [session EXCEPT ![c] = row],
           UNCHANGED <<account, deposited, hold, funding, adjusted, crashes>>,
           proc' \in [Reconcilers -> Procs], ProcsAgree',
           ~Running(c), row.status \notin {"NEW", "ACTIVE"}, row.final = session[c].final,
           row.status \in {"SETTLED", "DEBT"} => row.total = row.final,
           adjusted[c] = "NO" => row.total = session[c].total
    PROVE  Inv'
  <1>1. TypeOK'
    BY DEF Inv, TypeOK, Rows, Procs
  <1>2. session'[c] = row /\ \A x \in Calls \ {c} : session'[x] = session[x]
    BY DEF Inv, TypeOK
  <1>3. Cost(c)' = Cost(c)
    <2>1. adjusted[c] \in {"NO", "YES"} /\ Finalized(c) => session[c].total = session[c].final
      BY DEF Inv, TypeOK, RowsAgree, RowAgrees
    <2> QED BY <1>2, <2>1 DEF Cost, Finalized, Inv, TypeOK
  <1>4. ASSUME NEW x \in Calls
        PROVE  /\ Running(x) \/ Running(x)' =>
                    session'[x].status = session[x].status /\ session'[x].total = session[x].total
               /\ Cost(x)' = Cost(x)
               /\ Finalized(x)' => session'[x].total = session'[x].final
    <2>1. CASE x = c
      BY <1>2, <1>3, <2>1 DEF Running, Finalized
    <2>2. CASE x # c
      BY <1>2, <2>2 DEF Running, Finalized, Cost, Inv, RowsAgree, RowAgrees
    <2> QED BY <2>1, <2>2
  <1> QED BY <1>1, <1>4, Bookkeeping

\* Rows move on, or not, without refuting what reconcilers know of them.
Steady == /\ adjusted' = adjusted
          /\ \A y \in Calls : /\ Running(y)' => Running(y)
                              /\ session'[y].final = session[y].final
                              /\ adjusted[y] = "NO" => session'[y].total = session[y].total

LEMMA RowIsSteady ==
    ASSUME Inv, NEW c \in Calls, NEW row \in Rows, session' = [session EXCEPT ![c] = row],
           adjusted' = adjusted, row.status \notin {"NEW", "ACTIVE"},
           row.final = session[c].final, adjusted[c] = "NO" => row.total = session[c].total
    PROVE  Steady
  <1>1. session'[c] = row /\ \A y \in Calls \ {c} : session'[y] = session[y]
    BY DEF Inv, TypeOK
  <1> QED BY <1>1 DEF Steady, Running

LEMMA Following ==
    ASSUME Steady, NEW p, NEW x, Follows(x, p)
    PROVE  Follows(x, p)'
  BY DEF Follows, Steady

LEMMA ReconcilersFollow ==
    ASSUME Inv, Steady, proc' = proc
    PROVE  ProcsAgree'
  <1> SUFFICES ASSUME NEW q \in Reconcilers, proc[q].pc # "idle"
               PROVE  Follows(proc[q].call, proc[q])'
    BY DEF ProcsAgree
  <1>1. Follows(proc[q].call, proc[q])
    BY DEF Inv, ProcsAgree
  <1> QED BY <1>1, Following

\* One reconciler moves on to v.
LEMMA ReconcilerMoves ==
    ASSUME Inv, Steady, NEW q \in Reconcilers, NEW v \in Procs, proc' = [proc EXCEPT ![q] = v],
           v.pc # "idle" => Follows(v.call, v)'
    PROVE  ProcsAgree' /\ proc' \in [Reconcilers -> Procs]
  <1>1. proc \in [Reconcilers -> Procs]
    BY Types DEF Inv
  <1>2. proc'[q] = v /\ \A r \in Reconcilers \ {q} : proc'[r] = proc[r]
    BY <1>1
  <1>3. ASSUME NEW r \in Reconcilers, proc'[r].pc # "idle"
        PROVE  Follows(proc[r].call, proc[r])'
    <2>1. CASE r = q
      BY <1>2, <1>3, <2>1
    <2>2. CASE r # q
      <3>1. proc'[r] = proc[r]
        BY <1>2, <2>2
      <3>2. Follows(proc[r].call, proc[r])
        BY <1>3, <3>1 DEF Inv, ProcsAgree
      <3> QED BY <3>1, <3>2, Following
    <2> QED BY <2>1, <2>2
  <1> QED BY <1>1, <1>3 DEF ProcsAgree

LEMMA IdleType == Idle \in Procs /\ Idle.pc = "idle"
  BY DEF Idle, Procs

\* Only a reconciler moves on.
LEMMA OnlyReconcilerMoves ==
    ASSUME Inv, NEW q \in Reconcilers, NEW v \in Procs, proc' = [proc EXCEPT ![q] = v],
           v.pc # "idle" => Follows(v.call, v),
           UNCHANGED <<account, deposited, session, hold, funding, adjusted>>,
           crashes' \in 0..MaxCrashes
    PROVE  Inv'
  <1>1. Steady
    BY DEF Steady, Running
  <1>2. v.pc # "idle" => Follows(v.call, v)'
    BY <1>1, Following
  <1>3. ProcsAgree' /\ proc' \in [Reconcilers -> Procs]
    BY <1>1, <1>2, ReconcilerMoves
  <1>4. TypeOK'
    BY <1>3 DEF Inv, TypeOK, Procs
  <1>5. ASSUME NEW x \in Calls
        PROVE  /\ Running(x) \/ Running(x)' =>
                    session'[x].status = session[x].status /\ session'[x].total = session[x].total
               /\ Cost(x)' = Cost(x)
               /\ Finalized(x)' => session'[x].total = session'[x].final
    BY DEF Inv, RowsAgree, RowAgrees, Cost, Finalized
  <1> QED BY <1>3, <1>4, <1>5, Bookkeeping

LEMMA PromoteEndedDebtKeeps ==
    ASSUME Inv, NEW c \in Calls, PromoteEndedDebt(c)
    PROVE  Inv'
  <1>1. session[c] \in Rows /\ session \in [Calls -> Rows] /\ proc \in [Reconcilers -> Procs]
    BY Types DEF Inv
  <1>2. PICK row \in Rows : row = [session[c] EXCEPT !.status = "RECONCILING"]
    BY <1>1 DEF Rows
  <1>3. /\ row.status = "RECONCILING" /\ row.total = session[c].total
        /\ row.final = session[c].final
    BY <1>1, <1>2 DEF Rows
  <1>4. session' = [session EXCEPT ![c] = row] /\ session[c].status = "DEBT"
    BY <1>2 DEF PromoteEndedDebt
  <1>5. UNCHANGED <<account, deposited, hold, funding, adjusted, proc, crashes>>
    BY DEF PromoteEndedDebt
  <1>6. ProcsAgree'
    BY <1>3, <1>4, <1>5, RowIsSteady, ReconcilersFollow
  <1> QED BY <1>1, <1>3, <1>4, <1>5, <1>6, RowMoves DEF Running

LEMMA ClaimAgesKeeps ==
    ASSUME Inv, NEW c \in Calls, ClaimAges(c)
    PROVE  Inv'
  <1>1. session[c] \in Rows /\ session \in [Calls -> Rows]
    BY Types DEF Inv
  <1>2. PICK row \in Rows : row = [session[c] EXCEPT !.stale = TRUE]
    BY <1>1 DEF Rows
  <1>3. /\ row.status = session[c].status /\ row.total = session[c].total
        /\ row.final = session[c].final
    BY <1>1, <1>2 DEF Rows
  <1>4. session' = [session EXCEPT ![c] = row]
    BY <1>2 DEF ClaimAges
  <1>5. UNCHANGED <<account, deposited, hold, funding, adjusted, proc, crashes>>
    BY DEF ClaimAges
  <1>6. session'[c] = row /\ \A x \in Calls \ {c} : session'[x] = session[x]
    BY <1>1, <1>4
  <1>7. \A x \in Calls : /\ session'[x].status = session[x].status
                         /\ session'[x].total = session[x].total
                         /\ session'[x].final = session[x].final
    BY <1>3, <1>6
  <1>8. Steady
    BY <1>5, <1>7 DEF Steady, Running
  <1>9. ProcsAgree'
    BY <1>5, <1>8, ReconcilersFollow
  <1>10. TypeOK'
    BY <1>1, <1>4, <1>5 DEF Inv, TypeOK, Rows
  <1>11. ASSUME NEW x \in Calls
         PROVE  /\ Running(x) \/ Running(x)' =>
                     session'[x].status = session[x].status /\ session'[x].total = session[x].total
                /\ Cost(x)' = Cost(x)
                /\ Finalized(x)' => session'[x].total = session'[x].final
    BY <1>5, <1>7 DEF Inv, RowsAgree, RowAgrees, Cost, Finalized
  <1> QED BY <1>5, <1>9, <1>10, <1>11, Bookkeeping

LEMMA ReadCandidateKeeps ==
    ASSUME Inv, NEW q \in Reconcilers, NEW c \in Calls, ReadCandidate(q, c)
    PROVE  Inv'
  <1>1. session[c] \in Rows
    BY Types DEF Inv
  <1>2. PICK v : v = [Idle EXCEPT !.pc = "claim", !.call = c, !.total = session[c].total]
    OBVIOUS
  <1>3. v = [pc |-> "claim", call |-> c, total |-> session[c].total, debt |-> FALSE]
    BY <1>2 DEF Idle
  <1>4. v \in Procs
    BY <1>1, <1>3 DEF Procs, Rows
  <1>5. /\ proc' = [proc EXCEPT ![q] = v] /\ session[c].status = "RECONCILING"
        /\ UNCHANGED <<account, deposited, session, hold, funding, adjusted, crashes>>
    BY <1>2 DEF ReadCandidate
  <1>6. Follows(v.call, v)
    BY <1>3, <1>5 DEF Follows, Running
  <1>7. crashes' \in 0..MaxCrashes
    BY <1>5 DEF Inv, TypeOK
  <1> QED BY <1>4, <1>5, <1>6, <1>7, OnlyReconcilerMoves

LEMMA CrashKeeps ==
    ASSUME Inv, NEW q \in Reconcilers, Crash(q)
    PROVE  Inv'
  <1>1. /\ proc' = [proc EXCEPT ![q] = Idle]
        /\ UNCHANGED <<account, deposited, session, hold, funding, adjusted>>
    BY DEF Crash
  <1>2. crashes' \in 0..MaxCrashes
    BY AmountsAreMicros DEF Crash, Inv, TypeOK
  <1> QED BY <1>1, <1>2, IdleType, OnlyReconcilerMoves

\* What the reconciler q knows of its call.
LEMMA Known ==
    ASSUME Inv, NEW q \in Reconcilers, proc[q].pc # "idle"
    PROVE  /\ proc[q] \in Procs /\ proc[q].call \in Calls
           /\ Follows(proc[q].call, proc[q])
           /\ session[proc[q].call] \in Rows
  <1>1. proc[q] \in Procs /\ Follows(proc[q].call, proc[q])
    BY Types DEF Inv, ProcsAgree
  <1>2. proc[q].call \in Calls
    BY <1>1 DEF Follows
  <1> QED BY <1>1, <1>2, Types DEF Inv

\* A reconciler moves on together with its row.
LEMMA BothMove ==
    ASSUME Inv, NEW q \in Reconcilers, NEW c \in Calls, NEW v \in Procs, NEW row \in Rows,
           session' = [session EXCEPT ![c] = row], proc' = [proc EXCEPT ![q] = v],
           UNCHANGED <<account, deposited, hold, funding, adjusted, crashes>>,
           ~Running(c), row.status \notin {"NEW", "ACTIVE"}, row.final = session[c].final,
           row.status \in {"SETTLED", "DEBT"} => row.total = row.final,
           adjusted[c] = "NO" => row.total = session[c].total,
           v.pc # "idle" => Follows(v.call, v)
    PROVE  Inv'
  <1>1. Steady
    BY RowIsSteady
  <1>2. v.pc # "idle" => Follows(v.call, v)'
    BY <1>1, Following
  <1>3. ProcsAgree' /\ proc' \in [Reconcilers -> Procs]
    BY <1>1, <1>2, ReconcilerMoves
  <1> QED BY <1>3, RowMoves

LEMMA ClaimKeeps ==
    ASSUME Inv, NEW q \in Reconcilers, Claim(q)
    PROVE  Inv'
  <1>1. PICK c : c = proc[q].call
    OBVIOUS
  <1>2. proc[q] \in Procs /\ c \in Calls /\ Follows(c, proc[q]) /\ session[c] \in Rows
    BY <1>1, Known DEF Claim
  <1>3. UNCHANGED <<account, deposited, hold, funding, adjusted, crashes>>
    BY DEF Claim
  <1>4. CASE session[c].status = "RECONCILING" /\ (~session[c].claimed \/ session[c].stale)
    <2>1. PICK row \in Rows : row = [session[c] EXCEPT !.claimed = TRUE, !.stale = FALSE]
      BY <1>2 DEF Rows
    <2>2. /\ row.status = session[c].status /\ row.total = session[c].total
          /\ row.final = session[c].final
      BY <1>2, <2>1 DEF Rows
    <2>3. PICK v \in Procs : v = [proc[q] EXCEPT !.pc = "adjust"]
      BY <1>2 DEF Procs
    <2>4. v.pc = "adjust" /\ v.call = c /\ v.total = proc[q].total
      BY <1>1, <1>2, <2>3 DEF Procs
    <2>5. session' = [session EXCEPT ![c] = row] /\ proc' = [proc EXCEPT ![q] = v]
      BY <1>1, <1>4, <2>1, <2>3 DEF Claim
    <2>6. Follows(v.call, v)
      BY <1>2, <2>4 DEF Follows
    <2>7. ~Running(c)
      BY <1>4 DEF Running
    <2> QED BY <1>2, <1>3, <1>4, <2>2, <2>5, <2>6, <2>7, BothMove
  <1>5. CASE ~(session[c].status = "RECONCILING" /\ (~session[c].claimed \/ session[c].stale))
    <2>1. session' = session /\ proc' = [proc EXCEPT ![q] = Idle]
      BY <1>1, <1>5 DEF Claim
    <2>2. crashes' \in 0..MaxCrashes
      BY <1>3 DEF Inv, TypeOK
    <2> QED BY <1>3, <2>1, <2>2, IdleType, OnlyReconcilerMoves
  <1> QED BY <1>4, <1>5

LEMMA RetryKeeps ==
    ASSUME Inv, NEW q \in Reconcilers, Retry(q)
    PROVE  Inv'
  <1>1. PICK c : c = proc[q].call
    OBVIOUS
  <1>2. proc[q] \in Procs /\ c \in Calls /\ session[c] \in Rows
    BY <1>1, Known DEF Retry
  <1>3. /\ UNCHANGED <<account, deposited, hold, funding, adjusted, crashes>>
        /\ proc' = [proc EXCEPT ![q] = Idle]
    BY DEF Retry
  <1>4. CASE session[c].status = "RECONCILING"
    <2>1. PICK row \in Rows : row = [session[c] EXCEPT !.claimed = FALSE, !.stale = FALSE]
      BY <1>2 DEF Rows
    <2>2. /\ row.status = session[c].status /\ row.total = session[c].total
          /\ row.final = session[c].final
      BY <1>2, <2>1 DEF Rows
    <2>3. session' = [session EXCEPT ![c] = row]
      BY <1>1, <1>4, <2>1 DEF Retry
    <2>4. ~Running(c)
      BY <1>4 DEF Running
    <2> QED BY <1>2, <1>3, <1>4, <2>2, <2>3, <2>4, IdleType, BothMove
  <1>5. CASE session[c].status # "RECONCILING"
    <2>1. session' = session
      BY <1>1, <1>5 DEF Retry
    <2>2. crashes' \in 0..MaxCrashes
      BY <1>3 DEF Inv, TypeOK
    <2> QED BY <1>3, <2>1, <2>2, IdleType, OnlyReconcilerMoves
  <1> QED BY <1>4, <1>5

\* A reconciler that finds the adjustment not posted at the end had none to
\* make, so that the final total it writes is the one already there.
LEMMA FinishKeeps ==
    ASSUME Inv, NEW q \in Reconcilers, Finish(q)
    PROVE  Inv'
  <1>1. PICK c : c = proc[q].call
    OBVIOUS
  <1>2. /\ proc[q] \in Procs /\ c \in Calls /\ Follows(c, proc[q]) /\ session[c] \in Rows
        /\ proc[q].pc = "finish"
    BY <1>1, Known DEF Finish
  <1>3. /\ UNCHANGED <<account, deposited, hold, funding, adjusted, crashes>>
        /\ proc' = [proc EXCEPT ![q] = Idle]
    BY DEF Finish
  <1>4. CASE session[c].status = "RECONCILING"
    <2>1. PICK row : row = [session[c] EXCEPT
                               !.status = IF proc[q].debt THEN "DEBT" ELSE "SETTLED",
                               !.total = session[c].final, !.claimed = FALSE, !.stale = FALSE]
      OBVIOUS
    <2>2. /\ row \in Rows /\ row.status \in {"SETTLED", "DEBT"}
          /\ row.total = session[c].final /\ row.final = session[c].final
      BY <1>2, <2>1, AmountsAreMicros DEF Rows
    <2>3. session' = [session EXCEPT ![c] = row]
      BY <1>1, <1>4, <2>1 DEF Finish
    <2>4. ~Running(c)
      BY <1>4 DEF Running
    <2>5. adjusted[c] = "NO" => row.total = session[c].total
      BY <1>2, <2>2 DEF Follows
    <2> QED BY <1>2, <1>3, <1>4, <2>2, <2>3, <2>4, <2>5, IdleType, BothMove
  <1>5. CASE session[c].status # "RECONCILING"
    <2>1. session' = session
      BY <1>1, <1>5 DEF Finish
    <2>2. crashes' \in 0..MaxCrashes
      BY <1>3 DEF Inv, TypeOK
    <2> QED BY <1>3, <2>1, <2>2, IdleType, OnlyReconcilerMoves
  <1> QED BY <1>4, <1>5
-----------------------------------------------------------------------------
(* The adjustment.                                                         *)

LEMMA Adjustment ==
    ASSUME TypeOK, NEW c \in Calls, NEW difference \in Int, difference # 0,
           NEW b, b = Projected(account, AdjustmentDeltas(c, difference))
    PROVE  /\ b \in Accounts /\ Net(b) = Net(account) - difference
           /\ b.reservedPaid = account.reservedPaid /\ b.reservedPromo = account.reservedPromo
           /\ b.paid <= account.paid + funding[c].paid + funding[c].debt
           /\ \/ b.paid <= account.paid
              \/ b.paid + account.debt <= account.paid + funding[c].paid + funding[c].debt
  <1>1. /\ account \in Accounts /\ funding[c] \in Splits
        /\ funding[c].paid \in Nat /\ funding[c].debt \in Nat
        /\ account.paid \in Nat /\ account.debt \in Nat
    BY Types DEF Splits, Accounts
  <1>2. CASE difference > 0
    <2>1. b = Projected(account, UsageDebitDeltas(account, difference))
      BY <1>2 DEF AdjustmentDeltas
    <2>2. /\ b \in Accounts /\ Net(b) = Net(account) - difference
          /\ b.reservedPaid = account.reservedPaid /\ b.reservedPromo = account.reservedPromo
          /\ b.paid <= account.paid
      <3>1. difference \in Nat
        BY <1>2
      <3> QED BY <1>1, <2>1, <3>1, UsageDebit
    <2>3. b.paid \in Nat
      BY <2>2 DEF Accounts
    <2> QED BY <1>1, <2>2, <2>3
  <1>3. CASE ~(difference > 0)
    <2>1. PICK r : r = AllocateUsageRefund(-difference, funding[c])
      OBVIOUS
    <2>2. b = Projected(account, UsageCreditDeltas(account, r.paid, r.promo))
      BY <1>3, <2>1 DEF AdjustmentDeltas
    <2>3. -difference \in Nat
      BY <1>3
    <2>4. /\ r.paid \in Nat /\ r.promo \in Nat /\ r.paid + r.promo = -difference
          /\ r.paid <= funding[c].debt + funding[c].paid
      BY <1>1, <2>1, <2>3, Refund DEF Splits
    <2>5. /\ b \in Accounts /\ Net(b) = Net(account) + r.paid + r.promo
          /\ b.reservedPaid = account.reservedPaid /\ b.reservedPromo = account.reservedPromo
          /\ b.paid <= account.paid + r.paid
          /\ r.paid >= account.debt => b.paid = account.paid + r.paid - account.debt
          /\ r.paid < account.debt => b.paid = account.paid
      <3>1. PICK p \in Nat, o \in Nat : p = r.paid /\ o = r.promo
        BY <2>4
      <3>2. b = Projected(account, UsageCreditDeltas(account, p, o))
        BY <2>2, <3>1
      <3>3. /\ b \in Accounts /\ Net(b) = Net(account) + p + o
            /\ b.reservedPaid = account.reservedPaid /\ b.reservedPromo = account.reservedPromo
            /\ b.paid <= account.paid + p
            /\ p >= account.debt => b.paid = account.paid + p - account.debt
            /\ p < account.debt => b.paid = account.paid
        <4>1. account \in Accounts /\ p \in Nat /\ o \in Nat
          BY <1>1, <3>1
        <4> QED BY <3>2, <4>1, UsageCredit
      <3> QED BY <3>1, <3>3
    <2>6. b.paid \in Nat /\ Net(account) \in Int
      BY <1>1, <2>5 DEF Accounts, Net
    <2>7. Net(b) = Net(account) - difference
      BY <2>4, <2>5, <2>6
    <2>8. /\ b.paid <= account.paid + funding[c].paid + funding[c].debt
          /\ \/ b.paid <= account.paid
             \/ b.paid + account.debt <= account.paid + funding[c].paid + funding[c].debt
      BY <1>1, <2>4, <2>5, <2>6
    <2> QED BY <2>5, <2>7, <2>8
  <1> QED BY <1>2, <1>3

\* The adjustment is posted: the estimate is replaced by the final total in
\* the wallet and in what the call costs.
LEMMA PostingKeeps ==
    ASSUME Inv, NEW q \in Reconcilers, proc[q].pc = "adjust",
           NEW c \in Calls, c = proc[q].call, adjusted[c] = "NO",
           NEW difference, difference = session[c].final - proc[q].total, difference # 0,
           adjusted' = [adjusted EXCEPT ![c] = "YES"],
           account' = Projected(account, AdjustmentDeltas(c, difference)),
           NEW v \in Procs, v.call = c, proc' = [proc EXCEPT ![q] = v],
           UNCHANGED <<deposited, session, hold, funding, crashes>>
    PROVE  Inv'
  <1>1. proc[q] \in Procs /\ Follows(c, proc[q]) /\ session[c] \in Rows
    BY Known
  <1>2. /\ ~Running(c) /\ proc[q].total = session[c].total /\ ~Finalized(c)
    BY <1>1 DEF Follows, Inv, RowsAgree, RowAgrees, Rows
  <1>3. session[c].final \in Nat /\ session[c].total \in Nat
    BY <1>1, AmountsAreMicros DEF Rows
  <1>4. difference = session[c].final - session[c].total /\ difference \in Int
    BY <1>2, <1>3
  <1>5. /\ account' \in Accounts /\ Net(account') = Net(account) - difference
        /\ account'.reservedPaid = account.reservedPaid
        /\ account'.reservedPromo = account.reservedPromo
        /\ account'.paid <= account.paid + funding[c].paid + funding[c].debt
        /\ \/ account'.paid <= account.paid
           \/ account'.paid + account.debt <= account.paid + funding[c].paid + funding[c].debt
    BY <1>4, Adjustment DEF Inv
  <1>6. adjusted'[c] = "YES" /\ \A x \in Calls \ {c} : adjusted'[x] = adjusted[x]
    BY DEF Inv, TypeOK
  <1>7. TypeOK'
    BY <1>5 DEF Inv, TypeOK, Procs
  <1>8. /\ Total(HeldPaid') = Total(HeldPaid) - HeldPaid[c] + HeldPaid'[c]
        /\ Total(HeldPromo') = Total(HeldPromo) - HeldPromo[c] + HeldPromo'[c]
        /\ Total(Costs') = Total(Costs) - Costs[c] + Costs'[c]
        /\ Total(Returnable') = Total(Returnable) - Returnable[c] + Returnable'[c]
    BY <1>6, <1>7, OneCall DEF Inv
  <1>9. HeldPaid' = HeldPaid /\ HeldPromo' = HeldPromo
    BY DEF HeldPaid, HeldPromo
  <1>10. HoldsAgree'
    BY <1>5, <1>9 DEF Inv, HoldsAgree
  <1>11. Costs[c] = session[c].total /\ Costs'[c] = session[c].final
    BY <1>2, <1>6 DEF Costs, Cost, Finalized
  <1>12. /\ account.paid \in Nat /\ account.debt \in Nat /\ account.reservedPaid \in Nat
         /\ Net(account) \in Int /\ deposited \in Nat /\ Promo \in Nat
         /\ account'.paid \in Nat /\ account'.debt \in Nat
         /\ funding[c].paid \in Nat /\ funding[c].debt \in Nat
         /\ Total(Costs) \in Nat /\ Total(Returnable) \in Nat
    BY <1>5, Types, TotalTypes, AmountsAreMicros DEF Inv, Accounts, Net, Splits
  <1>13. NetAgrees'
    <2>1. Net(account) = Promo + deposited - Total(Costs)
      BY DEF Inv, NetAgrees
    <2>2. Net(account') = Promo + deposited - Total(Costs')
      <3>1. Total(Costs') = Total(Costs) - session[c].total + session[c].final
        BY <1>8, <1>11
      <3>2. Net(account') = Net(account) - (session[c].final - session[c].total)
        BY <1>4, <1>5
      <3> QED BY <1>3, <1>12, <2>1, <3>1, <3>2
    <2> QED BY <2>2 DEF NetAgrees
  <1>14. RowsAgree'
    BY <1>2, <1>6 DEF Inv, RowsAgree, RowAgrees, Running, Finalized
  <1>15. ProcsAgree'
    <2> SUFFICES ASSUME NEW r \in Reconcilers, proc'[r].pc # "idle"
                 PROVE  Follows(proc[r].call, proc[r])'
      BY DEF ProcsAgree
    <2>1. proc'[q] = v /\ \A s \in Reconcilers \ {q} : proc'[s] = proc[s]
      BY Types DEF Inv
    <2>2. CASE r = q
      BY <1>2, <1>6, <2>1, <2>2 DEF Follows, Running
    <2>3. CASE r # q
      <3>1. proc'[r] = proc[r] /\ Follows(proc[r].call, proc[r])
        BY <2>1, <2>3 DEF Inv, ProcsAgree
      <3>2. CASE proc[r].call = c
        BY <1>2, <1>6, <3>1, <3>2 DEF Follows, Running
      <3>3. CASE proc[r].call # c
        BY <1>6, <3>1, <3>3 DEF Follows, Running
      <3> QED BY <3>2, <3>3
    <2> QED BY <2>2, <2>3
  <1>16. NobodyOwed'
    <2> SUFFICES ASSUME \A x \in Calls : funding[x].debt = 0
                 PROVE  account'.paid + account'.reservedPaid + Total(Returnable') <= deposited
      BY DEF NobodyOwed
    <2>1. account.paid + account.reservedPaid + Total(Returnable) <= deposited
      BY DEF Inv, NobodyOwed
    <2>2. Returnable[c] = funding[c].paid /\ Returnable'[c] = 0
      BY <1>6 DEF Returnable
    <2>3. funding[c].debt = 0
      OBVIOUS
    <2>4. account'.paid <= account.paid + funding[c].paid
      BY <1>5, <1>12, <2>3
    <2>5. Total(Returnable') = Total(Returnable) - funding[c].paid
      BY <1>8, <1>12, <2>2
    <2> QED BY <1>5, <1>12, <2>1, <2>4, <2>5
  <1>17. OneOwed'
    <2> SUFFICES ASSUME NEW x \in Calls, Only(x)'
                 PROVE  Backed(x)'
      BY DEF OneOwed
    <2>1. Only(x)
      BY DEF Only
    <2>2. x = c
      BY <1>2, <2>1 DEF Only, Running
    <2>3. /\ account.paid <= deposited
          /\ account.paid + funding[c].paid + funding[c].debt <= deposited + account.debt
      BY <2>1, <2>2 DEF Inv, OneOwed, Backed
    <2>4. account'.paid <= deposited
      BY <1>5, <1>12, <2>3
    <2> QED BY <1>6, <2>2, <2>4 DEF Backed
  <1>18. NoDebtYet'
    BY <1>2 DEF NoDebtYet, Running
  <1> QED BY <1>7, <1>10, <1>13, <1>14, <1>15, <1>16, <1>17, <1>18 DEF Inv

LEMMA AdjustKeeps ==
    ASSUME Inv, NEW q \in Reconcilers, Adjust(q)
    PROVE  Inv'
  <1>1. PICK c : c = proc[q].call
    OBVIOUS
  <1>2. /\ proc[q] \in Procs /\ c \in Calls /\ Follows(c, proc[q]) /\ session[c] \in Rows
        /\ proc[q].pc = "adjust"
    BY <1>1, Known DEF Adjust
  <1>3. PICK difference : difference = session[c].final - proc[q].total
    OBVIOUS
  <1>4. UNCHANGED <<deposited, session, hold, funding, crashes>>
    BY DEF Adjust
  <1>5. PICK indebted \in BOOLEAN : indebted = (account'.debt > 0)
    <2>1. (account'.debt > 0) = TRUE \/ (account'.debt > 0) = FALSE
      OBVIOUS
    <2> QED BY <2>1, Zenon
  <1>6. PICK v : v = [proc[q] EXCEPT !.pc = "finish", !.debt = indebted]
    OBVIOUS
  <1>7. v \in Procs /\ v.pc = "finish" /\ v.call = c /\ v.total = proc[q].total
    BY <1>1, <1>2, <1>6 DEF Procs
  <1>8. proc' = [proc EXCEPT ![q] = v]
    BY <1>6, <1>5 DEF Adjust
  <1>9. CASE difference = 0 \/ adjusted[c] = "YES"
    <2>1. account' = account /\ adjusted' = adjusted
      BY <1>1, <1>3, <1>9 DEF Adjust
    <2>2. adjusted[c] \in {"NO", "YES"} /\ session[c].final \in Nat /\ proc[q].total \in Nat
      BY <1>2, Types, AmountsAreMicros DEF Inv, Rows, Procs
    <2>3. Follows(v.call, v)
      BY <1>2, <1>3, <1>7, <1>9, <2>2 DEF Follows
    <2>4. crashes' \in 0..MaxCrashes
      BY <1>4 DEF Inv, TypeOK
    <2> QED BY <1>4, <1>7, <1>8, <2>1, <2>3, <2>4, OnlyReconcilerMoves
  <1>10. CASE ~(difference = 0 \/ adjusted[c] = "YES")
    <2>1. /\ adjusted' = [adjusted EXCEPT ![c] = "YES"]
          /\ account' = Projected(account, AdjustmentDeltas(c, difference))
      BY <1>1, <1>3, <1>10 DEF Adjust
    <2>2. adjusted[c] = "NO"
      BY <1>2, <1>10, Types DEF Inv
    <2> QED BY <1>1, <1>2, <1>3, <1>4, <1>7, <1>8, <1>10, <2>1, <2>2, PostingKeeps
  <1> QED BY <1>9, <1>10
-----------------------------------------------------------------------------
(* The wallet's other traffic.                                             *)

LEMMA PayKeeps ==
    ASSUME Inv, NEW amount \in Deposits, Pay(amount)
    PROVE  Inv'
  <1>1. /\ deposited' = deposited + amount /\ deposited + amount <= MaxDeposited
        /\ account' = Projected(account, CreditDeltas(account, amount))
        /\ UNCHANGED <<session, hold, funding, adjusted, proc, crashes>>
    BY DEF Pay
  <1>2. amount \in Nat /\ account \in Accounts
    BY AmountsAreMicros, Types DEF Inv
  <1>3. /\ account' \in Accounts /\ Net(account') = Net(account) + amount
        /\ account'.reservedPaid = account.reservedPaid
        /\ account'.reservedPromo = account.reservedPromo
        /\ account'.paid - account'.debt = account.paid - account.debt + amount
        /\ account'.paid <= account.paid + amount /\ account'.debt <= account.debt
        /\ account'.debt > 0 => account'.paid = account.paid
    BY <1>1, <1>2, Payment
  <1>4. /\ account.paid \in Nat /\ account.debt \in Nat /\ account.reservedPaid \in Nat
        /\ Net(account) \in Int /\ deposited \in Nat /\ Promo \in Nat
        /\ account'.paid \in Nat /\ account'.debt \in Nat
        /\ Total(Costs) \in Nat /\ Total(Returnable) \in Nat
    BY <1>2, <1>3, Types, TotalTypes, AmountsAreMicros DEF Inv, Accounts, Net
  <1>5. TypeOK'
    <2>1. deposited' \in 0..MaxDeposited
      BY <1>1, <1>2, <1>4, AmountsAreMicros
    <2> QED BY <1>1, <1>3, <2>1 DEF Inv, TypeOK
  <1>6. HeldPaid' = HeldPaid /\ HeldPromo' = HeldPromo /\ Costs' = Costs /\ Returnable' = Returnable
    BY <1>1 DEF HeldPaid, HeldPromo, Costs, Cost, Finalized, Returnable
  <1>7. HoldsAgree'
    BY <1>3, <1>6 DEF Inv, HoldsAgree
  <1>8. NetAgrees'
    <2>1. Net(account) = Promo + deposited - Total(Costs)
      BY DEF Inv, NetAgrees
    <2>2. Net(account') = Promo + (deposited + amount) - Total(Costs)
      BY <1>2, <1>3, <1>4, <2>1
    <2> QED BY <1>1, <1>6, <2>2 DEF NetAgrees
  <1>9. RowsAgree' /\ ProcsAgree'
    BY <1>1 DEF Inv, RowsAgree, RowAgrees, ProcsAgree, Follows, Running, Finalized
  <1>10. NobodyOwed'
    <2> SUFFICES ASSUME \A x \in Calls : funding[x].debt = 0
                 PROVE  account'.paid + account'.reservedPaid + Total(Returnable) <= deposited + amount
      BY <1>1, <1>6 DEF NobodyOwed
    <2>1. account.paid + account.reservedPaid + Total(Returnable) <= deposited
      BY DEF Inv, NobodyOwed
    <2> QED BY <1>2, <1>3, <1>4, <2>1
  <1>11. OneOwed'
    <2> SUFFICES ASSUME NEW x \in Calls, Only(x)'
                 PROVE  Backed(x)'
      BY DEF OneOwed
    <2>1. Only(x) /\ Backed(x)
      BY <1>1 DEF Inv, OneOwed, Only
    <2>2. funding[x].paid \in Nat /\ funding[x].debt \in Nat
      BY Types DEF Inv, Splits
    <2>3. account'.paid <= deposited + amount
      BY <1>2, <1>3, <1>4, <2>1 DEF Backed
    <2>4. ASSUME adjusted[x] = "NO"
          PROVE  /\ account'.paid + funding[x].paid + funding[x].debt
                      <= deposited + amount + account'.debt
                 /\ account'.debt > 0 => account'.paid = 0
      <3>1. /\ account.paid + funding[x].paid + funding[x].debt <= deposited + account.debt
            /\ account.debt > 0 => account.paid = 0
        BY <2>1, <2>4 DEF Backed
      <3> QED BY <1>2, <1>3, <1>4, <2>2, <3>1
    <2> QED BY <1>1, <2>3, <2>4 DEF Backed
  <1>12. NoDebtYet'
    BY <1>1, <1>3, <1>4 DEF Inv, NoDebtYet, Running
  <1> QED BY <1>5, <1>7, <1>8, <1>9, <1>10, <1>11, <1>12 DEF Inv

\* A call starts: its hold leaves the balances for the reserved columns.
LEMMA AdmitKeeps ==
    ASSUME Inv, NEW c \in Calls, Admit(c)
    PROVE  Inv'
  <1>1. PICK q : q = PromoShare(account, HoldMicros, TRUE)
    OBVIOUS
  <1>2. PICK p : p = HoldMicros - q
    OBVIOUS
  <1>3. /\ session[c].status = "NEW" /\ account.debt = 0
        /\ account' = Projected(account, ReserveDeltas(p, q))
        /\ UNCHANGED <<deposited, funding, adjusted, proc, crashes>>
    BY <1>1, <1>2 DEF Admit
  <1>4. account \in Accounts /\ HoldMicros \in Nat /\ session[c] \in Rows
    BY AmountsAreMicros, Types DEF Inv
  <1>5. /\ q \in Nat /\ p \in Nat
        /\ p <= account.paid /\ q <= account.promo
        /\ account' \in Accounts /\ Net(account') = Net(account) /\ account'.debt = account.debt
        /\ account'.reservedPaid = account.reservedPaid + p
        /\ account'.reservedPromo = account.reservedPromo + q
        /\ account'.paid = account.paid - p
    <2>1. /\ account.paid \in Nat /\ account.promo \in Nat
          /\ account.paid + account.promo >= HoldMicros
          /\ q = MinMicros(account.promo, HoldMicros)
      BY <1>1, <1>4 DEF Admit, Accounts, ReservableMicros, PromoShare
    <2>2. q \in Nat /\ p \in Nat /\ p <= account.paid /\ q <= account.promo
      BY <1>2, <1>4, <2>1 DEF MinMicros
    <2> QED BY <1>3, <1>4, <2>2, Reservation
  <1>6. PICK row : row = [session[c] EXCEPT !.status = "ACTIVE"]
    OBVIOUS
  <1>7. /\ row \in Rows /\ row.status = "ACTIVE" /\ row.total = session[c].total
        /\ row.final = session[c].final
    BY <1>4, <1>6 DEF Rows
  <1>8. PICK h : h = [NoFunding EXCEPT !.paid = p, !.promo = q]
    OBVIOUS
  <1>9. h \in Splits /\ h.paid = p /\ h.promo = q
    BY <1>5, <1>8 DEF NoFunding, Splits
  <1>10. session' = [session EXCEPT ![c] = row] /\ hold' = [hold EXCEPT ![c] = h]
    BY <1>1, <1>2, <1>6, <1>8 DEF Admit
  <1>11. /\ session'[c] = row /\ hold'[c] = h
         /\ \A x \in Calls \ {c} : session'[x] = session[x] /\ hold'[x] = hold[x]
    BY <1>10, Types DEF Inv
  <1>12. TypeOK'
    BY <1>3, <1>5, <1>7, <1>9, <1>10 DEF Inv, TypeOK, Rows, Splits
  <1>13. /\ Total(HeldPaid') = Total(HeldPaid) - HeldPaid[c] + HeldPaid'[c]
         /\ Total(HeldPromo') = Total(HeldPromo) - HeldPromo[c] + HeldPromo'[c]
         /\ Total(Costs') = Total(Costs) - Costs[c] + Costs'[c]
    BY <1>3, <1>11, <1>12, OneCall DEF Inv
  <1>14. /\ HeldPaid[c] = 0 /\ HeldPromo[c] = 0 /\ HeldPaid'[c] = p /\ HeldPromo'[c] = q
         /\ Costs'[c] = Costs[c] /\ Costs[c] \in Nat /\ Returnable' = Returnable
    <2>1. Costs[c] \in Nat
      BY Summands DEF Inv
    <2> QED BY <1>3, <1>7, <1>9, <1>11, <2>1
          DEF HeldPaid, HeldPromo, Costs, Cost, Finalized, Returnable
  <1>15. /\ account.paid \in Nat /\ account.reservedPaid \in Nat /\ account.reservedPromo \in Nat
         /\ deposited \in Nat /\ Total(HeldPaid) \in Nat /\ Total(HeldPromo) \in Nat
         /\ Total(Costs) \in Nat /\ Total(Returnable) \in Nat
    BY <1>4, Types, TotalTypes DEF Inv, Accounts
  <1>16. HoldsAgree'
    <2>1. Total(HeldPaid') = Total(HeldPaid) + p /\ Total(HeldPromo') = Total(HeldPromo) + q
      BY <1>5, <1>13, <1>14, <1>15
    <2> QED BY <1>5, <2>1 DEF Inv, HoldsAgree
  <1>17. NetAgrees'
    <2>1. Total(Costs') = Total(Costs)
      BY <1>13, <1>14, <1>15
    <2> QED BY <1>3, <1>5, <2>1 DEF Inv, NetAgrees
  <1>18. RowsAgree'
    <2> SUFFICES ASSUME NEW x \in Calls
                 PROVE  RowAgrees(x)'
      BY DEF RowsAgree
    <2>1. RowAgrees(x)
      BY DEF Inv, RowsAgree
    <2>2. CASE x = c
      BY <1>3, <1>7, <1>11, <2>1, <2>2 DEF RowAgrees, Running, Finalized
    <2>3. CASE x # c
      BY <1>3, <1>11, <2>1, <2>3 DEF RowAgrees, Running, Finalized
    <2> QED BY <2>2, <2>3
  <1>19. ProcsAgree'
    <2>1. Steady
      <3> SUFFICES ASSUME NEW y \in Calls
                   PROVE  /\ Running(y)' => Running(y)
                          /\ session'[y].final = session[y].final
                          /\ adjusted[y] = "NO" => session'[y].total = session[y].total
        BY <1>3 DEF Steady
      <3>1. CASE y = c
        BY <1>3, <1>7, <1>11, <3>1 DEF Running
      <3>2. CASE y # c
        BY <1>11, <3>2 DEF Running
      <3> QED BY <3>1, <3>2
    <2> QED BY <1>3, <2>1, ReconcilersFollow
  <1>20. NobodyOwed'
    <2> SUFFICES ASSUME \A x \in Calls : funding[x].debt = 0
                 PROVE  account'.paid + account'.reservedPaid + Total(Returnable) <= deposited
      BY <1>3, <1>14 DEF NobodyOwed
    <2>1. account.paid + account.reservedPaid + Total(Returnable) <= deposited
      BY DEF Inv, NobodyOwed
    <2> QED BY <1>5, <1>15, <2>1
  <1>21. OneOwed'
    <2> SUFFICES ASSUME NEW x \in Calls, Only(x)'
                 PROVE  FALSE
      BY DEF OneOwed
    <2>1. funding[x].debt > 0 /\ \A d \in Calls \ {x} : session'[d].status = "NEW"
      BY <1>3 DEF Only
    <2>2. x = c
      BY <1>7, <1>11, <2>1
    <2>3. funding[c] = NoFunding
      BY <1>3 DEF Inv, RowsAgree, RowAgrees, Running
    <2> QED BY <2>1, <2>2, <2>3 DEF NoFunding
  <1>22. NoDebtYet'
    BY <1>3, <1>5 DEF NoDebtYet
  <1> QED BY <1>12, <1>16, <1>17, <1>18, <1>19, <1>20, <1>21, <1>22 DEF Inv

\* A call ends: its hold leaves the reserved columns, and what the estimate
\* takes from each bucket is written down as its funding.
LEMMA EndKeeps ==
    ASSUME Inv, NEW c \in Calls, NEW estimate \in Charges, End(c, estimate)
    PROVE  Inv'
  <1>1. PICK p, q : p = hold[c].paid /\ q = hold[c].promo
    OBVIOUS
  <1>2. PICK d : d = SettleDeltas(account, p, q, TRUE, estimate)
    OBVIOUS
  <1>3. PICK f : f = [paid  |-> Positive(-d.reservedPaid - d.paid),
                      promo |-> Positive(-d.reservedPromo - d.promo),
                      debt  |-> Positive(d.debt)]
    OBVIOUS
  <1>4. PICK row : row = [session[c] EXCEPT !.status = "RECONCILING", !.total = estimate]
    OBVIOUS
  <1>5. /\ session[c].status = "ACTIVE"
        /\ account' = Projected(account, d)
        /\ funding' = [funding EXCEPT ![c] = f]
        /\ session' = [session EXCEPT ![c] = row]
        /\ UNCHANGED <<deposited, hold, adjusted, proc, crashes>>
    BY <1>1, <1>2, <1>3, <1>4, Zenon DEF End
  <1>6. /\ account \in Accounts /\ p \in Nat /\ q \in Nat /\ estimate \in Nat
        /\ session[c] \in Rows /\ hold[c] \in Splits
    BY <1>1, AmountsAreMicros, Types DEF Inv, Splits
  <1>7. /\ HeldPaid[c] = p /\ HeldPromo[c] = q
        /\ p <= account.reservedPaid /\ q <= account.reservedPromo
    <2>1. HeldPaid[c] = p /\ HeldPromo[c] = q
      BY <1>1, <1>5 DEF HeldPaid, HeldPromo
    <2>2. HeldPaid[c] <= account.reservedPaid /\ HeldPromo[c] <= account.reservedPromo
      BY TotalTypes DEF Inv, HoldsAgree
    <2> QED BY <2>1, <2>2
  <1>8. Takes(account, p, q, estimate, d)
    BY <1>2, <1>6, SettlementTakes, Zenon
  <1> HIDE <1>2
  <1>9. /\ account' \in Accounts /\ Net(account') = Net(account) - estimate
        /\ account'.reservedPaid = account.reservedPaid - p
        /\ account'.reservedPromo = account.reservedPromo - q
        /\ Positive(-d.reservedPaid - d.paid) = account.paid + p - account'.paid
        /\ account.paid + p - account'.paid \in Nat
        /\ Positive(-d.reservedPromo - d.promo) \in Nat
        /\ Positive(d.debt) = account'.debt - account.debt
        /\ account'.paid <= account.paid + p /\ account.debt <= account'.debt
        /\ account'.debt > account.debt => account'.paid = 0
    BY <1>5, <1>6, <1>7, <1>8, Settlement
  <1>10. /\ account.paid \in Nat /\ account.debt \in Nat /\ account.reservedPaid \in Nat
         /\ account.reservedPromo \in Nat /\ Net(account) \in Int
         /\ account'.paid \in Nat /\ account'.debt \in Nat
         /\ deposited \in Nat /\ Promo \in Nat
         /\ Total(HeldPaid) \in Nat /\ Total(HeldPromo) \in Nat
         /\ Total(Costs) \in Nat /\ Total(Returnable) \in Nat
    BY <1>6, <1>9, Types, TotalTypes, AmountsAreMicros DEF Inv, Accounts, Net
  <1>11. /\ f.paid = account.paid + p - account'.paid
         /\ f.debt = account'.debt - account.debt /\ f \in Splits
    BY <1>3, <1>9, <1>10 DEF Splits
  <1>12. /\ row \in Rows /\ row.status = "RECONCILING" /\ row.total = estimate
         /\ row.final = session[c].final
    BY <1>4, <1>6 DEF Rows
  <1>13. /\ session'[c] = row /\ funding'[c] = f
         /\ \A x \in Calls \ {c} : session'[x] = session[x] /\ funding'[x] = funding[x]
    BY <1>5, Types DEF Inv
  <1>14. /\ session[c].total = 0 /\ adjusted[c] = "NO" /\ funding[c] = NoFunding
    BY <1>5 DEF Inv, RowsAgree, RowAgrees, Running
  <1>15. TypeOK'
    BY <1>5, <1>9, <1>11, <1>12 DEF Inv, TypeOK, Rows, Splits
  <1>16. /\ Total(HeldPaid') = Total(HeldPaid) - HeldPaid[c] + HeldPaid'[c]
         /\ Total(HeldPromo') = Total(HeldPromo) - HeldPromo[c] + HeldPromo'[c]
         /\ Total(Costs') = Total(Costs) - Costs[c] + Costs'[c]
         /\ Total(Returnable') = Total(Returnable) - Returnable[c] + Returnable'[c]
    BY <1>5, <1>13, <1>15, OneCall DEF Inv
  <1>17. /\ HeldPaid'[c] = 0 /\ HeldPromo'[c] = 0
         /\ Costs[c] = 0 /\ Costs'[c] = estimate
         /\ Returnable[c] = 0 /\ Returnable'[c] = f.paid
    BY <1>5, <1>12, <1>13, <1>14
       DEF HeldPaid, HeldPromo, Costs, Cost, Finalized, Returnable, NoFunding
  <1>18. HoldsAgree'
    <2>1. Total(HeldPaid') = Total(HeldPaid) - p /\ Total(HeldPromo') = Total(HeldPromo) - q
      BY <1>6, <1>7, <1>10, <1>16, <1>17
    <2> QED BY <1>9, <2>1 DEF Inv, HoldsAgree
  <1>19. NetAgrees'
    <2>1. Net(account) = Promo + deposited - Total(Costs)
      BY DEF Inv, NetAgrees
    <2>2. Total(Costs') = Total(Costs) + estimate
      BY <1>6, <1>10, <1>16, <1>17
    <2>3. Net(account') = Promo + deposited - Total(Costs')
      BY <1>6, <1>9, <1>10, <2>1, <2>2
    <2> QED BY <1>5, <2>3 DEF NetAgrees
  <1>20. RowsAgree'
    <2> SUFFICES ASSUME NEW x \in Calls
                 PROVE  RowAgrees(x)'
      BY DEF RowsAgree
    <2>1. RowAgrees(x)
      BY DEF Inv, RowsAgree
    <2>2. CASE x = c
      BY <1>12, <1>13, <2>2 DEF RowAgrees, Running, Finalized
    <2>3. CASE x # c
      BY <1>5, <1>13, <2>1, <2>3 DEF RowAgrees, Running, Finalized
    <2> QED BY <2>2, <2>3
  <1>21. ProcsAgree'
    <2> SUFFICES ASSUME NEW r \in Reconcilers, proc[r].pc # "idle"
                 PROVE  Follows(proc[r].call, proc[r])'
      BY <1>5 DEF ProcsAgree
    <2>1. Follows(proc[r].call, proc[r])
      BY DEF Inv, ProcsAgree
    <2>2. proc[r].call # c
      BY <1>5, <2>1 DEF Follows, Running
    <2> QED BY <1>5, <1>13, <2>1, <2>2 DEF Follows, Running
  <1>22. NobodyOwed'
    <2> SUFFICES ASSUME \A x \in Calls : funding'[x].debt = 0
                 PROVE  account'.paid + account'.reservedPaid + Total(Returnable') <= deposited
      BY <1>5 DEF NobodyOwed
    <2>1. \A x \in Calls : funding[x].debt = 0
      BY <1>13, <1>14 DEF NoFunding
    <2>2. account.paid + account.reservedPaid + Total(Returnable) <= deposited
      BY <2>1 DEF Inv, NobodyOwed
    <2>3. Total(Returnable') = Total(Returnable) + (account.paid + p - account'.paid)
      BY <1>9, <1>10, <1>11, <1>16, <1>17
    <2> QED BY <1>6, <1>9, <1>10, <2>2, <2>3
  <1>23. OneOwed'
    <2> SUFFICES ASSUME NEW x \in Calls, Only(x)'
                 PROVE  Backed(x)'
      BY DEF OneOwed
    <2>1. funding'[x].debt > 0 /\ \A y \in Calls \ {x} : session'[y].status = "NEW"
      BY DEF Only
    <2>2. x = c
      BY <1>12, <1>13, <2>1
    <2>3. \A y \in Calls : Running(y)
      BY <1>5, <1>13, <2>1, <2>2 DEF Running
    <2>4. account.debt = 0 /\ \A y \in Calls : funding[y].debt = 0
      BY <2>3 DEF Inv, NoDebtYet, RowsAgree, RowAgrees, NoFunding
    <2>5. account.paid + account.reservedPaid + Total(Returnable) <= deposited
      BY <2>4 DEF Inv, NobodyOwed
    <2>6. account'.paid = 0
      BY <1>9, <1>10, <1>11, <1>13, <2>1, <2>2, <2>4
    <2>7. account'.paid + f.paid + f.debt <= deposited + account'.debt
      BY <1>6, <1>7, <1>10, <1>11, <2>4, <2>5, <2>6
    <2> QED BY <1>5, <1>10, <1>13, <2>2, <2>6, <2>7 DEF Backed
  <1>24. NoDebtYet'
    BY <1>12, <1>13 DEF NoDebtYet, Running
  <1> QED BY <1>15, <1>18, <1>19, <1>20, <1>21, <1>22, <1>23, <1>24 DEF Inv

-----------------------------------------------------------------------------
LEMMA Starts == Init => Inv
  <1> SUFFICES ASSUME Init PROVE Inv
    OBVIOUS
  <1>1. PICK final \in [Calls -> Charges] :
           session = [c \in Calls |-> [status |-> "NEW", total |-> 0, final |-> final[c],
                                       claimed |-> FALSE, stale |-> FALSE]]
    BY DEF Init
  <1>2. \A c \in Calls : /\ session[c].status = "NEW" /\ session[c].total = 0
                         /\ funding[c] = NoFunding /\ adjusted[c] = "NO"
    BY <1>1 DEF Init
  <1>3. /\ account = [paid |-> 0, promo |-> Promo, reservedPaid |-> 0, reservedPromo |-> 0,
                      debt |-> 0]
        /\ deposited = 0 /\ Promo \in Nat
    BY AmountsAreMicros DEF Init, EmptyAccount
  <1>4. TypeOK
    <2>1. account \in Accounts /\ deposited \in 0..MaxDeposited /\ crashes \in 0..MaxCrashes
      <3>1. MaxDeposited \in Nat /\ MaxCrashes \in Nat /\ crashes = 0
        BY AmountsAreMicros DEF Init
      <3>2. account \in Accounts
        BY <1>3 DEF Accounts
      <3> QED BY <1>3, <3>1, <3>2
    <2>2. NoFunding \in [paid : Nat, promo : Nat, debt : Nat]
      BY DEF NoFunding
    <2>3. Idle \in Procs
      BY IdleType
    <2>4. session \in [Calls -> Rows]
      BY <1>1 DEF Rows
    <2>5. /\ hold \in [Calls -> [paid : Nat, promo : Nat, debt : Nat]]
          /\ funding \in [Calls -> [paid : Nat, promo : Nat, debt : Nat]]
          /\ adjusted \in [Calls -> {"NO", "YES"}] /\ proc \in [Reconcilers -> Procs]
      BY <2>2, <2>3 DEF Init
    <2> QED BY <2>1, <2>4, <2>5 DEF TypeOK, Rows, Procs
  <1>5. /\ Total(HeldPaid) = 0 /\ Total(HeldPromo) = 0 /\ Total(Costs) = 0
        /\ Total(Returnable) = 0
    <2>1. /\ HeldPaid \in [Calls -> Int] /\ HeldPromo \in [Calls -> Int]
          /\ Costs \in [Calls -> Int] /\ Returnable \in [Calls -> Int]
      BY <1>4, Summands
    <2>2. \A c \in Calls : /\ HeldPaid[c] = 0 /\ HeldPromo[c] = 0
                           /\ Costs[c] = 0 /\ Returnable[c] = 0
      BY <1>2 DEF HeldPaid, HeldPromo, Costs, Cost, Returnable, NoFunding
    <2> QED BY <2>1, <2>2, CallsAreDistinct, SumOfZeros DEF Total
  <1>6. HoldsAgree /\ NetAgrees
    BY <1>3, <1>5 DEF HoldsAgree, NetAgrees, Net
  <1>7. RowsAgree /\ ProcsAgree
    BY <1>2 DEF Init, RowsAgree, RowAgrees, Finalized, ProcsAgree, Idle
  <1>8. NobodyOwed /\ OneOwed /\ NoDebtYet
    BY <1>2, <1>3, <1>5 DEF NobodyOwed, OneOwed, Only, NoDebtYet, NoFunding
  <1> QED BY <1>4, <1>6, <1>7, <1>8 DEF Inv

LEMMA Stutters ==
    ASSUME Inv, UNCHANGED vars
    PROVE  Inv'
  <1>1. UNCHANGED <<account, deposited, session, hold, funding, adjusted, proc, crashes>>
    BY DEF vars
  <1>2. TypeOK'
    BY <1>1 DEF Inv, TypeOK
  <1>3. ProcsAgree'
    BY <1>1 DEF Inv, ProcsAgree, Follows, Running
  <1>4. ASSUME NEW x \in Calls
        PROVE  /\ Running(x) \/ Running(x)' =>
                    session'[x].status = session[x].status /\ session'[x].total = session[x].total
               /\ Cost(x)' = Cost(x)
               /\ Finalized(x)' => session'[x].total = session'[x].final
    BY <1>1 DEF Inv, RowsAgree, RowAgrees, Cost, Finalized
  <1> QED BY <1>1, <1>2, <1>3, <1>4, Bookkeeping

LEMMA Keeps == Inv /\ [Next]_vars => Inv'
  <1> SUFFICES ASSUME Inv, [Next]_vars PROVE Inv'
    OBVIOUS
  <1>1. ASSUME NEW amount \in Deposits, Pay(amount)
        PROVE  Inv'
    BY <1>1, PayKeeps
  <1>2. ASSUME NEW c \in Calls, Admit(c)
        PROVE  Inv'
    BY <1>2, AdmitKeeps
  <1>3. ASSUME NEW c \in Calls, NEW estimate \in Charges, End(c, estimate)
        PROVE  Inv'
    BY <1>3, EndKeeps
  <1>4. ASSUME NEW c \in Calls, PromoteEndedDebt(c)
        PROVE  Inv'
    BY <1>4, PromoteEndedDebtKeeps
  <1>5. ASSUME NEW c \in Calls, ClaimAges(c)
        PROVE  Inv'
    BY <1>5, ClaimAgesKeeps
  <1>6. ASSUME NEW q \in Reconcilers, Reconcile(q)
        PROVE  Inv'
    BY <1>6, ReadCandidateKeeps, ClaimKeeps, RetryKeeps, AdjustKeeps, FinishKeeps DEF Reconcile
  <1>7. ASSUME NEW q \in Reconcilers, Crash(q)
        PROVE  Inv'
    BY <1>7, CrashKeeps
  <1> QED BY <1>1, <1>2, <1>3, <1>4, <1>5, <1>6, <1>7, Stutters DEF Next

\* The invariant holds in every reachable state.
THEOREM SettlementInvariance == Spec => []Inv
  BY Starts, Keeps, PTL DEF Spec

\* The rows of sessions and of the wallet stay well formed, and no column of
\* the wallet goes negative (the CHECK constraints of BillingAccount).
THEOREM SettlementTypes == Spec => []TypeOK
  <1>1. Inv => TypeOK
    BY DEF Inv
  <1> QED BY <1>1, SettlementInvariance, PTL

\* Whatever reconcilers overlap, crash or take over, the wallet has paid for
\* each call what its session shows, once (finalizeProviderCost).
THEOREM WalletPays == Spec => []WalletPaysSessionTotals
  <1>1. Inv => WalletPaysSessionTotals
    <2> SUFFICES ASSUME Inv PROVE WalletPaysSessionTotals
      OBVIOUS
    <2>1. SumFunction([c \in Calls |-> Cost(c)]) = Total(Costs)
      BY DEF SumFunction, SumFunctionOnSet, FoldFunction, Total, Costs
    <2> QED BY <2>1 DEF WalletPaysSessionTotals, Inv, NetAgrees, Net
  <1> QED BY <1>1, SettlementInvariance, PTL

\* Until an organization makes another call after one that ended owing, its
\* spendable and reserved paid credit is money it paid in
\* (creditUsageAdjustment).
THEOREM BucketsKept == Spec => []RefundsKeepBuckets
  <1>1. Inv => RefundsKeepBuckets
    <2> SUFFICES ASSUME Inv,
                        \A c, d \in Calls : c # d /\ funding[c].debt > 0 => session[d].status = "NEW"
                 PROVE  PaidCreditWasPaid
      BY Types DEF RefundsKeepBuckets, Inv
    <2>1. /\ account.paid \in Nat /\ account.reservedPaid \in Nat /\ deposited \in Nat
          /\ Total(Returnable) \in Nat
      BY Types, TotalTypes DEF Inv, Accounts
    <2>2. \A c \in Calls : funding[c].debt \in Nat
      BY Types DEF Inv, Splits
    <2>3. CASE \A c \in Calls : funding[c].debt = 0
      <3>1. account.paid + account.reservedPaid + Total(Returnable) <= deposited
        BY <2>3 DEF Inv, NobodyOwed
      <3> QED BY <2>1, <3>1 DEF PaidCreditWasPaid
    <2>4. ASSUME NEW c \in Calls, funding[c].debt # 0
          PROVE  PaidCreditWasPaid
      <3>1. Only(c)
        BY <2>2, <2>4 DEF Only
      <3>2. account.paid <= deposited
        BY <3>1 DEF Inv, OneOwed, Backed
      <3>3. \A x \in Calls : session[x].status # "ACTIVE"
        BY <2>2, <2>4, <3>1 DEF Only, Inv, RowsAgree, RowAgrees, Running, NoFunding
      <3>4. HeldPaid \in [Calls -> Int] /\ \A x \in Calls : HeldPaid[x] = 0
        BY <3>3, Summands DEF Inv, HeldPaid
      <3>5. account.reservedPaid = 0
        BY <3>4, CallsAreDistinct, SumOfZeros DEF Inv, HoldsAgree, Total
      <3> QED BY <2>1, <3>2, <3>5 DEF PaidCreditWasPaid
    <2> QED BY <2>3, <2>4
  <1> QED BY <1>1, SettlementInvariance, PTL
=============================================================================
