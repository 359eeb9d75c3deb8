-------------------------- MODULE CallMeteringProofs --------------------------
(***************************************************************************)
(* Proofs about CallMetering for any requests, sweepers, reports, prices,  *)
(* funds and crashes.                                                      *)
(*                                                                         *)
(*   Inv      the call is admitted once and no process outlives a timeout  *)
(*   Sound    types, for any number of admissions and any stall            *)
(*   Metered  processes may stall; a call admitted once, with a hold       *)
(***************************************************************************)
EXTENDS CallMetering, FiniteSetTheorems, WellFoundedInduction, TLAPS

-----------------------------------------------------------------------------
(* Sums over sets of rows, by induction on least counterexamples.          *)

\* Induction over the natural numbers, about a set instead of a predicate.
LEMMA Induction ==
    ASSUME NEW T, 0 \in T, \A n \in Nat : n \in T => n + 1 \in T
    PROVE  \A n \in Nat : n \in T
  <1> SUFFICES ASSUME NEW k \in Nat \ T PROVE FALSE
    OBVIOUS
  <1>1. IsWellFoundedOn(OpToRel(<,Nat), Nat)
    BY NatLessThanWellFounded
  <1>2. PICK m \in Nat \ T : \A y \in Nat \ T : ~ (<<y, m>> \in OpToRel(<,Nat))
    BY <1>1, WFMin
  <1>3. \A y \in Nat \ T : ~(y < m)
    BY <1>2 DEF OpToRel
  <1>4. m - 1 \in Nat /\ m - 1 < m
    OBVIOUS
  <1>5. m - 1 \in T
    BY <1>3, <1>4
  <1> QED BY <1>4, <1>5

\* The recursion that the library's fold follows.
Pick(T) == CHOOSE x \in T : TRUE
SumStep(g, f, T) == IF T = {} THEN 0 ELSE f[Pick(T)] + g[T \ {Pick(T)}]
Sums(g, f, S) == g = [T \in SUBSET S |-> SumStep(g, f, T)]

LEMMA Parts ==
    ASSUME NEW S, IsFiniteSet(S), NEW T \in SUBSET S
    PROVE  /\ IsFiniteSet(T) /\ Cardinality(T) \in Nat /\ Cardinality(T) <= Cardinality(S)
           /\ T # {} => Pick(T) \in T
           /\ Cardinality(T) = 0 => T = {}
           /\ \A x \in T : /\ T \ {x} \in SUBSET S
                           /\ Cardinality(T \ {x}) = Cardinality(T) - 1
  <1>1. IsFiniteSet(T) /\ Cardinality(T) \in Nat /\ Cardinality(T) <= Cardinality(S)
    BY FS_Subset, FS_CardinalityType
  <1>2. T # {} => Pick(T) \in T
    BY DEF Pick
  <1>3. Cardinality(T) = 0 => T = {}
    BY <1>1, FS_EmptySet
  <1>4. \A x \in T : Cardinality(T \ {x}) = Cardinality(T) - 1
    BY <1>1, FS_RemoveElement
  <1> QED BY <1>1, <1>2, <1>3, <1>4

LEMMA SumsExist ==
    ASSUME NEW S, IsFiniteSet(S), NEW f \in [S -> Int]
    PROVE  \E g \in [SUBSET S -> Int] : Sums(g, f, S)
  <1> DEFINE To(n, g) == \A T \in SUBSET S : Cardinality(T) <= n => g[T] = SumStep(g, f, T)
             Good == {n \in Nat : \E g \in [SUBSET S -> Int] : To(n, g)}
  <1>1. 0 \in Good
    <2> DEFINE g == [T \in SUBSET S |-> 0]
    <2>1. g \in [SUBSET S -> Int]
      OBVIOUS
    <2>2. ASSUME NEW T \in SUBSET S, Cardinality(T) <= 0
          PROVE  g[T] = SumStep(g, f, T)
      <3>1. T = {}
        BY <2>2, Parts
      <3> QED BY <3>1 DEF SumStep
    <2> QED BY <2>1, <2>2
  <1>2. ASSUME NEW n \in Nat, n \in Good
        PROVE  n + 1 \in Good
    <2>1. PICK g \in [SUBSET S -> Int] : To(n, g)
      BY <1>2
    <2> DEFINE h == [T \in SUBSET S |-> IF Cardinality(T) = n + 1 THEN SumStep(g, f, T) ELSE g[T]]
    <2>2. ASSUME NEW T \in SUBSET S, T # {}
          PROVE  f[Pick(T)] \in Int /\ g[T \ {Pick(T)}] \in Int
      BY <2>2, Parts
    <2>3. h \in [SUBSET S -> Int]
      <3>1. \A T \in SUBSET S : SumStep(g, f, T) \in Int
        BY <2>2 DEF SumStep
      <3> QED BY <3>1
    <2>4. ASSUME NEW T \in SUBSET S, Cardinality(T) <= n + 1
          PROVE  h[T] = SumStep(h, f, T)
      <3>1. CASE T = {}
        <4>1. Cardinality(T) = 0
          BY <3>1, FS_EmptySet
        <4>2. g[T] = 0
          BY <2>1, <3>1, <4>1 DEF SumStep
        <4>3. Cardinality(T) # n + 1
          BY <4>1
        <4>4. h[T] = g[T]
          BY <4>3
        <4> QED BY <3>1, <4>2, <4>4 DEF SumStep
      <3>2. CASE T # {}
        <4>1. PICK p : p = Pick(T)
          OBVIOUS
        <4>2. p \in T /\ T \ {p} \in SUBSET S /\ Cardinality(T \ {p}) = Cardinality(T) - 1
              /\ Cardinality(T) \in Nat
          BY <3>2, <4>1, Parts
        <4>3. Cardinality(T \ {p}) # n + 1
          BY <2>4, <4>2
        <4>4. h[T \ {p}] = g[T \ {p}]
          BY <4>2, <4>3
        <4>5. SumStep(h, f, T) = SumStep(g, f, T)
          BY <4>1, <4>4 DEF SumStep
        <4>6. CASE Cardinality(T) = n + 1
          BY <4>5, <4>6
        <4>7. CASE Cardinality(T) # n + 1
          <5>1. Cardinality(T) <= n
            BY <2>4, <4>2, <4>7
          <5>2. g[T] = SumStep(g, f, T)
            BY <2>1, <5>1
          <5> QED BY <4>5, <4>7, <5>2
        <4> QED BY <4>6, <4>7
      <3> QED BY <3>1, <3>2
    <2>5. To(n + 1, h)
      BY <2>4
    <2> HIDE DEF h
    <2> QED BY <2>3, <2>5
  <1>3. Cardinality(S) \in Good
    <2> HIDE DEF Good
    <2> QED BY <1>1, <1>2, Induction, FS_CardinalityType
  <1>4. PICK g \in [SUBSET S -> Int] : To(Cardinality(S), g)
    BY <1>3
  <1>5. \A T \in SUBSET S : g[T] = SumStep(g, f, T)
    BY <1>4, Parts
  <1>6. Sums(g, f, S)
    BY <1>5 DEF Sums
  <1> QED BY <1>6

\* Induction over the subsets of a finite set.
LEMMA PartsInduction ==
    ASSUME NEW S, IsFiniteSet(S), NEW Q,
           \A T \in SUBSET S : (\A x \in T : T \ {x} \in Q) => T \in Q
    PROVE  \A T \in SUBSET S : T \in Q
  <1> DEFINE Good == {n \in Nat : \A T \in SUBSET S : Cardinality(T) = n => T \in Q}
  <1>1. 0 \in Good
    <2>1. ASSUME NEW T \in SUBSET S, Cardinality(T) = 0
          PROVE  T \in Q
      <3>1. T = {}
        BY <2>1, Parts
      <3> QED BY <3>1
    <2> QED BY <2>1
  <1>2. ASSUME NEW n \in Nat, n \in Good
        PROVE  n + 1 \in Good
    <2>1. ASSUME NEW T \in SUBSET S, Cardinality(T) = n + 1
          PROVE  T \in Q
      <3>1. \A x \in T : T \ {x} \in SUBSET S /\ Cardinality(T \ {x}) = n
        <4>1. \A x \in T : T \ {x} \in SUBSET S /\ Cardinality(T \ {x}) = Cardinality(T) - 1
          BY Parts
        <4> QED BY <2>1, <4>1
      <3>2. \A x \in T : T \ {x} \in Q
        BY <1>2, <3>1
      <3> QED BY <3>2
    <2> QED BY <2>1
  <1>3. \A n \in Nat : n \in Good
    <2> HIDE DEF Good
    <2> QED BY <1>1, <1>2, Induction
  <1> QED BY <1>3, Parts

LEMMA SumsUnique ==
    ASSUME NEW S, IsFiniteSet(S), NEW f, NEW g, NEW h, Sums(g, f, S), Sums(h, f, S)
    PROVE  g = h
  <1> DEFINE Q == {T \in SUBSET S : g[T] = h[T]}
  <1>1. ASSUME NEW T \in SUBSET S, \A x \in T : T \ {x} \in Q
        PROVE  T \in Q
    <2>1. g[T] = SumStep(g, f, T) /\ h[T] = SumStep(h, f, T)
      BY DEF Sums
    <2>2. T # {} => Pick(T) \in T
      BY Parts
    <2>3. SumStep(g, f, T) = SumStep(h, f, T)
      BY <1>1, <2>2 DEF SumStep
    <2> QED BY <2>1, <2>3
  <1>2. \A T \in SUBSET S : T \in Q
    <2> HIDE DEF Q
    <2> QED BY <1>1, PartsInduction
  <1>3. g = [T \in SUBSET S |-> g[T]] /\ h = [T \in SUBSET S |-> h[T]]
    BY DEF Sums
  <1> QED BY <1>2, <1>3

\* Such a function adds up every subset, whichever element is taken first.
AddsUp(g, f, S) ==
    /\ g \in [SUBSET S -> Int]
    /\ g[{}] = 0
    /\ \A T \in SUBSET S : \A x \in T : g[T] = f[x] + g[T \ {x}]

LEMMA SumsAddUp ==
    ASSUME NEW S, IsFiniteSet(S), NEW f \in [S -> Int], NEW it, Sums(it, f, S)
    PROVE  AddsUp(it, f, S)
  <1>1. PICK g \in [SUBSET S -> Int] : Sums(g, f, S)
    BY SumsExist
  <1>2. it = g
    BY <1>1, SumsUnique
  <1>3. \A T \in SUBSET S : g[T] = SumStep(g, f, T)
    BY <1>1 DEF Sums
  <1>4. g[{}] = 0
    BY <1>3 DEF SumStep
  <1> DEFINE Q == {T \in SUBSET S : \A x \in T : g[T] = f[x] + g[T \ {x}]}
  <1>5. ASSUME NEW T \in SUBSET S, \A x \in T : T \ {x} \in Q
        PROVE  T \in Q
    <2> SUFFICES ASSUME NEW x \in T
                 PROVE  g[T] = f[x] + g[T \ {x}]
      OBVIOUS
    <2>1. PICK p : p = Pick(T)
      OBVIOUS
    <2>2. p \in T
      BY <2>1, Parts
    <2>3. g[T] = f[p] + g[T \ {p}]
      BY <1>3, <2>1, <2>2 DEF SumStep
    <2>4. CASE x = p
      BY <2>3, <2>4
    <2>5. CASE x # p
      <3>1. g[T \ {p}] = f[x] + g[(T \ {p}) \ {x}]
        BY <1>5, <2>2, <2>5
      <3>2. g[T \ {x}] = f[p] + g[(T \ {x}) \ {p}]
        BY <1>5, <2>2, <2>5
      <3>3. (T \ {p}) \ {x} = (T \ {x}) \ {p} /\ (T \ {p}) \ {x} \in SUBSET S
        OBVIOUS
      <3>4. PICK rest \in Int : rest = g[(T \ {p}) \ {x}]
        BY <3>3
      <3>5. g[T \ {p}] = f[x] + rest /\ g[T \ {x}] = f[p] + rest
        BY <3>1, <3>2, <3>3, <3>4
      <3>6. f[x] \in Int /\ f[p] \in Int
        BY <2>2
      <3>7. f[p] + (f[x] + rest) = f[x] + (f[p] + rest)
        BY <3>4, <3>6
      <3> QED BY <2>3, <3>5, <3>7
    <2> QED BY <2>4, <2>5
  <1>6. \A T \in SUBSET S : T \in Q
    <2> HIDE DEF Q
    <2> QED BY <1>5, PartsInduction
  <1> QED BY <1>1, <1>2, <1>4, <1>6 DEF AddsUp

\* The sum over a part is the same within the part and within the whole.
LEMMA SumWithin ==
    ASSUME NEW S, IsFiniteSet(S), NEW R \in SUBSET S, NEW f, NEW h, \A x \in R : f[x] = h[x],
           NEW F, NEW H, AddsUp(F, f, S), AddsUp(H, h, R)
    PROVE  F[R] = H[R]
  <1> DEFINE Q == {T \in SUBSET R : F[T] = H[T]}
  <1>1. ASSUME NEW T \in SUBSET R, \A x \in T : T \ {x} \in Q
        PROVE  T \in Q
    <2>1. CASE T = {}
      BY <2>1 DEF AddsUp
    <2>2. CASE T # {}
      <3>1. PICK x \in T : TRUE
        BY <2>2
      <3>2. F[T] = f[x] + F[T \ {x}] /\ H[T] = h[x] + H[T \ {x}]
        BY <3>1 DEF AddsUp
      <3>3. F[T \ {x}] = H[T \ {x}] /\ f[x] = h[x]
        BY <1>1, <3>1
      <3> QED BY <3>2, <3>3
    <2> QED BY <2>1, <2>2
  <1>2. IsFiniteSet(R)
    BY FS_Subset
  <1>3. \A T \in SUBSET R : T \in Q
    <2> HIDE DEF Q
    <2> QED BY <1>1, <1>2, PartsInduction
  <1> QED BY <1>3

Grosses(R) == [row \in R |-> row.gross]
Debts(R) == [row \in R |-> row.debt]

LEMMA GrossIs ==
    ASSUME NEW R, IsFiniteSet(R), \A row \in R : row.gross \in Nat
    PROVE  \E g : AddsUp(g, Grosses(R), R) /\ Gross(R) = g[R]
  <1> DEFINE v == Grosses(R)
             P(g) == g = [T \in SUBSET R |->
                             IF T = {} THEN 0
                             ELSE (CHOOSE x \in T : TRUE).gross + g[T \ {CHOOSE x \in T : TRUE}]]
             it == CHOOSE g : P(g)
  <1>1. Gross(R) = it[R]
    BY DEF Gross, MapThenSumSet, MapThenFoldSet
  <1>2. v \in [R -> Int]
    BY DEF Grosses
  <1>3. ASSUME NEW g PROVE P(g) <=> Sums(g, v, R)
    <2>1. \A T \in SUBSET R : T # {} => v[Pick(T)] = Pick(T).gross
      BY Parts DEF Grosses
    <2>2. \A T \in SUBSET R : SumStep(g, v, T)
              = IF T = {} THEN 0 ELSE Pick(T).gross + g[T \ {Pick(T)}]
      BY <2>1 DEF SumStep
    <2> QED BY <2>2 DEF Sums, Pick
  <1>4. PICK g : Sums(g, v, R)
    BY <1>2, SumsExist
  <1>5. P(g)
    BY <1>3, <1>4
  <1>6. P(it)
    <2> HIDE DEF P
    <2> QED BY <1>5
  <1>7. Sums(it, v, R)
    BY <1>3, <1>6
  <1> HIDE DEF it, P
  <1>8. AddsUp(it, v, R)
    BY <1>2, <1>7, SumsAddUp
  <1> QED BY <1>1, <1>8

LEMMA DebtIs ==
    ASSUME NEW R, IsFiniteSet(R), \A row \in R : row.debt \in Nat
    PROVE  \E g : AddsUp(g, Debts(R), R) /\ Debt(R) = g[R]
  <1> DEFINE v == Debts(R)
             P(g) == g = [T \in SUBSET R |->
                             IF T = {} THEN 0
                             ELSE (CHOOSE x \in T : TRUE).debt + g[T \ {CHOOSE x \in T : TRUE}]]
             it == CHOOSE g : P(g)
  <1>1. Debt(R) = it[R]
    BY DEF Debt, MapThenSumSet, MapThenFoldSet
  <1>2. v \in [R -> Int]
    BY DEF Debts
  <1>3. ASSUME NEW g PROVE P(g) <=> Sums(g, v, R)
    <2>1. \A T \in SUBSET R : T # {} => v[Pick(T)] = Pick(T).debt
      BY Parts DEF Debts
    <2>2. \A T \in SUBSET R : SumStep(g, v, T)
              = IF T = {} THEN 0 ELSE Pick(T).debt + g[T \ {Pick(T)}]
      BY <2>1 DEF SumStep
    <2> QED BY <2>2 DEF Sums, Pick
  <1>4. PICK g : Sums(g, v, R)
    BY <1>2, SumsExist
  <1>5. P(g)
    BY <1>3, <1>4
  <1>6. P(it)
    <2> HIDE DEF P
    <2> QED BY <1>5
  <1>7. Sums(it, v, R)
    BY <1>3, <1>6
  <1> HIDE DEF it, P
  <1>8. AddsUp(it, v, R)
    BY <1>2, <1>7, SumsAddUp
  <1> QED BY <1>1, <1>8

\* The sums over one row more.
LEMMA OneMore ==
    ASSUME NEW R, IsFiniteSet(R), NEW x, x \notin R,
           \A row \in R \cup {x} : row.gross \in Nat /\ row.debt \in Nat
    PROVE  /\ Gross(R) \in Int /\ Gross(R \cup {x}) = Gross(R) + x.gross
           /\ Debt(R) \in Int /\ Debt(R \cup {x}) = Debt(R) + x.debt
  <1> DEFINE S == R \cup {x}
  <1>1. IsFiniteSet(S) /\ R \in SUBSET S /\ S \ {x} = R
    BY FS_AddElement
  <1>2. PICK G : AddsUp(G, Grosses(S), S) /\ Gross(S) = G[S]
    BY <1>1, GrossIs
  <1>3. PICK g : AddsUp(g, Grosses(R), R) /\ Gross(R) = g[R]
    BY GrossIs
  <1>4. PICK D : AddsUp(D, Debts(S), S) /\ Debt(S) = D[S]
    BY <1>1, DebtIs
  <1>5. PICK d : AddsUp(d, Debts(R), R) /\ Debt(R) = d[R]
    BY DebtIs
  <1>6. G[R] = g[R]
    <2>1. \A row \in R : Grosses(S)[row] = Grosses(R)[row]
      BY DEF Grosses
    <2> HIDE DEF S
    <2> QED BY <1>1, <1>2, <1>3, <2>1, SumWithin
  <1>7. D[R] = d[R]
    <2>1. \A row \in R : Debts(S)[row] = Debts(R)[row]
      BY DEF Debts
    <2> HIDE DEF S
    <2> QED BY <1>1, <1>4, <1>5, <2>1, SumWithin
  <1>8. G[S] = x.gross + G[R] /\ G[R] \in Int
    <2>1. Grosses(S)[x] = x.gross
      BY DEF Grosses
    <2>2. x \in S
      OBVIOUS
    <2> HIDE DEF S
    <2> QED BY <1>1, <1>2, <2>1, <2>2 DEF AddsUp
  <1>9. D[S] = x.debt + D[R] /\ D[R] \in Int
    <2>1. Debts(S)[x] = x.debt
      BY DEF Debts
    <2>2. x \in S
      OBVIOUS
    <2> HIDE DEF S
    <2> QED BY <1>1, <1>4, <2>1, <2>2 DEF AddsUp
  <1> QED BY <1>2, <1>3, <1>4, <1>5, <1>6, <1>7, <1>8, <1>9

LEMMA NoRows == Gross({}) = 0 /\ Debt({}) = 0
  <1>1. IsFiniteSet({})
    BY FS_EmptySet
  <1>2. PICK g : AddsUp(g, Grosses({}), {}) /\ Gross({}) = g[{}]
    BY <1>1, GrossIs
  <1>3. PICK d : AddsUp(d, Debts({}), {}) /\ Debt({}) = d[{}]
    BY <1>1, DebtIs
  <1> QED BY <1>2, <1>3 DEF AddsUp
-----------------------------------------------------------------------------
(* The inductive invariant: the rows.                                      *)

\* One admission, and timeouts that are long against requests and sweeps.
Steady == Generations = 1 /\ Stalls = FALSE

First == InitialKey(1)
\* The report whose rolling hold this is; an initial hold precedes them all.
Report(k) == IF k[1] = "rolling" THEN k[2] ELSE 0

Sessions == [status : {"NONE", "ACTIVE", "ENDED", "DEBT", "RECONCILING", "SETTLED"},
             gen : 0..Generations, active : HoldKeys \cup {None},
             lastSeq : 0..LastReport, claim : 0..LastReport,
             aged : BOOLEAN, quiet : BOOLEAN, cum : Nat, total : Nat, debt : Nat,
             tail : Nat]

Made(k) == holds[k].status # "NONE"
Open(k) == holds[k].status = "ACTIVE"
OpenHolds == {k \in HoldKeys : Open(k)}

HoldsTyped ==
    /\ holds = [k \in HoldKeys |-> [status |-> holds[k].status, by |-> holds[k].by,
                                    late |-> holds[k].late]]
    /\ \A k \in HoldKeys : /\ holds[k].status \in {"NONE", "ACTIVE", "SETTLED", "RELEASED"}
                           /\ holds[k].late \in BOOLEAN

Typed == /\ Steady
         /\ session \in Sessions
         /\ HoldsTyped
         /\ IsFiniteSet(charges)
         /\ env \in [crashes : 0..MaxCrashes, stalled : BOOLEAN, lull : Lulls]

\* Only paid money is reserved, and the reserved column is that of the holds.
Wallet ==
    /\ account \in Accounts /\ account.promo = 0 /\ account.reservedPromo = 0
    /\ IsFiniteSet(OpenHolds)
    /\ account.reservedPaid = HoldMicros * Cardinality(OpenHolds)

UsageRow(row) ==
    /\ row.checkpoint \in Checkpoints /\ ~row.tail
    /\ row.key = IF row.hold = None THEN <<"tail", row.checkpoint.n>>
                                    ELSE <<"settle", row.checkpoint.n>>
KeptRow(row) ==
    /\ row.checkpoint = None /\ row.hold # None
    /\ row.key \in {<<"silent", row.hold>>, <<"expired-tail", row.hold>>}
    /\ row.gross = HoldMicros /\ row.debt = 0

\* A row that names a hold has settled it, and no other row has.
Rows ==
    /\ \A row \in charges :
          /\ UsageRow(row) \/ KeptRow(row)
          /\ row.gross \in Nat /\ row.debt \in Nat
          /\ row.hold \in HoldKeys \cup {None}
          /\ row.hold # None => /\ holds[row.hold].status = "SETTLED"
                                /\ Report(row.hold) <= session.lastSeq
    /\ \A x, y \in charges : x.hold = y.hold /\ x.hold # None => x = y
    /\ \A k \in HoldKeys : holds[k].status = "SETTLED" =>
          \E row \in charges : row.hold = k /\ row.key = holds[k].by

\* A call is ACTIVE as long as it carries a hold, that of its last report.
Carries ==
    /\ session.status = "ACTIVE" <=> session.active # None
    /\ session.gen = 0 <=> session.status = "NONE"
    /\ session.gen = 0 => session = NoSession /\ charges = {}
    /\ session.active # None => Report(session.active) = session.lastSeq /\ Made(session.active)

\* The charge the session is still to be told of.
Pendings == PendingRows(session)
OnePending ==
    /\ \A x, y \in Pendings : x = y
    /\ \A x \in Pendings :
          /\ session.claim = x.checkpoint.n
          /\ session.active \in {x.hold, None}
          /\ x.checkpoint.cum = session.cum + x.gross
          /\ x.checkpoint.target = session.total + x.gross
          /\ x.checkpoint.priorDebt = session.debt

\* What the session has been told of adds up to what it says.
Told == {row \in charges : row.checkpoint # None /\ row.checkpoint.n <= session.lastSeq}
Totals ==
    /\ session.cum = Gross(Told)
    /\ session.total = Gross(Reflected) /\ session.debt = Debt(Reflected)
    /\ \A x \in Told : x.checkpoint.cum <= session.cum
    /\ Told # {} => \E x \in Told : x.checkpoint.cum = session.cum

Shared == Typed /\ Wallet /\ Rows /\ Carries /\ OnePending /\ Totals
-----------------------------------------------------------------------------
(* The inductive invariant: what a process knows at each of its steps.     *)

Admitters == [pc : {"reserve-admission", "admit", "drop-admission"},
              from : {"NONE"}, gen : {1}]
Cancelers == [pc : {"cancel", "end-canceled"}, hold : HoldKeys, gen : {1}]
Readers == [pc : {"recover"}, n : Reports, sess : Sessions]
Claimants == [pc : {"claim", "recovered", "charge-from", "unclaim"}, n : Reports]
Chargers == [pc : {"charge"}, n : Reports, sess : Sessions, delta : Nat,
             checkpoint : Checkpoints]
Completers == [pc : {"reserve-next", "complete"}, mode : {"claimed", "recovering"},
               n : Reports, checkpoint : Checkpoints, debt : Nat, owes : BOOLEAN,
               stop : BOOLEAN, next : HoldKeys \cup {None}]
Silencers == [pc : {"settle-silent", "end-silent"}, hold : HoldKeys, reported : BOOLEAN]
Expirers == [pc : {"settle-tail", "apply-tail", "release-expired", "end-expired"},
             hold : HoldKeys]
Locals == {Idle} \cup Admitters \cup Cancelers \cup Readers \cup Claimants \cup Chargers
          \cup Completers \cup Silencers \cup Expirers

Admitting(l) ==
    /\ l.pc = "admit" => Made(First)
    /\ l.pc = "drop-admission" => session.gen = 1 /\ session.active # First
Canceling(l) ==
    l.pc \in {"cancel", "end-canceled"} =>
        /\ Made(l.hold) /\ session.gen = 1 /\ Report(l.hold) <= session.lastSeq
        /\ l.pc = "end-canceled" => holds[l.hold].status = "RELEASED"

\* Whoever claims finds the session told of everything, or the claim is fresh.
Reporting(l) ==
    /\ l.pc \in {"recover", "claim", "recovered"} => session.gen = 1
    /\ l.pc = "recover" => l.sess.lastSeq <= session.lastSeq
    /\ l.pc \in {"claim", "recovered"} => (Pendings # {} => ~session.aged)

\* Between the claim and the charge nobody else moves the session on ...
Claimed(l) ==
    l.pc \in {"charge-from", "charge", "unclaim"} =>
        session.claim = l.n /\ ~session.aged /\ session.lastSeq < l.n /\ Pendings = {}

\* ... so that what was read still stands, or the hold is closed.
Same(sess) ==
    /\ sess.active = session.active /\ sess.cum = session.cum
    /\ sess.total = session.total /\ sess.debt = session.debt
Charging(l) ==
    l.pc = "charge" =>
        /\ l.checkpoint = [n |-> l.n, cum |-> l.sess.cum + l.delta,
                           target |-> l.sess.total + l.delta, priorDebt |-> l.sess.debt]
        /\ Same(l.sess) \/ (l.sess.active # None /\ Terminal(l.sess.active))

\* What is to be completed has been charged, or there was nothing to charge.
Posted(l) == \E row \in charges : row.checkpoint = l.checkpoint /\ row.debt = l.debt
Nothing(l) ==
    /\ Pendings = {} /\ session.active = None /\ l.debt = 0
    /\ l.checkpoint.cum = session.cum /\ l.checkpoint.target = session.total
    /\ l.checkpoint.priorDebt = session.debt
Completion(l) ==
    l.pc \in {"reserve-next", "complete"} =>
        /\ session.gen = 1
        /\ l.mode = "claimed" =>
              /\ l.checkpoint.n = l.n
              /\ session.lastSeq < l.n => /\ session.claim = l.n /\ ~session.aged
                                          /\ Posted(l) \/ Nothing(l)
        /\ l.mode = "recovering" =>
              /\ Posted(l)
              /\ session.lastSeq >= l.checkpoint.n /\ Pendings # {} => ~session.aged
Advancing(l) ==
    /\ l.pc = "reserve-next" => l.next = None
    /\ l.pc = "complete" =>
          IF l.next = None THEN l.stop \/ Final(l.checkpoint)
          ELSE /\ ~l.stop /\ ~Final(l.checkpoint)
               /\ Report(l.next) = l.checkpoint.n /\ Made(l.next)
               /\ session.lastSeq < l.checkpoint.n => ~holds[l.next].late

\* Sweepers that keep a hold whole, and sweepers that give one back.
Carried(k) == Made(k) /\ session.gen = 1 /\ Report(k) <= session.lastSeq
Keeping(l) ==
    /\ l.pc = "settle-tail" => /\ Carried(l.hold)
                               /\ Open(l.hold) => session.active = l.hold /\ session.lastSeq > 0
    /\ l.pc = "settle-silent" => /\ Carried(l.hold) /\ HasProvider
                                 /\ Open(l.hold) => session.active = l.hold
    /\ l.pc \in {"apply-tail", "end-silent"} =>
          \E row \in charges : row.checkpoint = None /\ row.hold = l.hold
Expiring(l) ==
    l.pc \in {"release-expired", "end-expired"} =>
        /\ Made(l.hold)
        /\ \A row \in charges : row.hold = l.hold => row.checkpoint # None
        /\ session.active = l.hold /\ Open(l.hold) =>
              /\ ~(session.lastSeq > 0 /\ holds[l.hold].late)
              /\ ~(HasProvider /\ session.quiet)
        /\ l.pc = "end-expired" => Terminal(l.hold)

Fits(l) == /\ l \in Locals
           /\ Admitting(l) /\ Canceling(l) /\ Reporting(l) /\ Claimed(l) /\ Charging(l)
           /\ Completion(l) /\ Advancing(l) /\ Keeping(l) /\ Expiring(l)
AllFit == proc = [p \in Processes |-> proc[p]] /\ \A p \in Processes : Fits(proc[p])

\* One process at a time holds the claim, and no hold is kept and given back.
Owns(l) == \/ l.pc \in {"charge-from", "charge", "unclaim"}
           \/ /\ l.pc \in {"reserve-next", "complete"}
              /\ l.mode = "claimed" /\ session.lastSeq < l.n
OneOwner == \A p, q \in Processes : Owns(proc[p]) /\ Owns(proc[q]) => p = q

Gives(l, k) == l.pc \in {"release-expired", "end-expired"} /\ l.hold = k
Keeps(l, k) == l.pc \in {"settle-tail", "settle-silent"} /\ l.hold = k
Apart == \A p, q \in Processes, k \in HoldKeys :
             Gives(proc[p], k) /\ Keeps(proc[q], k) => ~Open(k)

\* Before any crash a hold that no call carries yet is on its way to one, and
\* is not given back.
Ahead(k) == IF Report(k) = 0 THEN session.gen = 0 ELSE Report(k) > session.lastSeq
Brings(l, k) == \/ l.pc = "admit" /\ k = First
                \/ l.pc = "complete" /\ l.next = k
Calm ==
    /\ \A k \in HoldKeys : Made(k) /\ Ahead(k) =>
          Open(k) /\ ~holds[k].late /\ \E p \in Processes : Brings(proc[p], k)
    /\ \A p \in Processes, k \in HoldKeys : Gives(proc[p], k) => ~Ahead(k)

Inv == /\ Shared /\ AllFit /\ OneOwner /\ Apart
       /\ env.crashes = 0 => Calm
       /\ ActiveCallIsBacked
-----------------------------------------------------------------------------
(* Keys, processes, and the start.                                         *)

LEMMA Keys ==
    ASSUME Steady
    PROVE  /\ First \in HoldKeys /\ Report(First) = 0
           /\ \A n \in Reports, r \in 0..MaxRecovery :
                 RollingKey(n, r) \in HoldKeys /\ Report(RollingKey(n, r)) = n
           /\ \A k \in HoldKeys : /\ Report(k) \in Nat /\ (Report(k) = 0 => k = First)
                                  /\ k # None
           /\ None \notin Checkpoints
  <1> USE BoundsAreNumbers DEF Steady
  <1>1. First \in HoldKeys /\ Report(First) = 0
    BY DEF First, InitialKey, HoldKeys, Report
  <1>2. ASSUME NEW n \in Reports, NEW r \in 0..MaxRecovery
        PROVE  RollingKey(n, r) \in HoldKeys /\ Report(RollingKey(n, r)) = n
    BY DEF RollingKey, HoldKeys, Report
  <1>3. ASSUME NEW k \in HoldKeys
        PROVE  Report(k) \in Nat /\ (Report(k) = 0 => k = First)
    <2>1. CASE \E g \in 1..Generations : k = InitialKey(g)
      BY <2>1, <1>1 DEF First
    <2>2. CASE \E n \in Reports, r \in 0..MaxRecovery : k = RollingKey(n, r)
      <3>1. PICK n \in Reports, r \in 0..MaxRecovery : k = RollingKey(n, r)
        BY <2>2
      <3>2. Report(k) = n
        BY <1>2, <3>1
      <3> QED BY <3>2 DEF Reports
    <2> QED BY <2>1, <2>2 DEF HoldKeys
  <1> QED BY <1>1, <1>2, <1>3, NoneIsNothing

LEMMA Kinds ==
    ASSUME NEW l \in Locals
    PROVE  /\ l.pc \in {"reserve-admission", "admit", "drop-admission"} <=> l \in Admitters
           /\ l.pc \in {"cancel", "end-canceled"} <=> l \in Cancelers
           /\ l.pc = "recover" <=> l \in Readers
           /\ l.pc \in {"claim", "recovered", "charge-from", "unclaim"} <=> l \in Claimants
           /\ l.pc = "charge" <=> l \in Chargers
           /\ l.pc \in {"reserve-next", "complete"} <=> l \in Completers
           /\ l.pc \in {"settle-silent", "end-silent"} <=> l \in Silencers
           /\ l.pc \in {"settle-tail", "apply-tail", "release-expired", "end-expired"}
                 <=> l \in Expirers
           /\ l.pc = "idle" <=> l = Idle
  BY DEF Locals, Idle, Admitters, Cancelers, Readers, Claimants, Chargers, Completers,
         Silencers, Expirers

LEMMA IdleFits == Fits(Idle)
  BY DEF Fits, Idle, Locals, Admitting, Canceling, Reporting, Claimed, Charging, Completion,
         Advancing, Keeping, Expiring

-----------------------------------------------------------------------------
(* What the other processes know survives each kind of change.             *)

LEMMA FitsStays ==
    ASSUME UNCHANGED <<session, holds, charges>>, NEW l, Fits(l)
    PROVE  Fits(l)'
  BY DEF Fits, Admitting, Canceling, Reporting, Claimed, Charging, Completion, Advancing,
         Keeping, Expiring, Made, Open, Terminal, Pendings, PendingRows, Same, Posted,
         Nothing, Carried

\* A hold is made or renewed.
Reserves(k) ==
    /\ k \in HoldKeys
    /\ holds[k].status \in {"NONE", "ACTIVE"}
    /\ holds'[k].status = "ACTIVE" /\ ~holds'[k].late
    /\ \A j \in HoldKeys \ {k} : holds'[j] = holds[j]
    /\ UNCHANGED <<session, charges>>

LEMMA FitsReserve ==
    ASSUME Steady, NEW k, Reserves(k), NEW l, Fits(l)
    PROVE  Fits(l)'
  <1>1. First \in HoldKeys
    BY Keys
  <1>2. \A j \in HoldKeys : /\ Made(j) => Made(j)'
                            /\ Open(j)' /\ Made(j) => Open(j) /\ (holds'[j].late => holds[j].late)
                            /\ Terminal(j) => Terminal(j)' /\ holds'[j].status = holds[j].status
    BY DEF Reserves, Made, Open, Terminal
  <1>3. Pendings' = Pendings
    BY DEF Reserves, Pendings, PendingRows
  <1> USE DEF Fits
  <1>4. Admitting(l)'
    BY <1>1, <1>2 DEF Admitting, Reserves
  <1>5. Canceling(l)'
    BY <1>2, Kinds DEF Canceling, Reserves, Cancelers, Terminal
  <1>6. Reporting(l)'
    BY <1>3 DEF Reporting, Reserves
  <1>7. Claimed(l)'
    BY <1>3 DEF Claimed, Reserves
  <1>8. Charging(l)'
    BY <1>2, Kinds DEF Charging, Reserves, Same, Chargers, Sessions
  <1>9. Completion(l)'
    BY <1>3 DEF Completion, Reserves, Posted, Nothing
  <1>10. Advancing(l)'
    <2>1. l.pc = "complete" /\ l.next # None => l.next \in HoldKeys
      BY Kinds DEF Completers
    <2>2. l.pc = "complete" /\ l.next # None => (holds'[l.next].late => holds[l.next].late)
      BY <2>1 DEF Reserves
    <2> QED BY <1>2, <2>1, <2>2 DEF Advancing, Reserves
  <1>11. Keeping(l)'
    BY <1>2, Kinds DEF Keeping, Reserves, Carried, Silencers, Expirers
  <1>12. Expiring(l)'
    BY <1>2, Kinds DEF Expiring, Reserves, Expirers
  <1> QED BY <1>4, <1>5, <1>6, <1>7, <1>8, <1>9, <1>10, <1>11, <1>12

\* A hold is closed: released, or settled by a row.
Closes(k) ==
    /\ k \in HoldKeys /\ Open(k)
    /\ Terminal(k)' /\ holds'[k].late = holds[k].late
    /\ \A j \in HoldKeys \ {k} : holds'[j] = holds[j]
    /\ UNCHANGED session

LEMMA Closing ==
    ASSUME NEW k, Closes(k)
    PROVE  \A j \in HoldKeys : /\ Made(j) => Made(j)'
                               /\ Open(j)' => Open(j)
                               /\ Terminal(j) => Terminal(j)' /\ holds'[j].status = holds[j].status
                               /\ holds'[j].late = holds[j].late
  BY DEF Closes, Made, Open, Terminal

LEMMA FitsRelease ==
    ASSUME Steady, NEW k, Closes(k), UNCHANGED charges, NEW l, Fits(l)
    PROVE  Fits(l)'
  <1>1. First \in HoldKeys
    BY Keys
  <1>2. \A j \in HoldKeys : /\ Made(j) => Made(j)'
                            /\ Open(j)' => Open(j)
                            /\ Terminal(j) => Terminal(j)' /\ holds'[j].status = holds[j].status
                            /\ holds'[j].late = holds[j].late
    BY Closing
  <1>3. Pendings' = Pendings
    BY DEF Closes, Pendings, PendingRows
  <1> USE DEF Fits
  <1>4. Admitting(l)'
    BY <1>1, <1>2 DEF Admitting, Closes
  <1>5. Canceling(l)'
    BY <1>2, Kinds DEF Canceling, Closes, Cancelers, Terminal
  <1>6. Reporting(l)'
    BY <1>3 DEF Reporting, Closes
  <1>7. Claimed(l)'
    BY <1>3 DEF Claimed, Closes
  <1>8. Charging(l)'
    BY <1>2, Kinds DEF Charging, Closes, Same, Chargers, Sessions
  <1>9. Completion(l)'
    BY <1>3 DEF Completion, Closes, Posted, Nothing
  <1>10. Advancing(l)'
    <2>1. l.pc = "complete" /\ l.next # None => l.next \in HoldKeys
      BY Kinds DEF Completers
    <2> QED BY <1>2, <2>1 DEF Advancing, Closes
  <1>11. Keeping(l)'
    BY <1>2, Kinds DEF Keeping, Closes, Carried, Silencers, Expirers
  <1>12. Expiring(l)'
    BY <1>2, Kinds DEF Expiring, Closes, Expirers
  <1> QED BY <1>4, <1>5, <1>6, <1>7, <1>8, <1>9, <1>10, <1>11, <1>12

\* A report is charged, by a settlement or a debit.
Charges(row) ==
    /\ UsageRow(row) /\ charges' = charges \cup {row}
    /\ session.claim = row.checkpoint.n /\ ~session.aged /\ session.lastSeq < row.checkpoint.n
    /\ Pendings = {}
    /\ (row.hold = None /\ UNCHANGED <<session, holds>>) \/ Closes(row.hold)

LEMMA ChargeFacts ==
    ASSUME Steady, session \in Sessions, NEW row, Charges(row)
    PROVE  /\ UNCHANGED session /\ Pendings' = {row} /\ row.checkpoint # None
           /\ \A j \in HoldKeys : /\ Made(j) => Made(j)'
                                  /\ Open(j)' => Open(j)
                                  /\ Terminal(j) => Terminal(j)' /\ holds'[j].status = holds[j].status
                                  /\ holds'[j].late = holds[j].late
  <1>1. UNCHANGED session
    BY DEF Charges, Closes
  <1>2. row.checkpoint # None
    BY Keys DEF Charges, UsageRow
  <1>3. Pendings' = {row}
    <2>1. row.checkpoint.n > session.lastSeq
      BY DEF Charges, UsageRow, Checkpoints, Reports, Sessions
    <2> QED BY <1>1, <1>2, <2>1 DEF Charges, Pendings, PendingRows
  <1>4. CASE row.hold = None /\ UNCHANGED <<session, holds>>
    BY <1>1, <1>2, <1>3, <1>4 DEF Made, Open, Terminal
  <1>5. CASE Closes(row.hold)
    BY <1>1, <1>2, <1>3, <1>5, Closing
  <1> QED BY <1>4, <1>5 DEF Charges

LEMMA FitsCharge ==
    ASSUME Steady, session \in Sessions, NEW row, Charges(row), NEW l, Fits(l), ~Owns(l)
    PROVE  Fits(l)'
  <1>1. First \in HoldKeys
    BY Keys
  <1>2. /\ UNCHANGED session /\ Pendings' = {row} /\ row.checkpoint # None
        /\ \A j \in HoldKeys : /\ Made(j) => Made(j)'
                               /\ Open(j)' => Open(j)
                               /\ Terminal(j) => Terminal(j)' /\ holds'[j].status = holds[j].status
                               /\ holds'[j].late = holds[j].late
    BY ChargeFacts
  <1>3. /\ ~session.aged /\ charges \subseteq charges'
        /\ \A x \in charges' : x \in charges \/ x = row
    BY DEF Charges
  <1>4. l.pc \notin {"charge-from", "charge", "unclaim"}
        /\ (l.pc \in {"reserve-next", "complete"} /\ l.mode = "claimed" => ~(session.lastSeq < l.n))
    BY DEF Owns
  <1> USE DEF Fits
  <1>5. Admitting(l)'
    BY <1>1, <1>2 DEF Admitting
  <1>6. Canceling(l)'
    BY <1>2, Kinds DEF Canceling, Cancelers, Terminal
  <1>7. Reporting(l)'
    BY <1>2, <1>3 DEF Reporting
  <1>8. Claimed(l)' /\ Charging(l)'
    BY <1>4 DEF Claimed, Charging
  <1>9. Completion(l)'
    BY <1>2, <1>3, <1>4 DEF Completion, Posted
  <1>10. Advancing(l)'
    <2>1. l.pc = "complete" /\ l.next # None => l.next \in HoldKeys
      BY Kinds DEF Completers
    <2> QED BY <1>2, <2>1 DEF Advancing
  <1>11. Keeping(l)'
    BY <1>2, <1>3, Kinds DEF Keeping, Carried, Silencers, Expirers
  <1>12. Expiring(l)'
    BY <1>2, <1>3, Kinds DEF Expiring, Expirers
  <1> QED BY <1>5, <1>6, <1>7, <1>8, <1>9, <1>10, <1>11, <1>12

\* A hold is kept whole.
KeepsWhole(row) == KeptRow(row) /\ charges' = charges \cup {row} /\ Closes(row.hold)

LEMMA FitsKeep ==
    ASSUME Steady, NEW row, KeepsWhole(row), NEW l, Fits(l), ~Gives(l, row.hold)
    PROVE  Fits(l)'
  <1>1. First \in HoldKeys
    BY Keys
  <1>2. /\ UNCHANGED session
        /\ \A j \in HoldKeys : /\ Made(j) => Made(j)'
                               /\ Open(j)' => Open(j)
                               /\ Terminal(j) => Terminal(j)' /\ holds'[j].status = holds[j].status
                               /\ holds'[j].late = holds[j].late
    BY Closing DEF KeepsWhole, Closes
  <1>3. /\ charges \subseteq charges'
        /\ \A x \in charges' : x \in charges \/ x = row
    BY DEF KeepsWhole
  <1>4. Pendings' = Pendings
    BY <1>2 DEF KeepsWhole, KeptRow, Pendings, PendingRows
  <1> USE DEF Fits
  <1>5. Admitting(l)'
    BY <1>1, <1>2 DEF Admitting
  <1>6. Canceling(l)'
    BY <1>2, Kinds DEF Canceling, Cancelers, Terminal
  <1>7. Reporting(l)'
    BY <1>2, <1>4 DEF Reporting
  <1>8. Claimed(l)'
    BY <1>2, <1>4 DEF Claimed
  <1>9. Charging(l)'
    BY <1>2, Kinds DEF Charging, Same, Chargers, Sessions
  <1>10. Completion(l)'
    BY <1>2, <1>3, <1>4 DEF Completion, Posted, Nothing
  <1>11. Advancing(l)'
    <2>1. l.pc = "complete" /\ l.next # None => l.next \in HoldKeys
      BY Kinds DEF Completers
    <2> QED BY <1>2, <2>1 DEF Advancing
  <1>12. Keeping(l)'
    BY <1>2, <1>3, Kinds DEF Keeping, Carried, Silencers, Expirers
  <1>13. Expiring(l)'
    <2>1. l.pc \in {"release-expired", "end-expired"} => l.hold # row.hold
      BY DEF Gives
    <2> QED BY <1>2, <1>3, <2>1, Kinds DEF Expiring, Expirers
  <1> QED BY <1>5, <1>6, <1>7, <1>8, <1>9, <1>10, <1>11, <1>12, <1>13

\* The session is admitted, or recorded as refused.
Begins ==
    /\ session.gen = 0 /\ session'.gen = 1 /\ ~session'.quiet
    /\ session'.active \in {None, First} /\ (session'.active # None => session'.lastSeq = 0)
    /\ UNCHANGED <<holds, charges>>

LEMMA FitsBegin ==
    ASSUME Steady, Carries, Begins, NEW l, Fits(l)
    PROVE  Fits(l)'
  <1>1. session = NoSession /\ charges = {} /\ charges' = {}
    BY DEF Begins, Carries
  <1>2. l.pc \notin {"cancel", "end-canceled", "recover", "claim", "recovered", "reserve-next",
                     "complete", "settle-tail", "settle-silent", "drop-admission"}
    BY <1>1 DEF Fits, Canceling, Reporting, Completion, Keeping, Carried, NoSession, Admitting
  <1>3. l.pc \notin {"charge-from", "charge", "unclaim"}
    <2>1. l.pc \in {"charge-from", "charge", "unclaim"} => l.n \in Reports
      BY Kinds DEF Fits, Claimants, Chargers
    <2> QED BY <1>1, <2>1 DEF Fits, Claimed, NoSession, Reports
  <1>4. l.pc \notin {"apply-tail", "end-silent"}
    BY <1>1 DEF Fits, Keeping
  <1>5. l \in Locals
    BY DEF Fits
  <1>6. Admitting(l)'
    BY <1>2 DEF Fits, Admitting, Begins, Made
  <1>7. Expiring(l)'
    <2>1. l.pc \in {"release-expired", "end-expired"} => l.hold \in HoldKeys /\ l.hold # None
      BY <1>5, Kinds, Keys DEF Expirers
    <2> QED BY <2>1 DEF Fits, Expiring, Begins, Made, Open, Terminal
  <1>8. /\ Canceling(l)' /\ Reporting(l)' /\ Claimed(l)' /\ Charging(l)'
        /\ Completion(l)' /\ Advancing(l)' /\ Keeping(l)'
    BY <1>2, <1>3, <1>4 DEF Canceling, Reporting, Claimed, Charging, Completion, Advancing, Keeping
  <1> QED BY <1>5, <1>6, <1>7, <1>8 DEF Fits

\* The session lets go of a hold that is closed.
Drops(k) ==
    /\ k \in HoldKeys /\ session.active = k /\ Terminal(k)
    /\ session'.active = None
    /\ session'.gen = session.gen /\ session'.lastSeq = session.lastSeq
    /\ session'.claim = session.claim /\ session'.aged = session.aged
    /\ UNCHANGED <<holds, charges>>

LEMMA FitsDrop ==
    ASSUME Steady, NEW k, Drops(k), NEW l, Fits(l)
    PROVE  Fits(l)'
  <1>1. k # None /\ First # None
    BY Keys DEF Drops
  <1>2. Pendings' = Pendings
    BY DEF Drops, Pendings, PendingRows
  <1>3. \A j \in HoldKeys : (Made(j)' <=> Made(j)) /\ (Open(j)' <=> Open(j))
                            /\ (Terminal(j)' <=> Terminal(j)) /\ (Open(j) => ~Terminal(j))
    BY DEF Drops, Made, Open, Terminal
  <1> USE DEF Fits, Drops
  <1>4. Admitting(l)'
    BY <1>1 DEF Admitting, Made
  <1>5. Canceling(l)'
    BY DEF Canceling, Made
  <1>6. Reporting(l)'
    BY <1>2 DEF Reporting
  <1>7. Claimed(l)'
    BY <1>2 DEF Claimed
  <1>8. Charging(l)'
    BY <1>1, <1>3 DEF Charging, Same, Terminal
  <1>9. Completion(l)'
    BY <1>1, <1>2 DEF Completion, Posted, Nothing
  <1>10. Advancing(l)'
    BY DEF Advancing, Made
  <1>11. Keeping(l)'
    BY <1>3, Kinds DEF Keeping, Carried, Silencers, Expirers
  <1>12. Expiring(l)'
    <2>1. l.pc \in {"release-expired", "end-expired"} => l.hold \in HoldKeys /\ l.hold # None
      BY Kinds, Keys DEF Expirers
    <2> QED BY <2>1 DEF Expiring, Made, Open, Terminal
  <1> QED BY <1>4, <1>5, <1>6, <1>7, <1>8, <1>9, <1>10, <1>11, <1>12

\* A claim is taken or given back, and nothing waits to be told.
Reclaims ==
    /\ Pendings = {} /\ ~session'.aged /\ (session'.quiet => session.quiet)
    /\ session'.active = session.active /\ session'.gen = session.gen
    /\ session'.lastSeq = session.lastSeq
    /\ session'.cum = session.cum /\ session'.total = session.total
    /\ session'.debt = session.debt
    /\ UNCHANGED <<holds, charges>>

LEMMA FitsReclaim ==
    ASSUME Reclaims, NEW l, Fits(l), ~Owns(l)
    PROVE  Fits(l)'
  <1>1. Pendings' = {}
    BY DEF Reclaims, Pendings, PendingRows
  <1>2. l.pc \notin {"charge-from", "charge", "unclaim"}
        /\ (l.pc \in {"reserve-next", "complete"} /\ l.mode = "claimed" => ~(session.lastSeq < l.n))
    BY DEF Owns
  <1> USE DEF Fits, Reclaims
  <1>3. Admitting(l)' /\ Canceling(l)' /\ Advancing(l)'
    BY DEF Admitting, Canceling, Advancing, Made
  <1>4. Reporting(l)' /\ Claimed(l)' /\ Charging(l)'
    BY <1>1, <1>2 DEF Reporting, Claimed, Charging
  <1>5. Completion(l)'
    BY <1>1, <1>2 DEF Completion, Posted
  <1>6. Keeping(l)'
    BY DEF Keeping, Carried, Made, Open
  <1>7. Expiring(l)'
    BY DEF Expiring, Made, Open, Terminal
  <1> QED BY <1>3, <1>4, <1>5, <1>6, <1>7

\* The session moves on to a checkpoint, with the next hold or without any.
Completes(c, next) ==
    /\ c.n \in Reports /\ session.lastSeq < c.n /\ session'.lastSeq = c.n
    /\ \A x \in Pendings : x.checkpoint.n = c.n
    /\ session.active # None => Terminal(session.active)
    /\ session'.gen = session.gen /\ ~session'.aged /\ ~session'.quiet
    /\ session'.active = next
    /\ next # None => next \in HoldKeys /\ Report(next) = c.n /\ Made(next) /\ ~holds[next].late
    /\ UNCHANGED <<holds, charges>>

LEMMA ToldAll ==
    ASSUME session \in Sessions, \A row \in charges : UsageRow(row) \/ KeptRow(row),
           NEW c, NEW next, Completes(c, next)
    PROVE  Pendings' = {}
  <1> SUFFICES ASSUME NEW x \in Pendings'
               PROVE  FALSE
    OBVIOUS
  <1>1. x \in charges /\ x.checkpoint # None /\ x.checkpoint.n > c.n
    BY DEF Pendings, PendingRows, Completes
  <1>2. x.checkpoint \in Checkpoints
    BY <1>1 DEF UsageRow, KeptRow
  <1>3. x \in Pendings
    BY <1>1, <1>2 DEF Pendings, PendingRows, Completes, Checkpoints, Reports, Sessions
  <1> QED BY <1>1, <1>2, <1>3 DEF Completes, Checkpoints, Reports

LEMMA FitsComplete ==
    ASSUME Steady, session \in Sessions, \A row \in charges : UsageRow(row) \/ KeptRow(row),
           NEW c, NEW next, Completes(c, next), NEW l, Fits(l),
           Owns(l) => l.pc \in {"reserve-next", "complete"} /\ l.n = c.n
    PROVE  Fits(l)'
  <1>1. Pendings' = {}
    BY ToldAll
  <1>2. /\ session.lastSeq \in Nat /\ c.n \in Nat /\ session.lastSeq < c.n
        /\ session'.lastSeq = c.n /\ \A k \in HoldKeys : Report(k) \in Nat
    BY Keys DEF Completes, Reports, Sessions
  <1>3. l.pc \notin {"charge-from", "charge", "unclaim"}
        /\ (l.pc \in {"reserve-next", "complete"} /\ l.mode = "claimed" /\ session.lastSeq < l.n
               => l.n = c.n)
    BY DEF Owns
  <1>4. First \in HoldKeys /\ Report(First) = 0
    BY Keys
  <1>5. \A j \in HoldKeys : (Made(j)' <=> Made(j)) /\ (Open(j)' <=> Open(j))
                            /\ (Terminal(j)' <=> Terminal(j)) /\ (Open(j) => ~Terminal(j))
    BY DEF Completes, Made, Open, Terminal
  <1> USE DEF Fits
  <1>6. Admitting(l)'
    <2>1. next # First
      BY <1>4, Keys DEF Completes, Reports
    <2> QED BY <2>1 DEF Admitting, Completes, Made
  <1>7. Canceling(l)'
    BY <1>2, Kinds DEF Canceling, Completes, Made, Cancelers
  <1>8. Reporting(l)' /\ Claimed(l)' /\ Charging(l)'
    <2>1. l.pc = "recover" => l.sess.lastSeq \in Nat
      BY Kinds DEF Readers, Sessions
    <2>2. Reporting(l)'
      BY <1>1, <1>2, <2>1 DEF Reporting, Completes
    <2> QED BY <1>3, <2>2 DEF Claimed, Charging
  <1>9. Completion(l)'
    <2>1. l.pc \in {"reserve-next", "complete"} => l.n \in Nat
      BY Kinds DEF Completers, Reports
    <2> QED BY <1>1, <1>2, <1>3, <2>1 DEF Completion, Posted, Completes
  <1>10. Advancing(l)'
    <2>1. l.pc = "complete" => l.checkpoint.n \in Nat
      BY Kinds DEF Completers, Checkpoints, Reports
    <2> QED BY <1>2, <2>1 DEF Advancing, Completes, Made
  <1>11. Keeping(l)'
    <2>1. l.pc \in {"settle-tail", "settle-silent"} => l.hold \in HoldKeys /\ ~Open(l.hold)
      BY <1>5, Kinds, Keys DEF Keeping, Completes, Silencers, Expirers
    <2>2. l.pc \in {"settle-tail", "settle-silent"} => Carried(l.hold)'
      BY <1>2, <1>5, <2>1 DEF Keeping, Carried, Completes
    <2> QED BY <1>5, <2>1, <2>2 DEF Keeping, Completes
  <1>12. Expiring(l)'
    BY <1>5, Kinds, Keys DEF Expiring, Expirers, Completes
  <1> QED BY <1>6, <1>7, <1>8, <1>9, <1>10, <1>11, <1>12

LEMMA IdleFitsNext == Fits(Idle)'
  BY DEF Fits, Idle, Locals, Admitting, Canceling, Reporting, Claimed, Charging, Completion,
         Advancing, Keeping, Expiring

-----------------------------------------------------------------------------
(* The wallet.                                                             *)

LEMMA MinusNothing == \A x \in Int : x = 0 => -x = 0
  <1> SUFFICES ASSUME NEW x \in Int, x = 0
               PROVE  -x = 0
    OBVIOUS
  <1>1. \A y \in Int : -y = 0 - y
    OBVIOUS
  <1>2. 0 - x = 0
    OBVIOUS
  <1> QED BY <1>1, <1>2

LEMMA Settlements ==
    ASSUME NEW a \in Accounts, a.promo = 0, NEW actual \in Nat
    PROVE  \A d : d = SettleDeltas(a, HoldMicros, 0, TRUE, actual) =>
              /\ d.paid \in Int /\ a.paid + d.paid >= 0 /\ d.promo = 0
              /\ d.reservedPaid = -HoldMicros /\ d.reservedPromo = 0
              /\ d.debt \in Nat /\ (actual <= HoldMicros => d.debt = 0)
  <1>0. SUFFICES ASSUME NEW d, d = SettleDeltas(a, HoldMicros, 0, TRUE, actual)
                 PROVE  /\ d.paid \in Int /\ a.paid + d.paid >= 0 /\ d.promo = 0
                        /\ d.reservedPaid = -HoldMicros /\ d.reservedPromo = 0
                        /\ d.debt \in Nat /\ (actual <= HoldMicros => d.debt = 0)
    BY Zenon
  <1> USE BoundsAreNumbers DEF MinMicros
  <1>1. PICK promoSpent : promoSpent = MinMicros(0, actual)
    OBVIOUS
  <1>2. PICK paidSpent : paidSpent = MinMicros(HoldMicros, actual - promoSpent)
    OBVIOUS
  <1>3. PICK over : over = actual - promoSpent - paidSpent
    OBVIOUS
  <1>4. PICK promoDebit : promoDebit = MinMicros(a.promo, over)
    OBVIOUS
  <1>5. PICK paidDebit : paidDebit = MinMicros(a.paid, over - promoDebit)
    OBVIOUS
  <1>6. d = [paid |-> HoldMicros - paidSpent - paidDebit, promo |-> 0 - promoSpent - promoDebit,
             reservedPaid |-> -HoldMicros, reservedPromo |-> -0,
             debt |-> over - promoDebit - paidDebit]
    BY <1>0, <1>1, <1>2, <1>3, <1>4, <1>5 DEF SettleDeltas
  <1>7. promoSpent = 0
    BY <1>1
  <1>8. paidSpent \in Nat /\ paidSpent <= HoldMicros /\ over \in Nat
        /\ (actual <= HoldMicros => over = 0)
    BY <1>2, <1>3, <1>7
  <1>9. promoDebit = 0
    BY <1>4, <1>8
  <1>10. paidDebit \in Nat /\ paidDebit <= over /\ paidDebit <= a.paid
    BY <1>5, <1>8, <1>9 DEF Accounts
  <1> HIDE DEF MinMicros
  <1>11. PICK paid : paid = HoldMicros - paidSpent - paidDebit
    BY <1>8, <1>10
  <1>12. PICK debt : debt = over - paidDebit
    BY <1>8, <1>10
  <1>13. PICK lifted : lifted = -HoldMicros
    OBVIOUS
  <1>14. 0 - promoSpent - promoDebit = 0 /\ -0 = 0 /\ over - promoDebit - paidDebit = debt
    <2>1. 0 - promoSpent - promoDebit = 0
      BY <1>7, <1>9
    <2>2. over - promoDebit - paidDebit = debt
      BY <1>8, <1>9, <1>10, <1>12
    <2>3. 0 \in Int
      OBVIOUS
    <2>4. -0 = 0
      BY <2>3, MinusNothing, Zenon
    <2> QED BY <2>1, <2>2, <2>4, Zenon
  <1>15. d = [paid |-> paid, promo |-> 0, reservedPaid |-> lifted, reservedPromo |-> 0,
              debt |-> debt]
    BY <1>6, <1>11, <1>13, <1>14
  <1>16. /\ d.paid = paid /\ d.promo = 0 /\ d.reservedPaid = lifted
         /\ d.reservedPromo = 0 /\ d.debt = debt
    BY <1>15
  <1>17. a.paid + paid >= 0
    BY <1>8, <1>10, <1>11 DEF Accounts
  <1>18. actual <= HoldMicros => debt = 0
    BY <1>8, <1>10, <1>12
  <1>19. paid \in Int /\ debt \in Nat
    BY <1>8, <1>10, <1>11, <1>12
  <1> QED BY <1>13, <1>16, <1>17, <1>18, <1>19

LEMMA Debits ==
    ASSUME NEW a \in Accounts, a.promo = 0, NEW amount \in Nat,
           NEW d, d = UsageDebitDeltas(a, amount)
    PROVE  /\ d.paid \in Int /\ a.paid + d.paid >= 0 /\ d.promo = 0
           /\ d.reservedPaid = 0 /\ d.reservedPromo = 0 /\ d.debt \in Nat
  <1>1. PICK p : p = MinMicros(a.promo, amount)
    OBVIOUS
  <1>2. PICK q : q = MinMicros(a.paid, amount - p)
    OBVIOUS
  <1>3. p = 0 /\ q \in Nat /\ q <= a.paid /\ q <= amount
    BY <1>1, <1>2 DEF MinMicros, Accounts
  <1>4. d = [paid |-> -q, promo |-> -p, reservedPaid |-> 0, reservedPromo |-> 0,
             debt |-> amount - p - q]
    BY <1>1, <1>2 DEF UsageDebitDeltas, BalanceDeltas
  <1>5. PICK paid : paid = -q
    BY <1>3
  <1>6. PICK debt : debt = amount - q
    BY <1>3
  <1>7. -p = 0 /\ amount - p - q = debt
    <2>1. -p = 0
      <3>1. p \in Int /\ p = 0
        BY <1>3
      <3> QED BY <3>1, MinusNothing, Zenon
    <2>2. amount - p - q = debt
      BY <1>3, <1>6
    <2> QED BY <2>1, <2>2
  <1>8. d = [paid |-> paid, promo |-> 0, reservedPaid |-> 0, reservedPromo |-> 0, debt |-> debt]
    BY <1>4, <1>5, <1>7
  <1>9. d.paid = paid /\ d.promo = 0 /\ d.reservedPaid = 0 /\ d.reservedPromo = 0 /\ d.debt = debt
    BY <1>8
  <1>10. a.paid + paid >= 0
    BY <1>3, <1>5 DEF Accounts
  <1>11. paid \in Int /\ debt \in Nat
    BY <1>3, <1>5, <1>6
  <1> QED BY <1>9, <1>10, <1>11

\* The reserved column when the number of open holds changes by one.
LEMMA OneHoldMore ==
    ASSUME IsFiniteSet(OpenHolds), NEW k, k \notin OpenHolds, OpenHolds' = OpenHolds \cup {k}
    PROVE  /\ IsFiniteSet(OpenHolds')
           /\ HoldMicros * Cardinality(OpenHolds)' = HoldMicros * Cardinality(OpenHolds) + HoldMicros
  <1>1. IsFiniteSet(OpenHolds') /\ Cardinality(OpenHolds') = Cardinality(OpenHolds) + 1
    BY FS_AddElement
  <1>2. PICK c \in Nat : c = Cardinality(OpenHolds)
    BY FS_CardinalityType
  <1>3. HoldMicros * (c + 1) = HoldMicros * c + HoldMicros
    BY BoundsAreNumbers
  <1> QED BY <1>1, <1>2, <1>3

LEMMA OneHoldLess ==
    ASSUME IsFiniteSet(OpenHolds), NEW k, k \in OpenHolds, OpenHolds' = OpenHolds \ {k}
    PROVE  /\ IsFiniteSet(OpenHolds')
           /\ HoldMicros * Cardinality(OpenHolds)' = HoldMicros * Cardinality(OpenHolds) - HoldMicros
           /\ HoldMicros * Cardinality(OpenHolds) >= HoldMicros
           /\ HoldMicros * Cardinality(OpenHolds) \in Nat
  <1>1. IsFiniteSet(OpenHolds') /\ Cardinality(OpenHolds') = Cardinality(OpenHolds) - 1
    BY FS_RemoveElement
  <1>2. PICK c \in Nat : c = Cardinality(OpenHolds')
    BY <1>1, FS_CardinalityType
  <1>3. Cardinality(OpenHolds) = c + 1
    BY <1>1, <1>2, FS_CardinalityType
  <1>4. PICK h \in Nat : h = HoldMicros
    BY BoundsAreNumbers
  <1>5. PICK m \in Nat : m = h * c
    OBVIOUS
  <1>6. h * (c + 1) = m + h
    BY <1>5
  <1>7. HoldMicros * Cardinality(OpenHolds)' = m /\ HoldMicros * Cardinality(OpenHolds) = m + h
    BY <1>2, <1>3, <1>4, <1>5, <1>6
  <1> QED BY <1>1, <1>4, <1>5, <1>7

LEMMA OpenMore ==
    ASSUME NEW k \in HoldKeys, Open(k)', \A j \in HoldKeys \ {k} : holds'[j] = holds[j]
    PROVE  OpenHolds' = OpenHolds \cup {k}
  BY DEF OpenHolds, Open

LEMMA OpenLess ==
    ASSUME NEW k, Closes(k)
    PROVE  k \in OpenHolds /\ OpenHolds' = OpenHolds \ {k}
  BY DEF Closes, OpenHolds, Open, Terminal

\* What writing one hold's status and key does to the holds.
LEMMA HoldWritten ==
    ASSUME HoldsTyped, NEW k \in HoldKeys, NEW status \in {"SETTLED", "RELEASED"}, NEW key,
           holds' = [holds EXCEPT ![k].status = status, ![k].by = key]
    PROVE  /\ holds'[k].status = status /\ holds'[k].by = key /\ holds'[k].late = holds[k].late
           /\ \A j \in HoldKeys \ {k} : holds'[j] = holds[j]
           /\ HoldsTyped'
  <1>1. PICK h : h = holds[k]
    OBVIOUS
  <1>2. h = [status |-> h.status, by |-> h.by, late |-> h.late] /\ h.late \in BOOLEAN
    BY <1>1 DEF HoldsTyped
  <1>3. DOMAIN holds = HoldKeys
    BY DEF HoldsTyped
  <1>4. PICK one : one = [holds EXCEPT ![k].status = status]
    OBVIOUS
  <1>5. one = [holds EXCEPT ![k] = [h EXCEPT !.status = status]]
    BY <1>1, <1>4
  <1>6. DOMAIN one = HoldKeys /\ one[k] = [status |-> status, by |-> h.by, late |-> h.late]
        /\ \A j \in HoldKeys \ {k} : one[j] = holds[j]
    BY <1>2, <1>3, <1>5
  <1>7. PICK written : written = [status |-> status, by |-> key, late |-> h.late]
    OBVIOUS
  <1>8. written = [one[k] EXCEPT !.by = key]
    BY <1>6, <1>7
  <1>9. holds' = [one EXCEPT ![k] = written]
    BY <1>4, <1>8
  <1>10. DOMAIN holds' = HoldKeys /\ holds'[k] = written
         /\ \A j \in HoldKeys \ {k} : holds'[j] = holds[j]
    BY <1>6, <1>9
  <1>11. holds'[k].status = status /\ holds'[k].by = key /\ holds'[k].late = holds[k].late
         /\ holds'[k] = [status |-> holds'[k].status, by |-> holds'[k].by, late |-> holds'[k].late]
    BY <1>1, <1>7, <1>10
  <1>12. \A j \in HoldKeys :
            holds'[j] = [status |-> holds'[j].status, by |-> holds'[j].by, late |-> holds'[j].late]
    BY <1>10, <1>11 DEF HoldsTyped
  <1>13. holds' = [j \in HoldKeys |-> holds'[j]]
    BY <1>6, <1>9
  <1>14. holds' = [j \in HoldKeys |-> [status |-> holds'[j].status, by |-> holds'[j].by,
                                      late |-> holds'[j].late]]
    BY <1>12, <1>13
  <1>15. \A j \in HoldKeys :
            /\ holds'[j].status \in {"NONE", "ACTIVE", "SETTLED", "RELEASED"}
            /\ holds'[j].late \in BOOLEAN
    BY <1>1, <1>2, <1>10, <1>11 DEF HoldsTyped
  <1>16. HoldsTyped'
    BY <1>14, <1>15 DEF HoldsTyped
  <1> QED BY <1>10, <1>11, <1>16

LEMMA ReserveStep ==
    ASSUME HoldsTyped, Wallet, NEW k \in HoldKeys, CanReserve(k), Reserve(k),
           UNCHANGED <<session, charges, env>>
    PROVE  Reserves(k) /\ HoldsTyped' /\ Wallet'
  <1>1. /\ holds'[k].status = "ACTIVE" /\ ~holds'[k].late
        /\ \A j \in HoldKeys \ {k} : holds'[j] = holds[j]
        /\ HoldsTyped'
    BY DEF HoldsTyped, Reserve
  <1>2. Reserves(k)
    BY <1>1 DEF Reserves, CanReserve
  <1>3. CASE holds[k].status = "ACTIVE"
    <2>1. OpenHolds' = OpenHolds /\ account' = account
      BY <1>1, <1>3, OpenMore DEF OpenHolds, Open, Reserve
    <2> QED BY <1>1, <1>2, <2>1 DEF Wallet
  <1>4. CASE holds[k].status # "ACTIVE"
    <2>1. account.paid >= HoldMicros
      BY <1>4 DEF CanReserve, ReservableMicros, Wallet, Accounts
    <2>2. account' = Projected(account, ReserveDeltas(HoldMicros, 0))
      BY <1>4 DEF Reserve
    <2>3. /\ account' \in Accounts /\ account'.promo = 0 /\ account'.reservedPromo = 0
          /\ account'.reservedPaid = account.reservedPaid + HoldMicros
      BY <2>1, <2>2, BoundsAreNumbers DEF Wallet, Projected, ReserveDeltas, Accounts
    <2>4. OpenHolds' = OpenHolds \cup {k} /\ k \notin OpenHolds
      BY <1>1, <1>4, OpenMore DEF OpenHolds, Open
    <2>5. IsFiniteSet(OpenHolds')
          /\ HoldMicros * Cardinality(OpenHolds)' = HoldMicros * Cardinality(OpenHolds) + HoldMicros
      BY <2>4, OneHoldMore DEF Wallet
    <2> QED BY <1>1, <1>2, <2>3, <2>5 DEF Wallet
  <1> QED BY <1>3, <1>4

LEMMA ReleaseStep ==
    ASSUME HoldsTyped, Wallet, NEW k \in HoldKeys, NEW key, Release(k, key), Open(k),
           UNCHANGED session
    PROVE  /\ Closes(k) /\ HoldsTyped' /\ Wallet'
           /\ holds'[k].status = "RELEASED" /\ holds'[k].by = key
  <1>1. /\ holds' = [holds EXCEPT ![k].status = "RELEASED", ![k].by = key]
        /\ account' = Projected(account, ReleaseDeltas(HoldMicros, 0))
    BY DEF Release, Open
  <1>2. /\ holds'[k].status = "RELEASED" /\ holds'[k].by = key /\ holds'[k].late = holds[k].late
        /\ \A j \in HoldKeys \ {k} : holds'[j] = holds[j]
        /\ HoldsTyped'
    BY <1>1, HoldWritten
  <1>3. Closes(k)
    BY <1>2 DEF Closes, Terminal
  <1>4. /\ account' \in Accounts /\ account'.promo = 0 /\ account'.reservedPromo = 0
        /\ account'.reservedPaid = account.reservedPaid - HoldMicros
    <2>1. account.reservedPaid >= HoldMicros
      BY <1>3, OpenLess, OneHoldLess DEF Wallet
    <2> QED BY <1>1, <2>1, BoundsAreNumbers DEF Wallet, Projected, ReleaseDeltas, Accounts
  <1>5. IsFiniteSet(OpenHolds')
        /\ HoldMicros * Cardinality(OpenHolds)' = HoldMicros * Cardinality(OpenHolds) - HoldMicros
    BY <1>3, OpenLess, OneHoldLess DEF Wallet
  <1> QED BY <1>2, <1>3, <1>4, <1>5 DEF Wallet

LEMMA SettleStep ==
    ASSUME HoldsTyped, Wallet, NEW row, row.hold \in HoldKeys, Open(row.hold), row.gross \in Nat,
           RowsOf(row.key) = {}, Settle(row), UNCHANGED session
    PROVE  /\ Closes(row.hold) /\ HoldsTyped' /\ Wallet' /\ charges' = charges \cup {row}
           /\ holds'[row.hold].status = "SETTLED" /\ holds'[row.hold].by = row.key
  <1>1. PICK d : d = SettleDeltas(account, HoldMicros, 0, TRUE, row.gross)
    OBVIOUS
  <1>2. account' = Projected(account, d)
    BY <1>1, Zenon DEF Settle
  <1>3. /\ charges' = charges \cup {row}
        /\ holds' = [holds EXCEPT ![row.hold].status = "SETTLED", ![row.hold].by = row.key]
    BY Zenon DEF Settle
  <1>4. PICK k \in HoldKeys : k = row.hold
    OBVIOUS
  <1>5. /\ holds'[k].status = "SETTLED" /\ holds'[k].by = row.key /\ holds'[k].late = holds[k].late
        /\ \A j \in HoldKeys \ {k} : holds'[j] = holds[j]
        /\ HoldsTyped'
    BY <1>3, <1>4, HoldWritten
  <1>6. Closes(k)
    BY <1>4, <1>5 DEF Closes, Terminal
  <1>7. /\ account' \in Accounts /\ account'.promo = 0 /\ account'.reservedPromo = 0
        /\ account'.reservedPaid = account.reservedPaid - HoldMicros
    <2>1. account.reservedPaid >= HoldMicros
      BY <1>6, OpenLess, OneHoldLess DEF Wallet
    <2>2. /\ d.paid \in Int /\ account.paid + d.paid >= 0 /\ d.promo = 0
          /\ d.reservedPaid = -HoldMicros /\ d.reservedPromo = 0 /\ d.debt \in Nat
      BY <1>1, Settlements DEF Wallet
    <2> QED BY <1>2, <2>1, <2>2, BoundsAreNumbers DEF Wallet, Projected, Accounts
  <1>8. IsFiniteSet(OpenHolds')
        /\ HoldMicros * Cardinality(OpenHolds)' = HoldMicros * Cardinality(OpenHolds) - HoldMicros
    BY <1>6, OpenLess, OneHoldLess DEF Wallet
  <1> QED BY <1>3, <1>4, <1>5, <1>6, <1>7, <1>8 DEF Wallet
-----------------------------------------------------------------------------
(* The rows and the session.                                               *)

\* Rows are told apart by their checkpoint.
LEMMA RowKinds ==
    ASSUME Rows
    PROVE  \A row \in charges :
              /\ row.checkpoint = None => KeptRow(row)
              /\ row.checkpoint # None => UsageRow(row)
              /\ UsageRow(row) => row.checkpoint \in Checkpoints
  <1>1. \A row \in charges : UsageRow(row) \/ KeptRow(row)
    BY DEF Rows
  <1>2. \A row : UsageRow(row) => row.checkpoint \in Checkpoints
    BY DEF UsageRow
  <1>3. \A row : KeptRow(row) => row.checkpoint = None
    BY DEF KeptRow
  <1> QED BY <1>1, <1>2, <1>3, NoneIsNothing

\* Holds move, and none is settled.
LEMMA SharedHolds ==
    ASSUME Shared, Typed', Wallet', UNCHANGED <<session, charges>>,
           \A j \in HoldKeys :
              /\ Made(j) => Made(j)'
              /\ holds'[j].status = "SETTLED" <=> holds[j].status = "SETTLED"
              /\ holds[j].status = "SETTLED" => holds'[j].by = holds[j].by
    PROVE  Shared'
  <1>1. Rows'
    BY DEF Shared, Rows, UsageRow, KeptRow
  <1>2. Carries'
    BY DEF Shared, Carries, Typed, Sessions
  <1>3. OnePending' /\ Totals'
    BY DEF Shared, OnePending, Totals, Pendings, PendingRows, Told, Reflected
  <1> QED BY <1>1, <1>2, <1>3 DEF Shared

\* A row settles the hold of the session, or charges a session without a hold.
Posts(row) ==
    /\ charges' = charges \cup {row} /\ UNCHANGED session
    /\ UsageRow(row) \/ KeptRow(row)
    /\ row.gross \in Nat /\ row.debt \in Nat
    /\ row.hold = session.active
    /\ row.hold = None => UNCHANGED holds
    /\ row.hold # None => /\ Closes(row.hold)
                          /\ holds'[row.hold].status = "SETTLED" /\ holds'[row.hold].by = row.key
    /\ row.checkpoint # None =>
          /\ Charges(row)
          /\ row.checkpoint.cum = session.cum + row.gross
          /\ row.checkpoint.target = session.total + row.gross
          /\ row.checkpoint.priorDebt = session.debt

LEMMA SharedPosts ==
    ASSUME Shared, Typed', Wallet', NEW row, Posts(row)
    PROVE  Shared'
  <1>1. /\ charges' = charges \cup {row} /\ UNCHANGED session /\ session \in Sessions
        /\ row.hold = session.active /\ row.hold \in HoldKeys \cup {None} /\ None \notin HoldKeys
    BY Keys DEF Posts, Shared, Typed, Sessions
  <1>2. \A j \in HoldKeys : j # row.hold => holds'[j] = holds[j]
    BY <1>1 DEF Posts, Closes
  <1>3. row.hold # None => \A x \in charges : x.hold # row.hold
    BY DEF Posts, Closes, Open, Shared, Rows
  <1>4. row.hold # None => Report(row.hold) <= session.lastSeq
    BY <1>1, Keys DEF Shared, Typed, Carries, Sessions
  <1>5. Rows'
    <2>1. ASSUME NEW x \in charges'
          PROVE  /\ UsageRow(x) \/ KeptRow(x)
                 /\ x.gross \in Nat /\ x.debt \in Nat
                 /\ x.hold \in HoldKeys \cup {None}
                 /\ x.hold # None => /\ holds'[x.hold].status = "SETTLED"
                                     /\ Report(x.hold) <= session'.lastSeq
      <3>1. CASE x = row
        BY <1>1, <1>4, <3>1 DEF Posts
      <3>2. CASE x \in charges
        BY <1>1, <1>2, <1>3, <3>2 DEF Shared, Rows
      <3> QED BY <1>1, <2>1, <3>1, <3>2
    <2>2. \A x, y \in charges' : x.hold = y.hold /\ x.hold # None => x = y
      BY <1>1, <1>3 DEF Shared, Rows
    <2>3. ASSUME NEW k \in HoldKeys, holds'[k].status = "SETTLED"
          PROVE  \E x \in charges' : x.hold = k /\ x.key = holds'[k].by
      <3>1. CASE k = row.hold
        BY <1>1, <3>1 DEF Posts
      <3>2. CASE k # row.hold
        BY <1>1, <1>2, <2>3, <3>2 DEF Shared, Rows
      <3> QED BY <3>1, <3>2
    <2> QED BY <2>1, <2>2, <2>3 DEF Rows, UsageRow, KeptRow
  <1>6. Carries'
    <2>1. \A j \in HoldKeys : Made(j) => Made(j)'
      BY <1>1, <1>2 DEF Posts, Made
    <2>2. session.gen = 0 => session.active = None /\ session.claim = 0
      BY DEF Shared, Carries, NoSession
    <2>3. session.gen # 0
      <3>1. CASE row.checkpoint = None
        BY <1>1, <2>2, <3>1, NoneIsNothing DEF Posts, UsageRow, KeptRow
      <3>2. CASE row.checkpoint # None
        <4>1. session.claim = row.checkpoint.n /\ row.checkpoint \in Checkpoints
          BY <3>2 DEF Posts, Charges, UsageRow
        <4> QED BY <2>2, <4>1 DEF Checkpoints, Reports
      <3> QED BY <3>1, <3>2
    <2> QED BY <1>1, <2>1, <2>3 DEF Shared, Carries
  <1>7. CASE row.checkpoint = None
    <2>1. Pendings' = Pendings /\ Told' = Told /\ Reflected' = Reflected
      BY <1>1, <1>7 DEF Pendings, PendingRows, Told, Reflected
    <2> QED BY <1>1, <1>5, <1>6, <2>1 DEF Shared, OnePending, Totals
  <1>8. CASE row.checkpoint # None
    <2>1. Pendings' = {row}
      BY <1>1, <1>8, ChargeFacts DEF Posts, Shared, Typed
    <2>2. OnePending'
      BY <1>1, <1>8, <2>1 DEF OnePending, Posts, Charges
    <2>3. ~(row.checkpoint.n <= session.lastSeq)
      BY <1>1, <1>8 DEF Posts, Charges, UsageRow, Checkpoints, Reports, Sessions
    <2>4. Told' = Told /\ Reflected' = Reflected
      BY <1>1, <1>8, <2>3 DEF Told, Reflected
    <2> QED BY <1>1, <1>5, <1>6, <2>2, <2>4 DEF Shared, Totals
  <1> QED BY <1>7, <1>8

\* The session changes, and what it has been told of does not.
Rewrites ==
    /\ UNCHANGED <<account, holds, charges>>
    /\ session.gen # 0 /\ session'.gen = session.gen
    /\ session'.lastSeq = session.lastSeq /\ session'.cum = session.cum
    /\ session'.total = session.total /\ session'.debt = session.debt
    /\ Pendings = {} \/ session'.claim = session.claim
    /\ \/ session'.active = session.active /\ session'.status = session.status
       \/ /\ session'.active = None /\ session'.status \notin {"ACTIVE", "NONE"}
          /\ \A row \in charges : row.hold = session.active => row.checkpoint # None

LEMMA SharedRewrites ==
    ASSUME Shared, Typed', Rewrites
    PROVE  Shared'
  <1>1. Wallet'
    BY DEF Shared, Wallet, Rewrites, OpenHolds, Open
  <1>2. Rows'
    BY DEF Shared, Rows, UsageRow, KeptRow, Rewrites
  <1>3. Carries'
    BY DEF Shared, Carries, Rewrites, Made
  <1>4. Pendings' = Pendings /\ Told' = Told
    BY DEF Rewrites, Pendings, PendingRows, Told
  <1>5. Reflected' = Reflected
    <2>1. \A row \in charges : row.checkpoint = None => row.hold # None
      BY RowKinds DEF Shared, KeptRow
    <2>2. \A row \in charges : row.checkpoint = None =>
                                  (row.hold # session'.active <=> row.hold # session.active)
      BY <2>1 DEF Rewrites
    <2> QED BY <2>2 DEF Reflected, Rewrites
  <1>6. OnePending'
    BY <1>4 DEF Shared, OnePending, Rewrites
  <1>7. Totals'
    BY <1>4, <1>5 DEF Shared, Totals, Rewrites
  <1> QED BY <1>1, <1>2, <1>3, <1>6, <1>7 DEF Shared

\* The sums of the session over one row more.
LEMMA RowAdded ==
    ASSUME IsFiniteSet(charges), NEW R \in SUBSET charges, NEW row \in charges, row \notin R,
           \A x \in charges : x.gross \in Nat /\ x.debt \in Nat
    PROVE  /\ Gross(R \cup {row}) = Gross(R) + row.gross
           /\ Debt(R \cup {row}) = Debt(R) + row.debt
           /\ Gross(R) \in Int /\ Debt(R) \in Int
  <1>1. IsFiniteSet(R)
    BY FS_Subset
  <1> QED BY <1>1, OneMore

\* The session is told that its hold has been kept whole.
Tells(k) ==
    /\ k \in HoldKeys /\ session.active = k
    /\ \E row \in charges : row.checkpoint = None /\ row.hold = k
    /\ session' = [session EXCEPT !.status = session'.status, !.active = None,
                                  !.total = session.total + HoldMicros, !.tail = session'.tail]
    /\ session'.status \in {"RECONCILING", "SETTLED"} /\ session'.tail \in Nat
    /\ UNCHANGED <<account, holds, charges, env>>

LEMMA TellsFields ==
    ASSUME session \in Sessions, NEW k, Tells(k)
    PROVE  /\ session' \in Sessions /\ session'.active = None
           /\ session'.total = session.total + HoldMicros
           /\ session'.gen = session.gen /\ session'.lastSeq = session.lastSeq
           /\ session'.claim = session.claim /\ session'.aged = session.aged
           /\ session'.cum = session.cum /\ session'.debt = session.debt
  <1>1. PICK status : status = session'.status
    OBVIOUS
  <1>2. PICK tail : tail = session'.tail
    OBVIOUS
  <1>3. session' = [session EXCEPT !.status = status, !.active = None,
                                   !.total = session.total + HoldMicros, !.tail = tail]
        /\ status \in {"RECONCILING", "SETTLED"} /\ tail \in Nat
    BY <1>1, <1>2 DEF Tells
  <1>4. session.total + HoldMicros \in Nat
    BY BoundsAreNumbers DEF Sessions
  <1> QED BY <1>3, <1>4 DEF Sessions

LEMMA SharedTells ==
    ASSUME Shared, NEW k, Tells(k)
    PROVE  Shared' /\ Drops(k)
  <1>1. /\ session' \in Sessions /\ session'.active = None
        /\ session'.total = session.total + HoldMicros
        /\ session'.gen = session.gen /\ session'.lastSeq = session.lastSeq
        /\ session'.claim = session.claim /\ session'.aged = session.aged
        /\ session'.cum = session.cum /\ session'.debt = session.debt
    BY TellsFields DEF Shared, Typed
  <1>2. PICK row \in charges : row.checkpoint = None /\ row.hold = k
    BY DEF Tells
  <1>3. /\ k # None /\ session.active = k /\ k \in HoldKeys
        /\ holds[k].status = "SETTLED" /\ row.gross = HoldMicros /\ row.debt = 0
        /\ \A x \in charges : x.hold = k => x = row
    <2>1. KeptRow(row)
      BY <1>2, RowKinds DEF Shared
    <2>2. k # None /\ session.active = k /\ k \in HoldKeys
      BY <1>2, <2>1 DEF Tells, KeptRow
    <2>3. holds[k].status = "SETTLED" /\ \A x \in charges : x.hold = k => x = row
      BY <1>2, <2>2 DEF Shared, Rows
    <2> QED BY <2>1, <2>2, <2>3 DEF KeptRow
  <1>4. Drops(k)
    BY <1>1, <1>3 DEF Drops, Tells, Terminal
  <1>5. Typed' /\ Wallet'
    BY <1>1 DEF Shared, Typed, HoldsTyped, Wallet, Tells, OpenHolds, Open
  <1>6. Rows'
    BY <1>1 DEF Shared, Rows, UsageRow, KeptRow, Tells
  <1>7. Carries'
    <2>1. session.gen # 0
      BY <1>3 DEF Shared, Carries, NoSession
    <2> QED BY <1>1, <2>1 DEF Shared, Carries, Tells
  <1>8. Pendings = {} /\ Pendings' = {}
    <2>1. \A x \in Pendings : x.hold = k /\ x \in charges /\ x.checkpoint # None
      BY <1>3 DEF Shared, OnePending, Pendings, PendingRows
    <2>2. Pendings = {}
      BY <1>2, <1>3, <2>1
    <2> QED BY <1>1, <2>2 DEF Pendings, PendingRows, Tells
  <1>9. Told' = Told
    BY <1>1 DEF Told, Tells
  <1>10. row \notin Reflected /\ Reflected' = Reflected \cup {row}
    <2>1. row \notin Reflected
      BY <1>2, <1>3 DEF Reflected
    <2>2. \A x \in charges : x.checkpoint = None => x.hold # None
      BY NoneIsNothing DEF Shared, Rows, UsageRow, KeptRow
    <2> QED BY <1>1, <1>2, <1>3, <2>1, <2>2 DEF Reflected, Tells
  <1>11. /\ Gross(Reflected') = Gross(Reflected) + row.gross
         /\ Debt(Reflected') = Debt(Reflected) + row.debt
         /\ Debt(Reflected) \in Int
    <2>1. Reflected \in SUBSET charges
      BY DEF Reflected
    <2> QED BY <1>10, <2>1, RowAdded DEF Shared, Typed, Rows
  <1>12. Totals'
    <2>1. session'.debt = Debt(Reflected')
      <3>1. PICK d \in Int : d = Debt(Reflected)
        BY <1>11
      <3>2. Debt(Reflected') = d
        BY <1>3, <1>11, <3>1
      <3> QED BY <1>1, <3>1, <3>2 DEF Shared, Totals
    <2> QED BY <1>1, <1>3, <1>9, <1>11, <2>1 DEF Shared, Totals
  <1>13. OnePending'
    BY <1>8 DEF OnePending
  <1> QED BY <1>4, <1>5, <1>6, <1>7, <1>12, <1>13 DEF Shared

\* The session starts: it is admitted, or recorded as refused.
LEMMA SharedBegins ==
    ASSUME Shared, Typed', Begins, UNCHANGED account,
           session'.cum = 0, session'.total = 0, session'.debt = 0,
           \/ session'.active = First /\ session'.status = "ACTIVE" /\ session'.lastSeq = 0 /\ Made(First)
           \/ session'.active = None /\ session'.status = "RECONCILING"
    PROVE  Shared'
  <1>1. charges = {} /\ charges' = {} /\ UNCHANGED holds /\ session'.gen = 1
    BY DEF Begins, Shared, Carries
  <1>2. First # None /\ Report(First) = 0
    BY Keys DEF Shared, Typed
  <1>3. Wallet'
    BY <1>1 DEF Shared, Wallet, OpenHolds, Open
  <1>4. Rows'
    BY <1>1 DEF Shared, Rows
  <1>5. Carries'
    BY <1>1, <1>2 DEF Carries, Made
  <1>6. Pendings' = {} /\ Told' = {} /\ Reflected' = {}
    BY <1>1 DEF Pendings, PendingRows, Told, Reflected
  <1>7. OnePending' /\ Totals'
    BY <1>6, NoRows DEF OnePending, Totals
  <1> QED BY <1>3, <1>4, <1>5, <1>7 DEF Shared

\* The session is told of a charge, or of having nothing to charge.
Told1(c, debt) == \/ \E row \in charges : row.checkpoint = c /\ row.debt = debt
                  \/ /\ Pendings = {} /\ session.active = None /\ debt = 0
                     /\ c.cum = session.cum /\ c.target = session.total
                     /\ c.priorDebt = session.debt

LEMMA SharedCompletes ==
    ASSUME Shared, Typed', NEW c \in Checkpoints, NEW next, NEW debt \in Nat,
           Completes(c, next), Told1(c, debt), UNCHANGED account, session.gen # 0,
           session'.cum = c.cum, session'.total = c.target, session'.debt = c.priorDebt + debt,
           session'.status = "ACTIVE" <=> next # None, session'.status # "NONE"
    PROVE  Shared'
  <1>1. /\ session \in Sessions /\ c.n \in Reports /\ session.lastSeq < c.n /\ session'.lastSeq = c.n
        /\ UNCHANGED <<holds, charges>> /\ session'.active = next /\ session'.gen = session.gen
        /\ session.lastSeq \in Nat /\ c.n \in Nat /\ None \notin Checkpoints
    BY NoneIsNothing DEF Completes, Shared, Typed, Sessions, Reports
  <1>2. Wallet'
    BY <1>1 DEF Shared, Wallet, OpenHolds, Open
  <1>3. Rows'
    <2>1. \A k \in HoldKeys : Report(k) \in Nat
      BY Keys DEF Shared, Typed
    <2> QED BY <1>1, <2>1 DEF Shared, Rows, UsageRow, KeptRow
  <1>4. Carries'
    BY <1>1 DEF Shared, Carries, Completes, Made
  <1>5. OnePending'
    <2>1. Pendings' = {}
      BY <1>1, ToldAll DEF Shared, Rows
    <2> QED BY <2>1 DEF OnePending
  <1>6. \A row \in charges : row.checkpoint = None => row.hold # None /\ row.hold # next
    <2>1. ASSUME NEW row \in charges, row.checkpoint = None
          PROVE  row.hold # None /\ row.hold # next
      <3>1. row.hold # None /\ row.hold \in HoldKeys /\ Report(row.hold) <= session.lastSeq
        BY <2>1, RowKinds DEF Shared, KeptRow, Rows
      <3>2. Report(row.hold) \in Nat
        BY <3>1, Keys DEF Shared, Typed
      <3>3. next # None => Report(next) = c.n
        BY DEF Completes
      <3> QED BY <1>1, <3>1, <3>2, <3>3
    <2> QED BY <2>1
  <1>7. \A row \in charges : row.checkpoint # None => row.checkpoint.n \in Nat
    BY RowKinds DEF Shared, Checkpoints, Reports
  <1>8. CASE \E row \in charges : row.checkpoint = c /\ row.debt = debt
    <2>1. PICK row \in charges : row.checkpoint = c /\ row.debt = debt
      BY <1>8
    <2>2. row \in Pendings /\ \A x \in Pendings : x = row
      BY <1>1, <2>1 DEF Pendings, PendingRows, Shared, OnePending
    <2>3. /\ session.active \in {row.hold, None} /\ c.cum = session.cum + row.gross
          /\ c.target = session.total + row.gross /\ c.priorDebt = session.debt
      BY <2>1, <2>2 DEF Shared, OnePending
    <2>4. \A x \in charges : x.checkpoint = None => x.hold # session.active
      <3>1. ASSUME NEW x \in charges, x.checkpoint = None, x.hold = session.active
            PROVE  FALSE
        <4>1. x.hold # None
          BY <3>1, RowKinds DEF Shared, KeptRow
        <4>2. x.hold = row.hold
          BY <2>3, <3>1, <4>1
        <4>3. x = row
          BY <2>1, <3>1, <4>1, <4>2 DEF Shared, Rows
        <4> QED BY <1>1, <2>1, <3>1, <4>3
      <3> QED BY <3>1
    <2>5. \A x \in charges : x.checkpoint # None =>
                                (x.checkpoint.n <= c.n <=> x.checkpoint.n <= session.lastSeq \/ x = row)
      <3>1. ASSUME NEW x \in charges, x.checkpoint # None
            PROVE  x.checkpoint.n <= c.n <=> x.checkpoint.n <= session.lastSeq \/ x = row
        <4>1. x \in Pendings <=> x.checkpoint.n > session.lastSeq
          BY <3>1 DEF Pendings, PendingRows
        <4>2. x.checkpoint.n > session.lastSeq => x = row
          BY <2>2, <4>1
        <4>3. x.checkpoint.n \in Nat
          BY <1>7, <3>1
        <4> QED BY <1>1, <2>1, <4>2, <4>3
      <3> QED BY <3>1
    <2>6. Told' = Told \cup {row} /\ row \notin Told /\ Told \in SUBSET charges
      BY <1>1, <2>1, <2>5 DEF Told
    <2>7. Reflected' = Reflected \cup {row} /\ row \notin Reflected /\ Reflected \in SUBSET charges
      <3>1. \A x \in charges : x \in Reflected' <=> x \in Reflected \/ x = row
        BY <1>1, <1>6, <2>1, <2>4, <2>5 DEF Reflected
      <3>2. row \notin Reflected /\ Reflected \in SUBSET charges /\ Reflected' \in SUBSET charges
        BY <1>1, <2>1 DEF Reflected
      <3> QED BY <2>1, <3>1, <3>2
    <2>8. IsFiniteSet(charges) /\ \A x \in charges : x.gross \in Nat /\ x.debt \in Nat
      BY DEF Shared, Typed, Rows
    <2>9. Gross(Told') = Gross(Told) + row.gross
      BY <2>1, <2>6, <2>8, RowAdded
    <2>10. /\ Gross(Reflected') = Gross(Reflected) + row.gross
           /\ Debt(Reflected') = Debt(Reflected) + row.debt
      BY <2>1, <2>7, <2>8, RowAdded
    <2>11. \A x \in Told' : x.checkpoint.cum <= session'.cum
      <3>1. session.cum \in Nat /\ row.gross \in Nat /\ session'.cum = session.cum + row.gross
        BY <1>1, <2>1, <2>3, <2>8 DEF Sessions
      <3>2. \A x \in Told : x.checkpoint.cum <= session.cum /\ x.checkpoint.cum \in Nat
        BY RowKinds DEF Shared, Totals, Told, UsageRow, Checkpoints
      <3>3. row.checkpoint.cum = session'.cum
        BY <2>1
      <3> QED BY <2>6, <3>1, <3>2, <3>3
    <2>12. Totals'
      <3>1. row \in Told' /\ row.checkpoint.cum = session'.cum
        BY <2>1, <2>6
      <3>2. session'.cum = Gross(Told')
        BY <2>3, <2>9 DEF Shared, Totals
      <3>3. session'.total = Gross(Reflected') /\ session'.debt = Debt(Reflected')
        BY <2>1, <2>3, <2>10 DEF Shared, Totals
      <3> QED BY <2>11, <3>1, <3>2, <3>3 DEF Totals
    <2> QED BY <1>2, <1>3, <1>4, <1>5, <2>12 DEF Shared
  <1>9. CASE /\ Pendings = {} /\ session.active = None /\ debt = 0
             /\ c.cum = session.cum /\ c.target = session.total
             /\ c.priorDebt = session.debt
    <2>1. \A x \in charges : x.checkpoint # None => x.checkpoint.n <= session.lastSeq
      BY <1>1, <1>7, <1>9 DEF Pendings, PendingRows
    <2>2. \A x \in charges : x.checkpoint # None => x.checkpoint.n <= c.n
      BY <1>1, <1>7, <2>1
    <2>3. Told' = Told
      BY <1>1, <2>1, <2>2 DEF Told
    <2>4. Reflected' = Reflected
      BY <1>1, <1>6, <1>9, <2>1, <2>2 DEF Reflected
    <2>5. session'.debt = session.debt
      BY <1>1, <1>9 DEF Sessions
    <2> QED BY <1>2, <1>3, <1>4, <1>5, <1>9, <2>3, <2>4, <2>5 DEF Shared, Totals
  <1> QED BY <1>8, <1>9 DEF Told1
-----------------------------------------------------------------------------
(* A process moves on.                                                     *)

LEMMA Moved ==
    ASSUME AllFit, NEW p \in Processes, NEW local, Goto(p, local)
    PROVE  /\ proc' = [q \in Processes |-> proc'[q]]
           /\ proc'[p] = local /\ \A q \in Processes \ {p} : proc'[q] = proc[q]
  BY DEF AllFit, Goto

LEMMA FitNext ==
    ASSUME AllFit, NEW p \in Processes, NEW local, Goto(p, local), Fits(local)',
           \A q \in Processes \ {p} : \A l : l = proc[q] => Fits(l)'
    PROVE  AllFit'
  <1>1. \A q \in Processes : Fits(proc[q])'
    <2>1. ASSUME NEW q \in Processes PROVE Fits(proc[q])'
      <3>1. PICK l : l = proc'[q]
        OBVIOUS
      <3>2. Fits(l)'
        BY <3>1, Moved
      <3> QED BY <3>1, <3>2
    <2> QED BY <2>1
  <1>2. proc' = [q \in Processes |-> proc'[q]]
    BY Moved
  <1> QED BY <1>1, <1>2 DEF AllFit

LEMMA OwnerNext ==
    ASSUME AllFit, OneOwner, NEW p \in Processes, NEW local, Goto(p, local),
           NEW old, old = proc[p], Owns(local)' => Owns(old),
           session \in Sessions, session' \in Sessions, session.lastSeq <= session'.lastSeq
    PROVE  OneOwner'
  <1>1. ASSUME NEW l, Fits(l), Owns(l)' PROVE Owns(l)
    <2>1. l.pc \in {"reserve-next", "complete"} => l.n \in Nat
      BY <1>1, Kinds DEF Fits, Completers, Reports
    <2> QED BY <1>1, <2>1 DEF Owns, Sessions
  <1>2. ASSUME NEW q \in Processes, NEW l, l = proc'[q], Owns(l)'
        PROVE  \E m : m = proc[q] /\ Owns(m)
    <2>1. CASE q = p
      BY <1>2, <2>1, Moved
    <2>2. CASE q # p
      <3>1. l = proc[q] /\ Fits(l)
        BY <1>2, <2>2, Moved DEF AllFit
      <3> QED BY <1>1, <1>2, <3>1
    <2> QED BY <2>1, <2>2
  <1>3. \A q \in Processes : Owns(proc[q])' => Owns(proc[q])
    BY <1>2
  <1> QED BY <1>3 DEF OneOwner

\* Nobody keeps a hold that is being given back.
NotKept(k) == \A q \in Processes : Keeps(proc[q], k) => ~Open(k)
NotGiven(k) == \A q \in Processes : Gives(proc[q], k) => ~Open(k)

LEMMA ApartNext ==
    ASSUME AllFit, Apart, NEW p \in Processes, NEW local, Goto(p, local),
           NEW old, old = proc[p],
           \A k \in HoldKeys : /\ Open(k)' /\ Made(k) => Open(k)
                               /\ Gives(local, k) => Made(k) /\ (Gives(old, k) \/ NotKept(k))
                               /\ Keeps(local, k) => Keeps(old, k) \/ NotGiven(k)
    PROVE  Apart'
  <1> SUFFICES ASSUME NEW x \in Processes, NEW y \in Processes, NEW k \in HoldKeys,
                      Gives(proc'[x], k), Keeps(proc'[y], k), Open(k)'
               PROVE  FALSE
    BY DEF Apart, Gives, Keeps
  <1>1. x # y
    BY DEF Gives, Keeps
  <1>2. proc'[p] = local /\ \A q \in Processes \ {p} : proc'[q] = proc[q]
    BY Moved
  <1>3. \A q \in Processes : Gives(proc[q], k) => Made(k)
    BY DEF AllFit, Fits, Gives, Expiring
  <1>4. Open(k)
    BY <1>2, <1>3
  <1>5. Gives(proc[x], k) \/ NotKept(k)
    BY <1>2
  <1>6. Keeps(proc[y], k) \/ NotGiven(k)
    BY <1>2
  <1>7. ~NotKept(k)
    <2>1. CASE y = p
      <3>1. Gives(proc[x], k)
        BY <1>1, <1>2, <2>1
      <3>2. Keeps(old, k)
        BY <1>2, <1>4, <2>1, <3>1 DEF NotGiven
      <3> QED BY <1>4, <2>1, <3>2 DEF NotKept
    <2>2. CASE y # p
      BY <1>2, <1>4, <2>2 DEF NotKept
    <2> QED BY <2>1, <2>2
  <1>8. Gives(proc[x], k)
    BY <1>5, <1>7
  <1>9. Keeps(proc[y], k)
    BY <1>4, <1>6, <1>8 DEF NotGiven
  <1> QED BY <1>4, <1>8, <1>9 DEF Apart

LEMMA CalmNext ==
    ASSUME AllFit, Calm, NEW p \in Processes, NEW local, Goto(p, local),
           NEW old, old = proc[p],
           \A k \in HoldKeys :
              /\ Ahead(k)' => Ahead(k)
              /\ Made(k)' /\ Ahead(k)' =>
                    \/ Brings(local, k) /\ Open(k)' /\ ~holds'[k].late
                    \/ Made(k) /\ holds'[k] = holds[k] /\ ~Brings(old, k)
              /\ Gives(local, k) => Gives(old, k) \/ ~Ahead(k)
    PROVE  Calm'
  <1>1. proc'[p] = local /\ \A q \in Processes \ {p} : proc'[q] = proc[q]
    BY Moved
  <1>2. ASSUME NEW k \in HoldKeys, Made(k)', Ahead(k)'
        PROVE  Open(k)' /\ ~holds'[k].late /\ \E q \in Processes : Brings(proc'[q], k)
    <2>1. CASE Brings(local, k) /\ Open(k)' /\ ~holds'[k].late
      BY <1>1, <2>1
    <2>2. CASE Made(k) /\ holds'[k] = holds[k] /\ ~Brings(old, k)
      <3>1. Ahead(k)
        BY <1>2
      <3>2. Open(k) /\ ~holds[k].late
        BY <2>2, <3>1 DEF Calm
      <3>3. PICK q \in Processes : Brings(proc[q], k)
        BY <2>2, <3>1 DEF Calm
      <3>4. q # p
        BY <2>2, <3>3
      <3>5. Brings(proc'[q], k)
        BY <1>1, <3>3, <3>4
      <3>6. Open(k)' /\ ~holds'[k].late
        BY <2>2, <3>2 DEF Open
      <3> QED BY <3>5, <3>6
    <2> QED BY <1>2, <2>1, <2>2
  <1>3. ASSUME NEW q \in Processes, NEW k \in HoldKeys, Gives(proc'[q], k)
        PROVE  ~Ahead(k)'
    <2>1. CASE q = p
      BY <1>1, <1>3, <2>1 DEF Calm
    <2>2. CASE q # p
      BY <1>1, <1>3, <2>2 DEF Calm
    <2> QED BY <2>1, <2>2
  <1> QED BY <1>2, <1>3 DEF Calm, Brings, Gives

\* What stands behind an active call whose hold is not open.
Ends(l, k) == l.pc \in {"end-canceled", "end-expired", "end-silent", "apply-tail"} /\ l.hold = k
Owed(k) == \E row \in charges : /\ row.hold = k
                                /\ IF row.checkpoint = None THEN row.tail
                                   ELSE row.checkpoint.n > session.lastSeq

LEMMA Backs ==
    ActiveCallIsBacked <=>
       (env.crashes = 0 /\ session.status = "ACTIVE" =>
           \/ Open(session.active) \/ Owed(session.active)
           \/ \E p \in Processes : Ends(proc[p], session.active))
  BY DEF ActiveCallIsBacked, Open, Owed, Ends, Ending

LEMMA BackedNext ==
    ASSUME AllFit, ActiveCallIsBacked, NEW p \in Processes, NEW local, Goto(p, local),
           NEW old, old = proc[p], UNCHANGED env, charges \subseteq charges',
           session'.status = session.status, session'.active = session.active,
           session'.lastSeq = session.lastSeq, NEW k, k = session.active,
           session.status = "ACTIVE" =>
              /\ Open(k) => Open(k)' \/ Owed(k)' \/ Ends(local, k)
              /\ Ends(old, k) => Open(k)' \/ Owed(k)' \/ Ends(local, k)
    PROVE  ActiveCallIsBacked'
  <1>1. proc'[p] = local /\ \A q \in Processes \ {p} : proc'[q] = proc[q]
    BY Moved
  <1> SUFFICES ASSUME env.crashes = 0, session.status = "ACTIVE"
               PROVE  Open(k)' \/ Owed(k)' \/ \E q \in Processes : Ends(proc'[q], k)
    BY Backs DEF ActiveCallIsBacked, Open, Owed, Ends, Ending
  <1>2. Open(k) \/ Owed(k) \/ \E q \in Processes : Ends(proc[q], k)
    BY Backs
  <1>3. CASE Open(k)
    BY <1>1, <1>3
  <1>4. CASE Owed(k)
    BY <1>4 DEF Owed
  <1>5. CASE \E q \in Processes : Ends(proc[q], k)
    <2>1. PICK q \in Processes : Ends(proc[q], k)
      BY <1>5
    <2>2. CASE q = p
      BY <1>1, <2>1, <2>2
    <2>3. CASE q # p
      <3>1. Ends(proc'[q], k)
        BY <1>1, <2>1, <2>3
      <3> QED BY <3>1
    <2> QED BY <2>2, <2>3
  <1> QED BY <1>2, <1>3, <1>4, <1>5

\* A step that changes nothing that is shared.
Quiet(p, old, local) ==
    /\ Goto(p, local) /\ UNCHANGED <<session, account, holds, charges, env>>
    /\ Fits(local) /\ (Owns(local) => Owns(old))
    /\ \A k \in HoldKeys :
          /\ Gives(local, k) => Gives(old, k) \/ NotKept(k)
          /\ Keeps(local, k) => Keeps(old, k) \/ NotGiven(k)
          /\ env.crashes = 0 /\ Made(k) /\ Ahead(k) /\ Brings(old, k) => Brings(local, k)
          /\ env.crashes = 0 /\ Gives(local, k) => Gives(old, k) \/ ~Ahead(k)
          /\ session.active = k /\ Ends(old, k) => Open(k) \/ Owed(k) \/ Ends(local, k)

LEMMA QuietKeeps ==
    ASSUME Inv, NEW p \in Processes, NEW old, old = proc[p], NEW local, Quiet(p, old, local)
    PROVE  Inv'
  <1>1. /\ Shared /\ AllFit /\ OneOwner /\ Apart /\ ActiveCallIsBacked
        /\ (env.crashes = 0 => Calm)
    BY DEF Inv
  <1>2. /\ Goto(p, local) /\ Fits(local) /\ (Owns(local) => Owns(old))
        /\ UNCHANGED session /\ UNCHANGED account /\ UNCHANGED holds /\ UNCHANGED charges
        /\ UNCHANGED env
    BY DEF Quiet
  <1>3. Shared'
    <2>1. Typed' /\ Wallet'
      BY <1>1, <1>2 DEF Shared, Typed, HoldsTyped, Wallet, OpenHolds, Open
    <2> QED BY <1>1, <1>2, <2>1, SharedHolds DEF Made
  <1>4. AllFit'
    <2>1. Fits(local)'
      BY <1>2, FitsStays
    <2>2. ASSUME NEW q \in Processes \ {p}, NEW l, l = proc[q] PROVE Fits(l)'
      <3>1. Fits(l)
        BY <1>1, <2>2 DEF AllFit
      <3> QED BY <1>2, <3>1, FitsStays
    <2> QED BY <1>1, <1>2, <2>1, <2>2, FitNext
  <1>5. OneOwner'
    <2>1. Owns(local)' => Owns(old)
      BY <1>2 DEF Owns
    <2>2. session \in Sessions /\ session' \in Sessions /\ session.lastSeq <= session'.lastSeq
      BY <1>1, <1>2 DEF Shared, Typed, Sessions
    <2> QED BY <1>1, <1>2, <2>1, <2>2, OwnerNext
  <1>6. Apart'
    <2>1. \A k \in HoldKeys : Gives(local, k) => Made(k)
      BY <1>2 DEF Fits, Expiring, Gives
    <2> QED BY <1>1, <1>2, <2>1, ApartNext DEF Quiet, Open
  <1>7. env'.crashes = 0 => Calm'
    <2> SUFFICES ASSUME env.crashes = 0 PROVE Calm'
      BY <1>2
    <2>1. \A k \in HoldKeys : (Ahead(k)' <=> Ahead(k)) /\ (Made(k)' <=> Made(k))
      BY <1>2 DEF Ahead, Made
    <2>2. \A k \in HoldKeys : Made(k) /\ Ahead(k) => Open(k)' /\ ~holds'[k].late
      BY <1>1, <1>2 DEF Calm, Open
    <2>3. \A k \in HoldKeys :
              /\ Ahead(k)' => Ahead(k)
              /\ Made(k)' /\ Ahead(k)' =>
                    \/ Brings(local, k) /\ Open(k)' /\ ~holds'[k].late
                    \/ Made(k) /\ holds'[k] = holds[k] /\ ~Brings(old, k)
              /\ Gives(local, k) => Gives(old, k) \/ ~Ahead(k)
      BY <1>2, <2>1, <2>2 DEF Quiet
    <2> QED BY <1>1, <1>2, <2>3, CalmNext
  <1>8. ActiveCallIsBacked'
    <2>1. session.status = "ACTIVE" => session.active \in HoldKeys
      BY <1>1 DEF Shared, Typed, Carries, Sessions
    <2>2. \A k \in HoldKeys : (Open(k)' <=> Open(k)) /\ (Owed(k)' <=> Owed(k))
      BY <1>2 DEF Open, Owed
    <2>3. PICK k : k = session.active
      OBVIOUS
    <2>4. session.status = "ACTIVE" =>
              /\ Open(k) => Open(k)' \/ Owed(k)' \/ Ends(local, k)
              /\ Ends(old, k) => Open(k)' \/ Owed(k)' \/ Ends(local, k)
      BY <2>1, <2>2, <2>3 DEF Quiet
    <2>5. charges \subseteq charges'
      BY <1>2
    <2> QED BY <1>1, <1>2, <2>3, <2>4, <2>5, BackedNext
  <1> QED BY <1>3, <1>4, <1>5, <1>6, <1>7, <1>8 DEF Inv

\* A process that gives, keeps, brings or ends nothing, before or after.
Plain(l) == l.pc \notin {"release-expired", "end-expired", "settle-tail", "settle-silent", "admit",
                         "complete", "end-canceled", "end-silent", "apply-tail"}

LEMMA PlainKeeps ==
    ASSUME Inv, NEW p \in Processes, NEW old, old = proc[p], NEW local, Goto(p, local),
           UNCHANGED <<session, account, holds, charges, env>>, Plain(old), Plain(local),
           Fits(local), Owns(local) => Owns(old)
    PROVE  Inv'
  <1>1. Quiet(p, old, local)
    BY DEF Quiet, Plain, Gives, Keeps, Brings, Ends
  <1> QED BY <1>1, QuietKeeps

\* What holds of every process at a step.
LEMMA Known ==
    ASSUME Inv, NEW p \in Processes, NEW old, old = proc[p]
    PROVE  /\ Fits(old) /\ old \in Locals /\ Steady /\ session \in Sessions
           /\ \A k \in HoldKeys : k # None /\ Report(k) \in Nat
           /\ None \notin Checkpoints /\ First \in HoldKeys
           /\ session.active # None => session.active \in HoldKeys /\ session.gen = 1
                                       /\ session.status = "ACTIVE" /\ Made(session.active)
                                       /\ Report(session.active) = session.lastSeq
           /\ session.gen \in {0, 1} /\ (session.gen = 0 <=> session.status = "NONE")
           /\ session.gen = 0 => session = NoSession /\ charges = {}
  <1>1. Fits(old) /\ old \in Locals
    BY DEF Inv, AllFit, Fits
  <1>2. Steady /\ session \in Sessions /\ Carries
    BY DEF Inv, Shared, Typed
  <1>3. session.gen \in {0, 1}
    BY <1>2 DEF Sessions, Steady
  <1>4. session.gen = 0 => session = NoSession /\ session.active = None
    BY <1>2 DEF Carries, NoSession
  <1>5. session.active # None => session.active \in HoldKeys
    BY <1>2 DEF Sessions
  <1> QED BY <1>1, <1>2, <1>3, <1>4, <1>5, Keys DEF Carries

-----------------------------------------------------------------------------
(* Steps that change nothing that is shared.                               *)

LEMMA AuthorizeKeeps ==
    ASSUME Inv, NEW p \in Processes, Authorize(p)
    PROVE  Inv'
  <1>1. PICK old : old = proc[p]
    OBVIOUS
  <1>2. PICK local : local = [pc |-> "reserve-admission", from |-> session.status,
                              gen |-> session.gen + 1]
    OBVIOUS
  <1>3. /\ Goto(p, local) /\ UNCHANGED <<session, account, holds, charges, env>>
        /\ old.pc = "idle" /\ session.gen < Generations
    BY <1>1, <1>2 DEF Authorize, At
  <1>4. session.gen = 0 /\ session.status = "NONE"
    <2>1. session.gen \in {0, 1} /\ (session.gen = 0 <=> session.status = "NONE") /\ Steady
      BY <1>1, Known
    <2>2. Generations = 1
      BY <2>1 DEF Steady
    <2> QED BY <1>3, <2>1, <2>2
  <1>5. local \in Admitters /\ local.pc = "reserve-admission"
    BY <1>2, <1>4 DEF Admitters
  <1>6. Fits(local)
    BY <1>5 DEF Fits, Locals, Admitting, Canceling, Reporting, Claimed, Charging, Completion,
                Advancing, Keeping, Expiring
  <1>7. Plain(old) /\ Plain(local) /\ ~Owns(local)
    BY <1>3, <1>5 DEF Plain, Owns
  <1> QED BY <1>1, <1>3, <1>6, <1>7, PlainKeeps

LEMMA CancelAdmissionKeeps ==
    ASSUME Inv, NEW p \in Processes, CancelAdmission(p)
    PROVE  Inv'
  <1>1. PICK old : old = proc[p]
    OBVIOUS
  <1>2. PICK local : local = [pc |-> "cancel", hold |-> session.active, gen |-> session.gen]
    OBVIOUS
  <1>3. /\ Goto(p, local) /\ UNCHANGED <<session, account, holds, charges, env>>
        /\ old.pc = "idle" /\ session.active # None
    BY <1>1, <1>2 DEF CancelAdmission, At
  <1>4. local \in Cancelers /\ local.pc = "cancel" /\ local.hold = session.active
    BY <1>1, <1>2, <1>3, Known DEF Cancelers
  <1>5. Canceling(local)
    BY <1>1, <1>3, <1>4, Known DEF Canceling, Sessions
  <1>6. Fits(local)
    BY <1>4, <1>5 DEF Fits, Locals, Admitting, Reporting, Claimed, Charging, Completion,
                      Advancing, Keeping, Expiring
  <1>7. Plain(old) /\ Plain(local) /\ ~Owns(local)
    BY <1>3, <1>4 DEF Plain, Owns
  <1> QED BY <1>1, <1>3, <1>6, <1>7, PlainKeeps

LEMMA ReceiveSnapshotKeeps ==
    ASSUME Inv, NEW p \in Processes, NEW n \in Reports, ReceiveSnapshot(p, n)
    PROVE  Inv'
  <1>1. PICK old : old = proc[p]
    OBVIOUS
  <1>2. PICK local : local = [pc |-> "recover", n |-> n, sess |-> session]
    OBVIOUS
  <1>3. /\ Goto(p, local) /\ UNCHANGED <<session, account, holds, charges, env>>
        /\ old.pc = "idle" /\ session.status # "NONE"
    BY <1>1, <1>2 DEF ReceiveSnapshot, At
  <1>4. local \in Readers /\ local.pc = "recover" /\ local.sess = session
    BY <1>1, <1>2, Known DEF Readers
  <1>5. Reporting(local)
    BY <1>1, <1>3, <1>4, Known DEF Reporting, Sessions
  <1>6. Fits(local)
    BY <1>4, <1>5 DEF Fits, Locals, Admitting, Canceling, Claimed, Charging, Completion,
                      Advancing, Keeping, Expiring
  <1>7. Plain(old) /\ Plain(local) /\ ~Owns(local)
    BY <1>3, <1>4 DEF Plain, Owns
  <1> QED BY <1>1, <1>3, <1>6, <1>7, PlainKeeps

\* Going back to idle from a plain step.
LEMMA LeaveKeeps ==
    ASSUME Inv, NEW p \in Processes, NEW old, old = proc[p], Plain(old), Goto(p, Idle),
           UNCHANGED <<session, account, holds, charges, env>>
    PROVE  Inv'
  <1>1. Plain(Idle) /\ ~Owns(Idle)
    BY DEF Plain, Owns, Idle
  <1> QED BY <1>1, IdleFits, PlainKeeps

LEMMA RefuseSnapshotKeeps ==
    ASSUME Inv, NEW p \in Processes, RefuseSnapshot(p)
    PROVE  Inv'
  <1>1. PICK old : old = proc[p]
    OBVIOUS
  <1>2. Plain(old) /\ Goto(p, Idle) /\ UNCHANGED <<session, account, holds, charges, env>>
    BY <1>1 DEF RefuseSnapshot, At, Plain
  <1> QED BY <1>1, <1>2, LeaveKeeps

\* Going on to the claim.
LEMMA ClaimNext ==
    ASSUME Inv, NEW p \in Processes, NEW old, old = proc[p], Plain(old), NEW n \in Reports,
           NEW local, local = [pc |-> "claim", n |-> n], Goto(p, local),
           session.gen = 1, Pendings # {} => ~session.aged,
           UNCHANGED <<session, account, holds, charges, env>>
    PROVE  Inv'
  <1>1. local \in Claimants /\ local.pc = "claim"
    BY DEF Claimants
  <1>2. Fits(local)
    BY <1>1 DEF Fits, Locals, Admitting, Canceling, Reporting, Claimed, Charging, Completion,
                Advancing, Keeping, Expiring
  <1>3. Plain(local) /\ ~Owns(local)
    BY <1>1 DEF Plain, Owns
  <1> QED BY <1>2, <1>3, PlainKeeps

LEMMA AfterRecoveryKeeps ==
    ASSUME Inv, NEW p \in Processes, AfterRecovery(p)
    PROVE  Inv'
  <1>1. PICK old : old = proc[p]
    OBVIOUS
  <1>2. /\ old.pc = "recovered" /\ UNCHANGED <<session, account, holds, charges, env>>
        /\ Goto(p, Idle) \/ Goto(p, [pc |-> "claim", n |-> old.n])
    BY <1>1 DEF AfterRecovery, At
  <1>3. Plain(old)
    BY <1>2 DEF Plain
  <1>4. old.n \in Reports /\ session.gen = 1 /\ (Pendings # {} => ~session.aged)
    BY <1>1, <1>2, Known, Kinds DEF Claimants, Fits, Reporting
  <1>5. CASE Goto(p, Idle)
    BY <1>1, <1>2, <1>3, <1>5, LeaveKeeps
  <1>6. CASE Goto(p, [pc |-> "claim", n |-> old.n])
    BY <1>1, <1>2, <1>3, <1>4, <1>6, ClaimNext
  <1> QED BY <1>2, <1>5, <1>6

LEMMA CompletingIs ==
    ASSUME NEW p, NEW n \in Reports, proc[p].n = n, NEW mode \in {"claimed", "recovering"},
           NEW sess, NEW checkpoint \in Checkpoints, NEW debt \in Nat,
           NEW local, local = Completing(p, mode, sess, checkpoint, debt)
    PROVE  /\ local \in Completers /\ local.pc = "reserve-next" /\ local.mode = mode
           /\ local.n = n /\ local.checkpoint = checkpoint /\ local.debt = debt
           /\ local.next = None
  <1>1. PICK owes : owes = (account'.debt > 0)
    OBVIOUS
  <1>2. PICK stop : stop = (account'.debt > 0 \/ sess.status = "DEBT")
    OBVIOUS
  <1>3. owes \in BOOLEAN /\ stop \in BOOLEAN
    BY <1>1, <1>2
  <1>4. local = [pc |-> "reserve-next", mode |-> mode, n |-> n, checkpoint |-> checkpoint,
                 debt |-> debt, owes |-> owes, stop |-> stop, next |-> None]
    BY <1>1, <1>2, Zenon DEF Completing
  <1> QED BY <1>3, <1>4 DEF Completers

LEMMA RecoverPendingKeeps ==
    ASSUME Inv, NEW p \in Processes, RecoverPending(p)
    PROVE  Inv'
  <1>1. PICK old : old = proc[p]
    OBVIOUS
  <1>2. old.pc = "recover" /\ UNCHANGED <<session, account, holds, charges, env>> /\ Plain(old)
    BY <1>1 DEF RecoverPending, At, Plain
  <1>3. /\ old.n \in Reports /\ old.sess \in Sessions /\ session.gen = 1 /\ session \in Sessions
        /\ old.sess.lastSeq <= session.lastSeq
    BY <1>1, <1>2, Known, Kinds DEF Readers, Fits, Reporting
  <1>4. \A x \in charges : x.checkpoint # None => x.checkpoint \in Checkpoints
    BY RowKinds DEF Inv, Shared
  <1>5. Pendings \subseteq PendingRows(old.sess)
    BY <1>3, <1>4 DEF Pendings, PendingRows, Sessions, Checkpoints, Reports
  <1>6. \/ PendingRows(old.sess) = {} /\ (Goto(p, Idle) \/ Goto(p, [pc |-> "claim", n |-> old.n]))
        \/ \E row \in FurthestPending(old.sess) :
              Goto(p, Completing(p, "recovering", old.sess, row.checkpoint, row.debt))
    BY <1>1 DEF RecoverPending
  <1>7. CASE PendingRows(old.sess) = {} /\ Goto(p, Idle)
    BY <1>1, <1>2, <1>7, LeaveKeeps
  <1>8. CASE PendingRows(old.sess) = {} /\ Goto(p, [pc |-> "claim", n |-> old.n])
    BY <1>1, <1>2, <1>3, <1>5, <1>8, ClaimNext
  <1>9. CASE \E row \in FurthestPending(old.sess) :
                Goto(p, Completing(p, "recovering", old.sess, row.checkpoint, row.debt))
    <2>1. PICK row \in FurthestPending(old.sess) :
                Goto(p, Completing(p, "recovering", old.sess, row.checkpoint, row.debt))
      BY <1>9
    <2>2. PICK local : local = Completing(p, "recovering", old.sess, row.checkpoint, row.debt)
      OBVIOUS
    <2>3. row \in charges /\ row.checkpoint \in Checkpoints /\ row.debt \in Nat
      BY <1>4, <2>1 DEF FurthestPending, PendingRows, Inv, Shared, Rows
    <2>4. /\ local \in Completers /\ local.pc = "reserve-next" /\ local.mode = "recovering"
          /\ local.checkpoint = row.checkpoint /\ local.debt = row.debt /\ local.next = None
      BY <1>1, <1>3, <2>2, <2>3, CompletingIs
    <2>5. session.lastSeq >= row.checkpoint.n => Pendings = {}
      <3>1. ASSUME session.lastSeq >= row.checkpoint.n, NEW x \in Pendings
            PROVE  FALSE
        <4>1. x.checkpoint.n <= row.checkpoint.n
          BY <1>5, <2>1 DEF FurthestPending
        <4>2. x.checkpoint.n > session.lastSeq /\ x.checkpoint.n \in Nat
          BY <1>4 DEF Pendings, PendingRows, Checkpoints, Reports
        <4> QED BY <1>3, <2>3, <3>1, <4>1, <4>2 DEF Sessions, Checkpoints, Reports
      <3> QED BY <3>1
    <2>6. Completion(local)
      BY <1>3, <2>3, <2>4, <2>5 DEF Completion, Posted
    <2>7. Fits(local)
      BY <2>4, <2>6 DEF Fits, Locals, Admitting, Canceling, Reporting, Claimed, Charging,
                        Advancing, Keeping, Expiring
    <2>8. Plain(local) /\ ~Owns(local)
      BY <2>4 DEF Plain, Owns
    <2>9. Goto(p, local)
      BY <2>1, <2>2
    <2> QED BY <1>1, <1>2, <2>7, <2>8, <2>9, PlainKeeps
  <1> QED BY <1>6, <1>7, <1>8, <1>9

LEMMA ChargeFromKeeps ==
    ASSUME Inv, NEW p \in Processes, ChargeFrom(p)
    PROVE  Inv'
  <1>1. PICK old : old = proc[p]
    OBVIOUS
  <1>2. PICK n : n = old.n
    OBVIOUS
  <1>3. PICK cum : cum = IF session.cum > UsageMicros(n) THEN session.cum ELSE UsageMicros(n)
    OBVIOUS
  <1>4. PICK delta : delta = cum - session.cum
    OBVIOUS
  <1>5. PICK c : c = [n |-> n, cum |-> cum, target |-> session.total + delta,
                      priorDebt |-> session.debt]
    OBVIOUS
  <1>6. PICK local : local = [pc |-> "charge", n |-> n, sess |-> session, delta |-> delta,
                              checkpoint |-> c]
    OBVIOUS
  <1>7. old.pc = "charge-from" /\ UNCHANGED <<session, account, holds, charges, env>>
        /\ Goto(p, local)
    BY <1>1, <1>2, <1>3, <1>4, <1>5, <1>6 DEF ChargeFrom, At
  <1>8. n \in Reports /\ session \in Sessions /\ Claimed(old)
    BY <1>1, <1>2, <1>7, Known, Kinds DEF Claimants, Fits
  <1>9. UsageMicros(n) \in Nat
    BY <1>8 DEF UsageMicros, Reports
  <1>10. session.cum \in Nat /\ session.total \in Nat /\ session.debt \in Nat
    BY <1>8 DEF Sessions
  <1>11. cum \in Nat /\ cum >= session.cum
    BY <1>3, <1>9, <1>10
  <1>12. delta \in Nat /\ cum = session.cum + delta /\ session.total + delta \in Nat
    BY <1>4, <1>10, <1>11
  <1>13. c \in Checkpoints
    BY <1>5, <1>8, <1>10, <1>11, <1>12 DEF Checkpoints
  <1>14. local \in Chargers /\ local.pc = "charge"
    BY <1>6, <1>8, <1>12, <1>13 DEF Chargers
  <1>15. Charging(local)
    BY <1>2, <1>5, <1>6, <1>12 DEF Charging, Same
  <1>16. Claimed(local)
    BY <1>2, <1>6, <1>7, <1>8 DEF Claimed
  <1>17. Fits(local)
    BY <1>14, <1>15, <1>16 DEF Fits, Locals, Admitting, Canceling, Reporting, Completion,
                               Advancing, Keeping, Expiring
  <1>18. Plain(old) /\ Plain(local) /\ Owns(old)
    BY <1>7, <1>14 DEF Plain, Owns
  <1> QED BY <1>1, <1>7, <1>17, <1>18, PlainKeeps

LEMMA ChargeNothingKeeps ==
    ASSUME Inv, NEW p \in Processes, ChargeNothing(p)
    PROVE  Inv'
  <1>1. PICK old : old = proc[p]
    OBVIOUS
  <1>2. PICK local : local = Completing(p, "claimed", old.sess, old.checkpoint, 0)
    OBVIOUS
  <1>3. /\ old.pc = "charge" /\ UNCHANGED <<session, account, holds, charges, env>>
        /\ Goto(p, local) /\ old.sess.active = None /\ old.delta = 0
    BY <1>1, <1>2 DEF ChargeNothing, At
  <1>4. /\ old \in Chargers /\ Claimed(old) /\ Charging(old) /\ session \in Sessions
        /\ session.gen \in {0, 1} /\ (session.gen = 0 => session = NoSession)
    BY <1>1, <1>3, Known, Kinds DEF Fits
  <1>5. /\ local \in Completers /\ local.pc = "reserve-next" /\ local.mode = "claimed"
        /\ local.n = old.n /\ local.checkpoint = old.checkpoint /\ local.debt = 0
        /\ local.next = None
    BY <1>1, <1>2, <1>4, CompletingIs DEF Chargers
  <1>6. session.claim = old.n /\ ~session.aged /\ session.lastSeq < old.n /\ Pendings = {}
        /\ old.n \in Reports
    BY <1>3, <1>4 DEF Claimed, Chargers
  <1>7. session.gen = 1
    BY <1>4, <1>6 DEF NoSession, Reports
  <1>8. Same(old.sess)
    BY <1>3, <1>4 DEF Charging
  <1>9. old.checkpoint.n = old.n /\ old.checkpoint.cum = session.cum
        /\ old.checkpoint.target = session.total /\ old.checkpoint.priorDebt = session.debt
    BY <1>3, <1>4, <1>8 DEF Charging, Same, Chargers, Sessions
  <1>10. Nothing(local)
    BY <1>3, <1>5, <1>6, <1>8, <1>9 DEF Nothing, Same
  <1>11. Completion(local)
    BY <1>5, <1>6, <1>7, <1>9, <1>10 DEF Completion
  <1>12. Fits(local)
    BY <1>5, <1>11 DEF Fits, Locals, Admitting, Canceling, Reporting, Claimed, Charging,
                       Advancing, Keeping, Expiring
  <1>13. Plain(old) /\ Plain(local) /\ Owns(old)
    BY <1>3, <1>5 DEF Plain, Owns
  <1> QED BY <1>1, <1>3, <1>12, <1>13, PlainKeeps

LEMMA SpotSilentCallKeeps ==
    ASSUME Inv, NEW p \in Processes, SpotSilentCall(p)
    PROVE  Inv'
  <1>1. PICK old : old = proc[p]
    OBVIOUS
  <1>2. PICK k : k = session.active
    OBVIOUS
  <1>3. PICK reported : reported = (session.lastSeq > 0)
    OBVIOUS
  <1>4. PICK local : local = [pc |-> "settle-silent", hold |-> k, reported |-> reported]
    OBVIOUS
  <1>5. /\ old.pc = "idle" /\ UNCHANGED <<session, account, holds, charges, env>>
        /\ Goto(p, local) /\ HasProvider /\ session.status = "ACTIVE" /\ session.quiet
    BY <1>1, <1>2, <1>3, <1>4, Zenon DEF SpotSilentCall, At
  <1>6. session.active # None
    BY <1>5 DEF Inv, Shared, Carries
  <1>7. k \in HoldKeys /\ Carried(k) /\ session \in Sessions
    BY <1>1, <1>2, <1>6, Known DEF Carried, Sessions
  <1>8. reported \in BOOLEAN
    BY <1>3
  <1>9. local \in Silencers /\ local.pc = "settle-silent" /\ local.hold = k
    BY <1>4, <1>7, <1>8 DEF Silencers
  <1>10. Keeping(local)
    BY <1>2, <1>5, <1>7, <1>9 DEF Keeping
  <1>11. Fits(local)
    BY <1>9, <1>10 DEF Fits, Locals, Admitting, Canceling, Reporting, Claimed, Charging,
                       Completion, Advancing, Expiring
  <1>12. NotGiven(k)
    <2>1. ASSUME NEW q \in Processes, Gives(proc[q], k), Open(k) PROVE FALSE
      <3>1. Fits(proc[q])
        BY DEF Inv, AllFit
      <3> QED BY <1>2, <1>5, <2>1, <3>1 DEF Fits, Expiring, Gives
    <2> QED BY <2>1 DEF NotGiven
  <1>13. Quiet(p, old, local)
    BY <1>5, <1>9, <1>11, <1>12 DEF Quiet, Owns, Gives, Keeps, Brings, Ends
  <1> QED BY <1>1, <1>13, QuietKeeps

LEMMA SpotExpiredKeeps ==
    ASSUME Inv, NEW p \in Processes, SpotExpired(p)
    PROVE  Inv'
  <1>1. PICK old : old = proc[p]
    OBVIOUS
  <1>2. PICK k \in HoldKeys :
           /\ old.pc = "idle" /\ holds[k].status = "ACTIVE" /\ holds[k].late
           /\ ~(session.status = "ACTIVE" /\ session.active = k
                  /\ session.lastSeq = 0 /\ HasProvider)
           /\ Goto(p, [pc |-> IF session.status = "ACTIVE" /\ session.active = k
                                 /\ session.lastSeq > 0
                              THEN "settle-tail" ELSE "release-expired",
                       hold |-> k])
           /\ UNCHANGED <<session, account, holds, charges, env>>
    BY <1>1 DEF SpotExpired, At
  <1>3. Open(k) /\ Made(k) /\ k # None /\ Report(k) \in Nat /\ session \in Sessions
    BY <1>1, <1>2, Known DEF Open, Made
  <1>4. session.active = k => session.status = "ACTIVE" /\ session.gen = 1
                              /\ Report(k) = session.lastSeq
    BY <1>1, <1>3, Known
  <1>5. CASE session.active = k /\ session.lastSeq > 0
    <2>1. PICK local : local = [pc |-> "settle-tail", hold |-> k]
      OBVIOUS
    <2>2. Goto(p, local)
      BY <1>2, <1>4, <1>5, <2>1
    <2>3. local \in Expirers /\ local.pc = "settle-tail" /\ local.hold = k
      BY <2>1 DEF Expirers
    <2>4. Keeping(local)
      BY <1>3, <1>4, <1>5, <2>3 DEF Keeping, Carried, Sessions
    <2>5. Fits(local)
      BY <2>3, <2>4 DEF Fits, Locals, Admitting, Canceling, Reporting, Claimed, Charging,
                        Completion, Advancing, Expiring
    <2>6. NotGiven(k)
      <3>1. ASSUME NEW q \in Processes, Gives(proc[q], k) PROVE FALSE
        <4>1. Fits(proc[q])
          BY DEF Inv, AllFit
        <4> QED BY <1>2, <1>3, <1>5, <3>1, <4>1 DEF Fits, Expiring, Gives
      <3> QED BY <3>1 DEF NotGiven
    <2>7. Quiet(p, old, local)
      BY <1>2, <2>2, <2>3, <2>5, <2>6 DEF Quiet, Owns, Gives, Keeps, Brings, Ends
    <2> QED BY <1>1, <2>7, QuietKeeps
  <1>6. CASE ~(session.active = k /\ session.lastSeq > 0)
    <2>1. PICK local : local = [pc |-> "release-expired", hold |-> k]
      OBVIOUS
    <2>2. Goto(p, local)
      BY <1>2, <1>6, <2>1
    <2>3. local \in Expirers /\ local.pc = "release-expired" /\ local.hold = k
      BY <2>1 DEF Expirers
    <2>4. ~(session.active = k /\ HasProvider)
      BY <1>2, <1>3, <1>4, <1>6 DEF Sessions
    <2>5. \A row \in charges : row.hold # k
      BY <1>3 DEF Inv, Shared, Rows, Open
    <2>6. Expiring(local)
      BY <1>3, <1>6, <2>3, <2>4, <2>5 DEF Expiring
    <2>7. Fits(local)
      BY <2>3, <2>6 DEF Fits, Locals, Admitting, Canceling, Reporting, Claimed, Charging,
                        Completion, Advancing, Keeping
    <2>8. NotKept(k)
      <3>1. ASSUME NEW q \in Processes, Keeps(proc[q], k) PROVE FALSE
        <4>1. Fits(proc[q])
          BY DEF Inv, AllFit
        <4>2. session.active = k /\ (session.lastSeq > 0 \/ HasProvider)
          BY <1>3, <3>1, <4>1 DEF Fits, Keeping, Keeps
        <4> QED BY <1>6, <2>4, <4>2
      <3> QED BY <3>1 DEF NotKept
    <2>9. env.crashes = 0 => ~Ahead(k)
      BY <1>2, <1>3 DEF Inv, Calm
    <2>10. Quiet(p, old, local)
      BY <1>2, <2>2, <2>3, <2>7, <2>8, <2>9 DEF Quiet, Owns, Gives, Keeps, Brings, Ends
    <2> QED BY <1>1, <2>10, QuietKeeps
  <1> QED BY <1>5, <1>6

-----------------------------------------------------------------------------
(* Steps that make or give back a hold.                                    *)

LEMMA ReserveKeeps ==
    ASSUME Inv, NEW p \in Processes, NEW old, old = proc[p], NEW local, Goto(p, local),
           NEW k \in HoldKeys, CanReserve(k), Reserve(k), UNCHANGED <<session, charges, env>>,
           Plain(old), local.pc \in {"admit", "complete"}, Brings(local, k),
           Owns(local) => Owns(old), Fits(local)'
    PROVE  Inv'
  <1>1. /\ Shared /\ AllFit /\ OneOwner /\ Apart /\ ActiveCallIsBacked /\ Typed /\ Wallet
        /\ (env.crashes = 0 => Calm) /\ Steady /\ session \in Sessions
    BY DEF Inv, Shared, Typed
  <1>2. Reserves(k) /\ HoldsTyped' /\ Wallet'
    BY <1>1, ReserveStep DEF Typed
  <1>3. /\ holds[k].status \in {"NONE", "ACTIVE"} /\ holds'[k].status = "ACTIVE" /\ ~holds'[k].late
        /\ \A j \in HoldKeys \ {k} : holds'[j] = holds[j]
        /\ UNCHANGED session /\ UNCHANGED charges /\ UNCHANGED env
    BY <1>2 DEF Reserves
  <1>4. Shared'
    <2>1. Typed'
      BY <1>1, <1>2, <1>3 DEF Typed, Steady
    <2>2. \A j \in HoldKeys :
              /\ Made(j) => Made(j)'
              /\ holds'[j].status = "SETTLED" <=> holds[j].status = "SETTLED"
              /\ holds[j].status = "SETTLED" => holds'[j].by = holds[j].by
      BY <1>3 DEF Made
    <2> QED BY <1>1, <1>2, <1>3, <2>1, <2>2, SharedHolds
  <1>5. AllFit'
    <2>1. ASSUME NEW q \in Processes \ {p}, NEW l, l = proc[q] PROVE Fits(l)'
      <3>1. Fits(l)
        BY <1>1, <2>1 DEF AllFit
      <3> QED BY <1>1, <1>2, <3>1, FitsReserve
    <2> QED BY <1>1, <2>1, FitNext
  <1>6. OneOwner'
    <2>1. Owns(local)' => Owns(old)
      BY <1>3 DEF Owns
    <2>2. session' \in Sessions /\ session.lastSeq <= session'.lastSeq
      BY <1>1, <1>3 DEF Sessions
    <2> QED BY <1>1, <2>1, <2>2, OwnerNext
  <1>7. Apart'
    <2>1. \A j \in HoldKeys : /\ Open(j)' /\ Made(j) => Open(j)
                              /\ ~Gives(local, j) /\ ~Keeps(local, j)
      BY <1>3 DEF Open, Made, Gives, Keeps
    <2> QED BY <1>1, <2>1, ApartNext
  <1>8. env'.crashes = 0 => Calm'
    <2>1. \A j \in HoldKeys :
              /\ Ahead(j)' => Ahead(j)
              /\ Made(j)' /\ Ahead(j)' =>
                    \/ Brings(local, j) /\ Open(j)' /\ ~holds'[j].late
                    \/ Made(j) /\ holds'[j] = holds[j] /\ ~Brings(old, j)
              /\ Gives(local, j) => Gives(old, j) \/ ~Ahead(j)
      <3>1. \A j \in HoldKeys : (Ahead(j)' <=> Ahead(j)) /\ ~Gives(local, j) /\ ~Brings(old, j)
        BY <1>3 DEF Ahead, Gives, Brings, Plain
      <3>2. Open(k)' /\ ~holds'[k].late
        BY <1>3 DEF Open
      <3>3. \A j \in HoldKeys \ {k} : Made(j)' => Made(j) /\ holds'[j] = holds[j]
        BY <1>3 DEF Made
      <3> QED BY <3>1, <3>2, <3>3
    <2> QED BY <1>1, <1>3, <2>1, CalmNext
  <1>9. ActiveCallIsBacked'
    <2>1. PICK j : j = session.active
      OBVIOUS
    <2>2. session.status = "ACTIVE" => j \in HoldKeys
      BY <1>1, <2>1 DEF Shared, Carries, Sessions
    <2>3. session.status = "ACTIVE" =>
              /\ Open(j) => Open(j)' \/ Owed(j)' \/ Ends(local, j)
              /\ Ends(old, j) => Open(j)' \/ Owed(j)' \/ Ends(local, j)
      BY <1>3, <2>2 DEF Open, Ends, Plain
    <2>4. charges \subseteq charges'
      BY <1>3
    <2> QED BY <1>1, <1>3, <2>1, <2>3, <2>4, BackedNext
  <1> QED BY <1>4, <1>5, <1>6, <1>7, <1>8, <1>9 DEF Inv

LEMMA ReleaseKeeps ==
    ASSUME Inv, NEW p \in Processes, NEW old, old = proc[p], NEW local, Goto(p, local),
           NEW k \in HoldKeys, NEW key, Open(k), Release(k, key),
           UNCHANGED <<session, charges, env>>,
           old.pc \in {"drop-admission", "cancel", "release-expired"},
           local.pc \in {"idle", "end-canceled", "end-expired"},
           \A j \in HoldKeys : Gives(local, j) => Gives(old, j),
           session.active = k => Ends(local, k),
           env.crashes = 0 => ~Ahead(k), Fits(local)'
    PROVE  Inv'
  <1>1. /\ Shared /\ AllFit /\ OneOwner /\ Apart /\ ActiveCallIsBacked /\ Typed /\ Wallet
        /\ (env.crashes = 0 => Calm) /\ Steady /\ session \in Sessions
    BY DEF Inv, Shared, Typed
  <1>2. Closes(k) /\ HoldsTyped' /\ Wallet' /\ holds'[k].status = "RELEASED"
    BY <1>1, ReleaseStep DEF Typed
  <1>3. /\ holds[k].status = "ACTIVE" /\ \A j \in HoldKeys \ {k} : holds'[j] = holds[j]
        /\ UNCHANGED session /\ UNCHANGED charges /\ UNCHANGED env
    BY <1>2 DEF Closes, Open
  <1>4. Shared'
    <2>1. Typed'
      BY <1>1, <1>2, <1>3 DEF Typed, Steady
    <2>2. \A j \in HoldKeys :
              /\ Made(j) => Made(j)'
              /\ holds'[j].status = "SETTLED" <=> holds[j].status = "SETTLED"
              /\ holds[j].status = "SETTLED" => holds'[j].by = holds[j].by
      BY <1>2, <1>3 DEF Made
    <2> QED BY <1>1, <1>2, <1>3, <2>1, <2>2, SharedHolds
  <1>5. AllFit'
    <2>1. ASSUME NEW q \in Processes \ {p}, NEW l, l = proc[q] PROVE Fits(l)'
      <3>1. Fits(l)
        BY <1>1, <2>1 DEF AllFit
      <3> QED BY <1>1, <1>2, <1>3, <3>1, FitsRelease
    <2> QED BY <1>1, <2>1, FitNext
  <1>6. OneOwner'
    <2>1. ~Owns(local)'
      BY DEF Owns
    <2>2. session' \in Sessions /\ session.lastSeq <= session'.lastSeq
      BY <1>1, <1>3 DEF Sessions
    <2> QED BY <1>1, <2>1, <2>2, OwnerNext
  <1>7. Apart'
    <2>1. \A j \in HoldKeys : Open(j)' => Open(j)
      BY <1>2, Closing
    <2>2. \A j \in HoldKeys : Gives(old, j) => Made(j)
      BY <1>1 DEF AllFit, Fits, Expiring, Gives
    <2>3. \A j : ~Keeps(local, j)
      BY DEF Keeps
    <2> QED BY <1>1, <2>1, <2>2, <2>3, ApartNext
  <1>8. env'.crashes = 0 => Calm'
    <2>1. ASSUME env.crashes = 0
          PROVE  \A j \in HoldKeys :
              /\ Ahead(j)' => Ahead(j)
              /\ Made(j)' /\ Ahead(j)' =>
                    \/ Brings(local, j) /\ Open(j)' /\ ~holds'[j].late
                    \/ Made(j) /\ holds'[j] = holds[j] /\ ~Brings(old, j)
              /\ Gives(local, j) => Gives(old, j) \/ ~Ahead(j)
      <3>1. \A j \in HoldKeys : (Ahead(j)' <=> Ahead(j)) /\ ~Brings(old, j)
        BY <1>3 DEF Ahead, Brings
      <3>2. \A j \in HoldKeys \ {k} : Made(j)' => Made(j) /\ holds'[j] = holds[j]
        BY <1>3 DEF Made
      <3> QED BY <2>1, <3>1, <3>2
    <2> QED BY <1>1, <1>3, <2>1, CalmNext
  <1>9. ActiveCallIsBacked'
    <2>1. PICK j : j = session.active
      OBVIOUS
    <2>2. session.status = "ACTIVE" => j \in HoldKeys
      BY <1>1, <2>1 DEF Shared, Carries, Sessions
    <2>3. session.status = "ACTIVE" =>
              /\ Open(j) => Open(j)' \/ Owed(j)' \/ Ends(local, j)
              /\ Ends(old, j) => Open(j)' \/ Owed(j)' \/ Ends(local, j)
      BY <1>3, <2>1, <2>2 DEF Open, Ends
    <2>4. charges \subseteq charges'
      BY <1>3
    <2> QED BY <1>1, <1>3, <2>1, <2>3, <2>4, BackedNext
  <1> QED BY <1>4, <1>5, <1>6, <1>7, <1>8, <1>9 DEF Inv

LEMMA ReserveAdmissionKeeps ==
    ASSUME Inv, NEW p \in Processes, ReserveAdmission(p)
    PROVE  Inv'
  <1>1. PICK old : old = proc[p]
    OBVIOUS
  <1>2. old.pc = "reserve-admission" /\ UNCHANGED <<session, charges, env>> /\ Plain(old)
    BY <1>1 DEF ReserveAdmission, At, Plain
  <1>3. old \in Admitters /\ InitialKey(old.gen) = First /\ First \in HoldKeys
    BY <1>1, <1>2, Known, Kinds DEF Admitters, First
  <1>4. PICK local : local = [old EXCEPT !.pc = "admit"]
    OBVIOUS
  <1>5. local \in Admitters /\ local.pc = "admit"
    BY <1>3, <1>4 DEF Admitters
  <1>6. CASE CanReserve(First) /\ Reserve(First) /\ Goto(p, local)
    <2>1. Made(First)'
      BY <1>3, <1>6 DEF Reserve, Made, Inv, Shared, Typed, HoldsTyped
    <2>2. Fits(local)'
      BY <1>5, <2>1 DEF Fits, Locals, Admitting, Canceling, Reporting, Claimed, Charging,
                        Completion, Advancing, Keeping, Expiring
    <2>3. Brings(local, First) /\ ~Owns(local)
      BY <1>5 DEF Brings, Owns
    <2> QED BY <1>1, <1>2, <1>3, <1>5, <1>6, <2>2, <2>3, ReserveKeeps
  <1>7. CASE UNCHANGED <<holds, account>> /\ Goto(p, Idle)
    BY <1>1, <1>2, <1>7, LeaveKeeps
  <1> QED BY <1>1, <1>3, <1>4, <1>6, <1>7 DEF ReserveAdmission

LEMMA ReserveNextKeeps ==
    ASSUME Inv, NEW p \in Processes, ReserveNext(p)
    PROVE  Inv'
  <1>1. PICK old : old = proc[p]
    OBVIOUS
  <1>2. old.pc = "reserve-next" /\ UNCHANGED <<session, charges, env>> /\ Plain(old)
    BY <1>1 DEF ReserveNext, At, Plain
  <1>3. old \in Completers /\ Completion(old) /\ Advancing(old) /\ session \in Sessions /\ Steady
    BY <1>1, <1>2, Known, Kinds DEF Fits
  <1>4. PICK c : c = old.checkpoint
    OBVIOUS
  <1>5. c \in Checkpoints /\ c.n \in Reports /\ old.next = None
    BY <1>2, <1>3, <1>4 DEF Completers, Checkpoints, Advancing
  <1>6. \/ /\ ~Final(c) /\ ~old.stop
           /\ \E k \in UsableKeys(c.n) :
                 CanReserve(k) /\ Reserve(k) /\ Goto(p, [old EXCEPT !.pc = "complete", !.next = k])
        \/ /\ UNCHANGED <<holds, account>>
           /\ Goto(p, [old EXCEPT !.pc = "complete", !.stop = old.stop \/ ~Final(c)])
    BY <1>1, <1>4 DEF ReserveNext
  <1>7. CASE /\ ~Final(c) /\ ~old.stop
             /\ \E k \in UsableKeys(c.n) :
                  CanReserve(k) /\ Reserve(k) /\ Goto(p, [old EXCEPT !.pc = "complete", !.next = k])
    <2>1. PICK k \in UsableKeys(c.n) :
              CanReserve(k) /\ Reserve(k) /\ Goto(p, [old EXCEPT !.pc = "complete", !.next = k])
      BY <1>7
    <2>2. k \in HoldKeys /\ Report(k) = c.n
      BY <1>3, <1>5, <2>1, Keys DEF UsableKeys
    <2>3. PICK local : local = [old EXCEPT !.pc = "complete", !.next = k]
      OBVIOUS
    <2>4. /\ local \in Completers /\ local.pc = "complete" /\ local.next = k
          /\ local.mode = old.mode /\ local.n = old.n /\ local.checkpoint = c
          /\ local.debt = old.debt /\ local.stop = old.stop
      BY <1>3, <1>4, <2>2, <2>3 DEF Completers
    <2>5. Made(k)' /\ ~holds'[k].late
      BY <2>1, <2>2 DEF Reserve, Made, Inv, Shared, Typed, HoldsTyped
    <2>6. Completion(local)'
      <3>1. Pendings' = Pendings
        BY <1>2 DEF Pendings, PendingRows
      <3> QED BY <1>2, <1>3, <1>4, <2>4, <3>1 DEF Completion, Posted, Nothing
    <2>7. Advancing(local)'
      <3>1. k # None
        BY <1>3, <2>2, Keys
      <3>2. ~local.stop /\ ~Final(local.checkpoint)
        BY <1>7, <2>4
      <3> QED BY <2>2, <2>4, <2>5, <3>1, <3>2 DEF Advancing, Made
    <2>8. Fits(local)'
      BY <2>4, <2>6, <2>7 DEF Fits, Locals, Admitting, Canceling, Reporting, Claimed, Charging,
                              Keeping, Expiring
    <2>9. Brings(local, k) /\ (Owns(local) => Owns(old))
      BY <1>2, <2>4 DEF Brings, Owns
    <2> QED BY <1>1, <1>2, <2>1, <2>2, <2>3, <2>4, <2>8, <2>9, ReserveKeeps
  <1>8. CASE /\ UNCHANGED <<holds, account>>
             /\ Goto(p, [old EXCEPT !.pc = "complete", !.stop = old.stop \/ ~Final(c)])
    <2>1. PICK stop : stop = (old.stop \/ ~Final(c))
      OBVIOUS
    <2>2. PICK local : local = [old EXCEPT !.pc = "complete", !.stop = stop]
      OBVIOUS
    <2>3. stop \in BOOLEAN
      BY <2>1
    <2>4. /\ local \in Completers /\ local.pc = "complete" /\ local.next = None
          /\ local.mode = old.mode /\ local.n = old.n /\ local.checkpoint = c
          /\ local.debt = old.debt /\ local.stop = stop
      BY <1>3, <1>4, <1>5, <2>2, <2>3 DEF Completers
    <2>5. Completion(local)
      BY <1>2, <1>3, <1>4, <2>4 DEF Completion, Posted, Nothing
    <2>6. Advancing(local)
      <3>1. stop \/ Final(c)
        BY <2>1
      <3> QED BY <2>4, <3>1 DEF Advancing
    <2>7. Fits(local)
      BY <2>4, <2>5, <2>6 DEF Fits, Locals, Admitting, Canceling, Reporting, Claimed, Charging,
                              Keeping, Expiring
    <2>8. Goto(p, local)
      BY <1>8, <2>1, <2>2, Zenon
    <2>9. Quiet(p, old, local)
      BY <1>2, <1>8, <2>4, <2>7, <2>8 DEF Quiet, Owns, Gives, Keeps, Brings, Ends
    <2> QED BY <1>1, <2>9, QuietKeeps
  <1> QED BY <1>6, <1>7, <1>8

LEMMA DropAdmissionKeeps ==
    ASSUME Inv, NEW p \in Processes, DropAdmission(p)
    PROVE  Inv'
  <1>1. PICK old : old = proc[p]
    OBVIOUS
  <1>2. old.pc = "drop-admission" /\ UNCHANGED <<session, charges, env>> /\ Plain(old)
        /\ Goto(p, Idle)
    BY <1>1 DEF DropAdmission, At, Plain
  <1>3. old \in Admitters /\ InitialKey(old.gen) = First /\ First \in HoldKeys /\ old.gen = 1
        /\ Report(First) = 0 /\ session.gen = 1 /\ session.active # First /\ session \in Sessions
    BY <1>1, <1>2, Known, Kinds, Keys DEF Admitters, First, Fits, Admitting
  <1>4. Release(First, <<"raced", 1>>)
    BY <1>1, <1>3 DEF DropAdmission
  <1>5. CASE Open(First)
    <2>1. ~Ahead(First)
      BY <1>3 DEF Ahead
    <2>2. \A j \in HoldKeys : ~Gives(Idle, j)
      BY DEF Gives, Idle
    <2>3. Idle.pc = "idle"
      BY DEF Idle
    <2> QED BY <1>1, <1>2, <1>3, <1>4, <1>5, <2>1, <2>2, <2>3, IdleFitsNext, ReleaseKeeps
  <1>6. CASE ~Open(First)
    BY <1>1, <1>2, <1>4, <1>6, LeaveKeeps DEF Release, Open
  <1> QED BY <1>5, <1>6

\* A hold is settled under the key of a row, so not under a cancel key.
LEMMA CanceledIsReleased ==
    ASSUME Shared, NEW k \in HoldKeys, Made(k), ~Open(k), holds[k].by = <<"cancel", 1>>
    PROVE  holds[k].status = "RELEASED"
  <1>1. holds[k].status \in {"SETTLED", "RELEASED"}
    BY DEF Shared, Typed, HoldsTyped, Made, Open
  <1>2. ASSUME NEW row \in charges, row.key = <<"cancel", 1>> PROVE FALSE
    <2>1. UsageRow(row) \/ KeptRow(row)
      BY DEF Shared, Rows
    <2> QED BY <1>2, <2>1 DEF UsageRow, KeptRow
  <1>3. holds[k].status # "SETTLED"
    BY <1>2 DEF Shared, Rows
  <1> QED BY <1>1, <1>3

LEMMA ReleaseCanceledKeeps ==
    ASSUME Inv, NEW p \in Processes, ReleaseCanceled(p)
    PROVE  Inv'
  <1>1. PICK old : old = proc[p]
    OBVIOUS
  <1>2. old.pc = "cancel" /\ UNCHANGED <<session, charges, env>> /\ Plain(old)
    BY <1>1 DEF ReleaseCanceled, At, Plain
  <1>3. old \in Cancelers /\ Canceling(old)
    BY <1>1, <1>2, Known, Kinds DEF Fits
  <1>4. PICK k : k = old.hold
    OBVIOUS
  <1>5. /\ k \in HoldKeys /\ old.gen = 1 /\ Made(k) /\ session.gen = 1
        /\ Report(k) <= session.lastSeq /\ session \in Sessions /\ Report(k) \in Nat
    BY <1>1, <1>2, <1>3, <1>4, Known DEF Cancelers, Canceling
  <1>6. PICK local : local = [old EXCEPT !.pc = "end-canceled"]
    OBVIOUS
  <1>7. local \in Cancelers /\ local.pc = "end-canceled" /\ local.hold = k
    BY <1>3, <1>4, <1>6 DEF Cancelers
  <1>8. \/ ReleaseOK(k, <<"cancel", 1>>) /\ Release(k, <<"cancel", 1>>) /\ Goto(p, local)
        \/ UNCHANGED <<holds, account>> /\ Goto(p, Idle)
    BY <1>1, <1>4, <1>5, <1>6 DEF ReleaseCanceled
  <1>9. CASE Open(k) /\ Release(k, <<"cancel", 1>>) /\ Goto(p, local)
    <2>1. holds'[k].status = "RELEASED"
      BY <1>2, <1>5, <1>9, ReleaseStep DEF Inv, Shared, Typed
    <2>2. Canceling(local)'
      BY <1>2, <1>5, <1>7, <2>1 DEF Canceling, Made
    <2>3. Fits(local)'
      BY <1>7, <2>2 DEF Fits, Locals, Admitting, Reporting, Claimed, Charging, Completion,
                        Advancing, Keeping, Expiring
    <2>4. ~Ahead(k) /\ Ends(local, k) /\ \A j : ~Gives(local, j)
      BY <1>5, <1>7 DEF Ahead, Ends, Gives, Sessions
    <2> QED BY <1>1, <1>2, <1>5, <1>7, <1>9, <2>3, <2>4, ReleaseKeeps
  <1>10. CASE ~Open(k) /\ ReleaseOK(k, <<"cancel", 1>>) /\ Release(k, <<"cancel", 1>>) /\ Goto(p, local)
    <2>1. UNCHANGED <<holds, account>> /\ holds[k].by = <<"cancel", 1>>
      BY <1>10 DEF Release, ReleaseOK, Open
    <2>2. holds[k].status = "RELEASED"
      BY <1>5, <1>10, <2>1, CanceledIsReleased DEF Inv
    <2>3. Canceling(local)
      BY <1>5, <1>7, <2>2 DEF Canceling
    <2>4. Fits(local)
      BY <1>7, <2>3 DEF Fits, Locals, Admitting, Reporting, Claimed, Charging, Completion,
                        Advancing, Keeping, Expiring
    <2>5. Quiet(p, old, local)
      BY <1>2, <1>7, <1>10, <2>1, <2>4 DEF Quiet, Owns, Gives, Keeps, Brings, Ends
    <2> QED BY <1>1, <2>5, QuietKeeps
  <1>11. CASE UNCHANGED <<holds, account>> /\ Goto(p, Idle)
    BY <1>1, <1>2, <1>11, LeaveKeeps
  <1> QED BY <1>8, <1>9, <1>10, <1>11

LEMMA ReleaseExpiredKeeps ==
    ASSUME Inv, NEW p \in Processes, ReleaseExpired(p)
    PROVE  Inv'
  <1>1. PICK old : old = proc[p]
    OBVIOUS
  <1>2. old.pc = "release-expired" /\ UNCHANGED <<session, charges, env>>
    BY <1>1 DEF ReleaseExpired, At
  <1>3. old \in Expirers /\ Expiring(old)
    BY <1>1, <1>2, Known, Kinds DEF Fits
  <1>4. PICK k : k = old.hold
    OBVIOUS
  <1>5. /\ k \in HoldKeys /\ Made(k)
        /\ \A row \in charges : row.hold = k => row.checkpoint # None
    BY <1>2, <1>3, <1>4 DEF Expirers, Expiring
  <1>6. PICK local : local = [old EXCEPT !.pc = "end-expired"]
    OBVIOUS
  <1>7. local \in Expirers /\ local.pc = "end-expired" /\ local.hold = k
    BY <1>3, <1>4, <1>6 DEF Expirers
  <1>8. Release(k, <<"expired", k>>) /\ Goto(p, local)
    BY <1>1, <1>4, <1>6 DEF ReleaseExpired
  <1>9. CASE Open(k)
    <2>1. holds'[k].status = "RELEASED"
      BY <1>2, <1>5, <1>8, <1>9, ReleaseStep DEF Inv, Shared, Typed
    <2>2. Expiring(local)'
      BY <1>2, <1>5, <1>7, <2>1 DEF Expiring, Made, Open, Terminal
    <2>3. Fits(local)'
      BY <1>7, <2>2 DEF Fits, Locals, Admitting, Canceling, Reporting, Claimed, Charging,
                        Completion, Advancing, Keeping
    <2>4. env.crashes = 0 => ~Ahead(k)
      BY <1>1, <1>2, <1>4, <1>5 DEF Inv, Calm, Gives
    <2>5. Ends(local, k) /\ \A j : Gives(local, j) => Gives(old, j)
      BY <1>2, <1>4, <1>7 DEF Ends, Gives
    <2> QED BY <1>1, <1>2, <1>5, <1>7, <1>8, <1>9, <2>3, <2>4, <2>5, ReleaseKeeps
  <1>10. CASE ~Open(k)
    <2>1. UNCHANGED <<holds, account>>
      BY <1>8, <1>10 DEF Release, Open
    <2>2. Terminal(k)
      BY <1>5, <1>10 DEF Terminal, Made, Open, Inv, Shared, Typed, HoldsTyped
    <2>3. Expiring(local)
      BY <1>5, <1>7, <1>10, <2>2 DEF Expiring
    <2>4. Fits(local)
      BY <1>7, <2>3 DEF Fits, Locals, Admitting, Canceling, Reporting, Claimed, Charging,
                        Completion, Advancing, Keeping
    <2>5. Quiet(p, old, local)
      BY <1>2, <1>4, <1>7, <1>8, <2>1, <2>4 DEF Quiet, Owns, Gives, Keeps, Brings, Ends
    <2> QED BY <1>1, <2>5, QuietKeeps
  <1> QED BY <1>9, <1>10

-----------------------------------------------------------------------------
(* Steps that charge the call or keep its hold whole.                      *)

LEMMA PostsKeeps ==
    ASSUME Inv, NEW p \in Processes, NEW old, old = proc[p], NEW local, Goto(p, local),
           NEW row, Posts(row), HoldsTyped', Wallet', UNCHANGED env,
           old.pc \in {"charge", "settle-tail", "settle-silent"},
           local.pc \in {"reserve-next", "apply-tail", "end-silent"},
           row.checkpoint = None => Ends(local, row.hold),
           Owns(local)' => Owns(old), Fits(local)',
           \A q \in Processes \ {p} : \A l : l = proc[q] => Fits(l)'
    PROVE  Inv'
  <1>1. /\ Shared /\ AllFit /\ OneOwner /\ Apart /\ ActiveCallIsBacked /\ Typed /\ Wallet
        /\ (env.crashes = 0 => Calm) /\ Steady /\ session \in Sessions
    BY DEF Inv, Shared, Typed
  <1>2. /\ UNCHANGED session /\ charges' = charges \cup {row} /\ row.hold = session.active
        /\ row.hold # None => Closes(row.hold)
        /\ row.hold = None => UNCHANGED holds
    BY DEF Posts
  <1>3. Shared'
    <2>1. IsFiniteSet(charges')
      BY <1>1, <1>2, FS_AddElement DEF Typed
    <2>2. Typed'
      BY <1>1, <1>2, <2>1 DEF Typed, Steady
    <2> QED BY <1>1, <2>2, SharedPosts
  <1>4. AllFit'
    BY <1>1, FitNext
  <1>5. OneOwner'
    <2>1. session' \in Sessions /\ session.lastSeq <= session'.lastSeq
      BY <1>1, <1>2 DEF Sessions
    <2> QED BY <1>1, <2>1, OwnerNext
  <1>6. \A j \in HoldKeys : (Open(j)' => Open(j)) /\ (j # row.hold => holds'[j] = holds[j])
    BY <1>2, Closing DEF Closes, Open
  <1>7. Apart'
    <2>1. \A j : ~Gives(local, j) /\ ~Keeps(local, j)
      BY DEF Keeps, Gives
    <2> QED BY <1>1, <1>6, <2>1, ApartNext
  <1>8. env'.crashes = 0 => Calm'
    <2>1. row.hold # None => ~Ahead(row.hold)
      BY <1>1, <1>2, Known DEF Ahead, Sessions
    <2>2. \A j \in HoldKeys :
              /\ Ahead(j)' => Ahead(j)
              /\ Made(j)' /\ Ahead(j)' =>
                    \/ Brings(local, j) /\ Open(j)' /\ ~holds'[j].late
                    \/ Made(j) /\ holds'[j] = holds[j] /\ ~Brings(old, j)
              /\ Gives(local, j) => Gives(old, j) \/ ~Ahead(j)
      <3>1. \A j \in HoldKeys : (Ahead(j)' <=> Ahead(j)) /\ ~Brings(old, j) /\ ~Gives(local, j)
        BY <1>2 DEF Ahead, Brings, Gives
      <3>2. \A j \in HoldKeys : Ahead(j) => holds'[j] = holds[j] /\ (Made(j)' <=> Made(j))
        <4>1. \A j \in HoldKeys : j # None
          BY NoneIsNothing
        <4>2. \A j \in HoldKeys : Ahead(j) => j # row.hold
          BY <2>1, <4>1
        <4> QED BY <1>6, <4>2 DEF Made
      <3> QED BY <3>1, <3>2
    <2> QED BY <1>1, <2>2, CalmNext
  <1>9. ActiveCallIsBacked'
    <2>1. PICK j : j = session.active
      OBVIOUS
    <2>2. Owed(j)' \/ Ends(local, j)
      <3>1. CASE row.checkpoint = None
        BY <1>2, <2>1, <3>1
      <3>2. CASE row.checkpoint # None
        <4>1. row.checkpoint.n > session.lastSeq
          BY <1>1, <3>2 DEF Posts, Charges, UsageRow, Checkpoints, Reports, Sessions
        <4> QED BY <1>2, <2>1, <3>2, <4>1 DEF Owed
      <3> QED BY <3>1, <3>2
    <2>3. charges \subseteq charges'
      BY <1>2
    <2> QED BY <1>1, <1>2, <2>1, <2>2, <2>3, BackedNext
  <1> QED BY <1>3, <1>4, <1>5, <1>7, <1>8, <1>9 DEF Inv

\* What a charger knows: the session is as it was read unless the hold is closed.
LEMMA ChargerKnows ==
    ASSUME Inv, NEW p \in Processes, NEW old, old = proc[p], old.pc = "charge"
    PROVE  /\ old \in Chargers /\ session \in Sessions /\ session.gen = 1 /\ old.n \in Reports
           /\ session.claim = old.n /\ ~session.aged /\ session.lastSeq < old.n /\ Pendings = {}
           /\ old.checkpoint \in Checkpoints /\ old.checkpoint.n = old.n /\ old.delta \in Nat
           /\ Same(old.sess) =>
                 /\ old.checkpoint.cum = session.cum + old.delta
                 /\ old.checkpoint.target = session.total + old.delta
                 /\ old.checkpoint.priorDebt = session.debt
           /\ Same(old.sess) \/ (old.sess.active # None /\ Terminal(old.sess.active))
           /\ old.sess.active \in HoldKeys \cup {None}
           /\ RowsOf(<<"settle", old.n>>) = {} /\ RowsOf(<<"tail", old.n>>) = {}
           /\ Owns(old) /\ \A q \in Processes \ {p} : \A l : l = proc[q] => Fits(l) /\ ~Owns(l)
  <1>1. old \in Chargers /\ Claimed(old) /\ Charging(old) /\ session \in Sessions
        /\ session.gen \in {0, 1} /\ (session.gen = 0 => session = NoSession)
    BY Known, Kinds DEF Fits
  <1>2. /\ session.claim = old.n /\ ~session.aged /\ session.lastSeq < old.n /\ Pendings = {}
        /\ old.n \in Reports /\ old.checkpoint \in Checkpoints /\ old.delta \in Nat
        /\ old.sess.active \in HoldKeys \cup {None}
    BY <1>1 DEF Claimed, Chargers, Sessions
  <1>3. session.gen = 1
    BY <1>1, <1>2 DEF NoSession, Reports
  <1>4. /\ old.checkpoint = [n |-> old.n, cum |-> old.sess.cum + old.delta,
                             target |-> old.sess.total + old.delta, priorDebt |-> old.sess.debt]
        /\ Same(old.sess) \/ (old.sess.active # None /\ Terminal(old.sess.active))
    BY <1>1 DEF Charging
  <1>5. /\ old.checkpoint.n = old.n /\ old.checkpoint.cum = old.sess.cum + old.delta
        /\ old.checkpoint.target = old.sess.total + old.delta
        /\ old.checkpoint.priorDebt = old.sess.debt
    BY <1>4
  <1>6. ASSUME NEW row \in charges, row.key \in {<<"settle", old.n>>, <<"tail", old.n>>}
        PROVE  FALSE
    <2>1. UsageRow(row)
      <3>1. KeptRow(row) => row.key[1] \in {"silent", "expired-tail"}
        BY DEF KeptRow
      <3>2. row.key[1] \in {"settle", "tail"}
        BY <1>6
      <3> QED BY <3>1, <3>2 DEF Inv, Shared, Rows
    <2>2. row.checkpoint.n = old.n /\ row.checkpoint \in Checkpoints
      <3>1. row.checkpoint \in Checkpoints /\ row.key[2] = row.checkpoint.n
        BY <2>1 DEF UsageRow
      <3>2. row.key[2] = old.n
        BY <1>6
      <3> QED BY <3>1, <3>2
    <2>3. row \in Pendings
      BY <1>1, <1>2, <2>2, NoneIsNothing DEF Pendings, PendingRows, Sessions, Reports
    <2> QED BY <1>2, <2>3
  <1>7. RowsOf(<<"settle", old.n>>) = {} /\ RowsOf(<<"tail", old.n>>) = {}
    BY <1>6 DEF RowsOf
  <1>8. Owns(old)
    BY DEF Owns
  <1>9. ASSUME NEW q \in Processes \ {p}, NEW l, l = proc[q] PROVE Fits(l) /\ ~Owns(l)
    BY <1>8, <1>9 DEF Inv, AllFit, OneOwner
  <1> QED BY <1>1, <1>2, <1>3, <1>4, <1>5, <1>7, <1>8, <1>9 DEF Same

\* A charger that has posted a row goes on to complete it.
LEMMA ChargedKeeps ==
    ASSUME Inv, NEW p \in Processes, NEW old, old = proc[p], old.pc = "charge",
           NEW row, Posts(row), HoldsTyped', Wallet', UNCHANGED env,
           row.checkpoint = old.checkpoint, row.debt \in Nat, NEW sess,
           NEW local, local = Completing(p, "claimed", sess, old.checkpoint, row.debt),
           Goto(p, local)
    PROVE  Inv'
  <1>1. /\ old \in Chargers /\ session \in Sessions /\ session.gen = 1 /\ old.n \in Reports
        /\ session.claim = old.n /\ ~session.aged
        /\ old.checkpoint \in Checkpoints /\ old.checkpoint.n = old.n
        /\ Owns(old) /\ \A q \in Processes \ {p} : \A l : l = proc[q] => Fits(l) /\ ~Owns(l)
    BY ChargerKnows
  <1>2. /\ local \in Completers /\ local.pc = "reserve-next" /\ local.mode = "claimed"
        /\ local.n = old.n /\ local.checkpoint = old.checkpoint /\ local.debt = row.debt
        /\ local.next = None
    BY <1>1, CompletingIs
  <1>3. row.checkpoint # None /\ charges' = charges \cup {row} /\ UNCHANGED session /\ Charges(row)
    BY <1>1, NoneIsNothing DEF Posts
  <1>4. Completion(local)'
    BY <1>1, <1>2, <1>3 DEF Completion, Posted
  <1>5. Fits(local)'
    BY <1>2, <1>4 DEF Fits, Locals, Admitting, Canceling, Reporting, Claimed, Charging,
                      Advancing, Keeping, Expiring
  <1>6. ASSUME NEW q \in Processes \ {p}, NEW l, l = proc[q] PROVE Fits(l)'
    <2>1. Fits(l) /\ ~Owns(l)
      BY <1>1, <1>6
    <2> QED BY <1>1, <1>3, <2>1, FitsCharge DEF Inv, Shared, Typed
  <1> QED BY <1>1, <1>2, <1>3, <1>5, <1>6, PostsKeeps

LEMMA ChargeHoldKeeps ==
    ASSUME Inv, NEW p \in Processes, ChargeHold(p)
    PROVE  Inv'
  <1>1. PICK old : old = proc[p]
    OBVIOUS
  <1>2. PICK k : k = old.sess.active
    OBVIOUS
  <1>3. PICK key : key = <<"settle", old.n>>
    OBVIOUS
  <1>4. old.pc = "charge" /\ k # None /\ UNCHANGED <<session, env>>
    BY <1>1, <1>2 DEF ChargeHold, At
  <1>5. /\ old \in Chargers /\ session \in Sessions /\ session.gen = 1 /\ old.n \in Reports
        /\ session.claim = old.n /\ ~session.aged /\ session.lastSeq < old.n /\ Pendings = {}
        /\ old.checkpoint \in Checkpoints /\ old.checkpoint.n = old.n /\ old.delta \in Nat
        /\ Same(old.sess) =>
              /\ old.checkpoint.cum = session.cum + old.delta
              /\ old.checkpoint.target = session.total + old.delta
              /\ old.checkpoint.priorDebt = session.debt
        /\ Same(old.sess) \/ (old.sess.active # None /\ Terminal(old.sess.active))
        /\ old.sess.active \in HoldKeys \cup {None}
        /\ RowsOf(<<"settle", old.n>>) = {} /\ Owns(old)
    BY <1>1, <1>4, ChargerKnows
  <1>6. k \in HoldKeys /\ RowsOf(key) = {}
    BY <1>2, <1>3, <1>4, <1>5
  <1>7. \/ /\ holds[k].status = "ACTIVE"
           /\ \E row \in {Settlement(key, k, old.delta, old.checkpoint, FALSE)} :
                 /\ Settle(row)
                 /\ Goto(p, Completing(p, "claimed", old.sess, old.checkpoint, Recorded(row).debt))
        \/ /\ UNCHANGED <<charges, holds, account>>
           /\ Goto(p, [pc |-> "unclaim", n |-> old.n])
    BY <1>1, <1>2, <1>3, <1>6, Zenon DEF ChargeHold, SettleOK
  <1>8. CASE /\ UNCHANGED <<charges, holds, account>>
             /\ Goto(p, [pc |-> "unclaim", n |-> old.n])
    <2>1. PICK local : local = [pc |-> "unclaim", n |-> old.n]
      OBVIOUS
    <2>2. local \in Claimants /\ local.pc = "unclaim" /\ local.n = old.n
      BY <1>5, <2>1 DEF Claimants
    <2>3. Claimed(local)
      BY <1>5, <2>2 DEF Claimed
    <2>4. Fits(local)
      BY <2>2, <2>3 DEF Fits, Locals, Admitting, Canceling, Reporting, Charging, Completion,
                        Advancing, Keeping, Expiring
    <2>5. Plain(old) /\ Plain(local)
      BY <1>4, <2>2 DEF Plain
    <2> QED BY <1>1, <1>4, <1>5, <1>8, <2>1, <2>4, <2>5, PlainKeeps
  <1>9. CASE /\ holds[k].status = "ACTIVE"
             /\ \E row \in {Settlement(key, k, old.delta, old.checkpoint, FALSE)} :
                   /\ Settle(row)
                   /\ Goto(p, Completing(p, "claimed", old.sess, old.checkpoint, Recorded(row).debt))
    <2>1. PICK row : /\ row = Settlement(key, k, old.delta, old.checkpoint, FALSE)
                     /\ Settle(row)
                     /\ Goto(p, Completing(p, "claimed", old.sess, old.checkpoint, Recorded(row).debt))
      BY <1>9, Zenon
    <2>2. PICK d : d = SettleDeltas(account, HoldMicros, 0, TRUE, old.delta)
      OBVIOUS
    <2>3. d.debt \in Nat
      <3>1. account \in Accounts /\ account.promo = 0
        BY DEF Inv, Shared, Wallet
      <3>2. old.delta \in Nat
        BY <1>5
      <3> QED BY <2>2, <3>1, <3>2, Settlements, Zenon
    <2>4. row = [key |-> key, hold |-> k, gross |-> old.delta, debt |-> d.debt,
                 checkpoint |-> old.checkpoint, tail |-> FALSE]
      BY <2>1, <2>2, Zenon DEF Settlement
    <2>5. /\ row.key = key /\ row.hold = k /\ row.gross = old.delta /\ row.debt = d.debt
          /\ row.checkpoint = old.checkpoint /\ ~row.tail
      BY <2>4
    <2>6. Settle(row) /\ RowsOf(row.key) = {} /\ Recorded(row) = row
      BY <1>6, <2>1, <2>5, Zenon DEF Recorded
    <2>7. Open(k)
      BY <1>9 DEF Open
    <2>8. /\ Closes(row.hold) /\ HoldsTyped' /\ Wallet' /\ charges' = charges \cup {row}
          /\ holds'[row.hold].status = "SETTLED" /\ holds'[row.hold].by = row.key
      BY <1>4, <1>5, <1>6, <2>5, <2>6, <2>7, SettleStep DEF Inv, Shared, Typed
    <2>9. Same(old.sess) /\ k = session.active
      BY <1>2, <1>5, <2>7 DEF Open, Terminal, Same
    <2>10. UsageRow(row)
      BY <1>3, <1>4, <1>5, <2>5 DEF UsageRow
    <2>11. Charges(row)
      BY <1>5, <2>5, <2>8, <2>10 DEF Charges
    <2>12. Posts(row)
      BY <1>4, <1>5, <2>3, <2>5, <2>8, <2>9, <2>10, <2>11 DEF Posts
    <2>13. PICK local : local = Completing(p, "claimed", old.sess, old.checkpoint, row.debt)
      OBVIOUS
    <2>14. Goto(p, local)
      BY <2>1, <2>6, <2>13, Zenon
    <2> QED BY <1>1, <1>4, <2>3, <2>5, <2>8, <2>12, <2>13, <2>14, ChargedKeeps
  <1> QED BY <1>7, <1>8, <1>9

LEMMA ChargeTailKeeps ==
    ASSUME Inv, NEW p \in Processes, ChargeTail(p)
    PROVE  Inv'
  <1>1. PICK old : old = proc[p]
    OBVIOUS
  <1>2. PICK d : d = UsageDebitDeltas(account, old.delta)
    OBVIOUS
  <1>3. PICK row : row = [key |-> <<"tail", old.n>>, hold |-> None, gross |-> old.delta,
                          debt |-> d.debt, checkpoint |-> old.checkpoint, tail |-> FALSE]
    OBVIOUS
  <1>4. /\ row.key = <<"tail", old.n>> /\ row.hold = None /\ row.gross = old.delta
        /\ row.debt = d.debt /\ row.checkpoint = old.checkpoint /\ ~row.tail
    BY <1>3
  <1>5. old.pc = "charge" /\ old.sess.active = None /\ UNCHANGED <<session, holds, env>>
    BY <1>1 DEF ChargeTail, At
  <1>6. /\ old \in Chargers /\ session \in Sessions /\ session.gen = 1 /\ old.n \in Reports
        /\ session.claim = old.n /\ ~session.aged /\ session.lastSeq < old.n /\ Pendings = {}
        /\ old.checkpoint \in Checkpoints /\ old.checkpoint.n = old.n /\ old.delta \in Nat
        /\ Same(old.sess) =>
              /\ old.checkpoint.cum = session.cum + old.delta
              /\ old.checkpoint.target = session.total + old.delta
              /\ old.checkpoint.priorDebt = session.debt
        /\ Same(old.sess) \/ (old.sess.active # None /\ Terminal(old.sess.active))
        /\ RowsOf(<<"tail", old.n>>) = {} /\ Owns(old)
    BY <1>1, <1>5, ChargerKnows
  <1>7. RowsOf(row.key) = {} /\ Recorded(row) = row
    BY <1>4, <1>6 DEF Recorded
  <1>8. /\ charges' = charges \cup {row} /\ account' = Projected(account, d)
        /\ Goto(p, Completing(p, "claimed", old.sess, old.checkpoint, row.debt))
    BY <1>1, <1>2, <1>3, <1>7, Zenon DEF ChargeTail
  <1>9. /\ account \in Accounts /\ account.promo = 0 /\ account.reservedPromo = 0
        /\ IsFiniteSet(OpenHolds) /\ account.reservedPaid = HoldMicros * Cardinality(OpenHolds)
    BY DEF Inv, Shared, Wallet
  <1>10. /\ d.paid \in Int /\ account.paid + d.paid >= 0 /\ d.promo = 0
         /\ d.reservedPaid = 0 /\ d.reservedPromo = 0 /\ d.debt \in Nat
    BY <1>2, <1>6, <1>9, Debits
  <1>11. account' \in Accounts /\ account'.promo = 0 /\ account'.reservedPromo = 0
         /\ account'.reservedPaid = account.reservedPaid
    BY <1>8, <1>9, <1>10 DEF Projected, Accounts
  <1>12. HoldsTyped' /\ Wallet'
    <2>1. OpenHolds' = OpenHolds
      BY <1>5 DEF OpenHolds, Open
    <2>2. Wallet'
      BY <1>9, <1>11, <2>1 DEF Wallet
    <2> QED BY <1>5, <2>2 DEF Inv, Shared, Typed, HoldsTyped
  <1>13. Same(old.sess) /\ session.active = None
    BY <1>5, <1>6 DEF Same
  <1>14. UsageRow(row)
    BY <1>4, <1>6 DEF UsageRow
  <1>15. Charges(row)
    BY <1>4, <1>5, <1>6, <1>8, <1>14 DEF Charges
  <1>16. Posts(row)
    BY <1>4, <1>5, <1>6, <1>8, <1>10, <1>13, <1>14, <1>15 DEF Posts
  <1>17. PICK local : local = Completing(p, "claimed", old.sess, old.checkpoint, row.debt)
    OBVIOUS
  <1>18. row.debt \in Nat /\ Goto(p, local)
    BY <1>4, <1>8, <1>10, <1>17
  <1> QED BY <1>1, <1>4, <1>5, <1>12, <1>16, <1>17, <1>18, ChargedKeeps

\* A sweeper keeps the hold whole, or finds that it has been kept already.
LEMMA KeepWholeKeeps ==
    ASSUME Inv, NEW p \in Processes, NEW old, old = proc[p], NEW k \in HoldKeys, Keeps(old, k),
           NEW key \in {<<"silent", k>>, <<"expired-tail", k>>}, NEW tail,
           NEW row, row = Settlement(key, k, HoldMicros, None, tail),
           SettleOK(key, k, HoldMicros), Settle(row), UNCHANGED <<session, env>>,
           NEW local \in Locals, local.pc \in {"apply-tail", "end-silent"}, local.hold = k,
           Goto(p, local)
    PROVE  Inv'
  <1>1. PICK d : d = SettleDeltas(account, HoldMicros, 0, TRUE, HoldMicros)
    OBVIOUS
  <1>2. HoldMicros \in Nat /\ account \in Accounts /\ account.promo = 0
    BY BoundsAreNumbers DEF Inv, Shared, Wallet
  <1>3. d.debt = 0
    <2>1. HoldMicros <= HoldMicros
      BY <1>2
    <2> QED BY <1>1, <1>2, <2>1, Settlements, Zenon
  <1>4. row = [key |-> key, hold |-> k, gross |-> HoldMicros, debt |-> d.debt,
               checkpoint |-> None, tail |-> tail]
    BY <1>1, Zenon DEF Settlement
  <1>5. /\ row.key = key /\ row.hold = k /\ row.gross = HoldMicros /\ row.debt = 0
        /\ row.checkpoint = None
    BY <1>3, <1>4
  <1>6. KeptRow(row)
    BY <1>5, NoneIsNothing DEF KeptRow
  <1>7. CASE RowsOf(key) = {}
    <2>1. Open(k)
      BY <1>7 DEF SettleOK, Open
    <2>2. /\ Closes(row.hold) /\ HoldsTyped' /\ Wallet' /\ charges' = charges \cup {row}
          /\ holds'[row.hold].status = "SETTLED" /\ holds'[row.hold].by = row.key
      BY <1>2, <1>5, <1>7, <2>1, SettleStep DEF Inv, Shared, Typed
    <2>3. session.active = k
      <3>1. Keeping(old)
        BY Known DEF Fits
      <3> QED BY <2>1, <3>1 DEF Keeping, Keeps
    <2>4. Posts(row)
      <3>1. k # None
        BY Known
      <3>2. row.hold # None /\ ~(row.checkpoint # None) /\ row.hold = session.active
            /\ row.gross \in Nat /\ row.debt \in Nat /\ UNCHANGED session
        BY <1>2, <1>5, <2>3, <3>1
      <3> QED BY <1>6, <2>2, <3>2 DEF Posts
    <2>5. ASSUME NEW q \in Processes \ {p}, NEW l, l = proc[q] PROVE Fits(l)'
      <3>1. Fits(l) /\ ~Gives(l, row.hold)
        BY <1>5, <2>1, <2>5 DEF Inv, AllFit, Apart
      <3>2. KeepsWhole(row)
        BY <1>6, <2>2 DEF KeepsWhole
      <3> QED BY <3>1, <3>2, FitsKeep DEF Inv, Shared, Typed
    <2>6. Keeping(local)'
      <3>1. row \in charges'
        BY <2>2
      <3> QED BY <1>5, <3>1 DEF Keeping
    <2>7. Fits(local)'
      BY <2>6 DEF Fits, Admitting, Canceling, Reporting, Claimed, Charging, Completion,
                  Advancing, Expiring
    <2>8. Ends(local, row.hold) /\ ~Owns(local)'
      BY <1>5 DEF Ends, Owns
    <2>9. old.pc \in {"settle-tail", "settle-silent"}
      BY DEF Keeps
    <2> QED BY <2>2, <2>4, <2>5, <2>7, <2>8, <2>9, PostsKeeps
  <1>8. CASE RowsOf(key) # {}
    <2>1. UNCHANGED <<charges, holds, account>>
      BY <1>5, <1>8, Zenon DEF Settle
    <2>2. PICK kept \in charges : kept.key = key
      BY <1>8 DEF RowsOf
    <2>3. KeptRow(kept)
      <3>1. UsageRow(kept) => kept.key[1] \in {"settle", "tail"}
        BY DEF UsageRow
      <3>2. kept.key[1] \in {"silent", "expired-tail"}
        BY <2>2
      <3> QED BY <3>1, <3>2 DEF Inv, Shared, Rows
    <2>4. kept.checkpoint = None /\ kept.hold = k
      <3>1. kept.checkpoint = None /\ kept.key[2] = kept.hold
        BY <2>3 DEF KeptRow
      <3>2. kept.key[2] = k
        BY <2>2
      <3> QED BY <3>1, <3>2
    <2>5. Keeping(local)
      BY <2>2, <2>4 DEF Keeping
    <2>6. Fits(local)
      BY <2>5 DEF Fits, Admitting, Canceling, Reporting, Claimed, Charging, Completion,
                  Advancing, Expiring
    <2>7. Quiet(p, old, local)
      BY <2>1, <2>6 DEF Quiet, Owns, Gives, Keeps, Brings, Ends
    <2> QED BY <2>7, QuietKeeps
  <1> QED BY <1>7, <1>8

LEMMA SettleTailKeeps ==
    ASSUME Inv, NEW p \in Processes, SettleTail(p)
    PROVE  Inv'
  <1>1. PICK old : old = proc[p]
    OBVIOUS
  <1>2. PICK k : k = old.hold
    OBVIOUS
  <1>3. PICK key : key = <<"expired-tail", k>>
    OBVIOUS
  <1>4. PICK tail : tail = TRUE
    OBVIOUS
  <1>5. PICK row : row = Settlement(key, k, HoldMicros, None, tail)
    OBVIOUS
  <1>6. PICK local : local = [old EXCEPT !.pc = "apply-tail"]
    OBVIOUS
  <1>7. old.pc = "settle-tail" /\ UNCHANGED <<session, env>>
    BY <1>1 DEF SettleTail, At
  <1>8. old \in Expirers /\ k \in HoldKeys
    BY <1>1, <1>2, <1>7, Known, Kinds DEF Expirers
  <1>9. local \in Expirers /\ local.pc = "apply-tail" /\ local.hold = k
    BY <1>2, <1>6, <1>8 DEF Expirers
  <1>10. \/ SettleOK(key, k, HoldMicros) /\ Settle(row) /\ Goto(p, local)
         \/ UNCHANGED <<charges, holds, account>> /\ Goto(p, Idle)
    BY <1>1, <1>2, <1>3, <1>4, <1>5, <1>6, Zenon DEF SettleTail
  <1>11. CASE SettleOK(key, k, HoldMicros) /\ Settle(row) /\ Goto(p, local)
    <2>1. Keeps(old, k) /\ local \in Locals
      BY <1>2, <1>7, <1>9 DEF Keeps, Locals
    <2> QED BY <1>1, <1>3, <1>5, <1>7, <1>8, <1>9, <1>11, <2>1, KeepWholeKeeps
  <1>12. CASE UNCHANGED <<charges, holds, account>> /\ Goto(p, Idle)
    <2>1. Quiet(p, old, Idle)
      BY <1>7, <1>12, IdleFits DEF Quiet, Owns, Gives, Keeps, Brings, Ends, Idle
    <2> QED BY <1>1, <2>1, QuietKeeps
  <1> QED BY <1>10, <1>11, <1>12

LEMMA SettleSilentKeeps ==
    ASSUME Inv, NEW p \in Processes, SettleSilent(p)
    PROVE  Inv'
  <1>1. PICK old : old = proc[p]
    OBVIOUS
  <1>2. PICK k : k = old.hold
    OBVIOUS
  <1>3. PICK key : key = <<"silent", k>>
    OBVIOUS
  <1>4. PICK row : row = Settlement(key, k, HoldMicros, None, old.reported)
    OBVIOUS
  <1>5. PICK local : local = [old EXCEPT !.pc = "end-silent"]
    OBVIOUS
  <1>6. old.pc = "settle-silent" /\ UNCHANGED <<session, env>>
    BY <1>1 DEF SettleSilent, At
  <1>7. old \in Silencers /\ k \in HoldKeys
    BY <1>1, <1>2, <1>6, Known, Kinds DEF Silencers
  <1>8. local \in Silencers /\ local.pc = "end-silent" /\ local.hold = k
    BY <1>2, <1>5, <1>7 DEF Silencers
  <1>9. \/ SettleOK(key, k, HoldMicros) /\ Settle(row) /\ Goto(p, local)
        \/ UNCHANGED <<charges, holds, account>> /\ Goto(p, Idle)
    BY <1>1, <1>2, <1>3, <1>4, <1>5, Zenon DEF SettleSilent
  <1>10. CASE SettleOK(key, k, HoldMicros) /\ Settle(row) /\ Goto(p, local)
    <2>1. Keeps(old, k) /\ local \in Locals
      BY <1>2, <1>6, <1>8 DEF Keeps, Locals
    <2> QED BY <1>1, <1>3, <1>4, <1>6, <1>7, <1>8, <1>10, <2>1, KeepWholeKeeps
  <1>11. CASE UNCHANGED <<charges, holds, account>> /\ Goto(p, Idle)
    <2>1. Quiet(p, old, Idle)
      BY <1>6, <1>11, IdleFits DEF Quiet, Owns, Gives, Keeps, Brings, Ends, Idle
    <2> QED BY <1>1, <2>1, QuietKeeps
  <1> QED BY <1>9, <1>10, <1>11
-----------------------------------------------------------------------------
(* Steps that change the session and nothing else.                         *)

LEMMA TurnKeeps ==
    ASSUME Inv, NEW p \in Processes, NEW old, old = proc[p], NEW local, Goto(p, local),
           UNCHANGED <<holds, charges, env>>, local.pc \in {"idle", "recovered", "charge-from"},
           Shared', Fits(local)', \A l : Fits(l) /\ (\E q \in Processes \ {p} : l = proc[q]) => Fits(l)',
           OneOwner', session.lastSeq <= session'.lastSeq, session.gen # 0 => session'.gen # 0,
           \A k \in HoldKeys : env.crashes = 0 /\ Made(k) /\ Ahead(k)' => ~Brings(old, k),
           ActiveCallIsBacked'
    PROVE  Inv'
  <1>1. /\ AllFit /\ Apart /\ (env.crashes = 0 => Calm)
        /\ session \in Sessions /\ session' \in Sessions /\ Steady
        /\ UNCHANGED holds /\ UNCHANGED env
    BY DEF Inv, Shared, Typed
  <1>2. AllFit'
    <2>1. ASSUME NEW q \in Processes \ {p}, NEW l, l = proc[q] PROVE Fits(l)'
      <3>1. Fits(l)
        BY <1>1, <2>1 DEF AllFit
      <3> QED BY <2>1, <3>1
    <2> QED BY <1>1, <2>1, FitNext
  <1>3. \A k \in HoldKeys : ~Gives(local, k) /\ ~Keeps(local, k) /\ (Open(k)' => Open(k))
    BY <1>1 DEF Gives, Keeps, Open
  <1>4. Apart'
    BY <1>1, <1>3, ApartNext
  <1>5. env'.crashes = 0 => Calm'
    <2>1. \A k \in HoldKeys : Ahead(k)' => Ahead(k)
      BY <1>1, Keys DEF Ahead, Sessions
    <2>2. \A k \in HoldKeys : Made(k)' => Made(k) /\ holds'[k] = holds[k]
      BY <1>1 DEF Made
    <2>3. ASSUME env.crashes = 0
          PROVE  \A k \in HoldKeys :
              /\ Ahead(k)' => Ahead(k)
              /\ Made(k)' /\ Ahead(k)' =>
                    \/ Brings(local, k) /\ Open(k)' /\ ~holds'[k].late
                    \/ Made(k) /\ holds'[k] = holds[k] /\ ~Brings(old, k)
              /\ Gives(local, k) => Gives(old, k) \/ ~Ahead(k)
      BY <1>3, <2>1, <2>2, <2>3
    <2> QED BY <1>1, <2>3, CalmNext
  <1> QED BY <1>2, <1>4, <1>5 DEF Inv

LEMMA AdmitKeeps ==
    ASSUME Inv, NEW p \in Processes, Admit(p)
    PROVE  Inv'
  <1>1. PICK old : old = proc[p]
    OBVIOUS
  <1>2. /\ old.pc = "admit" /\ UNCHANGED <<account, holds, charges, env>>
        /\ session.status = old.from /\ session.gen = old.gen - 1 =>
              /\ session' = [NoSession EXCEPT !.status = "ACTIVE", !.gen = old.gen,
                                              !.active = InitialKey(old.gen),
                                              !.quiet = session.quiet]
              /\ Goto(p, Idle)
        /\ ~(session.status = old.from /\ session.gen = old.gen - 1) =>
              /\ UNCHANGED session
              /\ Goto(p, IF session.active = InitialKey(old.gen) THEN Idle
                         ELSE [old EXCEPT !.pc = "drop-admission"])
    BY <1>1 DEF Admit, At
  <1>3. old \in Admitters /\ old.from = "NONE" /\ old.gen = 1 /\ Made(First)
    BY <1>1, <1>2, Known, Kinds DEF Fits, Admitting, Admitters
  <1>4. First \in HoldKeys /\ Report(First) = 0 /\ First # None /\ Steady /\ Carries /\ AllFit
        /\ OneOwner /\ Shared /\ session \in Sessions
    BY Keys DEF Inv, Shared, Typed
  <1>5. CASE session.gen = 0
    <2>1. session = NoSession
      BY <1>4, <1>5 DEF Carries
    <2>2. /\ session' = [NoSession EXCEPT !.status = "ACTIVE", !.gen = 1, !.active = First,
                                          !.quiet = FALSE]
          /\ Goto(p, Idle)
      BY <1>2, <1>3, <2>1 DEF NoSession, First
    <2>3. /\ session'.status = "ACTIVE" /\ session'.gen = 1 /\ session'.active = First
          /\ session'.lastSeq = 0 /\ session'.quiet = FALSE /\ session'.cum = 0
          /\ session'.total = 0 /\ session'.debt = 0 /\ session' \in Sessions
      <3>1. session' = [status |-> "ACTIVE", gen |-> 1, active |-> First, lastSeq |-> 0,
                        claim |-> 0, aged |-> FALSE, quiet |-> FALSE, cum |-> 0,
                        total |-> 0, debt |-> 0, tail |-> 0]
        BY <2>2 DEF NoSession
      <3>2. 0 \in 0..LastReport /\ 1 \in 0..Generations
        BY <1>4, BoundsAreNumbers DEF Steady
      <3> QED BY <1>4, <3>1, <3>2 DEF Sessions
    <2>4. Begins
      BY <1>2, <1>5, <2>3 DEF Begins
    <2>5. Shared'
      <3>1. Typed'
        BY <1>2, <1>4, <2>3 DEF Shared, Typed, HoldsTyped, Steady
      <3> QED BY <1>2, <1>3, <1>4, <2>3, <2>4, <3>1, SharedBegins
    <2>6. \A l : Fits(l) => Fits(l)'
      BY <1>4, <2>4, FitsBegin
    <2>7. OneOwner'
      <3>1. ~Owns(Idle)' /\ session.lastSeq <= session'.lastSeq
        BY <2>1, <2>3 DEF Owns, Idle, NoSession
      <3> QED BY <1>1, <1>4, <2>2, <2>3, <3>1, OwnerNext
    <2>8. \A k \in HoldKeys : env.crashes = 0 /\ Made(k) /\ Ahead(k)' => ~Brings(old, k)
      BY <1>2, <1>4, <2>3 DEF Ahead, Brings
    <2>9. ActiveCallIsBacked'
      <3>1. env.crashes = 0 => Open(First)
        BY <1>3, <1>4, <1>5 DEF Inv, Calm, Ahead
      <3> QED BY <1>2, <2>3, <3>1 DEF ActiveCallIsBacked, Open
    <2>10. /\ session.lastSeq <= session'.lastSeq /\ Idle.pc = "idle"
           /\ (session.gen # 0 => session'.gen # 0)
      BY <2>1, <2>3 DEF NoSession, Idle
    <2>11. PICK local : local = Idle
      OBVIOUS
    <2> QED BY <1>1, <1>2, <2>2, <2>5, <2>6, <2>7, <2>8, <2>9, <2>10, <2>11, IdleFitsNext, TurnKeeps
  <1>6. CASE session.gen # 0
    <2>1. session.gen = 1 /\ session.status # "NONE"
      BY <1>1, <1>6, Known
    <2>2. /\ UNCHANGED <<session, account, holds, charges, env>>
          /\ Goto(p, IF session.active = First THEN Idle ELSE [old EXCEPT !.pc = "drop-admission"])
      BY <1>2, <1>3, <2>1 DEF First
    <2>3. PICK local : local = IF session.active = First THEN Idle
                               ELSE [old EXCEPT !.pc = "drop-admission"]
      OBVIOUS
    <2>4. \/ local = Idle
          \/ session.active # First /\ local \in Admitters /\ local.pc = "drop-admission"
      BY <1>3, <2>3 DEF Admitters
    <2>5. Fits(local)
      <3>1. ASSUME session.active # First, local \in Admitters, local.pc = "drop-admission"
            PROVE  Fits(local)
        BY <2>1, <3>1 DEF Fits, Locals, Admitting, Canceling, Reporting, Claimed, Charging,
                          Completion, Advancing, Keeping, Expiring
      <3> QED BY <2>4, <3>1, IdleFits
    <2>6. local.pc \in {"idle", "drop-admission"}
      BY <2>4 DEF Idle
    <2>7. Quiet(p, old, local)
      <3>1. \A k \in HoldKeys : ~(Ahead(k) /\ Brings(old, k))
        BY <1>2, <1>4, <2>1 DEF Ahead, Brings
      <3>2. \A k : ~Gives(local, k) /\ ~Keeps(local, k) /\ ~Ends(old, k)
        BY <1>2, <2>6 DEF Gives, Keeps, Ends
      <3>3. ~Owns(local)
        BY <2>6 DEF Owns
      <3> QED BY <2>2, <2>3, <2>5, <3>1, <3>2, <3>3 DEF Quiet
    <2> QED BY <1>1, <2>7, QuietKeeps
  <1> QED BY <1>5, <1>6

LEMMA PersistDeniedKeeps ==
    ASSUME Inv, NEW n \in Reports, PersistDeniedProviderSession(n)
    PROVE  Inv'
  <1>1. /\ session.status = "NONE" /\ holds[First].status = "NONE"
        /\ session' = [NoSession EXCEPT !.status = "RECONCILING", !.gen = 1, !.lastSeq = n]
        /\ UNCHANGED <<account, holds, charges, proc, env>>
    BY DEF PersistDeniedProviderSession, First
  <1>2. First \in HoldKeys /\ Report(First) = 0 /\ First # None /\ Steady /\ Carries /\ AllFit
        /\ OneOwner /\ Apart /\ Shared /\ session \in Sessions /\ (env.crashes = 0 => Calm)
    BY Keys DEF Inv, Shared, Typed
  <1>3. session = NoSession /\ session.gen = 0
    BY <1>1, <1>2 DEF Carries
  <1>4. /\ session'.status = "RECONCILING" /\ session'.gen = 1 /\ session'.active = None
        /\ session'.lastSeq = n /\ session'.quiet = FALSE /\ session'.cum = 0
        /\ session'.total = 0 /\ session'.debt = 0 /\ session' \in Sessions
    <2>1. session' = [status |-> "RECONCILING", gen |-> 1, active |-> None, lastSeq |-> n,
                      claim |-> 0, aged |-> FALSE, quiet |-> FALSE, cum |-> 0,
                      total |-> 0, debt |-> 0, tail |-> 0]
      BY <1>1 DEF NoSession
    <2>2. 0 \in 0..LastReport /\ 1 \in 0..Generations /\ n \in 0..LastReport
      BY <1>2, BoundsAreNumbers DEF Steady, Reports
    <2> QED BY <2>1, <2>2 DEF Sessions
  <1>5. Begins
    BY <1>1, <1>2, <1>3, <1>4 DEF Begins
  <1>6. Shared'
    <2>1. Typed'
      BY <1>1, <1>2, <1>4 DEF Shared, Typed, HoldsTyped, Steady
    <2> QED BY <1>1, <1>2, <1>4, <1>5, <2>1, SharedBegins
  <1>7. AllFit'
    <2>1. \A q \in Processes : Fits(proc[q])'
      <3>1. ASSUME NEW q \in Processes PROVE Fits(proc[q])'
        <4>1. PICK l : l = proc[q]
          OBVIOUS
        <4>2. Fits(l)
          BY <1>2, <4>1 DEF AllFit
        <4>3. Fits(l)'
          BY <1>2, <1>5, <4>2, FitsBegin
        <4> QED BY <1>1, <4>1, <4>3
      <3> QED BY <3>1
    <2> QED BY <1>1, <1>2, <2>1 DEF AllFit
  <1>8. OneOwner'
    <2>1. ASSUME NEW q \in Processes, NEW l, l = proc[q], Owns(l)' PROVE Owns(l)
      <3>1. Fits(l) /\ l \in Locals
        BY <1>2, <2>1 DEF AllFit, Fits
      <3>2. l.pc \in {"reserve-next", "complete"} => l.n \in Nat /\ l.n > 0
        BY <3>1, Kinds DEF Completers, Reports
      <3> QED BY <1>3, <2>1, <3>2 DEF Owns, NoSession
    <2>2. \A q \in Processes : Owns(proc[q])' => Owns(proc[q])
      BY <1>1, <2>1
    <2> QED BY <1>2, <2>2 DEF OneOwner
  <1>9. Apart'
    BY <1>1, <1>2 DEF Apart, Gives, Keeps, Open
  <1>10. env'.crashes = 0 => Calm'
    <2>1. \A k \in HoldKeys : Ahead(k)' => Ahead(k)
      BY <1>2, <1>3, <1>4, Keys DEF Ahead, NoSession, Reports
    <2> QED BY <1>1, <1>2, <2>1 DEF Calm, Made, Open, Brings, Gives
  <1>11. ActiveCallIsBacked'
    BY <1>4 DEF ActiveCallIsBacked
  <1> QED BY <1>6, <1>7, <1>8, <1>9, <1>10, <1>11 DEF Inv

\* The session lets go of a closed hold, and the process is done.
LEMMA DropKeeps ==
    ASSUME Inv, NEW p \in Processes, NEW old, old = proc[p], Goto(p, Idle), UNCHANGED env,
           old.pc \notin {"admit", "complete"}, NEW k, Drops(k), Shared'
    PROVE  Inv'
  <1>1. PICK local : local = Idle
    OBVIOUS
  <1>2. /\ Steady /\ AllFit /\ OneOwner /\ session \in Sessions /\ session' \in Sessions /\ Carries'
        /\ UNCHANGED holds /\ UNCHANGED charges /\ session'.active = None
        /\ session'.gen = session.gen /\ session'.lastSeq = session.lastSeq
    BY DEF Inv, Shared, Typed, Drops
  <1>3. \A l : Fits(l) => Fits(l)'
    BY <1>2, FitsDrop
  <1>4. local.pc = "idle" /\ ~Owns(local)' /\ session.lastSeq <= session'.lastSeq
    BY <1>1, <1>2 DEF Owns, Idle, Sessions
  <1>5. OneOwner'
    BY <1>1, <1>2, <1>4, OwnerNext
  <1>6. \A j : ~Brings(old, j)
    BY DEF Brings
  <1>7. ActiveCallIsBacked'
    BY <1>2 DEF Carries, ActiveCallIsBacked
  <1>8. UNCHANGED <<holds, charges, env>> /\ Goto(p, local) /\ local.pc \in {"idle", "recovered", "charge-from"}
    BY <1>1, <1>2, <1>4
  <1>9. Fits(local)' /\ \A l : Fits(l) /\ (\E q \in Processes \ {p} : l = proc[q]) => Fits(l)'
    BY <1>1, <1>3, IdleFitsNext
  <1>10. Shared' /\ (session.gen # 0 => session'.gen # 0)
    BY <1>2
  <1>11. \A j \in HoldKeys : env.crashes = 0 /\ Made(j) /\ Ahead(j)' => ~Brings(old, j)
    BY <1>6
  <1> QED BY <1>4, <1>5, <1>7, <1>8, <1>9, <1>10, <1>11, TurnKeeps

\* A process that has nothing left to do, for its hold is no longer carried.
LEMMA LetGoKeeps ==
    ASSUME Inv, NEW p \in Processes, NEW old, old = proc[p], Goto(p, Idle),
           UNCHANGED <<session, account, holds, charges, env>>,
           old.pc \in {"end-canceled", "end-expired", "end-silent", "apply-tail"},
           session.active # None => session.active # old.hold
    PROVE  Inv'
  <1>1. PICK local : local = Idle
    OBVIOUS
  <1>2. \A j : ~Gives(local, j) /\ ~Keeps(local, j) /\ ~Brings(old, j) /\ ~Owns(local)
    BY <1>1 DEF Gives, Keeps, Brings, Owns, Idle
  <1>3. \A j \in HoldKeys : session.active = j => ~Ends(old, j)
    BY <1>1, Known DEF Ends
  <1>4. Quiet(p, old, local)
    BY <1>1, <1>2, <1>3, IdleFits DEF Quiet
  <1> QED BY <1>4, QuietKeeps

LEMMA EndCanceledKeeps ==
    ASSUME Inv, NEW p \in Processes, EndCanceled(p)
    PROVE  Inv'
  <1>1. PICK old : old = proc[p]
    OBVIOUS
  <1>2. /\ old.pc = "end-canceled" /\ Goto(p, Idle) /\ UNCHANGED <<account, holds, charges, env>>
        /\ session.active = old.hold =>
              session' = [session EXCEPT !.status = "ENDED", !.active = None]
        /\ session.active # old.hold => UNCHANGED session
    BY <1>1 DEF EndCanceled, At
  <1>3. /\ old.hold \in HoldKeys /\ old.hold # None
        /\ holds[old.hold].status = "RELEASED"
    BY <1>1, <1>2, Known, Kinds DEF Fits, Canceling, Cancelers
  <1>4. CASE session.active # old.hold
    BY <1>1, <1>2, <1>4, LetGoKeeps
  <1>5. CASE session.active = old.hold
    <2>1. session \in Sessions /\ Shared /\ session.gen = 1
      BY <1>1, <1>3, <1>5, Known DEF Inv
    <2>2. session' \in Sessions /\ session'.active = None /\ session'.status = "ENDED"
          /\ session'.gen = session.gen /\ session'.lastSeq = session.lastSeq
          /\ session'.claim = session.claim /\ session'.aged = session.aged
          /\ session'.cum = session.cum /\ session'.debt = session.debt
          /\ session'.total = session.total
      BY <1>2, <1>5, <2>1 DEF Sessions
    <2>3. Drops(old.hold)
      BY <1>2, <1>3, <1>5, <2>2 DEF Drops, Terminal
    <2>4. Rewrites
      <3>1. \A row \in charges : row.hold # old.hold
        BY <1>3, <2>1 DEF Shared, Rows
      <3> QED BY <1>2, <1>5, <2>1, <2>2, <3>1 DEF Rewrites
    <2>5. Shared'
      <3>1. Typed'
        BY <1>2, <2>1, <2>2 DEF Shared, Typed, HoldsTyped, Steady
      <3> QED BY <2>1, <2>4, <3>1, SharedRewrites
    <2>6. PICK k : k = old.hold
      OBVIOUS
    <2>7. UNCHANGED env /\ old.pc \notin {"admit", "complete"}
      BY <1>2
    <2> QED BY <1>1, <1>2, <2>3, <2>5, <2>6, <2>7, DropKeeps
  <1> QED BY <1>4, <1>5

LEMMA EndExpiredKeeps ==
    ASSUME Inv, NEW p \in Processes, EndExpired(p)
    PROVE  Inv'
  <1>1. PICK old : old = proc[p]
    OBVIOUS
  <1>2. /\ old.pc = "end-expired" /\ Goto(p, Idle) /\ UNCHANGED <<account, holds, charges, env>>
        /\ session.status = "ACTIVE" /\ session.active = old.hold =>
              session' = [session EXCEPT !.status = "ENDED", !.active = None]
        /\ ~(session.status = "ACTIVE" /\ session.active = old.hold) => UNCHANGED session
    BY <1>1 DEF EndExpired, At
  <1>3. /\ old.hold \in HoldKeys /\ old.hold # None /\ Terminal(old.hold)
        /\ \A row \in charges : row.hold = old.hold => row.checkpoint # None
    BY <1>1, <1>2, Known, Kinds DEF Fits, Expiring, Expirers
  <1>4. CASE session.active # old.hold
    BY <1>1, <1>2, <1>4, LetGoKeeps
  <1>5. CASE session.active = old.hold
    <2>1. session \in Sessions /\ Shared /\ session.gen = 1 /\ session.status = "ACTIVE"
      BY <1>1, <1>3, <1>5, Known DEF Inv
    <2>2. session' \in Sessions /\ session'.active = None /\ session'.status = "ENDED"
          /\ session'.gen = session.gen /\ session'.lastSeq = session.lastSeq
          /\ session'.claim = session.claim /\ session'.aged = session.aged
          /\ session'.cum = session.cum /\ session'.debt = session.debt
          /\ session'.total = session.total
      BY <1>2, <1>5, <2>1 DEF Sessions
    <2>3. Drops(old.hold)
      BY <1>2, <1>3, <1>5, <2>2 DEF Drops, Terminal
    <2>4. Rewrites
      BY <1>2, <1>3, <1>5, <2>1, <2>2 DEF Rewrites
    <2>5. Shared'
      <3>1. Typed'
        BY <1>2, <2>1, <2>2 DEF Shared, Typed, HoldsTyped, Steady
      <3> QED BY <2>1, <2>4, <3>1, SharedRewrites
    <2>6. PICK k : k = old.hold
      OBVIOUS
    <2>7. UNCHANGED env /\ old.pc \notin {"admit", "complete"}
      BY <1>2
    <2> QED BY <1>1, <1>2, <2>3, <2>5, <2>6, <2>7, DropKeeps
  <1> QED BY <1>4, <1>5

\* The session is told that the hold it carries has been kept whole.
LEMMA TellKeeps ==
    ASSUME Inv, NEW p \in Processes, NEW old, old = proc[p], Goto(p, Idle),
           old.pc \notin {"admit", "complete"}, NEW k, Tells(k)
    PROVE  Inv'
  <1>1. Shared' /\ Drops(k)
    BY SharedTells DEF Inv
  <1>2. UNCHANGED env
    BY DEF Tells
  <1> QED BY <1>1, <1>2, DropKeeps

LEMMA ProjectTailTells ==
    ASSUME Inv, NEW k \in HoldKeys, session.active = k, session.status \in {"ACTIVE", "DEBT"},
           ProjectTail(k), \E row \in charges : row.checkpoint = None /\ row.hold = k,
           UNCHANGED <<account, holds, charges, env>>
    PROVE  Tells(k)
  <1>1. PICK status : status = IF HasProvider THEN "RECONCILING" ELSE "SETTLED"
    OBVIOUS
  <1>2. session' = [session EXCEPT !.status = status, !.active = None,
                                   !.total = @ + HoldMicros, !.tail = @ + HoldMicros]
    BY <1>1 DEF ProjectTail
  <1>3. session \in Sessions /\ status \in {"RECONCILING", "SETTLED"}
    BY <1>1 DEF Inv, Shared, Typed
  <1>4. session'.status = status /\ session'.tail = session.tail + HoldMicros
        /\ session'.tail \in Nat
    BY <1>2, <1>3, BoundsAreNumbers DEF Sessions
  <1>5. session' = [session EXCEPT !.status = session'.status, !.active = None,
                                  !.total = session.total + HoldMicros, !.tail = session'.tail]
    BY <1>2, <1>4
  <1> QED BY <1>3, <1>4, <1>5 DEF Tells

LEMMA ApplyTailKeeps ==
    ASSUME Inv, NEW p \in Processes, ApplyTail(p)
    PROVE  Inv'
  <1>1. PICK old : old = proc[p]
    OBVIOUS
  <1>2. /\ old.pc = "apply-tail" /\ Goto(p, Idle) /\ UNCHANGED <<account, holds, charges, env>>
        /\ ProjectTail(old.hold)
    BY <1>1 DEF ApplyTail, At
  <1>3. /\ old.hold \in HoldKeys /\ old.hold # None
        /\ \E row \in charges : row.checkpoint = None /\ row.hold = old.hold
    BY <1>1, <1>2, Known, Kinds DEF Fits, Keeping, Expirers
  <1>4. CASE session.active # old.hold
    <2>1. UNCHANGED session
      BY <1>2, <1>4 DEF ProjectTail
    <2> QED BY <1>1, <1>2, <1>4, <2>1, LetGoKeeps
  <1>5. CASE session.active = old.hold
    <2>1. session.status \in {"ACTIVE", "DEBT"}
      BY <1>1, <1>3, <1>5, Known
    <2>2. PICK k : k = old.hold
      OBVIOUS
    <2>3. Tells(k)
      BY <1>2, <1>3, <1>5, <2>1, <2>2, ProjectTailTells
    <2> QED BY <1>1, <1>2, <2>3, TellKeeps
  <1> QED BY <1>4, <1>5

LEMMA RepairSettledTailKeeps ==
    ASSUME Inv, NEW p \in Processes, RepairSettledTail(p)
    PROVE  Inv'
  <1>1. PICK old : old = proc[p]
    OBVIOUS
  <1>2. /\ old.pc = "idle" /\ UNCHANGED <<account, holds, charges, proc, env>>
        /\ session.status \in {"ACTIVE", "DEBT"} /\ ProjectTail(session.active)
        /\ \E row \in charges : row.tail /\ row.hold = session.active
    BY <1>1 DEF RepairSettledTail, At
  <1>3. Shared /\ AllFit /\ session \in Sessions
    BY DEF Inv, Shared, Typed
  <1>4. PICK row \in charges : row.tail /\ row.hold = session.active
    BY <1>2
  <1>5. row.checkpoint = None /\ row.hold # None /\ row.hold \in HoldKeys
    BY <1>3, <1>4, RowKinds DEF Shared, Rows, UsageRow, KeptRow
  <1>6. Goto(p, Idle)
    <2>1. old = Idle
      BY <1>1, <1>2, Known, Kinds
    <2> QED BY <1>1, <1>2, <1>3, <2>1 DEF Goto, AllFit
  <1>7. PICK k : k = session.active
    OBVIOUS
  <1>8. Tells(k)
    BY <1>2, <1>4, <1>5, <1>7, ProjectTailTells
  <1> QED BY <1>1, <1>2, <1>6, <1>8, TellKeeps

LEMMA EndSilentKeeps ==
    ASSUME Inv, NEW p \in Processes, EndSilent(p)
    PROVE  Inv'
  <1>1. PICK old : old = proc[p]
    OBVIOUS
  <1>2. PICK more : more = IF old.reported THEN HoldMicros ELSE 0
    OBVIOUS
  <1>3. /\ old.pc = "end-silent" /\ Goto(p, Idle) /\ UNCHANGED <<account, holds, charges, env>>
        /\ session.status = "ACTIVE" /\ session.active = old.hold =>
              session' = [session EXCEPT !.status = "RECONCILING", !.active = None,
                                         !.total = @ + HoldMicros, !.tail = @ + more]
        /\ ~(session.status = "ACTIVE" /\ session.active = old.hold) => UNCHANGED session
    BY <1>1, <1>2 DEF EndSilent, At
  <1>4. /\ old.hold \in HoldKeys /\ old.hold # None
        /\ \E row \in charges : row.checkpoint = None /\ row.hold = old.hold
    BY <1>1, <1>3, Known, Kinds DEF Fits, Keeping, Silencers
  <1>5. CASE session.active # old.hold
    BY <1>1, <1>3, <1>5, LetGoKeeps
  <1>6. CASE session.active = old.hold
    <2>1. session \in Sessions /\ session.status = "ACTIVE"
      BY <1>1, <1>4, <1>6, Known DEF Inv
    <2>2. session' = [session EXCEPT !.status = "RECONCILING", !.active = None,
                                     !.total = @ + HoldMicros, !.tail = @ + more]
      BY <1>3, <1>6, <2>1
    <2>3. more \in Nat
      BY <1>2, BoundsAreNumbers
    <2>4. session'.status = "RECONCILING" /\ session'.tail = session.tail + more
          /\ session'.tail \in Nat
      BY <2>1, <2>2, <2>3 DEF Sessions
    <2>5. session' = [session EXCEPT !.status = session'.status, !.active = None,
                                  !.total = session.total + HoldMicros, !.tail = session'.tail]
      BY <2>2, <2>4
    <2>6. PICK k : k = old.hold
      OBVIOUS
    <2>7. Tells(k)
      BY <1>3, <1>4, <1>6, <2>4, <2>5, <2>6 DEF Tells
    <2> QED BY <1>1, <1>3, <2>6, <2>7, TellKeeps
  <1> QED BY <1>5, <1>6

\* A claim is taken or given back by the only process that may own it.
LEMMA ReclaimKeeps ==
    ASSUME Inv, NEW p \in Processes, NEW old, old = proc[p], NEW local, Goto(p, local),
           Reclaims, UNCHANGED <<account, env>>, session' \in Sessions, session.gen # 0,
           session'.status = session.status, Fits(local)',
           \A q \in Processes \ {p} : ~Owns(proc[q]),
           old.pc \in {"claim", "unclaim"}, local.pc \in {"charge-from", "idle"}
    PROVE  Inv'
  <1>1. /\ Shared /\ Steady /\ AllFit /\ OneOwner /\ session \in Sessions /\ ActiveCallIsBacked
        /\ Pendings = {} /\ UNCHANGED holds /\ UNCHANGED charges
        /\ session'.active = session.active /\ session'.gen = session.gen
        /\ session'.lastSeq = session.lastSeq /\ session'.cum = session.cum
        /\ session'.total = session.total /\ session'.debt = session.debt
    BY DEF Inv, Shared, Typed, Reclaims
  <1>2. Shared'
    <2>1. Typed'
      BY <1>1 DEF Shared, Typed, HoldsTyped, Steady
    <2>2. Rewrites
      BY <1>1 DEF Rewrites
    <2> QED BY <1>1, <2>1, <2>2, SharedRewrites
  <1>3. \A l : Fits(l) /\ (\E q \in Processes \ {p} : l = proc[q]) => Fits(l)'
    BY FitsReclaim
  <1>4. OneOwner'
    <2>1. \A q \in Processes \ {p} : proc'[q] = proc[q]
      BY <1>1, Moved
    <2>2. \A q \in Processes \ {p} : ~Owns(proc[q])'
      BY <1>1, <2>1 DEF Owns
    <2> QED BY <2>2 DEF OneOwner
  <1>5. \A j : ~Brings(old, j) /\ ~Ends(old, j)
    BY DEF Brings, Ends
  <1>6. ActiveCallIsBacked'
    <2>1. PICK k : k = session.active
      OBVIOUS
    <2>2. (Open(k) => Open(k)') /\ charges \subseteq charges'
      BY <1>1 DEF Open
    <2> QED BY <1>1, <1>5, <2>1, <2>2, BackedNext
  <1>7. session.lastSeq <= session'.lastSeq /\ (session.gen # 0 => session'.gen # 0)
    BY <1>1 DEF Sessions
  <1>8. UNCHANGED <<holds, charges, env>> /\ local.pc \in {"idle", "recovered", "charge-from"}
    BY <1>1
  <1>9. \A j \in HoldKeys : env.crashes = 0 /\ Made(j) /\ Ahead(j)' => ~Brings(old, j)
    BY <1>5
  <1> QED BY <1>2, <1>3, <1>4, <1>6, <1>7, <1>8, <1>9, TurnKeeps

LEMMA ClaimSnapshotKeeps ==
    ASSUME Inv, NEW p \in Processes, ClaimSnapshot(p)
    PROVE  Inv'
  <1>1. PICK old : old = proc[p]
    OBVIOUS
  <1>2. PICK local : local = [old EXCEPT !.pc = "charge-from"]
    OBVIOUS
  <1>3. PICK quiet : quiet = (session.quiet /\ session.lastSeq = 0)
    OBVIOUS
  <1>4. /\ old.pc = "claim" /\ Goto(p, local) /\ UNCHANGED <<account, holds, charges, env>>
        /\ session.lastSeq < old.n /\ (session.claim = 0 \/ session.aged)
        /\ session' = [session EXCEPT !.claim = old.n, !.aged = FALSE, !.quiet = quiet]
    BY <1>1, <1>2, <1>3 DEF ClaimSnapshot, At
  <1>5. /\ session \in Sessions /\ old \in Claimants /\ session.gen = 1
        /\ (Pendings # {} => ~session.aged) /\ AllFit /\ Shared
    BY <1>1, <1>4, Known, Kinds DEF Fits, Reporting, Inv
  <1>6. local \in Claimants /\ local.pc = "charge-from" /\ local.n = old.n /\ old.n \in Reports
    BY <1>2, <1>5 DEF Claimants
  <1>7. Pendings = {}
    <2>1. ASSUME session.claim = 0, NEW x \in Pendings PROVE FALSE
      <3>1. x \in charges /\ x.checkpoint # None /\ session.claim = x.checkpoint.n
        BY <1>5, <2>1 DEF Shared, OnePending, Pendings, PendingRows
      <3>2. x.checkpoint \in Checkpoints
        BY <1>5, <3>1, RowKinds DEF Shared
      <3> QED BY <2>1, <3>1, <3>2 DEF Checkpoints, Reports
    <2> QED BY <1>4, <1>5, <2>1
  <1>8. ASSUME NEW q \in Processes, NEW l, l = proc[q], Owns(l)
        PROVE  FALSE
    <2>1. Fits(l) /\ l \in Locals
      BY <1>5, <1>8 DEF AllFit, Fits
    <2>2. session.claim = l.n /\ ~session.aged
      BY <1>8, <2>1 DEF Owns, Fits, Claimed, Completion
    <2>3. l.n \in Reports
      BY <1>8, <2>1, Kinds DEF Owns, Claimants, Chargers, Completers
    <2> QED BY <1>4, <2>2, <2>3 DEF Reports
  <1>9. /\ quiet \in BOOLEAN /\ old.n \in 0..LastReport /\ (quiet => session.quiet)
    BY <1>3, <1>5, <1>6 DEF Reports, Sessions
  <1>10. /\ session' \in Sessions /\ session'.claim = old.n /\ ~session'.aged
         /\ session'.quiet = quiet /\ session'.status = session.status
         /\ session'.active = session.active /\ session'.gen = session.gen
         /\ session'.lastSeq = session.lastSeq /\ session'.cum = session.cum
         /\ session'.total = session.total /\ session'.debt = session.debt
    BY <1>4, <1>5, <1>9 DEF Sessions
  <1>11. Reclaims
    BY <1>4, <1>7, <1>9, <1>10 DEF Reclaims
  <1>12. Fits(local)'
    <2>1. Pendings' = {}
      BY <1>4, <1>7, <1>10 DEF Pendings, PendingRows
    <2>2. Claimed(local)'
      BY <1>4, <1>6, <1>10, <2>1 DEF Claimed
    <2> QED BY <1>6, <2>2 DEF Fits, Locals, Admitting, Canceling, Reporting, Charging, Completion,
                            Advancing, Keeping, Expiring
  <1>13. \A q \in Processes \ {p} : ~Owns(proc[q])
    BY <1>8
  <1> QED BY <1>1, <1>4, <1>5, <1>6, <1>10, <1>11, <1>12, <1>13, ReclaimKeeps

LEMMA UnclaimKeeps ==
    ASSUME Inv, NEW p \in Processes, Unclaim(p)
    PROVE  Inv'
  <1>1. PICK old : old = proc[p]
    OBVIOUS
  <1>2. PICK local : local = Idle
    OBVIOUS
  <1>3. PICK quiet : quiet = (session.quiet /\ session.lastSeq = 0)
    OBVIOUS
  <1>4. /\ old.pc = "unclaim" /\ Goto(p, local) /\ UNCHANGED <<account, holds, charges, env>>
        /\ session.claim = old.n =>
              session' = [session EXCEPT !.claim = 0, !.aged = FALSE, !.quiet = quiet]
    BY <1>1, <1>2, <1>3 DEF Unclaim, At
  <1>5. /\ session \in Sessions /\ session.claim = old.n /\ Pendings = {} /\ old.n \in Reports
        /\ session.lastSeq < old.n
    BY <1>1, <1>4, Known, Kinds DEF Fits, Claimed, Claimants
  <1>6. /\ session.gen # 0
    <2>1. session.gen = 0 => session.claim = 0
      BY <1>1, Known DEF NoSession
    <2> QED BY <1>5, <2>1 DEF Reports
  <1>7. quiet \in BOOLEAN /\ 0 \in 0..LastReport /\ (quiet => session.quiet)
    BY <1>3, <1>5, BoundsAreNumbers DEF Sessions
  <1>8. /\ session' \in Sessions /\ ~session'.aged
        /\ session'.quiet = quiet /\ session'.status = session.status
        /\ session'.active = session.active /\ session'.gen = session.gen
        /\ session'.lastSeq = session.lastSeq /\ session'.cum = session.cum
        /\ session'.total = session.total /\ session'.debt = session.debt
    BY <1>4, <1>5, <1>7 DEF Sessions
  <1>9. Reclaims
    BY <1>4, <1>5, <1>7, <1>8 DEF Reclaims
  <1>10. \A q \in Processes \ {p} : ~Owns(proc[q])
    <2>1. Owns(proc[p])
      BY <1>1, <1>4 DEF Owns
    <2> QED BY <2>1 DEF Inv, OneOwner
  <1>11. Fits(local)' /\ local.pc = "idle"
    BY <1>2, IdleFitsNext DEF Idle
  <1> QED BY <1>1, <1>4, <1>6, <1>8, <1>9, <1>10, <1>11, ReclaimKeeps

\* A completion never falls short: what it is told of is still the only thing
\* the session waits for.
LEMMA CompletionWins ==
    ASSUME Inv, NEW p \in Processes, NEW old, old = proc[p], old.pc = "complete",
           session.lastSeq < old.checkpoint.n
    PROVE  /\ session.claim = old.checkpoint.n /\ session.gen = 1
           /\ \A x \in Pendings : x.checkpoint.n = old.checkpoint.n
           /\ session.active # None => Terminal(session.active)
           /\ Told1(old.checkpoint, old.debt)
           /\ Pendings = {} => Owns(old)
  <1>1. /\ old \in Completers /\ Completion(old) /\ session \in Sessions /\ Shared
        /\ None \notin Checkpoints
    BY Known, Kinds DEF Fits, Inv
  <1>2. /\ old.checkpoint \in Checkpoints /\ old.mode \in {"claimed", "recovering"}
        /\ old.checkpoint.n \in Nat /\ session.lastSeq \in Nat
    BY <1>1 DEF Completers, Checkpoints, Reports, Sessions
  <1>3. session.gen = 1 /\ (Posted(old) \/ (Nothing(old) /\ old.mode = "claimed"))
    BY <1>1, <1>2 DEF Completion
  <1>4. CASE Posted(old)
    <2>1. PICK row \in charges : row.checkpoint = old.checkpoint /\ row.debt = old.debt
      BY <1>4 DEF Posted
    <2>2. row \in Pendings /\ \A x \in Pendings : x = row
      BY <1>1, <1>2, <2>1 DEF Pendings, PendingRows, Shared, OnePending
    <2>3. session.claim = old.checkpoint.n /\ session.active \in {row.hold, None}
      BY <1>1, <2>1, <2>2 DEF Shared, OnePending
    <2>4. row.hold # None => Terminal(row.hold)
      BY <1>1, <2>1 DEF Shared, Rows, Terminal
    <2> QED BY <1>3, <2>1, <2>2, <2>3, <2>4 DEF Told1
  <1>5. CASE Nothing(old) /\ old.mode = "claimed"
    <2>1. old.checkpoint.n = old.n /\ session.claim = old.n
      BY <1>1, <1>5 DEF Completion
    <2> QED BY <1>3, <1>5, <2>1 DEF Nothing, Told1, Owns
  <1> QED BY <1>3, <1>4, <1>5

\* What a step of completion does to the session and to the process.
LEMMA CompletionSteps ==
    ASSUME Inv, NEW p \in Processes, NEW old, old = proc[p], CompleteCheckpoint(p)
    PROVE  /\ old.pc = "complete" /\ UNCHANGED <<account, holds, charges, env>>
           /\ ~(session.lastSeq < old.checkpoint.n) => UNCHANGED session
           /\ session.lastSeq < old.checkpoint.n =>
                 session' = [session EXCEPT
                                !.status = CompletedStatus(old), !.lastSeq = old.checkpoint.n,
                                !.claim = 0, !.aged = FALSE, !.quiet = FALSE,
                                !.cum = old.checkpoint.cum, !.total = old.checkpoint.target,
                                !.debt = old.checkpoint.priorDebt + old.debt,
                                !.active = old.next]
           /\ old.mode = "claimed" => Goto(p, Idle)
           /\ old.mode = "recovering" => Goto(p, [pc |-> "recovered", n |-> old.n])
  <1>1. old.pc = "complete" /\ UNCHANGED <<account, holds, charges, env>>
    BY DEF CompleteCheckpoint, At
  <1>2. session.lastSeq < old.checkpoint.n => session.claim \in {0, old.checkpoint.n}
    BY <1>1, CompletionWins
  <1>3. /\ ~(session.lastSeq < old.checkpoint.n) => UNCHANGED session
        /\ session.lastSeq < old.checkpoint.n =>
                 session' = [session EXCEPT
                                !.status = CompletedStatus(old), !.lastSeq = old.checkpoint.n,
                                !.claim = 0, !.aged = FALSE, !.quiet = FALSE,
                                !.cum = old.checkpoint.cum, !.total = old.checkpoint.target,
                                !.debt = old.checkpoint.priorDebt + old.debt,
                                !.active = old.next]
    BY <1>2, Zenon DEF CompleteCheckpoint
  <1>4. PICK fails \in BOOLEAN :
          /\ fails = (~(session.lastSeq < old.checkpoint.n
                        /\ (session.claim \in {0, old.checkpoint.n} \/ session.aged))
                      /\ session.lastSeq < old.checkpoint.n)
    OBVIOUS
  <1>5. Goto(p, CASE old.mode = "claimed" /\ fails -> [pc |-> "unclaim", n |-> old.n]
                  [] old.mode = "recovering" /\ ~fails -> [pc |-> "recovered", n |-> old.n]
                  [] OTHER -> Idle)
    BY <1>4, Zenon DEF CompleteCheckpoint
  <1>6. ~fails
    BY <1>2, <1>4
  <1> QED BY <1>1, <1>3, <1>5, <1>6, Zenon

\* The session is there already.
LEMMA CompletedAlreadyKeeps ==
    ASSUME Inv, NEW p \in Processes, NEW old, old = proc[p], CompleteCheckpoint(p),
           ~(session.lastSeq < old.checkpoint.n)
    PROVE  Inv'
  <1>1. PICK local : local = IF old.mode = "recovering" THEN [pc |-> "recovered", n |-> old.n]
                             ELSE Idle
    OBVIOUS
  <1>2. /\ old.pc = "complete" /\ UNCHANGED <<session, account, holds, charges, env>>
        /\ old.mode = "claimed" => Goto(p, Idle)
        /\ old.mode = "recovering" => Goto(p, [pc |-> "recovered", n |-> old.n])
    BY CompletionSteps, Zenon
  <1>3. /\ old \in Completers /\ Completion(old) /\ Advancing(old) /\ session \in Sessions
        /\ old.mode \in {"claimed", "recovering"} /\ old.n \in Reports
        /\ old.checkpoint.n \in Nat /\ session.lastSeq \in Nat
    <2>1. old \in Completers /\ Completion(old) /\ Advancing(old) /\ session \in Sessions
      BY <1>2, Known, Kinds DEF Fits
    <2> QED BY <2>1 DEF Completers, Checkpoints, Reports, Sessions
  <1>4. Goto(p, local)
    BY <1>1, <1>2, <1>3
  <1>5. session.gen = 1
    BY <1>2, <1>3 DEF Completion
  <1>6. \/ local = Idle
        \/ old.mode = "recovering" /\ local = [pc |-> "recovered", n |-> old.n]
    BY <1>1
  <1>7. Fits(local)
    <2>1. ASSUME old.mode = "recovering", local = [pc |-> "recovered", n |-> old.n]
          PROVE  Fits(local)
      <3>1. local \in Claimants /\ local.pc = "recovered"
        BY <1>3, <2>1 DEF Claimants
      <3>2. Pendings # {} => ~session.aged
        BY <1>2, <1>3, <2>1 DEF Completion
      <3>3. Reporting(local)
        BY <1>5, <3>1, <3>2 DEF Reporting
      <3> QED BY <3>1, <3>3 DEF Fits, Locals, Admitting, Canceling, Claimed, Charging,
                                Completion, Advancing, Keeping, Expiring
    <2> QED BY <1>6, <2>1, IdleFits
  <1>8. local.pc \in {"idle", "recovered"}
    BY <1>6 DEF Idle
  <1>9. Quiet(p, old, local)
    <2>1. \A k \in HoldKeys : ~(Ahead(k) /\ Brings(old, k))
      <3>1. ASSUME NEW k \in HoldKeys, Brings(old, k) PROVE ~Ahead(k)
        <4>1. k = old.next /\ k # None
          BY <1>2, <3>1, Known DEF Brings
        <4>2. Report(k) = old.checkpoint.n
          BY <1>2, <1>3, <4>1 DEF Advancing
        <4> QED BY <1>3, <1>5, <4>2 DEF Ahead
      <3> QED BY <3>1
    <2>2. \A k : ~Gives(local, k) /\ ~Keeps(local, k) /\ ~Ends(old, k)
      BY <1>2, <1>8 DEF Gives, Keeps, Ends
    <2>3. ~Owns(local)
      BY <1>8 DEF Owns
    <2> QED BY <1>2, <1>4, <1>7, <2>1, <2>2, <2>3 DEF Quiet
  <1> QED BY <1>9, QuietKeeps

LEMMA CompleteCheckpointKeeps ==
    ASSUME Inv, NEW p \in Processes, CompleteCheckpoint(p)
    PROVE  Inv'
  <1>1. PICK old : old = proc[p]
    OBVIOUS
  <1>2. PICK c : c = old.checkpoint
    OBVIOUS
  <1>3. PICK next : next = old.next
    OBVIOUS
  <1> SUFFICES ASSUME session.lastSeq < c.n
               PROVE  Inv'
    BY <1>1, <1>2, CompletedAlreadyKeeps
  <1>4. PICK status : status = CompletedStatus(old)
    OBVIOUS
  <1>5. PICK debt : debt = c.priorDebt + old.debt
    OBVIOUS
  <1>6. PICK local : local = IF old.mode = "recovering" THEN [pc |-> "recovered", n |-> old.n]
                             ELSE Idle
    OBVIOUS
  <1>7. /\ old.pc = "complete" /\ UNCHANGED <<account, holds, charges, env>>
        /\ session' = [session EXCEPT !.status = status, !.lastSeq = c.n, !.claim = 0,
                          !.aged = FALSE, !.quiet = FALSE, !.cum = c.cum, !.total = c.target,
                          !.debt = debt, !.active = next]
        /\ old.mode = "claimed" => Goto(p, Idle)
        /\ old.mode = "recovering" => Goto(p, [pc |-> "recovered", n |-> old.n])
    <2>1. /\ old.pc = "complete" /\ UNCHANGED <<account, holds, charges, env>>
          /\ session.lastSeq < old.checkpoint.n =>
                 session' = [session EXCEPT
                                !.status = CompletedStatus(old), !.lastSeq = old.checkpoint.n,
                                !.claim = 0, !.aged = FALSE, !.quiet = FALSE,
                                !.cum = old.checkpoint.cum, !.total = old.checkpoint.target,
                                !.debt = old.checkpoint.priorDebt + old.debt,
                                !.active = old.next]
          /\ old.mode = "claimed" => Goto(p, Idle)
          /\ old.mode = "recovering" => Goto(p, [pc |-> "recovered", n |-> old.n])
      BY <1>1, CompletionSteps, Zenon
    <2> QED BY <1>2, <1>3, <1>4, <1>5, <2>1, Zenon
  <1>8. /\ Steady /\ AllFit /\ OneOwner /\ session \in Sessions /\ Shared
        /\ (env.crashes = 0 => Calm) /\ UNCHANGED holds /\ UNCHANGED charges /\ UNCHANGED env
    BY <1>7 DEF Inv, Shared, Typed
  <1>9. /\ old \in Completers /\ Advancing(old)
        /\ old.mode \in {"claimed", "recovering"} /\ old.n \in Reports
        /\ c \in Checkpoints /\ c.n \in Reports /\ c.cum \in Nat /\ c.target \in Nat
        /\ c.priorDebt \in Nat /\ old.debt \in Nat /\ debt \in Nat /\ next \in HoldKeys \cup {None}
    <2>1. old \in Completers /\ Advancing(old)
      BY <1>1, <1>7, Known, Kinds DEF Fits
    <2>2. old.mode \in {"claimed", "recovering"} /\ old.n \in Reports /\ c \in Checkpoints
          /\ old.debt \in Nat /\ next \in HoldKeys \cup {None}
      BY <1>2, <1>3, <2>1 DEF Completers
    <2>3. c.n \in Reports /\ c.cum \in Nat /\ c.target \in Nat /\ c.priorDebt \in Nat
      BY <2>2 DEF Checkpoints
    <2> QED BY <1>5, <2>1, <2>2, <2>3
  <1>10. /\ session.claim = c.n /\ session.gen = 1
         /\ \A x \in Pendings : x.checkpoint.n = c.n
         /\ session.active # None => Terminal(session.active)
         /\ Told1(c, old.debt) /\ (Pendings = {} => Owns(old))
    BY <1>1, <1>2, <1>7, CompletionWins
  <1>11. /\ next # None => /\ status = "ACTIVE" /\ Report(next) = c.n /\ Made(next)
                           /\ ~holds[next].late
         /\ next = None => status \in {"RECONCILING", "DEBT", "SETTLED"}
    <2>1. next # None => ~old.stop /\ ~Final(c) /\ Report(next) = c.n /\ Made(next)
                         /\ ~holds[next].late
      BY <1>2, <1>3, <1>7, <1>9 DEF Advancing
    <2>2. next = None => old.stop \/ Final(c)
      BY <1>2, <1>3, <1>7, <1>9 DEF Advancing
    <2> QED BY <1>2, <1>4, <2>1, <2>2 DEF CompletedStatus
  <1>12. 0 \in 0..LastReport /\ c.n \in 0..LastReport
    BY <1>9, BoundsAreNumbers DEF Reports
  <1>13. /\ session'.lastSeq = c.n /\ session'.gen = session.gen /\ session'.aged = FALSE
         /\ session'.quiet = FALSE /\ session'.active = next /\ session'.cum = c.cum
         /\ session'.total = c.target /\ session'.debt = debt /\ session'.status = status
    BY <1>7, <1>8 DEF Sessions
  <1>14. session' \in Sessions
    <2>1. session' = [status |-> status, gen |-> session.gen, active |-> next, lastSeq |-> c.n,
                      claim |-> 0, aged |-> FALSE, quiet |-> FALSE, cum |-> c.cum,
                      total |-> c.target, debt |-> debt, tail |-> session.tail]
      BY <1>7, <1>8 DEF Sessions
    <2>2. status \in {"NONE", "ACTIVE", "ENDED", "DEBT", "RECONCILING", "SETTLED"}
      BY <1>11
    <2> QED BY <1>8, <1>9, <1>12, <2>1, <2>2 DEF Sessions
  <1>15. Completes(c, next)
    BY <1>7, <1>8, <1>9, <1>10, <1>11, <1>13 DEF Completes
  <1>16. Shared'
    <2>1. Typed'
      BY <1>8, <1>14 DEF Shared, Typed, HoldsTyped, Steady
    <2>2. session'.status = "ACTIVE" <=> next # None
      BY <1>11, <1>13
    <2>3. session'.status # "NONE"
      BY <1>11, <1>13
    <2>4. PICK d : d = old.debt
      OBVIOUS
    <2>5. d \in Nat /\ Told1(c, d) /\ session'.debt = c.priorDebt + d
      BY <1>5, <1>9, <1>10, <1>13, <2>4
    <2> QED BY <1>7, <1>8, <1>9, <1>10, <1>13, <1>15, <2>1, <2>2, <2>3, <2>5, SharedCompletes
  <1>17. \A row \in charges : UsageRow(row) \/ KeptRow(row)
    BY <1>8 DEF Shared, Rows
  <1>18. ASSUME NEW l, Fits(l), \E q \in Processes \ {p} : l = proc[q]
         PROVE  Fits(l)'
    <2>1. PICK q \in Processes \ {p} : l = proc[q]
      BY <1>18
    <2>2. ASSUME Owns(l)
          PROVE  l.pc \in {"reserve-next", "complete"} /\ l.n = c.n
      <3>1. l.pc \notin {"charge-from", "charge", "unclaim"}
        <4>1. l.pc \in {"charge-from", "charge", "unclaim"} => Pendings = {}
          BY <1>18 DEF Fits, Claimed
        <4>2. Pendings # {}
          BY <1>1, <1>8, <1>10, <2>1, <2>2 DEF OneOwner
        <4> QED BY <4>1, <4>2
      <3>2. l.pc \in {"reserve-next", "complete"} /\ l.mode = "claimed" /\ session.lastSeq < l.n
        BY <2>2, <3>1 DEF Owns
      <3>3. session.claim = l.n
        BY <1>18, <3>2 DEF Fits, Completion
      <3> QED BY <1>10, <3>2, <3>3
    <2> QED BY <1>8, <1>15, <1>17, <1>18, <2>2, FitsComplete
  <1>19. Goto(p, local) /\ (local = Idle \/ local = [pc |-> "recovered", n |-> old.n])
    BY <1>6, <1>7, <1>9
  <1>20. local.pc \in {"idle", "recovered"}
    BY <1>19 DEF Idle
  <1>21. Fits(local)'
    <2>1. ASSUME local = [pc |-> "recovered", n |-> old.n]
          PROVE  Fits(local)'
      <3>1. local \in Claimants /\ local.pc = "recovered"
        BY <1>9, <2>1 DEF Claimants
      <3>2. Pendings' = {}
        BY <1>8, <1>15, <1>17, ToldAll
      <3>3. Reporting(local)'
        BY <1>10, <1>13, <3>1, <3>2 DEF Reporting
      <3> QED BY <3>1, <3>3 DEF Fits, Locals, Admitting, Canceling, Claimed, Charging,
                                Completion, Advancing, Keeping, Expiring
    <2> QED BY <1>19, <2>1, IdleFitsNext
  <1>22. session.lastSeq <= session'.lastSeq /\ (session.gen # 0 => session'.gen # 0)
    BY <1>8, <1>9, <1>10, <1>13 DEF Sessions, Reports
  <1>23. OneOwner'
    <2>1. ~Owns(local)'
      BY <1>20 DEF Owns
    <2> QED BY <1>1, <1>8, <1>14, <1>19, <1>22, <2>1, OwnerNext
  <1>24. \A k \in HoldKeys : env.crashes = 0 /\ Made(k) /\ Ahead(k)' => ~Brings(old, k)
    <2>1. ASSUME NEW k \in HoldKeys, Brings(old, k) PROVE ~Ahead(k)'
      <3>1. k = next /\ k # None
        BY <1>1, <1>3, <1>7, <2>1, Known DEF Brings
      <3> QED BY <1>9, <1>11, <1>13, <3>1 DEF Ahead, Reports
    <2> QED BY <2>1
  <1>25. ActiveCallIsBacked'
    <2>1. ASSUME env.crashes = 0, next # None PROVE Open(next)
      <3>1. next \in HoldKeys /\ Ahead(next)
        BY <1>9, <1>11, <2>1 DEF Ahead, Reports
      <3> QED BY <1>8, <1>11, <2>1, <3>1 DEF Calm
    <2> QED BY <1>8, <1>11, <1>13, <2>1 DEF ActiveCallIsBacked, Open
  <1>26. local.pc \in {"idle", "recovered", "charge-from"} /\ UNCHANGED <<holds, charges, env>>
    BY <1>8, <1>20
  <1> QED BY <1>1, <1>16, <1>18, <1>19, <1>21, <1>22, <1>23, <1>24, <1>25, <1>26, TurnKeeps
-----------------------------------------------------------------------------
(* Time and failures.                                                      *)

\* Timeouts elapse only while every process is between two requests.
LEMMA AllIdle ==
    ASSUME Inv, LongTimePasses
    PROVE  /\ \A q \in Processes : proc[q] = Idle
           /\ UNCHANGED env
  <1>1. Stalls = FALSE /\ AllFit /\ env \in [crashes : 0..MaxCrashes, stalled : BOOLEAN, lull : Lulls]
    BY DEF Inv, Shared, Typed, Steady
  <1>2. \A q \in Processes : proc[q].pc = "idle"
    BY <1>1 DEF LongTimePasses, At
  <1>3. ASSUME NEW q \in Processes PROVE proc[q] = Idle
    <2>1. PICK l : l = proc[q]
      OBVIOUS
    <2>2. l \in Locals /\ l.pc = "idle"
      BY <1>1, <1>2, <2>1 DEF AllFit, Fits
    <2> QED BY <2>1, <2>2, Kinds
  <1>4. PICK stalled : stalled = (env.stalled \/ ~(\A q \in Processes : At(q, "idle")))
    OBVIOUS
  <1>5. env' = [env EXCEPT !.stalled = stalled]
    BY <1>4, Zenon DEF LongTimePasses
  <1>6. stalled = env.stalled
    BY <1>1, <1>2, <1>4 DEF At
  <1> QED BY <1>1, <1>3, <1>5, <1>6

LEMMA WaitKeeps ==
    ASSUME Inv, LongTimePasses, UNCHANGED <<charges, proc>>, Shared',
           \A k \in HoldKeys : (Made(k)' <=> Made(k)) /\ (Open(k)' <=> Open(k)),
           session'.gen = session.gen, session'.lastSeq = session.lastSeq,
           session'.status = session.status, session'.active = session.active
    PROVE  Inv'
  <1>1. /\ \A q \in Processes : proc[q] = Idle
        /\ UNCHANGED env
    BY AllIdle
  <1>2. AllFit /\ (env.crashes = 0 => Calm) /\ ActiveCallIsBacked /\ Shared
    BY DEF Inv
  <1>3. AllFit'
    <2>1. PICK l : l = Idle
      OBVIOUS
    <2>2. Fits(l)'
      BY <2>1, IdleFitsNext
    <2>3. \A q \in Processes : proc'[q] = l
      BY <1>1, <2>1
    <2>4. \A q \in Processes : Fits(proc[q])'
      BY <2>2, <2>3
    <2> QED BY <1>2, <2>4 DEF AllFit
  <1>4. \A q \in Processes : proc[q].pc = "idle" /\ proc'[q].pc = "idle"
    BY <1>1 DEF Idle
  <1>5. OneOwner' /\ Apart'
    BY <1>4 DEF OneOwner, Owns, Apart, Gives
  <1>6. env'.crashes = 0 => Calm'
    <2>1. \A k \in HoldKeys : Ahead(k)' <=> Ahead(k)
      BY DEF Ahead
    <2>2. env.crashes = 0 => \A k \in HoldKeys : ~(Made(k) /\ Ahead(k))
      BY <1>2, <1>4 DEF Calm, Brings
    <2> QED BY <1>1, <1>4, <2>1, <2>2 DEF Calm, Gives
  <1>7. ActiveCallIsBacked'
    <2>1. session.status = "ACTIVE" => session.active \in HoldKeys
      BY <1>2 DEF Shared, Typed, Carries, Sessions
    <2>2. PICK k : k = session.active
      OBVIOUS
    <2>3. session.status = "ACTIVE" /\ env.crashes = 0 => Open(k) \/ Owed(k)
      BY <1>2, <1>4, <2>2, Backs DEF Ends
    <2>4. session.status = "ACTIVE" => (Open(k) => Open(k)') /\ (Owed(k) => Owed(k)')
      BY <2>1, <2>2 DEF Owed
    <2> QED BY <1>1, <2>2, <2>3, <2>4 DEF ActiveCallIsBacked, Open, Owed
  <1> QED BY <1>3, <1>5, <1>6, <1>7 DEF Inv

LEMMA HoldExpiresKeeps ==
    ASSUME Inv, NEW k \in HoldKeys, HoldExpires(k)
    PROVE  Inv'
  <1>1. /\ LongTimePasses /\ holds' = [holds EXCEPT ![k].late = TRUE]
        /\ UNCHANGED <<session, account, charges, proc>> /\ UNCHANGED env
    BY AllIdle DEF HoldExpires
  <1>2. HoldsTyped /\ Shared /\ Typed /\ Wallet /\ Steady
    BY DEF Inv, Shared, Typed
  <1>3. PICK h : h = holds[k]
    OBVIOUS
  <1>4. h = [status |-> h.status, by |-> h.by, late |-> h.late]
    BY <1>2, <1>3 DEF HoldsTyped
  <1>5. PICK late : late = TRUE
    OBVIOUS
  <1>6. PICK aged : aged = [status |-> h.status, by |-> h.by, late |-> late]
    OBVIOUS
  <1>7. holds' = [holds EXCEPT ![k] = aged]
    <2>1. aged = [h EXCEPT !.late = late]
      BY <1>4, <1>6
    <2>2. holds' = [holds EXCEPT ![k].late = late]
      BY <1>1, <1>5, Zenon
    <2> QED BY <1>3, <2>1, <2>2
  <1>8. DOMAIN holds = HoldKeys
    BY <1>2 DEF HoldsTyped
  <1>9. /\ holds' = [j \in HoldKeys |-> holds'[j]] /\ holds'[k] = aged
        /\ \A j \in HoldKeys \ {k} : holds'[j] = holds[j]
    BY <1>7, <1>8
  <1>10. \A j \in HoldKeys :
            /\ holds'[j].status = holds[j].status /\ holds'[j].by = holds[j].by
            /\ holds'[j].late \in BOOLEAN
            /\ holds'[j] = [status |-> holds'[j].status, by |-> holds'[j].by, late |-> holds'[j].late]
    <2>1. late \in BOOLEAN /\ aged.status = h.status /\ aged.by = h.by /\ aged.late = late
          /\ aged = [status |-> aged.status, by |-> aged.by, late |-> aged.late]
      BY <1>5, <1>6
    <2> QED BY <1>2, <1>3, <1>9, <2>1 DEF HoldsTyped
  <1>11. HoldsTyped'
    <2>1. holds' = [j \in HoldKeys |-> [status |-> holds'[j].status, by |-> holds'[j].by,
                                      late |-> holds'[j].late]]
      BY <1>9, <1>10
    <2> QED BY <1>2, <1>10, <2>1 DEF HoldsTyped
  <1>12. \A j \in HoldKeys : (Made(j)' <=> Made(j)) /\ (Open(j)' <=> Open(j))
    BY <1>10 DEF Made, Open
  <1>13. Typed' /\ Wallet'
    <2>1. OpenHolds' = OpenHolds
      BY <1>12 DEF OpenHolds
    <2> QED BY <1>1, <1>2, <1>11, <2>1 DEF Typed, Wallet, Steady
  <1>14. Shared'
    BY <1>1, <1>2, <1>10, <1>12, <1>13, SharedHolds
  <1> QED BY <1>1, <1>12, <1>14, WaitKeeps

LEMMA SessionWaitKeeps ==
    ASSUME Inv, LongTimePasses, UNCHANGED <<account, holds, charges, proc>>, session' \in Sessions,
           session.gen # 0, session'.gen = session.gen, session'.lastSeq = session.lastSeq,
           session'.status = session.status, session'.active = session.active,
           session'.claim = session.claim, session'.cum = session.cum,
           session'.total = session.total, session'.debt = session.debt
    PROVE  Inv'
  <1>1. UNCHANGED env /\ Shared
    BY AllIdle DEF Inv
  <1>2. Typed'
    BY <1>1 DEF Shared, Typed, HoldsTyped, Steady
  <1>3. Rewrites
    BY DEF Rewrites
  <1>4. Shared'
    BY <1>1, <1>2, <1>3, SharedRewrites
  <1>5. \A k \in HoldKeys : (Made(k)' <=> Made(k)) /\ (Open(k)' <=> Open(k))
    BY DEF Made, Open
  <1> QED BY <1>4, <1>5, WaitKeeps

LEMMA ClaimAgesKeeps ==
    ASSUME Inv, ClaimAges
    PROVE  Inv'
  <1>1. /\ LongTimePasses /\ session.claim # 0 /\ session' = [session EXCEPT !.aged = TRUE]
        /\ UNCHANGED <<account, holds, charges, proc>>
    BY DEF ClaimAges
  <1>2. session \in Sessions /\ Carries
    BY DEF Inv, Shared, Typed
  <1>3. session.gen # 0
    BY <1>1, <1>2 DEF Carries, NoSession
  <1>4. /\ session' \in Sessions /\ session'.gen = session.gen /\ session'.lastSeq = session.lastSeq
        /\ session'.status = session.status /\ session'.active = session.active
        /\ session'.claim = session.claim /\ session'.cum = session.cum
        /\ session'.total = session.total /\ session'.debt = session.debt
    BY <1>1, <1>2 DEF Sessions
  <1> QED BY <1>1, <1>3, <1>4, SessionWaitKeeps

LEMMA CallFallsSilentKeeps ==
    ASSUME Inv, CallFallsSilent
    PROVE  Inv'
  <1>1. /\ LongTimePasses /\ session.status = "ACTIVE" /\ session' = [session EXCEPT !.quiet = TRUE]
        /\ UNCHANGED <<account, holds, charges, proc>>
    BY DEF CallFallsSilent
  <1>2. session \in Sessions /\ Carries
    BY DEF Inv, Shared, Typed
  <1>3. session.gen # 0
    BY <1>1, <1>2 DEF Carries
  <1>4. /\ session' \in Sessions /\ session'.gen = session.gen /\ session'.lastSeq = session.lastSeq
        /\ session'.status = session.status /\ session'.active = session.active
        /\ session'.claim = session.claim /\ session'.cum = session.cum
        /\ session'.total = session.total /\ session'.debt = session.debt
    BY <1>1, <1>2 DEF Sessions
  <1> QED BY <1>1, <1>3, <1>4, SessionWaitKeeps

LEMMA CrashKeeps ==
    ASSUME Inv, NEW p \in Processes, Crash(p)
    PROVE  Inv'
  <1>1. PICK old : old = proc[p]
    OBVIOUS
  <1>2. PICK local : local = Idle
    OBVIOUS
  <1>3. PICK crashes : crashes = env.crashes + 1
    OBVIOUS
  <1>4. /\ env.crashes < MaxCrashes /\ env' = [env EXCEPT !.crashes = crashes] /\ Goto(p, local)
        /\ UNCHANGED session /\ UNCHANGED account /\ UNCHANGED holds /\ UNCHANGED charges
    BY <1>2, <1>3 DEF Crash
  <1>5. Shared /\ Typed /\ Wallet /\ Steady /\ AllFit /\ OneOwner /\ Apart /\ session \in Sessions
    BY DEF Inv, Shared, Typed
  <1>6. crashes \in 0..MaxCrashes /\ crashes # 0
    BY <1>3, <1>4, <1>5, BoundsAreNumbers DEF Typed
  <1>7. env' \in [crashes : 0..MaxCrashes, stalled : BOOLEAN, lull : Lulls] /\ env'.crashes # 0
    BY <1>4, <1>5, <1>6 DEF Typed
  <1>8. Shared'
    <2>1. Typed' /\ Wallet'
      BY <1>4, <1>5, <1>7 DEF Typed, HoldsTyped, Steady, Wallet, OpenHolds, Open
    <2> QED BY <1>4, <1>5, <2>1, SharedHolds DEF Made
  <1>9. AllFit'
    <2>1. Fits(local)'
      BY <1>2, IdleFitsNext
    <2>2. ASSUME NEW q \in Processes \ {p}, NEW l, l = proc[q] PROVE Fits(l)'
      <3>1. Fits(l)
        BY <1>5, <2>2 DEF AllFit
      <3> QED BY <1>4, <3>1, FitsStays
    <2> QED BY <1>4, <1>5, <2>1, <2>2, FitNext
  <1>10. local.pc = "idle" /\ session.lastSeq <= session'.lastSeq /\ session' \in Sessions
    BY <1>2, <1>4, <1>5 DEF Idle, Sessions
  <1>11. OneOwner'
    <2>1. ~Owns(local)'
      BY <1>10 DEF Owns
    <2> QED BY <1>1, <1>4, <1>5, <1>10, <2>1, OwnerNext
  <1>12. Apart'
    <2>1. \A k \in HoldKeys : ~Gives(local, k) /\ ~Keeps(local, k) /\ (Open(k)' => Open(k))
      BY <1>4, <1>10 DEF Gives, Keeps, Open
    <2> QED BY <1>1, <1>4, <1>5, <2>1, ApartNext
  <1>13. ActiveCallIsBacked'
    BY <1>7 DEF ActiveCallIsBacked
  <1> QED BY <1>7, <1>8, <1>9, <1>11, <1>12, <1>13 DEF Inv
-----------------------------------------------------------------------------
(* The invariant of one admission.                                         *)

Envs == [crashes : 0..MaxCrashes, stalled : BOOLEAN, lull : Lulls]

\* The columns, holds and rows the call starts with.
LEMMA Starts ==
    ASSUME Init
    PROVE  /\ session \in Sessions /\ HoldsTyped /\ IsFiniteSet(charges) /\ Wallet
           /\ env \in Envs /\ \A k \in HoldKeys : holds[k].status = "NONE"
  <1>1. /\ session = NoSession /\ charges = {}
        /\ holds = [k \in HoldKeys |-> [status |-> "NONE", by |-> None, late |-> FALSE]]
    BY DEF Init
  <1>2. PICK lull \in Lulls : env = [crashes |-> 0, stalled |-> FALSE, lull |-> lull]
    BY DEF Init
  <1>3. PICK funds \in Funds : account = [EmptyAccount EXCEPT !.paid = funds]
    BY DEF Init
  <1>4. session \in Sessions
    <2>1. 0 \in 0..LastReport /\ 0 \in 0..Generations
      BY BoundsAreNumbers
    <2> QED BY <1>1, <2>1 DEF NoSession, Sessions
  <1>5. PICK late : late = FALSE
    OBVIOUS
  <1>6. PICK h : h = [status |-> "NONE", by |-> None, late |-> late]
    OBVIOUS
  <1>7. h.status = "NONE" /\ h.late \in BOOLEAN
        /\ h = [status |-> h.status, by |-> h.by, late |-> h.late]
    BY <1>5, <1>6
  <1>8. holds = [k \in HoldKeys |-> h]
    BY <1>1, <1>5, <1>6, Zenon
  <1>9. \A k \in HoldKeys : holds[k] = h
    BY <1>8
  <1>10. HoldsTyped
    <2>1. holds = [k \in HoldKeys |-> [status |-> holds[k].status, by |-> holds[k].by,
                                     late |-> holds[k].late]]
      BY <1>7, <1>8, <1>9
    <2> QED BY <1>7, <1>9, <2>1 DEF HoldsTyped
  <1>11. env \in Envs
    BY <1>2, BoundsAreNumbers DEF Envs
  <1>12. Wallet
    <2>1. OpenHolds = {}
      BY <1>7, <1>9 DEF OpenHolds, Open
    <2>2. funds \in Nat
      BY BoundsAreNumbers
    <2>3. account \in Accounts /\ account.promo = 0 /\ account.reservedPromo = 0
          /\ account.reservedPaid = 0
      BY <1>3, <2>2 DEF EmptyAccount, Accounts
    <2> QED BY <2>1, <2>3, FS_EmptySet, BoundsAreNumbers DEF Wallet
  <1> QED BY <1>1, <1>4, <1>7, <1>9, <1>10, <1>11, <1>12, FS_EmptySet

LEMMA InitIsFit ==
    ASSUME Init, Steady
    PROVE  Inv
  <1>1. session = NoSession /\ charges = {} /\ proc = [p \in Processes |-> Idle]
    BY DEF Init
  <1>2. Typed /\ Wallet /\ \A k \in HoldKeys : holds[k].status = "NONE"
    BY Starts DEF Typed, Envs
  <1>3. /\ session.status = "NONE" /\ session.gen = 0 /\ session.active = None
        /\ session.cum = 0 /\ session.total = 0 /\ session.debt = 0
    BY <1>1 DEF NoSession
  <1>4. Rows
    BY <1>1, <1>2 DEF Rows
  <1>5. Carries
    BY <1>1, <1>3 DEF Carries
  <1>6. OnePending /\ Totals
    <2>1. Pendings = {} /\ Told = {} /\ Reflected = {}
      BY <1>1 DEF Pendings, PendingRows, Told, Reflected
    <2> QED BY <1>3, <2>1, NoRows DEF OnePending, Totals
  <1>7. \A p \in Processes : proc[p] = Idle /\ proc[p].pc = "idle"
    BY <1>1 DEF Idle
  <1>8. AllFit
    <2>1. \A p \in Processes : Fits(proc[p])
      BY <1>7, IdleFits
    <2> QED BY <1>1, <2>1 DEF AllFit
  <1>9. OneOwner /\ Apart
    BY <1>7 DEF OneOwner, Owns, Apart, Gives
  <1>10. Calm
    BY <1>2, <1>7 DEF Calm, Made, Gives
  <1>11. ActiveCallIsBacked
    BY <1>3 DEF ActiveCallIsBacked
  <1> QED BY <1>2, <1>4, <1>5, <1>6, <1>8, <1>9, <1>10, <1>11 DEF Inv, Shared

LEMMA StutterKeeps ==
    ASSUME Inv, UNCHANGED vars
    PROVE  Inv'
  <1>1. UNCHANGED session /\ UNCHANGED account /\ UNCHANGED holds /\ UNCHANGED charges
        /\ UNCHANGED proc /\ UNCHANGED env
    BY DEF vars
  <1>2. Shared'
    <2>1. Typed' /\ Wallet'
      BY <1>1 DEF Inv, Shared, Typed, HoldsTyped, Steady, Wallet, OpenHolds, Open
    <2> QED BY <1>1, <2>1, SharedHolds DEF Inv, Made
  <1>3. AllFit'
    <2>1. \A p \in Processes : Fits(proc[p])'
      <3>1. ASSUME NEW p \in Processes PROVE Fits(proc[p])'
        <4>1. PICK l : l = proc[p]
          OBVIOUS
        <4>2. Fits(l)'
          BY <1>1, <4>1, FitsStays DEF Inv, AllFit
        <4> QED BY <1>1, <4>1, <4>2
      <3> QED BY <3>1
    <2> QED BY <1>1, <2>1 DEF Inv, AllFit
  <1>4. OneOwner' /\ Apart'
    BY <1>1 DEF Inv, OneOwner, Owns, Apart, Gives, Keeps, Open
  <1>5. env'.crashes = 0 => Calm'
    BY <1>1 DEF Inv, Calm, Made, Ahead, Open, Brings, Gives
  <1>6. ActiveCallIsBacked'
    BY <1>1 DEF Inv, ActiveCallIsBacked, Ending
  <1> QED BY <1>2, <1>3, <1>4, <1>5, <1>6 DEF Inv

LEMMA ContinueKeeps ==
    ASSUME Inv, NEW p \in Processes, Continue(p)
    PROVE  Inv'
  <1>1. CASE ReserveAdmission(p)
    BY <1>1, ReserveAdmissionKeeps
  <1>2. CASE Admit(p)
    BY <1>2, AdmitKeeps
  <1>3. CASE DropAdmission(p)
    BY <1>3, DropAdmissionKeeps
  <1>4. CASE ReleaseCanceled(p)
    BY <1>4, ReleaseCanceledKeeps
  <1>5. CASE EndCanceled(p)
    BY <1>5, EndCanceledKeeps
  <1>6. CASE RecoverPending(p)
    BY <1>6, RecoverPendingKeeps
  <1>7. CASE AfterRecovery(p)
    BY <1>7, AfterRecoveryKeeps
  <1>8. CASE ClaimSnapshot(p)
    BY <1>8, ClaimSnapshotKeeps
  <1>9. CASE RefuseSnapshot(p)
    BY <1>9, RefuseSnapshotKeeps
  <1>10. CASE ChargeFrom(p)
    BY <1>10, ChargeFromKeeps
  <1>11. CASE ChargeHold(p)
    BY <1>11, ChargeHoldKeeps
  <1>12. CASE ChargeTail(p)
    BY <1>12, ChargeTailKeeps
  <1>13. CASE ChargeNothing(p)
    BY <1>13, ChargeNothingKeeps
  <1>14. CASE ReserveNext(p)
    BY <1>14, ReserveNextKeeps
  <1>15. CASE CompleteCheckpoint(p)
    BY <1>15, CompleteCheckpointKeeps
  <1>16. CASE Unclaim(p)
    BY <1>16, UnclaimKeeps
  <1> QED BY <1>1, <1>2, <1>3, <1>4, <1>5, <1>6, <1>7, <1>8, <1>9, <1>10, <1>11, <1>12, <1>13,
             <1>14, <1>15, <1>16 DEF Continue

LEMMA SweepKeeps ==
    ASSUME Inv, NEW p \in Processes, Sweep(p)
    PROVE  Inv'
  <1>1. CASE SpotSilentCall(p)
    BY <1>1, SpotSilentCallKeeps
  <1>2. CASE SettleSilent(p)
    BY <1>2, SettleSilentKeeps
  <1>3. CASE EndSilent(p)
    BY <1>3, EndSilentKeeps
  <1>4. CASE SpotExpired(p)
    BY <1>4, SpotExpiredKeeps
  <1>5. CASE SettleTail(p)
    BY <1>5, SettleTailKeeps
  <1>6. CASE ApplyTail(p)
    BY <1>6, ApplyTailKeeps
  <1>7. CASE RepairSettledTail(p)
    BY <1>7, RepairSettledTailKeeps
  <1>8. CASE ReleaseExpired(p)
    BY <1>8, ReleaseExpiredKeeps
  <1>9. CASE EndExpired(p)
    BY <1>9, EndExpiredKeeps
  <1> QED BY <1>1, <1>2, <1>3, <1>4, <1>5, <1>6, <1>7, <1>8, <1>9 DEF Sweep

LEMMA StepKeeps == Inv /\ [Next]_vars => Inv'
  <1> SUFFICES ASSUME Inv, [Next]_vars
               PROVE  Inv'
    OBVIOUS
  <1>1. CASE \E p \in Requests : Request(p)
    <2>1. PICK p \in Requests : Request(p)
      BY <1>1
    <2>2. p \in Processes
      BY DEF Processes
    <2>3. CASE Authorize(p)
      BY <2>2, <2>3, AuthorizeKeeps
    <2>4. CASE CancelAdmission(p)
      BY <2>2, <2>4, CancelAdmissionKeeps
    <2>5. CASE \E n \in Reports : ReceiveSnapshot(p, n)
      BY <2>2, <2>5, ReceiveSnapshotKeeps
    <2>6. CASE Continue(p)
      BY <2>2, <2>6, ContinueKeeps
    <2> QED BY <2>1, <2>3, <2>4, <2>5, <2>6 DEF Request
  <1>2. CASE \E n \in Reports : PersistDeniedProviderSession(n)
    BY <1>2, PersistDeniedKeeps
  <1>3. CASE \E p \in Sweepers : Sweep(p)
    BY <1>3, SweepKeeps DEF Processes
  <1>4. CASE \E k \in HoldKeys : HoldExpires(k)
    BY <1>4, HoldExpiresKeeps
  <1>5. CASE ClaimAges
    BY <1>5, ClaimAgesKeeps
  <1>6. CASE CallFallsSilent
    BY <1>6, CallFallsSilentKeeps
  <1>7. CASE \E p \in Processes : Crash(p)
    BY <1>7, CrashKeeps
  <1>8. CASE UNCHANGED vars
    BY <1>8, StutterKeeps
  <1> QED BY <1>1, <1>2, <1>3, <1>4, <1>5, <1>6, <1>7, <1>8 DEF Next

LEMMA InvCharges ==
    ASSUME Inv
    PROVE  UsageChargedOnce
  <1>1. /\ Shared /\ session \in Sessions /\ Rows /\ OnePending /\ Totals /\ IsFiniteSet(charges)
        /\ None \notin Checkpoints
    BY NoneIsNothing DEF Inv, Shared, Typed
  <1>2. \A row \in charges : row.checkpoint # None => row.checkpoint \in Checkpoints
                             /\ row.checkpoint.n \in Nat
    BY <1>1, RowKinds DEF Checkpoints, Reports
  <1>3. UsageRows = Told \cup Pendings /\ Told \cap Pendings = {} /\ Told \subseteq charges
        /\ session.lastSeq \in Nat
    BY <1>1, <1>2 DEF UsageRows, Told, Pendings, PendingRows, Sessions
  <1>4. CASE Pendings = {}
    <2>1. UsageRows = Told
      BY <1>3, <1>4
    <2> QED BY <1>1, <2>1 DEF UsageChargedOnce, Totals
  <1>5. CASE Pendings # {}
    <2>1. PICK x : x \in Pendings
      BY <1>5
    <2>2. Pendings = {x} /\ x \in charges /\ x.checkpoint # None
      BY <1>1, <2>1 DEF OnePending, Pendings, PendingRows
    <2>3. x.checkpoint.cum = session.cum + x.gross /\ x.gross \in Nat
      BY <1>1, <2>1, <2>2 DEF OnePending, Rows
    <2>4. UsageRows = Told \cup {x} /\ x \notin Told
      BY <1>3, <2>2
    <2>5. Gross(UsageRows) = session.cum + x.gross
      BY <1>1, <1>3, <2>2, <2>4, RowAdded DEF Rows, Totals
    <2>6. \A row \in UsageRows : row.checkpoint.cum <= x.checkpoint.cum
      <3>1. \A row \in Told : row.checkpoint.cum \in Nat /\ row.checkpoint.cum <= session.cum
        BY <1>1, <1>2, <1>3 DEF Totals, Told, Checkpoints
      <3>2. session.cum \in Nat
        BY <1>1 DEF Sessions
      <3> QED BY <2>3, <2>4, <3>1, <3>2
    <2>7. x \in UsageRows /\ Gross(UsageRows) = x.checkpoint.cum
      BY <2>3, <2>4, <2>5
    <2> QED BY <2>6, <2>7 DEF UsageChargedOnce
  <1> QED BY <1>4, <1>5

LEMMA OneAdmission == Steady /\ Spec => []Inv
  <1>1. Init /\ Steady => Inv
    BY InitIsFit
  <1>2. Inv /\ [Next]_vars => Inv'
    BY StepKeeps
  <1> QED BY <1>1, <1>2, PTL DEF Spec
-----------------------------------------------------------------------------
(* Types, for any number of admissions and for processes that stall.       *)

Callers == [pc : {"reserve-admission", "admit", "drop-admission"},
            from : {"NONE", "ENDED"}, gen : 1..Generations]
Leavers == [pc : {"cancel", "end-canceled"}, hold : HoldKeys, gen : 0..Generations]
AnyLocals == {Idle} \cup Callers \cup Leavers \cup Readers \cup Claimants \cup Chargers
             \cup Completers \cup Silencers \cup Expirers
\* A call goes on only with a hold, unless it is the last report or must stop.
Able(l) == /\ l \in AnyLocals
           /\ l.pc = "complete" /\ l.next = None => l.stop \/ Final(l.checkpoint)

RowTyped(row) == /\ row.hold \in HoldKeys \cup {None}
                 /\ row.checkpoint \in Checkpoints \cup {None}
                 /\ row.gross \in Nat /\ row.debt \in Nat

SoundSession == session \in Sessions /\ (session.status = "ACTIVE" => session.active # None)
SoundRows == HoldsTyped /\ Wallet /\ \A row \in charges : RowTyped(row)
SoundProcs == proc = [p \in Processes |-> proc[p]] /\ \A p \in Processes : Able(proc[p])
Sound == SoundSession /\ SoundRows /\ SoundProcs /\ env \in Envs

LEMMA AnyKeys ==
    /\ \A k \in HoldKeys : k # None
    /\ None \notin Checkpoints
    /\ \A g \in 1..Generations : InitialKey(g) \in HoldKeys
    /\ \A n \in Reports, r \in 0..MaxRecovery : RollingKey(n, r) \in HoldKeys
  BY NoneIsNothing DEF HoldKeys

LEMMA AnyKinds ==
    ASSUME NEW l \in AnyLocals
    PROVE  /\ l.pc \in {"reserve-admission", "admit", "drop-admission"} <=> l \in Callers
           /\ l.pc \in {"cancel", "end-canceled"} <=> l \in Leavers
           /\ l.pc = "recover" <=> l \in Readers
           /\ l.pc \in {"claim", "recovered", "charge-from", "unclaim"} <=> l \in Claimants
           /\ l.pc = "charge" <=> l \in Chargers
           /\ l.pc \in {"reserve-next", "complete"} <=> l \in Completers
           /\ l.pc \in {"settle-silent", "end-silent"} <=> l \in Silencers
           /\ l.pc \in {"settle-tail", "apply-tail", "release-expired", "end-expired"}
                 <=> l \in Expirers
           /\ l.pc = "idle" <=> l = Idle
  BY DEF AnyLocals, Idle, Callers, Leavers, Readers, Claimants, Chargers, Completers,
         Silencers, Expirers

\* The process that moves goes to a place it may be at.
LEMMA SoundMove ==
    ASSUME SoundProcs, NEW p \in Processes, NEW local, Goto(p, local), Able(local)
    PROVE  SoundProcs'
  <1>1. proc' = [q \in Processes |-> proc'[q]]
        /\ proc'[p] = local /\ \A q \in Processes \ {p} : proc'[q] = proc[q]
    BY DEF SoundProcs, Goto
  <1>2. \A q \in Processes : Able(proc[q])'
    BY <1>1 DEF SoundProcs, Able
  <1> QED BY <1>1, <1>2 DEF SoundProcs

LEMMA IdleIsAble == Able(Idle)
  BY DEF Able, Idle, AnyLocals

LEMMA SoundAt ==
    ASSUME Sound, NEW p \in Processes, NEW old, old = proc[p]
    PROVE  /\ old \in AnyLocals /\ Able(old) /\ session \in Sessions
           /\ session.active \in HoldKeys \cup {None}
           /\ session.gen \in 0..Generations
           /\ SoundSession /\ SoundRows /\ SoundProcs /\ env \in Envs /\ HoldsTyped /\ Wallet
  BY DEF Sound, SoundSession, SoundRows, SoundProcs, Able, Sessions

\* Steps of one process by what they change: nothing, the session, or the rows.
LEMMA SoundGoto ==
    ASSUME Sound, NEW p \in Processes, NEW local, Goto(p, local), Able(local),
           UNCHANGED <<session, account, holds, charges, env>>
    PROVE  Sound'
  <1>1. SoundProcs'
    BY SoundMove DEF Sound
  <1>2. SoundSession' /\ SoundRows' /\ env' \in Envs
    BY DEF Sound, SoundSession, SoundRows, HoldsTyped, Wallet, OpenHolds, Open
  <1> QED BY <1>1, <1>2 DEF Sound

LEMMA SoundTurn ==
    ASSUME Sound, NEW p \in Processes, NEW local, Goto(p, local), Able(local), SoundSession',
           UNCHANGED <<account, holds, charges, env>>
    PROVE  Sound'
  <1>1. SoundProcs'
    BY SoundMove DEF Sound
  <1>2. SoundRows' /\ env' \in Envs
    BY DEF Sound, SoundRows, HoldsTyped, Wallet, OpenHolds, Open
  <1> QED BY <1>1, <1>2 DEF Sound

LEMMA SoundWrite ==
    ASSUME Sound, NEW p \in Processes, NEW local, Goto(p, local), Able(local), SoundRows',
           UNCHANGED <<session, env>>
    PROVE  Sound'
  <1>1. SoundProcs'
    BY SoundMove DEF Sound
  <1>2. SoundSession' /\ env' \in Envs
    BY DEF Sound, SoundSession
  <1> QED BY <1>1, <1>2 DEF Sound

LEMMA SoundReserve ==
    ASSUME Sound, NEW k \in HoldKeys, CanReserve(k), Reserve(k),
           UNCHANGED <<session, charges, env>>
    PROVE  SoundRows'
  <1>1. HoldsTyped' /\ Wallet'
    BY ReserveStep DEF Sound, SoundRows
  <1> QED BY <1>1 DEF Sound, SoundRows

LEMMA SoundRelease ==
    ASSUME Sound, NEW k \in HoldKeys, NEW key, Release(k, key), UNCHANGED <<session, charges>>
    PROVE  SoundRows'
  <1>1. CASE Open(k)
    <2>1. HoldsTyped' /\ Wallet'
      BY <1>1, ReleaseStep DEF Sound, SoundRows
    <2> QED BY <2>1 DEF Sound, SoundRows
  <1>2. CASE ~Open(k)
    <2>1. UNCHANGED <<holds, account>>
      BY <1>2 DEF Release, Open
    <2> QED BY <2>1 DEF Sound, SoundRows, HoldsTyped, Wallet, OpenHolds, Open
  <1> QED BY <1>1, <1>2

\* A settlement of a hold, new or recorded.
LEMMA SoundSettle ==
    ASSUME Sound, NEW key, NEW k \in HoldKeys, NEW gross \in Nat,
           NEW checkpoint \in Checkpoints \cup {None}, NEW tail \in BOOLEAN,
           SettleOK(key, k, gross),
           NEW row, row = Settlement(key, k, gross, checkpoint, tail), Settle(row),
           UNCHANGED session
    PROVE  SoundRows' /\ Recorded(row).debt \in Nat
  <1>1. PICK d : d = SettleDeltas(account, HoldMicros, 0, TRUE, gross)
    OBVIOUS
  <1>2. d.debt \in Nat
    BY <1>1, Settlements, Zenon DEF Sound, SoundRows, Wallet
  <1>3. row = [key |-> key, hold |-> k, gross |-> gross, debt |-> d.debt,
               checkpoint |-> checkpoint, tail |-> tail]
    BY <1>1, Zenon DEF Settlement
  <1>4. /\ row.key = key /\ row.hold = k /\ row.gross = gross /\ row.debt = d.debt
        /\ row.checkpoint = checkpoint
    BY <1>3
  <1>5. RowTyped(row)
    BY <1>2, <1>4 DEF RowTyped
  <1>6. CASE RowsOf(key) = {}
    <2>1. Open(k) /\ RowsOf(row.key) = {}
      BY <1>4, <1>6 DEF SettleOK, Open
    <2>2. HoldsTyped' /\ Wallet' /\ charges' = charges \cup {row}
      BY <1>4, <2>1, SettleStep DEF Sound, SoundRows
    <2>3. Recorded(row) = row
      BY <2>1 DEF Recorded
    <2>4. \A x \in charges' : RowTyped(x)
      BY <1>5, <2>2 DEF Sound, SoundRows
    <2>5. SoundRows'
      BY <2>2, <2>4 DEF SoundRows, RowTyped
    <2> QED BY <1>2, <1>4, <2>3, <2>5
  <1>7. CASE RowsOf(key) # {}
    <2>1. UNCHANGED <<charges, holds, account>>
      BY <1>4, <1>7, Zenon DEF Settle
    <2>2. Recorded(row) \in RowsOf(key)
      BY <1>4, <1>7, Zenon DEF Recorded
    <2>3. RowTyped(Recorded(row))
      BY <2>2 DEF RowsOf, Sound, SoundRows
    <2> QED BY <2>1, <2>3 DEF Sound, SoundRows, HoldsTyped, Wallet, OpenHolds, Open, RowTyped
  <1> QED BY <1>6, <1>7

-----------------------------------------------------------------------------
(* Each action keeps the types.                                            *)

LEMMA SoundIdle ==
    ASSUME Sound, NEW p \in Processes, Goto(p, Idle),
           UNCHANGED <<session, account, holds, charges, env>>
    PROVE  Sound'
  BY SoundGoto, IdleIsAble

LEMMA AuthorizeSound ==
    ASSUME Sound, NEW p \in Processes, Authorize(p)
    PROVE  Sound'
  <1>1. PICK local : local = [pc |-> "reserve-admission", from |-> session.status,
                              gen |-> session.gen + 1]
    OBVIOUS
  <1>2. /\ Goto(p, local) /\ UNCHANGED <<session, account, holds, charges, env>>
        /\ session.status \in {"NONE", "ENDED"} /\ session.gen < Generations
    BY <1>1 DEF Authorize
  <1>3. session.gen \in 0..Generations
    BY SoundAt
  <1>4. session.gen + 1 \in 1..Generations
    BY <1>2, <1>3, BoundsAreNumbers
  <1>5. local \in Callers /\ local.pc = "reserve-admission"
    BY <1>1, <1>2, <1>4 DEF Callers
  <1>6. Able(local)
    BY <1>5 DEF Able, AnyLocals
  <1> QED BY <1>2, <1>6, SoundGoto

LEMMA ReserveAdmissionSound ==
    ASSUME Sound, NEW p \in Processes, ReserveAdmission(p)
    PROVE  Sound'
  <1>1. PICK old : old = proc[p]
    OBVIOUS
  <1>2. PICK k : k = InitialKey(old.gen)
    OBVIOUS
  <1>3. old.pc = "reserve-admission" /\ UNCHANGED <<session, charges, env>>
    BY <1>1 DEF ReserveAdmission, At
  <1>4. old \in Callers /\ k \in HoldKeys
    <2>1. old \in Callers
      BY <1>1, <1>3, SoundAt, AnyKinds
    <2> QED BY <1>2, <2>1, AnyKeys DEF Callers
  <1>5. PICK local : local = [old EXCEPT !.pc = "admit"]
    OBVIOUS
  <1>6. \/ CanReserve(k) /\ Reserve(k) /\ Goto(p, local)
        \/ UNCHANGED <<holds, account>> /\ Goto(p, Idle)
    BY <1>1, <1>2, <1>5, Zenon DEF ReserveAdmission
  <1>7. Able(local)
    BY <1>4, <1>5 DEF Able, AnyLocals, Callers
  <1>8. CASE CanReserve(k) /\ Reserve(k) /\ Goto(p, local)
    <2>1. SoundRows'
      BY <1>3, <1>4, <1>8, SoundReserve
    <2> QED BY <1>3, <1>7, <1>8, <2>1, SoundWrite
  <1>9. CASE UNCHANGED <<holds, account>> /\ Goto(p, Idle)
    BY <1>3, <1>9, SoundIdle
  <1> QED BY <1>6, <1>8, <1>9

LEMMA AdmitSound ==
    ASSUME Sound, NEW p \in Processes, Admit(p)
    PROVE  Sound'
  <1>1. PICK old : old = proc[p]
    OBVIOUS
  <1>2. PICK k : k = InitialKey(old.gen)
    OBVIOUS
  <1>3. PICK next : next = [old EXCEPT !.pc = "drop-admission"]
    OBVIOUS
  <1>4. /\ old.pc = "admit" /\ UNCHANGED <<account, holds, charges, env>>
        /\ Goto(p, Idle) \/ Goto(p, next)
        /\ \/ session' = [NoSession EXCEPT !.status = "ACTIVE", !.gen = old.gen, !.active = k,
                                           !.quiet = session.quiet]
           \/ session' = session
    BY <1>1, <1>2, <1>3, Zenon DEF Admit, At
  <1>5. old \in Callers /\ k \in HoldKeys
    <2>1. old \in Callers
      BY <1>1, <1>4, SoundAt, AnyKinds
    <2> QED BY <1>2, <2>1, AnyKeys DEF Callers
  <1>6. Able(next) /\ Able(Idle)
    BY <1>3, <1>5, IdleIsAble DEF Able, AnyLocals, Callers
  <1>7. SoundSession'
    <2>1. CASE session' = session
      BY <2>1 DEF Sound, SoundSession
    <2>2. CASE session' = [NoSession EXCEPT !.status = "ACTIVE", !.gen = old.gen, !.active = k,
                                            !.quiet = session.quiet]
      <3>1. PICK aged, quiet : aged = FALSE /\ quiet = session.quiet
        OBVIOUS
      <3>2. session' = [status |-> "ACTIVE", gen |-> old.gen, active |-> k, lastSeq |-> 0,
                        claim |-> 0, aged |-> aged, quiet |-> quiet, cum |-> 0,
                        total |-> 0, debt |-> 0, tail |-> 0]
        BY <2>2, <3>1, Zenon DEF NoSession
      <3>3. old.gen \in 0..Generations /\ 0 \in 0..LastReport
        BY <1>5, BoundsAreNumbers DEF Callers
      <3>4. session' \in Sessions
        <4>1. quiet \in BOOLEAN
          BY <3>1 DEF Sound, SoundSession, Sessions
        <4> QED BY <1>5, <3>1, <3>2, <3>3, <4>1 DEF Sessions
      <3>5. session'.active # None
        BY <1>5, <3>2, AnyKeys
      <3> QED BY <3>4, <3>5 DEF SoundSession
    <2> QED BY <1>4, <2>1, <2>2
  <1> QED BY <1>4, <1>6, <1>7, SoundTurn

LEMMA DropAdmissionSound ==
    ASSUME Sound, NEW p \in Processes, DropAdmission(p)
    PROVE  Sound'
  <1>1. PICK old : old = proc[p]
    OBVIOUS
  <1>2. PICK k : k = InitialKey(old.gen)
    OBVIOUS
  <1>3. PICK key : key = <<"raced", old.gen>>
    OBVIOUS
  <1>4. /\ old.pc = "drop-admission" /\ UNCHANGED <<session, charges, env>>
        /\ Release(k, key) /\ Goto(p, Idle)
    BY <1>1, <1>2, <1>3 DEF DropAdmission, At
  <1>5. k \in HoldKeys
    <2>1. old \in Callers
      BY <1>1, <1>4, SoundAt, AnyKinds
    <2> QED BY <1>2, <2>1, AnyKeys DEF Callers
  <1>6. SoundRows'
    BY <1>4, <1>5, SoundRelease
  <1> QED BY <1>4, <1>6, SoundWrite, IdleIsAble

LEMMA CancelAdmissionSound ==
    ASSUME Sound, NEW p \in Processes, CancelAdmission(p)
    PROVE  Sound'
  <1>1. PICK local : local = [pc |-> "cancel", hold |-> session.active, gen |-> session.gen]
    OBVIOUS
  <1>2. /\ Goto(p, local) /\ UNCHANGED <<session, account, holds, charges, env>>
        /\ session.active # None
    BY <1>1 DEF CancelAdmission
  <1>3. local \in Leavers /\ local.pc = "cancel"
    BY <1>1, <1>2, SoundAt DEF Leavers
  <1>4. Able(local)
    BY <1>3 DEF Able, AnyLocals
  <1> QED BY <1>2, <1>4, SoundGoto

LEMMA ReleaseCanceledSound ==
    ASSUME Sound, NEW p \in Processes, ReleaseCanceled(p)
    PROVE  Sound'
  <1>1. PICK old : old = proc[p]
    OBVIOUS
  <1>2. PICK key : key = <<"cancel", old.gen>>
    OBVIOUS
  <1>3. PICK local : local = [old EXCEPT !.pc = "end-canceled"]
    OBVIOUS
  <1>4. /\ old.pc = "cancel" /\ UNCHANGED <<session, charges, env>>
        /\ \/ Release(old.hold, key) /\ Goto(p, local)
           \/ UNCHANGED <<holds, account>> /\ Goto(p, Idle)
    BY <1>1, <1>2, <1>3, Zenon DEF ReleaseCanceled, At
  <1>5. old \in Leavers
    BY <1>1, <1>4, SoundAt, AnyKinds
  <1>6. Able(local) /\ old.hold \in HoldKeys
    BY <1>3, <1>5 DEF Able, AnyLocals, Leavers
  <1>7. CASE Release(old.hold, key) /\ Goto(p, local)
    <2>1. SoundRows'
      BY <1>4, <1>6, <1>7, SoundRelease
    <2> QED BY <1>4, <1>6, <1>7, <2>1, SoundWrite
  <1>8. CASE UNCHANGED <<holds, account>> /\ Goto(p, Idle)
    BY <1>4, <1>8, SoundIdle
  <1> QED BY <1>4, <1>7, <1>8

\* A session that lost its hold, or has a claim, an age, a silence.
LEMMA SoundEnd ==
    ASSUME Sound, NEW status \in {"ENDED", "DEBT", "RECONCILING", "SETTLED"},
           session' = [session EXCEPT !.status = status, !.active = None]
    PROVE  SoundSession'
  BY DEF Sound, SoundSession, Sessions

LEMMA EndCanceledSound ==
    ASSUME Sound, NEW p \in Processes, EndCanceled(p)
    PROVE  Sound'
  <1>1. /\ UNCHANGED <<account, holds, charges, env>> /\ Goto(p, Idle)
        /\ \/ session' = session
           \/ session' = [session EXCEPT !.status = "ENDED", !.active = None]
    BY DEF EndCanceled
  <1>2. SoundSession'
    BY <1>1, SoundEnd DEF Sound, SoundSession
  <1> QED BY <1>1, <1>2, SoundTurn, IdleIsAble

LEMMA EndExpiredSound ==
    ASSUME Sound, NEW p \in Processes, EndExpired(p)
    PROVE  Sound'
  <1>1. /\ UNCHANGED <<account, holds, charges, env>> /\ Goto(p, Idle)
        /\ \/ session' = session
           \/ session' = [session EXCEPT !.status = "ENDED", !.active = None]
    BY DEF EndExpired
  <1>2. SoundSession'
    BY <1>1, SoundEnd DEF Sound, SoundSession
  <1> QED BY <1>1, <1>2, SoundTurn, IdleIsAble

\* A hold kept whole ends the session, whoever tells it.
LEMMA SoundKept ==
    ASSUME Sound, NEW status \in {"RECONCILING", "SETTLED"}, NEW tail \in Nat,
           session' = [session EXCEPT !.status = status, !.active = None,
                                      !.total = @ + HoldMicros, !.tail = @ + tail]
    PROVE  SoundSession'
  <1>1. HoldMicros \in Nat
    BY BoundsAreNumbers
  <1>2. session \in Sessions
    BY DEF Sound, SoundSession
  <1>3. session.total + HoldMicros \in Nat /\ session.tail + tail \in Nat
    BY <1>1, <1>2 DEF Sessions
  <1>4. session' = [session EXCEPT !.status = status, !.active = None,
                       !.total = session.total + HoldMicros, !.tail = session.tail + tail]
    OBVIOUS
  <1>5. session' \in Sessions
    BY <1>2, <1>3, <1>4 DEF Sessions
  <1>6. session'.status = status
    BY <1>2, <1>4 DEF Sessions
  <1> QED BY <1>5, <1>6 DEF SoundSession

LEMMA ProjectTailSound ==
    ASSUME Sound, NEW k, ProjectTail(k)
    PROVE  SoundSession'
  <1>1. PICK status : status = IF HasProvider THEN "RECONCILING" ELSE "SETTLED"
    OBVIOUS
  <1>2. \/ session' = session
        \/ session' = [session EXCEPT !.status = status, !.active = None,
                                      !.total = @ + HoldMicros, !.tail = @ + HoldMicros]
    BY <1>1, Zenon DEF ProjectTail
  <1>3. status \in {"RECONCILING", "SETTLED"} /\ HoldMicros \in Nat
    BY <1>1, BoundsAreNumbers
  <1> QED BY <1>2, <1>3, SoundKept DEF Sound, SoundSession

LEMMA ApplyTailSound ==
    ASSUME Sound, NEW p \in Processes, ApplyTail(p)
    PROVE  Sound'
  <1>1. /\ UNCHANGED <<account, holds, charges, env>> /\ Goto(p, Idle)
        /\ ProjectTail(proc[p].hold)
    BY DEF ApplyTail
  <1>2. SoundSession'
    BY <1>1, ProjectTailSound
  <1> QED BY <1>1, <1>2, SoundTurn, IdleIsAble

LEMMA RepairSettledTailSound ==
    ASSUME Sound, NEW p \in Processes, RepairSettledTail(p)
    PROVE  Sound'
  <1>1. UNCHANGED <<account, holds, charges, proc, env>> /\ ProjectTail(session.active)
    BY DEF RepairSettledTail
  <1>2. SoundSession'
    BY <1>1, ProjectTailSound
  <1>3. SoundRows' /\ SoundProcs' /\ env' \in Envs
    BY <1>1 DEF Sound, SoundRows, SoundProcs, HoldsTyped, Wallet, OpenHolds, Open
  <1> QED BY <1>2, <1>3 DEF Sound

LEMMA EndSilentSound ==
    ASSUME Sound, NEW p \in Processes, EndSilent(p)
    PROVE  Sound'
  <1>1. PICK tail : tail = IF proc[p].reported THEN HoldMicros ELSE 0
    OBVIOUS
  <1>2. /\ UNCHANGED <<account, holds, charges, env>> /\ Goto(p, Idle)
        /\ \/ session' = session
           \/ session' = [session EXCEPT !.status = "RECONCILING", !.active = None,
                                         !.total = @ + HoldMicros, !.tail = @ + tail]
    BY <1>1, Zenon DEF EndSilent
  <1>3. tail \in Nat
    BY <1>1, BoundsAreNumbers
  <1>4. SoundSession'
    BY <1>2, <1>3, SoundKept DEF Sound, SoundSession
  <1> QED BY <1>2, <1>4, SoundTurn, IdleIsAble

LEMMA PersistDeniedSound ==
    ASSUME Sound, NEW n \in Reports, PersistDeniedProviderSession(n)
    PROVE  Sound'
  <1>1. PICK no : no = FALSE
    OBVIOUS
  <1>2. session' = [NoSession EXCEPT !.status = "RECONCILING", !.gen = 1, !.lastSeq = n]
        /\ UNCHANGED <<account, holds, charges, proc, env>>
    BY DEF PersistDeniedProviderSession
  <1>3. session' = [status |-> "RECONCILING", gen |-> 1, active |-> None, lastSeq |-> n,
                    claim |-> 0, aged |-> no, quiet |-> no, cum |-> 0,
                    total |-> 0, debt |-> 0, tail |-> 0]
    BY <1>1, <1>2, Zenon DEF NoSession
  <1>4. 1 \in 0..Generations /\ n \in 0..LastReport /\ 0 \in 0..LastReport
    BY BoundsAreNumbers DEF Reports
  <1>5. SoundSession'
    BY <1>1, <1>3, <1>4 DEF SoundSession, Sessions
  <1>6. SoundRows' /\ SoundProcs' /\ env' \in Envs
    BY <1>2 DEF Sound, SoundRows, SoundProcs, HoldsTyped, Wallet, OpenHolds, Open
  <1> QED BY <1>5, <1>6 DEF Sound

LEMMA ReceiveSnapshotSound ==
    ASSUME Sound, NEW p \in Processes, NEW n \in Reports, ReceiveSnapshot(p, n)
    PROVE  Sound'
  <1>1. PICK local : local = [pc |-> "recover", n |-> n, sess |-> session]
    OBVIOUS
  <1>2. Goto(p, local) /\ UNCHANGED <<session, account, holds, charges, env>>
    BY <1>1 DEF ReceiveSnapshot
  <1>3. local \in Readers /\ local.pc = "recover"
    BY <1>1, SoundAt DEF Readers
  <1>4. Able(local)
    BY <1>3 DEF Able, AnyLocals
  <1> QED BY <1>2, <1>4, SoundGoto

LEMMA ClaimantIsAble ==
    ASSUME NEW n \in Reports, NEW pc \in {"claim", "recovered", "charge-from", "unclaim"},
           NEW local, local = [pc |-> pc, n |-> n]
    PROVE  Able(local)
  BY DEF Able, AnyLocals, Claimants

LEMMA CompletingIsAble ==
    ASSUME NEW p, proc[p].n \in Reports, NEW mode \in {"claimed", "recovering"},
           NEW sess, NEW checkpoint \in Checkpoints, NEW debt \in Nat,
           NEW local, local = Completing(p, mode, sess, checkpoint, debt)
    PROVE  Able(local)
  <1>1. local \in Completers /\ local.pc = "reserve-next"
    BY CompletingIs
  <1> QED BY <1>1 DEF Able, AnyLocals

LEMMA RecoverPendingSound ==
    ASSUME Sound, NEW p \in Processes, RecoverPending(p)
    PROVE  Sound'
  <1>1. PICK old : old = proc[p]
    OBVIOUS
  <1>2. PICK claiming : claiming = [pc |-> "claim", n |-> old.n]
    OBVIOUS
  <1>3. /\ old.pc = "recover" /\ UNCHANGED <<session, account, holds, charges, env>>
        /\ \/ Goto(p, Idle) \/ Goto(p, claiming)
           \/ \E row \in FurthestPending(old.sess) :
                 Goto(p, Completing(p, "recovering", old.sess, row.checkpoint, row.debt))
    BY <1>1, <1>2 DEF RecoverPending, At
  <1>4. old \in Readers /\ old.n \in Reports
    BY <1>1, <1>3, SoundAt, AnyKinds DEF Readers
  <1>5. CASE Goto(p, Idle)
    BY <1>3, <1>5, SoundIdle
  <1>6. CASE Goto(p, claiming)
    BY <1>2, <1>3, <1>4, <1>6, SoundGoto, ClaimantIsAble
  <1>7. CASE \E row \in FurthestPending(old.sess) :
                Goto(p, Completing(p, "recovering", old.sess, row.checkpoint, row.debt))
    <2>1. PICK row \in FurthestPending(old.sess) :
                Goto(p, Completing(p, "recovering", old.sess, row.checkpoint, row.debt))
      BY <1>7
    <2>2. row \in charges /\ row.checkpoint # None
      BY <2>1 DEF FurthestPending, PendingRows
    <2>3. row.checkpoint \in Checkpoints /\ row.debt \in Nat
      BY <2>2 DEF Sound, SoundRows, RowTyped
    <2>4. PICK local : local = Completing(p, "recovering", old.sess, row.checkpoint, row.debt)
      OBVIOUS
    <2>5. Able(local)
      BY <1>1, <1>4, <2>3, <2>4, CompletingIsAble
    <2> QED BY <1>3, <2>1, <2>4, <2>5, SoundGoto
  <1> QED BY <1>3, <1>5, <1>6, <1>7

LEMMA AfterRecoverySound ==
    ASSUME Sound, NEW p \in Processes, AfterRecovery(p)
    PROVE  Sound'
  <1>1. PICK old : old = proc[p]
    OBVIOUS
  <1>2. PICK claiming : claiming = [pc |-> "claim", n |-> old.n]
    OBVIOUS
  <1>3. /\ old.pc = "recovered" /\ UNCHANGED <<session, account, holds, charges, env>>
        /\ Goto(p, Idle) \/ Goto(p, claiming)
    BY <1>1, <1>2 DEF AfterRecovery, At
  <1>4. old.n \in Reports
    BY <1>1, <1>3, SoundAt, AnyKinds DEF Claimants
  <1>5. Able(claiming)
    BY <1>2, <1>4, ClaimantIsAble
  <1> QED BY <1>3, <1>5, SoundGoto, SoundIdle

\* A claim is taken or dropped.
LEMMA SoundRemark ==
    ASSUME Sound, NEW claim \in 0..LastReport, NEW aged \in BOOLEAN, NEW quiet \in BOOLEAN,
           session' = [session EXCEPT !.claim = claim, !.aged = aged, !.quiet = quiet]
    PROVE  SoundSession'
  <1>1. session \in Sessions
    BY DEF Sound, SoundSession
  <1>2. /\ session' \in Sessions /\ session'.status = session.status
        /\ session'.active = session.active
    BY <1>1 DEF Sessions
  <1> QED BY <1>2 DEF Sound, SoundSession

LEMMA ClaimSnapshotSound ==
    ASSUME Sound, NEW p \in Processes, ClaimSnapshot(p)
    PROVE  Sound'
  <1>1. PICK old : old = proc[p]
    OBVIOUS
  <1>2. PICK local : local = [old EXCEPT !.pc = "charge-from"]
    OBVIOUS
  <1>3. PICK quiet : quiet = (session.quiet /\ session.lastSeq = 0)
    OBVIOUS
  <1>4. PICK no : no = FALSE
    OBVIOUS
  <1>5. /\ old.pc = "claim" /\ UNCHANGED <<account, holds, charges, env>> /\ Goto(p, local)
        /\ session' = [session EXCEPT !.claim = old.n, !.aged = no, !.quiet = quiet]
    BY <1>1, <1>2, <1>3, <1>4, Zenon DEF ClaimSnapshot, At
  <1>6. old \in Claimants
    BY <1>1, <1>5, SoundAt, AnyKinds
  <1>7. Able(local) /\ old.n \in 0..LastReport
    BY <1>2, <1>6 DEF Able, AnyLocals, Claimants, Reports
  <1>8. quiet \in BOOLEAN /\ no \in BOOLEAN
    BY <1>3, <1>4
  <1>9. SoundSession'
    BY <1>5, <1>7, <1>8, SoundRemark
  <1> QED BY <1>5, <1>7, <1>9, SoundTurn

LEMMA RefuseSnapshotSound ==
    ASSUME Sound, NEW p \in Processes, RefuseSnapshot(p)
    PROVE  Sound'
  BY SoundIdle DEF RefuseSnapshot

LEMMA UnclaimSound ==
    ASSUME Sound, NEW p \in Processes, Unclaim(p)
    PROVE  Sound'
  <1>1. PICK quiet : quiet = (session.quiet /\ session.lastSeq = 0)
    OBVIOUS
  <1>2. PICK no : no = FALSE
    OBVIOUS
  <1>3. /\ UNCHANGED <<account, holds, charges, env>> /\ Goto(p, Idle)
        /\ \/ session' = session
           \/ session' = [session EXCEPT !.claim = 0, !.aged = no, !.quiet = quiet]
    BY <1>1, <1>2, Zenon DEF Unclaim
  <1>4. quiet \in BOOLEAN /\ no \in BOOLEAN
    BY <1>1, <1>2
  <1>5. 0 \in 0..LastReport
    BY BoundsAreNumbers
  <1>6. SoundSession'
    BY <1>3, <1>4, <1>5, SoundRemark DEF Sound, SoundSession
  <1> QED BY <1>3, <1>6, SoundTurn, IdleIsAble

\* What a report is charged from: the session, and the largest usage so far.
LEMMA ChargeFromIs ==
    ASSUME Sound, NEW p \in Processes, NEW old, old = proc[p], ChargeFrom(p)
    PROVE  /\ UNCHANGED <<session, account, holds, charges, env>> /\ old.pc = "charge-from"
           /\ \E local \in Chargers :
                 /\ Goto(p, local) /\ local.n = old.n /\ local.sess = session
                 /\ local.checkpoint.n = old.n
                 /\ local.checkpoint.cum = session.cum + local.delta
                 /\ local.checkpoint.cum = IF session.cum > UsageMicros(old.n) THEN session.cum
                                           ELSE UsageMicros(old.n)
  <1>1. PICK n : n = old.n
    OBVIOUS
  <1>2. PICK cum : cum = IF session.cum > UsageMicros(n) THEN session.cum ELSE UsageMicros(n)
    OBVIOUS
  <1>3. PICK delta : delta = cum - session.cum
    OBVIOUS
  <1>4. PICK c : c = [n |-> n, cum |-> cum, target |-> session.total + delta,
                      priorDebt |-> session.debt]
    OBVIOUS
  <1>5. PICK local : local = [pc |-> "charge", n |-> n, sess |-> session, delta |-> delta,
                              checkpoint |-> c]
    OBVIOUS
  <1>6. old.pc = "charge-from" /\ UNCHANGED <<session, account, holds, charges, env>>
        /\ Goto(p, local)
    BY <1>1, <1>2, <1>3, <1>4, <1>5 DEF ChargeFrom, At
  <1>7. n \in Reports /\ session \in Sessions
    BY <1>1, <1>6, SoundAt, AnyKinds DEF Claimants
  <1>8. UsageMicros(n) \in Nat
    BY <1>7 DEF UsageMicros, Reports
  <1>9. session.cum \in Nat /\ session.total \in Nat /\ session.debt \in Nat
    BY <1>7 DEF Sessions
  <1>10. cum \in Nat /\ cum >= session.cum
    BY <1>2, <1>8, <1>9
  <1>11. delta \in Nat /\ cum = session.cum + delta /\ session.total + delta \in Nat
    BY <1>3, <1>9, <1>10
  <1>12. c \in Checkpoints
    BY <1>4, <1>7, <1>9, <1>10, <1>11 DEF Checkpoints
  <1>13. local \in Chargers
    BY <1>5, <1>7, <1>11, <1>12 DEF Chargers
  <1>14. /\ local.n = n /\ local.sess = session /\ local.checkpoint.n = n
         /\ local.checkpoint.cum = cum /\ local.delta = delta
    BY <1>4, <1>5
  <1> QED BY <1>1, <1>2, <1>6, <1>11, <1>13, <1>14

LEMMA ChargeFromSound ==
    ASSUME Sound, NEW p \in Processes, ChargeFrom(p)
    PROVE  Sound'
  <1>1. PICK old : old = proc[p]
    OBVIOUS
  <1>2. /\ UNCHANGED <<session, account, holds, charges, env>>
        /\ \E local \in Chargers : Goto(p, local)
    BY <1>1, ChargeFromIs
  <1>3. PICK local \in Chargers : Goto(p, local)
    BY <1>2
  <1>4. Able(local)
    BY DEF Able, AnyLocals, Chargers
  <1> QED BY <1>2, <1>3, <1>4, SoundGoto

LEMMA ChargeNothingSound ==
    ASSUME Sound, NEW p \in Processes, ChargeNothing(p)
    PROVE  Sound'
  <1>1. PICK old : old = proc[p]
    OBVIOUS
  <1>2. PICK local : local = Completing(p, "claimed", old.sess, old.checkpoint, 0)
    OBVIOUS
  <1>3. /\ old.pc = "charge" /\ Goto(p, local)
        /\ UNCHANGED <<session, account, holds, charges, env>>
    BY <1>1, <1>2 DEF ChargeNothing, At
  <1>4. old.n \in Reports /\ old.checkpoint \in Checkpoints
    BY <1>1, <1>3, SoundAt, AnyKinds DEF Chargers
  <1>5. Able(local)
    BY <1>1, <1>2, <1>4, CompletingIsAble
  <1> QED BY <1>3, <1>5, SoundGoto

LEMMA ChargeHoldSound ==
    ASSUME Sound, NEW p \in Processes, ChargeHold(p)
    PROVE  Sound'
  <1>1. PICK old : old = proc[p]
    OBVIOUS
  <1>2. PICK k : k = old.sess.active
    OBVIOUS
  <1>3. PICK key : key = <<"settle", old.n>>
    OBVIOUS
  <1>4. PICK dropping : dropping = [pc |-> "unclaim", n |-> old.n]
    OBVIOUS
  <1>5. /\ old.pc = "charge" /\ k # None /\ UNCHANGED <<session, env>>
        /\ \/ /\ SettleOK(key, k, old.delta)
              /\ \E row \in {Settlement(key, k, old.delta, old.checkpoint, FALSE)} :
                    /\ Settle(row)
                    /\ Goto(p, Completing(p, "claimed", old.sess, old.checkpoint,
                                          Recorded(row).debt))
           \/ UNCHANGED <<charges, holds, account>> /\ Goto(p, dropping)
    BY <1>1, <1>2, <1>3, <1>4, Zenon DEF ChargeHold, At
  <1>6. old \in Chargers
    BY <1>1, <1>5, SoundAt, AnyKinds
  <1>7. old.n \in Reports /\ old.checkpoint \in Checkpoints /\ old.delta \in Nat /\ k \in HoldKeys
    BY <1>2, <1>5, <1>6 DEF Chargers, Sessions
  <1>8. CASE UNCHANGED <<charges, holds, account>> /\ Goto(p, dropping)
    BY <1>4, <1>5, <1>7, <1>8, SoundGoto, ClaimantIsAble
  <1>9. CASE /\ SettleOK(key, k, old.delta)
             /\ \E row \in {Settlement(key, k, old.delta, old.checkpoint, FALSE)} :
                   /\ Settle(row)
                   /\ Goto(p, Completing(p, "claimed", old.sess, old.checkpoint,
                                         Recorded(row).debt))
    <2>1. PICK row : /\ row = Settlement(key, k, old.delta, old.checkpoint, FALSE)
                     /\ Settle(row)
                     /\ Goto(p, Completing(p, "claimed", old.sess, old.checkpoint,
                                           Recorded(row).debt))
      BY <1>9, Zenon
    <2>2. PICK tail : tail = FALSE
      OBVIOUS
    <2>3. tail \in BOOLEAN /\ row = Settlement(key, k, old.delta, old.checkpoint, tail)
      BY <2>1, <2>2, Zenon
    <2>4. SoundRows' /\ Recorded(row).debt \in Nat
      BY <1>5, <1>7, <1>9, <2>1, <2>3, SoundSettle
    <2>5. PICK local : local = Completing(p, "claimed", old.sess, old.checkpoint,
                                          Recorded(row).debt)
      OBVIOUS
    <2>6. Able(local)
      BY <1>1, <1>7, <2>4, <2>5, CompletingIsAble
    <2>7. Goto(p, local)
      BY <2>1, <2>5
    <2> QED BY <1>5, <2>4, <2>6, <2>7, SoundWrite
  <1> QED BY <1>5, <1>8, <1>9

LEMMA ChargeTailSound ==
    ASSUME Sound, NEW p \in Processes, ChargeTail(p)
    PROVE  Sound'
  <1>1. PICK old : old = proc[p]
    OBVIOUS
  <1>2. PICK d : d = UsageDebitDeltas(account, old.delta)
    OBVIOUS
  <1>3. PICK tail : tail = FALSE
    OBVIOUS
  <1>4. PICK row : row = [key |-> <<"tail", old.n>>, hold |-> None, gross |-> old.delta,
                          debt |-> d.debt, checkpoint |-> old.checkpoint, tail |-> tail]
    OBVIOUS
  <1>5. /\ old.pc = "charge" /\ UNCHANGED <<session, holds, env>>
        /\ charges' = IF RowsOf(row.key) = {} THEN charges \cup {row} ELSE charges
        /\ account' = IF RowsOf(row.key) = {} THEN Projected(account, d) ELSE account
        /\ Goto(p, Completing(p, "claimed", old.sess, old.checkpoint, Recorded(row).debt))
    BY <1>1, <1>2, <1>3, <1>4, Zenon DEF ChargeTail, At
  <1>6. old.n \in Reports /\ old.checkpoint \in Checkpoints /\ old.delta \in Nat
    BY <1>1, <1>5, SoundAt, AnyKinds DEF Chargers
  <1>7. Wallet /\ HoldsTyped /\ \A x \in charges : RowTyped(x)
    BY DEF Sound, SoundRows
  <1>8. /\ d.paid \in Int /\ account.paid + d.paid >= 0 /\ d.promo = 0
        /\ d.reservedPaid = 0 /\ d.reservedPromo = 0 /\ d.debt \in Nat
    BY <1>2, <1>6, <1>7, Debits DEF Wallet
  <1>9. row.hold = None /\ row.gross = old.delta /\ row.debt = d.debt
        /\ row.checkpoint = old.checkpoint
    BY <1>4
  <1>10. RowTyped(row)
    BY <1>6, <1>8, <1>9 DEF RowTyped
  <1>11. HoldsTyped' /\ OpenHolds' = OpenHolds
    BY <1>5, <1>7 DEF HoldsTyped, OpenHolds, Open
  <1>12. SoundRows' /\ Recorded(row).debt \in Nat
    <2>1. CASE RowsOf(row.key) = {}
      <3>1. charges' = charges \cup {row} /\ account' = Projected(account, d) /\ Recorded(row) = row
        BY <1>5, <2>1, Zenon DEF Recorded
      <3>2. \A x \in charges' : RowTyped(x)'
        BY <1>7, <1>10, <3>1 DEF RowTyped
      <3>3. Wallet'
        <4>1. /\ account' \in Accounts /\ account'.promo = 0 /\ account'.reservedPromo = 0
              /\ account'.reservedPaid = account.reservedPaid
          BY <1>7, <1>8, <3>1 DEF Projected, Accounts, Wallet
        <4> QED BY <1>7, <1>11, <4>1 DEF Wallet
      <3> QED BY <1>8, <1>9, <1>11, <3>1, <3>2, <3>3 DEF SoundRows
    <2>2. CASE RowsOf(row.key) # {}
      <3>1. charges' = charges /\ account' = account
        BY <1>5, <2>2, Zenon
      <3>2. Recorded(row) \in RowsOf(row.key)
        BY <2>2, Zenon DEF Recorded
      <3>3. RowTyped(Recorded(row))
        BY <1>7, <3>2 DEF RowsOf
      <3>4. Wallet'
        BY <1>7, <1>11, <3>1 DEF Wallet
      <3>5. \A x \in charges' : RowTyped(x)'
        BY <1>7, <3>1 DEF RowTyped
      <3> QED BY <1>11, <3>3, <3>4, <3>5 DEF SoundRows, RowTyped
    <2> QED BY <2>1, <2>2
  <1>13. PICK local : local = Completing(p, "claimed", old.sess, old.checkpoint,
                                        Recorded(row).debt)
    OBVIOUS
  <1>14. Able(local) /\ Goto(p, local)
    BY <1>1, <1>5, <1>6, <1>12, <1>13, CompletingIsAble
  <1> QED BY <1>5, <1>12, <1>14, SoundWrite

LEMMA ReserveNextSound ==
    ASSUME Sound, NEW p \in Processes, ReserveNext(p)
    PROVE  Sound'
  <1>1. PICK old : old = proc[p]
    OBVIOUS
  <1>2. PICK stop : stop = (old.stop \/ ~Final(old.checkpoint))
    OBVIOUS
  <1>3. PICK ending : ending = [old EXCEPT !.pc = "complete", !.stop = stop]
    OBVIOUS
  <1>4. /\ old.pc = "reserve-next" /\ UNCHANGED <<session, charges, env>>
        /\ \/ \E k \in UsableKeys(old.checkpoint.n) :
                 /\ CanReserve(k) /\ Reserve(k)
                 /\ Goto(p, [old EXCEPT !.pc = "complete", !.next = k])
           \/ UNCHANGED <<holds, account>> /\ Goto(p, ending)
    BY <1>1, <1>2, <1>3, Zenon DEF ReserveNext, At
  <1>5. old \in Completers
    BY <1>1, <1>4, SoundAt, AnyKinds
  <1>6. old.checkpoint.n \in Reports
    BY <1>5 DEF Completers, Checkpoints
  <1>7. CASE \E k \in UsableKeys(old.checkpoint.n) :
                /\ CanReserve(k) /\ Reserve(k)
                /\ Goto(p, [old EXCEPT !.pc = "complete", !.next = k])
    <2>1. PICK k \in UsableKeys(old.checkpoint.n) :
                /\ CanReserve(k) /\ Reserve(k)
                /\ Goto(p, [old EXCEPT !.pc = "complete", !.next = k])
      BY <1>7
    <2>2. k \in HoldKeys /\ k # None
      BY <1>6, <2>1, AnyKeys DEF UsableKeys
    <2>3. PICK local : local = [old EXCEPT !.pc = "complete", !.next = k]
      OBVIOUS
    <2>4. local \in Completers /\ local.next = k
      BY <1>5, <2>2, <2>3 DEF Completers
    <2>5. Able(local)
      BY <2>2, <2>4 DEF Able, AnyLocals
    <2>6. SoundRows'
      BY <1>4, <2>1, <2>2, SoundReserve
    <2> QED BY <1>4, <2>1, <2>3, <2>5, <2>6, SoundWrite
  <1>8. CASE UNCHANGED <<holds, account>> /\ Goto(p, ending)
    <2>1. stop \in BOOLEAN
      BY <1>2, <1>5 DEF Completers
    <2>2. ending \in Completers /\ ending.stop = stop /\ ending.checkpoint = old.checkpoint
      BY <1>3, <1>5, <2>1 DEF Completers
    <2>3. ending.stop \/ Final(ending.checkpoint)
      BY <1>2, <2>2
    <2>4. Able(ending)
      BY <2>2, <2>3 DEF Able, AnyLocals
    <2> QED BY <1>4, <1>8, <2>4, SoundGoto
  <1> QED BY <1>4, <1>7, <1>8

LEMMA CompleteCheckpointSound ==
    ASSUME Sound, NEW p \in Processes, CompleteCheckpoint(p)
    PROVE  Sound'
  <1>1. PICK old : old = proc[p]
    OBVIOUS
  <1>2. PICK c : c = old.checkpoint
    OBVIOUS
  <1>3. PICK no : no = FALSE
    OBVIOUS
  <1>4. PICK status : status = CompletedStatus(old)
    OBVIOUS
  <1>5. PICK dropping, recovered : /\ dropping = [pc |-> "unclaim", n |-> old.n]
                                   /\ recovered = [pc |-> "recovered", n |-> old.n]
    OBVIOUS
  <1>6. /\ old.pc = "complete" /\ UNCHANGED <<account, holds, charges, env>>
        /\ \/ session' = session
           \/ session' = [session EXCEPT !.status = status, !.lastSeq = c.n, !.claim = 0,
                                         !.aged = no, !.quiet = no, !.cum = c.cum,
                                         !.total = c.target, !.debt = c.priorDebt + old.debt,
                                         !.active = old.next]
        /\ Goto(p, dropping) \/ Goto(p, recovered) \/ Goto(p, Idle)
    BY <1>1, <1>2, <1>3, <1>4, <1>5, Zenon DEF CompleteCheckpoint, At
  <1>7. old \in Completers /\ Able(old)
    BY <1>1, <1>6, SoundAt, AnyKinds
  <1>8. Able(dropping) /\ Able(recovered) /\ Able(Idle)
    BY <1>5, <1>7, ClaimantIsAble, IdleIsAble DEF Completers
  <1>9. status \in {"RECONCILING", "DEBT", "SETTLED", "ACTIVE"}
        /\ (status = "ACTIVE" => old.next # None)
    BY <1>4, <1>6, <1>7, Zenon DEF CompletedStatus, Able
  <1>10. /\ c.n \in 0..LastReport /\ c.cum \in Nat /\ c.target \in Nat
         /\ c.priorDebt + old.debt \in Nat /\ old.next \in HoldKeys \cup {None}
    <2>1. c \in Checkpoints /\ old.debt \in Nat /\ old.next \in HoldKeys \cup {None}
      BY <1>2, <1>7 DEF Completers
    <2> QED BY <2>1 DEF Checkpoints, Reports
  <1>11. SoundSession'
    <2>1. 0 \in 0..LastReport
      BY BoundsAreNumbers
    <2>2. no \in BOOLEAN
      BY <1>3
    <2>3. CASE session' = session
      BY <2>3 DEF Sound, SoundSession
    <2>4. CASE session' = [session EXCEPT !.status = status, !.lastSeq = c.n, !.claim = 0,
                                         !.aged = no, !.quiet = no, !.cum = c.cum,
                                         !.total = c.target, !.debt = c.priorDebt + old.debt,
                                         !.active = old.next]
      BY <1>9, <1>10, <2>1, <2>2, <2>4 DEF Sound, SoundSession, Sessions
    <2> QED BY <1>6, <2>3, <2>4
  <1> QED BY <1>6, <1>8, <1>11, SoundTurn

LEMMA SpotSilentCallSound ==
    ASSUME Sound, NEW p \in Processes, SpotSilentCall(p)
    PROVE  Sound'
  <1>1. PICK reported : reported = (session.lastSeq > 0)
    OBVIOUS
  <1>2. PICK local : local = [pc |-> "settle-silent", hold |-> session.active,
                              reported |-> reported]
    OBVIOUS
  <1>3. /\ session.status = "ACTIVE" /\ Goto(p, local)
        /\ UNCHANGED <<session, account, holds, charges, env>>
    BY <1>1, <1>2, Zenon DEF SpotSilentCall
  <1>4. session.active \in HoldKeys
    BY <1>3, SoundAt DEF SoundSession
  <1>5. reported \in BOOLEAN
    BY <1>1
  <1>6. Able(local)
    BY <1>2, <1>4, <1>5 DEF Able, AnyLocals, Silencers
  <1> QED BY <1>3, <1>6, SoundGoto

LEMMA SpotExpiredSound ==
    ASSUME Sound, NEW p \in Processes, SpotExpired(p)
    PROVE  Sound'
  <1>1. PICK k \in HoldKeys :
           /\ UNCHANGED <<session, account, holds, charges, env>>
           /\ Goto(p, [pc |-> IF (session.status = "ACTIVE" /\ session.active = k)
                                 /\ session.lastSeq > 0
                              THEN "settle-tail" ELSE "release-expired",
                       hold |-> k])
    BY DEF SpotExpired
  <1>2. PICK pc : pc = IF (session.status = "ACTIVE" /\ session.active = k)
                          /\ session.lastSeq > 0
                       THEN "settle-tail" ELSE "release-expired"
    OBVIOUS
  <1>3. PICK local : local = [pc |-> pc, hold |-> k]
    OBVIOUS
  <1>4. Goto(p, local)
    BY <1>1, <1>2, <1>3, Zenon
  <1>5. pc \in {"settle-tail", "release-expired"}
    BY <1>2, Zenon
  <1>6. Able(local)
    BY <1>3, <1>5 DEF Able, AnyLocals, Expirers
  <1> QED BY <1>1, <1>4, <1>6, SoundGoto

\* A sweep that keeps a hold whole.
LEMMA SoundKeep ==
    ASSUME Sound, NEW p \in Processes, NEW key, NEW k \in HoldKeys, NEW tail \in BOOLEAN,
           SettleOK(key, k, HoldMicros),
           \E row \in {Settlement(key, k, HoldMicros, None, tail)} : Settle(row),
           NEW local, Goto(p, local), Able(local), UNCHANGED <<session, env>>
    PROVE  Sound'
  <1>1. PICK row : row = Settlement(key, k, HoldMicros, None, tail) /\ Settle(row)
    BY Zenon
  <1>2. PICK gross, checkpoint : gross = HoldMicros /\ checkpoint = None
    OBVIOUS
  <1>3. gross \in Nat /\ checkpoint \in Checkpoints \cup {None}
    BY <1>2, BoundsAreNumbers
  <1>4. row = Settlement(key, k, gross, checkpoint, tail) /\ SettleOK(key, k, gross)
    BY <1>1, <1>2
  <1>5. SoundRows'
    BY <1>1, <1>3, <1>4, SoundSettle
  <1> QED BY <1>5, SoundWrite

LEMMA SettleSilentSound ==
    ASSUME Sound, NEW p \in Processes, SettleSilent(p)
    PROVE  Sound'
  <1>1. PICK old : old = proc[p]
    OBVIOUS
  <1>2. PICK k, key, tail : k = old.hold /\ key = <<"silent", old.hold>> /\ tail = old.reported
    OBVIOUS
  <1>3. PICK local : local = [old EXCEPT !.pc = "end-silent"]
    OBVIOUS
  <1>4. /\ old.pc = "settle-silent" /\ UNCHANGED <<session, env>>
        /\ \/ /\ SettleOK(key, k, HoldMicros)
              /\ \E row \in {Settlement(key, k, HoldMicros, None, tail)} : Settle(row)
              /\ Goto(p, local)
           \/ UNCHANGED <<charges, holds, account>> /\ Goto(p, Idle)
    BY <1>1, <1>2, <1>3, Zenon DEF SettleSilent, At
  <1>5. old \in Silencers
    BY <1>1, <1>4, SoundAt, AnyKinds
  <1>6. k \in HoldKeys /\ tail \in BOOLEAN /\ Able(local)
    BY <1>2, <1>3, <1>5 DEF Able, AnyLocals, Silencers
  <1>7. CASE /\ SettleOK(key, k, HoldMicros)
             /\ \E row \in {Settlement(key, k, HoldMicros, None, tail)} : Settle(row)
             /\ Goto(p, local)
    BY <1>4, <1>6, <1>7, SoundKeep
  <1>8. CASE UNCHANGED <<charges, holds, account>> /\ Goto(p, Idle)
    BY <1>4, <1>8, SoundIdle
  <1> QED BY <1>4, <1>7, <1>8

LEMMA SettleTailSound ==
    ASSUME Sound, NEW p \in Processes, SettleTail(p)
    PROVE  Sound'
  <1>1. PICK old : old = proc[p]
    OBVIOUS
  <1>2. PICK k, key, tail : k = old.hold /\ key = <<"expired-tail", old.hold>> /\ tail = TRUE
    BY Zenon
  <1>3. PICK local : local = [old EXCEPT !.pc = "apply-tail"]
    OBVIOUS
  <1>4. /\ old.pc = "settle-tail" /\ UNCHANGED <<session, env>>
        /\ \/ /\ SettleOK(key, k, HoldMicros)
              /\ \E row \in {Settlement(key, k, HoldMicros, None, tail)} : Settle(row)
              /\ Goto(p, local)
           \/ UNCHANGED <<charges, holds, account>> /\ Goto(p, Idle)
    BY <1>1, <1>2, <1>3, Zenon DEF SettleTail, At
  <1>5. old \in Expirers
    BY <1>1, <1>4, SoundAt, AnyKinds
  <1>6. k \in HoldKeys /\ Able(local)
    BY <1>2, <1>3, <1>5 DEF Able, AnyLocals, Expirers
  <1>7. tail \in BOOLEAN
    BY <1>2
  <1>8. CASE /\ SettleOK(key, k, HoldMicros)
             /\ \E row \in {Settlement(key, k, HoldMicros, None, tail)} : Settle(row)
             /\ Goto(p, local)
    BY <1>4, <1>6, <1>7, <1>8, SoundKeep
  <1>9. CASE UNCHANGED <<charges, holds, account>> /\ Goto(p, Idle)
    BY <1>4, <1>9, SoundIdle
  <1> QED BY <1>4, <1>8, <1>9

LEMMA ReleaseExpiredSound ==
    ASSUME Sound, NEW p \in Processes, ReleaseExpired(p)
    PROVE  Sound'
  <1>1. PICK old : old = proc[p]
    OBVIOUS
  <1>2. PICK key : key = <<"expired", old.hold>>
    OBVIOUS
  <1>3. PICK local : local = [old EXCEPT !.pc = "end-expired"]
    OBVIOUS
  <1>4. /\ old.pc = "release-expired" /\ UNCHANGED <<session, charges, env>>
        /\ Release(old.hold, key) /\ Goto(p, local)
    BY <1>1, <1>2, <1>3, Zenon DEF ReleaseExpired, At
  <1>5. old \in Expirers
    BY <1>1, <1>4, SoundAt, AnyKinds
  <1>6. old.hold \in HoldKeys /\ Able(local)
    BY <1>3, <1>5 DEF Able, AnyLocals, Expirers
  <1>7. SoundRows'
    BY <1>4, <1>6, SoundRelease
  <1> QED BY <1>4, <1>6, <1>7, SoundWrite

\* Time.
LEMMA TimeIsTyped ==
    ASSUME env \in Envs, LongTimePasses
    PROVE  env' \in Envs
  <1>1. PICK stalled : stalled = (env.stalled \/ ~(\A q \in Processes : At(q, "idle")))
    OBVIOUS
  <1>2. env' = [env EXCEPT !.stalled = stalled]
    BY <1>1, Zenon DEF LongTimePasses
  <1>3. stalled \in BOOLEAN
    BY <1>1
  <1> QED BY <1>2, <1>3 DEF Envs

LEMMA HoldExpiresSound ==
    ASSUME Sound, NEW k \in HoldKeys, HoldExpires(k)
    PROVE  Sound'
  <1>1. PICK late : late = TRUE
    BY Zenon
  <1>2. /\ holds' = [holds EXCEPT ![k].late = late] /\ LongTimePasses /\ Open(k)
        /\ UNCHANGED <<session, account, charges, proc>>
    BY <1>1, Zenon DEF HoldExpires, Open
  <1>3. HoldsTyped /\ Wallet /\ \A row \in charges : RowTyped(row)
    BY DEF Sound, SoundRows
  <1>4. late \in BOOLEAN
    BY <1>1
  <1>5. HoldsTyped' /\ \A j \in HoldKeys : holds'[j].status = holds[j].status
    BY <1>2, <1>3, <1>4 DEF HoldsTyped
  <1>6. OpenHolds' = OpenHolds
    BY <1>5 DEF OpenHolds, Open
  <1>7. SoundRows'
    BY <1>2, <1>3, <1>5, <1>6 DEF SoundRows, Wallet, RowTyped
  <1>8. SoundSession' /\ SoundProcs' /\ env' \in Envs
    BY <1>2, TimeIsTyped DEF Sound, SoundSession, SoundProcs
  <1> QED BY <1>7, <1>8 DEF Sound

LEMMA SessionTimeSound ==
    ASSUME Sound, LongTimePasses, UNCHANGED <<account, holds, charges, proc>>, NEW yes \in BOOLEAN,
           \/ session' = [session EXCEPT !.aged = yes]
           \/ session' = [session EXCEPT !.quiet = yes]
    PROVE  Sound'
  <1>1. SoundSession'
    BY DEF Sound, SoundSession, Sessions
  <1>2. SoundRows' /\ SoundProcs' /\ env' \in Envs
    BY TimeIsTyped DEF Sound, SoundRows, SoundProcs, HoldsTyped, Wallet, OpenHolds, Open
  <1> QED BY <1>1, <1>2 DEF Sound

LEMMA SoundTime ==
    ASSUME Sound, ClaimAges \/ CallFallsSilent
    PROVE  Sound'
  <1>1. PICK yes : yes = TRUE
    BY Zenon
  <1>2. /\ LongTimePasses /\ UNCHANGED <<account, holds, charges, proc>>
        /\ \/ session' = [session EXCEPT !.aged = yes]
           \/ session' = [session EXCEPT !.quiet = yes]
    BY <1>1, Zenon DEF ClaimAges, CallFallsSilent
  <1>3. yes \in BOOLEAN
    BY <1>1
  <1> QED BY <1>2, <1>3, SessionTimeSound

LEMMA CrashSound ==
    ASSUME Sound, NEW p \in Processes, Crash(p)
    PROVE  Sound'
  <1>1. /\ env.crashes < MaxCrashes /\ env' = [env EXCEPT !.crashes = @ + 1]
        /\ Goto(p, Idle) /\ UNCHANGED <<session, account, holds, charges>>
    BY DEF Crash
  <1>2. SoundProcs'
    BY <1>1, IdleIsAble, SoundMove DEF Sound
  <1>3. env' \in Envs
    BY <1>1, BoundsAreNumbers DEF Sound, Envs
  <1>4. SoundSession' /\ SoundRows'
    BY <1>1 DEF Sound, SoundSession, SoundRows, HoldsTyped, Wallet, OpenHolds, Open
  <1> QED BY <1>2, <1>3, <1>4 DEF Sound

LEMMA SoundStutter ==
    ASSUME Sound, UNCHANGED vars
    PROVE  Sound'
  BY DEF Sound, SoundSession, SoundRows, SoundProcs, HoldsTyped, Wallet, OpenHolds, Open, vars

LEMMA ContinueSound ==
    ASSUME Sound, NEW p \in Processes, Continue(p)
    PROVE  Sound'
  <1>1. CASE ReserveAdmission(p) \/ Admit(p) \/ DropAdmission(p)
    BY <1>1, ReserveAdmissionSound, AdmitSound, DropAdmissionSound
  <1>2. CASE ReleaseCanceled(p) \/ EndCanceled(p)
    BY <1>2, ReleaseCanceledSound, EndCanceledSound
  <1>3. CASE RecoverPending(p) \/ AfterRecovery(p)
    BY <1>3, RecoverPendingSound, AfterRecoverySound
  <1>4. CASE ClaimSnapshot(p) \/ RefuseSnapshot(p) \/ ChargeFrom(p)
    BY <1>4, ClaimSnapshotSound, RefuseSnapshotSound, ChargeFromSound
  <1>5. CASE ChargeHold(p) \/ ChargeTail(p) \/ ChargeNothing(p)
    BY <1>5, ChargeHoldSound, ChargeTailSound, ChargeNothingSound
  <1>6. CASE ReserveNext(p) \/ CompleteCheckpoint(p) \/ Unclaim(p)
    BY <1>6, ReserveNextSound, CompleteCheckpointSound, UnclaimSound
  <1> QED BY <1>1, <1>2, <1>3, <1>4, <1>5, <1>6 DEF Continue

LEMMA SweepSound ==
    ASSUME Sound, NEW p \in Processes, Sweep(p)
    PROVE  Sound'
  <1>1. CASE SpotSilentCall(p) \/ SettleSilent(p) \/ EndSilent(p)
    BY <1>1, SpotSilentCallSound, SettleSilentSound, EndSilentSound
  <1>2. CASE SpotExpired(p) \/ SettleTail(p) \/ ApplyTail(p) \/ RepairSettledTail(p)
    BY <1>2, SpotExpiredSound, SettleTailSound, ApplyTailSound, RepairSettledTailSound
  <1>3. CASE ReleaseExpired(p) \/ EndExpired(p)
    BY <1>3, ReleaseExpiredSound, EndExpiredSound
  <1> QED BY <1>1, <1>2, <1>3 DEF Sweep

LEMMA StepIsSound == Sound /\ [Next]_vars => Sound'
  <1> SUFFICES ASSUME Sound, [Next]_vars
               PROVE  Sound'
    OBVIOUS
  <1>1. CASE \E p \in Requests : Request(p)
    <2>1. PICK p \in Processes : Request(p)
      BY <1>1 DEF Processes
    <2>2. CASE Authorize(p) \/ CancelAdmission(p)
      BY <2>2, AuthorizeSound, CancelAdmissionSound
    <2>3. CASE \E n \in Reports : ReceiveSnapshot(p, n)
      BY <2>3, ReceiveSnapshotSound
    <2>4. CASE Continue(p)
      BY <2>4, ContinueSound
    <2> QED BY <2>1, <2>2, <2>3, <2>4 DEF Request
  <1>2. CASE \E n \in Reports : PersistDeniedProviderSession(n)
    BY <1>2, PersistDeniedSound
  <1>3. CASE \E p \in Sweepers : Sweep(p)
    BY <1>3, SweepSound DEF Processes
  <1>4. CASE \E k \in HoldKeys : HoldExpires(k)
    BY <1>4, HoldExpiresSound
  <1>5. CASE ClaimAges \/ CallFallsSilent
    BY <1>5, SoundTime
  <1>6. CASE \E p \in Processes : Crash(p)
    BY <1>6, CrashSound
  <1>7. CASE UNCHANGED vars
    BY <1>7, SoundStutter
  <1> QED BY <1>1, <1>2, <1>3, <1>4, <1>5, <1>6, <1>7 DEF Next

LEMMA InitIsSound ==
    ASSUME Init
    PROVE  Sound
  <1>1. session = NoSession /\ charges = {} /\ proc = [p \in Processes |-> Idle]
    BY DEF Init
  <1>2. SoundSession
    <2>1. session.status = "NONE"
      BY <1>1 DEF NoSession
    <2> QED BY <2>1, Starts DEF SoundSession
  <1>3. SoundRows
    BY <1>1, Starts DEF SoundRows
  <1>4. SoundProcs
    <2>1. \A p \in Processes : proc[p] = Idle
      BY <1>1
    <2>2. \A p \in Processes : Able(proc[p])
      BY <2>1, IdleIsAble
    <2> QED BY <1>1, <2>1, <2>2 DEF SoundProcs
  <1> QED BY <1>2, <1>3, <1>4, Starts DEF Sound

LEMMA SoundTypes ==
    ASSUME Sound
    PROVE  TypeOK
  BY DEF Sound, SoundSession, SoundRows, Wallet, HoldsTyped, RowTyped, Envs, Sessions, TypeOK

LEMMA AlwaysSound == Spec => []Sound
  <1>1. Init => Sound
    BY InitIsSound
  <1>2. Sound /\ [Next]_vars => Sound'
    BY StepIsSound
  <1> QED BY <1>1, <1>2, PTL DEF Spec

-----------------------------------------------------------------------------
(* Usage is charged once while there is a hold, whoever stalls.            *)

\* One admission, and reports that each bring new usage.
Fresh == Generations = 1 /\ Lulls \cap Reports = {}

AllReserved == \A row \in UsageRows : row.hold # None
Paid == Gross(UsageRows)

Begun == /\ session.gen = 0 <=> session.status = "NONE"
         /\ session.gen = 0 => session = NoSession /\ charges = {}

\* A row the session is still to be told of is the last one charged.
Latest(row) == /\ row.checkpoint.cum = row.checkpoint.n /\ row.checkpoint.cum = Paid
               /\ session.active \in {row.hold, None}
PaidRow(row) ==
    /\ row.hold \in HoldKeys /\ Terminal(row.hold)
    /\ row.checkpoint = None =>
          row.key \in {<<"silent", row.hold>>, <<"expired-tail", row.hold>>}
    /\ row.checkpoint # None =>
          /\ row.key = <<"settle", row.checkpoint.n>> /\ row.checkpoint.cum <= Paid
          /\ row.checkpoint.n > session.lastSeq => Latest(row)
PaidRows == /\ IsFiniteSet(charges)
            /\ \A row \in charges : PaidRow(row)
            /\ UsageRows # {} => \E row \in UsageRows : row.checkpoint.cum = Paid

\* A session with an open hold knows of all that has been charged.
Informed == /\ session.cum <= session.lastSeq
            /\ session.active # None =>
                  Made(session.active) /\ (Open(session.active) => session.cum = Paid)

\* What a process knows, however long ago it read the session.
KnowsCall(l) ==
    /\ l.pc \in {"recover", "claim", "recovered", "charge-from", "charge", "unclaim",
                 "reserve-next", "complete", "settle-tail", "settle-silent"} => session.gen = 1
    /\ l.pc = "admit" => Made(InitialKey(l.gen))
    /\ l.pc \in {"cancel", "release-expired"} => Made(l.hold)
    /\ l.pc \in {"end-canceled", "end-expired", "end-silent", "apply-tail"} => Terminal(l.hold)
KnowsCharge(l) ==
    l.pc = "charge" =>
        /\ l.checkpoint.n = l.n /\ l.checkpoint.cum = l.sess.cum + l.delta
        /\ l.n > session.lastSeq => l.checkpoint.cum = l.n /\ l.delta # 0
        /\ l.sess.active # None => \/ Terminal(l.sess.active)
                                   \/ /\ session.active = l.sess.active
                                      /\ session.cum = l.sess.cum
KnowsCompletion(l) ==
    l.pc \in {"reserve-next", "complete"} =>
        /\ l.checkpoint.n > session.lastSeq =>
              /\ l.checkpoint.cum = l.checkpoint.n
              /\ \E row \in UsageRows : row.checkpoint.n = l.checkpoint.n
        /\ l.next # None => Made(l.next)
Knows(l) == KnowsCall(l) /\ KnowsCharge(l) /\ KnowsCompletion(l)

Metered == Begun /\ PaidRows /\ Informed /\ \A p \in Processes : Knows(proc[p])

\* Nothing a process relies on is undone.
Onward ==
    /\ session.gen = 1 => session'.gen = 1
    /\ session.lastSeq <= session'.lastSeq
    /\ charges \subseteq charges'
    /\ \A k \in HoldKeys :
          /\ Made(k) => Made(k)'
          /\ Terminal(k) => Terminal(k)'
          /\ session.active = k /\ ~Terminal(k)' =>
                session'.active = k /\ session'.cum = session.cum

LEMMA KnowsStays ==
    ASSUME Onward, session \in Sessions, session' \in Sessions, NEW l \in AnyLocals, Knows(l)
    PROVE  Knows(l)'
  <1>1. l.pc = "admit" => InitialKey(l.gen) \in HoldKeys
    BY AnyKinds, AnyKeys DEF Callers
  <1>2. l.pc \in {"cancel", "end-canceled", "release-expired", "end-expired", "end-silent",
                  "apply-tail"} => l.hold \in HoldKeys
    BY AnyKinds DEF Leavers, Silencers, Expirers
  <1>3. KnowsCall(l)'
    BY <1>1, <1>2 DEF Knows, KnowsCall, Onward
  <1>4. session.lastSeq \in Nat /\ session'.lastSeq \in Nat
    BY DEF Sessions
  <1>5. KnowsCharge(l)'
    <2>1. l.pc = "charge" => l.sess.active \in HoldKeys \cup {None} /\ l.n \in Nat
      BY AnyKinds DEF Chargers, Sessions, Reports
    <2> QED BY <1>4, <2>1 DEF Knows, KnowsCharge, Onward
  <1>6. KnowsCompletion(l)'
    <2>1. l.pc \in {"reserve-next", "complete"} =>
             l.next \in HoldKeys \cup {None} /\ l.checkpoint.n \in Nat
      BY AnyKinds DEF Completers, Checkpoints, Reports
    <2>2. UsageRows \subseteq UsageRows'
      BY DEF Onward, UsageRows
    <2> QED BY <1>4, <2>1, <2>2 DEF Knows, KnowsCompletion, Onward
  <1> QED BY <1>3, <1>5, <1>6 DEF Knows

LEMMA IdleKnows == Knows(Idle)'
  BY DEF Knows, KnowsCall, KnowsCharge, KnowsCompletion, Idle

\* One process moves, and what the others know stays.
LEMMA MeterMove ==
    ASSUME Sound, Sound', Metered, Onward, Begun', PaidRows', Informed',
           NEW p \in Processes, NEW local, Goto(p, local), Knows(local)'
    PROVE  Metered'
  <1>1. proc'[p] = local /\ \A q \in Processes \ {p} : proc'[q] = proc[q]
    BY DEF Sound, SoundProcs, Goto
  <1>2. session \in Sessions /\ session' \in Sessions
    BY DEF Sound, SoundSession
  <1>3. ASSUME NEW q \in Processes PROVE Knows(proc[q])'
    <2>1. PICK l : l = proc'[q]
      OBVIOUS
    <2>2. Knows(l)'
      <3>1. CASE q = p
        BY <1>1, <2>1, <3>1
      <3>2. CASE q # p
        <4>1. l \in AnyLocals /\ Knows(l)
          BY <1>1, <2>1, <3>2, SoundAt DEF Metered
        <4> QED BY <1>2, <4>1, KnowsStays
      <3> QED BY <3>1, <3>2
    <2> QED BY <2>1, <2>2
  <1> QED BY <1>3 DEF Metered

LEMMA MeterStay ==
    ASSUME Sound, Sound', Metered, Onward, Begun', PaidRows', Informed', UNCHANGED proc
    PROVE  Metered'
  <1>1. session \in Sessions /\ session' \in Sessions
    BY DEF Sound, SoundSession
  <1>2. ASSUME NEW q \in Processes PROVE Knows(proc[q])'
    <2>1. PICK l : l = proc[q]
      OBVIOUS
    <2>2. l \in AnyLocals /\ Knows(l)
      BY <2>1, SoundAt DEF Metered
    <2>3. Knows(l)'
      BY <1>1, <2>2, KnowsStays
    <2> QED BY <2>1, <2>3
  <1> QED BY <1>2 DEF Metered

\* Steps that charge nothing and leave the session where it is.
Aside ==
    /\ UNCHANGED charges
    /\ session'.lastSeq = session.lastSeq /\ session'.cum = session.cum
    /\ session'.gen = session.gen /\ session'.active = session.active
    /\ session'.status = "NONE" <=> session.status = "NONE"
    /\ session.gen = 0 => UNCHANGED session
    /\ \A k \in HoldKeys : /\ Made(k) => Made(k)'
                           /\ Terminal(k) => Terminal(k)'
                           /\ Made(k) /\ Open(k)' => Open(k)

LEMMA AsideKeeps ==
    ASSUME Sound, Metered, Aside
    PROVE  Onward /\ Begun' /\ PaidRows' /\ Informed'
  <1>1. session \in Sessions /\ session.lastSeq \in Nat
    BY DEF Sound, SoundSession, Sessions
  <1>2. Onward
    BY <1>1 DEF Aside, Onward
  <1>3. Begun'
    BY DEF Aside, Begun, Metered
  <1>4. UsageRows' = UsageRows /\ Paid' = Paid
    BY DEF Aside, UsageRows, Paid
  <1>5. PaidRows'
    <2>1. ASSUME NEW row \in charges PROVE PaidRow(row)'
      <3>1. PaidRow(row)
        BY DEF Metered, PaidRows
      <3> QED BY <1>4, <3>1 DEF PaidRow, Latest, Aside
    <2> QED BY <1>4, <2>1 DEF PaidRows, Metered, Aside
  <1>6. Informed'
    <2>1. session.active \in HoldKeys \cup {None}
      BY <1>1 DEF Sessions
    <2> QED BY <1>4, <2>1 DEF Informed, Metered, Aside
  <1> QED BY <1>2, <1>3, <1>5, <1>6

LEMMA AsideMeters ==
    ASSUME Sound, Sound', Metered, Aside, NEW p \in Processes, NEW local, Goto(p, local),
           Knows(local)'
    PROVE  Metered'
  BY AsideKeeps, MeterMove

LEMMA NothingAside == UNCHANGED <<session, holds, charges>> => Aside
  BY DEF Aside, Made, Terminal, Open

LEMMA ReserveAside ==
    ASSUME Sound, NEW k \in HoldKeys, CanReserve(k), Reserve(k),
           UNCHANGED <<session, charges, env>>
    PROVE  Aside /\ Made(k)'
  <1>1. Reserves(k)
    BY ReserveStep DEF Sound, SoundRows
  <1> QED BY <1>1 DEF Reserves, Aside, Made, Terminal, Open

LEMMA ReleaseAside ==
    ASSUME Sound, NEW k \in HoldKeys, NEW key, Release(k, key), UNCHANGED <<session, charges>>
    PROVE  Aside /\ (Made(k) => Terminal(k)')
  <1>1. CASE Open(k)
    <2>1. Closes(k)
      BY <1>1, ReleaseStep DEF Sound, SoundRows
    <2>2. \A j \in HoldKeys : /\ Made(j) => Made(j)'
                              /\ Open(j)' => Open(j)
                              /\ Terminal(j) => Terminal(j)'
      BY <2>1, Closing
    <2> QED BY <2>1, <2>2 DEF Closes, Aside
  <1>2. CASE ~Open(k)
    <2>1. UNCHANGED holds
      BY <1>2 DEF Release, Open
    <2>2. Made(k) => Terminal(k)'
      BY <1>2, <2>1 DEF Made, Open, Terminal, Sound, SoundRows, HoldsTyped
    <2> QED BY <2>1, <2>2, NothingAside
  <1> QED BY <1>1, <1>2

LEMMA MeterAt ==
    ASSUME Fresh, Sound, Metered, NEW p \in Processes, NEW old, old = proc[p]
    PROVE  /\ old \in AnyLocals /\ Knows(old) /\ session \in Sessions
           /\ session.gen \in {0, 1} /\ (session.gen = 0 <=> session.status = "NONE")
           /\ session.gen = 0 => session = NoSession /\ charges = {} /\ session.active = None
           /\ session.active \in HoldKeys \cup {None}
           /\ session.active # None => Made(session.active) /\ session.gen = 1
  <1>1. old \in AnyLocals /\ session \in Sessions /\ session.active \in HoldKeys \cup {None}
        /\ session.gen \in 0..Generations
    BY SoundAt
  <1>2. session.gen \in {0, 1}
    BY <1>1 DEF Fresh
  <1>3. session.gen = 0 => session = NoSession /\ charges = {} /\ session.active = None
    BY DEF Metered, Begun, NoSession
  <1> QED BY <1>1, <1>2, <1>3 DEF Metered, Begun, Informed

LEMMA IdleMeters ==
    ASSUME Sound, Sound', Metered, NEW p \in Processes, Goto(p, Idle),
           UNCHANGED <<session, holds, charges>>
    PROVE  Metered'
  BY IdleKnows, NothingAside, AsideMeters

-----------------------------------------------------------------------------
(* Each action keeps the count.                                            *)

LEMMA AuthorizeMeters ==
    ASSUME Fresh, Sound, Sound', Metered, NEW p \in Processes, Authorize(p)
    PROVE  Metered'
  <1>1. PICK local : local = [pc |-> "reserve-admission", from |-> session.status,
                              gen |-> session.gen + 1]
    OBVIOUS
  <1>2. Goto(p, local) /\ UNCHANGED <<session, holds, charges>>
    BY <1>1 DEF Authorize
  <1>3. local.pc = "reserve-admission"
    BY <1>1
  <1>4. Knows(local)'
    BY <1>3 DEF Knows, KnowsCall, KnowsCharge, KnowsCompletion
  <1> QED BY <1>2, <1>4, NothingAside, AsideMeters

LEMMA ReserveAdmissionMeters ==
    ASSUME Fresh, Sound, Sound', Metered, NEW p \in Processes, ReserveAdmission(p)
    PROVE  Metered'
  <1>1. PICK old : old = proc[p]
    OBVIOUS
  <1>2. PICK k : k = InitialKey(old.gen)
    OBVIOUS
  <1>3. PICK local : local = [old EXCEPT !.pc = "admit"]
    OBVIOUS
  <1>4. /\ old.pc = "reserve-admission" /\ UNCHANGED <<session, charges, env>>
        /\ \/ CanReserve(k) /\ Reserve(k) /\ Goto(p, local)
           \/ UNCHANGED <<holds, account>> /\ Goto(p, Idle)
    BY <1>1, <1>2, <1>3, Zenon DEF ReserveAdmission, At
  <1>5. old \in Callers
    BY <1>1, <1>4, SoundAt, AnyKinds
  <1>6. k \in HoldKeys /\ local.pc = "admit" /\ local.gen = old.gen
    BY <1>2, <1>3, <1>5, AnyKeys DEF Callers
  <1>7. CASE CanReserve(k) /\ Reserve(k) /\ Goto(p, local)
    <2>1. Aside /\ Made(k)'
      BY <1>4, <1>6, <1>7, ReserveAside
    <2>2. Made(InitialKey(local.gen))'
      BY <1>2, <1>6, <2>1
    <2>3. Knows(local)'
      BY <1>6, <2>2 DEF Knows, KnowsCall, KnowsCharge, KnowsCompletion
    <2> QED BY <1>7, <2>1, <2>3, AsideMeters
  <1>8. CASE UNCHANGED <<holds, account>> /\ Goto(p, Idle)
    BY <1>4, <1>8, IdleMeters
  <1> QED BY <1>4, <1>7, <1>8

\* The session begins, with a hold or without one; nothing has been charged.
LEMMA Beginning ==
    ASSUME Fresh, Sound, Sound', Metered, session.gen = 0, UNCHANGED <<holds, charges>>,
           session'.gen = 1, session'.status # "NONE", session'.cum = 0,
           session'.active # None => Made(session'.active)
    PROVE  Onward /\ Begun' /\ PaidRows' /\ Informed'
  <1>1. session = NoSession /\ charges = {}
    BY DEF Metered, Begun
  <1>2. session.lastSeq = 0 /\ session.active = None
    BY <1>1 DEF NoSession
  <1>3. session'.lastSeq \in Nat
    BY DEF Sound, SoundSession, Sessions
  <1>4. Onward
    BY <1>2, <1>3, AnyKeys DEF Onward, Made, Terminal
  <1>5. UsageRows' = {} /\ Paid' = 0
    BY <1>1, NoRows DEF UsageRows, Paid
  <1>6. PaidRows'
    BY <1>1, <1>5, FS_EmptySet DEF PaidRows
  <1> QED BY <1>3, <1>4, <1>5, <1>6 DEF Begun, Informed, Made

LEMMA AdmitMeters ==
    ASSUME Fresh, Sound, Sound', Metered, NEW p \in Processes, Admit(p)
    PROVE  Metered'
  <1>1. PICK old : old = proc[p]
    OBVIOUS
  <1>2. PICK k : k = InitialKey(old.gen)
    OBVIOUS
  <1>3. PICK next : next = [old EXCEPT !.pc = "drop-admission"]
    OBVIOUS
  <1>4. /\ old.pc = "admit" /\ UNCHANGED <<account, holds, charges, env>>
        /\ Goto(p, Idle) \/ Goto(p, next)
        /\ \/ /\ session.gen = old.gen - 1
              /\ session' = [NoSession EXCEPT !.status = "ACTIVE", !.gen = old.gen,
                                              !.active = k, !.quiet = session.quiet]
           \/ session' = session
    BY <1>1, <1>2, <1>3, Zenon DEF Admit, At
  <1>5. old \in Callers /\ Knows(old)
    BY <1>1, <1>4, SoundAt, AnyKinds, MeterAt
  <1>6. next.pc = "drop-admission"
    BY <1>3, <1>5 DEF Callers
  <1>7. Knows(next)' /\ Knows(Idle)'
    BY <1>6, IdleKnows DEF Knows, KnowsCall, KnowsCharge, KnowsCompletion
  <1>8. CASE session' = session
    BY <1>4, <1>7, <1>8, NothingAside, AsideMeters
  <1>9. CASE /\ session.gen = old.gen - 1
             /\ session' = [NoSession EXCEPT !.status = "ACTIVE", !.gen = old.gen,
                                             !.active = k, !.quiet = session.quiet]
    <2>1. old.gen = 1
      BY <1>5 DEF Callers, Fresh
    <2>2. /\ session'.gen = 1 /\ session'.status = "ACTIVE" /\ session'.cum = 0
          /\ session'.active = k
      BY <1>9, <2>1 DEF NoSession
    <2>3. Made(k)
      BY <1>2, <1>4, <1>5 DEF Knows, KnowsCall
    <2>4. Onward /\ Begun' /\ PaidRows' /\ Informed'
      BY <1>4, <1>9, <2>1, <2>2, <2>3, Beginning
    <2> QED BY <1>4, <1>7, <2>4, MeterMove
  <1> QED BY <1>4, <1>8, <1>9

LEMMA PersistDeniedMeters ==
    ASSUME Fresh, Sound, Sound', Metered, NEW n \in Reports, PersistDeniedProviderSession(n)
    PROVE  Metered'
  <1>1. /\ session.status = "NONE" /\ UNCHANGED <<account, holds, charges, proc, env>>
        /\ session' = [NoSession EXCEPT !.status = "RECONCILING", !.gen = 1, !.lastSeq = n]
    BY DEF PersistDeniedProviderSession
  <1>2. session.gen = 0
    BY <1>1 DEF Metered, Begun
  <1>3. /\ session'.gen = 1 /\ session'.status = "RECONCILING" /\ session'.cum = 0
        /\ session'.active = None
    BY <1>1 DEF NoSession
  <1>4. Onward /\ Begun' /\ PaidRows' /\ Informed'
    BY <1>1, <1>2, <1>3, Beginning
  <1> QED BY <1>1, <1>4, MeterStay

LEMMA DropAdmissionMeters ==
    ASSUME Fresh, Sound, Sound', Metered, NEW p \in Processes, DropAdmission(p)
    PROVE  Metered'
  <1>1. PICK old : old = proc[p]
    OBVIOUS
  <1>2. PICK k : k = InitialKey(old.gen)
    OBVIOUS
  <1>3. PICK key : key = <<"raced", old.gen>>
    OBVIOUS
  <1>4. /\ old.pc = "drop-admission" /\ UNCHANGED <<session, charges, env>>
        /\ Release(k, key) /\ Goto(p, Idle)
    BY <1>1, <1>2, <1>3 DEF DropAdmission, At
  <1>5. k \in HoldKeys
    <2>1. old \in Callers
      BY <1>1, <1>4, SoundAt, AnyKinds
    <2> QED BY <1>2, <2>1, AnyKeys DEF Callers
  <1>6. Aside
    BY <1>4, <1>5, ReleaseAside
  <1> QED BY <1>4, <1>6, IdleKnows, AsideMeters

LEMMA CancelAdmissionMeters ==
    ASSUME Fresh, Sound, Sound', Metered, NEW p \in Processes, CancelAdmission(p)
    PROVE  Metered'
  <1>1. PICK local : local = [pc |-> "cancel", hold |-> session.active, gen |-> session.gen]
    OBVIOUS
  <1>2. /\ Goto(p, local) /\ UNCHANGED <<session, account, holds, charges, env>>
        /\ session.active # None
    BY <1>1 DEF CancelAdmission
  <1>3. local.pc = "cancel" /\ local.hold = session.active
    BY <1>1
  <1>4. Made(local.hold)'
    BY <1>2, <1>3 DEF Made, Metered, Informed
  <1>5. Knows(local)'
    BY <1>3, <1>4 DEF Knows, KnowsCall, KnowsCharge, KnowsCompletion
  <1> QED BY <1>2, <1>5, NothingAside, AsideMeters

LEMMA ReleaseCanceledMeters ==
    ASSUME Fresh, Sound, Sound', Metered, NEW p \in Processes, ReleaseCanceled(p)
    PROVE  Metered'
  <1>1. PICK old : old = proc[p]
    OBVIOUS
  <1>2. PICK key : key = <<"cancel", old.gen>>
    OBVIOUS
  <1>3. PICK local : local = [old EXCEPT !.pc = "end-canceled"]
    OBVIOUS
  <1>4. /\ old.pc = "cancel" /\ UNCHANGED <<session, charges, env>>
        /\ \/ Release(old.hold, key) /\ Goto(p, local)
           \/ UNCHANGED <<holds, account>> /\ Goto(p, Idle)
    BY <1>1, <1>2, <1>3, Zenon DEF ReleaseCanceled, At
  <1>5. old \in Leavers /\ Knows(old)
    BY <1>1, <1>4, SoundAt, AnyKinds, MeterAt
  <1>6. local.pc = "end-canceled" /\ local.hold = old.hold /\ old.hold \in HoldKeys
        /\ Made(old.hold)
    BY <1>3, <1>4, <1>5 DEF Leavers, Knows, KnowsCall
  <1>7. CASE Release(old.hold, key) /\ Goto(p, local)
    <2>1. Aside /\ Terminal(old.hold)'
      BY <1>4, <1>6, <1>7, ReleaseAside
    <2>2. Terminal(local.hold)'
      BY <1>6, <2>1
    <2>3. Knows(local)'
      BY <1>6, <2>2 DEF Knows, KnowsCall, KnowsCharge, KnowsCompletion
    <2> QED BY <1>7, <2>1, <2>3, AsideMeters
  <1>8. CASE UNCHANGED <<holds, account>> /\ Goto(p, Idle)
    BY <1>4, <1>8, IdleMeters
  <1> QED BY <1>4, <1>7, <1>8

LEMMA ReleaseExpiredMeters ==
    ASSUME Fresh, Sound, Sound', Metered, NEW p \in Processes, ReleaseExpired(p)
    PROVE  Metered'
  <1>1. PICK old : old = proc[p]
    OBVIOUS
  <1>2. PICK key : key = <<"expired", old.hold>>
    OBVIOUS
  <1>3. PICK local : local = [old EXCEPT !.pc = "end-expired"]
    OBVIOUS
  <1>4. /\ old.pc = "release-expired" /\ UNCHANGED <<session, charges, env>>
        /\ Release(old.hold, key) /\ Goto(p, local)
    BY <1>1, <1>2, <1>3, Zenon DEF ReleaseExpired, At
  <1>5. old \in Expirers /\ Knows(old)
    BY <1>1, <1>4, SoundAt, AnyKinds, MeterAt
  <1>6. local.pc = "end-expired" /\ local.hold = old.hold /\ old.hold \in HoldKeys
        /\ Made(old.hold)
    BY <1>3, <1>4, <1>5 DEF Expirers, Knows, KnowsCall
  <1>7. Aside /\ Terminal(old.hold)'
    BY <1>4, <1>6, ReleaseAside
  <1>8. Terminal(local.hold)'
    BY <1>6, <1>7
  <1>9. Knows(local)'
    BY <1>6, <1>8 DEF Knows, KnowsCall, KnowsCharge, KnowsCompletion
  <1> QED BY <1>4, <1>7, <1>9, AsideMeters

\* The session lets go of a hold that has been closed.
LEMMA Ending1 ==
    ASSUME Sound, Sound', Metered, UNCHANGED <<holds, charges>>,
           session.active # None, Terminal(session.active), session'.active = None,
           session'.gen = session.gen, session'.lastSeq = session.lastSeq,
           session'.cum = session.cum, session'.status # "NONE"
    PROVE  Onward /\ Begun' /\ PaidRows' /\ Informed'
  <1>1. session \in Sessions /\ session.lastSeq \in Nat
    BY DEF Sound, SoundSession, Sessions
  <1>2. session.gen # 0 /\ session.status # "NONE"
    BY DEF Metered, Begun, NoSession
  <1>3. Onward
    BY <1>1 DEF Onward, Made, Terminal
  <1>4. Begun'
    BY <1>2 DEF Begun
  <1>5. UsageRows' = UsageRows /\ Paid' = Paid
    BY DEF UsageRows, Paid
  <1>6. PaidRows'
    <2>1. ASSUME NEW row \in charges PROVE PaidRow(row)'
      <3>1. PaidRow(row)
        BY DEF Metered, PaidRows
      <3> QED BY <1>5, <3>1 DEF PaidRow, Latest, Terminal
    <2> QED BY <1>5, <2>1 DEF PaidRows, Metered
  <1>7. Informed'
    BY DEF Informed, Metered
  <1> QED BY <1>3, <1>4, <1>6, <1>7

LEMMA EndMeters ==
    ASSUME Fresh, Sound, Sound', Metered, NEW p \in Processes, NEW old, old = proc[p],
           old.pc \in {"end-canceled", "end-expired", "end-silent", "apply-tail"},
           UNCHANGED <<holds, charges>>, Goto(p, Idle),
           \/ session' = session
           \/ /\ session.active = old.hold /\ session'.active = None
              /\ session'.gen = session.gen /\ session'.lastSeq = session.lastSeq
              /\ session'.cum = session.cum /\ session'.status # "NONE"
    PROVE  Metered'
  <1>1. Knows(old) /\ old.hold \in HoldKeys
    BY MeterAt, AnyKinds DEF Leavers, Silencers, Expirers
  <1>2. Terminal(old.hold) /\ old.hold # None
    BY <1>1, AnyKeys DEF Knows, KnowsCall
  <1>3. CASE session' = session
    BY <1>3, IdleMeters
  <1>4. CASE /\ session.active = old.hold /\ session'.active = None
             /\ session'.gen = session.gen /\ session'.lastSeq = session.lastSeq
             /\ session'.cum = session.cum /\ session'.status # "NONE"
    <2>1. Onward /\ Begun' /\ PaidRows' /\ Informed'
      BY <1>2, <1>4, Ending1
    <2> QED BY <2>1, IdleKnows, MeterMove
  <1> QED BY <1>3, <1>4

LEMMA EndCanceledMeters ==
    ASSUME Fresh, Sound, Sound', Metered, NEW p \in Processes, EndCanceled(p)
    PROVE  Metered'
  <1>1. PICK old : old = proc[p]
    OBVIOUS
  <1>2. /\ old.pc = "end-canceled" /\ UNCHANGED <<holds, charges>> /\ Goto(p, Idle)
        /\ \/ session' = session
           \/ /\ session.active = old.hold
              /\ session' = [session EXCEPT !.status = "ENDED", !.active = None]
    BY <1>1 DEF EndCanceled, At
  <1>3. session \in Sessions
    BY SoundAt
  <1>4. \/ session' = session
        \/ /\ session.active = old.hold /\ session'.active = None
           /\ session'.gen = session.gen /\ session'.lastSeq = session.lastSeq
           /\ session'.cum = session.cum /\ session'.status # "NONE"
    BY <1>2, <1>3 DEF Sessions
  <1> QED BY <1>1, <1>2, <1>4, EndMeters

LEMMA EndExpiredMeters ==
    ASSUME Fresh, Sound, Sound', Metered, NEW p \in Processes, EndExpired(p)
    PROVE  Metered'
  <1>1. PICK old : old = proc[p]
    OBVIOUS
  <1>2. /\ old.pc = "end-expired" /\ UNCHANGED <<holds, charges>> /\ Goto(p, Idle)
        /\ \/ session' = session
           \/ /\ session.active = old.hold
              /\ session' = [session EXCEPT !.status = "ENDED", !.active = None]
    BY <1>1 DEF EndExpired, At
  <1>3. session \in Sessions
    BY SoundAt
  <1>4. \/ session' = session
        \/ /\ session.active = old.hold /\ session'.active = None
           /\ session'.gen = session.gen /\ session'.lastSeq = session.lastSeq
           /\ session'.cum = session.cum /\ session'.status # "NONE"
    BY <1>2, <1>3 DEF Sessions
  <1> QED BY <1>1, <1>2, <1>4, EndMeters

LEMMA EndSilentMeters ==
    ASSUME Fresh, Sound, Sound', Metered, NEW p \in Processes, EndSilent(p)
    PROVE  Metered'
  <1>1. PICK old : old = proc[p]
    OBVIOUS
  <1>2. PICK tail : tail = IF old.reported THEN HoldMicros ELSE 0
    OBVIOUS
  <1>3. /\ old.pc = "end-silent" /\ UNCHANGED <<holds, charges>> /\ Goto(p, Idle)
        /\ \/ session' = session
           \/ /\ session.active = old.hold
              /\ session' = [session EXCEPT !.status = "RECONCILING", !.active = None,
                                            !.total = @ + HoldMicros, !.tail = @ + tail]
    BY <1>1, <1>2, Zenon DEF EndSilent, At
  <1>4. session \in Sessions
    BY SoundAt
  <1>5. \/ session' = session
        \/ /\ session.active = old.hold /\ session'.active = None
           /\ session'.gen = session.gen /\ session'.lastSeq = session.lastSeq
           /\ session'.cum = session.cum /\ session'.status # "NONE"
    BY <1>3, <1>4 DEF Sessions
  <1> QED BY <1>1, <1>3, <1>5, EndMeters

\* What a projected tail leaves of the session.
LEMMA ProjectedTail ==
    ASSUME Sound, NEW k, ProjectTail(k)
    PROVE  \/ session' = session
           \/ /\ session.active = k /\ session'.active = None
              /\ session'.gen = session.gen /\ session'.lastSeq = session.lastSeq
              /\ session'.cum = session.cum /\ session'.status # "NONE"
  <1>1. PICK status : status = IF HasProvider THEN "RECONCILING" ELSE "SETTLED"
    OBVIOUS
  <1>2. \/ session' = session
        \/ /\ session.active = k
           /\ session' = [session EXCEPT !.status = status, !.active = None,
                                         !.total = @ + HoldMicros, !.tail = @ + HoldMicros]
    BY <1>1, Zenon DEF ProjectTail
  <1>3. status # "NONE"
    BY <1>1
  <1>4. session \in Sessions
    BY DEF Sound, SoundSession
  <1>5. CASE session.active = k
             /\ session' = [session EXCEPT !.status = status, !.active = None,
                                           !.total = @ + HoldMicros, !.tail = @ + HoldMicros]
    <2>1. /\ session'.active = None /\ session'.gen = session.gen
          /\ session'.lastSeq = session.lastSeq /\ session'.cum = session.cum
          /\ session'.status = status
      BY <1>4, <1>5 DEF Sessions
    <2> QED BY <1>3, <1>5, <2>1
  <1> QED BY <1>2, <1>5

LEMMA ApplyTailMeters ==
    ASSUME Fresh, Sound, Sound', Metered, NEW p \in Processes, ApplyTail(p)
    PROVE  Metered'
  <1>1. PICK old : old = proc[p]
    OBVIOUS
  <1>2. /\ old.pc = "apply-tail" /\ UNCHANGED <<holds, charges>> /\ Goto(p, Idle)
        /\ ProjectTail(old.hold)
    BY <1>1 DEF ApplyTail, At
  <1>3. PICK k : k = old.hold
    OBVIOUS
  <1>4. \/ session' = session
        \/ /\ session.active = k /\ session'.active = None
           /\ session'.gen = session.gen /\ session'.lastSeq = session.lastSeq
           /\ session'.cum = session.cum /\ session'.status # "NONE"
    BY <1>2, <1>3, ProjectedTail
  <1> QED BY <1>1, <1>2, <1>3, <1>4, EndMeters

LEMMA RepairSettledTailMeters ==
    ASSUME Fresh, Sound, Sound', Metered, NEW p \in Processes, RepairSettledTail(p)
    PROVE  Metered'
  <1>1. PICK k : k = session.active
    OBVIOUS
  <1>2. /\ UNCHANGED <<holds, charges, proc>> /\ ProjectTail(k)
        /\ \E row \in charges : row.hold = k
    BY <1>1 DEF RepairSettledTail
  <1>3. k \in HoldKeys /\ Terminal(k) /\ k # None
    BY <1>2, AnyKeys DEF Metered, PaidRows, PaidRow
  <1>4. CASE session' = session
    <2>1. Onward /\ Begun' /\ PaidRows' /\ Informed'
      BY <1>2, <1>4, NothingAside, AsideKeeps
    <2> QED BY <1>2, <2>1, MeterStay
  <1>5. CASE /\ session.active = k /\ session'.active = None
             /\ session'.gen = session.gen /\ session'.lastSeq = session.lastSeq
             /\ session'.cum = session.cum /\ session'.status # "NONE"
    <2>1. Onward /\ Begun' /\ PaidRows' /\ Informed'
      BY <1>2, <1>3, <1>5, Ending1
    <2> QED BY <1>2, <2>1, MeterStay
  <1> QED BY <1>2, <1>4, <1>5, ProjectedTail

LEMMA ReceiveSnapshotMeters ==
    ASSUME Fresh, Sound, Sound', Metered, NEW p \in Processes, NEW n \in Reports,
           ReceiveSnapshot(p, n)
    PROVE  Metered'
  <1>1. PICK local : local = [pc |-> "recover", n |-> n, sess |-> session]
    OBVIOUS
  <1>2. /\ Goto(p, local) /\ UNCHANGED <<session, account, holds, charges, env>>
        /\ session.status # "NONE"
    BY <1>1 DEF ReceiveSnapshot
  <1>3. local.pc = "recover"
    BY <1>1
  <1>4. session'.gen = 1
    BY <1>2, MeterAt
  <1>5. Knows(local)'
    BY <1>3, <1>4 DEF Knows, KnowsCall, KnowsCharge, KnowsCompletion
  <1> QED BY <1>2, <1>5, NothingAside, AsideMeters

LEMMA ClaimantKnows ==
    ASSUME session'.gen = 1, NEW pc \in {"claim", "recovered", "charge-from", "unclaim"},
           NEW n, NEW local, local = [pc |-> pc, n |-> n]
    PROVE  Knows(local)'
  <1>1. local.pc = pc
    OBVIOUS
  <1> QED BY <1>1 DEF Knows, KnowsCall, KnowsCharge, KnowsCompletion

LEMMA CompletingKnows ==
    ASSUME session'.gen = 1, NEW p, NEW n \in Reports, proc[p].n = n,
           NEW mode \in {"claimed", "recovering"}, NEW sess, NEW checkpoint \in Checkpoints,
           NEW debt \in Nat, NEW local, local = Completing(p, mode, sess, checkpoint, debt),
           checkpoint.n > session'.lastSeq =>
              /\ checkpoint.cum = checkpoint.n
              /\ \E row \in UsageRows' : row.checkpoint.n = checkpoint.n
    PROVE  Knows(local)'
  <1>1. local.pc = "reserve-next" /\ local.checkpoint = checkpoint /\ local.next = None
    BY CompletingIs
  <1> QED BY <1>1 DEF Knows, KnowsCall, KnowsCharge, KnowsCompletion

LEMMA RecoverPendingMeters ==
    ASSUME Fresh, Sound, Sound', Metered, NEW p \in Processes, RecoverPending(p)
    PROVE  Metered'
  <1>1. PICK old : old = proc[p]
    OBVIOUS
  <1>2. PICK claiming : claiming = [pc |-> "claim", n |-> old.n]
    OBVIOUS
  <1>3. /\ old.pc = "recover" /\ UNCHANGED <<session, account, holds, charges, env>>
        /\ \/ Goto(p, Idle) \/ Goto(p, claiming)
           \/ \E row \in FurthestPending(old.sess) :
                 Goto(p, Completing(p, "recovering", old.sess, row.checkpoint, row.debt))
    BY <1>1, <1>2 DEF RecoverPending, At
  <1>4. old \in Readers /\ old.n \in Reports /\ Knows(old)
    BY <1>1, <1>3, MeterAt, AnyKinds DEF Readers
  <1>5. session'.gen = 1
    BY <1>3, <1>4 DEF Knows, KnowsCall
  <1>6. CASE Goto(p, Idle)
    BY <1>3, <1>6, IdleMeters
  <1>7. CASE Goto(p, claiming)
    <2>1. Knows(claiming)'
      BY <1>2, <1>5, ClaimantKnows
    <2> QED BY <1>3, <1>7, <2>1, NothingAside, AsideMeters
  <1>8. CASE \E row \in FurthestPending(old.sess) :
                Goto(p, Completing(p, "recovering", old.sess, row.checkpoint, row.debt))
    <2>1. PICK row \in FurthestPending(old.sess) :
                Goto(p, Completing(p, "recovering", old.sess, row.checkpoint, row.debt))
      BY <1>8
    <2>2. row \in charges /\ row.checkpoint # None
      BY <2>1 DEF FurthestPending, PendingRows
    <2>3. row.checkpoint \in Checkpoints /\ row.debt \in Nat
      BY <2>2 DEF Sound, SoundRows, RowTyped
    <2>4. row.checkpoint.n > session.lastSeq => row.checkpoint.cum = row.checkpoint.n
      BY <2>2 DEF Metered, PaidRows, PaidRow, Latest
    <2>5. row \in UsageRows'
      BY <1>3, <2>2 DEF UsageRows
    <2>6. PICK local : local = Completing(p, "recovering", old.sess, row.checkpoint, row.debt)
      OBVIOUS
    <2>7. Knows(local)'
      BY <1>1, <1>3, <1>4, <1>5, <2>3, <2>4, <2>5, <2>6, CompletingKnows
    <2> QED BY <1>3, <2>1, <2>6, <2>7, NothingAside, AsideMeters
  <1> QED BY <1>3, <1>6, <1>7, <1>8

LEMMA AfterRecoveryMeters ==
    ASSUME Fresh, Sound, Sound', Metered, NEW p \in Processes, AfterRecovery(p)
    PROVE  Metered'
  <1>1. PICK old : old = proc[p]
    OBVIOUS
  <1>2. PICK claiming : claiming = [pc |-> "claim", n |-> old.n]
    OBVIOUS
  <1>3. /\ old.pc = "recovered" /\ UNCHANGED <<session, account, holds, charges, env>>
        /\ Goto(p, Idle) \/ Goto(p, claiming)
    BY <1>1, <1>2 DEF AfterRecovery, At
  <1>4. session'.gen = 1
    BY <1>1, <1>3, MeterAt DEF Knows, KnowsCall
  <1>5. Knows(claiming)'
    BY <1>2, <1>4, ClaimantKnows
  <1> QED BY <1>3, <1>5, IdleKnows, NothingAside, AsideMeters

\* A claim taken or dropped, an age, a silence: nothing that is counted.
LEMMA RemarkAside ==
    ASSUME Sound, session.gen = 1, UNCHANGED charges, NEW claim, NEW aged, NEW quiet,
           session' = [session EXCEPT !.claim = claim, !.aged = aged, !.quiet = quiet],
           \A k \in HoldKeys : holds'[k].status = holds[k].status
    PROVE  Aside
  <1>1. session \in Sessions
    BY DEF Sound, SoundSession
  <1>2. /\ session'.lastSeq = session.lastSeq /\ session'.cum = session.cum
        /\ session'.gen = session.gen /\ session'.active = session.active
        /\ session'.status = session.status
    BY <1>1 DEF Sessions
  <1> QED BY <1>2 DEF Aside, Made, Terminal, Open

LEMMA ClaimSnapshotMeters ==
    ASSUME Fresh, Sound, Sound', Metered, NEW p \in Processes, ClaimSnapshot(p)
    PROVE  Metered'
  <1>1. PICK old : old = proc[p]
    OBVIOUS
  <1>2. PICK local : local = [old EXCEPT !.pc = "charge-from"]
    OBVIOUS
  <1>3. PICK quiet : quiet = (session.quiet /\ session.lastSeq = 0)
    OBVIOUS
  <1>4. PICK no : no = FALSE
    OBVIOUS
  <1>5. /\ old.pc = "claim" /\ UNCHANGED <<account, holds, charges, env>> /\ Goto(p, local)
        /\ session' = [session EXCEPT !.claim = old.n, !.aged = no, !.quiet = quiet]
    BY <1>1, <1>2, <1>3, <1>4, Zenon DEF ClaimSnapshot, At
  <1>6. old \in Claimants /\ session.gen = 1
    BY <1>1, <1>5, MeterAt, AnyKinds DEF Knows, KnowsCall
  <1>7. Aside
    BY <1>5, <1>6, RemarkAside
  <1>8. local.pc = "charge-from" /\ session'.gen = 1
    BY <1>2, <1>6, <1>7 DEF Claimants, Aside
  <1>9. Knows(local)'
    BY <1>8 DEF Knows, KnowsCall, KnowsCharge, KnowsCompletion
  <1> QED BY <1>5, <1>7, <1>9, AsideMeters

LEMMA RefuseSnapshotMeters ==
    ASSUME Fresh, Sound, Sound', Metered, NEW p \in Processes, RefuseSnapshot(p)
    PROVE  Metered'
  BY IdleMeters DEF RefuseSnapshot

LEMMA UnclaimMeters ==
    ASSUME Fresh, Sound, Sound', Metered, NEW p \in Processes, Unclaim(p)
    PROVE  Metered'
  <1>1. PICK old : old = proc[p]
    OBVIOUS
  <1>2. PICK quiet : quiet = (session.quiet /\ session.lastSeq = 0)
    OBVIOUS
  <1>3. PICK no : no = FALSE
    OBVIOUS
  <1>4. /\ old.pc = "unclaim" /\ UNCHANGED <<account, holds, charges, env>> /\ Goto(p, Idle)
        /\ \/ session' = session
           \/ session' = [session EXCEPT !.claim = 0, !.aged = no, !.quiet = quiet]
    BY <1>1, <1>2, <1>3, Zenon DEF Unclaim, At
  <1>5. session.gen = 1
    BY <1>1, <1>4, MeterAt DEF Knows, KnowsCall
  <1>6. Aside
    BY <1>4, <1>5, RemarkAside, NothingAside
  <1> QED BY <1>4, <1>6, IdleKnows, AsideMeters

\* Every report brings new usage.
LEMMA UsageIsReport ==
    ASSUME Fresh, env.lull \in Lulls, NEW n \in Reports
    PROVE  UsageMicros(n) = n
  <1>1. env.lull \notin 1..n
    BY BoundsAreNumbers DEF Fresh, Reports
  <1> QED BY <1>1 DEF UsageMicros

LEMMA ChargeFromMeters ==
    ASSUME Fresh, Sound, Sound', Metered, NEW p \in Processes, ChargeFrom(p)
    PROVE  Metered'
  <1>1. PICK old : old = proc[p]
    OBVIOUS
  <1>2. /\ UNCHANGED <<session, account, holds, charges, env>> /\ old.pc = "charge-from"
        /\ \E local \in Chargers :
              /\ Goto(p, local) /\ local.n = old.n /\ local.sess = session
              /\ local.checkpoint.n = old.n
              /\ local.checkpoint.cum = session.cum + local.delta
              /\ local.checkpoint.cum = IF session.cum > UsageMicros(old.n) THEN session.cum
                                        ELSE UsageMicros(old.n)
    BY <1>1, ChargeFromIs
  <1>3. old.n \in Reports /\ Knows(old)
    BY <1>1, <1>2, MeterAt, AnyKinds DEF Claimants
  <1>4. UsageMicros(old.n) = old.n
    BY <1>3, UsageIsReport DEF Sound, Envs
  <1>5. PICK local \in Chargers :
              /\ Goto(p, local) /\ local.n = old.n /\ local.sess = session
              /\ local.checkpoint.n = old.n
              /\ local.checkpoint.cum = session.cum + local.delta
              /\ local.checkpoint.cum = IF session.cum > old.n THEN session.cum ELSE old.n
    BY <1>2, <1>4
  <1>6. /\ session.cum \in Nat /\ session.lastSeq \in Nat /\ old.n \in Nat
        /\ local.delta \in Nat /\ session.cum <= session.lastSeq
    BY <1>3 DEF Sound, SoundSession, Sessions, Reports, Chargers, Metered, Informed
  <1>7. local.n > session.lastSeq => local.checkpoint.cum = local.n /\ local.delta # 0
    BY <1>5, <1>6
  <1>8. KnowsCharge(local)'
    BY <1>2, <1>5, <1>7 DEF KnowsCharge
  <1>9. local.pc = "charge" /\ session'.gen = 1
    BY <1>2, <1>3 DEF Chargers, Knows, KnowsCall
  <1>10. Knows(local)'
    BY <1>8, <1>9 DEF Knows, KnowsCall, KnowsCompletion
  <1> QED BY <1>2, <1>5, <1>10, NothingAside, AsideMeters

LEMMA ChargeNothingMeters ==
    ASSUME Fresh, Sound, Sound', Metered, NEW p \in Processes, ChargeNothing(p)
    PROVE  Metered'
  <1>1. PICK old : old = proc[p]
    OBVIOUS
  <1>2. PICK local : local = Completing(p, "claimed", old.sess, old.checkpoint, 0)
    OBVIOUS
  <1>3. /\ old.pc = "charge" /\ old.delta = 0 /\ Goto(p, local)
        /\ UNCHANGED <<session, account, holds, charges, env>>
    BY <1>1, <1>2 DEF ChargeNothing, At
  <1>4. old \in Chargers /\ Knows(old)
    BY <1>1, <1>3, MeterAt, AnyKinds
  <1>5. /\ old.n \in Reports /\ old.checkpoint \in Checkpoints /\ session'.gen = 1
        /\ ~(old.checkpoint.n > session'.lastSeq)
    BY <1>3, <1>4 DEF Chargers, Knows, KnowsCall, KnowsCharge
  <1>6. Knows(local)'
    BY <1>1, <1>2, <1>5, CompletingKnows
  <1> QED BY <1>3, <1>6, NothingAside, AsideMeters

LEMMA ChargeTailUnreserved ==
    ASSUME Fresh, Sound, Metered, NEW p \in Processes, ChargeTail(p)
    PROVE  ~AllReserved'
  <1>1. PICK old : old = proc[p]
    OBVIOUS
  <1>2. PICK d : d = UsageDebitDeltas(account, old.delta)
    OBVIOUS
  <1>3. PICK tail : tail = FALSE
    OBVIOUS
  <1>4. PICK row : row = [key |-> <<"tail", old.n>>, hold |-> None, gross |-> old.delta,
                          debt |-> d.debt, checkpoint |-> old.checkpoint, tail |-> tail]
    OBVIOUS
  <1>5. /\ old.pc = "charge"
        /\ charges' = IF RowsOf(row.key) = {} THEN charges \cup {row} ELSE charges
    BY <1>1, <1>2, <1>3, <1>4, Zenon DEF ChargeTail, At
  <1>6. old.checkpoint \in Checkpoints
    BY <1>1, <1>5, SoundAt, AnyKinds DEF Chargers
  <1>7. /\ row.key = <<"tail", old.n>> /\ row.hold = None /\ row.checkpoint # None
    BY <1>4, <1>6, AnyKeys
  <1>8. RowsOf(row.key) = {}
    <2>1. ASSUME NEW r \in charges PROVE r.key # <<"tail", old.n>>
      BY DEF Metered, PaidRows, PaidRow
    <2> QED BY <1>7, <2>1 DEF RowsOf
  <1>9. row \in UsageRows'
    BY <1>5, <1>7, <1>8 DEF UsageRows
  <1> QED BY <1>7, <1>9 DEF AllReserved

LEMMA PaidIs ==
    ASSUME Sound, Metered
    PROVE  /\ IsFiniteSet(UsageRows) /\ Paid \in Int
           /\ \A row \in charges : row.gross \in Nat /\ row.debt \in Nat
           /\ \A row \in UsageRows : row.checkpoint \in Checkpoints
  <1>1. IsFiniteSet(charges) /\ UsageRows \subseteq charges
    BY DEF Metered, PaidRows, UsageRows
  <1>2. \A row \in charges : RowTyped(row)
    BY DEF Sound, SoundRows
  <1>3. IsFiniteSet(UsageRows)
    BY <1>1, FS_Subset
  <1>4. \A row \in charges : row.gross \in Nat /\ row.debt \in Nat
    BY <1>2 DEF RowTyped
  <1>5. Paid \in Int
    <2>1. CASE UsageRows = {}
      BY <2>1, NoRows DEF Paid
    <2>2. CASE UsageRows # {}
      <3>1. PICK row \in UsageRows : row.checkpoint.cum = Paid
        BY <2>2 DEF Metered, PaidRows
      <3>2. row.checkpoint \in Checkpoints
        BY <1>2, <3>1 DEF UsageRows, RowTyped
      <3> QED BY <3>1, <3>2 DEF Checkpoints
    <2> QED BY <2>1, <2>2
  <1>6. \A row \in UsageRows : row.checkpoint \in Checkpoints
    BY <1>2 DEF UsageRows, RowTyped
  <1> QED BY <1>3, <1>4, <1>5, <1>6

\* The hold in use pays for a report: all usage up to it is charged now.
LEMMA PaidByHold ==
    ASSUME Sound, Sound', Metered, UNCHANGED session, session.gen = 1,
           NEW row, row \notin charges, charges' = charges \cup {row}, Closes(row.hold),
           row.hold = session.active, row.hold \in HoldKeys,
           row.checkpoint \in Checkpoints, row.key = <<"settle", row.checkpoint.n>>,
           row.checkpoint.cum = session.cum + row.gross,
           row.checkpoint.n > session.lastSeq => row.checkpoint.cum = row.checkpoint.n
    PROVE  Onward /\ Begun' /\ PaidRows' /\ Informed'
  <1>1. /\ \A j \in HoldKeys : /\ Made(j) => Made(j)'
                               /\ Open(j)' => Open(j)
                               /\ Terminal(j) => Terminal(j)'
        /\ Open(row.hold) /\ Terminal(row.hold)' /\ ~Terminal(row.hold) /\ row.hold # None
    BY Closing, AnyKeys DEF Closes, Open, Terminal
  <1>2. session.cum \in Nat /\ session.lastSeq \in Nat
    BY DEF Sound, SoundSession, Sessions
  <1>3. Onward
    BY <1>1, <1>2 DEF Onward
  <1>4. session.cum = Paid
    BY <1>1 DEF Metered, Informed
  <1>5. row.checkpoint # None /\ row.gross \in Nat /\ row.debt \in Nat
    BY AnyKeys DEF Sound, SoundRows, RowTyped
  <1>6. UsageRows' = UsageRows \cup {row} /\ row \notin UsageRows
    BY <1>5 DEF UsageRows
  <1>7. Paid' = Paid + row.gross /\ Paid \in Int
    <2>1. Paid' = Gross(UsageRows \cup {row})
      BY <1>6 DEF Paid
    <2>2. \A x \in UsageRows \cup {row} : x.gross \in Nat /\ x.debt \in Nat
      BY <1>5, PaidIs DEF UsageRows
    <2>3. Gross(UsageRows \cup {row}) = Gross(UsageRows) + row.gross
      BY <1>6, <2>2, PaidIs, OneMore
    <2> QED BY <2>1, <2>3, PaidIs DEF Paid
  <1>8. row.checkpoint.cum = Paid'
    BY <1>4, <1>7
  <1>9. ASSUME NEW x \in charges PROVE PaidRow(x)'
    <2>1. PaidRow(x)
      BY DEF Metered, PaidRows
    <2>2. x.checkpoint # None => x.checkpoint.cum \in Int
      BY PaidIs DEF UsageRows, Checkpoints
    <2>3. x.checkpoint # None => ~(x.checkpoint.n > session.lastSeq)
      <3>1. Terminal(x.hold)
        BY <2>1 DEF PaidRow
      <3> QED BY <1>1, <2>1, <3>1 DEF PaidRow, Latest
    <2>4. x.hold \in HoldKeys /\ Terminal(x.hold)'
      BY <1>1, <2>1 DEF PaidRow
    <2>5. x.checkpoint # None => x.checkpoint.cum <= Paid'
      BY <1>5, <1>7, <2>1, <2>2 DEF PaidRow
    <2> QED BY <2>1, <2>3, <2>4, <2>5 DEF PaidRow
  <1>10. PaidRow(row)'
    <2>1. Latest(row)' \/ ~(row.checkpoint.n > session.lastSeq)
      BY <1>8 DEF Latest
    <2>2. row.checkpoint.cum <= Paid'
      BY <1>5, <1>7, <1>8
    <2> QED BY <1>1, <1>5, <2>1, <2>2 DEF PaidRow
  <1>11. PaidRows'
    <2>1. IsFiniteSet(charges')
      BY FS_AddElement DEF Metered, PaidRows
    <2>2. \A x \in charges' : PaidRow(x)'
      BY <1>9, <1>10
    <2>3. \E x \in UsageRows' : x.checkpoint.cum = Paid'
      BY <1>6, <1>8
    <2> QED BY <2>1, <2>2, <2>3 DEF PaidRows
  <1>12. Begun'
    BY DEF Begun, Metered
  <1>13. Informed'
    BY <1>1 DEF Informed, Metered, Open, Terminal, Made
  <1> QED BY <1>3, <1>11, <1>12, <1>13

LEMMA ChargeHoldMeters ==
    ASSUME Fresh, Sound, Sound', Metered, NEW p \in Processes, ChargeHold(p)
    PROVE  Metered'
  <1>1. PICK old : old = proc[p]
    OBVIOUS
  <1>2. PICK k : k = old.sess.active
    OBVIOUS
  <1>3. PICK key : key = <<"settle", old.n>>
    OBVIOUS
  <1>4. PICK dropping : dropping = [pc |-> "unclaim", n |-> old.n]
    OBVIOUS
  <1>5. /\ old.pc = "charge" /\ k # None /\ UNCHANGED <<session, env>>
        /\ \/ /\ SettleOK(key, k, old.delta)
              /\ \E row \in {Settlement(key, k, old.delta, old.checkpoint, FALSE)} :
                    /\ Settle(row)
                    /\ Goto(p, Completing(p, "claimed", old.sess, old.checkpoint,
                                          Recorded(row).debt))
           \/ UNCHANGED <<charges, holds, account>> /\ Goto(p, dropping)
    BY <1>1, <1>2, <1>3, <1>4, Zenon DEF ChargeHold, At
  <1>6. old \in Chargers /\ Knows(old)
    BY <1>1, <1>5, MeterAt, AnyKinds
  <1>7. old.n \in Reports /\ old.checkpoint \in Checkpoints /\ old.delta \in Nat /\ k \in HoldKeys
        /\ session'.gen = 1
    BY <1>2, <1>5, <1>6 DEF Chargers, Sessions, Knows, KnowsCall
  <1>8. CASE UNCHANGED <<charges, holds, account>> /\ Goto(p, dropping)
    <2>1. Knows(dropping)'
      BY <1>4, <1>7, ClaimantKnows
    <2> QED BY <1>5, <1>8, <2>1, NothingAside, AsideMeters
  <1>9. CASE /\ SettleOK(key, k, old.delta)
             /\ \E row \in {Settlement(key, k, old.delta, old.checkpoint, FALSE)} :
                   /\ Settle(row)
                   /\ Goto(p, Completing(p, "claimed", old.sess, old.checkpoint,
                                         Recorded(row).debt))
    <2>1. PICK row : /\ row = Settlement(key, k, old.delta, old.checkpoint, FALSE)
                     /\ Settle(row)
                     /\ Goto(p, Completing(p, "claimed", old.sess, old.checkpoint,
                                           Recorded(row).debt))
      BY <1>9, Zenon
    <2>2. PICK tail : tail = FALSE
      OBVIOUS
    <2>3. tail \in BOOLEAN /\ row = Settlement(key, k, old.delta, old.checkpoint, tail)
      BY <2>1, <2>2, Zenon
    <2>4. Recorded(row).debt \in Nat
      BY <1>5, <1>7, <1>9, <2>1, <2>3, SoundSettle
    <2>5. PICK d : d = SettleDeltas(account, HoldMicros, 0, TRUE, old.delta).debt
      OBVIOUS
    <2>6. row = [key |-> key, hold |-> k, gross |-> old.delta, debt |-> d,
                 checkpoint |-> old.checkpoint, tail |-> tail]
      BY <2>3, <2>5, Zenon DEF Settlement
    <2>7. /\ row.key = key /\ row.hold = k /\ row.gross = old.delta
          /\ row.checkpoint = old.checkpoint
      BY <2>6
    <2>8. PICK local : local = Completing(p, "claimed", old.sess, old.checkpoint,
                                          Recorded(row).debt)
      OBVIOUS
    <2>9. /\ old.checkpoint.n = old.n /\ old.checkpoint.cum = old.sess.cum + old.delta
          /\ old.n > session.lastSeq => old.checkpoint.cum = old.n
          /\ \/ Terminal(k)
             \/ session.active = k /\ session.cum = old.sess.cum
      BY <1>2, <1>5, <1>6 DEF Knows, KnowsCharge
    <2>10. old.checkpoint # None
      BY <1>7, AnyKeys
    <2>11. CASE RowsOf(key) = {}
      <3>1. Open(k) /\ RowsOf(row.key) = {}
        BY <1>9, <2>7, <2>11 DEF SettleOK, Open
      <3>2. Closes(k) /\ charges' = charges \cup {row}
        BY <1>5, <1>7, <2>1, <2>7, <3>1, SettleStep DEF Sound, SoundRows
      <3>3. session.active = k /\ session.cum = old.sess.cum
        BY <2>9, <3>1 DEF Open, Terminal
      <3>4. row \notin charges
        BY <3>1 DEF RowsOf
      <3>5. Onward /\ Begun' /\ PaidRows' /\ Informed'
        BY <1>3, <1>5, <1>7, <2>7, <2>9, <3>2, <3>3, <3>4, PaidByHold
      <3>6. row \in UsageRows'
        BY <2>7, <2>10, <3>2 DEF UsageRows
      <3>7. Knows(local)'
        BY <1>1, <1>5, <1>7, <2>4, <2>7, <2>8, <2>9, <3>6, CompletingKnows
      <3> QED BY <2>1, <2>8, <3>5, <3>7, MeterMove
    <2>12. CASE RowsOf(key) # {}
      <3>1. UNCHANGED <<charges, holds, account>>
        BY <2>1, <2>7, <2>12, Zenon DEF Settle
      <3>2. PICK r \in charges : r.key = key
        BY <2>12 DEF RowsOf
      <3>3. r.checkpoint # None /\ r.checkpoint.n = old.n
        BY <1>3, <3>2 DEF Metered, PaidRows, PaidRow
      <3>4. r \in UsageRows'
        BY <3>1, <3>2, <3>3 DEF UsageRows
      <3>5. Knows(local)'
        BY <1>1, <1>5, <1>7, <2>4, <2>8, <2>9, <3>3, <3>4, CompletingKnows
      <3> QED BY <1>5, <2>1, <2>8, <3>1, <3>5, NothingAside, AsideMeters
    <2> QED BY <2>11, <2>12
  <1> QED BY <1>5, <1>8, <1>9

LEMMA ReserveNextMeters ==
    ASSUME Fresh, Sound, Sound', Metered, NEW p \in Processes, ReserveNext(p)
    PROVE  Metered'
  <1>1. PICK old : old = proc[p]
    OBVIOUS
  <1>2. PICK stop : stop = (old.stop \/ ~Final(old.checkpoint))
    OBVIOUS
  <1>3. PICK ending : ending = [old EXCEPT !.pc = "complete", !.stop = stop]
    OBVIOUS
  <1>4. /\ old.pc = "reserve-next" /\ UNCHANGED <<session, charges, env>>
        /\ \/ \E k \in UsableKeys(old.checkpoint.n) :
                 /\ CanReserve(k) /\ Reserve(k)
                 /\ Goto(p, [old EXCEPT !.pc = "complete", !.next = k])
           \/ UNCHANGED <<holds, account>> /\ Goto(p, ending)
    BY <1>1, <1>2, <1>3, Zenon DEF ReserveNext, At
  <1>5. old \in Completers /\ Knows(old)
    BY <1>1, <1>4, MeterAt, AnyKinds
  <1>6. old.checkpoint.n \in Reports
    BY <1>5 DEF Completers, Checkpoints
  <1>7. ASSUME NEW l, l.pc = "complete", l.checkpoint = old.checkpoint,
               l.next # None => Made(l.next)'
        PROVE  Knows(l)'
    <2>1. UsageRows' = UsageRows
      BY <1>4 DEF UsageRows
    <2> QED BY <1>4, <1>5, <1>7, <2>1 DEF Knows, KnowsCall, KnowsCharge, KnowsCompletion
  <1>8. CASE \E k \in UsableKeys(old.checkpoint.n) :
                /\ CanReserve(k) /\ Reserve(k)
                /\ Goto(p, [old EXCEPT !.pc = "complete", !.next = k])
    <2>1. PICK k \in UsableKeys(old.checkpoint.n) :
                /\ CanReserve(k) /\ Reserve(k)
                /\ Goto(p, [old EXCEPT !.pc = "complete", !.next = k])
      BY <1>8
    <2>2. k \in HoldKeys
      BY <1>6, <2>1, AnyKeys DEF UsableKeys
    <2>3. PICK local : local = [old EXCEPT !.pc = "complete", !.next = k]
      OBVIOUS
    <2>4. local.pc = "complete" /\ local.checkpoint = old.checkpoint /\ local.next = k
      BY <1>5, <2>3 DEF Completers
    <2>5. Aside /\ Made(k)'
      BY <1>4, <2>1, <2>2, ReserveAside
    <2>6. Made(local.next)'
      BY <2>4, <2>5
    <2>7. Knows(local)'
      BY <1>7, <2>4, <2>6
    <2> QED BY <2>1, <2>3, <2>5, <2>7, AsideMeters
  <1>9. CASE UNCHANGED <<holds, account>> /\ Goto(p, ending)
    <2>1. ending.pc = "complete" /\ ending.checkpoint = old.checkpoint /\ ending.next = old.next
      BY <1>3, <1>5 DEF Completers
    <2>2. ending.next # None => Made(ending.next)'
      BY <1>4, <1>5, <1>9, <2>1 DEF Knows, KnowsCompletion, Made
    <2>3. Knows(ending)'
      BY <1>7, <2>1, <2>2
    <2> QED BY <1>4, <1>9, <2>3, NothingAside, AsideMeters
  <1> QED BY <1>4, <1>8, <1>9

\* The session is told of the last row charged.
LEMMA Catching ==
    ASSUME Sound, Sound', Metered, UNCHANGED <<holds, charges>>, session.gen = 1,
           session'.gen = 1, session'.status # "NONE",
           NEW row \in UsageRows, row.checkpoint.n > session.lastSeq,
           session'.lastSeq = row.checkpoint.n, session'.cum = row.checkpoint.n,
           session'.active # None => Made(session'.active)
    PROVE  Onward /\ Begun' /\ PaidRows' /\ Informed'
  <1>1. session.lastSeq \in Nat /\ session'.lastSeq \in Nat
        /\ session.active \in HoldKeys \cup {None}
    BY DEF Sound, SoundSession, Sessions
  <1>2. row \in charges /\ row.checkpoint # None
    BY DEF UsageRows
  <1>3. Terminal(row.hold) /\ Latest(row)
    BY <1>2 DEF Metered, PaidRows, PaidRow
  <1>4. row.checkpoint.n = Paid /\ session.active \in {row.hold, None}
    BY <1>3 DEF Latest
  <1>5. Onward
    BY <1>1, <1>3, <1>4, AnyKeys DEF Onward, Made, Terminal
  <1>6. UsageRows' = UsageRows /\ Paid' = Paid
    BY DEF UsageRows, Paid
  <1>7. ASSUME NEW x \in charges PROVE PaidRow(x)'
    <2>1. PaidRow(x)
      BY DEF Metered, PaidRows
    <2>2. x.checkpoint # None => x.checkpoint.n \in Int
      BY PaidIs DEF UsageRows, Checkpoints, Reports
    <2>3. x.checkpoint # None => ~(x.checkpoint.n > session'.lastSeq)
      BY <1>1, <1>4, <2>1, <2>2 DEF PaidRow, Latest
    <2> QED BY <1>6, <2>1, <2>3 DEF PaidRow, Terminal
  <1>8. PaidRows'
    BY <1>6, <1>7 DEF PaidRows, Metered
  <1>9. Informed'
    BY <1>1, <1>4, <1>6 DEF Informed, Made
  <1> QED BY <1>5, <1>8, <1>9 DEF Begun

LEMMA CompleteCheckpointMeters ==
    ASSUME Fresh, Sound, Sound', Metered, NEW p \in Processes, CompleteCheckpoint(p)
    PROVE  Metered'
  <1>1. PICK old : old = proc[p]
    OBVIOUS
  <1>2. PICK c : c = old.checkpoint
    OBVIOUS
  <1>3. PICK no : no = FALSE
    OBVIOUS
  <1>4. PICK status : status = CompletedStatus(old)
    OBVIOUS
  <1>5. PICK dropping, recovered : /\ dropping = [pc |-> "unclaim", n |-> old.n]
                                   /\ recovered = [pc |-> "recovered", n |-> old.n]
    OBVIOUS
  <1>6. /\ old.pc = "complete" /\ UNCHANGED <<account, holds, charges, env>>
        /\ \/ session' = session
           \/ /\ session.lastSeq < c.n
              /\ session' = [session EXCEPT !.status = status, !.lastSeq = c.n, !.claim = 0,
                                         !.aged = no, !.quiet = no, !.cum = c.cum,
                                         !.total = c.target, !.debt = c.priorDebt + old.debt,
                                         !.active = old.next]
        /\ Goto(p, dropping) \/ Goto(p, recovered) \/ Goto(p, Idle)
    BY <1>1, <1>2, <1>3, <1>4, <1>5, Zenon DEF CompleteCheckpoint, At
  <1>7. old \in Completers /\ Knows(old) /\ session.gen = 1 /\ session \in Sessions
    BY <1>1, <1>6, MeterAt, AnyKinds DEF Knows, KnowsCall
  <1>8. status # "NONE"
    BY <1>4, Zenon DEF CompletedStatus
  <1>9. CASE session' = session
    <2>1. Knows(dropping)' /\ Knows(recovered)' /\ Knows(Idle)'
      BY <1>5, <1>7, <1>9, ClaimantKnows, IdleKnows
    <2> QED BY <1>6, <1>9, <2>1, NothingAside, AsideMeters
  <1>10. CASE /\ session.lastSeq < c.n
              /\ session' = [session EXCEPT !.status = status, !.lastSeq = c.n, !.claim = 0,
                                         !.aged = no, !.quiet = no, !.cum = c.cum,
                                         !.total = c.target, !.debt = c.priorDebt + old.debt,
                                         !.active = old.next]
    <2>1. /\ session'.gen = 1 /\ session'.status # "NONE" /\ session'.lastSeq = c.n
          /\ session'.cum = c.cum /\ session'.active = old.next
      BY <1>7, <1>8, <1>10 DEF Sessions
    <2>2. c.n > session.lastSeq
      BY <1>2, <1>7, <1>10 DEF Sessions, Completers, Checkpoints, Reports
    <2>3. c.cum = c.n /\ (old.next # None => Made(old.next))
          /\ \E row \in UsageRows : row.checkpoint.n = c.n
      BY <1>2, <1>6, <1>7, <2>2 DEF Knows, KnowsCompletion
    <2>4. PICK row \in UsageRows : row.checkpoint.n = c.n
      BY <2>3
    <2>5. Onward /\ Begun' /\ PaidRows' /\ Informed'
      BY <1>6, <1>7, <2>1, <2>2, <2>3, <2>4, Catching
    <2>6. Knows(dropping)' /\ Knows(recovered)' /\ Knows(Idle)'
      BY <1>5, <2>1, ClaimantKnows, IdleKnows
    <2> QED BY <1>6, <2>5, <2>6, MeterMove
  <1> QED BY <1>6, <1>9, <1>10

LEMMA SpotSilentCallMeters ==
    ASSUME Fresh, Sound, Sound', Metered, NEW p \in Processes, SpotSilentCall(p)
    PROVE  Metered'
  <1>1. PICK reported : reported = (session.lastSeq > 0)
    OBVIOUS
  <1>2. PICK local : local = [pc |-> "settle-silent", hold |-> session.active,
                              reported |-> reported]
    OBVIOUS
  <1>3. /\ session.status = "ACTIVE" /\ Goto(p, local)
        /\ UNCHANGED <<session, account, holds, charges, env>>
    BY <1>1, <1>2, Zenon DEF SpotSilentCall
  <1>4. local.pc = "settle-silent" /\ session'.gen = 1
    BY <1>2, <1>3, MeterAt
  <1>5. Knows(local)'
    BY <1>4 DEF Knows, KnowsCall, KnowsCharge, KnowsCompletion
  <1> QED BY <1>3, <1>5, NothingAside, AsideMeters

LEMMA SpotExpiredMeters ==
    ASSUME Fresh, Sound, Sound', Metered, NEW p \in Processes, SpotExpired(p)
    PROVE  Metered'
  <1>1. PICK k \in HoldKeys :
           /\ UNCHANGED <<session, account, holds, charges, env>> /\ holds[k].status = "ACTIVE"
           /\ Goto(p, [pc |-> IF (session.status = "ACTIVE" /\ session.active = k)
                                 /\ session.lastSeq > 0
                              THEN "settle-tail" ELSE "release-expired",
                       hold |-> k])
    BY DEF SpotExpired
  <1>2. PICK pc : pc = IF (session.status = "ACTIVE" /\ session.active = k)
                          /\ session.lastSeq > 0
                       THEN "settle-tail" ELSE "release-expired"
    OBVIOUS
  <1>3. PICK local : local = [pc |-> pc, hold |-> k]
    OBVIOUS
  <1>4. Goto(p, local)
    BY <1>1, <1>2, <1>3, Zenon
  <1>5. \/ pc = "settle-tail" /\ session.status = "ACTIVE"
        \/ pc = "release-expired"
    BY <1>2, Zenon
  <1>6. local.pc = pc /\ local.hold = k
    BY <1>3
  <1>7. pc = "settle-tail" => session'.gen = 1
    BY <1>1, <1>5, MeterAt
  <1>8. Made(local.hold)'
    BY <1>1, <1>6 DEF Made
  <1>9. Knows(local)'
    BY <1>5, <1>6, <1>7, <1>8 DEF Knows, KnowsCall, KnowsCharge, KnowsCompletion
  <1> QED BY <1>1, <1>4, <1>9, NothingAside, AsideMeters

\* A hold kept whole pays for no report.
LEMMA KeptHold ==
    ASSUME Sound, Sound', Metered, UNCHANGED session, session.gen = 1,
           NEW row, charges' = charges \cup {row}, Closes(row.hold), row.checkpoint = None,
           row.key \in {<<"silent", row.hold>>, <<"expired-tail", row.hold>>}
    PROVE  Onward /\ Begun' /\ PaidRows' /\ Informed'
  <1>1. /\ \A j \in HoldKeys : /\ Made(j) => Made(j)'
                               /\ Open(j)' => Open(j)
                               /\ Terminal(j) => Terminal(j)'
        /\ row.hold \in HoldKeys /\ Terminal(row.hold)'
    BY Closing DEF Closes
  <1>2. session.lastSeq \in Nat /\ session.active \in HoldKeys \cup {None}
    BY DEF Sound, SoundSession, Sessions
  <1>3. Onward
    BY <1>1, <1>2 DEF Onward
  <1>4. UsageRows' = UsageRows /\ Paid' = Paid
    BY DEF UsageRows, Paid
  <1>5. \A x \in charges : PaidRow(x)'
    BY <1>1, <1>4 DEF Metered, PaidRows, PaidRow, Latest
  <1>6. PaidRow(row)'
    BY <1>1 DEF PaidRow
  <1>7. PaidRows'
    BY <1>4, <1>5, <1>6, FS_AddElement DEF PaidRows, Metered
  <1>8. Begun'
    BY DEF Begun, Metered
  <1>9. Informed'
    BY <1>1, <1>2, <1>4 DEF Informed, Metered
  <1> QED BY <1>3, <1>7, <1>8, <1>9

LEMMA KeepMeters ==
    ASSUME Fresh, Sound, Sound', Metered, NEW p \in Processes, session.gen = 1,
           NEW k \in HoldKeys, NEW key \in {<<"silent", k>>, <<"expired-tail", k>>},
           NEW tail \in BOOLEAN, SettleOK(key, k, HoldMicros),
           \E row \in {Settlement(key, k, HoldMicros, None, tail)} : Settle(row),
           NEW local, Goto(p, local), local.pc \in {"end-silent", "apply-tail"}, local.hold = k,
           UNCHANGED <<session, env>>
    PROVE  Metered'
  <1>1. PICK row : row = Settlement(key, k, HoldMicros, None, tail) /\ Settle(row)
    BY Zenon
  <1>2. PICK d : d = SettleDeltas(account, HoldMicros, 0, TRUE, HoldMicros).debt
    OBVIOUS
  <1>3. row = [key |-> key, hold |-> k, gross |-> HoldMicros, debt |-> d,
               checkpoint |-> None, tail |-> tail]
    BY <1>1, <1>2, Zenon DEF Settlement
  <1>4. row.key = key /\ row.hold = k /\ row.checkpoint = None /\ row.gross = HoldMicros
    BY <1>3
  <1>5. Terminal(k)' => Knows(local)'
    BY DEF Knows, KnowsCall, KnowsCharge, KnowsCompletion
  <1>6. CASE RowsOf(key) = {}
    <2>1. Open(k) /\ RowsOf(row.key) = {} /\ row.gross \in Nat
      BY <1>4, <1>6, BoundsAreNumbers DEF SettleOK, Open
    <2>2. Closes(k) /\ charges' = charges \cup {row}
      BY <1>1, <1>4, <2>1, SettleStep DEF Sound, SoundRows
    <2>3. Onward /\ Begun' /\ PaidRows' /\ Informed'
      BY <1>4, <2>2, KeptHold
    <2>4. Terminal(k)'
      BY <2>2 DEF Closes
    <2> QED BY <1>5, <2>3, <2>4, MeterMove
  <1>7. CASE RowsOf(key) # {}
    <2>1. UNCHANGED <<charges, holds, account>>
      BY <1>1, <1>4, <1>7, Zenon DEF Settle
    <2>2. PICK r \in charges : r.key = key
      BY <1>7 DEF RowsOf
    <2>3. r.hold = k
      BY <1>7, <2>2 DEF SettleOK, RowsOf
    <2>4. Terminal(k)
      BY <2>2, <2>3 DEF Metered, PaidRows, PaidRow
    <2>5. Terminal(k)'
      BY <2>1, <2>4 DEF Terminal
    <2> QED BY <1>5, <2>1, <2>5, NothingAside, AsideMeters
  <1> QED BY <1>6, <1>7

LEMMA SettleSilentMeters ==
    ASSUME Fresh, Sound, Sound', Metered, NEW p \in Processes, SettleSilent(p)
    PROVE  Metered'
  <1>1. PICK old : old = proc[p]
    OBVIOUS
  <1>2. PICK k, key, tail : k = old.hold /\ key = <<"silent", old.hold>> /\ tail = old.reported
    OBVIOUS
  <1>3. PICK local : local = [old EXCEPT !.pc = "end-silent"]
    OBVIOUS
  <1>4. /\ old.pc = "settle-silent" /\ UNCHANGED <<session, env>>
        /\ \/ /\ SettleOK(key, k, HoldMicros)
              /\ \E row \in {Settlement(key, k, HoldMicros, None, tail)} : Settle(row)
              /\ Goto(p, local)
           \/ UNCHANGED <<charges, holds, account>> /\ Goto(p, Idle)
    BY <1>1, <1>2, <1>3, Zenon DEF SettleSilent, At
  <1>5. old \in Silencers /\ session.gen = 1
    BY <1>1, <1>4, MeterAt, AnyKinds DEF Knows, KnowsCall
  <1>6. /\ k \in HoldKeys /\ tail \in BOOLEAN /\ key \in {<<"silent", k>>, <<"expired-tail", k>>}
        /\ local.pc = "end-silent" /\ local.hold = k
    BY <1>2, <1>3, <1>5 DEF Silencers
  <1>7. CASE /\ SettleOK(key, k, HoldMicros)
             /\ \E row \in {Settlement(key, k, HoldMicros, None, tail)} : Settle(row)
             /\ Goto(p, local)
    BY <1>4, <1>5, <1>6, <1>7, KeepMeters
  <1>8. CASE UNCHANGED <<charges, holds, account>> /\ Goto(p, Idle)
    BY <1>4, <1>8, IdleMeters
  <1> QED BY <1>4, <1>7, <1>8

LEMMA SettleTailMeters ==
    ASSUME Fresh, Sound, Sound', Metered, NEW p \in Processes, SettleTail(p)
    PROVE  Metered'
  <1>1. PICK old : old = proc[p]
    OBVIOUS
  <1>2. PICK k, key, tail : k = old.hold /\ key = <<"expired-tail", old.hold>> /\ tail = TRUE
    BY Zenon
  <1>3. PICK local : local = [old EXCEPT !.pc = "apply-tail"]
    OBVIOUS
  <1>4. /\ old.pc = "settle-tail" /\ UNCHANGED <<session, env>>
        /\ \/ /\ SettleOK(key, k, HoldMicros)
              /\ \E row \in {Settlement(key, k, HoldMicros, None, tail)} : Settle(row)
              /\ Goto(p, local)
           \/ UNCHANGED <<charges, holds, account>> /\ Goto(p, Idle)
    BY <1>1, <1>2, <1>3, Zenon DEF SettleTail, At
  <1>5. old \in Expirers /\ session.gen = 1
    BY <1>1, <1>4, MeterAt, AnyKinds DEF Knows, KnowsCall
  <1>6. /\ k \in HoldKeys /\ key \in {<<"silent", k>>, <<"expired-tail", k>>}
        /\ local.pc = "apply-tail" /\ local.hold = k
    BY <1>2, <1>3, <1>5 DEF Expirers
  <1>7. tail \in BOOLEAN
    BY <1>2
  <1>8. CASE /\ SettleOK(key, k, HoldMicros)
             /\ \E row \in {Settlement(key, k, HoldMicros, None, tail)} : Settle(row)
             /\ Goto(p, local)
    BY <1>4, <1>5, <1>6, <1>7, <1>8, KeepMeters
  <1>9. CASE UNCHANGED <<charges, holds, account>> /\ Goto(p, Idle)
    BY <1>4, <1>9, IdleMeters
  <1> QED BY <1>4, <1>8, <1>9

\* Time and failures.
LEMMA TimeMeters ==
    ASSUME Fresh, Sound, Sound', Metered, UNCHANGED proc, Aside
    PROVE  Metered'
  BY AsideKeeps, MeterStay

LEMMA HoldExpiresMeters ==
    ASSUME Fresh, Sound, Sound', Metered, NEW k \in HoldKeys, HoldExpires(k)
    PROVE  Metered'
  <1>1. PICK late : late = TRUE
    BY Zenon
  <1>2. /\ holds' = [holds EXCEPT ![k].late = late]
        /\ UNCHANGED <<session, account, charges, proc>>
    BY <1>1, Zenon DEF HoldExpires
  <1>3. \A j \in HoldKeys : holds'[j].status = holds[j].status
    <2>1. HoldsTyped
      BY DEF Sound, SoundRows
    <2> QED BY <1>2, <2>1 DEF HoldsTyped
  <1>4. Aside
    BY <1>2, <1>3 DEF Aside, Made, Terminal, Open
  <1> QED BY <1>2, <1>4, TimeMeters

LEMMA SessionTimeMeters ==
    ASSUME Fresh, Sound, Sound', Metered, ClaimAges \/ CallFallsSilent
    PROVE  Metered'
  <1>1. PICK yes : yes = TRUE
    BY Zenon
  <1>2. /\ UNCHANGED <<account, holds, charges, proc>>
        /\ session.claim # 0 \/ session.status = "ACTIVE"
        /\ \/ session' = [session EXCEPT !.aged = yes]
           \/ session' = [session EXCEPT !.quiet = yes]
    BY <1>1, Zenon DEF ClaimAges, CallFallsSilent
  <1>3. session \in Sessions
    BY DEF Sound, SoundSession
  <1>4. session.gen # 0
    BY <1>2 DEF Metered, Begun, NoSession
  <1>5. /\ session'.lastSeq = session.lastSeq /\ session'.cum = session.cum
        /\ session'.gen = session.gen /\ session'.active = session.active
        /\ session'.status = session.status
    BY <1>2, <1>3 DEF Sessions
  <1>6. Aside
    BY <1>2, <1>4, <1>5 DEF Aside, Made, Terminal, Open
  <1> QED BY <1>2, <1>6, TimeMeters

LEMMA CrashMeters ==
    ASSUME Fresh, Sound, Sound', Metered, NEW p \in Processes, Crash(p)
    PROVE  Metered'
  BY IdleMeters DEF Crash

LEMMA ContinueMeters ==
    ASSUME Fresh, Sound, Sound', Metered, NEW p \in Processes, Continue(p), AllReserved'
    PROVE  Metered'
  <1>1. CASE ReserveAdmission(p) \/ Admit(p) \/ DropAdmission(p)
    BY <1>1, ReserveAdmissionMeters, AdmitMeters, DropAdmissionMeters
  <1>2. CASE ReleaseCanceled(p) \/ EndCanceled(p)
    BY <1>2, ReleaseCanceledMeters, EndCanceledMeters
  <1>3. CASE RecoverPending(p) \/ AfterRecovery(p)
    BY <1>3, RecoverPendingMeters, AfterRecoveryMeters
  <1>4. CASE ClaimSnapshot(p) \/ RefuseSnapshot(p) \/ ChargeFrom(p)
    BY <1>4, ClaimSnapshotMeters, RefuseSnapshotMeters, ChargeFromMeters
  <1>5. CASE ChargeHold(p) \/ ChargeTail(p) \/ ChargeNothing(p)
    BY <1>5, ChargeHoldMeters, ChargeTailUnreserved, ChargeNothingMeters
  <1>6. CASE ReserveNext(p) \/ CompleteCheckpoint(p) \/ Unclaim(p)
    BY <1>6, ReserveNextMeters, CompleteCheckpointMeters, UnclaimMeters
  <1> QED BY <1>1, <1>2, <1>3, <1>4, <1>5, <1>6 DEF Continue

LEMMA SweepMeters ==
    ASSUME Fresh, Sound, Sound', Metered, NEW p \in Processes, Sweep(p)
    PROVE  Metered'
  <1>1. CASE SpotSilentCall(p) \/ SettleSilent(p) \/ EndSilent(p)
    BY <1>1, SpotSilentCallMeters, SettleSilentMeters, EndSilentMeters
  <1>2. CASE SpotExpired(p) \/ SettleTail(p) \/ ApplyTail(p) \/ RepairSettledTail(p)
    BY <1>2, SpotExpiredMeters, SettleTailMeters, ApplyTailMeters, RepairSettledTailMeters
  <1>3. CASE ReleaseExpired(p) \/ EndExpired(p)
    BY <1>3, ReleaseExpiredMeters, EndExpiredMeters
  <1> QED BY <1>1, <1>2, <1>3 DEF Sweep

\* A settlement is never withdrawn.
LEMMA ChargesStay == [Next]_vars => charges \subseteq charges'
  <1> SUFFICES ASSUME [Next]_vars
               PROVE  charges \subseteq charges'
    OBVIOUS
  <1>1. ASSUME NEW row, Settle(row) PROVE charges \subseteq charges'
    BY <1>1, Zenon DEF Settle
  <1>2. CASE \E p \in Requests : Request(p)
    <2>1. PICK p \in Requests : Request(p)
      BY <1>2
    <2>2. CASE ChargeHold(p)
      BY <1>1, <2>2, Zenon DEF ChargeHold
    <2>3. CASE ChargeTail(p)
      BY <2>3, Zenon DEF ChargeTail
    <2>4. CASE ~ChargeHold(p) /\ ~ChargeTail(p)
      BY <2>1, <2>4 DEF Request, Continue, Authorize, ReserveAdmission, Admit, DropAdmission,
         CancelAdmission, ReleaseCanceled, EndCanceled, ReceiveSnapshot, RecoverPending,
         AfterRecovery, ClaimSnapshot, RefuseSnapshot, ChargeFrom, ChargeNothing, ReserveNext,
         CompleteCheckpoint, Unclaim
    <2> QED BY <2>2, <2>3, <2>4
  <1>3. CASE \E p \in Sweepers : Sweep(p)
    <2>1. PICK p \in Sweepers : Sweep(p)
      BY <1>3
    <2>2. CASE SettleSilent(p)
      BY <1>1, <2>2, Zenon DEF SettleSilent
    <2>3. CASE SettleTail(p)
      BY <1>1, <2>3, Zenon DEF SettleTail
    <2>4. CASE ~SettleSilent(p) /\ ~SettleTail(p)
      BY <2>1, <2>4 DEF Sweep, SpotSilentCall, EndSilent, SpotExpired, ApplyTail,
         RepairSettledTail, ReleaseExpired, EndExpired
    <2> QED BY <2>2, <2>3, <2>4
  <1>4. CASE \/ \E n \in Reports : PersistDeniedProviderSession(n)
             \/ \E k \in HoldKeys : HoldExpires(k)
             \/ ClaimAges \/ CallFallsSilent
             \/ \E p \in Processes : Crash(p)
             \/ UNCHANGED vars
    BY <1>4 DEF PersistDeniedProviderSession, HoldExpires, ClaimAges, CallFallsSilent, Crash, vars
  <1> QED BY <1>2, <1>3, <1>4 DEF Next

LEMMA StepMeters ==
    ASSUME Fresh, Sound, Sound', AllReserved => Metered, [Next]_vars
    PROVE  AllReserved' => Metered'
  <1> SUFFICES ASSUME AllReserved'
               PROVE  Metered'
    OBVIOUS
  <1>1. AllReserved /\ Metered
    BY ChargesStay DEF AllReserved, UsageRows
  <1>2. CASE \E p \in Requests : Request(p)
    <2>1. PICK p \in Processes : Request(p)
      BY <1>2 DEF Processes
    <2>2. CASE Authorize(p) \/ CancelAdmission(p)
      BY <1>1, <2>2, AuthorizeMeters, CancelAdmissionMeters
    <2>3. CASE \E n \in Reports : ReceiveSnapshot(p, n)
      BY <1>1, <2>3, ReceiveSnapshotMeters
    <2>4. CASE Continue(p)
      BY <1>1, <2>4, ContinueMeters
    <2> QED BY <2>1, <2>2, <2>3, <2>4 DEF Request
  <1>3. CASE \E n \in Reports : PersistDeniedProviderSession(n)
    BY <1>1, <1>3, PersistDeniedMeters
  <1>4. CASE \E p \in Sweepers : Sweep(p)
    BY <1>1, <1>4, SweepMeters DEF Processes
  <1>5. CASE \E k \in HoldKeys : HoldExpires(k)
    BY <1>1, <1>5, HoldExpiresMeters
  <1>6. CASE ClaimAges \/ CallFallsSilent
    BY <1>1, <1>6, SessionTimeMeters
  <1>7. CASE \E p \in Processes : Crash(p)
    BY <1>1, <1>7, CrashMeters
  <1>8. CASE UNCHANGED vars
    <2>1. UNCHANGED <<session, holds, charges, proc>>
      BY <1>8 DEF vars
    <2> QED BY <1>1, <2>1, NothingAside, TimeMeters
  <1> QED BY <1>2, <1>3, <1>4, <1>5, <1>6, <1>7, <1>8 DEF Next

LEMMA InitMeters ==
    ASSUME Init
    PROVE  Metered
  <1>1. /\ session = NoSession /\ charges = {} /\ proc = [p \in Processes |-> Idle]
        /\ UsageRows = {}
    BY DEF Init, UsageRows
  <1>2. Begun /\ Informed
    BY <1>1 DEF Begun, Informed, NoSession
  <1>3. PaidRows
    BY <1>1, FS_EmptySet DEF PaidRows
  <1>4. Knows(Idle)
    BY DEF Knows, KnowsCall, KnowsCharge, KnowsCompletion, Idle
  <1>5. \A p \in Processes : Knows(proc[p])
    BY <1>1, <1>4
  <1> QED BY <1>2, <1>3, <1>5 DEF Metered

LEMMA MeteredChargesOnce ==
    ASSUME AllReserved => Metered
    PROVE  ReservedUsageChargedOnce
  <1> SUFFICES ASSUME AllReserved, Metered
               PROVE  UsageChargedOnce
    BY DEF ReservedUsageChargedOnce, AllReserved
  <1>1. CASE UsageRows = {}
    BY <1>1 DEF UsageChargedOnce
  <1>2. CASE UsageRows # {}
    <2>1. PICK last \in UsageRows : last.checkpoint.cum = Paid
      BY <1>2 DEF Metered, PaidRows
    <2>2. \A row \in UsageRows : row.checkpoint.cum <= Paid
      BY DEF UsageRows, Metered, PaidRows, PaidRow
    <2> QED BY <2>1, <2>2 DEF UsageChargedOnce, Paid
  <1> QED BY <1>1, <1>2

-----------------------------------------------------------------------------
(* The theorems.                                                           *)

\* Type correctness of the session row, the wallet, the call's holds and its
\* settlements, however often the call is admitted and whoever stalls or dies.
THEOREM MeteringTypes == Spec => []TypeOK
  <1>1. Sound => TypeOK
    BY SoundTypes
  <1> QED BY <1>1, AlwaysSound, PTL

\* The wallet's reserved column is, at any time, the sum of the call's open
\* holds, and all of it paid money: no race of an admission, a cancellation, a
\* settlement and a sweep reserves or lifts a hold twice.
THEOREM ReservedIsOpenHolds == Spec => []Wallet
  <1>1. Sound => Wallet
    BY DEF Sound, SoundRows
  <1> QED BY <1>1, AlwaysSound, PTL

\* applyCallUsageSnapshot charges a call's usage exactly once: however reports
\* are duplicated, reordered or overlap, and wherever a request dies, what the
\* settlements debit adds up to the largest usage any of them recorded.
THEOREM UsageIsChargedOnce == Generations = 1 /\ Stalls = FALSE /\ Spec => []UsageChargedOnce
  <1>1. Inv => UsageChargedOnce
    BY InvCharges
  <1> QED BY <1>1, OneAdmission, PTL DEF Steady

\* completeUsageCheckpoint, applySettledTailProjection and endSilentSession
\* keep the session row a projection of the ledger: its total and its debt are
\* those of the settlements it has been told of, each counted once.
THEOREM SessionIsAProjection ==
    Generations = 1 /\ Stalls = FALSE /\ Spec => []SessionReflectsLedger
  <1>1. Inv => SessionReflectsLedger
    BY DEF Inv, Shared, Totals, SessionReflectsLedger
  <1> QED BY <1>1, OneAdmission, PTL DEF Steady

\* Until a process dies, a call that may go on has credit behind it: an open
\* hold, a charge it is about to be told of, or somebody about to end it.
THEOREM LiveCallsAreBacked ==
    Generations = 1 /\ Stalls = FALSE /\ Spec => []ActiveCallIsBacked
  <1>1. Inv => ActiveCallIsBacked
    BY DEF Inv
  <1> QED BY <1>1, OneAdmission, PTL DEF Steady

\* However long a request or a sweep stalls, and whoever takes over its work,
\* a call's usage is charged exactly once as long as the call has a hold and
\* every report brings new usage (applyCallUsageSnapshot).
THEOREM StallingCallsChargedOnce ==
    Generations = 1 /\ Lulls \cap Reports = {} /\ Spec => []ReservedUsageChargedOnce
  <1> SUFFICES ASSUME Fresh
               PROVE  Spec => []ReservedUsageChargedOnce
    BY DEF Fresh
  <1>1. Init => (AllReserved => Metered)
    BY InitMeters
  <1>2. Sound /\ Sound' /\ (AllReserved => Metered) /\ [Next]_vars => (AllReserved => Metered)'
    BY StepMeters
  <1>3. (AllReserved => Metered) => ReservedUsageChargedOnce
    BY MeteredChargesOnce
  <1> QED BY <1>1, <1>2, <1>3, AlwaysSound, PTL DEF Spec
=============================================================================
