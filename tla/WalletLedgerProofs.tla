------------------------- MODULE WalletLedgerProofs -------------------------
(***************************************************************************)
(* Proofs about WalletLedger for every set of keys and of amounts and for  *)
(* ledgers of any length.                                                  *)
(***************************************************************************)
EXTENDS WalletLedger, FiniteSetTheorems, WellFoundedInduction, TLAPS

-----------------------------------------------------------------------------
(* The operators of LedgerDeltas.                                          *)

\* A projection that projectAccount does not refuse is an account.
LEMMA ProjectedType ==
    ASSUME NEW a \in Accounts, NEW d \in Deltas, Projectable(a, d)
    PROVE  Projected(a, d) \in Accounts
  BY DEF Accounts, Deltas, Projectable, Projected

LEMMA MinMicrosFacts ==
    ASSUME NEW l \in Nat, NEW r \in Nat
    PROVE  /\ MinMicros(l, r) \in Nat
           /\ MinMicros(l, r) <= l
           /\ MinMicros(l, r) <= r
           /\ MinMicros(l, r) = l \/ MinMicros(l, r) = r
  BY DEF MinMicros

\* The deltas of every operation are integers, whatever its inputs.
LEMMA MovementDeltasType ==
    ASSUME NEW a \in Accounts, NEW m \in Nat, NEW n \in Nat
    PROVE  /\ GrantDeltas(m) \in Deltas
           /\ CreditDeltas(a, m) \in Deltas
           /\ PaidReversalDeltas(a, m) \in Deltas
           /\ UsageCreditDeltas(a, m, n) \in Deltas
           /\ UsageDebitDeltas(a, m) \in Deltas
           /\ DebtDeltas(m) \in Deltas
  <1> USE DEF Accounts, Deltas, BalanceDeltas, MinMicros
  <1>1. GrantDeltas(m) \in Deltas
    BY DEF GrantDeltas
  <1>2. CreditDeltas(a, m) \in Deltas
    BY DEF CreditDeltas
  <1>3. PaidReversalDeltas(a, m) \in Deltas
    BY DEF PaidReversalDeltas
  <1>4. UsageCreditDeltas(a, m, n) \in Deltas
    BY DEF UsageCreditDeltas
  <1>5. UsageDebitDeltas(a, m) \in Deltas
    BY DEF UsageDebitDeltas
  <1>6. DebtDeltas(m) \in Deltas
    BY DEF DebtDeltas
  <1> QED BY <1>1, <1>2, <1>3, <1>4, <1>5, <1>6

LEMMA HoldDeltasType ==
    ASSUME NEW a \in Accounts, NEW p \in Nat, NEW q \in Nat, NEW m \in Nat,
           NEW allowed \in BOOLEAN
    PROVE  /\ ReserveDeltas(p, q) \in Deltas
           /\ ReleaseDeltas(p, q) \in Deltas
           /\ SettleDeltas(a, p, q, allowed, m) \in Deltas
           /\ SettleDeltas(a, p, q, allowed, m).debt \in Nat
  <1> USE DEF Accounts, Deltas, MinMicros
  <1>1. ReserveDeltas(p, q) \in Deltas /\ ReleaseDeltas(p, q) \in Deltas
    BY DEF ReserveDeltas, ReleaseDeltas
  <1>2. SettleDeltas(a, p, q, allowed, m) \in Deltas
    BY DEF SettleDeltas
  <1>3. SettleDeltas(a, p, q, allowed, m).debt \in Nat
    BY DEF SettleDeltas
  <1> QED BY <1>1, <1>2, <1>3

\* A reservation splits its amount between the two balances.
LEMMA ReserveSplit ==
    ASSUME NEW a \in Accounts, NEW m \in Nat, NEW allowed \in BOOLEAN
    PROVE  /\ PromoShare(a, m, allowed) \in Nat
           /\ m - PromoShare(a, m, allowed) \in Nat
           /\ ~allowed => PromoShare(a, m, allowed) = 0
  BY DEF Accounts, PromoShare, MinMicros

-----------------------------------------------------------------------------
(* Posting a row.                                                          *)

LEMMA PostEffect ==
    ASSUME TypeOK,
           NEW op \in Ops, NEW key \in Keys, NEW ref \in Keys \cup {NoRef},
           NEW gross \in Nat, NEW delta \in Deltas,
           Post(op, key, ref, gross, delta)
    PROVE  /\ account' \in Accounts
           /\ ledger' \in Seq(Rows)
           /\ Len(ledger') = Len(ledger) + 1
           /\ \A i \in 1..Len(ledger) : ledger'[i] = ledger[i]
           /\ ledger'[Len(ledger) + 1] =
                 [op |-> op, key |-> key, ref |-> ref, gross |-> gross,
                  delta |-> delta, after |-> Projected(account, delta)]
           /\ account' = Projected(account, delta)
  <1>1. Projected(account, delta) \in Accounts
    BY ProjectedType DEF Post, TypeOK
  <1> DEFINE row == [op |-> op, key |-> key, ref |-> ref, gross |-> gross,
                     delta |-> delta, after |-> Projected(account, delta)]
  <1>2. row \in Rows
    BY <1>1 DEF Rows
  <1>3. ledger \in Seq(Rows) /\ ledger' = Append(ledger, row)
    BY DEF TypeOK, Post
  <1>4. account' = Projected(account, delta)
    BY DEF Post
  <1> HIDE DEF row
  <1>5. /\ ledger' \in Seq(Rows)
        /\ Len(ledger') = Len(ledger) + 1
        /\ \A i \in 1..Len(ledger) : ledger'[i] = ledger[i]
        /\ ledger'[Len(ledger) + 1] = row
    BY <1>2, <1>3
  <1> QED BY <1>1, <1>4, <1>5 DEF row

\* Every step either posts one well-typed row or leaves account and ledger.
Posted ==
    \E op \in Ops, key \in Keys, ref \in Keys \cup {NoRef}, gross \in Nat,
       delta \in Deltas : Post(op, key, ref, gross, delta)

MovementPosted ==
    \E op \in Ops \ HoldOps, key \in Keys, gross \in Nat, delta \in Deltas :
        Post(op, key, NoRef, gross, delta)

LEMMA MovementIsPosted ==
    ASSUME MovementPosted
    PROVE  Posted
  BY DEF MovementPosted, Posted

LEMMA ActionsPost ==
    ASSUME TypeOK, NEW key \in Keys
    PROVE  /\ \A m \in Nat :
                 \/ GrantSignupPromotionalCredit(key, m)
                 \/ CreditPaidBalance(key, m)
                 \/ DebitPaidBalance(key, m)
                 \/ DebitUsageAdjustment(key, m)
                 \/ RecordOutstandingDebt(key, m)
                 => MovementPosted /\ UNCHANGED holds
           /\ \A m, n \in Nat :
                 CreditUsageAdjustment(key, m, n) => MovementPosted /\ UNCHANGED holds
           /\ \A purpose \in Purposes, m \in Nat :
                 ReserveCredit(key, purpose, m) => Posted
           /\ \A hold \in Keys, m \in Nat :
                 SettleReservation(key, hold, m) => Posted
           /\ \A hold \in Keys : ReleaseReservation(key, hold) => Posted
  <1> USE DEF MovementPosted, Posted, Ops, HoldOps, TypeOK
  <1>1. ASSUME NEW m \in Nat,
               \/ GrantSignupPromotionalCredit(key, m)
               \/ CreditPaidBalance(key, m)
               \/ DebitPaidBalance(key, m)
               \/ DebitUsageAdjustment(key, m)
               \/ RecordOutstandingDebt(key, m)
        PROVE  MovementPosted /\ UNCHANGED holds
    <2>1. /\ GrantDeltas(m) \in Deltas
          /\ CreditDeltas(account, m) \in Deltas
          /\ PaidReversalDeltas(account, m) \in Deltas
          /\ UsageDebitDeltas(account, m) \in Deltas
          /\ DebtDeltas(m) \in Deltas
      BY MovementDeltasType
    <2> QED
      BY <1>1, <2>1 DEF GrantSignupPromotionalCredit, CreditPaidBalance,
         DebitPaidBalance, DebitUsageAdjustment, RecordOutstandingDebt
  <1>2. ASSUME NEW m \in Nat, NEW n \in Nat, CreditUsageAdjustment(key, m, n)
        PROVE  MovementPosted /\ UNCHANGED holds
    <2>1. UsageCreditDeltas(account, m, n) \in Deltas
      BY MovementDeltasType
    <2>2. m + n \in Nat
      OBVIOUS
    <2> QED BY <1>2, <2>1, <2>2 DEF CreditUsageAdjustment
  <1>3. ASSUME NEW purpose \in Purposes, NEW m \in Nat,
               ReserveCredit(key, purpose, m)
        PROVE  Posted
    <2> DEFINE q == PromoShare(account, m, PromoAllowed(purpose))
    <2>1. q \in Nat /\ m - q \in Nat
      BY ReserveSplit DEF PromoAllowed
    <2>2. ReserveDeltas(m - q, q) \in Deltas
      BY <2>1, HoldDeltasType
    <2>3. Post("reserve", key, key, m, ReserveDeltas(m - q, q))
      BY <1>3 DEF ReserveCredit
    <2> HIDE DEF q
    <2> QED BY <2>2, <2>3
  <1>4. ASSUME NEW hold \in Keys, NEW m \in Nat,
               SettleReservation(key, hold, m)
        PROVE  Posted
    <2> DEFINE h == holds[hold]
               d == SettleDeltas(account, h.paid, h.promo,
                                 PromoAllowed(h.purpose), m)
    <2>1. h.paid \in Nat /\ h.promo \in Nat
      BY DEF Holds
    <2>2. d \in Deltas
      BY <2>1, HoldDeltasType DEF PromoAllowed
    <2>3. Post("settle", key, hold, m, d)
      BY <1>4 DEF SettleReservation
    <2> HIDE DEF d
    <2> QED BY <2>2, <2>3
  <1>5. ASSUME NEW hold \in Keys, ReleaseReservation(key, hold)
        PROVE  Posted
    <2> DEFINE h == holds[hold]
    <2>1. h.paid \in Nat /\ h.promo \in Nat /\ HoldAmount(h) \in Nat
      BY DEF Holds, HoldAmount
    <2>2. ReleaseDeltas(h.paid, h.promo) \in Deltas
      BY <2>1, HoldDeltasType
    <2> QED BY <1>5, <2>1, <2>2 DEF ReleaseReservation
  <1> QED BY <1>1, <1>2, <1>3, <1>4, <1>5

\* The shape of a step, as the invariants' proofs use it.
LEMMA StepPosts ==
    ASSUME TypeOK, [Next]_vars
    PROVE  Posted \/ UNCHANGED <<account, ledger>>
  <1>1. CASE MoveMoney
    BY <1>1, ActionsPost, MovementIsPosted, AmountsArePositive DEF MoveMoney
  <1>2. CASE AdjustUsage
    BY <1>2, ActionsPost, MovementIsPosted, AmountsArePositive DEF AdjustUsage
  <1>3. CASE UseHold
    <2> SUFFICES ASSUME NEW key \in Keys,
                   \/ \E purpose \in Purposes, amount \in Amounts :
                         ReserveCredit(key, purpose, amount)
                   \/ \E hold \in Keys, actual \in Amounts \cup {0} :
                         SettleReservation(key, hold, actual)
                   \/ \E hold \in Keys : ReleaseReservation(key, hold)
                   \/ RenewReservation(key)
                   \/ PassExpiry(key)
                 PROVE  Posted \/ UNCHANGED <<account, ledger>>
      BY <1>3 DEF UseHold
    <2>1. Amounts \cup {0} \subseteq Nat
      BY AmountsArePositive
    <2>2. CASE RenewReservation(key) \/ PassExpiry(key)
      BY <2>2 DEF RenewReservation, PassExpiry
    <2> QED BY <2>1, <2>2, ActionsPost
  <1>4. CASE UNCHANGED vars
    BY <1>4 DEF vars
  <1> QED BY <1>1, <1>2, <1>3, <1>4 DEF Next

-----------------------------------------------------------------------------
(* Type correctness.                                                       *)

LEMMA HoldsType ==
    ASSUME TypeOK, [Next]_vars
    PROVE  holds' \in [Keys -> Holds]
  <1> USE DEF TypeOK
  <1>1. CASE MoveMoney \/ AdjustUsage
    <2>1. UNCHANGED holds
      BY <1>1, ActionsPost, AmountsArePositive DEF MoveMoney, AdjustUsage
    <2> QED BY <2>1
  <1>2. ASSUME NEW key \in Keys, NEW purpose \in Purposes,
               NEW amount \in Amounts, ReserveCredit(key, purpose, amount)
        PROVE  holds' \in [Keys -> Holds]
    <2> DEFINE q == PromoShare(account, amount, PromoAllowed(purpose))
    <2>1. amount \in Nat
      BY AmountsArePositive
    <2>2. q \in Nat /\ amount - q \in Nat
      BY <2>1, ReserveSplit DEF PromoAllowed
    <2> HIDE DEF q
    <2>3. [NoHold EXCEPT !.status = "ACTIVE", !.purpose = purpose,
                         !.paid = amount - q, !.promo = q] \in Holds
      BY <2>2 DEF NoHold, Holds, Statuses, Purposes
    <2> QED BY <1>2, <2>3 DEF ReserveCredit, q
  <1>3. ASSUME NEW key \in Keys, NEW hold \in Keys,
               NEW actual \in Amounts \cup {0},
               SettleReservation(key, hold, actual)
        PROVE  holds' \in [Keys -> Holds]
    <2> DEFINE h == holds[hold]
               d == SettleDeltas(account, h.paid, h.promo,
                                 PromoAllowed(h.purpose), actual)
    <2>1. h \in Holds /\ actual \in Nat
      BY AmountsArePositive
    <2>2. d.debt \in Nat
      BY <2>1, HoldDeltasType DEF PromoAllowed, Holds
    <2> HIDE DEF d
    <2>3. [h EXCEPT !.status = "SETTLED", !.settled = actual,
                    !.debtIncurred = d.debt] \in Holds
      BY <2>1, <2>2 DEF Holds, Statuses
    <2> QED BY <1>3, <2>3 DEF SettleReservation, d
  <1>4. ASSUME NEW key \in Keys, NEW hold \in Keys,
               ReleaseReservation(key, hold)
        PROVE  holds' \in [Keys -> Holds]
    BY <1>4 DEF ReleaseReservation, Holds, Statuses
  <1>5. ASSUME NEW key \in Keys, RenewReservation(key) \/ PassExpiry(key)
        PROVE  holds' \in [Keys -> Holds]
    <2>1. PICK b \in BOOLEAN :
             holds' = [holds EXCEPT ![key] = [holds[key] EXCEPT !.expired = b]]
      BY <1>5 DEF RenewReservation, PassExpiry
    <2>2. holds[key] \in Holds
      OBVIOUS
    <2>3. [holds[key] EXCEPT !.expired = b] \in Holds
      BY <2>2, Zenon DEF Holds
    <2> QED BY <2>1, <2>3
  <1>6. CASE UseHold
    BY <1>2, <1>3, <1>4, <1>5, <1>6 DEF UseHold
  <1>7. CASE UNCHANGED vars
    BY <1>7 DEF vars
  <1> QED BY <1>1, <1>6, <1>7 DEF Next

\* Type correctness: no column of the account, of a row or of a reservation
\* ever goes negative, whatever the callers ask for.
THEOREM TypeCorrect == Spec => []TypeOK
  <1>1. Init => TypeOK
    BY DEF Init, TypeOK, EmptyAccount, Accounts, NoHold, Holds, Statuses,
           Purposes, CallUsage
  <1>2. TypeOK /\ [Next]_vars => TypeOK'
    <2> SUFFICES ASSUME TypeOK, [Next]_vars
                 PROVE  TypeOK'
      OBVIOUS
    <2>1. holds' \in [Keys -> Holds]
      BY HoldsType
    <2>2. account' \in Accounts /\ ledger' \in Seq(Rows)
      <3>1. CASE Posted
        BY <3>1, PostEffect DEF Posted
      <3>2. CASE UNCHANGED <<account, ledger>>
        BY <3>2 DEF TypeOK
      <3> QED BY <3>1, <3>2, StepPosts
    <2> QED BY <2>1, <2>2 DEF TypeOK
  <1> QED BY <1>1, <1>2, PTL DEF Spec

-----------------------------------------------------------------------------
(* The audit trail.                                                        *)

\* The ledger replays to the account: needs no strengthening beyond the
\* types, because every step that moves the account appends the row for it.
THEOREM AuditTrail == Spec => []LedgerReplays
  <1>1. Init => LedgerReplays
    BY DEF Init, LedgerReplays, BalancesBefore
  <1>2. TypeOK /\ LedgerReplays /\ [Next]_vars => LedgerReplays'
    <2> SUFFICES ASSUME TypeOK, LedgerReplays, [Next]_vars
                 PROVE  LedgerReplays'
      OBVIOUS
    <2>1. CASE UNCHANGED <<account, ledger>>
      BY <2>1 DEF LedgerReplays, BalancesBefore
    <2>2. CASE Posted
      <3>1. PICK op \in Ops, key \in Keys, ref \in Keys \cup {NoRef},
                 gross \in Nat, delta \in Deltas :
                    Post(op, key, ref, gross, delta)
        BY <2>2 DEF Posted
      <3> DEFINE n == Len(ledger)
      <3>2. /\ ledger' \in Seq(Rows) /\ Len(ledger') = n + 1
            /\ \A i \in 1..n : ledger'[i] = ledger[i]
            /\ ledger'[n + 1].delta = delta
            /\ ledger'[n + 1].after = Projected(account, delta)
            /\ account' = Projected(account, delta)
        <4> DEFINE row == [op |-> op, key |-> key, ref |-> ref,
                           gross |-> gross, delta |-> delta,
                           after |-> Projected(account, delta)]
        <4>1. /\ ledger' \in Seq(Rows) /\ Len(ledger') = n + 1
              /\ \A i \in 1..n : ledger'[i] = ledger[i]
              /\ ledger'[n + 1] = row
              /\ account' = Projected(account, delta)
          BY <3>1, PostEffect
        <4>2. row.delta = delta /\ row.after = Projected(account, delta)
          OBVIOUS
        <4> HIDE DEF row
        <4> QED BY <4>1, <4>2
      <3>3. n \in Nat /\ DOMAIN ledger = 1..n /\ DOMAIN ledger' = 1..(n + 1)
        BY <3>2 DEF TypeOK
      <3> HIDE DEF n
      <3>4. account' = BalancesBefore(Len(ledger) + 1)'
        <4>1. Len(ledger') + 1 # 1 /\ (Len(ledger') + 1) - 1 = n + 1
          BY <3>2, <3>3
        <4> QED BY <4>1, <3>2 DEF BalancesBefore
      <3>5. ASSUME NEW i \in 1..(n + 1)
            PROVE  ledger'[i].after
                     = Projected(BalancesBefore(i)', ledger'[i].delta)
        <4>1. BalancesBefore(i)' = BalancesBefore(i)
          BY <3>2, <3>3 DEF BalancesBefore
        <4>2. CASE i = n + 1
          BY <4>1, <4>2, <3>2 DEF LedgerReplays, n
        <4>3. CASE i \in 1..n
          BY <4>1, <4>3, <3>2, <3>3 DEF LedgerReplays
        <4> QED BY <4>2, <4>3, <3>3
      <3> QED BY <3>3, <3>4, <3>5 DEF LedgerReplays
    <2> QED BY <2>1, <2>2, StepPosts
  <1> QED BY <1>1, <1>2, TypeCorrect, PTL DEF Spec

-----------------------------------------------------------------------------
(* One outcome per hold.                                                   *)

\* Appending a row adds it to the rows of its own reservation and operation
\* and to no others.
LEMMA RowsOfAfterPost ==
    ASSUME TypeOK,
           NEW op \in Ops, NEW key \in Keys, NEW ref \in Keys \cup {NoRef},
           NEW gross \in Nat, NEW delta \in Deltas,
           Post(op, key, ref, gross, delta)
    PROVE  /\ Len(ledger) + 1 \in DOMAIN ledger'
           /\ Len(ledger) + 1 \notin DOMAIN ledger
           /\ ledger'[Len(ledger) + 1].op = op
           /\ ledger'[Len(ledger) + 1].gross = gross
           /\ ledger'[Len(ledger) + 1].delta = delta
           /\ \A i \in DOMAIN ledger : ledger'[i] = ledger[i]
           /\ \A k, ops :
                 RowsOf(k, ops)' = IF op \in ops /\ ref = k
                                     THEN RowsOf(k, ops) \cup {Len(ledger) + 1}
                                     ELSE RowsOf(k, ops)
  <1> DEFINE n == Len(ledger)
             row == [op |-> op, key |-> key, ref |-> ref, gross |-> gross,
                     delta |-> delta, after |-> Projected(account, delta)]
  <1>1. /\ ledger' \in Seq(Rows) /\ Len(ledger') = n + 1
        /\ \A i \in 1..n : ledger'[i] = ledger[i]
        /\ ledger'[n + 1] = row
    BY PostEffect
  <1>2. n \in Nat /\ DOMAIN ledger = 1..n /\ DOMAIN ledger' = 1..(n + 1)
    BY <1>1 DEF TypeOK
  <1>3. row.op = op /\ row.ref = ref /\ row.gross = gross /\ row.delta = delta
    OBVIOUS
  <1> HIDE DEF n, row
  <1>4. DOMAIN ledger' = DOMAIN ledger \cup {n + 1} /\ n + 1 \notin DOMAIN ledger
    BY <1>2
  <1>5. ASSUME NEW k, NEW ops
        PROVE  RowsOf(k, ops)' = IF op \in ops /\ ref = k
                                   THEN RowsOf(k, ops) \cup {n + 1}
                                   ELSE RowsOf(k, ops)
    BY <1>1, <1>2, <1>3, <1>4 DEF RowsOf
  <1> QED BY <1>1, <1>2, <1>3, <1>4, <1>5 DEF n

\* A step that posts no row about k and keeps what its reservation row says
\* keeps its story.
LEMMA StoryUnaffected ==
    ASSUME TypeOK, NEW k \in Keys, HoldStory(k),
           holds'[k].status = holds[k].status,
           holds'[k].paid = holds[k].paid,
           holds'[k].promo = holds[k].promo,
           holds'[k].settled = holds[k].settled,
           holds'[k].debtIncurred = holds[k].debtIncurred,
           \A ops \in SUBSET HoldOps : RowsOf(k, ops)' = RowsOf(k, ops),
           \A i \in DOMAIN ledger : ledger'[i] = ledger[i]
    PROVE  HoldStory(k)'
  <1>1. \A ops : RowsOf(k, ops) \subseteq DOMAIN ledger
    BY DEF RowsOf
  <1>2. /\ RowsOf(k, {"reserve"})' = RowsOf(k, {"reserve"})
        /\ RowsOf(k, ClosingOps)' = RowsOf(k, ClosingOps)
    BY DEF HoldOps, ClosingOps
  <1>3. ASSUME NEW i \in DOMAIN ledger, ClosedAs(holds[k], ledger[i])
        PROVE  ClosedAs(holds'[k], ledger'[i])
    BY <1>3 DEF ClosedAs, HoldAmount
  <1> QED BY <1>1, <1>2, <1>3 DEF HoldStory

LEMMA MovementKeepsStories ==
    ASSUME TypeOK, OneOutcomePerHold, MovementPosted, UNCHANGED holds
    PROVE  OneOutcomePerHold'
  <1>1. PICK op \in Ops \ HoldOps, key \in Keys, gross \in Nat,
             delta \in Deltas : Post(op, key, NoRef, gross, delta)
    BY DEF MovementPosted
  <1>2. \A i \in DOMAIN ledger : ledger'[i] = ledger[i]
    BY <1>1, RowsOfAfterPost
  <1>3. \A k, ops : ~(op \in ops /\ NoRef = k) => RowsOf(k, ops)' = RowsOf(k, ops)
    BY <1>1, RowsOfAfterPost
  <1> SUFFICES ASSUME NEW k \in Keys
               PROVE  HoldStory(k)'
    BY DEF OneOutcomePerHold
  <1>4. \A ops \in SUBSET HoldOps : RowsOf(k, ops)' = RowsOf(k, ops)
    BY <1>3, RefsAreDistinct
  <1> QED BY <1>2, <1>4, StoryUnaffected DEF OneOutcomePerHold

\* A step that posts a row about one reservation and changes only its
\* reservation row keeps the story of every other.
LEMMA OtherStories ==
    ASSUME TypeOK, OneOutcomePerHold,
           NEW op \in HoldOps, NEW key \in Keys, NEW hold \in Keys,
           NEW gross \in Nat, NEW delta \in Deltas,
           Post(op, key, hold, gross, delta),
           NEW h, holds' = [holds EXCEPT ![hold] = h],
           NEW k \in Keys, k # hold
    PROVE  HoldStory(k)'
  <1>1. op \in Ops
    BY DEF HoldOps, Ops
  <1>2. /\ \A i \in DOMAIN ledger : ledger'[i] = ledger[i]
        /\ \A ops : RowsOf(k, ops)' = RowsOf(k, ops)
    BY <1>1, RowsOfAfterPost
  <1>3. holds'[k] = holds[k]
    BY DEF TypeOK
  <1> QED BY <1>2, <1>3, StoryUnaffected DEF OneOutcomePerHold

LEMMA ReserveKeepsStories ==
    ASSUME TypeOK, OneOutcomePerHold, NEW key \in Keys,
           NEW purpose \in Purposes, NEW amount \in Nat,
           ReserveCredit(key, purpose, amount)
    PROVE  OneOutcomePerHold'
  <1> DEFINE q == PromoShare(account, amount, PromoAllowed(purpose))
             h == [NoHold EXCEPT !.status = "ACTIVE", !.purpose = purpose,
                                 !.paid = amount - q, !.promo = q]
             n == Len(ledger) + 1
  <1>1. q \in Nat /\ amount - q \in Nat
    BY ReserveSplit DEF PromoAllowed, TypeOK
  <1>2. ReserveDeltas(amount - q, q) \in Deltas
    BY <1>1, HoldDeltasType DEF TypeOK
  <1>3. /\ Post("reserve", key, key, amount, ReserveDeltas(amount - q, q))
        /\ holds' = [holds EXCEPT ![key] = h]
        /\ holds[key].status = "NONE"
    BY DEF ReserveCredit
  <1>4. h.status = "ACTIVE" /\ h.paid = amount - q /\ h.promo = q
    BY DEF NoHold
  <1>5. /\ ReserveDeltas(amount - q, q).reservedPaid = amount - q
        /\ ReserveDeltas(amount - q, q).reservedPromo = q
    BY DEF ReserveDeltas
  <1> HIDE DEF q, h
  <1>6. ASSUME NEW k \in Keys, k # key
        PROVE  HoldStory(k)'
    BY <1>2, <1>3, <1>6, OtherStories DEF HoldOps
  <1>7. HoldStory(key)'
    <2>1. /\ ledger'[n].delta = ReserveDeltas(amount - q, q)
          /\ RowsOf(key, {"reserve"})' = RowsOf(key, {"reserve"}) \cup {n}
          /\ RowsOf(key, ClosingOps)' = RowsOf(key, ClosingOps)
      BY <1>2, <1>3, RowsOfAfterPost DEF Ops, ClosingOps
    <2>2. RowsOf(key, {"reserve"}) = {} /\ RowsOf(key, ClosingOps) = {}
      BY <1>3 DEF OneOutcomePerHold, HoldStory
    <2>3. holds'[key] = h
      BY <1>3 DEF TypeOK
    <2> HIDE DEF n
    <2> QED BY <2>1, <2>2, <2>3, <1>4, <1>5 DEF HoldStory
  <1> QED BY <1>6, <1>7 DEF OneOutcomePerHold

\* Settlement and release alike: the reservation was active, the row undoes
\* its reserved columns, and the new reservation row agrees with it.
LEMMA ClosingKeepsStories ==
    ASSUME TypeOK, OneOutcomePerHold,
           NEW op \in ClosingOps, NEW key \in Keys, NEW hold \in Keys,
           NEW gross \in Nat, NEW delta \in Deltas, NEW h,
           Post(op, key, hold, gross, delta),
           holds' = [holds EXCEPT ![hold] = h],
           holds[hold].status = "ACTIVE",
           h.paid = holds[hold].paid, h.promo = holds[hold].promo,
           delta.reservedPaid = -h.paid, delta.reservedPromo = -h.promo,
           \/ op = "release" /\ h.status = "RELEASED" /\ gross = HoldAmount(h)
           \/ op = "settle" /\ h.status = "SETTLED" /\ gross = h.settled
              /\ delta.debt = h.debtIncurred
    PROVE  OneOutcomePerHold'
  <1> DEFINE n == Len(ledger) + 1
  <1>1. op \in HoldOps /\ op \in Ops /\ op # "reserve"
    BY DEF ClosingOps, HoldOps, Ops
  <1>2. ASSUME NEW k \in Keys, k # hold
        PROVE  HoldStory(k)'
    BY <1>1, <1>2, OtherStories
  <1>3. HoldStory(hold)'
    <2>1. /\ \A i \in DOMAIN ledger : ledger'[i] = ledger[i]
          /\ ledger'[n].op = op /\ ledger'[n].gross = gross
          /\ ledger'[n].delta = delta
          /\ RowsOf(hold, {"reserve"})' = RowsOf(hold, {"reserve"})
          /\ RowsOf(hold, ClosingOps)' = RowsOf(hold, ClosingOps) \cup {n}
      BY <1>1, RowsOfAfterPost
    <2>2. /\ RowsOf(hold, ClosingOps) = {}
          /\ RowsOf(hold, {"reserve"}) # {}
          /\ RowsOf(hold, {"reserve"}) \subseteq DOMAIN ledger
      BY DEF OneOutcomePerHold, HoldStory, RowsOf
    <2>3. holds'[hold] = h
      BY DEF TypeOK
    <2> HIDE DEF n
    <2>4. ClosedAs(h, ledger'[n])
      BY <2>1 DEF ClosedAs
    <2> QED BY <2>1, <2>2, <2>3, <2>4 DEF OneOutcomePerHold, HoldStory
  <1> QED BY <1>2, <1>3 DEF OneOutcomePerHold

\* A reservation has one opening and at most one closing row, they cancel,
\* and the reservation row tells the same story: for any number of keys.
THEOREM OneOutcome == Spec => []OneOutcomePerHold
  <1>1. Init => OneOutcomePerHold
    BY DEF Init, OneOutcomePerHold, HoldStory, RowsOf, NoHold
  <1>2. TypeOK /\ OneOutcomePerHold /\ [Next]_vars => OneOutcomePerHold'
    <2> SUFFICES ASSUME TypeOK, OneOutcomePerHold, [Next]_vars
                 PROVE  OneOutcomePerHold'
      OBVIOUS
    <2>1. CASE MoveMoney \/ AdjustUsage
      <3>1. MovementPosted /\ UNCHANGED holds
        BY <2>1, ActionsPost, AmountsArePositive DEF MoveMoney, AdjustUsage
      <3> QED BY <3>1, MovementKeepsStories
    <2>2. ASSUME NEW key \in Keys, NEW purpose \in Purposes,
                 NEW amount \in Amounts, ReserveCredit(key, purpose, amount)
          PROVE  OneOutcomePerHold'
      BY <2>2, ReserveKeepsStories, AmountsArePositive
    <2>3. ASSUME NEW key \in Keys, NEW hold \in Keys,
                 NEW actual \in Amounts \cup {0},
                 SettleReservation(key, hold, actual)
          PROVE  OneOutcomePerHold'
      <3> DEFINE g == holds[hold]
                 d == SettleDeltas(account, g.paid, g.promo,
                                   PromoAllowed(g.purpose), actual)
                 h == [g EXCEPT !.status = "SETTLED", !.settled = actual,
                                !.debtIncurred = d.debt]
      <3>1. g \in Holds /\ actual \in Nat
        BY AmountsArePositive DEF TypeOK
      <3>2. d \in Deltas /\ d.reservedPaid = -g.paid /\ d.reservedPromo = -g.promo
        <4>1. g.paid \in Nat /\ g.promo \in Nat /\ account \in Accounts
          BY <3>1 DEF Holds, TypeOK
        <4>2. d \in Deltas
          BY <3>1, <4>1, HoldDeltasType DEF PromoAllowed
        <4>3. d.reservedPaid = -g.paid /\ d.reservedPromo = -g.promo
          BY DEF SettleDeltas
        <4> QED BY <4>2, <4>3
      <3>3. /\ Post("settle", key, hold, actual, d)
            /\ holds' = [holds EXCEPT ![hold] = h]
            /\ g.status = "ACTIVE"
        BY <2>3 DEF SettleReservation
      <3> HIDE DEF d
      <3>4. /\ h.status = "SETTLED" /\ h.settled = actual
            /\ h.debtIncurred = d.debt
            /\ h.paid = g.paid /\ h.promo = g.promo
        BY <3>1 DEF Holds
      <3> HIDE DEF h
      <3> QED BY <3>1, <3>2, <3>3, <3>4, ClosingKeepsStories DEF ClosingOps
    <2>4. ASSUME NEW key \in Keys, NEW hold \in Keys,
                 ReleaseReservation(key, hold)
          PROVE  OneOutcomePerHold'
      <3> DEFINE g == holds[hold]
                 d == ReleaseDeltas(g.paid, g.promo)
                 h == [g EXCEPT !.status = "RELEASED"]
      <3>1. g \in Holds /\ HoldAmount(g) \in Nat
        BY DEF TypeOK, Holds, HoldAmount
      <3>2. d \in Deltas /\ d.reservedPaid = -g.paid /\ d.reservedPromo = -g.promo
        <4>1. g.paid \in Nat /\ g.promo \in Nat /\ account \in Accounts
          BY <3>1 DEF Holds, TypeOK
        <4>2. d \in Deltas
          BY <4>1, HoldDeltasType
        <4>3. d.reservedPaid = -g.paid /\ d.reservedPromo = -g.promo
          BY DEF ReleaseDeltas
        <4> QED BY <4>2, <4>3
      <3>3. /\ Post("release", key, hold, HoldAmount(g), d)
            /\ holds' = [holds EXCEPT ![hold] = h]
            /\ g.status = "ACTIVE"
        BY <2>4 DEF ReleaseReservation
      <3> HIDE DEF d
      <3>4. h.status = "RELEASED" /\ h.paid = g.paid /\ h.promo = g.promo
        BY <3>1 DEF Holds
      <3> HIDE DEF h
      <3>5. HoldAmount(h) = HoldAmount(g)
        BY <3>4 DEF HoldAmount
      <3> QED BY <3>1, <3>2, <3>3, <3>4, <3>5, ClosingKeepsStories DEF ClosingOps
    <2>5. ASSUME NEW key \in Keys, RenewReservation(key) \/ PassExpiry(key)
          PROVE  OneOutcomePerHold'
      <3>1. PICK b \in BOOLEAN : holds' = [holds EXCEPT ![key].expired = b]
        BY <2>5 DEF RenewReservation, PassExpiry
      <3>2. UNCHANGED ledger
        BY <2>5 DEF RenewReservation, PassExpiry
      <3> SUFFICES ASSUME NEW k \in Keys
                   PROVE  HoldStory(k)'
        BY DEF OneOutcomePerHold
      <3>3. /\ holds'[k].status = holds[k].status
            /\ holds'[k].paid = holds[k].paid
            /\ holds'[k].promo = holds[k].promo
            /\ holds'[k].settled = holds[k].settled
            /\ holds'[k].debtIncurred = holds[k].debtIncurred
        BY <3>1 DEF TypeOK, Holds
      <3>4. \A ops : RowsOf(k, ops)' = RowsOf(k, ops)
        BY <3>2 DEF RowsOf
      <3> QED BY <3>2, <3>3, <3>4, StoryUnaffected DEF OneOutcomePerHold
    <2>6. CASE UNCHANGED vars
      BY <2>6 DEF vars, OneOutcomePerHold, HoldStory, RowsOf, ClosedAs
    <2>7. CASE UseHold
      BY <2>2, <2>3, <2>4, <2>5, <2>7 DEF UseHold
    <2> QED BY <2>1, <2>6, <2>7 DEF Next
  <1> QED BY <1>1, <1>2, TypeCorrect, PTL DEF Spec

-----------------------------------------------------------------------------
(* What a row may do: promotional money and debt.                          *)

\* The strengthening both row properties need: a row about a reservation
\* names one, and a number's reservation holds no promotional money.
HoldRowsNameHolds ==
    \A i \in DOMAIN ledger : ledger[i].op \in HoldOps => ledger[i].ref \in Keys

NumberHoldsArePaid ==
    \A k \in Keys : holds[k].purpose # CallUsage => holds[k].promo = 0

RowInv ==
    /\ HoldRowsNameHolds
    /\ NumberHoldsArePaid
    /\ NumbersNeverSpendPromo
    /\ DebtIsLastResort

\* A posted row that passes the checks extends the invariant, provided the
\* reservations that earlier rows name keep their purpose.
LEMMA RowInvExtends ==
    ASSUME TypeOK, RowInv,
           NEW op \in Ops, NEW key \in Keys, NEW ref \in Keys \cup {NoRef},
           NEW gross \in Nat, NEW delta \in Deltas,
           Post(op, key, ref, gross, delta),
           op \in HoldOps => ref \in Keys,
           \A i \in DOMAIN ledger : ledger[i].op \in HoldOps =>
               holds'[ledger[i].ref].purpose = holds[ledger[i].ref].purpose,
           NumberHoldsArePaid',
           NEW row, row = ledger'[Len(ledger) + 1],
           SparesPromo(row)', LastResort(row)'
    PROVE  RowInv'
  <1> DEFINE n == Len(ledger)
             new == [op |-> op, key |-> key, ref |-> ref, gross |-> gross,
                     delta |-> delta, after |-> Projected(account, delta)]
  <1>1. /\ ledger' \in Seq(Rows) /\ Len(ledger') = n + 1
        /\ \A i \in 1..n : ledger'[i] = ledger[i]
        /\ ledger'[n + 1] = new
    BY PostEffect
  <1>2. n \in Nat /\ DOMAIN ledger = 1..n /\ DOMAIN ledger' = 1..(n + 1)
    BY <1>1 DEF TypeOK
  <1>3. row.op = op /\ row.ref = ref
    BY <1>1
  <1> HIDE DEF n, new
  <1>4. ASSUME NEW i \in 1..n
        PROVE  /\ ledger'[i].op \in HoldOps => ledger'[i].ref \in Keys
               /\ SparesPromo(ledger[i])'
               /\ LastResort(ledger[i])'
    <2>1. /\ ledger'[i] = ledger[i]
          /\ ledger[i].op \in HoldOps => ledger[i].ref \in Keys
          /\ SparesPromo(ledger[i]) /\ LastResort(ledger[i])
          /\ ledger[i].op \in HoldOps =>
               holds'[ledger[i].ref].purpose = holds[ledger[i].ref].purpose
      BY <1>1, <1>2 DEF RowInv, HoldRowsNameHolds, NumbersNeverSpendPromo,
                        DebtIsLastResort
    <2>2. SparesPromo(ledger[i])'
      BY <2>1 DEF SparesPromo
    <2>3. LastResort(ledger[i])'
      BY <2>1 DEF LastResort, LeavesNoPromo, HoldOps
    <2> QED BY <2>1, <2>2, <2>3
  <1>5. \A i \in 1..(n + 1) : i \in 1..n \/ i = n + 1
    BY <1>2
  <1>6. HoldRowsNameHolds'
    BY <1>1, <1>2, <1>3, <1>4, <1>5 DEF HoldRowsNameHolds, n
  <1>7. NumbersNeverSpendPromo'
    BY <1>1, <1>2, <1>4, <1>5 DEF NumbersNeverSpendPromo, n
  <1>8. DebtIsLastResort'
    BY <1>1, <1>2, <1>4, <1>5 DEF DebtIsLastResort, n
  <1> QED BY <1>6, <1>7, <1>8 DEF RowInv

\* The row a step posts, by its fields.
LEMMA NewRow ==
    ASSUME TypeOK,
           NEW op \in Ops, NEW key \in Keys, NEW ref \in Keys \cup {NoRef},
           NEW gross \in Nat, NEW delta \in Deltas,
           Post(op, key, ref, gross, delta)
    PROVE  /\ ledger'[Len(ledger) + 1].op = op
           /\ ledger'[Len(ledger) + 1].ref = ref
           /\ ledger'[Len(ledger) + 1].delta = delta
           /\ ledger'[Len(ledger) + 1].after = Projected(account, delta)
  <1> DEFINE row == [op |-> op, key |-> key, ref |-> ref, gross |-> gross,
                     delta |-> delta, after |-> Projected(account, delta)]
  <1>1. ledger'[Len(ledger) + 1] = row
    BY PostEffect
  <1>2. /\ row.op = op /\ row.ref = ref /\ row.delta = delta
        /\ row.after = Projected(account, delta)
    OBVIOUS
  <1> HIDE DEF row
  <1> QED BY <1>1, <1>2

\* Outside the reservations, only money that would leave debt unpaid or
\* balances unspent could break the row invariant.
LEMMA MovementRowInv ==
    ASSUME TypeOK, RowInv, UNCHANGED holds,
           NEW op \in Ops \ HoldOps, NEW key \in Keys, NEW gross \in Nat,
           NEW delta \in Deltas,
           Post(op, key, NoRef, gross, delta),
           delta.debt > 0 /\ op # "debt" => account.paid + delta.paid = 0,
           delta.debt > 0 /\ op = "usage-adjustment-debit" =>
               account.promo + delta.promo = 0,
           op \in {"credit", "usage-adjustment"}
           /\ (delta.paid > 0 \/ delta.promo > 0) =>
               account.debt + delta.debt = 0
    PROVE  RowInv'
  <1>1. PICK row : row = ledger'[Len(ledger) + 1]
    OBVIOUS
  <1>2. /\ row.op = op /\ row.delta = delta
        /\ row.after = Projected(account, delta)
    BY <1>1, NewRow
  <1>3. /\ row.after.paid = account.paid + delta.paid
        /\ row.after.promo = account.promo + delta.promo
        /\ row.after.debt = account.debt + delta.debt
    BY <1>2 DEF Projected
  <1>4. SparesPromo(row)'
    BY <1>2 DEF SparesPromo
  <1>5. LastResort(row)'
    BY <1>2, <1>3 DEF LastResort, LeavesNoPromo, HoldOps
  <1>6. NumberHoldsArePaid'
    BY DEF RowInv, NumberHoldsArePaid
  <1> QED BY <1>1, <1>4, <1>5, <1>6, RowInvExtends

LEMMA MoveMoneyRowInv ==
    ASSUME TypeOK, RowInv, MoveMoney
    PROVE  RowInv'
  <1> USE DEF Ops, HoldOps, Accounts, BalanceDeltas, MinMicros
  <1>1. PICK key \in Keys, m \in Amounts :
             \/ GrantSignupPromotionalCredit(key, m)
             \/ CreditPaidBalance(key, m)
             \/ DebitPaidBalance(key, m)
             \/ DebitUsageAdjustment(key, m)
             \/ RecordOutstandingDebt(key, m)
    BY DEF MoveMoney
  <1>2. m \in Nat /\ account \in Accounts
    BY AmountsArePositive DEF TypeOK
  <1>3. CASE GrantSignupPromotionalCredit(key, m)
    <2>1. GrantDeltas(m) \in Deltas /\ GrantDeltas(m).debt = 0
      BY <1>2, MovementDeltasType DEF GrantDeltas
    <2> QED BY <1>2, <1>3, <2>1, MovementRowInv DEF GrantSignupPromotionalCredit
  <1>4. CASE CreditPaidBalance(key, m)
    <2> DEFINE d == CreditDeltas(account, m)
    <2>1. d \in Deltas
      BY <1>2, MovementDeltasType
    <2>2. /\ d.debt <= 0 /\ d.promo = 0
          /\ d.paid > 0 => account.debt + d.debt = 0
      BY <1>2 DEF CreditDeltas
    <2>3. Post("credit", key, NoRef, m, d) /\ UNCHANGED holds
      BY <1>4 DEF CreditPaidBalance
    <2> HIDE DEF d
    <2> QED BY <1>2, <2>1, <2>2, <2>3, MovementRowInv DEF Deltas
  <1>5. CASE DebitPaidBalance(key, m)
    <2> DEFINE d == PaidReversalDeltas(account, m)
    <2>1. d \in Deltas
      BY <1>2, MovementDeltasType
    <2>2. d.debt > 0 => account.paid + d.paid = 0
      BY <1>2 DEF PaidReversalDeltas
    <2>3. Post("paid-reversal", key, NoRef, m, d) /\ UNCHANGED holds
      BY <1>5 DEF DebitPaidBalance
    <2> HIDE DEF d
    <2> QED BY <1>2, <2>1, <2>2, <2>3, MovementRowInv
  <1>6. CASE DebitUsageAdjustment(key, m)
    <2> DEFINE d == UsageDebitDeltas(account, m)
    <2>1. d \in Deltas
      BY <1>2, MovementDeltasType
    <2>2. d.debt > 0 => account.paid + d.paid = 0 /\ account.promo + d.promo = 0
      BY <1>2 DEF UsageDebitDeltas
    <2>3. Post("usage-adjustment-debit", key, NoRef, m, d) /\ UNCHANGED holds
      BY <1>6 DEF DebitUsageAdjustment
    <2> HIDE DEF d
    <2> QED BY <1>2, <2>1, <2>2, <2>3, MovementRowInv
  <1>7. CASE RecordOutstandingDebt(key, m)
    <2>1. DebtDeltas(m) \in Deltas
      BY <1>2, MovementDeltasType
    <2> QED BY <1>2, <1>7, <2>1, MovementRowInv DEF RecordOutstandingDebt
  <1> QED BY <1>1, <1>3, <1>4, <1>5, <1>6, <1>7

LEMMA AdjustUsageRowInv ==
    ASSUME TypeOK, RowInv, AdjustUsage
    PROVE  RowInv'
  <1>1. PICK key \in Keys, m \in Amounts \cup {0}, n \in Amounts \cup {0} :
             CreditUsageAdjustment(key, m, n)
    BY DEF AdjustUsage
  <1> DEFINE d == UsageCreditDeltas(account, m, n)
  <1>2. m \in Nat /\ n \in Nat /\ m + n \in Nat /\ account \in Accounts
    BY AmountsArePositive DEF TypeOK
  <1>3. d \in Deltas
    BY <1>2, MovementDeltasType
  <1>4. /\ d.debt <= 0
        /\ d.paid > 0 \/ d.promo > 0 => account.debt + d.debt = 0
    BY <1>2 DEF UsageCreditDeltas, BalanceDeltas, MinMicros, Accounts
  <1>5. Post("usage-adjustment", key, NoRef, m + n, d) /\ UNCHANGED holds
    BY <1>1 DEF CreditUsageAdjustment
  <1> HIDE DEF d
  <1> QED BY <1>2, <1>3, <1>4, <1>5, MovementRowInv DEF Ops, HoldOps, Deltas

\* The three hold operations: the reservation they touch keeps its purpose
\* if any row names it, and a number's row moves no promotional column.
LEMMA HoldRowInv ==
    ASSUME TypeOK, RowInv, OneOutcomePerHold,
           NEW op \in HoldOps, NEW key \in Keys, NEW hold \in Keys,
           NEW gross \in Nat, NEW delta \in Deltas, NEW h \in Holds,
           Post(op, key, hold, gross, delta),
           holds' = [holds EXCEPT ![hold] = h],
           holds[hold].status = "NONE" \/ h.purpose = holds[hold].purpose,
           h.purpose # CallUsage =>
               h.promo = 0 /\ delta.promo = 0 /\ delta.reservedPromo = 0,
           delta.debt > 0 => /\ account.paid + delta.paid = 0
                             /\ op = "settle" /\ h.purpose = CallUsage =>
                                    account.promo + delta.promo = 0
    PROVE  RowInv'
  <1>1. PICK row : row = ledger'[Len(ledger) + 1]
    OBVIOUS
  <1>2. op \in Ops
    BY DEF HoldOps, Ops
  <1>3. /\ row.op = op /\ row.ref = hold /\ row.delta = delta
        /\ row.after = Projected(account, delta)
    BY <1>1, <1>2, NewRow
  <1>4. /\ row.after.paid = account.paid + delta.paid
        /\ row.after.promo = account.promo + delta.promo
    BY <1>3 DEF Projected
  <1>5. /\ holds'[hold] = h
        /\ \A k \in Keys : k # hold => holds'[k] = holds[k]
    BY DEF TypeOK
  <1>6. SparesPromo(row)'
    BY <1>3, <1>5 DEF SparesPromo
  <1>7. LastResort(row)'
    BY <1>3, <1>4, <1>5 DEF LastResort, LeavesNoPromo, HoldOps
  <1>8. NumberHoldsArePaid'
    BY <1>5 DEF RowInv, NumberHoldsArePaid
  <1>9. ASSUME NEW i \in DOMAIN ledger, ledger[i].op \in HoldOps
        PROVE  holds'[ledger[i].ref].purpose = holds[ledger[i].ref].purpose
    <2>1. ledger[i].ref \in Keys
      BY <1>9 DEF RowInv, HoldRowsNameHolds
    <2>2. CASE ledger[i].ref # hold
      BY <2>1, <2>2, <1>5
    <2>3. CASE ledger[i].ref = hold
      <3>1. i \in RowsOf(hold, {"reserve"}) \/ i \in RowsOf(hold, ClosingOps)
        BY <1>9, <2>3 DEF RowsOf, HoldOps, ClosingOps
      <3>2. holds[hold].status # "NONE"
        BY <3>1 DEF OneOutcomePerHold, HoldStory
      <3> QED BY <3>2, <2>3, <1>5
    <2> QED BY <2>2, <2>3
  <1> QED BY <1>1, <1>2, <1>6, <1>7, <1>8, <1>9, RowInvExtends

LEMMA UseHoldRowInv ==
    ASSUME TypeOK, RowInv, OneOutcomePerHold, UseHold
    PROVE  RowInv'
  <1>1. ASSUME NEW key \in Keys, NEW purpose \in Purposes,
               NEW amount \in Amounts, ReserveCredit(key, purpose, amount)
        PROVE  RowInv'
    <2> DEFINE q == PromoShare(account, amount, PromoAllowed(purpose))
               d == ReserveDeltas(amount - q, q)
               h == [NoHold EXCEPT !.status = "ACTIVE", !.purpose = purpose,
                                   !.paid = amount - q, !.promo = q]
    <2>1. amount \in Nat
      BY AmountsArePositive
    <2>2. q \in Nat /\ amount - q \in Nat /\ (purpose # CallUsage => q = 0)
      BY <2>1, ReserveSplit DEF PromoAllowed, TypeOK
    <2>3. d \in Deltas
      BY <2>2, HoldDeltasType DEF TypeOK
    <2>4. /\ Post("reserve", key, key, amount, d)
          /\ holds' = [holds EXCEPT ![key] = h]
          /\ holds[key].status = "NONE"
      BY <1>1 DEF ReserveCredit
    <2> HIDE DEF q
    <2>5. d.debt = 0 /\ d.promo = -q /\ d.reservedPromo = q
      BY DEF ReserveDeltas
    <2>6. h.purpose = purpose /\ h.promo = q
      BY DEF NoHold
    <2>7. h \in Holds
      BY <2>2 DEF NoHold, Holds, Statuses, Purposes
    <2> HIDE DEF d, h
    <2>8. /\ h.purpose # CallUsage =>
                h.promo = 0 /\ d.promo = 0 /\ d.reservedPromo = 0
          /\ ~(d.debt > 0)
      BY <2>2, <2>5, <2>6
    <2> QED BY <2>1, <2>3, <2>4, <2>7, <2>8, HoldRowInv DEF HoldOps
  <1>2. ASSUME NEW key \in Keys, NEW hold \in Keys,
               NEW actual \in Amounts \cup {0},
               SettleReservation(key, hold, actual)
        PROVE  RowInv'
    <2> DEFINE g == holds[hold]
               d == SettleDeltas(account, g.paid, g.promo,
                                 PromoAllowed(g.purpose), actual)
               h == [g EXCEPT !.status = "SETTLED", !.settled = actual,
                              !.debtIncurred = d.debt]
    <2>1. /\ g \in Holds /\ actual \in Nat
          /\ g.paid \in Nat /\ g.promo \in Nat
          /\ account.paid \in Nat /\ account.promo \in Nat
      BY AmountsArePositive DEF Holds, Accounts, TypeOK
    <2>2. d \in Deltas /\ d.debt \in Nat
      BY <2>1, HoldDeltasType DEF PromoAllowed, TypeOK
    <2>3. g.purpose # CallUsage => g.promo = 0
      BY DEF RowInv, NumberHoldsArePaid
    <2>4. g.purpose # CallUsage => d.promo = 0 /\ d.reservedPromo = 0
      BY <2>1, <2>3 DEF SettleDeltas, PromoAllowed, MinMicros
    <2>5. d.debt > 0 => /\ account.paid + d.paid = 0
                        /\ g.purpose = CallUsage => account.promo + d.promo = 0
      BY <2>1 DEF SettleDeltas, PromoAllowed, MinMicros
    <2>6. /\ Post("settle", key, hold, actual, d)
          /\ holds' = [holds EXCEPT ![hold] = h]
      BY <1>2 DEF SettleReservation
    <2> HIDE DEF d
    <2>7. h \in Holds /\ h.purpose = g.purpose /\ h.promo = g.promo
      BY <2>1, <2>2 DEF Holds, Statuses
    <2> HIDE DEF h
    <2>8. /\ g.purpose # CallUsage =>
                h.promo = 0 /\ d.promo = 0 /\ d.reservedPromo = 0
          /\ d.debt > 0 => /\ account.paid + d.paid = 0
                           /\ h.purpose = CallUsage => account.promo + d.promo = 0
      BY <2>3, <2>4, <2>5, <2>7
    <2> QED BY <2>1, <2>2, <2>6, <2>7, <2>8, HoldRowInv DEF HoldOps
  <1>3. ASSUME NEW key \in Keys, NEW hold \in Keys,
               ReleaseReservation(key, hold)
        PROVE  RowInv'
    <2> DEFINE g == holds[hold]
               d == ReleaseDeltas(g.paid, g.promo)
               h == [g EXCEPT !.status = "RELEASED"]
    <2>1. /\ g \in Holds /\ HoldAmount(g) \in Nat
          /\ g.paid \in Nat /\ g.promo \in Nat
      BY DEF Holds, HoldAmount, TypeOK
    <2>2. d \in Deltas
      BY <2>1, HoldDeltasType DEF TypeOK
    <2>3. g.purpose # CallUsage => g.promo = 0
      BY DEF RowInv, NumberHoldsArePaid
    <2>4. d.debt = 0 /\ d.promo = g.promo /\ d.reservedPromo = -g.promo
      BY DEF ReleaseDeltas
    <2>5. /\ Post("release", key, hold, HoldAmount(g), d)
          /\ holds' = [holds EXCEPT ![hold] = h]
      BY <1>3 DEF ReleaseReservation
    <2> HIDE DEF d
    <2>6. h \in Holds /\ h.purpose = g.purpose /\ h.promo = g.promo
      BY <2>1 DEF Holds, Statuses
    <2> HIDE DEF h
    <2>7. /\ h.purpose # CallUsage =>
                h.promo = 0 /\ d.promo = 0 /\ d.reservedPromo = 0
          /\ ~(d.debt > 0)
      BY <2>3, <2>4, <2>6
    <2> QED BY <2>1, <2>2, <2>5, <2>6, <2>7, HoldRowInv DEF HoldOps
  <1>4. ASSUME NEW key \in Keys, RenewReservation(key) \/ PassExpiry(key)
        PROVE  RowInv'
    <2>1. PICK b \in BOOLEAN : holds' = [holds EXCEPT ![key].expired = b]
      BY <1>4 DEF RenewReservation, PassExpiry
    <2>2. UNCHANGED ledger
      BY <1>4 DEF RenewReservation, PassExpiry
    <2>3. \A k \in Keys : /\ holds'[k].purpose = holds[k].purpose
                          /\ holds'[k].promo = holds[k].promo
      BY <2>1 DEF Holds, TypeOK
    <2>4. HoldRowsNameHolds'
      BY <2>2 DEF RowInv, HoldRowsNameHolds
    <2>5. NumberHoldsArePaid'
      BY <2>3 DEF RowInv, NumberHoldsArePaid
    <2>6. ASSUME NEW i \in DOMAIN ledger, ledger[i].op \in HoldOps
          PROVE  holds'[ledger[i].ref].purpose = holds[ledger[i].ref].purpose
      BY <2>3, <2>6 DEF RowInv, HoldRowsNameHolds
    <2>7. NumbersNeverSpendPromo'
      BY <2>2, <2>6 DEF RowInv, NumbersNeverSpendPromo, SparesPromo
    <2>8. ASSUME NEW i \in DOMAIN ledger
          PROVE  LastResort(ledger[i])'
      BY <2>2, <2>6 DEF RowInv, DebtIsLastResort, LastResort, LeavesNoPromo,
         HoldOps
    <2>9. DebtIsLastResort'
      BY <2>2, <2>8 DEF DebtIsLastResort
    <2> QED BY <2>4, <2>5, <2>7, <2>9 DEF RowInv
  <1> QED BY <1>1, <1>2, <1>3, <1>4 DEF UseHold

THEOREM RowInvariant == Spec => []RowInv
  <1>1. Init => RowInv
    BY DEF Init, RowInv, HoldRowsNameHolds, NumberHoldsArePaid,
           NumbersNeverSpendPromo, DebtIsLastResort, NoHold
  <1>2. TypeOK /\ OneOutcomePerHold /\ RowInv /\ [Next]_vars => RowInv'
    <2> SUFFICES ASSUME TypeOK, OneOutcomePerHold, RowInv, [Next]_vars
                 PROVE  RowInv'
      OBVIOUS
    <2>1. CASE MoveMoney
      BY <2>1, MoveMoneyRowInv
    <2>2. CASE AdjustUsage
      BY <2>2, AdjustUsageRowInv
    <2>3. CASE UseHold
      BY <2>3, UseHoldRowInv
    <2>4. CASE UNCHANGED vars
      BY <2>4 DEF vars, RowInv, HoldRowsNameHolds, NumberHoldsArePaid,
         NumbersNeverSpendPromo, SparesPromo, DebtIsLastResort, LastResort,
         LeavesNoPromo
    <2> QED BY <2>1, <2>2, <2>3, <2>4 DEF Next
  <1> QED BY <1>1, <1>2, TypeCorrect, OneOutcome, PTL DEF Spec

\* No phone number is ever bought or renewed with promotional money.
THEOREM PromoSafety == Spec => []NumbersNeverSpendPromo
  <1>1. RowInv => NumbersNeverSpendPromo
    BY DEF RowInv
  <1> QED BY <1>1, RowInvariant, PTL

\* Debt is only incurred when there is nothing left to collect from, and a
\* credit is only spendable once there is no debt left.
THEOREM DebtSafety == Spec => []DebtIsLastResort
  <1>1. RowInv => DebtIsLastResort
    BY DEF RowInv
  <1> QED BY <1>1, RowInvariant, PTL

-----------------------------------------------------------------------------
(* The wallet implements the escrow account.                               *)

\* What each operation does to the one signed balance.
NetOf(d) == d.paid + d.promo - d.debt

LEMMA FreeAfterPost ==
    ASSUME TypeOK,
           NEW op, NEW key, NEW ref, NEW gross, NEW delta \in Deltas,
           Post(op, key, ref, gross, delta)
    PROVE  /\ FreeMicros(account) \in Int
           /\ FreeMicros(account') = FreeMicros(account) + NetOf(delta)
  <1>1. account' = Projected(account, delta)
    BY DEF Post
  <1>2. /\ account.paid \in Int /\ account.promo \in Int /\ account.debt \in Int
        /\ delta.paid \in Int /\ delta.promo \in Int /\ delta.debt \in Int
    BY DEF TypeOK, Accounts, Deltas
  <1>3. /\ Projected(account, delta).paid = account.paid + delta.paid
        /\ Projected(account, delta).promo = account.promo + delta.promo
        /\ Projected(account, delta).debt = account.debt + delta.debt
    BY DEF Projected
  <1> QED BY <1>1, <1>2, <1>3 DEF FreeMicros, NetOf

LEMMA MovementsAreExact ==
    ASSUME NEW a \in Accounts, NEW m \in Nat, NEW n \in Nat
    PROVE  /\ NetOf(GrantDeltas(m)) = m
           /\ NetOf(CreditDeltas(a, m)) = m
           /\ NetOf(PaidReversalDeltas(a, m)) = -m
           /\ NetOf(UsageCreditDeltas(a, m, n)) = m + n
           /\ NetOf(UsageDebitDeltas(a, m)) = -m
           /\ NetOf(DebtDeltas(m)) = -m
  <1> USE DEF NetOf, Accounts, BalanceDeltas, MinMicros
  <1>1. NetOf(GrantDeltas(m)) = m /\ NetOf(DebtDeltas(m)) = -m
    BY DEF GrantDeltas, DebtDeltas
  <1>2. NetOf(CreditDeltas(a, m)) = m
    BY DEF CreditDeltas
  <1>3. NetOf(PaidReversalDeltas(a, m)) = -m
    BY DEF PaidReversalDeltas
  <1>4. NetOf(UsageCreditDeltas(a, m, n)) = m + n
    BY DEF UsageCreditDeltas
  <1>5. NetOf(UsageDebitDeltas(a, m)) = -m
    BY DEF UsageDebitDeltas
  <1> QED BY <1>1, <1>2, <1>3, <1>4, <1>5

LEMMA HoldsAreExact ==
    ASSUME NEW a \in Accounts, NEW p \in Nat, NEW q \in Nat, NEW m \in Nat,
           NEW allowed \in BOOLEAN
    PROVE  /\ NetOf(ReserveDeltas(p, q)) = -(p + q)
           /\ NetOf(ReleaseDeltas(p, q)) = p + q
           /\ NetOf(SettleDeltas(a, p, q, allowed, m)) = (p + q) - m
  <1> USE DEF NetOf, Accounts, MinMicros
  <1>1. NetOf(ReserveDeltas(p, q)) = -(p + q) /\ NetOf(ReleaseDeltas(p, q)) = p + q
    BY DEF ReserveDeltas, ReleaseDeltas
  <1>2. NetOf(SettleDeltas(a, p, q, allowed, m)) = (p + q) - m
    BY DEF SettleDeltas
  <1> QED BY <1>1, <1>2

LEMMA MovementImplements ==
    ASSUME TypeOK, MoveMoney \/ AdjustUsage
    PROVE  Escrow!Next
  <1> DEFINE Moved(m) == /\ FreeMicros(account) \in Int
                         /\ FreeMicros(account') = FreeMicros(account) + m
                         /\ UNCHANGED holds
  <1>1. ASSUME NEW key \in Keys, NEW m \in Amounts,
               \/ GrantSignupPromotionalCredit(key, m)
               \/ CreditPaidBalance(key, m)
               \/ DebitPaidBalance(key, m)
               \/ DebitUsageAdjustment(key, m)
               \/ RecordOutstandingDebt(key, m)
        PROVE  Moved(m) \/ Moved(-m)
    <2>1. m \in Nat /\ account \in Accounts
      BY AmountsArePositive DEF TypeOK
    <2>2. CASE GrantSignupPromotionalCredit(key, m)
      <3>1. GrantDeltas(m) \in Deltas /\ NetOf(GrantDeltas(m)) = m
        BY <2>1, MovementDeltasType, MovementsAreExact
      <3> QED BY <2>2, <3>1, FreeAfterPost DEF GrantSignupPromotionalCredit
    <2>3. CASE CreditPaidBalance(key, m)
      <3>1. /\ CreditDeltas(account, m) \in Deltas
            /\ NetOf(CreditDeltas(account, m)) = m
        BY <2>1, MovementDeltasType, MovementsAreExact
      <3> QED BY <2>3, <3>1, FreeAfterPost DEF CreditPaidBalance
    <2>4. CASE DebitPaidBalance(key, m)
      <3>1. /\ PaidReversalDeltas(account, m) \in Deltas
            /\ NetOf(PaidReversalDeltas(account, m)) = -m
        BY <2>1, MovementDeltasType, MovementsAreExact
      <3> QED BY <2>4, <3>1, FreeAfterPost DEF DebitPaidBalance
    <2>5. CASE DebitUsageAdjustment(key, m)
      <3>1. /\ UsageDebitDeltas(account, m) \in Deltas
            /\ NetOf(UsageDebitDeltas(account, m)) = -m
        BY <2>1, MovementDeltasType, MovementsAreExact
      <3> QED BY <2>5, <3>1, FreeAfterPost DEF DebitUsageAdjustment
    <2>6. CASE RecordOutstandingDebt(key, m)
      <3>1. DebtDeltas(m) \in Deltas /\ NetOf(DebtDeltas(m)) = -m
        BY <2>1, MovementDeltasType, MovementsAreExact
      <3> QED BY <2>6, <3>1, FreeAfterPost DEF RecordOutstandingDebt
    <2> QED BY <1>1, <2>2, <2>3, <2>4, <2>5, <2>6
  <1>2. ASSUME NEW key \in Keys, NEW m \in Amounts \cup {0},
               NEW n \in Amounts \cup {0}, CreditUsageAdjustment(key, m, n)
        PROVE  Moved(m + n)
    <2>1. m \in Nat /\ n \in Nat /\ account \in Accounts
      BY AmountsArePositive DEF TypeOK
    <2>2. /\ UsageCreditDeltas(account, m, n) \in Deltas
          /\ NetOf(UsageCreditDeltas(account, m, n)) = m + n
      BY <2>1, MovementDeltasType, MovementsAreExact
    <2> QED BY <1>2, <2>2, FreeAfterPost DEF CreditUsageAdjustment
  <1>3. ASSUME NEW m \in Int, Moved(m)
        PROVE  Escrow!Deposit(m)
    BY <1>3 DEF Escrow!Deposit
  <1>4. ASSUME NEW m \in Int, Moved(-m)
        PROVE  Escrow!Charge(m)
    BY <1>4 DEF Escrow!Charge
  <1> HIDE DEF Moved
  <1>5. CASE MoveMoney
    <2>1. \E m \in Amounts : Moved(m) \/ Moved(-m)
      BY <1>1, <1>5 DEF MoveMoney
    <2>2. \E m \in Amounts : Escrow!Deposit(m) \/ Escrow!Charge(m)
      BY <2>1, <1>3, <1>4, AmountsArePositive
    <2> QED BY <2>2 DEF Escrow!Next
  <1>6. CASE AdjustUsage
    <2>1. \E m, n \in Amounts \cup {0} : Moved(m + n)
      BY <1>2, <1>6 DEF AdjustUsage
    <2>2. \E m, n \in Amounts \cup {0} : Escrow!Deposit(m + n)
      BY <2>1, <1>3, AmountsArePositive
    <2> QED BY <2>2 DEF Escrow!Next, Escrow!ActualAmounts
  <1> QED BY <1>5, <1>6

LEMMA HoldImplements ==
    ASSUME TypeOK, UseHold
    PROVE  Escrow!Next \/ UNCHANGED Escrow!evars
  <1>1. account \in Accounts /\ \A k \in Keys : holds[k] \in Holds
    BY DEF TypeOK
  <1> DEFINE phase == [k \in Keys |-> holds[k].status]
             escrow == [k \in Keys |-> Escrowed(holds[k])]
  <1>2. ASSUME NEW key \in Keys, NEW purpose \in Purposes,
               NEW amount \in Amounts, ReserveCredit(key, purpose, amount)
        PROVE  Escrow!Open(key, amount)
    <2> DEFINE q == PromoShare(account, amount, PromoAllowed(purpose))
               h == [NoHold EXCEPT !.status = "ACTIVE", !.purpose = purpose,
                                   !.paid = amount - q, !.promo = q]
    <2>1. amount \in Nat
      BY AmountsArePositive
    <2>2. q \in Nat /\ amount - q \in Nat
      BY <1>1, <2>1, ReserveSplit DEF PromoAllowed
    <2>3. /\ Post("reserve", key, key, amount, ReserveDeltas(amount - q, q))
          /\ holds' = [holds EXCEPT ![key] = h]
          /\ holds[key].status = "NONE" /\ account.debt = 0
          /\ ReservableMicros(account, PromoAllowed(purpose)) >= amount
      BY <1>2 DEF ReserveCredit
    <2> HIDE DEF q
    <2>4. FreeMicros(account) >= amount
      BY <1>1, <2>3, <2>1 DEF FreeMicros, ReservableMicros, Accounts
    <2>5. FreeMicros(account') = FreeMicros(account) - amount
      <3>1. /\ ReserveDeltas(amount - q, q) \in Deltas
            /\ NetOf(ReserveDeltas(amount - q, q)) = -((amount - q) + q)
        BY <1>1, <2>2, HoldDeltasType, HoldsAreExact
      <3> QED BY <2>1, <2>2, <2>3, <3>1, FreeAfterPost
    <2>6. h.status = "ACTIVE" /\ Escrowed(h) = amount
      BY <2>1, <2>2 DEF NoHold, Escrowed, HoldAmount
    <2> HIDE DEF h
    <2>7. /\ phase' = [phase EXCEPT ![key] = "ACTIVE"]
          /\ escrow' = [escrow EXCEPT ![key] = amount]
      BY <2>3, <2>6 DEF TypeOK
    <2> QED BY <2>3, <2>4, <2>5, <2>7 DEF Escrow!Open
  <1>3. ASSUME NEW hold \in Keys, NEW h, NEW actual \in Nat, NEW outcome,
               holds[hold].status = "ACTIVE",
               holds' = [holds EXCEPT ![hold] = h],
               h.status = outcome, outcome # "ACTIVE",
               FreeMicros(account') =
                   FreeMicros(account) + HoldAmount(holds[hold]) - actual
        PROVE  Escrow!Close(hold, outcome, actual)
    <2>1. Escrowed(h) = 0 /\ Escrowed(holds[hold]) = HoldAmount(holds[hold])
      BY <1>3 DEF Escrowed
    <2>2. /\ phase' = [phase EXCEPT ![hold] = outcome]
          /\ escrow' = [escrow EXCEPT ![hold] = 0]
      BY <1>3, <2>1 DEF TypeOK
    <2> QED BY <1>3, <2>1, <2>2 DEF Escrow!Close
  <1>4. ASSUME NEW key \in Keys, NEW hold \in Keys,
               NEW actual \in Amounts \cup {0},
               SettleReservation(key, hold, actual)
        PROVE  Escrow!Close(hold, "SETTLED", actual)
    <2> DEFINE g == holds[hold]
               d == SettleDeltas(account, g.paid, g.promo,
                                 PromoAllowed(g.purpose), actual)
               h == [g EXCEPT !.status = "SETTLED", !.settled = actual,
                              !.debtIncurred = d.debt]
    <2>1. g \in Holds /\ actual \in Nat /\ g.paid \in Nat /\ g.promo \in Nat
      BY <1>1, AmountsArePositive DEF Holds
    <2>2. d \in Deltas /\ NetOf(d) = (g.paid + g.promo) - actual
      <3>1. PICK allowed \in BOOLEAN : allowed = PromoAllowed(g.purpose)
        BY DEF PromoAllowed
      <3>2. d = SettleDeltas(account, g.paid, g.promo, allowed, actual)
        BY <3>1
      <3> HIDE DEF d, g
      <3>3. SettleDeltas(account, g.paid, g.promo, allowed, actual) \in Deltas
        BY <1>1, <2>1, HoldDeltasType
      <3>4. NetOf(SettleDeltas(account, g.paid, g.promo, allowed, actual))
                = (g.paid + g.promo) - actual
        BY <1>1, <2>1, HoldsAreExact
      <3> QED BY <3>2, <3>3, <3>4
    <2>3. /\ Post("settle", key, hold, actual, d)
          /\ holds' = [holds EXCEPT ![hold] = h] /\ g.status = "ACTIVE"
      BY <1>4 DEF SettleReservation
    <2> HIDE DEF d
    <2>4. h.status = "SETTLED"
      BY <2>1 DEF Holds
    <2> HIDE DEF h
    <2>5. FreeMicros(account') = FreeMicros(account) + HoldAmount(g) - actual
      BY <2>1, <2>2, <2>3, FreeAfterPost DEF HoldAmount
    <2> QED BY <1>3, <2>1, <2>3, <2>4, <2>5
  <1>5. ASSUME NEW key \in Keys, NEW hold \in Keys,
               ReleaseReservation(key, hold)
        PROVE  Escrow!Close(hold, "RELEASED", 0)
    <2> DEFINE g == holds[hold]
               d == ReleaseDeltas(g.paid, g.promo)
               h == [g EXCEPT !.status = "RELEASED"]
    <2>1. g \in Holds /\ g.paid \in Nat /\ g.promo \in Nat
      BY <1>1 DEF Holds
    <2>2. d \in Deltas /\ NetOf(d) = g.paid + g.promo
      BY <1>1, <2>1, HoldDeltasType, HoldsAreExact
    <2>3. /\ Post("release", key, hold, HoldAmount(g), d)
          /\ holds' = [holds EXCEPT ![hold] = h] /\ g.status = "ACTIVE"
      BY <1>5 DEF ReleaseReservation
    <2> HIDE DEF d
    <2>4. h.status = "RELEASED"
      BY <2>1 DEF Holds
    <2> HIDE DEF h
    <2>5. FreeMicros(account') = FreeMicros(account) + HoldAmount(g) - 0
      BY <2>1, <2>2, <2>3, FreeAfterPost DEF HoldAmount
    <2> QED BY <1>3, <2>1, <2>3, <2>4, <2>5
  <1>6. ASSUME NEW key \in Keys, RenewReservation(key) \/ PassExpiry(key)
        PROVE  UNCHANGED Escrow!evars
    <2>1. PICK b \in BOOLEAN : holds' = [holds EXCEPT ![key].expired = b]
      BY <1>6 DEF RenewReservation, PassExpiry
    <2>2. UNCHANGED account
      BY <1>6 DEF RenewReservation, PassExpiry
    <2>3. \A k \in Keys : /\ holds'[k].status = holds[k].status
                          /\ holds'[k].paid = holds[k].paid
                          /\ holds'[k].promo = holds[k].promo
      BY <2>1 DEF TypeOK, Holds
    <2>4. phase' = phase /\ escrow' = escrow
      BY <2>3 DEF Escrowed, HoldAmount
    <2> QED BY <2>2, <2>4 DEF Escrow!evars
  <1> HIDE DEF phase, escrow
  <1> QED
    BY <1>2, <1>4, <1>5, <1>6 DEF UseHold, Escrow!Next, Escrow!ActualAmounts

\* The five-column wallet implements the escrow account: one signed balance,
\* escrows opened within it and closed once, every amount moved exactly.
THEOREM Refinement == Spec => ImplementsEscrow
  <1>1. Init => Escrow!Init
    BY DEF Init, Escrow!Init, EmptyAccount, NoHold, FreeMicros, Escrowed
  <1>2. TypeOK /\ [Next]_vars => [Escrow!Next]_(Escrow!evars)
    <2> SUFFICES ASSUME TypeOK, [Next]_vars
                 PROVE  Escrow!Next \/ UNCHANGED Escrow!evars
      OBVIOUS
    <2>1. CASE MoveMoney \/ AdjustUsage
      BY <2>1, MovementImplements
    <2>2. CASE UseHold
      BY <2>2, HoldImplements
    <2>3. CASE UNCHANGED vars
      BY <2>3 DEF vars, Escrow!evars
    <2> QED BY <2>1, <2>2, <2>3 DEF Next
  <1> QED
    BY <1>1, <1>2, TypeCorrect, PTL DEF Spec, ImplementsEscrow, Escrow!Spec
-----------------------------------------------------------------------------
(* Sums over finite sets, by induction on least counterexamples.           *)

\* Induction over the natural numbers, about a set instead of a predicate.
LEMMA Induction ==
    ASSUME NEW T, 0 \in T, \A n \in Nat : n \in T => n + 1 \in T
    PROVE  \A n \in Nat : n \in T
  <1> SUFFICES ASSUME NEW k \in Nat \ T PROVE FALSE
    OBVIOUS
  <1>1. IsWellFoundedOn(OpToRel(<,Nat), Nat)
    BY NatLessThanWellFounded
  <1>2. PICK m \in Nat \ T : \A y \in Nat \ T : ~ (<<y, m>> \in OpToRel(<,Nat))
    BY <1>1, WFMin
  <1>3. \A y \in Nat \ T : ~(y < m)
    BY <1>2 DEF OpToRel
  <1>4. m - 1 \in Nat /\ m - 1 < m
    OBVIOUS
  <1>5. m - 1 \in T
    BY <1>3, <1>4
  <1> QED BY <1>4, <1>5

\* The recursion that the library's fold follows.
Pick(T) == CHOOSE x \in T : TRUE
SumStep(g, f, T) == IF T = {} THEN 0 ELSE f[Pick(T)] + g[T \ {Pick(T)}]
Sums(g, f, S) == g = [T \in SUBSET S |-> SumStep(g, f, T)]

LEMMA Parts ==
    ASSUME NEW S, IsFiniteSet(S), NEW T \in SUBSET S
    PROVE  /\ IsFiniteSet(T) /\ Cardinality(T) \in Nat /\ Cardinality(T) <= Cardinality(S)
           /\ T # {} => Pick(T) \in T
           /\ Cardinality(T) = 0 => T = {}
           /\ \A x \in T : /\ T \ {x} \in SUBSET S
                           /\ Cardinality(T \ {x}) = Cardinality(T) - 1
  <1>1. IsFiniteSet(T) /\ Cardinality(T) \in Nat /\ Cardinality(T) <= Cardinality(S)
    BY FS_Subset, FS_CardinalityType
  <1>2. T # {} => Pick(T) \in T
    BY DEF Pick
  <1>3. Cardinality(T) = 0 => T = {}
    BY <1>1, FS_EmptySet
  <1>4. \A x \in T : Cardinality(T \ {x}) = Cardinality(T) - 1
    BY <1>1, FS_RemoveElement
  <1> QED BY <1>1, <1>2, <1>3, <1>4

LEMMA SumsExist ==
    ASSUME NEW S, IsFiniteSet(S), NEW f \in [S -> Int]
    PROVE  \E g \in [SUBSET S -> Int] : Sums(g, f, S)
  <1> DEFINE To(n, g) == \A T \in SUBSET S : Cardinality(T) <= n => g[T] = SumStep(g, f, T)
             Good == {n \in Nat : \E g \in [SUBSET S -> Int] : To(n, g)}
  <1>1. 0 \in Good
    <2> DEFINE g == [T \in SUBSET S |-> 0]
    <2>1. g \in [SUBSET S -> Int]
      OBVIOUS
    <2>2. ASSUME NEW T \in SUBSET S, Cardinality(T) <= 0
          PROVE  g[T] = SumStep(g, f, T)
      <3>1. T = {}
        BY <2>2, Parts
      <3> QED BY <3>1 DEF SumStep
    <2> QED BY <2>1, <2>2
  <1>2. ASSUME NEW n \in Nat, n \in Good
        PROVE  n + 1 \in Good
    <2>1. PICK g \in [SUBSET S -> Int] : To(n, g)
      BY <1>2
    <2> DEFINE h == [T \in SUBSET S |-> IF Cardinality(T) = n + 1 THEN SumStep(g, f, T) ELSE g[T]]
    <2>2. ASSUME NEW T \in SUBSET S, T # {}
          PROVE  f[Pick(T)] \in Int /\ g[T \ {Pick(T)}] \in Int
      BY <2>2, Parts
    <2>3. h \in [SUBSET S -> Int]
      <3>1. \A T \in SUBSET S : SumStep(g, f, T) \in Int
        BY <2>2 DEF SumStep
      <3> QED BY <3>1
    <2>4. ASSUME NEW T \in SUBSET S, Cardinality(T) <= n + 1
          PROVE  h[T] = SumStep(h, f, T)
      <3>1. CASE T = {}
        <4>1. Cardinality(T) = 0
          BY <3>1, FS_EmptySet
        <4>2. g[T] = 0
          BY <2>1, <3>1, <4>1 DEF SumStep
        <4>3. Cardinality(T) # n + 1
          BY <4>1
        <4>4. h[T] = g[T]
          BY <4>3
        <4> QED BY <3>1, <4>2, <4>4 DEF SumStep
      <3>2. CASE T # {}
        <4>1. PICK p : p = Pick(T)
          OBVIOUS
        <4>2. p \in T /\ T \ {p} \in SUBSET S /\ Cardinality(T \ {p}) = Cardinality(T) - 1
              /\ Cardinality(T) \in Nat
          BY <3>2, <4>1, Parts
        <4>3. Cardinality(T \ {p}) # n + 1
          BY <2>4, <4>2
        <4>4. h[T \ {p}] = g[T \ {p}]
          BY <4>2, <4>3
        <4>5. SumStep(h, f, T) = SumStep(g, f, T)
          BY <4>1, <4>4 DEF SumStep
        <4>6. CASE Cardinality(T) = n + 1
          BY <4>5, <4>6
        <4>7. CASE Cardinality(T) # n + 1
          <5>1. Cardinality(T) <= n
            BY <2>4, <4>2, <4>7
          <5>2. g[T] = SumStep(g, f, T)
            BY <2>1, <5>1
          <5> QED BY <4>5, <4>7, <5>2
        <4> QED BY <4>6, <4>7
      <3> QED BY <3>1, <3>2
    <2>5. To(n + 1, h)
      BY <2>4
    <2> HIDE DEF h
    <2> QED BY <2>3, <2>5
  <1>3. Cardinality(S) \in Good
    <2> HIDE DEF Good
    <2> QED BY <1>1, <1>2, Induction, FS_CardinalityType
  <1>4. PICK g \in [SUBSET S -> Int] : To(Cardinality(S), g)
    BY <1>3
  <1>5. \A T \in SUBSET S : g[T] = SumStep(g, f, T)
    BY <1>4, Parts
  <1>6. Sums(g, f, S)
    BY <1>5 DEF Sums
  <1> QED BY <1>6

\* Induction over the subsets of a finite set.
LEMMA PartsInduction ==
    ASSUME NEW S, IsFiniteSet(S), NEW Q,
           \A T \in SUBSET S : (\A x \in T : T \ {x} \in Q) => T \in Q
    PROVE  \A T \in SUBSET S : T \in Q
  <1> DEFINE Good == {n \in Nat : \A T \in SUBSET S : Cardinality(T) = n => T \in Q}
  <1>1. 0 \in Good
    <2>1. ASSUME NEW T \in SUBSET S, Cardinality(T) = 0
          PROVE  T \in Q
      <3>1. T = {}
        BY <2>1, Parts
      <3> QED BY <3>1
    <2> QED BY <2>1
  <1>2. ASSUME NEW n \in Nat, n \in Good
        PROVE  n + 1 \in Good
    <2>1. ASSUME NEW T \in SUBSET S, Cardinality(T) = n + 1
          PROVE  T \in Q
      <3>1. \A x \in T : T \ {x} \in SUBSET S /\ Cardinality(T \ {x}) = n
        <4>1. \A x \in T : T \ {x} \in SUBSET S /\ Cardinality(T \ {x}) = Cardinality(T) - 1
          BY Parts
        <4> QED BY <2>1, <4>1
      <3>2. \A x \in T : T \ {x} \in Q
        BY <1>2, <3>1
      <3> QED BY <3>2
    <2> QED BY <2>1
  <1>3. \A n \in Nat : n \in Good
    <2> HIDE DEF Good
    <2> QED BY <1>1, <1>2, Induction
  <1> QED BY <1>3, Parts

LEMMA SumsUnique ==
    ASSUME NEW S, IsFiniteSet(S), NEW f, NEW g, NEW h, Sums(g, f, S), Sums(h, f, S)
    PROVE  g = h
  <1> DEFINE Q == {T \in SUBSET S : g[T] = h[T]}
  <1>1. ASSUME NEW T \in SUBSET S, \A x \in T : T \ {x} \in Q
        PROVE  T \in Q
    <2>1. g[T] = SumStep(g, f, T) /\ h[T] = SumStep(h, f, T)
      BY DEF Sums
    <2>2. T # {} => Pick(T) \in T
      BY Parts
    <2>3. SumStep(g, f, T) = SumStep(h, f, T)
      BY <1>1, <2>2 DEF SumStep
    <2> QED BY <2>1, <2>3
  <1>2. \A T \in SUBSET S : T \in Q
    <2> HIDE DEF Q
    <2> QED BY <1>1, PartsInduction
  <1>3. g = [T \in SUBSET S |-> g[T]] /\ h = [T \in SUBSET S |-> h[T]]
    BY DEF Sums
  <1> QED BY <1>2, <1>3

\* Such a function adds up every subset, whichever element is taken first.
AddsUp(g, f, S) ==
    /\ g \in [SUBSET S -> Int]
    /\ g[{}] = 0
    /\ \A T \in SUBSET S : \A x \in T : g[T] = f[x] + g[T \ {x}]

LEMMA SumsAddUp ==
    ASSUME NEW S, IsFiniteSet(S), NEW f \in [S -> Int], NEW it, Sums(it, f, S)
    PROVE  AddsUp(it, f, S)
  <1>1. PICK g \in [SUBSET S -> Int] : Sums(g, f, S)
    BY SumsExist
  <1>2. it = g
    BY <1>1, SumsUnique
  <1>3. \A T \in SUBSET S : g[T] = SumStep(g, f, T)
    BY <1>1 DEF Sums
  <1>4. g[{}] = 0
    BY <1>3 DEF SumStep
  <1> DEFINE Q == {T \in SUBSET S : \A x \in T : g[T] = f[x] + g[T \ {x}]}
  <1>5. ASSUME NEW T \in SUBSET S, \A x \in T : T \ {x} \in Q
        PROVE  T \in Q
    <2> SUFFICES ASSUME NEW x \in T
                 PROVE  g[T] = f[x] + g[T \ {x}]
      OBVIOUS
    <2>1. PICK p : p = Pick(T)
      OBVIOUS
    <2>2. p \in T
      BY <2>1, Parts
    <2>3. g[T] = f[p] + g[T \ {p}]
      BY <1>3, <2>1, <2>2 DEF SumStep
    <2>4. CASE x = p
      BY <2>3, <2>4
    <2>5. CASE x # p
      <3>1. g[T \ {p}] = f[x] + g[(T \ {p}) \ {x}]
        BY <1>5, <2>2, <2>5
      <3>2. g[T \ {x}] = f[p] + g[(T \ {x}) \ {p}]
        BY <1>5, <2>2, <2>5
      <3>3. (T \ {p}) \ {x} = (T \ {x}) \ {p} /\ (T \ {p}) \ {x} \in SUBSET S
        OBVIOUS
      <3>4. PICK rest \in Int : rest = g[(T \ {p}) \ {x}]
        BY <3>3
      <3>5. g[T \ {p}] = f[x] + rest /\ g[T \ {x}] = f[p] + rest
        BY <3>1, <3>2, <3>3, <3>4
      <3>6. f[x] \in Int /\ f[p] \in Int
        BY <2>2
      <3>7. f[p] + (f[x] + rest) = f[x] + (f[p] + rest)
        BY <3>4, <3>6
      <3> QED BY <2>3, <3>5, <3>7
    <2> QED BY <2>4, <2>5
  <1>6. \A T \in SUBSET S : T \in Q
    <2> HIDE DEF Q
    <2> QED BY <1>5, PartsInduction
  <1> QED BY <1>1, <1>2, <1>4, <1>6 DEF AddsUp

\* The sum over a part is the same within the part and within the whole.
LEMMA SumWithin ==
    ASSUME NEW S, IsFiniteSet(S), NEW R \in SUBSET S, NEW f, NEW h, \A x \in R : f[x] = h[x],
           NEW F, NEW H, AddsUp(F, f, S), AddsUp(H, h, R)
    PROVE  F[R] = H[R]
  <1> DEFINE Q == {T \in SUBSET R : F[T] = H[T]}
  <1>1. ASSUME NEW T \in SUBSET R, \A x \in T : T \ {x} \in Q
        PROVE  T \in Q
    <2>1. CASE T = {}
      BY <2>1 DEF AddsUp
    <2>2. CASE T # {}
      <3>1. PICK x \in T : TRUE
        BY <2>2
      <3>2. F[T] = f[x] + F[T \ {x}] /\ H[T] = h[x] + H[T \ {x}]
        BY <3>1 DEF AddsUp
      <3>3. F[T \ {x}] = H[T \ {x}] /\ f[x] = h[x]
        BY <1>1, <3>1
      <3> QED BY <3>2, <3>3
    <2> QED BY <2>1, <2>2
  <1>2. IsFiniteSet(R)
    BY FS_Subset
  <1>3. \A T \in SUBSET R : T \in Q
    <2> HIDE DEF Q
    <2> QED BY <1>1, <1>2, PartsInduction
  <1> QED BY <1>3

\* ... and no part of a sum of naturals is negative.
LEMMA SumsOfNaturals ==
    ASSUME NEW S, IsFiniteSet(S), NEW f \in [S -> Nat], NEW g, AddsUp(g, f, S)
    PROVE  \A T \in SUBSET S : g[T] \in Nat
  <1> DEFINE Q == {T \in SUBSET S : g[T] \in Nat}
  <1>1. ASSUME NEW T \in SUBSET S, \A x \in T : T \ {x} \in Q
        PROVE  T \in Q
    <2>1. CASE T = {}
      BY <2>1 DEF AddsUp
    <2>2. CASE T # {}
      <3>1. PICK x \in T : TRUE
        BY <2>2
      <3>2. g[T] = f[x] + g[T \ {x}]
        BY <3>1 DEF AddsUp
      <3>3. g[T \ {x}] \in Nat /\ f[x] \in Nat
        BY <1>1, <3>1
      <3> QED BY <3>2, <3>3
    <2> QED BY <2>1, <2>2
  <1>2. \A T \in SUBSET S : T \in Q
    <2> HIDE DEF Q
    <2> QED BY <1>1, PartsInduction
  <1> QED BY <1>2

-----------------------------------------------------------------------------
(* What the active reservations hold.                                      *)

Paids(rows, S) == [k \in S |-> rows[k].paid]
Promos(rows, S) == [k \in S |-> rows[k].promo]

LEMMA PaidHeldIs ==
    ASSUME NEW rows, NEW S, IsFiniteSet(S), \A k \in S : rows[k].paid \in Nat
    PROVE  \E g : AddsUp(g, Paids(rows, S), S) /\ PaidHeld(rows, S) = g[S]
  <1> DEFINE v == Paids(rows, S)
             P(g) == g = [T \in SUBSET S |->
                             IF T = {} THEN 0
                             ELSE rows[CHOOSE x \in T : TRUE].paid
                                  + g[T \ {CHOOSE x \in T : TRUE}]]
             it == CHOOSE g : P(g)
  <1>1. PaidHeld(rows, S) = it[S]
    BY DEF PaidHeld, MapThenSumSet, MapThenFoldSet
  <1>2. v \in [S -> Int]
    BY DEF Paids
  <1>3. ASSUME NEW g PROVE P(g) <=> Sums(g, v, S)
    <2>1. \A T \in SUBSET S : T # {} => v[Pick(T)] = rows[Pick(T)].paid
      BY Parts DEF Paids
    <2>2. \A T \in SUBSET S : SumStep(g, v, T)
              = IF T = {} THEN 0 ELSE rows[Pick(T)].paid + g[T \ {Pick(T)}]
      BY <2>1 DEF SumStep
    <2> QED BY <2>2 DEF Sums, Pick
  <1>4. PICK g : Sums(g, v, S)
    BY <1>2, SumsExist
  <1>5. P(g)
    BY <1>3, <1>4
  <1>6. P(it)
    <2> HIDE DEF P
    <2> QED BY <1>5
  <1>7. Sums(it, v, S)
    BY <1>3, <1>6
  <1> HIDE DEF it, P
  <1>8. AddsUp(it, v, S)
    BY <1>2, <1>7, SumsAddUp
  <1> QED BY <1>1, <1>8

LEMMA PromoHeldIs ==
    ASSUME NEW rows, NEW S, IsFiniteSet(S), \A k \in S : rows[k].promo \in Nat
    PROVE  \E g : AddsUp(g, Promos(rows, S), S) /\ PromoHeld(rows, S) = g[S]
  <1> DEFINE v == Promos(rows, S)
             P(g) == g = [T \in SUBSET S |->
                             IF T = {} THEN 0
                             ELSE rows[CHOOSE x \in T : TRUE].promo
                                  + g[T \ {CHOOSE x \in T : TRUE}]]
             it == CHOOSE g : P(g)
  <1>1. PromoHeld(rows, S) = it[S]
    BY DEF PromoHeld, MapThenSumSet, MapThenFoldSet
  <1>2. v \in [S -> Int]
    BY DEF Promos
  <1>3. ASSUME NEW g PROVE P(g) <=> Sums(g, v, S)
    <2>1. \A T \in SUBSET S : T # {} => v[Pick(T)] = rows[Pick(T)].promo
      BY Parts DEF Promos
    <2>2. \A T \in SUBSET S : SumStep(g, v, T)
              = IF T = {} THEN 0 ELSE rows[Pick(T)].promo + g[T \ {Pick(T)}]
      BY <2>1 DEF SumStep
    <2> QED BY <2>2 DEF Sums, Pick
  <1>4. PICK g : Sums(g, v, S)
    BY <1>2, SumsExist
  <1>5. P(g)
    BY <1>3, <1>4
  <1>6. P(it)
    <2> HIDE DEF P
    <2> QED BY <1>5
  <1>7. Sums(it, v, S)
    BY <1>3, <1>6
  <1> HIDE DEF it, P
  <1>8. AddsUp(it, v, S)
    BY <1>2, <1>7, SumsAddUp
  <1> QED BY <1>1, <1>8

\* Reservation x is in U and the others are those of R, with the same parts.
OneMore(rows, more, R, U, x) ==
    /\ IsFiniteSet(U) /\ x \in U /\ R = U \ {x}
    /\ \A k \in U : more[k].paid \in Nat /\ more[k].promo \in Nat
    /\ \A k \in R : rows[k].paid = more[k].paid /\ rows[k].promo = more[k].promo

LEMMA HeldMore ==
    ASSUME NEW rows, NEW more, NEW R, NEW U, NEW x, OneMore(rows, more, R, U, x)
    PROVE  /\ PaidHeld(rows, R) \in Nat /\ PromoHeld(rows, R) \in Nat
           /\ PaidHeld(more, U) = PaidHeld(rows, R) + more[x].paid
           /\ PromoHeld(more, U) = PromoHeld(rows, R) + more[x].promo
  <1>0. PICK S \in SUBSET U : S = R
    BY DEF OneMore
  <1>1. /\ IsFiniteSet(S) /\ IsFiniteSet(U) /\ x \in U /\ U \ {x} = S
        /\ \A k \in U : more[k].paid \in Nat /\ more[k].promo \in Nat
        /\ \A k \in S : /\ rows[k].paid \in Nat /\ rows[k].paid = more[k].paid
                         /\ rows[k].promo \in Nat /\ rows[k].promo = more[k].promo
    BY <1>0, FS_Subset DEF OneMore
  <1>2. PaidHeld(rows, S) \in Nat /\ PaidHeld(more, U) = PaidHeld(rows, S) + more[x].paid
    <2>1. PICK G : AddsUp(G, Paids(more, U), U) /\ PaidHeld(more, U) = G[U]
      BY <1>1, PaidHeldIs
    <2>2. PICK g : AddsUp(g, Paids(rows, S), S) /\ PaidHeld(rows, S) = g[S]
      BY <1>1, PaidHeldIs
    <2>3. G[S] = g[S]
      <3>1. \A k \in S : Paids(more, U)[k] = Paids(rows, S)[k]
        BY <1>1 DEF Paids
      <3>2. IsFiniteSet(U) /\ S \in SUBSET U
        BY <1>1
      <3> QED BY <2>1, <2>2, <3>1, <3>2, SumWithin
    <2>4. G[U] = more[x].paid + G[S]
      <3>1. Paids(more, U)[x] = more[x].paid
        BY <1>1 DEF Paids
      <3> QED BY <1>1, <2>1, <3>1 DEF AddsUp
    <2>5. g[S] \in Nat
      <3>1. Paids(rows, S) \in [S -> Nat]
        BY <1>1 DEF Paids
      <3> QED BY <1>1, <2>2, <3>1, SumsOfNaturals
    <2>6. more[x].paid \in Nat
      BY <1>1
    <2> QED BY <2>1, <2>2, <2>3, <2>4, <2>5, <2>6
  <1>3. PromoHeld(rows, S) \in Nat /\ PromoHeld(more, U) = PromoHeld(rows, S) + more[x].promo
    <2>1. PICK G : AddsUp(G, Promos(more, U), U) /\ PromoHeld(more, U) = G[U]
      BY <1>1, PromoHeldIs
    <2>2. PICK g : AddsUp(g, Promos(rows, S), S) /\ PromoHeld(rows, S) = g[S]
      BY <1>1, PromoHeldIs
    <2>3. G[S] = g[S]
      <3>1. \A k \in S : Promos(more, U)[k] = Promos(rows, S)[k]
        BY <1>1 DEF Promos
      <3>2. IsFiniteSet(U) /\ S \in SUBSET U
        BY <1>1
      <3> QED BY <2>1, <2>2, <3>1, <3>2, SumWithin
    <2>4. G[U] = more[x].promo + G[S]
      <3>1. Promos(more, U)[x] = more[x].promo
        BY <1>1 DEF Promos
      <3> QED BY <1>1, <2>1, <3>1 DEF AddsUp
    <2>5. g[S] \in Nat
      <3>1. Promos(rows, S) \in [S -> Nat]
        BY <1>1 DEF Promos
      <3> QED BY <1>1, <2>2, <3>1, SumsOfNaturals
    <2>6. more[x].promo \in Nat
      BY <1>1
    <2> QED BY <2>1, <2>2, <2>3, <2>4, <2>5, <2>6
  <1> QED BY <1>0, <1>2, <1>3

\* The same reservations, changed in other fields.
LEMMA HeldSame ==
    ASSUME NEW rows, NEW other, NEW S, IsFiniteSet(S),
           \A k \in S : /\ rows[k].paid \in Nat /\ other[k].paid = rows[k].paid
                        /\ rows[k].promo \in Nat /\ other[k].promo = rows[k].promo
    PROVE  /\ PaidHeld(other, S) = PaidHeld(rows, S)
           /\ PromoHeld(other, S) = PromoHeld(rows, S)
  <1>1. PaidHeld(other, S) = PaidHeld(rows, S)
    <2>1. PICK G : AddsUp(G, Paids(other, S), S) /\ PaidHeld(other, S) = G[S]
      BY PaidHeldIs
    <2>2. PICK g : AddsUp(g, Paids(rows, S), S) /\ PaidHeld(rows, S) = g[S]
      BY PaidHeldIs
    <2>3. \A k \in S : Paids(other, S)[k] = Paids(rows, S)[k]
      BY DEF Paids
    <2> QED BY <2>1, <2>2, <2>3, SumWithin
  <1>2. PromoHeld(other, S) = PromoHeld(rows, S)
    <2>1. PICK G : AddsUp(G, Promos(other, S), S) /\ PromoHeld(other, S) = G[S]
      BY PromoHeldIs
    <2>2. PICK g : AddsUp(g, Promos(rows, S), S) /\ PromoHeld(rows, S) = g[S]
      BY PromoHeldIs
    <2>3. \A k \in S : Promos(other, S)[k] = Promos(rows, S)[k]
      BY DEF Promos
    <2> QED BY <2>1, <2>2, <2>3, SumWithin
  <1> QED BY <1>1, <1>2
-----------------------------------------------------------------------------
(* The reserved columns.                                                   *)

HeldInvariant ==
    /\ TypeOK
    /\ IsFiniteSet(ActiveHolds)
    /\ HoldsBackReservedColumns

\* No movement touches the reserved columns.
LEMMA MovementsReserveNothing ==
    ASSUME NEW a \in Accounts, NEW m \in Nat, NEW n \in Nat
    PROVE  \A d \in {GrantDeltas(m), CreditDeltas(a, m), PaidReversalDeltas(a, m),
                      UsageCreditDeltas(a, m, n), UsageDebitDeltas(a, m), DebtDeltas(m)} :
              d.reservedPaid = 0 /\ d.reservedPromo = 0
  BY DEF GrantDeltas, CreditDeltas, PaidReversalDeltas, UsageCreditDeltas, UsageDebitDeltas,
     DebtDeltas, BalanceDeltas

LEMMA ReservedAfterPost ==
    ASSUME NEW op, NEW key, NEW ref, NEW gross, NEW delta, Post(op, key, ref, gross, delta)
    PROVE  /\ account'.reservedPaid = account.reservedPaid + delta.reservedPaid
           /\ account'.reservedPromo = account.reservedPromo + delta.reservedPromo
  BY DEF Post, Projected

LEMMA HoldColumns ==
    ASSUME TypeOK, NEW k \in Keys
    PROVE  /\ holds[k].paid \in Nat /\ holds[k].promo \in Nat
           /\ PromoAllowed(holds[k].purpose) \in BOOLEAN
           /\ account \in Accounts
           /\ account.reservedPaid \in Nat /\ account.reservedPromo \in Nat
  BY DEF TypeOK, Holds, Accounts, PromoAllowed

\* A step that posts no reserved column and changes no reservation's parts.
LEMMA ColumnsRest ==
    ASSUME HeldInvariant, holds' \in [Keys -> Holds],
           account'.reservedPaid = account.reservedPaid,
           account'.reservedPromo = account.reservedPromo,
           \A k \in Keys : /\ holds'[k].status = holds[k].status
                           /\ holds'[k].paid = holds[k].paid
                           /\ holds'[k].promo = holds[k].promo
    PROVE  IsFiniteSet(ActiveHolds') /\ HoldsBackReservedColumns'
  <1>1. ActiveHolds' = ActiveHolds
    BY DEF ActiveHolds
  <1>2. PICK S : S = ActiveHolds
    OBVIOUS
  <1>3. \A k \in S : k \in Keys
    BY <1>2 DEF ActiveHolds
  <1>4. IsFiniteSet(S) /\ \A k \in S : holds[k].paid \in Nat /\ holds[k].promo \in Nat
    BY <1>2, <1>3, HoldColumns DEF HeldInvariant
  <1>5. PaidHeld(holds', S) = PaidHeld(holds, S) /\ PromoHeld(holds', S) = PromoHeld(holds, S)
    BY <1>3, <1>4, HeldSame
  <1> QED BY <1>1, <1>2, <1>4, <1>5 DEF HeldInvariant, HoldsBackReservedColumns

\* A reservation is opened and its parts enter the reserved columns.
LEMMA ColumnsOpen ==
    ASSUME HeldInvariant, NEW key \in Keys, NEW h \in Holds,
           holds[key].status = "NONE", h.status = "ACTIVE",
           holds' = [holds EXCEPT ![key] = h],
           account'.reservedPaid = account.reservedPaid + h.paid,
           account'.reservedPromo = account.reservedPromo + h.promo
    PROVE  IsFiniteSet(ActiveHolds') /\ HoldsBackReservedColumns'
  <1> USE DEF HeldInvariant
  <1>1. holds'[key] = h /\ \A k \in Keys \ {key} : holds'[k] = holds[k]
    BY DEF TypeOK
  <1>2. PICK S : S = ActiveHolds
    OBVIOUS
  <1>3. PICK U : U = ActiveHolds'
    OBVIOUS
  <1>4. key \notin S /\ S \subseteq Keys /\ U = S \cup {key} /\ S = U \ {key} /\ key \in U
    BY <1>1, <1>2, <1>3 DEF ActiveHolds
  <1>5. IsFiniteSet(S) /\ IsFiniteSet(U)
    BY <1>2, <1>4, FS_AddElement
  <1>6. PICK rows, more : rows = holds /\ more = holds'
    OBVIOUS
  <1>7. more[key].paid = h.paid /\ more[key].promo = h.promo /\ h.paid \in Nat /\ h.promo \in Nat
    BY <1>1, <1>6 DEF Holds
  <1>8. /\ \A k \in U : more[k].paid \in Nat /\ more[k].promo \in Nat
        /\ \A k \in S : rows[k].paid = more[k].paid /\ rows[k].promo = more[k].promo
    BY <1>1, <1>4, <1>6, <1>7, HoldColumns
  <1>9. /\ PaidHeld(more, U) = PaidHeld(rows, S) + more[key].paid
        /\ PromoHeld(more, U) = PromoHeld(rows, S) + more[key].promo
    <2>1. OneMore(rows, more, S, U, key)
      BY <1>4, <1>5, <1>8 DEF OneMore
    <2> QED BY <2>1, HeldMore
  <1> QED BY <1>2, <1>3, <1>5, <1>6, <1>7, <1>9 DEF HoldsBackReservedColumns

\* The reserved columns hold at least what each active reservation holds.
LEMMA ColumnsCover ==
    ASSUME HeldInvariant, NEW key \in Keys, holds[key].status = "ACTIVE",
           NEW R, R = ActiveHolds \ {key}
    PROVE  /\ IsFiniteSet(R)
           /\ PaidHeld(holds, R) \in Nat /\ PromoHeld(holds, R) \in Nat
           /\ account.reservedPaid = PaidHeld(holds, R) + holds[key].paid
           /\ account.reservedPromo = PromoHeld(holds, R) + holds[key].promo
  <1> USE DEF HeldInvariant
  <1>1. PICK U, rows : U = ActiveHolds /\ rows = holds
    OBVIOUS
  <1>2. key \in U /\ R = U \ {key} /\ IsFiniteSet(U) /\ U \subseteq Keys
    BY <1>1 DEF ActiveHolds
  <1>3. \A k \in U : rows[k].paid \in Nat /\ rows[k].promo \in Nat
    BY <1>1, <1>2, HoldColumns
  <1>4. /\ PaidHeld(rows, R) \in Nat /\ PromoHeld(rows, R) \in Nat
        /\ PaidHeld(rows, U) = PaidHeld(rows, R) + rows[key].paid
        /\ PromoHeld(rows, U) = PromoHeld(rows, R) + rows[key].promo
    <2>1. OneMore(rows, rows, R, U, key)
      BY <1>2, <1>3 DEF OneMore
    <2> QED BY <2>1, HeldMore
  <1>5. IsFiniteSet(R)
    BY <1>2, FS_Subset
  <1> QED BY <1>1, <1>4, <1>5 DEF HoldsBackReservedColumns

\* A reservation is closed and its parts leave the reserved columns.
LEMMA ColumnsClose ==
    ASSUME HeldInvariant, NEW key \in Keys, NEW h,
           holds[key].status = "ACTIVE", h.status # "ACTIVE",
           holds' = [holds EXCEPT ![key] = h],
           account'.reservedPaid = account.reservedPaid - holds[key].paid,
           account'.reservedPromo = account.reservedPromo - holds[key].promo
    PROVE  IsFiniteSet(ActiveHolds') /\ HoldsBackReservedColumns'
  <1>1. holds'[key] = h /\ \A k \in Keys \ {key} : holds'[k] = holds[k]
    BY DEF HeldInvariant, TypeOK
  <1>2. PICK R : R = ActiveHolds \ {key}
    OBVIOUS
  <1>3. R \subseteq Keys \ {key} /\ ActiveHolds' = R
    BY <1>1, <1>2 DEF ActiveHolds
  <1>4. /\ IsFiniteSet(R)
        /\ PaidHeld(holds, R) \in Nat /\ PromoHeld(holds, R) \in Nat
        /\ account.reservedPaid = PaidHeld(holds, R) + holds[key].paid
        /\ account.reservedPromo = PromoHeld(holds, R) + holds[key].promo
    BY <1>2, ColumnsCover
  <1>5. /\ \A k \in R : holds[k].paid \in Nat /\ holds[k].promo \in Nat
        /\ holds[key].paid \in Nat /\ holds[key].promo \in Nat
    BY <1>3, HoldColumns DEF HeldInvariant
  <1>6. PaidHeld(holds', R) = PaidHeld(holds, R) /\ PromoHeld(holds', R) = PromoHeld(holds, R)
    <2>1. PICK other : other = holds'
      OBVIOUS
    <2>2. PICK rows : rows = holds
      OBVIOUS
    <2>3. \A k \in R : /\ rows[k].paid \in Nat /\ other[k].paid = rows[k].paid
                       /\ rows[k].promo \in Nat /\ other[k].promo = rows[k].promo
      BY <1>1, <1>3, <1>5, <2>1, <2>2
    <2>4. PaidHeld(other, R) = PaidHeld(rows, R) /\ PromoHeld(other, R) = PromoHeld(rows, R)
      BY <1>4, <2>3, HeldSame
    <2> QED BY <2>1, <2>2, <2>4
  <1>7. account'.reservedPaid = PaidHeld(holds, R) /\ account'.reservedPromo = PromoHeld(holds, R)
    BY <1>4, <1>5
  <1> QED BY <1>3, <1>4, <1>6, <1>7 DEF HoldsBackReservedColumns
LEMMA MovementKeepsColumns ==
    ASSUME HeldInvariant, MoveMoney \/ AdjustUsage
    PROVE  IsFiniteSet(ActiveHolds') /\ HoldsBackReservedColumns'
  <1>1. account \in Accounts
    BY DEF HeldInvariant, TypeOK
  <1>2. PICK op, key, gross, delta : /\ Post(op, key, NoRef, gross, delta) /\ UNCHANGED holds
                                     /\ delta.reservedPaid = 0 /\ delta.reservedPromo = 0
    <2>1. CASE MoveMoney
      <3>1. PICK key \in Keys, m \in Amounts :
                \/ GrantSignupPromotionalCredit(key, m)
                \/ CreditPaidBalance(key, m)
                \/ DebitPaidBalance(key, m)
                \/ DebitUsageAdjustment(key, m)
                \/ RecordOutstandingDebt(key, m)
        BY <2>1 DEF MoveMoney
      <3>2. m \in Nat
        BY AmountsArePositive
      <3>3. \A d \in {GrantDeltas(m), CreditDeltas(account, m), PaidReversalDeltas(account, m),
                       UsageDebitDeltas(account, m), DebtDeltas(m)} :
               d.reservedPaid = 0 /\ d.reservedPromo = 0
        BY <1>1, <3>2, MovementsReserveNothing
      <3> QED BY <3>1, <3>3 DEF GrantSignupPromotionalCredit, CreditPaidBalance,
                 DebitPaidBalance, DebitUsageAdjustment, RecordOutstandingDebt
    <2>2. CASE AdjustUsage
      <3>1. PICK key \in Keys, m \in Amounts \cup {0}, n \in Amounts \cup {0} :
                CreditUsageAdjustment(key, m, n)
        BY <2>2 DEF AdjustUsage
      <3>2. m \in Nat /\ n \in Nat
        BY AmountsArePositive
      <3>3. /\ UsageCreditDeltas(account, m, n).reservedPaid = 0
            /\ UsageCreditDeltas(account, m, n).reservedPromo = 0
        BY <1>1, <3>2, MovementsReserveNothing
      <3> QED BY <3>1, <3>3 DEF CreditUsageAdjustment
    <2> QED BY <2>1, <2>2
  <1>3. /\ account'.reservedPaid = account.reservedPaid + delta.reservedPaid
        /\ account'.reservedPromo = account.reservedPromo + delta.reservedPromo
    BY <1>2, ReservedAfterPost
  <1>4. account.reservedPaid \in Nat /\ account.reservedPromo \in Nat
    BY <1>1 DEF Accounts
  <1>5. account'.reservedPaid = account.reservedPaid /\ account'.reservedPromo = account.reservedPromo
    BY <1>2, <1>3, <1>4
  <1> QED BY <1>2, <1>5, ColumnsRest DEF HeldInvariant, TypeOK

LEMMA HoldKeepsColumns ==
    ASSUME HeldInvariant, UseHold, holds' \in [Keys -> Holds]
    PROVE  IsFiniteSet(ActiveHolds') /\ HoldsBackReservedColumns'
  <1> DEFINE Goal == IsFiniteSet(ActiveHolds') /\ HoldsBackReservedColumns'
  <1>0. TypeOK /\ account \in Accounts
    BY DEF HeldInvariant, TypeOK
  <1>1. ASSUME NEW key \in Keys, NEW purpose \in Purposes, NEW amount \in Amounts,
               ReserveCredit(key, purpose, amount)
        PROVE  Goal
    <2>1. PICK q : q = PromoShare(account, amount, PromoAllowed(purpose))
      OBVIOUS
    <2>2. q \in Nat /\ amount - q \in Nat
      BY <1>0, <2>1, ReserveSplit, AmountsArePositive DEF PromoAllowed
    <2>3. PICK p \in Nat : p = amount - q
      BY <2>2
    <2>4. PICK h : h = [NoHold EXCEPT !.status = "ACTIVE", !.purpose = purpose, !.paid = p, !.promo = q]
      OBVIOUS
    <2>5. /\ holds[key].status = "NONE"
          /\ Post("reserve", key, key, amount, ReserveDeltas(p, q))
          /\ holds' = [holds EXCEPT ![key] = h]
      BY <1>1, <2>1, <2>3, <2>4 DEF ReserveCredit
    <2>6. h \in Holds /\ h.status = "ACTIVE" /\ h.paid = p /\ h.promo = q
      BY <2>2, <2>4 DEF NoHold, Holds, Statuses, Purposes
    <2>7. ReserveDeltas(p, q).reservedPaid = p /\ ReserveDeltas(p, q).reservedPromo = q
      BY DEF ReserveDeltas
    <2>8. /\ account'.reservedPaid = account.reservedPaid + h.paid
          /\ account'.reservedPromo = account.reservedPromo + h.promo
      BY <2>5, <2>6, <2>7, ReservedAfterPost
    <2> QED BY <2>5, <2>6, <2>8, ColumnsOpen
  <1>2. ASSUME NEW op, NEW key, NEW hold \in Keys, NEW gross, NEW delta, NEW h,
               holds[hold].status = "ACTIVE", h.status # "ACTIVE",
               holds' = [holds EXCEPT ![hold] = h], Post(op, key, hold, gross, delta),
               delta.reservedPaid = -holds[hold].paid, delta.reservedPromo = -holds[hold].promo
        PROVE  Goal
    <2>1. /\ holds[hold].paid \in Nat /\ holds[hold].promo \in Nat
          /\ account.reservedPaid \in Nat /\ account.reservedPromo \in Nat
      BY <1>0, HoldColumns
    <2>2. /\ account'.reservedPaid = account.reservedPaid - holds[hold].paid
          /\ account'.reservedPromo = account.reservedPromo - holds[hold].promo
      BY <1>2, <2>1, ReservedAfterPost
    <2> QED BY <1>2, <2>2, ColumnsClose
  <1>3. ASSUME NEW key \in Keys, NEW hold \in Keys, NEW actual \in Amounts \cup {0},
               SettleReservation(key, hold, actual)
        PROVE  Goal
    <2>1. PICK g : g = holds[hold]
      OBVIOUS
    <2>2. PICK d : d = SettleDeltas(account, g.paid, g.promo, PromoAllowed(g.purpose), actual)
      OBVIOUS
    <2>3. PICK h : h = [g EXCEPT !.status = "SETTLED", !.settled = actual, !.debtIncurred = d.debt]
      OBVIOUS
    <2>4. /\ g.status = "ACTIVE" /\ Post("settle", key, hold, actual, d)
          /\ holds' = [holds EXCEPT ![hold] = h]
      BY <1>3, <2>1, <2>2, <2>3 DEF SettleReservation
    <2>5. d.reservedPaid = -g.paid /\ d.reservedPromo = -g.promo
      BY <2>2 DEF SettleDeltas
    <2>6. h.status # "ACTIVE"
      BY <1>0, <2>1, <2>3 DEF TypeOK, Holds
    <2> QED BY <1>2, <2>1, <2>4, <2>5, <2>6
  <1>4. ASSUME NEW key \in Keys, NEW hold \in Keys, ReleaseReservation(key, hold)
        PROVE  Goal
    <2>1. PICK g : g = holds[hold]
      OBVIOUS
    <2>2. PICK d : d = ReleaseDeltas(g.paid, g.promo)
      OBVIOUS
    <2>3. PICK h : h = [g EXCEPT !.status = "RELEASED"]
      OBVIOUS
    <2>4. /\ g.status = "ACTIVE" /\ Post("release", key, hold, HoldAmount(g), d)
          /\ holds' = [holds EXCEPT ![hold] = h]
      BY <1>4, <2>1, <2>2, <2>3 DEF ReleaseReservation
    <2>5. d.reservedPaid = -g.paid /\ d.reservedPromo = -g.promo
      BY <2>2 DEF ReleaseDeltas
    <2>6. h.status # "ACTIVE"
      BY <1>0, <2>1, <2>3 DEF TypeOK, Holds
    <2> QED BY <1>2, <2>1, <2>4, <2>5, <2>6
  <1>5. ASSUME NEW key \in Keys, RenewReservation(key) \/ PassExpiry(key)
        PROVE  Goal
    <2>1. UNCHANGED account /\ \E b \in BOOLEAN : holds' = [holds EXCEPT ![key].expired = b]
      BY <1>5 DEF RenewReservation, PassExpiry
    <2>2. \A k \in Keys : /\ holds'[k].status = holds[k].status
                          /\ holds'[k].paid = holds[k].paid
                          /\ holds'[k].promo = holds[k].promo
      BY <1>0, <2>1 DEF TypeOK, Holds
    <2> QED BY <2>1, <2>2, ColumnsRest
  <1> HIDE DEF Goal
  <1>6. Goal
    BY <1>1, <1>3, <1>4, <1>5 DEF UseHold
  <1> QED BY <1>6 DEF Goal

LEMMA HeldInvariantHolds == Spec => []HeldInvariant
  <1>1. Init => HeldInvariant
    <2> SUFFICES ASSUME Init PROVE HeldInvariant
      OBVIOUS
    <2>1. TypeOK
      BY DEF Init, TypeOK, EmptyAccount, Accounts, NoHold, Holds, Statuses, Purposes, CallUsage
    <2>2. ActiveHolds = {}
      BY DEF Init, ActiveHolds, NoHold
    <2>3. account.reservedPaid = 0 /\ account.reservedPromo = 0
      BY DEF Init, EmptyAccount
    <2>4. IsFiniteSet({})
      BY FS_EmptySet
    <2>5. PaidHeld(holds, {}) = 0
      <3>1. \A k \in {} : holds[k].paid \in Nat
        OBVIOUS
      <3>2. PICK g : AddsUp(g, Paids(holds, {}), {}) /\ PaidHeld(holds, {}) = g[{}]
        BY <2>4, <3>1, PaidHeldIs
      <3> QED BY <3>2 DEF AddsUp
    <2>6. PromoHeld(holds, {}) = 0
      <3>1. \A k \in {} : holds[k].promo \in Nat
        OBVIOUS
      <3>2. PICK g : AddsUp(g, Promos(holds, {}), {}) /\ PromoHeld(holds, {}) = g[{}]
        BY <2>4, <3>1, PromoHeldIs
      <3> QED BY <3>2 DEF AddsUp
    <2> QED BY <2>1, <2>2, <2>3, <2>4, <2>5, <2>6 DEF HeldInvariant, HoldsBackReservedColumns
  <1>2. HeldInvariant /\ TypeOK' /\ [Next]_vars => HeldInvariant'
    <2> SUFFICES ASSUME HeldInvariant, TypeOK', [Next]_vars
                 PROVE  HeldInvariant'
      OBVIOUS
    <2>1. holds' \in [Keys -> Holds]
      BY DEF TypeOK
    <2>2. IsFiniteSet(ActiveHolds') /\ HoldsBackReservedColumns'
      <3>1. CASE MoveMoney \/ AdjustUsage
        BY <3>1, MovementKeepsColumns
      <3>2. CASE UseHold
        BY <2>1, <3>2, HoldKeepsColumns
      <3>3. CASE UNCHANGED vars
        BY <2>1, <3>3, ColumnsRest DEF vars
      <3> QED BY <3>1, <3>2, <3>3 DEF Next
    <2> QED BY <2>2 DEF HeldInvariant
  <1> QED BY <1>1, <1>2, TypeCorrect, PTL DEF Spec

\* No hold is orphaned and no reserved micro is left behind: the reserved
\* columns are the sum of the active reservations, of which there are finitely
\* many at any time, however many keys there are.
THEOREM ReservedColumnsAreHeld == Spec => []HoldsBackReservedColumns
  <1>1. HeldInvariant => HoldsBackReservedColumns
    BY DEF HeldInvariant
  <1> QED BY <1>1, HeldInvariantHolds, PTL

\* Closing an active reservation is never refused by projectAccount, with
\* whatever amount a settlement comes.
ClosingIsProjectable ==
    \A k \in Keys : holds[k].status = "ACTIVE" =>
        LET h == holds[k]
        IN  /\ Projectable(account, ReleaseDeltas(h.paid, h.promo))
            /\ \A actual \in Nat :
                  Projectable(account, SettleDeltas(account, h.paid, h.promo,
                                                    PromoAllowed(h.purpose), actual))

\* A reservation that is active can be settled at any price and released: the
\* RangeError of projectAccount is out of reach of settleReservation and of
\* releaseReservation.
THEOREM ClosingNeverThrows == Spec => []ClosingIsProjectable
  <1>1. HeldInvariant => ClosingIsProjectable
    <2> SUFFICES ASSUME HeldInvariant, NEW k \in Keys, holds[k].status = "ACTIVE",
                        NEW actual \in Nat
                 PROVE  /\ Projectable(account, ReleaseDeltas(holds[k].paid, holds[k].promo))
                        /\ Projectable(account, SettleDeltas(account, holds[k].paid,
                               holds[k].promo, PromoAllowed(holds[k].purpose), actual))
      BY DEF ClosingIsProjectable
    <2>1. PICK p \in Nat, q \in Nat, allowed \in BOOLEAN :
             p = holds[k].paid /\ q = holds[k].promo /\ allowed = PromoAllowed(holds[k].purpose)
      BY HoldColumns DEF HeldInvariant
    <2>2. PICK R : R = ActiveHolds \ {k}
      OBVIOUS
    <2>3. p <= account.reservedPaid /\ q <= account.reservedPromo
      <3>1. /\ PaidHeld(holds, R) \in Nat /\ PromoHeld(holds, R) \in Nat
            /\ account.reservedPaid = PaidHeld(holds, R) + p
            /\ account.reservedPromo = PromoHeld(holds, R) + q
        BY <2>1, <2>2, ColumnsCover
      <3> QED BY <3>1
    <2>4. account \in Accounts
      BY DEF HeldInvariant, TypeOK
    <2>5. Projectable(account, ReleaseDeltas(p, q))
      BY <2>3, <2>4 DEF Projectable, ReleaseDeltas, Accounts
    <2>6. Projectable(account, SettleDeltas(account, p, q, allowed, actual))
      BY <2>3, <2>4 DEF Projectable, SettleDeltas, MinMicros, Accounts
    <2> QED BY <2>1, <2>5, <2>6
  <1> QED BY <1>1, HeldInvariantHolds, PTL
=============================================================================
