-------------------------- MODULE StripeTopUpProofs --------------------------
(***************************************************************************)
(* Proofs about StripeTopUp for any principal and tax, any refunds and     *)
(* dispute, any number of workers and any number of faults, as long as no  *)
(* worker outlives its lease.                                              *)
(***************************************************************************)
EXTENDS StripeTopUp, TLAPS

-----------------------------------------------------------------------------
(* Shares of principal.                                                    *)

LEMMA Products ==
    ASSUME NEW a \in Nat, NEW b \in Nat, a <= b, NEW n \in Nat
    PROVE  a * n \in Nat /\ a * n <= b * n
  OBVIOUS

LEMMA Quotients ==
    ASSUME NEW a \in Nat, NEW b \in Nat, a <= b, NEW n \in Nat \ {0}
    PROVE  a \div n \in Nat /\ a \div n <= b \div n
  OBVIOUS

\* A share is a part of the principal, and grows with what Stripe reports.
LEMMA ShareGrows ==
    ASSUME NEW a \in Nat, NEW b \in Nat, a <= b
    PROVE  Share(a) \in 0..Amount /\ Share(a) <= Share(b)
  <1> DEFINE x == (a * Amount) \div (Amount + Tax)
             y == (b * Amount) \div (Amount + Tax)
  <1>1. a * Amount \in Nat /\ b * Amount \in Nat /\ a * Amount <= b * Amount
    BY AmountIsPositive, Products
  <1>2. Amount + Tax \in Nat \ {0}
    BY AmountIsPositive
  <1>3. x \in Nat /\ y \in Nat /\ x <= y
    BY <1>1, <1>2, Quotients
  <1>4. Share(a) = MinMicros(x, Amount) /\ Share(b) = MinMicros(y, Amount)
    BY DEF Share
  <1> HIDE DEF x, y
  <1> QED BY <1>3, <1>4, AmountIsPositive DEF MinMicros

-----------------------------------------------------------------------------
(* Targets, as a function of what a reconciliation reads.                  *)

Seens == (RefundCents \cup {0}) \X {0, DisputeCents} \X {"NONE", "OPEN", "WON", "LOST"}
Amounts == [refunded : 0..Amount, disputed : 0..Amount]

TargetsOf(seen) ==
    Targets([refundTarget |-> seen[1], disputeTarget |-> seen[2], disputeState |-> seen[3]])

\* A dispute that was reported is about DisputeCents.
Sound(seen) == seen[3] = "NONE" \/ seen[2] = DisputeCents

\* What may be read later: refunds only grow, and a dispute that is closed is
\* not opened again.
Older(seen, later) ==
    /\ seen[1] <= later[1]
    /\ seen[3] # "NONE" => later[3] # "NONE"
    /\ seen[3] = "WON" => later[3] = "WON"

-----------------------------------------------------------------------------
(* The inductive invariant.                                                *)

Reconciling == {"give-back", "refund", "dispute", "complete"}
Marks == Events \cup {None}

Plain == [pc : {"idle", "checkout"}]
Handlings == [pc : {"confirm", "fulfill", "fail", "record", "lease", "finish"}, event : Marks]
Answers == [pc : {"answered"}, event : Marks, answer : {"open", "succeeded", "failed"}]
Credits == [pc : {"credit", "fulfilled"}, event : Marks,
            refunded : 0..Amount, disputed : 0..Amount]
Readings == [pc : {"read"}, event : Marks, attempt : Nat]
Rounds == [pc : Reconciling, event : Marks, attempt : Nat, seen : Seens,
           desired : Amounts, applied : Amounts]

Locals == Plain \cup Handlings \cup Answers \cup Credits \cup Readings \cup Rounds

Typed == TypeOK /\ proc \in [Workers -> Locals]

\* A handler that records a target has an event that brings one.
TargetEvents == {Refunded(c) : c \in RefundCents} \cup {DisputeIs(s) : s \in {"OPEN", "WON", "LOST"}}
Recordings == \A w \in Workers : proc[w].pc = "record" => proc[w].event \in TargetEvents

\* One worker reconciles at a time, and something is pending as long as it does.
Leased(w) == proc[w].pc \in Reconciling \cup {"read"}
Leases == \A w \in Workers : Leased(w) => topUp.lease = w /\ topUp.pending

HasKey(key) == \E row \in posted : row.key = key

Credited ==
    /\ book.credited = IF HasKey(<<"credit", 0>>) THEN Amount ELSE 0
    /\ topUp.credited # 0 => book.credited = Amount
    /\ \A w \in Workers : proc[w].pc = "fulfilled" => book.credited = Amount

Held == book.debited - book.released

\* What was taken back never exceeds the principal nor what was asked for.
Bounded ==
    /\ book.released <= book.debited
    /\ book.refunded + Held <= book.credited
    /\ book.refunded <= Share(topUp.refundTarget)
    /\ Held > 0 => topUp.disputeState # "NONE"
    /\ Sound(Seen(topUp))

\* What a dispute was lowered to is never exceeded again, so that no release
\* is ever taken for a replay of an earlier one.
GivenBack(v) == HasKey(<<"dispute-release", v>>)
Lowered ==
    \A v \in 0..Amount : GivenBack(v) =>
        Held <= v /\ TargetsOf(Seen(topUp)).disputed <= v /\ topUp.disputeState # "NONE"

Columns == ~topUp.pending => topUp.refunded = book.refunded /\ topUp.disputed = Held

\* A round works with targets that were current at some time, and with the
\* progress of now.
Round(w) ==
    LET local == proc[w]
    IN  /\ book.credited = Amount
        /\ Older(local.seen, Seen(topUp)) /\ Sound(local.seen)
        /\ local.desired = TargetsOf(local.seen)
        /\ local.applied = [refunded |-> book.refunded, disputed |-> Held]
        /\ book.refunded <= local.desired.refunded
        /\ Held > 0 => local.seen[3] # "NONE"
        /\ \A v \in 0..Amount : GivenBack(v) =>
               local.desired.disputed <= v /\ local.seen[3] # "NONE"
        /\ local.pc # "give-back" => Held <= local.desired.disputed
InRounds == \A w \in Workers : proc[w].pc \in Reconciling => Round(w)

Inv ==
    /\ Typed /\ Recordings /\ Leases /\ Credited /\ Bounded /\ Lowered /\ Columns /\ InRounds

-----------------------------------------------------------------------------
(* Facts about targets.                                                    *)

LEMMA CentsAreNumbers ==
    ASSUME NEW refund \in RefundCents \cup {0}, NEW dispute \in {0, DisputeCents}
    PROVE  refund \in Nat /\ dispute \in Nat
  BY CentsAreCounts

LEMMA SeenParts ==
    ASSUME NEW seen \in Seens
    PROVE  /\ seen[1] \in Nat /\ seen[2] \in Nat
           /\ seen[2] \in {0, DisputeCents}
           /\ seen[3] \in {"NONE", "OPEN", "WON", "LOST"}
  <1>1. seen[1] \in RefundCents \cup {0}
    BY DEF Seens
  <1>2. seen[2] \in {0, DisputeCents}
    BY DEF Seens
  <1>3. seen[3] \in {"NONE", "OPEN", "WON", "LOST"}
    BY DEF Seens
  <1>4. seen[1] \in Nat /\ seen[2] \in Nat
    BY <1>1, <1>2, CentsAreNumbers
  <1> QED BY <1>2, <1>3, <1>4

LEMMA SharesOf ==
    ASSUME NEW seen \in Seens
    PROVE  Share(seen[1]) \in 0..Amount /\ Share(seen[2]) \in 0..Amount
  BY SeenParts, ShareGrows

LEMMA TargetValues ==
    ASSUME NEW seen \in Seens
    PROVE  /\ TargetsOf(seen).refunded = Share(seen[1])
           /\ TargetsOf(seen).disputed =
                IF seen[3] \in {"OPEN", "LOST"}
                THEN MinMicros(Share(seen[2]), Amount - Share(seen[1])) ELSE 0
           /\ TargetsOf(seen) = [refunded |-> TargetsOf(seen).refunded,
                                 disputed |-> TargetsOf(seen).disputed]
  BY DEF TargetsOf, Targets

LEMMA MinimumOf ==
    ASSUME NEW a \in 0..Amount, NEW b \in 0..Amount
    PROVE  /\ MinMicros(a, Amount - b) \in 0..Amount
           /\ b + MinMicros(a, Amount - b) <= Amount
  BY AmountIsPositive DEF MinMicros

LEMMA TargetFacts ==
    ASSUME NEW seen \in Seens
    PROVE  /\ TargetsOf(seen) \in Amounts
           /\ TargetsOf(seen).refunded = Share(seen[1])
           /\ TargetsOf(seen).refunded \in 0..Amount
           /\ TargetsOf(seen).disputed \in 0..Amount
           /\ TargetsOf(seen).refunded + TargetsOf(seen).disputed <= Amount
           /\ TargetsOf(seen).disputed > 0 => seen[3] # "NONE"
  <1>1. Share(seen[1]) \in 0..Amount /\ Share(seen[2]) \in 0..Amount
    BY SharesOf
  <1>2. /\ TargetsOf(seen).refunded \in 0..Amount
        /\ TargetsOf(seen).disputed \in 0..Amount
        /\ TargetsOf(seen).refunded + TargetsOf(seen).disputed <= Amount
        /\ TargetsOf(seen).disputed > 0 => seen[3] # "NONE"
    <2>1. CASE seen[3] \in {"OPEN", "LOST"}
      <3>1. TargetsOf(seen).disputed = MinMicros(Share(seen[2]), Amount - Share(seen[1]))
        BY <2>1, TargetValues
      <3> QED BY <1>1, <2>1, <3>1, MinimumOf, TargetValues
    <2>2. CASE seen[3] \notin {"OPEN", "LOST"}
      <3>1. TargetsOf(seen).disputed = 0
        BY <2>2, TargetValues
      <3> QED BY <1>1, <3>1, AmountIsPositive, TargetValues
    <2> QED BY <2>1, <2>2
  <1>3. TargetsOf(seen) \in Amounts
    BY <1>2, TargetValues DEF Amounts
  <1> QED BY <1>2, <1>3, TargetValues

LEMMA MinimumFalls ==
    ASSUME NEW a \in 0..Amount, NEW b \in 0..Amount, NEW c \in 0..Amount, b <= c
    PROVE  MinMicros(a, Amount - c) <= MinMicros(a, Amount - b)
  BY AmountIsPositive DEF MinMicros

LEMMA TargetsFall ==
    ASSUME NEW seen \in Seens, NEW later \in Seens,
           Older(seen, later), Sound(seen), Sound(later)
    PROVE  /\ TargetsOf(seen).refunded <= TargetsOf(later).refunded
           /\ seen[3] # "NONE" => TargetsOf(later).disputed <= TargetsOf(seen).disputed
  <1>1. /\ Share(seen[1]) \in 0..Amount /\ Share(seen[2]) \in 0..Amount
        /\ Share(later[1]) \in 0..Amount
    BY SharesOf
  <1>2. Share(seen[1]) <= Share(later[1])
    BY SeenParts, ShareGrows DEF Older
  <1>3. TargetsOf(seen).refunded <= TargetsOf(later).refunded
    BY <1>2, TargetValues
  <1>4. ASSUME seen[3] # "NONE"
        PROVE  TargetsOf(later).disputed <= TargetsOf(seen).disputed
    <2>1. seen[2] = later[2] /\ later[3] # "NONE" /\ (seen[3] = "WON" => later[3] = "WON")
      BY <1>4 DEF Older, Sound
    <2>2. later[3] \in {"OPEN", "LOST"} => seen[3] \in {"OPEN", "LOST"}
      BY <1>4, <2>1, SeenParts
    <2>3. CASE later[3] \in {"OPEN", "LOST"}
      <3>1. /\ TargetsOf(later).disputed = MinMicros(Share(seen[2]), Amount - Share(later[1]))
            /\ TargetsOf(seen).disputed = MinMicros(Share(seen[2]), Amount - Share(seen[1]))
        BY <2>1, <2>2, <2>3, TargetValues
      <3> QED BY <1>1, <1>2, <3>1, MinimumFalls
    <2>4. CASE later[3] \notin {"OPEN", "LOST"}
      <3>1. TargetsOf(later).disputed = 0 /\ TargetsOf(seen).disputed \in 0..Amount
        BY <2>4, TargetValues, TargetFacts
      <3> QED BY <3>1
    <2> QED BY <2>3, <2>4
  <1> QED BY <1>3, <1>4

LEMMA OlderReflexive ==
    ASSUME NEW seen \in Seens PROVE Older(seen, seen)
  BY SeenParts DEF Older

LEMMA OlderTransitive ==
    ASSUME NEW first \in Seens, NEW second \in Seens, NEW third \in Seens,
           Older(first, second), Older(second, third)
    PROVE  Older(first, third)
  <1>1. first[1] \in Nat /\ second[1] \in Nat /\ third[1] \in Nat
    BY SeenParts
  <1> QED BY <1>1 DEF Older

LEMMA SeenRow ==
    ASSUME TypeOK
    PROVE  Seen(topUp) \in Seens /\ Targets(topUp) = TargetsOf(Seen(topUp))
  BY DEF TypeOK, Seen, Seens, TargetsOf, Targets

-----------------------------------------------------------------------------
(* What a step changes of the local states.                                *)

Others(w) == \A v \in Workers \ {w} : proc'[v] = proc[v]

LEMMA GotoMoves ==
    ASSUME proc \in [Workers -> Locals], NEW w \in Workers, NEW local \in Locals, Goto(w, local)
    PROVE  proc' \in [Workers -> Locals] /\ proc'[w] = local /\ Others(w)
  BY DEF Goto, Others

LEMMA IdleMoves ==
    ASSUME proc \in [Workers -> Locals], NEW w \in Workers, Goto(w, Idle)
    PROVE  proc' \in [Workers -> Locals] /\ proc'[w].pc = "idle" /\ Others(w)
  <1>1. Idle \in Locals
    BY DEF Idle, Locals, Plain
  <1> QED BY <1>1, GotoMoves DEF Idle

\* The program counter tells the kind of local state.
LEMMA LocalKinds ==
    ASSUME proc \in [Workers -> Locals], NEW w \in Workers
    PROVE  /\ proc[w].pc \in {"confirm", "fulfill", "fail", "record", "lease", "finish"}
                => proc[w] \in Handlings
           /\ proc[w].pc = "answered" => proc[w] \in Answers
           /\ proc[w].pc \in {"credit", "fulfilled"} => proc[w] \in Credits
           /\ proc[w].pc = "read" => proc[w] \in Readings
           /\ proc[w].pc \in Reconciling => proc[w] \in Rounds
           /\ proc[w].pc \notin {"idle", "checkout"} => proc[w].event \in Marks
  BY DEF Locals, Plain, Handlings, Answers, Credits, Readings, Rounds, Reconciling

-----------------------------------------------------------------------------
(* Steps that leave the money and the targets alone.                       *)

SameMoney ==
    /\ UNCHANGED <<posted, book>>
    /\ topUp'.credited # 0 => topUp.credited # 0 \/ book.credited = Amount
    /\ topUp'.refunded = topUp.refunded /\ topUp'.disputed = topUp.disputed
    /\ topUp'.refundTarget = topUp.refundTarget /\ topUp'.disputeTarget = topUp.disputeTarget
    /\ topUp'.disputeState = topUp.disputeState /\ topUp'.pending = topUp.pending

Aside(w) ==
    /\ SameMoney /\ Others(w)
    /\ topUp'.lease = topUp.lease \/ topUp.lease = w
    /\ proc'[w].pc \notin Reconciling \cup {"read", "fulfilled"}
    /\ proc'[w].pc = "record" => proc'[w].event \in TargetEvents

LEMMA SameMoneyKeeps ==
    ASSUME Inv, SameMoney
    PROVE  /\ Seen(topUp)' = Seen(topUp) /\ Held' = Held
           /\ \A key : HasKey(key)' = HasKey(key)
           /\ Bounded' /\ Lowered' /\ Columns'
           /\ (\A w \in Workers : proc'[w].pc = "fulfilled" => proc[w].pc = "fulfilled")
                => Credited'
           /\ \A w \in Workers : proc'[w] = proc[w] /\ Round(w) => Round(w)'
  <1>1. Seen(topUp)' = Seen(topUp) /\ Held' = Held
    BY DEF SameMoney, Seen, Held
  <1>2. \A key : HasKey(key)' = HasKey(key)
    BY DEF SameMoney, HasKey
  <1>3. Bounded' /\ Columns'
    BY <1>1 DEF Inv, Bounded, Columns, SameMoney, Sound
  <1>4. \A v : GivenBack(v)' = GivenBack(v)
    BY <1>2 DEF GivenBack
  <1>5. Lowered'
    BY <1>1, <1>4 DEF Inv, Lowered, SameMoney
  <1>6. (\A w \in Workers : proc'[w].pc = "fulfilled" => proc[w].pc = "fulfilled") => Credited'
    BY <1>2 DEF Inv, Credited, SameMoney
  <1>7. ASSUME NEW w \in Workers, proc'[w] = proc[w], Round(w) PROVE Round(w)'
    BY <1>1, <1>4, <1>7 DEF Round, SameMoney
  <1> QED BY <1>1, <1>2, <1>3, <1>5, <1>6, <1>7

LEMMA AsideInv ==
    ASSUME Inv, Typed', NEW w \in Workers, Aside(w)
    PROVE  Inv'
  <1>1. SameMoney /\ Others(w)
    BY DEF Aside
  <1>2. Bounded' /\ Lowered' /\ Columns'
    BY <1>1, SameMoneyKeeps
  <1>3. Credited'
    <2>1. \A v \in Workers : proc'[v].pc = "fulfilled" => proc[v].pc = "fulfilled"
      BY DEF Aside, Others
    <2> QED BY <1>1, <2>1, SameMoneyKeeps
  <1>4. Recordings'
    BY DEF Inv, Recordings, Aside, Others
  <1>5. Leases'
    <2> SUFFICES ASSUME NEW v \in Workers, Leased(v)'
                 PROVE  topUp'.lease = v /\ topUp'.pending
      BY DEF Leases
    <2>1. v # w /\ proc'[v] = proc[v]
      BY DEF Leased, Aside, Others
    <2>2. topUp.lease = v /\ topUp.pending
      BY <2>1 DEF Inv, Leases, Leased
    <2> QED BY <2>1, <2>2 DEF Aside, SameMoney
  <1>6. InRounds'
    <2> SUFFICES ASSUME NEW v \in Workers, proc'[v].pc \in Reconciling
                 PROVE  Round(v)'
      BY DEF InRounds
    <2>1. v # w /\ proc'[v] = proc[v]
      BY DEF Aside, Others
    <2>2. Round(v)
      BY <2>1 DEF Inv, InRounds
    <2> QED BY <1>1, <2>1, <2>2, SameMoneyKeeps
  <1> QED BY <1>2, <1>3, <1>4, <1>5, <1>6 DEF Inv

\* What happens at Stripe.
LEMMA ElsewhereInv ==
    ASSUME Inv, Typed', UNCHANGED <<topUp, posted, book, proc>>
    PROVE  Inv'
  <1>1. SameMoney
    BY DEF SameMoney
  <1>2. Bounded' /\ Lowered' /\ Columns' /\ Credited'
    BY <1>1, SameMoneyKeeps
  <1>3. Recordings' /\ Leases'
    BY DEF Inv, Recordings, Leases, Leased
  <1>4. InRounds'
    BY <1>1, SameMoneyKeeps DEF Inv, InRounds
  <1> QED BY <1>2, <1>3, <1>4 DEF Inv

-----------------------------------------------------------------------------
(* The parts of the type invariant.                                        *)

Rows == [kind : Kinds,
         status : {"NONE", "PENDING", "FAILED", "SUCCEEDED", "REFUNDED",
                   "PARTIALLY_REFUNDED", "DISPUTED"},
         credited : {0, Amount}, refunded : 0..Amount, disputed : 0..Amount,
         refundTarget : RefundCents \cup {0}, disputeTarget : {0, DisputeCents},
         disputeState : {"NONE", "OPEN", "WON", "LOST"}, pending : BOOLEAN,
         lease : Tokenholders, processing : Tokenholders]
Books == [credited : Nat, refunded : Nat, debited : Nat, released : Nat]
Webhooks == [Events -> [status : {"NONE", "RECEIVED", "PROCESSING", "FAILED", "PROCESSED"},
                        owner : Tokenholders]]

Payments == [intent : {"none", "open", "succeeded", "failed"}, refunded : RefundCents \cup {0},
             dispute : {"NONE", "OPEN", "WON", "LOST"}, moves : 0..MaxMoves]

LEMMA TypedParts ==
    Typed <=> /\ topUp \in Rows /\ book \in Books
              /\ \A row \in posted : row.amount \in Nat
              /\ stripe \in Payments /\ webhook \in Webhooks /\ faults \in 0..MaxFaults
              /\ proc \in [Workers -> Locals]
  BY DEF Typed, TypeOK, Rows, Books, Payments, Webhooks

SameColumns ==
    /\ topUp'.credited # 0 => topUp.credited # 0 \/ book.credited = Amount
    /\ topUp'.refunded = topUp.refunded /\ topUp'.disputed = topUp.disputed
    /\ topUp'.refundTarget = topUp.refundTarget /\ topUp'.disputeTarget = topUp.disputeTarget
    /\ topUp'.disputeState = topUp.disputeState /\ topUp'.pending = topUp.pending

\* A worker goes on to a place outside a round.
LEMMA AsideStep ==
    ASSUME Inv, NEW w \in Workers, NEW local \in Locals, Goto(w, local),
           local.pc \notin Reconciling \cup {"read", "fulfilled"},
           local.pc = "record" => local.event \in TargetEvents,
           UNCHANGED <<posted, book>>,
           topUp' \in Rows, SameColumns, topUp'.lease = topUp.lease \/ topUp.lease = w,
           stripe' \in Payments, webhook' \in Webhooks, faults' \in 0..MaxFaults
    PROVE  Inv'
  <1>1. proc' \in [Workers -> Locals] /\ proc'[w] = local /\ Others(w)
    BY GotoMoves, TypedParts DEF Inv
  <1>2. Aside(w)
    BY <1>1 DEF Aside, SameMoney, SameColumns
  <1>3. Typed'
    <2>1. /\ topUp' \in Rows /\ book' \in Books
          /\ \A row \in posted' : row.amount \in Nat
          /\ stripe' \in Payments /\ webhook' \in Webhooks /\ faults' \in 0..MaxFaults
          /\ proc' \in [Workers -> Locals]
      BY <1>1, TypedParts DEF Inv
    <2> QED BY <2>1 DEF Typed, TypeOK, Rows, Books, Payments, Webhooks
  <1> QED BY <1>2, <1>3, AsideInv

LEMMA Unchanged ==
    ASSUME Inv
    PROVE  /\ topUp' = topUp => topUp' \in Rows /\ SameColumns /\ topUp'.lease = topUp.lease
           /\ stripe' = stripe => stripe' \in Payments
           /\ webhook' = webhook => webhook' \in Webhooks
           /\ faults' = faults => faults' \in 0..MaxFaults
           /\ faults < MaxFaults /\ faults' = faults + 1 => faults' \in 0..MaxFaults
  <1>1. topUp \in Rows /\ stripe \in Payments /\ webhook \in Webhooks /\ faults \in 0..MaxFaults
    BY TypedParts DEF Inv
  <1>2. topUp' = topUp => topUp' \in Rows /\ SameColumns /\ topUp'.lease = topUp.lease
    BY <1>1 DEF SameColumns
  <1> QED BY <1>1, <1>2, BoundsAreCounts

LEMMA Typing == Inv => /\ topUp \in Rows /\ book \in Books /\ stripe \in Payments
                       /\ webhook \in Webhooks /\ proc \in [Workers -> Locals]
                       /\ \A row \in posted : row.amount \in Nat
  BY TypedParts DEF Inv

LEMMA IdleLocal == Idle \in Locals /\ Idle.pc = "idle"
  BY DEF Idle, Locals, Plain

-----------------------------------------------------------------------------
(* Steps aside.                                                            *)

LEMMA RequestCheckoutInv ==
    ASSUME Inv, NEW w \in Workers, RequestCheckout(w) PROVE Inv'
  <1>1. topUp' \in Rows /\ SameColumns /\ topUp'.lease = topUp.lease
    BY Typing DEF RequestCheckout, Rows, SameColumns
  <1>2. [pc |-> "checkout"] \in Locals
    BY DEF Locals, Plain
  <1> QED BY <1>1, <1>2, Unchanged, AsideStep DEF RequestCheckout, Reconciling

LEMMA CreateCheckoutInv ==
    ASSUME Inv, NEW w \in Workers, CreateCheckout(w) PROVE Inv'
  <1>1. topUp' \in Rows /\ SameColumns /\ topUp'.lease = topUp.lease
    BY Typing, Unchanged DEF CreateCheckout, Rows, SameColumns
  <1>2. faults' \in 0..MaxFaults
    BY Unchanged DEF CreateCheckout
  <1>3. Goto(w, Idle) /\ UNCHANGED <<posted, book, webhook>>
    BY DEF CreateCheckout
  <1>4. stripe' \in Payments
    BY Typing DEF CreateCheckout, Payments
  <1> QED BY <1>1, <1>2, <1>3, <1>4, IdleLocal, Unchanged, AsideStep DEF Reconciling

LEMMA TriggerAutoRechargeInv ==
    ASSUME Inv, NEW w \in Workers, TriggerAutoRecharge(w) PROVE Inv'
  <1>1. topUp' \in Rows /\ SameColumns /\ topUp'.lease = topUp.lease
    BY Typing DEF TriggerAutoRecharge, Rows, SameColumns
  <1>2. proc[w] \in Locals /\ proc[w].pc = "idle" /\ Goto(w, proc[w])
    BY Typing DEF TriggerAutoRecharge, At, Goto
  <1> QED BY <1>1, <1>2, Unchanged, AsideStep DEF TriggerAutoRecharge, Reconciling

LEMMA ClaimConfirmationInv ==
    ASSUME Inv, NEW w \in Workers, ClaimConfirmation(w) PROVE Inv'
  <1>1. topUp' \in Rows /\ SameColumns /\ topUp'.lease = topUp.lease
    BY Typing DEF ClaimConfirmation, Rows, SameColumns, Tokenholders
  <1>2. [pc |-> "confirm", event |-> None] \in Locals
    BY DEF Locals, Handlings, Marks
  <1> QED BY <1>1, <1>2, Unchanged, AsideStep DEF ClaimConfirmation, Reconciling

LEMMA NextLocals ==
    /\ \A pc \in {"confirm", "fulfill", "fail", "record", "lease", "finish"}, event \in Marks :
          [pc |-> pc, event |-> event] \in Locals
    /\ \A event \in Marks, answer \in {"open", "succeeded", "failed"} :
          [pc |-> "answered", event |-> event, answer |-> answer] \in Locals
    /\ None \in Marks
  BY DEF Locals, Handlings, Answers, Marks

LEMMA EmitKeeps ==
    ASSUME Inv, NEW e \in Events, Emit(e) PROVE webhook' \in Webhooks
  BY Typing DEF Emit, Webhooks

LEMMA ConfirmPaymentInv ==
    ASSUME Inv, NEW w \in Workers, ConfirmPayment(w) PROVE Inv'
  <1>1. stripe' \in Payments /\ stripe'.intent # "none" /\ webhook' \in Webhooks
    <2>1. CASE stripe.intent = "none"
      <3>1. PICK outcome \in {"open", "succeeded", "failed"} :
               /\ stripe' = [stripe EXCEPT !.intent = outcome]
               /\ CASE outcome = "succeeded" -> Emit(Success)
                    [] outcome = "failed"    -> Emit(Failure)
                    [] OTHER                 -> UNCHANGED webhook
        BY <2>1 DEF ConfirmPayment
      <3>2. stripe' \in Payments /\ stripe'.intent # "none"
        BY <3>1, Typing DEF Payments
      <3>3. UNCHANGED webhook \/ Emit(Success) \/ Emit(Failure)
        BY <3>1
      <3> QED BY <3>2, <3>3, EmitKeeps, Unchanged DEF Events
    <2>2. CASE stripe.intent # "none"
      BY <2>2, Unchanged DEF ConfirmPayment
    <2> QED BY <2>1, <2>2
  <1>2. PICK answer \in {"open", "succeeded", "failed"} :
          Goto(w, [pc |-> "answered", event |-> None, answer |-> answer])
    <2>1. PICK answer \in {stripe'.intent} \cup
                          (IF stripe.intent = "none" THEN {} ELSE {"open"}) :
            Goto(w, [pc |-> "answered", event |-> None, answer |-> answer])
      BY DEF ConfirmPayment
    <2>2. answer \in {"open", "succeeded", "failed"}
      BY <1>1, <2>1 DEF Payments
    <2> QED BY <2>1, <2>2
  <1>3. [pc |-> "answered", event |-> None, answer |-> answer] \in Locals
    BY <1>2, NextLocals
  <1> QED BY <1>1, <1>2, <1>3, Unchanged, AsideStep DEF ConfirmPayment, Reconciling

LEMMA ConfirmationFailsInv ==
    ASSUME Inv, NEW w \in Workers, ConfirmationFails(w) PROVE Inv'
  <1>1. PICK answer \in {"open", "failed"} :
          Goto(w, [pc |-> "answered", event |-> None, answer |-> answer])
    BY DEF ConfirmationFails
  <1>2. [pc |-> "answered", event |-> None, answer |-> answer] \in Locals
    BY NextLocals
  <1>3. stripe' \in Payments
    BY Typing DEF ConfirmationFails, Payments
  <1> QED BY <1>1, <1>2, <1>3, Unchanged, AsideStep DEF ConfirmationFails, Reconciling

LEMMA ApplyConfirmationInv ==
    ASSUME Inv, NEW w \in Workers, ApplyConfirmation(w) PROVE Inv'
  <1>1. topUp' \in Rows /\ SameColumns /\ topUp'.lease = topUp.lease
    <2>1. CASE UNCHANGED topUp
      BY <2>1, Unchanged
    <2>2. CASE ~UNCHANGED topUp
      <3>1. PICK status \in {"FAILED", "PENDING"} :
               topUp' = [topUp EXCEPT !.processing = None, !.status = status]
        BY <2>2 DEF ApplyConfirmation
      <3> QED BY <3>1, Typing DEF Rows, SameColumns, Tokenholders
    <2> QED BY <2>1, <2>2
  <1>2. Goto(w, [pc |-> "fulfill", event |-> None]) \/ Goto(w, Idle)
    BY DEF ApplyConfirmation
  <1>3. [pc |-> "fulfill", event |-> None] \in Locals
    BY NextLocals
  <1>4. CASE Goto(w, [pc |-> "fulfill", event |-> None])
    BY <1>1, <1>3, <1>4, Unchanged, AsideStep DEF ApplyConfirmation, Reconciling
  <1>5. CASE Goto(w, Idle)
    BY <1>1, <1>5, IdleLocal, Unchanged, AsideStep DEF ApplyConfirmation, Reconciling
  <1> QED BY <1>2, <1>4, <1>5

LEMMA HandlerKnown ==
    ASSUME NEW e \in Events
    PROVE  Handler(e) \in {"fulfill", "fail", "record"}
           /\ (Handler(e) = "record" => e \in TargetEvents)
  <1>1. Handler(e) \in {"fulfill", "fail", "record"}
    BY DEF Handler
  <1>2. ASSUME Handler(e) = "record" PROVE e \in TargetEvents
    <2>1. e # Success /\ e # Failure
      BY <1>2 DEF Handler, Success, Failure
    <2> QED BY <2>1 DEF Events, TargetEvents
  <1> QED BY <1>1, <1>2

LEMMA ClaimEventInv ==
    ASSUME Inv, NEW w \in Workers, NEW e \in Events, ClaimEvent(w, e) PROVE Inv'
  <1>1. webhook' \in Webhooks
    BY Typing DEF ClaimEvent, Webhooks, Tokenholders
  <1>2. Goto(w, [pc |-> Handler(e), event |-> e])
        /\ [pc |-> Handler(e), event |-> e] \in Locals
    BY HandlerKnown, NextLocals DEF ClaimEvent, Marks
  <1> QED BY <1>1, <1>2, HandlerKnown, Unchanged, AsideStep DEF ClaimEvent, Reconciling

LEMMA CompleteEventInv ==
    ASSUME Inv, NEW w \in Workers, CompleteEvent(w) PROVE Inv'
  <1>1. webhook' \in Webhooks
    <2>1. webhook \in Webhooks /\ proc[w].event \in Marks
      BY Typing, LocalKinds DEF CompleteEvent, At
    <2> QED BY <2>1 DEF CompleteEvent, Webhooks, Tokenholders, Marks
  <1> QED BY <1>1, IdleLocal, Unchanged, AsideStep DEF CompleteEvent, Reconciling

LEMMA JumpLocal ==
    ASSUME Inv, NEW w \in Workers, proc[w] \in Handlings,
           NEW pc \in {"confirm", "fulfill", "fail", "record", "lease", "finish"}, Jump(w, pc)
    PROVE  Goto(w, [pc |-> pc, event |-> proc[w].event])
           /\ [pc |-> pc, event |-> proc[w].event] \in Locals
  <1>1. [proc[w] EXCEPT !.pc = pc] = [pc |-> pc, event |-> proc[w].event]
        /\ proc[w].event \in Marks
    BY DEF Handlings
  <1> QED BY <1>1, NextLocals DEF Jump

LEMMA FailUnpayableInv ==
    ASSUME Inv, NEW w \in Workers, FailUnpayable(w) PROVE Inv'
  <1>1. topUp' \in Rows /\ SameColumns /\ topUp'.lease = topUp.lease
    BY Typing DEF FailUnpayable, Rows, SameColumns
  <1>2. proc[w] \in Locals /\ proc[w].pc = "idle" /\ Goto(w, proc[w])
    BY Typing DEF FailUnpayable, At, Goto
  <1> QED BY <1>1, <1>2, Unchanged, AsideStep DEF FailUnpayable, Reconciling

LEMMA FailPaymentInv ==
    ASSUME Inv, NEW w \in Workers, FailPayment(w) PROVE Inv'
  <1>1. topUp' \in Rows /\ SameColumns /\ topUp'.lease = topUp.lease
    BY Typing DEF FailPayment, Rows, SameColumns
  <1>2. Goto(w, [pc |-> "finish", event |-> proc[w].event])
        /\ [pc |-> "finish", event |-> proc[w].event] \in Locals
    BY Typing, LocalKinds, JumpLocal DEF FailPayment, At
  <1> QED BY <1>1, <1>2, Unchanged, AsideStep DEF FailPayment, Reconciling

LEMMA ReadForFulfillmentInv ==
    ASSUME Inv, NEW w \in Workers, ReadForFulfillment(w) PROVE Inv'
  <1> DEFINE local == [pc |-> "credit", event |-> proc[w].event,
                       refunded |-> topUp.refunded, disputed |-> topUp.disputed]
  <1>1. proc[w].event \in Marks /\ topUp.refunded \in 0..Amount /\ topUp.disputed \in 0..Amount
    BY Typing, LocalKinds DEF ReadForFulfillment, At, Rows
  <1>2. local \in Locals /\ local.pc = "credit" /\ Goto(w, local)
    BY <1>1 DEF Locals, Credits, ReadForFulfillment
  <1> HIDE DEF local
  <1> QED BY <1>2, Unchanged, AsideStep DEF ReadForFulfillment, Reconciling

LEMMA StatusKnown ==
    ASSUME NEW refunded \in 0..Amount, NEW disputed \in 0..Amount
    PROVE  FinancialStatus(refunded, disputed)
              \in {"SUCCEEDED", "REFUNDED", "PARTIALLY_REFUNDED", "DISPUTED"}
  <1>1. CASE disputed > 0
    BY <1>1 DEF FinancialStatus
  <1>2. CASE ~(disputed > 0)
    <2>1. disputed = 0
      BY <1>2, AmountIsPositive
    <2> QED BY <2>1, AmountIsPositive DEF FinancialStatus
  <1> QED BY <1>1, <1>2

LEMMA MarkFulfilledInv ==
    ASSUME Inv, NEW w \in Workers, MarkFulfilled(w) PROVE Inv'
  <1>1. proc[w] \in Credits /\ book.credited = Amount
    BY Typing, LocalKinds DEF MarkFulfilled, At, Inv, Credited
  <1>2. FinancialStatus(proc[w].refunded, proc[w].disputed)
            \in {"SUCCEEDED", "REFUNDED", "PARTIALLY_REFUNDED", "DISPUTED"}
    BY <1>1, StatusKnown DEF Credits
  <1>3. topUp' \in Rows /\ SameColumns /\ topUp'.lease = topUp.lease
    <2> DEFINE status == FinancialStatus(proc[w].refunded, proc[w].disputed)
    <2>1. topUp' = [topUp EXCEPT !.status = status, !.credited = Amount, !.processing = None]
      BY DEF MarkFulfilled
    <2>2. status \in {"SUCCEEDED", "REFUNDED", "PARTIALLY_REFUNDED", "DISPUTED"}
      BY <1>2
    <2> HIDE DEF status
    <2>3. topUp' \in Rows
      BY <2>1, <2>2, Typing DEF Rows, Tokenholders
    <2>4. /\ topUp'.refunded = topUp.refunded /\ topUp'.disputed = topUp.disputed
          /\ topUp'.refundTarget = topUp.refundTarget
          /\ topUp'.disputeTarget = topUp.disputeTarget
          /\ topUp'.disputeState = topUp.disputeState /\ topUp'.pending = topUp.pending
          /\ topUp'.lease = topUp.lease
      BY <2>1, Typing DEF Rows
    <2> QED BY <1>1, <2>3, <2>4 DEF SameColumns
  <1>4. Goto(w, [pc |-> "lease", event |-> proc[w].event])
        /\ [pc |-> "lease", event |-> proc[w].event] \in Locals
    BY <1>1, NextLocals DEF MarkFulfilled, Credits
  <1> QED BY <1>3, <1>4, Unchanged, AsideStep DEF MarkFulfilled, Reconciling

LEMMA SpotPendingInv ==
    ASSUME Inv, NEW w \in Workers, SpotPending(w) PROVE Inv'
  <1>1. [pc |-> "lease", event |-> None] \in Locals
    BY NextLocals
  <1> QED BY <1>1, Unchanged, AsideStep DEF SpotPending, Reconciling

LEMMA LeaseReturnedKeeps ==
    ASSUME Inv, NEW w \in Workers, topUp' = LeaseReturned(w)
    PROVE  topUp' \in Rows /\ SameColumns /\ (topUp'.lease = topUp.lease \/ topUp.lease = w)
  BY Typing, Unchanged DEF LeaseReturned, Rows, SameColumns, Tokenholders

LEMMA TokensKeep ==
    ASSUME Inv, NEW w \in Workers, NEW left \in {None, Dead}, Tokens(w, left)
    PROVE  /\ topUp' \in Rows /\ SameColumns /\ (topUp'.lease = topUp.lease \/ topUp.lease = w)
           /\ webhook' \in Webhooks
  <1>1. topUp' \in Rows /\ SameColumns /\ (topUp'.lease = topUp.lease \/ topUp.lease = w)
    <2>1. PICK lease \in {topUp.lease, left}, processing \in {topUp.processing, left} :
             topUp' = [topUp EXCEPT !.lease = lease, !.processing = processing]
             /\ (lease = topUp.lease \/ topUp.lease = w)
      <3> DEFINE lease == IF topUp.lease = w THEN left ELSE topUp.lease
                 processing == IF topUp.processing = w THEN left ELSE topUp.processing
      <3>1. topUp' = [topUp EXCEPT !.lease = lease, !.processing = processing]
        BY DEF Tokens
      <3>2. lease \in {topUp.lease, left} /\ processing \in {topUp.processing, left}
            /\ (lease = topUp.lease \/ topUp.lease = w)
        OBVIOUS
      <3> HIDE DEF lease, processing
      <3> QED BY <3>1, <3>2
    <2>2. topUp' \in Rows
      BY <2>1, Typing DEF Rows, Tokenholders
    <2>3. topUp'.lease = lease /\ SameColumns
      BY <2>1, Typing DEF Rows, SameColumns
    <2> QED BY <2>1, <2>2, <2>3
  <1>2. webhook' \in Webhooks
    BY Typing DEF Tokens, Webhooks, Tokenholders
  <1> QED BY <1>1, <1>2

LEMMA FailuresInv ==
    ASSUME Inv, NEW w \in Workers, Throw(w) \/ Crash(w) PROVE Inv'
  <1>1. PICK left \in {None, Dead} : Tokens(w, left)
    BY DEF Throw, Crash
  <1>2. faults' \in 0..MaxFaults /\ Goto(w, Idle) /\ UNCHANGED <<posted, book, stripe>>
    BY Unchanged DEF Throw, Crash
  <1> QED BY <1>1, <1>2, TokensKeep, IdleLocal, Unchanged, AsideStep DEF Reconciling

\* What happens at Stripe.
LEMMA StripeInv ==
    ASSUME Inv, SettlePayment \/ RefundCharge \/ MoveDispute PROVE Inv'
  <1>1. UNCHANGED <<topUp, posted, book, proc, faults>>
    BY DEF SettlePayment, RefundCharge, MoveDispute
  <1>2. stripe' \in Payments /\ webhook' \in Webhooks
    <2>1. CASE SettlePayment
      <3>1. PICK outcome \in {"succeeded", "failed"} :
              stripe' = [stripe EXCEPT !.intent = outcome] /\ Emit(<<outcome, 0>>)
        BY <2>1 DEF SettlePayment
      <3>2. <<outcome, 0>> \in Events
        BY DEF Events, Success, Failure
      <3> QED BY <3>1, <3>2, Typing, EmitKeeps DEF Payments
    <2>2. CASE RefundCharge
      <3>1. PICK cents \in RefundCents :
              /\ stripe' = [stripe EXCEPT !.refunded = cents, !.moves = @ + 1]
              /\ Emit(Refunded(cents))
        BY <2>2 DEF RefundCharge
      <3>2. Refunded(cents) \in Events
        BY DEF Events
      <3>3. stripe.moves + 1 \in 0..MaxMoves
        <4>1. stripe.moves \in 0..MaxMoves
          BY Typing DEF Payments
        <4>2. stripe.moves < MaxMoves
          BY <2>2 DEF RefundCharge
        <4> QED BY <4>1, <4>2, BoundsAreCounts
      <3> QED BY <3>1, <3>2, <3>3, Typing, EmitKeeps DEF Payments
    <2>3. CASE MoveDispute
      <3>1. PICK state \in {"OPEN", "WON", "LOST"} :
              /\ stripe' = [stripe EXCEPT !.dispute = state, !.moves = @ + 1]
              /\ Emit(DisputeIs(state))
        BY <2>3 DEF MoveDispute
      <3>2. DisputeIs(state) \in Events
        BY DEF Events
      <3>3. stripe.moves + 1 \in 0..MaxMoves
        <4>1. stripe.moves \in 0..MaxMoves
          BY Typing DEF Payments
        <4>2. stripe.moves < MaxMoves
          BY <2>3 DEF MoveDispute
        <4> QED BY <4>1, <4>2, BoundsAreCounts
      <3> QED BY <3>1, <3>2, <3>3, Typing, EmitKeeps DEF Payments
    <2> QED BY <2>1, <2>2, <2>3
  <1>3. Typed'
    BY <1>1, <1>2 DEF Inv, Typed, TypeOK, Webhooks, Payments
  <1> QED BY <1>1, <1>3, ElsewhereInv

-----------------------------------------------------------------------------
(* Postings.                                                               *)

LEMMA PostedKeys ==
    ASSUME NEW key, NEW column, NEW amount, Post(key, column, amount)
    PROVE  \A k : HasKey(k)' <=> (HasKey(k) \/ k = key)
  <1>1. CASE HasKey(key)
    <2>1. posted' = posted
      BY <1>1 DEF Post, HasKey
    <2> QED BY <1>1, <2>1 DEF HasKey
  <1>2. CASE ~HasKey(key)
    <2> DEFINE new == [key |-> key, amount |-> amount]
    <2>1. posted' = posted \cup {new}
      BY <1>2 DEF Post, HasKey
    <2>2. new.key = key
      OBVIOUS
    <2> HIDE DEF new
    <2> QED BY <2>1, <2>2 DEF HasKey
  <1> QED BY <1>1, <1>2

LEMMA PostedAmounts ==
    ASSUME NEW key, NEW column, NEW amount \in Nat, Post(key, column, amount),
           \A row \in posted : row.amount \in Nat
    PROVE  \A row \in posted' : row.amount \in Nat
  BY DEF Post

LEMMA Replayed ==
    ASSUME NEW key, NEW column, NEW amount, Post(key, column, amount), HasKey(key)
    PROVE  book' = book
  BY DEF Post, HasKey

LEMMA PostedAnew ==
    ASSUME NEW key, NEW column, NEW amount, Post(key, column, amount), ~HasKey(key)
    PROVE  book' = [book EXCEPT ![column] = @ + amount]
  BY DEF Post, HasKey

LEMMA Booked ==
    ASSUME NEW key, NEW amount \in Nat, book \in Books, ~HasKey(key)
    PROVE  /\ Post(key, "credited", amount) =>
                book' = [credited |-> book.credited + amount, refunded |-> book.refunded,
                         debited |-> book.debited, released |-> book.released]
           /\ Post(key, "refunded", amount) =>
                book' = [credited |-> book.credited, refunded |-> book.refunded + amount,
                         debited |-> book.debited, released |-> book.released]
           /\ Post(key, "debited", amount) =>
                book' = [credited |-> book.credited, refunded |-> book.refunded,
                         debited |-> book.debited + amount, released |-> book.released]
           /\ Post(key, "released", amount) =>
                book' = [credited |-> book.credited, refunded |-> book.refunded,
                         debited |-> book.debited, released |-> book.released + amount]
  <1>1. ASSUME Post(key, "credited", amount)
        PROVE  book' = [credited |-> book.credited + amount, refunded |-> book.refunded,
                        debited |-> book.debited, released |-> book.released]
    BY <1>1, PostedAnew DEF Books
  <1>2. ASSUME Post(key, "refunded", amount)
        PROVE  book' = [credited |-> book.credited, refunded |-> book.refunded + amount,
                        debited |-> book.debited, released |-> book.released]
    BY <1>2, PostedAnew DEF Books
  <1>3. ASSUME Post(key, "debited", amount)
        PROVE  book' = [credited |-> book.credited, refunded |-> book.refunded,
                        debited |-> book.debited + amount, released |-> book.released]
    BY <1>3, PostedAnew DEF Books
  <1>4. ASSUME Post(key, "released", amount)
        PROVE  book' = [credited |-> book.credited, refunded |-> book.refunded,
                        debited |-> book.debited, released |-> book.released + amount]
    BY <1>4, PostedAnew DEF Books
  <1> QED BY <1>1, <1>2, <1>3, <1>4

-----------------------------------------------------------------------------
(* The credit.                                                             *)

Promised == Promise!Credit \/ Promise!Refund \/ Promise!Hold \/ Promise!GiveBack
            \/ UNCHANGED <<book.credited, book.refunded, book.debited - book.released>>

LEMMA CreditPaymentInv ==
    ASSUME Inv, NEW w \in Workers, CreditPayment(w) PROVE Inv' /\ Promised
  <1> DEFINE local == [proc[w] EXCEPT !.pc = "fulfilled"]
  <1>1. Post(<<"credit", 0>>, "credited", Amount) /\ UNCHANGED <<topUp, stripe, webhook, faults>>
        /\ Goto(w, local)
    BY DEF CreditPayment, Jump
  <1>2. local \in Locals /\ local.pc = "fulfilled"
    <2>1. proc[w] \in Credits
      BY Typing, LocalKinds DEF CreditPayment, At
    <2> QED BY <2>1 DEF Locals, Credits
  <1> HIDE DEF local
  <1>3. proc' \in [Workers -> Locals] /\ proc'[w].pc = "fulfilled" /\ Others(w)
    BY <1>1, <1>2, Typing, GotoMoves
  <1>4. HasKey(<<"credit", 0>>)' /\ \A v : GivenBack(v)' <=> GivenBack(v)
    <2>1. \A k : HasKey(k)' <=> (HasKey(k) \/ k = <<"credit", 0>>)
      BY <1>1, PostedKeys
    <2>2. \A v : <<"dispute-release", v>> # <<"credit", 0>>
      OBVIOUS
    <2> QED BY <2>1, <2>2 DEF GivenBack
  <1>5. /\ book'.credited = Amount /\ book'.refunded = book.refunded
        /\ book'.debited = book.debited /\ book'.released = book.released
        /\ book' \in Books
        /\ book' = book \/ book.credited = 0
    <2>1. CASE HasKey(<<"credit", 0>>)
      <3>1. book' = book
        BY <1>1, <2>1, Replayed
      <3> QED BY <2>1, <3>1, Typing DEF Inv, Credited
    <2>2. CASE ~HasKey(<<"credit", 0>>)
      <3>1. book.credited = 0
        BY <2>2 DEF Inv, Credited
      <3>2. book' = [credited |-> book.credited + Amount, refunded |-> book.refunded,
                     debited |-> book.debited, released |-> book.released]
        BY <1>1, <2>2, Typing, AmountIsPositive, Booked
      <3> QED BY <3>1, <3>2, Typing, AmountIsPositive DEF Books
    <2> QED BY <2>1, <2>2
  <1>6. Held' = Held
    BY <1>5 DEF Held
  <1>7. Typed'
    <2>1. \A row \in posted' : row.amount \in Nat
      BY <1>1, Typing, AmountIsPositive, PostedAmounts
    <2> QED BY <1>1, <1>3, <1>5, <2>1 DEF Inv, Typed, TypeOK, Books
  <1>8. Recordings' /\ Leases'
    BY <1>1, <1>3 DEF Inv, Recordings, Leases, Leased, Others, Reconciling
  <1>9. Credited'
    BY <1>1, <1>4, <1>5, <1>3 DEF Credited
  <1>10. Bounded' /\ Columns'
    <2>1. book.credited <= book'.credited /\ book.credited \in Nat /\ book'.credited \in Nat
      BY <1>5, Typing, AmountIsPositive DEF Books
    <2>2. Held \in Int /\ book.refunded \in Nat
      BY Typing DEF Held, Books
    <2>3. book.refunded + Held <= book.credited
      BY DEF Inv, Bounded
    <2>4. book'.refunded + Held' <= book'.credited
      BY <1>5, <1>6, <2>1, <2>2, <2>3
    <2>5. UNCHANGED topUp /\ Seen(topUp)' = Seen(topUp)
      BY <1>1 DEF Seen
    <2> QED BY <1>5, <1>6, <2>4, <2>5 DEF Inv, Bounded, Columns, Sound
  <1>11. Lowered'
    BY <1>1, <1>4, <1>6 DEF Inv, Lowered, Seen
  <1>12. InRounds'
    <2> SUFFICES ASSUME NEW v \in Workers, proc'[v].pc \in Reconciling PROVE Round(v)'
      BY DEF InRounds
    <2>1. proc'[v] = proc[v]
      BY <1>3 DEF Others, Reconciling
    <2>2. Round(v)
      BY <2>1 DEF Inv, InRounds
    <2>3. Seen(topUp)' = Seen(topUp)
      BY <1>1 DEF Seen
    <2> QED BY <1>4, <1>5, <1>6, <2>1, <2>2, <2>3 DEF Round
  <1>13. Promised
    <2>1. CASE book' = book
      BY <2>1 DEF Promised
    <2>2. CASE book.credited = 0
      BY <1>5, <2>2 DEF Promised, Promise!Credit
    <2> QED BY <1>5, <2>1, <2>2
  <1> QED BY <1>7, <1>8, <1>9, <1>10, <1>11, <1>12, <1>13 DEF Inv

-----------------------------------------------------------------------------
(* A target is recorded.                                                   *)

LEMMA TargetRecorded ==
    ASSUME Inv, NEW w \in Workers, RecordTarget(w)
    PROVE  /\ topUp' \in Rows /\ topUp'.pending = TRUE /\ topUp'.lease = topUp.lease
           /\ topUp'.credited = topUp.credited
           /\ Seen(topUp') \in Seens /\ Older(Seen(topUp), Seen(topUp')) /\ Sound(Seen(topUp'))
  <1> DEFINE e == proc[w].event
  <1>1. e \in TargetEvents /\ topUp \in Rows /\ Sound(Seen(topUp))
    BY Typing DEF RecordTarget, At, Inv, Recordings, Bounded
  <1>2. CASE e[1] = "refunded"
    <2>1. PICK c \in RefundCents : e = Refunded(c)
      BY <1>1, <1>2 DEF TargetEvents, DisputeIs
    <2>2. PICK target \in RefundCents \cup {0} :
             /\ topUp' = [topUp EXCEPT !.refundTarget = target, !.pending = TRUE]
             /\ topUp.refundTarget <= target
      <3>1. e[2] = c
        BY <2>1 DEF Refunded
      <3>2. topUp.refundTarget \in Nat /\ c \in Nat
        BY <1>1, CentsAreNumbers DEF Rows
      <3>3. topUp' = [topUp EXCEPT !.refundTarget = IF @ > c THEN @ ELSE c, !.pending = TRUE]
        BY <1>2, <3>1 DEF RecordTarget
      <3>4. CASE topUp.refundTarget > c
        <4>1. topUp' = [topUp EXCEPT !.refundTarget = topUp.refundTarget, !.pending = TRUE]
          BY <3>3, <3>4
        <4>2. topUp.refundTarget \in RefundCents \cup {0} /\ topUp.refundTarget <= topUp.refundTarget
          BY <1>1, <3>2 DEF Rows
        <4> QED BY <4>1, <4>2, Zenon
      <3>5. CASE ~(topUp.refundTarget > c)
        <4>1. topUp' = [topUp EXCEPT !.refundTarget = c, !.pending = TRUE]
          BY <3>3, <3>5
        <4>2. c \in RefundCents \cup {0} /\ topUp.refundTarget <= c
          BY <3>2, <3>5
        <4> QED BY <4>1, <4>2, Zenon
      <3> QED BY <3>4, <3>5
    <2>3. topUp' \in Rows /\ topUp'.refundTarget = target /\ topUp'.pending = TRUE
          /\ topUp'.lease = topUp.lease /\ topUp'.credited = topUp.credited
          /\ topUp'.disputeTarget = topUp.disputeTarget
          /\ topUp'.disputeState = topUp.disputeState
      BY <1>1, <2>2 DEF Rows
    <2>4. Seen(topUp') \in Seens
      BY <2>3 DEF Seen, Seens, Rows
    <2> QED BY <1>1, <2>2, <2>3, <2>4 DEF Seen, Older, Sound
  <1>3. CASE e[1] # "refunded"
    <2>1. PICK state \in {"OPEN", "WON", "LOST"} : e = DisputeIs(state)
      BY <1>1, <1>3 DEF TargetEvents, Refunded
    <2>2. PICK merged \in {"OPEN", "WON", "LOST"} :
             /\ topUp' = [topUp EXCEPT !.disputeTarget = DisputeCents,
                                       !.disputeState = merged, !.pending = TRUE]
             /\ topUp.disputeState = "WON" => merged = "WON"
      <3>1. e[2] = state
        BY <2>1 DEF DisputeIs
      <3>2. topUp.disputeTarget \in {0, DisputeCents} /\ ~(topUp.disputeTarget > DisputeCents)
        BY <1>1, CentsAreCounts DEF Rows
      <3>3. topUp' = [topUp EXCEPT !.disputeTarget = DisputeCents,
                                   !.disputeState = MergedDispute(@, state), !.pending = TRUE]
        BY <1>3, <3>1, <3>2 DEF RecordTarget
      <3>4. CASE topUp.disputeState \in {"WON", "LOST"}
        <4>1. MergedDispute(topUp.disputeState, state) = topUp.disputeState
          BY <3>4 DEF MergedDispute
        <4> QED BY <3>3, <3>4, <4>1
      <3>5. CASE topUp.disputeState \notin {"WON", "LOST"}
        <4>1. MergedDispute(topUp.disputeState, state) = state
          BY <3>5 DEF MergedDispute
        <4> QED BY <3>3, <3>5, <4>1
      <3> QED BY <3>4, <3>5
    <2>3. topUp' \in Rows /\ topUp'.refundTarget = topUp.refundTarget /\ topUp'.pending = TRUE
          /\ topUp'.lease = topUp.lease /\ topUp'.credited = topUp.credited
          /\ topUp'.disputeTarget = DisputeCents /\ topUp'.disputeState = merged
      BY <1>1, <2>2 DEF Rows
    <2>4. Seen(topUp') \in Seens
      BY <2>3 DEF Seen, Seens, Rows
    <2>5. topUp.refundTarget \in Nat
      BY <1>1, CentsAreNumbers DEF Rows
    <2> QED BY <2>2, <2>3, <2>4, <2>5 DEF Seen, Older, Sound
  <1> QED BY <1>2, <1>3

LEMMA RecordTargetInv ==
    ASSUME Inv, NEW w \in Workers, RecordTarget(w) PROVE Inv'
  <1> DEFINE was == Seen(topUp)
             now == Seen(topUp')
             local == [pc |-> "lease", event |-> proc[w].event]
  <1>1. UNCHANGED <<posted, book, stripe, webhook, faults>>
    BY DEF RecordTarget
  <1>2. Goto(w, local) /\ local \in Locals /\ local.pc = "lease"
    BY Typing, LocalKinds, JumpLocal DEF RecordTarget, At
  <1>3. proc' \in [Workers -> Locals] /\ proc'[w].pc = "lease" /\ Others(w)
    <2> HIDE DEF local
    <2> QED BY <1>2, Typing, GotoMoves
  <1>4. was \in Seens /\ now \in Seens /\ Older(was, now) /\ Sound(was) /\ Sound(now)
    BY TargetRecorded, SeenRow DEF Inv, Bounded, Typed
  <1>5. Typed'
    BY <1>1, <1>3, TargetRecorded DEF Inv, Typed, TypeOK, Rows
  <1>6. Recordings' /\ Leases'
    BY <1>3, TargetRecorded DEF Inv, Recordings, Leases, Leased, Others, Reconciling
  <1>7. Held' = Held /\ \A key : HasKey(key)' <=> HasKey(key)
    BY <1>1 DEF Held, HasKey
  <1>8. Credited'
    BY <1>1, <1>3, <1>7, TargetRecorded DEF Inv, Credited, Others
  <1>9. was[1] = topUp.refundTarget /\ was[3] = topUp.disputeState
        /\ now[1] = topUp'.refundTarget /\ now[3] = topUp'.disputeState
    BY DEF Seen
  <1>10. Bounded'
    <2>1. Share(topUp.refundTarget) <= Share(topUp'.refundTarget)
      BY <1>4, <1>9, SeenParts, ShareGrows DEF Older
    <2>2. Share(topUp.refundTarget) \in Int /\ Share(topUp'.refundTarget) \in Int
          /\ book.refunded \in Int
      BY <1>4, <1>9, SharesOf, Typing DEF Books
    <2>3. book.refunded <= Share(topUp'.refundTarget)
      BY <2>1, <2>2 DEF Inv, Bounded
    <2>4. Held > 0 => topUp'.disputeState # "NONE"
      BY <1>4, <1>9 DEF Inv, Bounded, Older
    <2> QED BY <1>1, <1>4, <1>7, <2>3, <2>4 DEF Inv, Bounded
  <1>11. Lowered'
    <2> SUFFICES ASSUME NEW v \in 0..Amount, GivenBack(v)
                 PROVE  Held <= v /\ TargetsOf(now).disputed <= v /\ topUp'.disputeState # "NONE"
      BY <1>7 DEF Lowered, GivenBack
    <2>1. Held <= v /\ TargetsOf(was).disputed <= v /\ topUp.disputeState # "NONE"
      BY DEF Inv, Lowered
    <2>2. TargetsOf(now).disputed <= TargetsOf(was).disputed
      BY <1>4, <1>9, <2>1, TargetsFall
    <2>3. TargetsOf(now).disputed \in 0..Amount /\ TargetsOf(was).disputed \in 0..Amount
      BY <1>4, TargetFacts
    <2>4. topUp'.disputeState # "NONE"
      BY <1>4, <1>9, <2>1 DEF Older
    <2> HIDE DEF was, now
    <2> QED BY <2>1, <2>2, <2>3, <2>4, AmountIsPositive
  <1>12. Columns'
    BY TargetRecorded DEF Columns
  <1>13. InRounds'
    <2> SUFFICES ASSUME NEW v \in Workers, proc'[v].pc \in Reconciling PROVE Round(v)'
      BY DEF InRounds
    <2>1. proc'[v] = proc[v] /\ proc[v].pc \in Reconciling
      BY <1>3 DEF Others, Reconciling
    <2>2. Round(v)
      BY <2>1 DEF Inv, InRounds
    <2>3. proc[v].seen \in Seens
      BY <2>1, Typing, LocalKinds DEF Rounds
    <2>4. Older(proc[v].seen, now)
      BY <1>4, <2>2, <2>3, OlderTransitive DEF Round
    <2>5. \A u : GivenBack(u)' <=> GivenBack(u)
      BY <1>7 DEF GivenBack
    <2> QED BY <1>1, <1>7, <2>1, <2>2, <2>4, <2>5 DEF Round
  <1> QED BY <1>5, <1>6, <1>8, <1>10, <1>11, <1>12, <1>13 DEF Inv

-----------------------------------------------------------------------------
(* One worker reconciles at a time.                                        *)

LEMMA Alone ==
    ASSUME Inv, NEW w \in Workers, NEW v \in Workers, Leased(w), Leased(v)
    PROVE  v = w
  BY DEF Inv, Leases

\* A step of the worker that reconciles: what is left to show is about the
\* money, and about its own round.
LEMMA RoundStep ==
    ASSUME Inv, NEW w \in Workers, Leased(w), NEW local \in Locals, Goto(w, local),
           local.pc \in Reconciling,
           UNCHANGED <<topUp, stripe, webhook, faults>>,
           book' \in Books, book'.credited = book.credited,
           \A row \in posted' : row.amount \in Nat,
           HasKey(<<"credit", 0>>)' <=> HasKey(<<"credit", 0>>),
           Bounded', Lowered', proc'[w] = local => Round(w)'
    PROVE  Inv'
  <1>1. proc' \in [Workers -> Locals] /\ proc'[w] = local /\ Others(w)
    BY Typing, GotoMoves
  <1>2. Typed'
    BY <1>1 DEF Inv, Typed, TypeOK, Books
  <1>3. topUp.lease = w /\ topUp.pending
    BY DEF Inv, Leases
  <1>4. Recordings' /\ Leases'
    BY <1>1, <1>3 DEF Inv, Recordings, Leases, Leased, Others, Reconciling
  <1>5. Credited'
    BY <1>1 DEF Inv, Credited, Others, Reconciling
  <1>6. Columns'
    BY <1>3 DEF Columns
  <1>7. InRounds'
    <2> SUFFICES ASSUME NEW v \in Workers, proc'[v].pc \in Reconciling PROVE Round(v)'
      BY DEF InRounds
    <2>1. CASE v = w
      BY <1>1, <2>1
    <2>2. CASE v # w
      <3>1. Leased(v)
        BY <1>1, <2>2 DEF Others, Leased
      <3> QED BY <2>2, <3>1, Alone
    <2> QED BY <2>1, <2>2
  <1> QED BY <1>2, <1>4, <1>5, <1>6, <1>7 DEF Inv

\* Steps by which a worker takes or keeps the lease and starts to read.
LEMMA ReadStep ==
    ASSUME Inv, NEW w \in Workers, NEW attempt \in Nat, NEW event \in Marks,
           Goto(w, [pc |-> "read", event |-> event, attempt |-> attempt]),
           UNCHANGED <<posted, book, stripe, webhook, faults>>,
           topUp' \in Rows, SameColumns, topUp'.lease = w, topUp.pending,
           \A v \in Workers : Leased(v) => v = w
    PROVE  Inv'
  <1> DEFINE local == [pc |-> "read", event |-> event, attempt |-> attempt]
  <1>1. local \in Locals /\ local.pc = "read" /\ Goto(w, local)
    BY DEF Locals, Readings
  <1> HIDE DEF local
  <1>2. proc' \in [Workers -> Locals] /\ proc'[w].pc = "read" /\ Others(w)
    BY <1>1, Typing, GotoMoves
  <1>3. Typed'
    BY <1>2 DEF Inv, Typed, TypeOK, Rows
  <1>4. SameMoney
    BY DEF SameMoney, SameColumns
  <1>5. Bounded' /\ Lowered' /\ Columns'
    BY <1>4, SameMoneyKeeps
  <1>6. Credited'
    <2>1. \A v \in Workers : proc'[v].pc = "fulfilled" => proc[v].pc = "fulfilled"
      BY <1>2 DEF Others
    <2> QED BY <1>4, <2>1, SameMoneyKeeps
  <1>7. Recordings'
    BY <1>2 DEF Inv, Recordings, Others
  <1>8. \A v \in Workers : Leased(v)' => v = w
    BY <1>2 DEF Leased, Others
  <1>9. Leases'
    BY <1>8 DEF Leases, SameColumns
  <1>10. InRounds'
    <2>1. \A v \in Workers : proc'[v].pc \notin Reconciling
      BY <1>2, <1>8 DEF Leased, Reconciling
    <2> QED BY <2>1 DEF InRounds
  <1> QED BY <1>3, <1>5, <1>6, <1>7, <1>9, <1>10 DEF Inv

LEMMA TakeLeaseInv ==
    ASSUME Inv, Stalls = FALSE, NEW w \in Workers, TakeLease(w) PROVE Inv'
  <1>1. proc[w] \in Handlings /\ proc[w].event \in Marks
    BY Typing, LocalKinds DEF TakeLease, At
  <1>2. CASE topUp.pending /\ Takeable(topUp.lease)
    <2>1. topUp' = [topUp EXCEPT !.lease = w]
          /\ Goto(w, [pc |-> "read", event |-> proc[w].event, attempt |-> 1])
      BY <1>2 DEF TakeLease
    <2>2. topUp' \in Rows /\ SameColumns /\ topUp'.lease = w
      BY <2>1, Typing DEF Rows, SameColumns, Tokenholders
    <2>3. \A v \in Workers : ~Leased(v)
      BY <1>2, TokensDiffer DEF Takeable, Inv, Leases
    <2> QED BY <1>1, <1>2, <2>1, <2>2, <2>3, ReadStep DEF TakeLease
  <1>3. CASE ~(topUp.pending /\ Takeable(topUp.lease))
    <2>1. Jump(w, "finish") /\ UNCHANGED <<topUp, posted, book, stripe, webhook, faults>>
      BY <1>3 DEF TakeLease
    <2>2. Goto(w, [pc |-> "finish", event |-> proc[w].event])
          /\ [pc |-> "finish", event |-> proc[w].event] \in Locals
      BY <1>1, <2>1, JumpLocal
    <2> QED BY <2>1, <2>2, Unchanged, AsideStep DEF Reconciling
  <1> QED BY <1>2, <1>3

LEMMA HeldKnown ==
    Inv => /\ Held \in Nat /\ book.refunded \in Nat /\ book.credited \in Nat
           /\ Progress(book) = [refunded |-> book.refunded, disputed |-> Held]
  <1> SUFFICES ASSUME Inv
               PROVE  /\ Held \in Nat /\ book.refunded \in Nat /\ book.credited \in Nat
                      /\ Progress(book) = [refunded |-> book.refunded, disputed |-> Held]
    OBVIOUS
  <1>1. /\ book.debited \in Nat /\ book.released \in Nat /\ book.refunded \in Nat
        /\ book.credited \in Nat
    BY Typing DEF Books
  <1>2. book.released <= book.debited
    BY DEF Inv, Bounded
  <1>3. (IF book.debited > book.released THEN book.debited - book.released ELSE 0)
           = book.debited - book.released
    BY <1>1, <1>2
  <1> QED BY <1>1, <1>2, <1>3 DEF Held, Progress

\* Nothing is ever taken back that was not paid.
LEMMA AmountsKnown ==
    Inv => [refunded |-> book.refunded, disputed |-> Held] \in Amounts
  <1> SUFFICES ASSUME Inv PROVE Held \in 0..Amount /\ book.refunded \in 0..Amount
    BY DEF Amounts
  <1>1. book.credited \in {0, Amount} /\ book.refunded + Held <= book.credited
    BY DEF Inv, Credited, Bounded
  <1> QED BY <1>1, HeldKnown, AmountIsPositive

LEMMA ReadTargetsInv ==
    ASSUME Inv, NEW w \in Workers, ReadTargets(w) PROVE Inv'
  <1>1. proc[w] \in Readings /\ Leased(w) /\ UNCHANGED <<posted, book, stripe, webhook, faults>>
    BY Typing, LocalKinds DEF ReadTargets, At, Leased
  <1>2. CASE topUp.credited = 0
    <2>1. Goto(w, [pc |-> "finish", event |-> proc[w].event])
          /\ [pc |-> "finish", event |-> proc[w].event] \in Locals
      BY <1>1, <1>2, NextLocals DEF ReadTargets, Readings
    <2>2. topUp' = LeaseReturned(w)
      BY <1>2 DEF ReadTargets
    <2> QED BY <1>1, <2>1, <2>2, LeaseReturnedKeeps, Unchanged, AsideStep DEF Reconciling
  <1>3. CASE topUp.credited # 0
    <2> DEFINE local == [pc |-> "give-back", event |-> proc[w].event,
                         attempt |-> proc[w].attempt, seen |-> Seen(topUp),
                         desired |-> Targets(topUp), applied |-> Progress(book)]
    <2>1. UNCHANGED topUp /\ Goto(w, local)
      BY <1>3 DEF ReadTargets
    <2>2. Seen(topUp) \in Seens /\ Targets(topUp) = TargetsOf(Seen(topUp))
      BY SeenRow DEF Inv, Typed
    <2>3. local \in Locals
      <3>1. Progress(book) \in Amounts /\ Targets(topUp) \in Amounts
        BY <2>2, HeldKnown, AmountsKnown, TargetFacts
      <3> QED BY <1>1, <2>2, <3>1 DEF Locals, Rounds, Readings, Reconciling
    <2>4. /\ local.pc = "give-back" /\ local.seen = Seen(topUp)
          /\ local.desired = TargetsOf(Seen(topUp))
          /\ local.applied = [refunded |-> book.refunded, disputed |-> Held]
      BY <2>2, HeldKnown
    <2> HIDE DEF local
    <2>5. Bounded' /\ Lowered' /\ Seen(topUp)' = Seen(topUp) /\ Held' = Held
          /\ \A key : HasKey(key)' = HasKey(key)
      <3>1. SameMoney
        BY <1>1, <2>1 DEF SameMoney
      <3> QED BY <3>1, SameMoneyKeeps
    <2>6. ASSUME proc'[w] = local PROVE Round(w)'
      <3>1. book'.credited = Amount
        BY <1>1, <1>3 DEF Inv, Credited
      <3>2. Older(Seen(topUp), Seen(topUp)) /\ Sound(Seen(topUp))
        BY <2>2, OlderReflexive DEF Inv, Bounded
      <3>3. book.refunded <= TargetsOf(Seen(topUp)).refunded
        BY <2>2, TargetFacts DEF Inv, Bounded, Seen
      <3>4. Held > 0 => Seen(topUp)[3] # "NONE"
        BY DEF Inv, Bounded, Seen
      <3>5. \A v \in 0..Amount : GivenBack(v) =>
               TargetsOf(Seen(topUp)).disputed <= v /\ Seen(topUp)[3] # "NONE"
        BY DEF Inv, Lowered, Seen
      <3>6. \A v : GivenBack(v)' = GivenBack(v)
        BY <2>5 DEF GivenBack
      <3> QED BY <1>1, <2>4, <2>5, <2>6, <3>1, <3>2, <3>3, <3>4, <3>5, <3>6 DEF Round
    <2>7. book' \in Books /\ book'.credited = book.credited /\ \A row \in posted' : row.amount \in Nat
      BY <1>1, Typing
    <2> QED BY <1>1, <2>1, <2>3, <2>4, <2>5, <2>6, <2>7, RoundStep DEF Reconciling
  <1> QED BY <1>2, <1>3

-----------------------------------------------------------------------------
(* The postings of a round.                                                *)

\* The ledger's progress, after a posting of the round.
LEMMA PostedLocal ==
    ASSUME Inv, NEW w \in Workers, proc[w].pc \in Reconciling, NEW pc \in Reconciling,
           Posted(w, pc), NEW refunded \in 0..Amount, NEW held \in 0..Amount,
           Progress(book') = [refunded |-> refunded, disputed |-> held]
    PROVE  \E local \in Locals :
              /\ Goto(w, local) /\ local.pc = pc
              /\ local.seen = proc[w].seen /\ local.desired = proc[w].desired
              /\ local.applied = [refunded |-> refunded, disputed |-> held]
  <1> DEFINE applied == [refunded |-> refunded, disputed |-> held]
             local == [proc[w] EXCEPT !.pc = pc, !.applied = applied]
  <1>1. proc[w] \in Rounds /\ applied \in Amounts
    BY Typing, LocalKinds DEF Amounts
  <1>2. Goto(w, local)
    BY DEF Posted
  <1> HIDE DEF applied
  <1>3. local \in Rounds /\ local.pc = pc /\ local.seen = proc[w].seen
        /\ local.desired = proc[w].desired /\ local.applied = applied
    BY <1>1 DEF Rounds
  <1>4. local \in Locals
    BY <1>3 DEF Locals
  <1> HIDE DEF local
  <1> QED BY <1>2, <1>3, <1>4 DEF applied

\* What a round knows.
LEMMA RoundFacts ==
    ASSUME Inv, NEW w \in Workers, proc[w].pc \in Reconciling
    PROVE  /\ Round(w) /\ Leased(w) /\ proc[w].seen \in Seens /\ Seen(topUp) \in Seens
           /\ Older(proc[w].seen, Seen(topUp))
           /\ proc[w].desired.refunded = TargetsOf(proc[w].seen).refunded
           /\ proc[w].desired.disputed = TargetsOf(proc[w].seen).disputed
           /\ proc[w].desired.refunded \in 0..Amount /\ proc[w].desired.disputed \in 0..Amount
           /\ proc[w].desired.refunded + proc[w].desired.disputed <= Amount
           /\ proc[w].desired.disputed > 0 => proc[w].seen[3] # "NONE"
           /\ proc[w].applied.refunded = book.refunded /\ proc[w].applied.disputed = Held
           /\ proc[w].desired.refunded <= Share(topUp.refundTarget)
           /\ proc[w].seen[3] # "NONE" => /\ topUp.disputeState # "NONE"
                                          /\ TargetsOf(Seen(topUp)).disputed
                                                <= proc[w].desired.disputed
           /\ book.refunded \in 0..Amount /\ Held \in 0..Amount /\ book.credited = Amount
  <1>1. Round(w) /\ Leased(w)
    BY DEF Inv, InRounds, Leased
  <1>2. proc[w].seen \in Seens /\ Seen(topUp) \in Seens
    BY Typing, LocalKinds, SeenRow DEF Inv, Typed, Rounds
  <1>3. /\ Older(proc[w].seen, Seen(topUp)) /\ Sound(proc[w].seen) /\ Sound(Seen(topUp))
        /\ proc[w].desired = TargetsOf(proc[w].seen) /\ book.credited = Amount
        /\ proc[w].applied = [refunded |-> book.refunded, disputed |-> Held]
    BY <1>1 DEF Round, Inv, Bounded
  <1>4. /\ TargetsOf(proc[w].seen).refunded <= TargetsOf(Seen(topUp)).refunded
        /\ proc[w].seen[3] # "NONE" =>
              TargetsOf(Seen(topUp)).disputed <= TargetsOf(proc[w].seen).disputed
    BY <1>2, <1>3, TargetsFall
  <1>5. TargetsOf(Seen(topUp)).refunded = Share(topUp.refundTarget)
    BY <1>2, TargetFacts DEF Seen
  <1>6. proc[w].seen[3] # "NONE" => topUp.disputeState # "NONE"
    BY <1>3 DEF Older, Seen
  <1>7. book.refunded \in 0..Amount /\ Held \in 0..Amount
    BY AmountsKnown DEF Amounts
  <1> QED BY <1>1, <1>2, <1>3, <1>4, <1>5, <1>6, <1>7, TargetFacts

\* A posting after which refunds and the held part fit into the principal,
\* and into what the round has read.
LEMMA PostingInv ==
    ASSUME Inv, NEW w \in Workers, proc[w].pc \in Reconciling, NEW pc \in Reconciling,
           Posted(w, pc), UNCHANGED <<topUp, stripe, webhook, faults>>,
           NEW refunded \in 0..Amount, NEW held \in 0..Amount,
           book' \in Books, book'.credited = book.credited,
           book'.refunded = refunded, book'.debited - book'.released = held,
           \A row \in posted' : row.amount \in Nat,
           HasKey(<<"credit", 0>>)' <=> HasKey(<<"credit", 0>>),
           refunded <= proc[w].desired.refunded,
           refunded + held <= Amount,
           held > 0 => proc[w].seen[3] # "NONE",
           pc # "give-back" => held <= proc[w].desired.disputed,
           \A v \in 0..Amount : GivenBack(v)' =>
              held <= v /\ proc[w].desired.disputed <= v /\ proc[w].seen[3] # "NONE"
    PROVE  Inv'
  <1>1. Held' = held
    BY DEF Held
  <1>2. /\ book'.debited \in Nat /\ book'.released \in Nat /\ book'.refunded = refunded
        /\ book'.released <= book'.debited
    BY AmountIsPositive DEF Books
  <1>3. Progress(book') = [refunded |-> refunded, disputed |-> held]
    <2>1. (IF book'.debited > book'.released THEN book'.debited - book'.released ELSE 0) = held
      BY <1>2
    <2> QED BY <1>2, <2>1 DEF Progress
  <1>4. PICK local \in Locals :
              /\ Goto(w, local) /\ local.pc = pc
              /\ local.seen = proc[w].seen /\ local.desired = proc[w].desired
              /\ local.applied = [refunded |-> refunded, disputed |-> held]
    BY <1>3, PostedLocal
  <1>5. Seen(topUp)' = Seen(topUp)
    BY DEF Seen
  <1>6. Bounded'
    <2>1. refunded <= Share(topUp.refundTarget)
      <3>1. Share(topUp.refundTarget) \in Int
        BY RoundFacts, SharesOf DEF Seen
      <3> QED BY <3>1, RoundFacts, AmountIsPositive
    <2>2. book'.refunded + held <= book'.credited
      BY RoundFacts
    <2>3. held > 0 => topUp.disputeState # "NONE"
      BY RoundFacts
    <2>4. Sound(Seen(topUp))
      BY DEF Inv, Bounded
    <2> QED BY <1>1, <1>2, <1>5, <2>1, <2>2, <2>3, <2>4 DEF Bounded
  <1>7. Lowered'
    <2> SUFFICES ASSUME NEW v \in 0..Amount, GivenBack(v)'
                 PROVE  held <= v /\ TargetsOf(Seen(topUp)).disputed <= v
                        /\ topUp.disputeState # "NONE"
      BY <1>1, <1>5 DEF Lowered
    <2>1. held <= v /\ proc[w].desired.disputed <= v /\ proc[w].seen[3] # "NONE"
      OBVIOUS
    <2>2. TargetsOf(Seen(topUp)).disputed <= proc[w].desired.disputed
          /\ topUp.disputeState # "NONE"
      BY <2>1, RoundFacts
    <2>3. TargetsOf(Seen(topUp)).disputed \in 0..Amount
          /\ proc[w].desired.disputed \in 0..Amount
      BY RoundFacts, TargetFacts
    <2> QED BY <2>1, <2>2, <2>3, AmountIsPositive
  <1>8. ASSUME proc'[w] = local PROVE Round(w)'
    <2>1. book'.credited = Amount /\ Older(proc[w].seen, Seen(topUp))
          /\ Sound(proc[w].seen) /\ proc[w].desired = TargetsOf(proc[w].seen)
      BY RoundFacts DEF Round
    <2>2. \A v \in 0..Amount : GivenBack(v)' =>
             local.desired.disputed <= v /\ local.seen[3] # "NONE"
      BY <1>4
    <2> QED BY <1>1, <1>2, <1>4, <1>5, <1>8, <2>1, <2>2 DEF Round
  <1> QED BY <1>4, <1>6, <1>7, <1>8, RoundFacts, RoundStep

LEMMA GiveBackDisputeInv ==
    ASSUME Inv, NEW w \in Workers, GiveBackDispute(w) PROVE Inv' /\ Promised
  <1> DEFINE target == proc[w].desired.disputed
  <1>1. proc[w].pc \in Reconciling /\ Posted(w, "refund")
        /\ UNCHANGED <<topUp, stripe, webhook, faults>>
    BY DEF GiveBackDispute, At, Reconciling
  <1>2. /\ target \in 0..Amount /\ Held \in 0..Amount /\ book.refunded \in 0..Amount
        /\ proc[w].applied.disputed = Held /\ Round(w)
    BY <1>1, RoundFacts
  <1>3. /\ book.refunded <= proc[w].desired.refunded /\ book.refunded + Held <= Amount
        /\ Held > 0 => proc[w].seen[3] # "NONE"
        /\ \A v \in 0..Amount : GivenBack(v) => target <= v /\ proc[w].seen[3] # "NONE"
        /\ \A v \in 0..Amount : GivenBack(v) => Held <= v
    BY <1>2 DEF Round, Inv, Bounded, Lowered
  <1>4. /\ book.debited \in Nat /\ book.released \in Nat /\ Held = book.debited - book.released
    BY Typing DEF Books, Held
  <1>5. CASE Held - target > 0
    <2>1. Post(<<"dispute-release", target>>, "released", Held - target)
      BY <1>2, <1>5 DEF GiveBackDispute
    <2>2. ~HasKey(<<"dispute-release", target>>)
      BY <1>2, <1>3, <1>5 DEF GivenBack
    <2>3. Held - target \in Nat
      BY <1>2, <1>5
    <2>4. book' = [credited |-> book.credited, refunded |-> book.refunded,
                   debited |-> book.debited, released |-> book.released + (Held - target)]
      BY <2>1, <2>2, <2>3, Typing, Booked
    <2>5. book' \in Books /\ book'.credited = book.credited /\ book'.refunded = book.refunded
          /\ book'.debited - book'.released = target
      <3>1. book.released + (Held - target) \in Nat
            /\ book.debited - (book.released + (Held - target)) = target
        BY <1>2, <1>4, <2>3
      <3> QED BY <2>4, <3>1, Typing DEF Books
    <2>6. \A row \in posted' : row.amount \in Nat
      BY <2>1, <2>3, Typing, PostedAmounts
    <2>7. (HasKey(<<"credit", 0>>)' <=> HasKey(<<"credit", 0>>))
          /\ \A v : GivenBack(v)' <=> (GivenBack(v) \/ v = target)
      <3>1. \A k : HasKey(k)' <=> (HasKey(k) \/ k = <<"dispute-release", target>>)
        BY <2>1, PostedKeys
      <3>2. <<"credit", 0>> # <<"dispute-release", target>>
            /\ \A v : <<"dispute-release", v>> = <<"dispute-release", target>> <=> v = target
        OBVIOUS
      <3> QED BY <3>1, <3>2 DEF GivenBack
    <2>8. \A v \in 0..Amount : GivenBack(v)' =>
             target <= v /\ proc[w].seen[3] # "NONE"
      BY <1>2, <1>3, <1>5, <2>7
    <2>9. Inv'
      <3>1. book.refunded + target <= Amount /\ (target > 0 => proc[w].seen[3] # "NONE")
            /\ target <= target
        BY <1>2, <1>3, <1>5, AmountIsPositive
      <3> HIDE DEF target
      <3> QED BY <1>1, <1>2, <1>3, <2>5, <2>6, <2>7, <2>8, <3>1, PostingInv
                 DEF target, Reconciling
    <2>10. Promise!GiveBack
      <3>1. target \in 0..(Held - 1)
        BY <1>2, <1>5
      <3> QED BY <1>4, <2>5, <3>1 DEF Promise!GiveBack
    <2> QED BY <2>9, <2>10 DEF Promised
  <1>6. CASE ~(Held - target > 0)
    <2>1. UNCHANGED <<posted, book>>
      BY <1>2, <1>6 DEF GiveBackDispute
    <2>2. Held <= target
      BY <1>2, <1>6
    <2>3. \A key : HasKey(key)' <=> HasKey(key)
      BY <2>1 DEF HasKey
    <2>4. Inv'
      <3>1. \A v \in 0..Amount : GivenBack(v)' =>
               Held <= v /\ target <= v /\ proc[w].seen[3] # "NONE"
        BY <1>3, <2>3 DEF GivenBack
      <3> HIDE DEF target
      <3>2. book' \in Books /\ book'.credited = book.credited /\ book'.refunded = book.refunded
            /\ book'.debited - book'.released = Held /\ \A row \in posted' : row.amount \in Nat
        BY <1>4, <2>1, Typing
      <3> QED BY <1>1, <1>2, <1>3, <2>2, <2>3, <3>1, <3>2, PostingInv DEF target, Reconciling
    <2> QED BY <2>1, <2>4 DEF Promised
  <1> QED BY <1>5, <1>6

LEMMA TakeBackRefundInv ==
    ASSUME Inv, NEW w \in Workers, TakeBackRefund(w) PROVE Inv' /\ Promised
  <1> DEFINE target == proc[w].desired.refunded
             due == target - book.refunded
  <1>1. proc[w].pc \in Reconciling /\ proc[w].pc # "give-back" /\ Posted(w, "dispute")
        /\ UNCHANGED <<topUp, stripe, webhook, faults>>
    BY DEF TakeBackRefund, At, Reconciling
  <1>2. /\ target \in 0..Amount /\ Held \in 0..Amount /\ book.refunded \in 0..Amount
        /\ proc[w].applied.refunded = book.refunded /\ Round(w)
        /\ proc[w].desired.disputed \in 0..Amount
        /\ target + proc[w].desired.disputed <= Amount
    BY <1>1, RoundFacts
  <1>3. /\ book.refunded <= target /\ Held <= proc[w].desired.disputed
        /\ book.credited = Amount /\ book.refunded + Held <= Amount
        /\ Held > 0 => proc[w].seen[3] # "NONE"
        /\ \A v \in 0..Amount : GivenBack(v) =>
              Held <= v /\ proc[w].desired.disputed <= v /\ proc[w].seen[3] # "NONE"
    BY <1>1, <1>2 DEF Round, Inv, Bounded, Lowered
  <1>4. /\ book.debited \in Nat /\ book.released \in Nat /\ Held = book.debited - book.released
    BY Typing DEF Books, Held
  <1>5. ASSUME UNCHANGED <<posted, book>> PROVE Inv' /\ Promised
    <2>1. \A key : HasKey(key)' <=> HasKey(key)
      BY <1>5 DEF HasKey
    <2>2. \A v \in 0..Amount : GivenBack(v)' =>
             Held <= v /\ proc[w].desired.disputed <= v /\ proc[w].seen[3] # "NONE"
      BY <1>3, <2>1 DEF GivenBack
    <2>3. book' \in Books /\ book'.credited = book.credited /\ book'.refunded = book.refunded
          /\ book'.debited - book'.released = Held /\ \A row \in posted' : row.amount \in Nat
      BY <1>4, <1>5, Typing
    <2> QED BY <1>1, <1>2, <1>3, <1>5, <2>1, <2>2, <2>3, PostingInv DEF Promised, Reconciling
  <1>6. CASE due > 0
    <2>1. Post(<<"refund", target>>, "refunded", due)
      BY <1>2, <1>6 DEF TakeBackRefund
    <2>2. due \in Nat
      BY <1>2, <1>6
    <2>3. CASE HasKey(<<"refund", target>>)
      <3>1. UNCHANGED <<posted, book>>
        BY <2>1, <2>3 DEF Post, HasKey
      <3> QED BY <1>5, <3>1
    <2>4. CASE ~HasKey(<<"refund", target>>)
      <3>1. book' = [credited |-> book.credited, refunded |-> book.refunded + due,
                     debited |-> book.debited, released |-> book.released]
        BY <2>1, <2>2, <2>4, Typing, Booked
      <3>2. book' \in Books /\ book'.credited = book.credited /\ book'.refunded = target
            /\ book'.debited - book'.released = Held
            /\ book'.debited = book.debited /\ book'.released = book.released
        <4>1. book.refunded + due = target /\ target \in Nat
          BY <1>2
        <4> HIDE DEF due, target
        <4> QED BY <1>4, <3>1, <4>1, Typing DEF Books
      <3>3. \A row \in posted' : row.amount \in Nat
        BY <2>1, <2>2, Typing, PostedAmounts
      <3>4. (HasKey(<<"credit", 0>>)' <=> HasKey(<<"credit", 0>>))
            /\ \A v : GivenBack(v)' <=> GivenBack(v)
        <4>1. \A k : HasKey(k)' <=> (HasKey(k) \/ k = <<"refund", target>>)
          BY <2>1, PostedKeys
        <4>2. <<"credit", 0>> # <<"refund", target>>
              /\ \A v : <<"dispute-release", v>> # <<"refund", target>>
          OBVIOUS
        <4> QED BY <4>1, <4>2 DEF GivenBack
      <3>5. Inv'
        <4>1. target + Held <= Amount /\ target <= target
          BY <1>2, <1>3, AmountIsPositive
        <4>2. \A v \in 0..Amount : GivenBack(v)' =>
                 Held <= v /\ proc[w].desired.disputed <= v /\ proc[w].seen[3] # "NONE"
          BY <1>3, <3>4
        <4> HIDE DEF target
        <4> QED BY <1>1, <1>2, <1>3, <3>2, <3>3, <3>4, <4>1, <4>2, PostingInv
                   DEF target, Reconciling
      <3>6. Promise!Refund
        <4>1. target \in (book.refunded + 1)..(book.credited - Held)
          BY <1>2, <1>3, <1>6, AmountIsPositive
        <4> HIDE DEF target
        <4> QED BY <1>4, <3>2, <4>1 DEF Promise!Refund
      <3> QED BY <3>5, <3>6 DEF Promised
    <2> QED BY <2>3, <2>4
  <1>7. CASE ~(due > 0)
    <2>1. UNCHANGED <<posted, book>>
      BY <1>2, <1>7 DEF TakeBackRefund
    <2> QED BY <1>5, <2>1
  <1> QED BY <1>6, <1>7

LEMMA TakeBackDisputeInv ==
    ASSUME Inv, NEW w \in Workers, TakeBackDispute(w) PROVE Inv' /\ Promised
  <1> DEFINE target == proc[w].desired.disputed
             due == target - Held
  <1>1. proc[w].pc \in Reconciling /\ proc[w].pc # "give-back" /\ Posted(w, "complete")
        /\ UNCHANGED <<topUp, stripe, webhook, faults>>
    BY DEF TakeBackDispute, At, Reconciling
  <1>2. /\ target \in 0..Amount /\ Held \in 0..Amount /\ book.refunded \in 0..Amount
        /\ proc[w].applied.disputed = Held /\ Round(w)
        /\ proc[w].desired.refunded \in 0..Amount
        /\ proc[w].desired.refunded + target <= Amount
        /\ (target > 0 => proc[w].seen[3] # "NONE")
    BY <1>1, RoundFacts
  <1>3. /\ book.refunded <= proc[w].desired.refunded /\ Held <= target
        /\ book.credited = Amount /\ book.refunded + Held <= Amount
        /\ Held > 0 => proc[w].seen[3] # "NONE"
        /\ \A v \in 0..Amount : GivenBack(v) =>
              Held <= v /\ target <= v /\ proc[w].seen[3] # "NONE"
    BY <1>1, <1>2 DEF Round, Inv, Bounded, Lowered
  <1>4. /\ book.debited \in Nat /\ book.released \in Nat /\ Held = book.debited - book.released
    BY Typing DEF Books, Held
  <1>5. ASSUME UNCHANGED <<posted, book>> PROVE Inv' /\ Promised
    <2>1. \A key : HasKey(key)' <=> HasKey(key)
      BY <1>5 DEF HasKey
    <2>2. \A v \in 0..Amount : GivenBack(v)' =>
             Held <= v /\ target <= v /\ proc[w].seen[3] # "NONE"
      BY <1>3, <2>1 DEF GivenBack
    <2>3. book' \in Books /\ book'.credited = book.credited /\ book'.refunded = book.refunded
          /\ book'.debited - book'.released = Held /\ \A row \in posted' : row.amount \in Nat
      BY <1>4, <1>5, Typing
    <2> HIDE DEF target
    <2> QED BY <1>1, <1>2, <1>3, <1>5, <2>1, <2>2, <2>3, PostingInv
               DEF Promised, Reconciling, target
  <1>6. CASE due > 0
    <2>1. Post(<<"dispute", target>>, "debited", due)
      BY <1>2, <1>6 DEF TakeBackDispute
    <2>2. due \in Nat
      BY <1>2, <1>6
    <2>3. CASE HasKey(<<"dispute", target>>)
      <3>1. UNCHANGED <<posted, book>>
        BY <2>1, <2>3 DEF Post, HasKey
      <3> QED BY <1>5, <3>1
    <2>4. CASE ~HasKey(<<"dispute", target>>)
      <3>1. book' = [credited |-> book.credited, refunded |-> book.refunded,
                     debited |-> book.debited + due, released |-> book.released]
        BY <2>1, <2>2, <2>4, Typing, Booked
      <3>2. book' \in Books /\ book'.credited = book.credited /\ book'.refunded = book.refunded
            /\ book'.debited - book'.released = target
        <4>1. book.debited + due \in Nat /\ (book.debited + due) - book.released = target
          BY <1>2, <1>4, <2>2
        <4> HIDE DEF due, target
        <4> QED BY <3>1, <4>1, Typing DEF Books
      <3>3. \A row \in posted' : row.amount \in Nat
        BY <2>1, <2>2, Typing, PostedAmounts
      <3>4. (HasKey(<<"credit", 0>>)' <=> HasKey(<<"credit", 0>>))
            /\ \A v : GivenBack(v)' <=> GivenBack(v)
        <4>1. \A k : HasKey(k)' <=> (HasKey(k) \/ k = <<"dispute", target>>)
          BY <2>1, PostedKeys
        <4>2. <<"credit", 0>> # <<"dispute", target>>
              /\ \A v : <<"dispute-release", v>> # <<"dispute", target>>
          OBVIOUS
        <4> QED BY <4>1, <4>2 DEF GivenBack
      <3>5. Inv'
        <4>1. book.refunded + target <= Amount /\ target <= target
          BY <1>2, <1>3, AmountIsPositive
        <4>2. \A v \in 0..Amount : GivenBack(v)' =>
                 target <= v /\ proc[w].seen[3] # "NONE"
          BY <1>3, <3>4
        <4> HIDE DEF target
        <4> QED BY <1>1, <1>2, <1>3, <3>2, <3>3, <3>4, <4>1, <4>2, PostingInv
                   DEF target, Reconciling
      <3>6. Promise!Hold
        <4>1. target \in (Held + 1)..(book.credited - book.refunded)
          BY <1>2, <1>3, <1>6, AmountIsPositive
        <4> HIDE DEF target
        <4> QED BY <1>4, <3>2, <4>1 DEF Promise!Hold
      <3> QED BY <3>5, <3>6 DEF Promised
    <2> QED BY <2>3, <2>4
  <1>7. CASE ~(due > 0)
    <2>1. UNCHANGED <<posted, book>>
      BY <1>2, <1>7 DEF TakeBackDispute
    <2> QED BY <1>5, <2>1
  <1> QED BY <1>6, <1>7

-----------------------------------------------------------------------------
(* The end of a round.                                                     *)

\* The compare-and-set succeeds: the columns show the ledger's progress.
LEMMA RoundEnds ==
    ASSUME Inv, NEW w \in Workers, proc[w].pc \in Reconciling, NEW event \in Marks,
           Goto(w, [pc |-> "finish", event |-> event]),
           UNCHANGED <<posted, book, stripe, webhook, faults>>,
           topUp' = [topUp EXCEPT
                        !.refunded = proc[w].applied.refunded,
                        !.disputed = proc[w].applied.disputed,
                        !.status = FinancialStatus(proc[w].applied.refunded,
                                                   proc[w].applied.disputed),
                        !.pending = FALSE, !.lease = None]
    PROVE  Inv'
  <1> DEFINE local == [pc |-> "finish", event |-> event]
             status == FinancialStatus(proc[w].applied.refunded, proc[w].applied.disputed)
  <1>1. local \in Locals /\ local.pc = "finish" /\ Goto(w, local)
    BY NextLocals
  <1> HIDE DEF local
  <1>2. proc' \in [Workers -> Locals] /\ proc'[w].pc = "finish" /\ Others(w)
    BY <1>1, Typing, GotoMoves
  <1>3. /\ proc[w].applied.refunded = book.refunded /\ proc[w].applied.disputed = Held
        /\ book.refunded \in 0..Amount /\ Held \in 0..Amount /\ Leased(w)
    BY RoundFacts
  <1>4. status \in {"SUCCEEDED", "REFUNDED", "PARTIALLY_REFUNDED", "DISPUTED"}
    BY <1>3, StatusKnown
  <1>5. topUp' = [topUp EXCEPT !.refunded = book.refunded, !.disputed = Held,
                               !.status = status, !.pending = FALSE, !.lease = None]
    BY <1>3
  <1> HIDE DEF status
  <1>6. /\ topUp' \in Rows /\ topUp'.credited = topUp.credited
        /\ topUp'.refunded = book.refunded /\ topUp'.disputed = Held
        /\ topUp'.refundTarget = topUp.refundTarget
        /\ topUp'.disputeTarget = topUp.disputeTarget
        /\ topUp'.disputeState = topUp.disputeState
    <2>1. topUp' \in Rows
      BY <1>3, <1>4, <1>5, Typing DEF Rows, Tokenholders
    <2>2. /\ topUp'.refunded = book.refunded /\ topUp'.disputed = Held
          /\ topUp'.credited = topUp.credited
      BY <1>5, Typing DEF Rows
    <2>3. /\ topUp'.refundTarget = topUp.refundTarget
          /\ topUp'.disputeTarget = topUp.disputeTarget
          /\ topUp'.disputeState = topUp.disputeState
      BY <1>5, Typing DEF Rows
    <2> QED BY <2>1, <2>2, <2>3
  <1>7. Typed'
    BY <1>2, <1>6 DEF Inv, Typed, TypeOK, Rows
  <1>8. Seen(topUp)' = Seen(topUp) /\ Held' = Held /\ \A key : HasKey(key)' <=> HasKey(key)
    BY <1>6 DEF Seen, Held, HasKey
  <1>9. Bounded' /\ Lowered' /\ Columns'
    BY <1>6, <1>8 DEF Inv, Bounded, Lowered, Columns, GivenBack
  <1>10. Credited' /\ Recordings'
    BY <1>2, <1>6, <1>8 DEF Inv, Credited, Recordings, Others
  <1>11. \A v \in Workers : ~Leased(v)'
    <2> SUFFICES ASSUME NEW v \in Workers, Leased(v)' PROVE FALSE
      OBVIOUS
    <2>1. v # w /\ proc'[v] = proc[v]
      BY <1>2 DEF Leased, Others, Reconciling
    <2>2. Leased(v)
      BY <2>1 DEF Leased
    <2> QED BY <1>3, <2>1, <2>2, Alone
  <1>12. Leases' /\ InRounds'
    BY <1>11 DEF Leases, InRounds, Leased
  <1> QED BY <1>7, <1>9, <1>10, <1>12 DEF Inv

LEMMA CompleteReconciliationInv ==
    ASSUME Inv, NEW w \in Workers, CompleteReconciliation(w) PROVE Inv'
  <1>1. /\ proc[w].pc \in Reconciling /\ proc[w] \in Rounds
        /\ UNCHANGED <<posted, book, stripe, webhook, faults>>
    BY Typing, LocalKinds DEF CompleteReconciliation, At, Reconciling
  <1>2. proc[w].event \in Marks /\ proc[w].attempt \in Nat /\ Leased(w)
        /\ topUp.lease = w /\ topUp.pending
    BY <1>1 DEF Rounds, Leased, Inv, Leases
  <1>3. CASE Seen(topUp) = proc[w].seen
    BY <1>1, <1>2, <1>3, RoundEnds DEF CompleteReconciliation
  <1>4. CASE Seen(topUp) # proc[w].seen /\ proc[w].attempt < MaxAttempts
    <2>1. UNCHANGED topUp
          /\ Goto(w, [pc |-> "read", event |-> proc[w].event, attempt |-> proc[w].attempt + 1])
      BY <1>4 DEF CompleteReconciliation
    <2>2. proc[w].attempt + 1 \in Nat
      BY <1>2
    <2>3. \A v \in Workers : Leased(v) => v = w
      BY <1>2, Alone
    <2> QED BY <1>1, <1>2, <2>1, <2>2, <2>3, Unchanged, ReadStep
  <1>5. CASE Seen(topUp) # proc[w].seen /\ ~(proc[w].attempt < MaxAttempts)
    <2>1. Goto(w, [pc |-> "finish", event |-> proc[w].event]) /\ topUp' = LeaseReturned(w)
      BY <1>5 DEF CompleteReconciliation
    <2>2. [pc |-> "finish", event |-> proc[w].event] \in Locals
      BY <1>2, NextLocals
    <2> QED BY <1>1, <2>1, <2>2, LeaseReturnedKeeps, Unchanged, AsideStep DEF Reconciling
  <1> QED BY <1>3, <1>4, <1>5

-----------------------------------------------------------------------------
(* The invariant and the promise.                                          *)

LEMMA InitInv == Init => Inv /\ Promise!Init
  <1> SUFFICES ASSUME Init PROVE Inv /\ Promise!Init
    OBVIOUS
  <1>1. PICK kind \in Kinds :
          topUp = [kind |-> kind, status |-> "NONE", credited |-> 0, refunded |-> 0,
                   disputed |-> 0, refundTarget |-> 0, disputeTarget |-> 0,
                   disputeState |-> "NONE", pending |-> FALSE,
                   lease |-> None, processing |-> None]
    BY DEF Init
  <1>2. topUp \in Rows
    <2>1. 0 \in 0..Amount
      BY AmountIsPositive
    <2> QED BY <1>1, <2>1 DEF Rows, Tokenholders
  <1>3. book \in Books /\ stripe \in Payments /\ webhook \in Webhooks /\ faults \in 0..MaxFaults
        /\ \A row \in posted : row.amount \in Nat
    BY BoundsAreCounts DEF Init, Books, Payments, Webhooks, Tokenholders
  <1>4. proc \in [Workers -> Locals] /\ \A w \in Workers : proc[w].pc = "idle"
    BY IdleLocal DEF Init
  <1>5. Typed
    BY <1>2, <1>3, <1>4, TypedParts
  <1>6. Recordings /\ Leases /\ InRounds
    BY <1>4 DEF Recordings, Leases, Leased, InRounds, Reconciling
  <1>7. book.credited = 0 /\ book.refunded = 0 /\ Held = 0 /\ book.released <= book.debited
    BY DEF Init, Held
  <1>8. \A key : ~HasKey(key)
    BY DEF Init, HasKey
  <1>9. Credited
    BY <1>1, <1>4, <1>7, <1>8 DEF Credited
  <1>10. Bounded
    <2>1. Share(topUp.refundTarget) \in 0..Amount
      BY <1>1, ShareGrows
    <2>2. Sound(Seen(topUp))
      BY <1>1 DEF Sound, Seen
    <2>3. 0 <= Share(topUp.refundTarget) /\ 0 + 0 <= 0 /\ ~(0 > 0)
      BY <2>1, AmountIsPositive
    <2> QED BY <1>7, <2>2, <2>3 DEF Bounded
  <1>11. Lowered /\ Columns
    BY <1>1, <1>7, <1>8 DEF Lowered, Columns, GivenBack
  <1>12. Promise!Init
    BY <1>7 DEF Promise!Init, Held
  <1> QED BY <1>5, <1>6, <1>9, <1>10, <1>11, <1>12 DEF Inv

LEMMA StepKeeps ==
    ASSUME Stalls = FALSE, Inv, [Next]_vars
    PROVE  Inv' /\ Promised
  <1>1. ASSUME NEW w \in Workers, GiveBackDispute(w) PROVE Inv' /\ Promised
    BY <1>1, GiveBackDisputeInv
  <1>2. ASSUME NEW w \in Workers, TakeBackRefund(w) PROVE Inv' /\ Promised
    BY <1>2, TakeBackRefundInv
  <1>3. ASSUME NEW w \in Workers, TakeBackDispute(w) PROVE Inv' /\ Promised
    BY <1>3, TakeBackDisputeInv
  <1>4. ASSUME NEW w \in Workers, CreditPayment(w) PROVE Inv' /\ Promised
    BY <1>4, CreditPaymentInv
  <1>5. book' = book => Promised
    BY DEF Promised
  <1>6. ASSUME NEW w \in Workers,
               RequestCheckout(w) \/ CreateCheckout(w) \/ TriggerAutoRecharge(w)
        PROVE  Inv' /\ book' = book
    BY <1>6, RequestCheckoutInv, CreateCheckoutInv, TriggerAutoRechargeInv
       DEF RequestCheckout, CreateCheckout, TriggerAutoRecharge
  <1>7. ASSUME NEW w \in Workers,
               ClaimConfirmation(w) \/ ConfirmPayment(w) \/ ConfirmationFails(w)
               \/ ApplyConfirmation(w)
        PROVE  Inv' /\ book' = book
    BY <1>7, ClaimConfirmationInv, ConfirmPaymentInv, ConfirmationFailsInv,
       ApplyConfirmationInv
       DEF ClaimConfirmation, ConfirmPayment, ConfirmationFails, ApplyConfirmation
  <1>8. ASSUME NEW w \in Workers, CompleteEvent(w) \/ FailPayment(w) \/ FailUnpayable(w)
        PROVE  Inv' /\ book' = book
    BY <1>8, CompleteEventInv, FailPaymentInv, FailUnpayableInv
       DEF CompleteEvent, FailPayment, FailUnpayable
  <1>9. ASSUME NEW w \in Workers, NEW e \in Events, ClaimEvent(w, e)
        PROVE  Inv' /\ book' = book
    BY <1>9, ClaimEventInv DEF ClaimEvent
  <1>10. ASSUME NEW w \in Workers, ReadForFulfillment(w) \/ MarkFulfilled(w)
         PROVE  Inv' /\ book' = book
    BY <1>10, ReadForFulfillmentInv, MarkFulfilledInv DEF ReadForFulfillment, MarkFulfilled
  <1>11. ASSUME NEW w \in Workers, RecordTarget(w) \/ SpotPending(w) \/ TakeLease(w)
         PROVE  Inv' /\ book' = book
    BY <1>11, RecordTargetInv, SpotPendingInv, TakeLeaseInv
       DEF RecordTarget, SpotPending, TakeLease
  <1>12. ASSUME NEW w \in Workers, ReadTargets(w) \/ CompleteReconciliation(w)
         PROVE  Inv' /\ book' = book
    BY <1>12, ReadTargetsInv, CompleteReconciliationInv DEF ReadTargets, CompleteReconciliation
  <1>13. ASSUME NEW w \in Workers, Throw(w) \/ Crash(w) PROVE Inv' /\ book' = book
    BY <1>13, FailuresInv DEF Throw, Crash
  <1>14. ASSUME SettlePayment \/ RefundCharge \/ MoveDispute PROVE Inv' /\ book' = book
    BY <1>14, StripeInv DEF SettlePayment, RefundCharge, MoveDispute
  <1>15. ASSUME UNCHANGED vars PROVE Inv' /\ book' = book
    <2>1. UNCHANGED <<topUp, posted, book, stripe, webhook, proc, faults>>
      BY <1>15 DEF vars
    <2>2. Typed'
      BY <2>1 DEF Inv, Typed, TypeOK
    <2> QED BY <2>1, <2>2, ElsewhereInv
  <1> QED BY <1>1, <1>2, <1>3, <1>4, <1>5, <1>6, <1>7, <1>8, <1>9, <1>10, <1>11, <1>12,
             <1>13, <1>14, <1>15 DEF Next, Work

\* The inductive invariant, for any number of workers, faults and attempts, as
\* long as no worker outlives its lease.
THEOREM TopUpInvariance == Stalls = FALSE => (Spec => []Inv)
  <1> SUFFICES ASSUME Stalls = FALSE PROVE Spec => []Inv
    OBVIOUS
  <1>1. Init => Inv
    BY InitInv
  <1>2. Inv /\ [Next]_vars => Inv'
    BY StepKeeps
  <1> QED BY <1>1, <1>2, PTL DEF Spec

\* Every state of a top-up is one that its rows, events and workers can be in.
THEOREM TopUpTypes == Stalls = FALSE => (Spec => []TypeOK)
  <1>1. Inv => TypeOK
    BY DEF Inv, Typed
  <1> QED BY <1>1, TopUpInvariance, PTL

\* Whenever no target is pending, the refunded and disputed columns that
\* completeFinancialReconciliation writes are what the ledger did.
THEOREM ColumnsFollow == Stalls = FALSE => (Spec => []ColumnsFollowLedger)
  <1>1. Inv => ColumnsFollowLedger
    <2> SUFFICES ASSUME Inv, ~topUp.pending
                 PROVE  [refunded |-> topUp.refunded, disputed |-> topUp.disputed]
                            = Progress(book)
      BY DEF ColumnsFollowLedger
    <2>1. topUp.refunded = book.refunded /\ topUp.disputed = Held
      BY DEF Inv, Columns
    <2> QED BY <2>1, HeldKnown
  <1> QED BY <1>1, TopUpInvariance, PTL

\* A top-up implements TopUpPromise: the wallet is credited once, and refunds
\* and the disputed part never take back more than the principal, whatever
\* the amounts, the order of the events and the failures of the workers.
THEOREM PromiseKept == Stalls = FALSE => (Spec => KeepsPromise)
  <1> SUFFICES ASSUME Stalls = FALSE PROVE Spec => KeepsPromise
    OBVIOUS
  <1>1. Init => Promise!Init
    BY InitInv
  <1>2. Inv /\ [Next]_vars =>
           [Promise!Credit \/ Promise!Refund \/ Promise!Hold \/ Promise!GiveBack]_(Promise!promise)
    BY StepKeeps DEF Promised, Promise!promise
  <1>3. Spec => []Inv
    BY TopUpInvariance
  <1> QED BY <1>1, <1>2, <1>3, PTL DEF Spec, KeepsPromise, Promise!Spec

=============================================================================
