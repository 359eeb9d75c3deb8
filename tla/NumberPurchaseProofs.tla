------------------------ MODULE NumberPurchaseProofs ------------------------
(***************************************************************************)
(* Proofs about NumberPurchase for any quotes of the number, any workers,  *)
(* any funds and any number of faults: each purchase implements the escrow *)
(* of PurchaseEscrow.                                                      *)
(***************************************************************************)
EXTENDS NumberPurchase, TLAPS

-----------------------------------------------------------------------------
(* The inductive invariant.                                                *)

Rows == [status : Active \cup {"NONE", "SUCCEEDED", "FAILED"},
         token : Workers \cup {None, Dead}, funded : BOOLEAN,
         attempt : {"none", "recent", "old"}, expired : BOOLEAN, retired : BOOLEAN]
Holds == {"NONE", "ACTIVE", "SETTLED", "RELEASED"}
Orders == {"none", "pending", "success", "failure", "released"}

\* Where a worker may be before it has claimed the row, and after.
Reserving == {"find-hold", "reserve", "held"}
Ordering == {"check-hold", "look-up", "attempt", "order", "doubt", "apply"}
Refunding == {"refund", "fail"}
Delivering == {"find-phone", "settle", "succeed"}
Claimed == Reserving \cup Ordering \cup Refunding \cup Delivering \cup {"persist"}

Entering == [pc : {"idle"}] \cup [pc : {"insert", "retire"}, q : Quotes, again : BOOLEAN]
            \cup [pc : {"claim"}, q : Quotes]
Seats == [pc : Claimed, q : Quotes, found : Holds \cup Orders \cup {"refused"},
          seen : Claimable, definitive : BOOLEAN]
Locals == Entering \cup Seats

\* Everything but the wallet, which no other part depends on.
Typed ==
    /\ None \notin Quotes
    /\ purchase \in [Quotes -> Rows]
    /\ hold \in [Quotes -> Holds]
    /\ phone \in Quotes \cup {None}
    /\ order \in [Quotes -> Orders]
    /\ proc \in [Workers -> Locals]

\* What the row of a purchase, its hold, its order and the number agree on.
RowAgrees(row, held, ordered, delivered) ==
    /\ row.status \notin Claimable => row.token = None
    /\ row.status \in {"NONE", "PENDING"} => ordered = "none"
    /\ row.attempt = "none" => ordered = "none"
    /\ row.status \in {"RESERVED", "PROVIDER_PENDING"} => ordered # "released"
    /\ row.status = "PROVIDER_PURCHASED" => ordered = "success"
    /\ row.status = "NUMBER_PERSISTED" => ordered \in {"success", "released"}
    /\ row.status = "FAILED" =>
           ordered \in {"none", "failure"} /\ (held = "ACTIVE" => row.retired)
    /\ held = "NONE" => ordered = "none"
    /\ held = "SETTLED" => ordered \in {"success", "released"}
    /\ held = "RELEASED" => ordered \in {"none", "failure"}
    /\ delivered =>
           /\ ordered = "success"
           /\ row.status \in {"NUMBER_PERSISTED", "SUCCEEDED", "REQUIRES_ATTENTION"}

Agree == \A q \in Quotes : RowAgrees(purchase[q], hold[q], order[q], phone = q)

\* A worker that has claimed a row still owns it, and what it found out about
\* the hold and the order is still true.
Standing(w, local, row, held, ordered) ==
    /\ row.token = w
    /\ local.pc \in Reserving => row.status = "PENDING"
    /\ local.pc = "held" => local.found = held /\ held # "NONE"
    /\ local.pc \in Ordering \cup Refunding => row.status \in {"RESERVED", "PROVIDER_PENDING"}
    /\ local.pc \in (Ordering \ {"check-hold"}) \cup {"refund"} => held = "ACTIVE"
    /\ local.pc \in {"attempt", "order"} => ordered = "none"
    /\ local.pc = "order" => row.attempt # "none"
    /\ local.pc \notin {"doubt"} \cup Refunding => ~local.definitive
    /\ local.pc = "doubt" /\ local.definitive => ordered = "none"
    /\ local.pc = "apply" =>
           local.found \in {"pending", "success", "failure"}
           /\ (local.found = "success" => ordered = "success")
           /\ (local.found = "failure" => ordered = "failure")
    /\ local.pc \in Refunding => ordered \in {"none", "failure"}
    /\ local.pc = "fail" => held = "RELEASED"
    /\ local.pc = "persist" => row.status = "PROVIDER_PURCHASED"
    /\ local.pc \in Delivering => row.status = "NUMBER_PERSISTED"

Stand == \A w \in Workers : proc[w].pc \in Claimed =>
             Standing(w, proc[w], purchase[proc[w].q], hold[proc[w].q], order[proc[w].q])

Inv == Typed /\ Agree /\ Stand
-----------------------------------------------------------------------------
(* One step concerns one purchase.                                         *)

Kept == [Escrow!Next]_<<Escrowed, Delivered>>

\* What the escrow allows to happen to the hold and the order of a quote.
Trade(held, ordered, heldNext, orderedNext) ==
    \/ heldNext = held /\ orderedNext = ordered
    \/ heldNext = held /\ ordered = "none" /\ orderedNext = "failure"
    \/ heldNext = held /\ ordered = "success" /\ orderedNext = "released"
    \/ held = "NONE" /\ heldNext = "ACTIVE" /\ orderedNext = ordered
    \/ /\ held = "ACTIVE" /\ heldNext = held
       /\ ordered \in {"none", "failure"} /\ orderedNext \in {"pending", "success"}
    \/ heldNext = held /\ ordered = "pending" /\ orderedNext \in {"success", "failure"}
    \/ /\ held = "ACTIVE" /\ heldNext = "SETTLED" /\ orderedNext = ordered
       /\ ordered \in {"success", "released"}
    \/ /\ held = "ACTIVE" /\ heldNext = "RELEASED" /\ orderedNext = ordered
       /\ ordered \in {"none", "failure"}

LEMMA TradeKept ==
    ASSUME Typed, NEW q \in Quotes, NEW h \in Holds, NEW o \in Orders,
           hold' = [hold EXCEPT ![q] = h], order' = [order EXCEPT ![q] = o],
           Trade(hold[q], order[q], h, o)
    PROVE  Kept
  <1> DEFINE m(held) == CASE held = "NONE"     -> "none"
                          [] held = "ACTIVE"   -> "held"
                          [] held = "SETTLED"  -> "paid"
                          [] held = "RELEASED" -> "back"
             g(ordered) == CASE ordered \in {"none", "failure"}     -> "none"
                             [] ordered = "pending"                 -> "ordered"
                             [] ordered \in {"success", "released"} -> "acquired"
  <1>1. Escrowed = [p \in Quotes |-> m(hold[p])] /\ Delivered = [p \in Quotes |-> g(order[p])]
    BY DEF Escrowed, Delivered
  <1>2. /\ Escrowed' = [p \in Quotes |-> m(hold'[p])]
        /\ Delivered' = [p \in Quotes |-> g(order'[p])]
    BY DEF Escrowed, Delivered
  <1>3. m("NONE") = "none" /\ m("ACTIVE") = "held" /\ m("SETTLED") = "paid"
        /\ m("RELEASED") = "back"
    OBVIOUS
  <1>4. g("none") = "none" /\ g("failure") = "none" /\ g("pending") = "ordered"
        /\ g("success") = "acquired" /\ g("released") = "acquired"
    OBVIOUS
  <1> HIDE DEF m, g
  <1>5. hold[q] \in Holds /\ order[q] \in Orders
    BY DEF Typed
  <1>6. /\ Escrowed' = [Escrowed EXCEPT ![q] = m(h)] /\ Escrowed[q] = m(hold[q])
        /\ Delivered' = [Delivered EXCEPT ![q] = g(o)] /\ Delivered[q] = g(order[q])
    BY <1>1, <1>2 DEF Typed
  <1>7. m(h) = m(hold[q]) => Escrowed' = Escrowed
    BY <1>1, <1>2 DEF Typed
  <1>8. g(o) = g(order[q]) => Delivered' = Delivered
    BY <1>1, <1>2 DEF Typed
  <1>9. \/ m(h) = m(hold[q]) /\ g(o) = g(order[q])
        \/ m(hold[q]) = "none" /\ m(h) = "held" /\ g(o) = g(order[q])
        \/ /\ m(hold[q]) = "held" /\ m(h) = m(hold[q])
           /\ g(order[q]) = "none" /\ g(o) \in {"ordered", "acquired"}
        \/ m(h) = m(hold[q]) /\ g(order[q]) = "ordered" /\ g(o) \in {"none", "acquired"}
        \/ /\ m(hold[q]) = "held" /\ m(h) = "paid" /\ g(o) = g(order[q])
           /\ g(order[q]) = "acquired"
        \/ /\ m(hold[q]) = "held" /\ m(h) = "back" /\ g(o) = g(order[q])
           /\ g(order[q]) = "none"
    BY <1>3, <1>4, <1>5 DEF Trade
  <1> QED BY <1>6, <1>7, <1>8, <1>9
          DEF Kept, Escrow!Next, Escrow!Hold, Escrow!Order, Escrow!Decide, Escrow!Pay,
              Escrow!GiveBack

\* The purchase q becomes row, its hold h and its order o.
Moves(q, row, h, o) ==
    /\ row \in Rows /\ h \in Holds /\ o \in Orders /\ phone' \in Quotes \cup {None}
    /\ purchase' = [purchase EXCEPT ![q] = row]
    /\ hold' = [hold EXCEPT ![q] = h]
    /\ order' = [order EXCEPT ![q] = o]
    /\ \A p \in Quotes \ {q} : (phone' = p) <=> (phone = p)
    /\ RowAgrees(row, h, o, phone' = q)
    /\ Trade(hold[q], order[q], h, o)

LEMMA MovesKeep ==
    ASSUME Inv, NEW q \in Quotes, NEW row, NEW h, NEW o, Moves(q, row, h, o),
           proc' \in [Workers -> Locals],
           \A v \in Workers : proc'[v].pc \in Claimed =>
               \/ proc'[v] = proc[v] /\ proc[v].q # q
               \/ proc'[v].q = q /\ Standing(v, proc'[v], row, h, o)
    PROVE  Inv' /\ Kept
  <1>1. Typed'
    BY DEF Inv, Typed, Moves
  <1>2. /\ purchase'[q] = row /\ hold'[q] = h /\ order'[q] = o
        /\ \A p \in Quotes \ {q} :
               purchase'[p] = purchase[p] /\ hold'[p] = hold[p] /\ order'[p] = order[p]
    BY DEF Inv, Typed, Moves
  <1>3. Agree'
    <2> SUFFICES ASSUME NEW p \in Quotes
                 PROVE  RowAgrees(purchase'[p], hold'[p], order'[p], phone' = p)
      BY DEF Agree
    <2>1. CASE p = q
      BY <1>2, <2>1 DEF Moves
    <2>2. CASE p # q
      <3>1. RowAgrees(purchase[p], hold[p], order[p], phone = p)
        BY DEF Inv, Agree
      <3>2. (phone' = p) <=> (phone = p)
        BY <2>2 DEF Moves
      <3> QED BY <1>2, <2>2, <3>1, <3>2 DEF RowAgrees
    <2> QED BY <2>1, <2>2
  <1>4. Stand'
    <2> SUFFICES ASSUME NEW v \in Workers, proc'[v].pc \in Claimed
                 PROVE  Standing(v, proc'[v], purchase'[proc'[v].q], hold'[proc'[v].q],
                                 order'[proc'[v].q])
      BY DEF Stand
    <2>1. CASE proc'[v] = proc[v] /\ proc[v].q # q
      <3>1. proc[v].q \in Quotes
        BY <2>1 DEF Inv, Typed, Locals, Entering, Seats, Claimed, Reserving, Ordering,
                    Refunding, Delivering
      <3> QED BY <1>2, <2>1, <3>1 DEF Inv, Stand
    <2>2. CASE proc'[v].q = q /\ Standing(v, proc'[v], row, h, o)
      BY <1>2, <2>2
    <2> QED BY <2>1, <2>2
  <1>5. Kept
    BY TradeKept DEF Inv, Moves
  <1> QED BY <1>1, <1>3, <1>4, <1>5 DEF Inv

-----------------------------------------------------------------------------
(* What a worker does to the purchase it works on.                         *)

LEMMA Kinds ==
    ASSUME Inv, NEW w \in Workers
    PROVE  /\ proc[w] \in Locals
           /\ proc[w].pc # "idle" => proc[w].q \in Quotes
           /\ proc[w].pc \in Claimed => proc[w] \in Seats
           /\ proc[w].pc \in {"insert", "retire"} => proc[w].again \in BOOLEAN
  BY DEF Inv, Typed, Locals, Entering, Seats, Claimed, Reserving, Ordering, Refunding, Delivering

LEMMA Here ==
    ASSUME Inv, NEW q \in Quotes
    PROVE  /\ purchase[q] \in Rows /\ hold[q] \in Holds /\ order[q] \in Orders
           /\ phone \in Quotes \cup {None}
           /\ RowAgrees(purchase[q], hold[q], order[q], phone = q)
  BY DEF Inv, Typed, Agree

LEMMA Standpoint ==
    ASSUME Inv, NEW w \in Workers, proc[w].pc \in Claimed
    PROVE  /\ proc[w] \in Seats /\ proc[w].q \in Quotes
           /\ Standing(w, proc[w], purchase[proc[w].q], hold[proc[w].q], order[proc[w].q])
  BY Kinds DEF Inv, Stand, Seats

\* Nobody stands on a row that belongs to nobody alive, or to somebody else.
LEMMA Elsewhere ==
    ASSUME Inv, NEW w \in Workers, NEW q \in Quotes, purchase[q].token \notin Workers \ {w}
    PROVE  \A v \in Workers \ {w} : proc[v].pc \in Claimed => proc[v].q # q
  BY DEF Inv, Stand, Standing

\* A worker steps from one place on its row to another.
LEMMA WorkerMoves ==
    ASSUME Inv, NEW w \in Workers, NEW q \in Quotes, purchase[q].token \notin Workers \ {w},
           NEW row, NEW h, NEW o, Moves(q, row, h, o),
           NEW local \in Seats, local.q = q, Goto(w, local),
           Standing(w, local, row, h, o)
    PROVE  Inv' /\ Kept
  <1>1. /\ proc' \in [Workers -> Locals] /\ proc'[w] = local
        /\ \A v \in Workers \ {w} : proc'[v] = proc[v]
    BY DEF Inv, Typed, Goto, Locals
  <1>2. ASSUME NEW v \in Workers, proc'[v].pc \in Claimed
        PROVE  \/ proc'[v] = proc[v] /\ proc[v].q # q
               \/ proc'[v].q = q /\ Standing(v, proc'[v], row, h, o)
    <2>1. CASE v = w
      BY <1>1, <2>1
    <2>2. CASE v # w
      BY <1>1, <1>2, <2>2, Elsewhere
    <2> QED BY <2>1, <2>2
  <1> QED BY <1>1, <1>2, MovesKeep

\* It leaves the row.
LEMMA WorkerLeaves ==
    ASSUME Inv, NEW w \in Workers, NEW q \in Quotes, purchase[q].token \notin Workers \ {w},
           NEW row, NEW h, NEW o, Moves(q, row, h, o),
           NEW local \in Entering, Goto(w, local)
    PROVE  Inv' /\ Kept
  <1>1. /\ proc' \in [Workers -> Locals] /\ proc'[w].pc \notin Claimed
        /\ \A v \in Workers \ {w} : proc'[v] = proc[v]
    BY DEF Inv, Typed, Goto, Locals, Entering, Claimed, Reserving, Ordering, Refunding,
           Delivering
  <1>2. ASSUME NEW v \in Workers, proc'[v].pc \in Claimed
        PROVE  proc'[v] = proc[v] /\ proc[v].q # q
    BY <1>1, <1>2, Elsewhere
  <1> QED BY <1>1, <1>2, MovesKeep

LEMMA IdleEnters == Idle \in Entering
  BY DEF Idle, Entering

\* The forms a step takes: nothing changes, the row alone changes.
LEMMA NothingMoves ==
    ASSUME Inv, NEW q \in Quotes, UNCHANGED <<purchase, hold, phone, order>>
    PROVE  Moves(q, purchase[q], hold[q], order[q])
  <1>1. /\ purchase = [purchase EXCEPT ![q] = purchase[q]]
        /\ hold = [hold EXCEPT ![q] = hold[q]] /\ order = [order EXCEPT ![q] = order[q]]
    BY DEF Inv, Typed
  <1> QED BY <1>1, Here DEF Moves, Trade

LEMMA RowMoves ==
    ASSUME Inv, NEW q \in Quotes, NEW row \in Rows,
           purchase' = [purchase EXCEPT ![q] = row], UNCHANGED <<hold, phone, order>>,
           RowAgrees(row, hold[q], order[q], phone = q)
    PROVE  Moves(q, row, hold[q], order[q])
  <1>1. hold = [hold EXCEPT ![q] = hold[q]] /\ order = [order EXCEPT ![q] = order[q]]
    BY DEF Inv, Typed
  <1> QED BY <1>1, Here DEF Moves, Trade

\* A worker that does not touch any row and claims none.
LEMMA WorkerElsewhere ==
    ASSUME Inv, NEW w \in Workers, NEW local \in Entering, Goto(w, local),
           UNCHANGED <<purchase, hold, phone, order>>
    PROVE  Inv' /\ Kept
  <1>1. Typed' /\ Agree' /\ Kept
    BY DEF Inv, Typed, Agree, Kept, Escrowed, Delivered, Goto, Locals
  <1>2. /\ proc'[w].pc \notin Claimed
        /\ \A v \in Workers \ {w} : proc'[v] = proc[v]
    BY DEF Inv, Typed, Goto, Entering, Claimed, Reserving, Ordering, Refunding, Delivering
  <1>3. Stand'
    BY <1>2 DEF Inv, Stand
  <1> QED BY <1>1, <1>3 DEF Inv

\* Moving on, giving up, and coming to an end.
LEMMA StepAhead ==
    ASSUME Inv, NEW w \in Workers, proc[w].pc \in Claimed,
           NEW local \in Seats, local.q = proc[w].q, Goto(w, local),
           UNCHANGED <<purchase, hold, phone, order>>,
           Standing(w, local, purchase[local.q], hold[local.q], order[local.q])
    PROVE  Inv' /\ Kept
  BY Standpoint, NothingMoves, WorkerMoves DEF Standing

LEMMA Yields ==
    ASSUME Inv, NEW w \in Workers, proc[w].pc \in Claimed, GiveUpForNow(w, proc[w].q),
           UNCHANGED <<hold, phone, order>>
    PROVE  Inv' /\ Kept
  <1> DEFINE q == proc[w].q
             row == [purchase[q] EXCEPT !.token = None]
  <1>1. q \in Quotes /\ purchase[q].token = w /\ purchase[q].status \in Claimable
    BY Standpoint, Here, TokensDiffer DEF Standing, RowAgrees
  <1>2. purchase' = [purchase EXCEPT ![q] = row] /\ Goto(w, Idle)
    BY <1>1 DEF GiveUpForNow, Owned, Stop
  <1>3. row \in Rows /\ RowAgrees(row, hold[q], order[q], phone = q)
    BY <1>1, Here DEF Rows, RowAgrees
  <1>4. Moves(q, row, hold[q], order[q])
    BY <1>1, <1>2, <1>3, RowMoves
  <1> QED BY <1>1, <1>2, <1>4, IdleEnters, WorkerLeaves

LEMMA Finishes ==
    ASSUME Inv, NEW w \in Workers, proc[w].pc \in Claimed,
           NEW status \in {"SUCCEEDED", "FAILED", "REQUIRES_ATTENTION"},
           Finish(w, proc[w].q, status), UNCHANGED <<hold, phone, order>>,
           status = "FAILED" =>
               /\ hold[proc[w].q] # "ACTIVE" /\ order[proc[w].q] \in {"none", "failure"}
               /\ phone # proc[w].q
    PROVE  Inv' /\ Kept
  <1> DEFINE q == proc[w].q
             row == [purchase[q] EXCEPT !.status = status, !.token = None]
  <1>1. q \in Quotes /\ purchase[q].token = w
    BY Standpoint DEF Standing
  <1>2. purchase' = [purchase EXCEPT ![q] = row] /\ Goto(w, Idle)
    BY <1>1 DEF Finish, Owned, Stop
  <1>3. row \in Rows /\ row.status = status /\ row.token = None
        /\ row.attempt = purchase[q].attempt
    <2>1. purchase[q] \in Rows /\ status \in Active \cup {"NONE", "SUCCEEDED", "FAILED"}
      BY <1>1, Here DEF Active
    <2> QED BY <2>1 DEF Rows
  <1>4. RowAgrees(row, hold[q], order[q], phone = q)
    BY <1>1, <1>3, Here DEF RowAgrees, Claimable
  <1>5. Moves(q, row, hold[q], order[q])
    BY <1>1, <1>2, <1>3, <1>4, RowMoves
  <1> QED BY <1>1, <1>2, <1>5, IdleEnters, WorkerLeaves

-----------------------------------------------------------------------------
(* The actions: entering.                                                  *)

LEMMA SeatAt ==
    ASSUME NEW seat \in Seats, NEW pc \in Claimed
    PROVE  LET local == [seat EXCEPT !.pc = pc]
           IN  /\ local \in Seats /\ local.pc = pc /\ local.q = seat.q
               /\ local.found = seat.found /\ local.seen = seat.seen
               /\ local.definitive = seat.definitive
  BY DEF Seats

\* A worker keeps what it knows and goes to another place.
LEMMA StepsTo ==
    ASSUME Inv, NEW w \in Workers, proc[w].pc \in Claimed, NEW pc \in Claimed, Step(w, pc),
           UNCHANGED <<purchase, hold, phone, order>>,
           NEW local, local = [proc[w] EXCEPT !.pc = pc],
           Standing(w, local, purchase[proc[w].q], hold[proc[w].q], order[proc[w].q])
    PROVE  Inv' /\ Kept
  <1>1. local \in Seats /\ local.q = proc[w].q
    BY Standpoint, SeatAt
  <1> QED BY <1>1, StepAhead DEF Step

LEMMA RequestPurchaseKeeps ==
    ASSUME Inv, NEW w \in Workers, NEW q \in Quotes, RequestPurchase(w, q) PROVE Inv' /\ Kept
  <1>1. [pc |-> "insert", q |-> q, again |-> FALSE] \in Entering
    BY DEF Entering
  <1> QED BY <1>1, WorkerElsewhere DEF RequestPurchase

LEMMA ResumePurchaseKeeps ==
    ASSUME Inv, NEW w \in Workers, NEW q \in Quotes, ResumePurchase(w, q) PROVE Inv' /\ Kept
  <1>1. [pc |-> "claim", q |-> q] \in Entering
    BY DEF Entering
  <1> QED BY <1>1, WorkerElsewhere DEF ResumePurchase

LEMMA InsertPurchaseKeeps ==
    ASSUME Inv, NEW w \in Workers, InsertPurchase(w) PROVE Inv' /\ Kept
  <1> DEFINE q == proc[w].q
             claim == [pc |-> "claim", q |-> q]
             row == [purchase[q] EXCEPT !.status = "PENDING"]
  <1>1. /\ q \in Quotes /\ claim \in Entering /\ proc[w].pc = "insert"
        /\ proc[w].again \in BOOLEAN
    BY Kinds DEF InsertPurchase, At, Entering
  <1>2. UNCHANGED <<hold, phone, order>>
    BY DEF InsertPurchase
  <1>3. CASE purchase' = [purchase EXCEPT ![q].status = "PENDING"] /\ Goto(w, claim)
             /\ purchase[q].status = "NONE"
    <2>1. purchase[q] \in Rows /\ purchase[q].token = None
      BY <1>1, <1>3, Here DEF RowAgrees, Claimable
    <2>2. row \in Rows /\ row.status = "PENDING" /\ row.token = None
          /\ row.attempt = purchase[q].attempt
      BY <2>1 DEF Rows, Active, Claimable
    <2>3. RowAgrees(row, hold[q], order[q], phone = q)
      BY <1>1, <1>3, <2>2, Here DEF RowAgrees, Claimable
    <2>4. purchase' = [purchase EXCEPT ![q] = row]
      BY <1>3
    <2>5. Moves(q, row, hold[q], order[q])
      BY <1>1, <1>2, <2>2, <2>3, <2>4, RowMoves
    <2> QED BY <1>1, <1>3, <2>1, <2>5, TokensDiffer, WorkerLeaves
  <1>4. CASE purchase' = purchase /\ Goto(w, claim)
    BY <1>1, <1>2, <1>4, WorkerElsewhere
  <1>5. CASE purchase' = purchase /\ Step(w, "retire")
    <2> DEFINE local == [proc[w] EXCEPT !.pc = "retire"]
    <2>1. proc[w] \in [pc : {"insert", "retire"}, q : Quotes, again : BOOLEAN]
      BY <1>1, Kinds DEF Locals, Entering, Seats, Claimed, Reserving, Ordering, Refunding,
                         Delivering
    <2>2. local \in Entering
      BY <2>1 DEF Entering
    <2> QED BY <1>1, <1>2, <1>5, <2>2, WorkerElsewhere DEF Step
  <1> QED BY <1>1, <1>3, <1>4, <1>5 DEF InsertPurchase

LEMMA RetireExpiredKeeps ==
    ASSUME Inv, NEW w \in Workers, RetireExpired(w) PROVE Inv' /\ Kept
  <1> DEFINE retired(p) == [purchase[p] EXCEPT !.status = "FAILED", !.token = None,
                                               !.retired = TRUE]
  <1>1. /\ UNCHANGED <<hold, phone, order>>
        /\ proc[w].pc = "retire" /\ proc[w].q \in Quotes
    BY Kinds DEF RetireExpired, At
  <1>2. PICK local \in Entering : Goto(w, local)
    <2>1. proc[w] \in [pc : {"insert", "retire"}, q : Quotes, again : BOOLEAN]
      BY <1>1, Kinds DEF Locals, Entering, Seats, Claimed, Reserving, Ordering, Refunding,
                         Delivering
    <2>2. [proc[w] EXCEPT !.pc = "insert", !.again = TRUE] \in Entering
      BY <2>1 DEF Entering
    <2> QED BY <2>2, IdleEnters DEF RetireExpired, Stop
  <1>3. /\ DOMAIN purchase' = Quotes /\ purchase' = [p \in Quotes |-> purchase'[p]]
        /\ \A p \in Quotes :
              \/ purchase'[p] = purchase[p]
              \/ /\ purchase'[p] = retired(p) /\ purchase[p].status = "PENDING"
                 /\ purchase[p].token \in {None, Dead}
    BY DEF RetireExpired, Takeable
  <1>4. ASSUME NEW p \in Quotes, purchase'[p] = retired(p), purchase[p].status = "PENDING"
        PROVE  /\ purchase'[p] \in Rows
               /\ RowAgrees(purchase'[p], hold[p], order[p], phone = p)
    <2>1. /\ purchase'[p] \in Rows /\ purchase'[p].status = "FAILED"
          /\ purchase'[p].token = None /\ purchase'[p].retired
          /\ purchase'[p].attempt = purchase[p].attempt
      BY <1>4, Here DEF Rows
    <2> QED BY <1>4, <2>1, Here DEF RowAgrees
  <1>5. Typed' /\ Agree'
    <2>1. \A p \in Quotes : purchase'[p] \in Rows
                            /\ RowAgrees(purchase'[p], hold[p], order[p], phone = p)
      BY <1>3, <1>4, Here
    <2> QED BY <1>1, <1>2, <1>3, <2>1 DEF Inv, Typed, Agree, Goto, Locals
  <1>6. Stand'
    <2> SUFFICES ASSUME NEW v \in Workers, proc'[v].pc \in Claimed
                 PROVE  Standing(v, proc'[v], purchase'[proc'[v].q], hold'[proc'[v].q],
                                 order'[proc'[v].q])
      BY DEF Stand
    <2>1. v # w /\ proc'[v] = proc[v]
      BY <1>2 DEF Inv, Typed, Goto, Entering, Claimed, Reserving, Ordering, Refunding,
                  Delivering
    <2>2. /\ proc[v].q \in Quotes /\ purchase[proc[v].q].token = v
          /\ Standing(v, proc[v], purchase[proc[v].q], hold[proc[v].q], order[proc[v].q])
      BY <2>1, Standpoint DEF Standing
    <2>3. purchase'[proc[v].q] = purchase[proc[v].q]
      BY <1>3, <2>2, TokensDiffer
    <2> QED BY <1>1, <2>1, <2>2, <2>3
  <1>7. Kept
    BY <1>1 DEF Kept, Escrowed, Delivered
  <1> QED BY <1>5, <1>6, <1>7 DEF Inv

LEMMA ClaimKeeps ==
    ASSUME Inv, NEW w \in Workers, Claim(w) PROVE Inv' /\ Kept
  <1> DEFINE q == proc[w].q
             row == [purchase[q] EXCEPT !.token = w]
             seen == purchase[q].status
             local == [pc |-> FirstStep(seen), q |-> q, found |-> "NONE",
                       seen |-> seen, definitive |-> FALSE]
  <1>1. q \in Quotes /\ UNCHANGED <<hold, phone, order>>
    BY Kinds DEF Claim, At
  <1>2. CASE seen \in Claimable /\ Takeable(purchase[q].token)
             /\ purchase' = [purchase EXCEPT ![q].token = w] /\ Goto(w, local)
    <2>1. /\ seen \in {"PENDING"} => FirstStep(seen) = "find-hold"
          /\ seen \in {"RESERVED", "PROVIDER_PENDING"} => FirstStep(seen) = "check-hold"
          /\ seen = "PROVIDER_PURCHASED" => FirstStep(seen) = "persist"
          /\ seen = "NUMBER_PERSISTED" => FirstStep(seen) = "find-phone"
      BY DEF FirstStep
    <2>2. FirstStep(seen) \in {"find-hold", "check-hold", "persist", "find-phone"}
      BY <1>2, <2>1 DEF Claimable
    <2>3. local \in Seats /\ local.q = q /\ local.pc = FirstStep(seen) /\ ~local.definitive
      BY <1>1, <1>2, <2>2
         DEF Seats, Claimed, Reserving, Ordering, Delivering, Holds
    <2>4. /\ row \in Rows /\ row.token = w /\ row.status = seen
          /\ row.attempt = purchase[q].attempt /\ row.retired = purchase[q].retired
      BY <1>1, Here DEF Rows
    <2>5. RowAgrees(row, hold[q], order[q], phone = q)
      BY <1>1, <1>2, <2>4, Here DEF RowAgrees, Claimable
    <2>6. Moves(q, row, hold[q], order[q])
      BY <1>1, <1>2, <2>4, <2>5, RowMoves
    <2> HIDE DEF local, row
    <2>7. Standing(w, local, row, hold[q], order[q])
      BY <1>2, <2>1, <2>3, <2>4
         DEF Standing, Claimable, Reserving, Ordering, Refunding, Delivering
    <2>8. purchase[q].token \notin Workers \ {w}
      BY <1>2, TokensDiffer DEF Takeable
    <2> QED BY <1>1, <1>2, <2>3, <2>6, <2>7, <2>8, WorkerMoves
  <1>3. CASE purchase' = purchase /\ Stop(w)
    BY <1>1, <1>3, IdleEnters, WorkerElsewhere DEF Stop
  <1> QED BY <1>2, <1>3 DEF Claim

-----------------------------------------------------------------------------
(* The actions: the hold.                                                  *)

LEMMA FindHoldKeeps ==
    ASSUME Inv, NEW w \in Workers, FindHold(w) PROVE Inv' /\ Kept
  <1> DEFINE q == proc[w].q
             pc == IF hold[q] = "NONE" THEN "reserve" ELSE "held"
             local == [proc[w] EXCEPT !.found = hold[q], !.pc = pc]
  <1>1. proc[w].pc = "find-hold" /\ proc[w].pc \in Claimed /\ proc[w].pc \in Reserving
    BY DEF FindHold, At, Claimed, Reserving
  <1>2. /\ q \in Quotes /\ proc[w] \in Seats /\ purchase[q].token = w
        /\ purchase[q].status = "PENDING" /\ ~proc[w].definitive
    BY <1>1, Standpoint DEF Standing, Refunding, Reserving
  <1>3. CASE hold[q] = "NONE" /\ Finish(w, q, "FAILED")
    <2>1. order[q] = "none" /\ phone # q
      BY <1>2, <1>3, Here DEF RowAgrees
    <2> QED BY <1>1, <1>3, <2>1, Finishes DEF FindHold
  <1>4. CASE Goto(w, local) /\ purchase' = purchase
    <2>1. /\ local \in Seats /\ local.pc = pc /\ local.q = q /\ local.found = hold[q]
          /\ ~local.definitive
      BY <1>2, Here DEF Seats, Claimed, Reserving
    <2> HIDE DEF local
    <2>2. Standing(w, local, purchase[q], hold[q], order[q])
      BY <1>2, <2>1 DEF Standing, Reserving, Ordering, Refunding, Delivering
    <2> QED BY <1>1, <1>4, <2>1, <2>2, StepAhead DEF FindHold
  <1> QED BY <1>3, <1>4 DEF FindHold

LEMMA ReserveKeeps ==
    ASSUME Inv, NEW w \in Workers, Reserve(w) PROVE Inv' /\ Kept
  <1> DEFINE q == proc[w].q
             h == IF hold[q] = "NONE" THEN "ACTIVE" ELSE hold[q]
             local == [proc[w] EXCEPT !.pc = "held", !.found = h]
  <1>1. proc[w].pc = "reserve" /\ proc[w].pc \in Claimed /\ proc[w].pc \in Reserving
    BY DEF Reserve, At, Claimed, Reserving
  <1>2. /\ q \in Quotes /\ proc[w] \in Seats /\ purchase[q].token = w
        /\ purchase[q].status = "PENDING" /\ ~proc[w].definitive
    BY <1>1, Standpoint DEF Standing, Refunding, Reserving
  <1>3. CASE GiveUpForNow(w, q) /\ UNCHANGED hold
    BY <1>1, <1>3, Yields DEF Reserve
  <1>4. CASE /\ hold' = [hold EXCEPT ![q] = h] /\ purchase' = purchase
             /\ Goto(w, [proc[w] EXCEPT !.pc = "held", !.found = hold'[q]])
    <2>1. h \in Holds /\ h # "NONE" /\ hold'[q] = h
      BY <1>2, <1>4, Here DEF Inv, Typed, Holds
    <2>2. /\ local \in Seats /\ local.pc = "held" /\ local.q = q /\ local.found = h
          /\ ~local.definitive
      BY <1>2, <2>1 DEF Seats, Claimed, Reserving
    <2>3. Goto(w, local)
      BY <1>4, <2>1
    <2> HIDE DEF local
    <2>4. Standing(w, local, purchase[q], h, order[q])
      BY <1>2, <2>1, <2>2 DEF Standing, Reserving, Ordering, Refunding, Delivering
    <2>5. Moves(q, purchase[q], h, order[q])
      <3>1. /\ purchase = [purchase EXCEPT ![q] = purchase[q]]
            /\ order = [order EXCEPT ![q] = order[q]]
        BY DEF Inv, Typed
      <3>2. RowAgrees(purchase[q], h, order[q], phone = q)
        BY <1>2, Here DEF RowAgrees
      <3> QED BY <1>2, <1>4, <2>1, <3>1, <3>2, Here DEF Moves, Trade, Reserve
    <2> QED BY <1>2, <2>2, <2>3, <2>4, <2>5, WorkerMoves
  <1> QED BY <1>3, <1>4 DEF Reserve

LEMMA RecordReservationKeeps ==
    ASSUME Inv, NEW w \in Workers, RecordReservation(w) PROVE Inv' /\ Kept
  <1> DEFINE q == proc[w].q
             row == [purchase[q] EXCEPT !.status = "RESERVED", !.funded = TRUE]
             local == [proc[w] EXCEPT !.pc = "check-hold", !.seen = "RESERVED"]
  <1>1. /\ proc[w].pc = "held" /\ proc[w].pc \in Claimed /\ proc[w].pc \in Reserving
        /\ UNCHANGED <<hold, phone, order>>
    BY DEF RecordReservation, At, Claimed, Reserving
  <1>2. /\ q \in Quotes /\ proc[w] \in Seats /\ purchase[q].token = w
        /\ purchase[q].status = "PENDING" /\ ~proc[w].definitive
        /\ proc[w].found = hold[q]
    BY <1>1, Standpoint DEF Standing, Refunding, Reserving
  <1>3. order[q] = "none" /\ phone # q
    BY <1>2, Here DEF RowAgrees
  <1>4. CASE hold[q] = "RELEASED" /\ Finish(w, q, "FAILED")
    BY <1>1, <1>3, <1>4, Finishes
  <1>5. CASE Finish(w, q, "SUCCEEDED") \/ Finish(w, q, "REQUIRES_ATTENTION")
    BY <1>1, <1>5, Finishes
  <1>6. CASE /\ hold[q] = "ACTIVE" /\ Goto(w, local)
             /\ Owned(w, q, [purchase[q] EXCEPT !.status = "RESERVED", !.funded = TRUE])
    <2>1. purchase' = [purchase EXCEPT ![q] = row]
      BY <1>2, <1>6 DEF Owned
    <2>2. /\ row \in Rows /\ row.status = "RESERVED" /\ row.token = w
          /\ row.attempt = purchase[q].attempt
      <3>1. purchase[q] \in Rows /\ "RESERVED" \in Active
        BY <1>2, Here DEF Active, Claimable
      <3> QED BY <1>2, <3>1 DEF Rows
    <2>3. RowAgrees(row, hold[q], order[q], phone = q)
      BY <1>2, <1>3, <2>2, Here DEF RowAgrees, Claimable
    <2>4. Moves(q, row, hold[q], order[q])
      BY <1>1, <1>2, <2>1, <2>2, <2>3, RowMoves
    <2>5. /\ local \in Seats /\ local.pc = "check-hold" /\ local.q = q /\ ~local.definitive
      BY <1>2 DEF Seats, Claimed, Ordering, Claimable
    <2> HIDE DEF local, row
    <2>6. Standing(w, local, row, hold[q], order[q])
      BY <1>6, <2>2, <2>5 DEF Standing, Reserving, Ordering, Refunding, Delivering
    <2> QED BY <1>2, <1>6, <2>4, <2>5, <2>6, WorkerMoves
  <1> QED BY <1>2, <1>4, <1>5, <1>6 DEF RecordReservation

LEMMA CheckHoldKeeps ==
    ASSUME Inv, NEW w \in Workers, CheckHold(w) PROVE Inv' /\ Kept
  <1> DEFINE q == proc[w].q
             look == purchase[q].attempt # "none" \/ proc[w].seen = "PROVIDER_PENDING"
             pc == IF look THEN "look-up" ELSE "attempt"
             local == [proc[w] EXCEPT !.pc = pc]
  <1>1. /\ proc[w].pc = "check-hold" /\ proc[w].pc \in Claimed /\ proc[w].pc \in Ordering
        /\ UNCHANGED <<hold, phone, order>>
    BY DEF CheckHold, At, Claimed, Ordering
  <1>2. /\ q \in Quotes /\ proc[w] \in Seats /\ purchase[q].token = w
        /\ purchase[q].status \in {"RESERVED", "PROVIDER_PENDING"} /\ ~proc[w].definitive
    BY <1>1, Standpoint DEF Standing, Refunding, Ordering
  <1>3. CASE hold[q] = "ACTIVE" /\ Step(w, pc) /\ purchase' = purchase
    <2>1. pc \in Claimed /\ local = [proc[w] EXCEPT !.pc = pc]
      BY DEF Claimed, Ordering
    <2>2. local.pc = pc /\ ~local.definitive
      BY <1>2, <2>1, SeatAt
    <2>3. pc = "attempt" => order[q] = "none"
      BY <1>2, Here DEF RowAgrees
    <2> HIDE DEF local
    <2>4. Standing(w, local, purchase[q], hold[q], order[q])
      BY <1>2, <1>3, <2>2, <2>3 DEF Standing, Reserving, Ordering, Refunding, Delivering
    <2> QED BY <1>1, <1>3, <2>1, <2>4, StepsTo
  <1>4. CASE hold[q] = "RELEASED" /\ Finish(w, q, "FAILED")
    <2>1. order[q] \in {"none", "failure"} /\ phone # q
      BY <1>2, <1>4, Here DEF RowAgrees
    <2> QED BY <1>1, <1>4, <2>1, Finishes
  <1>5. CASE Finish(w, q, "REQUIRES_ATTENTION")
    BY <1>1, <1>5, Finishes
  <1>6. CASE hold[q] = "ACTIVE"
    BY <1>3, <1>6 DEF CheckHold
  <1>7. CASE hold[q] = "RELEASED"
    BY <1>4, <1>7 DEF CheckHold
  <1>8. CASE hold[q] \notin {"ACTIVE", "RELEASED"}
    BY <1>5, <1>8 DEF CheckHold
  <1> QED BY <1>6, <1>7, <1>8

-----------------------------------------------------------------------------
(* The actions: the provider.                                              *)

LEMMA ShownIsOrdered ==
    ASSUME Inv, NEW q \in Quotes, NEW result \in Shown(q), result # "none"
    PROVE  result = order[q] /\ result \in Orders
  BY Here DEF Shown

\* The answer to a lookup or to an order is taken along to be applied.
LEMMA TakesAlong ==
    ASSUME Inv, NEW w \in Workers, proc[w].pc \in Ordering \ {"check-hold"}, NEW q, q = proc[w].q,
           NEW result \in {"pending", "success", "failure"}, result = order[q],
           ~proc[w].definitive,
           Goto(w, [proc[w] EXCEPT !.pc = "apply", !.found = result]),
           UNCHANGED <<purchase, hold, phone, order>>
    PROVE  Inv' /\ Kept
  <1> DEFINE local == [proc[w] EXCEPT !.pc = "apply", !.found = result]
  <1>1. proc[w].pc \in Claimed /\ proc[w].pc \in Ordering /\ proc[w] \in Seats
    BY Standpoint DEF Claimed
  <1>2. /\ local \in Seats /\ local.pc = "apply" /\ local.q = q /\ local.found = result
        /\ ~local.definitive
    BY <1>1 DEF Seats, Claimed, Ordering, Orders
  <1>3. /\ purchase[q].token = w /\ hold[q] = "ACTIVE"
        /\ purchase[q].status \in {"RESERVED", "PROVIDER_PENDING"}
    BY <1>1, Standpoint DEF Standing
  <1> HIDE DEF local
  <1>4. Standing(w, local, purchase[q], hold[q], order[q])
    BY <1>2, <1>3 DEF Standing, Reserving, Ordering, Refunding, Delivering
  <1>5. Goto(w, local)
    BY DEF local
  <1> QED BY <1>1, <1>2, <1>4, <1>5, StepAhead

LEMMA LookUpAttemptKeeps ==
    ASSUME Inv, NEW w \in Workers, LookUpAttempt(w) PROVE Inv' /\ Kept
  <1> DEFINE q == proc[w].q
             local == [proc[w] EXCEPT !.pc = "attempt"]
  <1>1. /\ proc[w].pc = "look-up" /\ proc[w].pc \in Claimed
        /\ proc[w].pc \in Ordering \ {"check-hold"}
        /\ UNCHANGED <<hold, phone, order>>
    BY DEF LookUpAttempt, At, Claimed, Ordering
  <1>2. /\ q \in Quotes /\ proc[w] \in Seats /\ purchase[q].token = w /\ hold[q] = "ACTIVE"
        /\ purchase[q].status \in {"RESERVED", "PROVIDER_PENDING"} /\ ~proc[w].definitive
    BY <1>1, Standpoint DEF Standing, Refunding, Ordering
  <1>3. ASSUME NEW result \in Shown(q), result # "none", purchase' = purchase,
               Goto(w, [proc[w] EXCEPT !.pc = "apply", !.found = result])
        PROVE  Inv' /\ Kept
    <2>1. result = order[q] /\ result \in {"pending", "success", "failure"}
      BY <1>2, <1>3, ShownIsOrdered, Here DEF RowAgrees, Orders
    <2> QED BY <1>1, <1>2, <1>3, <2>1, TakesAlong
  <1>4. CASE GiveUpForNow(w, q)
    BY <1>1, <1>4, Yields
  <1>5. CASE /\ "none" \in Shown(q) /\ purchase[q].attempt # "recent"
             /\ Step(w, "attempt") /\ purchase' = purchase
    <2>1. "attempt" \in Claimed /\ local = [proc[w] EXCEPT !.pc = "attempt"]
      BY DEF Claimed, Ordering
    <2>2. local.pc = "attempt" /\ ~local.definitive
      BY <1>2, <2>1, SeatAt
    <2>3. order[q] = "none"
      BY <1>5 DEF Shown
    <2> HIDE DEF local
    <2>4. Standing(w, local, purchase[q], hold[q], order[q])
      BY <1>2, <2>2, <2>3 DEF Standing, Reserving, Ordering, Refunding, Delivering
    <2> QED BY <1>1, <1>5, <2>1, <2>4, StepsTo
  <1> QED BY <1>3, <1>4, <1>5 DEF LookUpAttempt

LEMMA RecordProviderAttemptKeeps ==
    ASSUME Inv, NEW w \in Workers, RecordProviderAttempt(w) PROVE Inv' /\ Kept
  <1> DEFINE q == proc[w].q
             row == [purchase[q] EXCEPT !.attempt = "recent"]
             local == [proc[w] EXCEPT !.pc = "order"]
  <1>1. /\ proc[w].pc = "attempt" /\ proc[w].pc \in Claimed /\ proc[w].pc \in Ordering
        /\ UNCHANGED <<hold, phone, order>>
    BY DEF RecordProviderAttempt, At, Claimed, Ordering
  <1>2. /\ q \in Quotes /\ proc[w] \in Seats /\ purchase[q].token = w /\ hold[q] = "ACTIVE"
        /\ purchase[q].status \in {"RESERVED", "PROVIDER_PENDING"} /\ ~proc[w].definitive
        /\ order[q] = "none"
    BY <1>1, Standpoint DEF Standing, Refunding, Ordering
  <1>3. purchase' = [purchase EXCEPT ![q] = row] /\ Goto(w, local)
    BY <1>2 DEF RecordProviderAttempt, Owned, Step
  <1>4. /\ row \in Rows /\ row.status = purchase[q].status /\ row.token = w
        /\ row.attempt = "recent" /\ row.retired = purchase[q].retired
    <2>1. purchase[q] \in Rows
      BY <1>2, Here
    <2> QED BY <1>2, <2>1 DEF Rows
  <1>5. RowAgrees(row, hold[q], order[q], phone = q)
    BY <1>2, <1>4, Here DEF RowAgrees
  <1>6. Moves(q, row, hold[q], order[q])
    BY <1>1, <1>2, <1>3, <1>4, <1>5, RowMoves
  <1>7. local \in Seats /\ local.pc = "order" /\ local.q = q /\ ~local.definitive
    BY <1>2, SeatAt DEF Claimed, Ordering
  <1> HIDE DEF local, row
  <1>8. Standing(w, local, row, hold[q], order[q])
    BY <1>2, <1>4, <1>7 DEF Standing, Reserving, Ordering, Refunding, Delivering
  <1> QED BY <1>2, <1>3, <1>6, <1>7, <1>8, WorkerMoves

\* An order that was never placed is placed, whatever becomes of it.
LEMMA OrderPlaced ==
    ASSUME Inv, NEW w \in Workers, proc[w].pc = "order", NEW q, q = proc[w].q,
           NEW o \in {"none", "pending", "success", "failure"},
           UNCHANGED <<purchase, hold, phone>>, order' = [order EXCEPT ![q] = o],
           NEW local \in Seats, local.q = q, Goto(w, local),
           \/ local.pc = "doubt" /\ (local.definitive => o = "none")
           \/ local.pc = "apply" /\ ~local.definitive /\ local.found = o /\ o # "none"
    PROVE  Inv' /\ Kept
  <1>1. proc[w].pc \in Claimed /\ proc[w].pc \in Ordering
    BY DEF Claimed, Ordering
  <1>2. /\ q \in Quotes /\ purchase[q].token = w /\ hold[q] = "ACTIVE"
        /\ purchase[q].status \in {"RESERVED", "PROVIDER_PENDING"}
        /\ order[q] = "none" /\ purchase[q].attempt # "none"
    BY <1>1, Standpoint DEF Standing, Refunding, Ordering
  <1>3. Moves(q, purchase[q], hold[q], o)
    <2>1. purchase = [purchase EXCEPT ![q] = purchase[q]] /\ hold = [hold EXCEPT ![q] = hold[q]]
      BY DEF Inv, Typed
    <2>2. RowAgrees(purchase[q], hold[q], o, phone = q)
      BY <1>2, Here DEF RowAgrees
    <2>3. Trade(hold[q], order[q], hold[q], o)
      BY <1>2 DEF Trade
    <2> QED BY <1>2, <2>1, <2>2, <2>3, Here DEF Moves, Orders
  <1>4. Standing(w, local, purchase[q], hold[q], o)
    BY <1>2 DEF Standing, Reserving, Ordering, Refunding, Delivering
  <1> QED BY <1>2, <1>3, <1>4, WorkerMoves

LEMMA PlaceOrderKeeps ==
    ASSUME Inv, NEW w \in Workers, PlaceOrder(w) PROVE Inv' /\ Kept
  <1> DEFINE q == proc[w].q
             doubt == [proc[w] EXCEPT !.pc = "doubt"]
  <1>1. /\ proc[w].pc = "order" /\ proc[w].pc \in Claimed /\ proc[w].pc \in Ordering
        /\ UNCHANGED <<purchase, hold, phone>>
    BY DEF PlaceOrder, At, Claimed, Ordering
  <1>2. /\ q \in Quotes /\ proc[w] \in Seats /\ order[q] = "none" /\ ~proc[w].definitive
    BY <1>1, Standpoint DEF Standing, Refunding, Ordering
  <1>3. /\ doubt \in Seats /\ doubt.pc = "doubt" /\ doubt.q = q /\ ~doubt.definitive
    BY <1>2, SeatAt DEF Claimed, Ordering
  <1>4. order = [order EXCEPT ![q] = "none"]
    BY <1>2 DEF Inv, Typed
  <1>5. ASSUME NEW answer \in Answers(q),
               order' = IF answer = "refused" \/ (Taken /\ order[q] # "none")
                        THEN order ELSE [order EXCEPT ![q] = answer]
        PROVE  \E o \in {"none", "pending", "success", "failure"} :
                   /\ order' = [order EXCEPT ![q] = o]
                   /\ answer = "refused" => o = "none"
                   /\ answer # "refused" => o = answer /\ o # "none"
    <2>1. answer \in {"pending", "success", "failure", "refused"}
      BY DEF Answers
    <2> QED BY <1>2, <1>4, <1>5, <2>1
  <1>6. ASSUME NEW answer \in Answers(q),
               order' = IF answer = "refused" \/ (Taken /\ order[q] # "none")
                        THEN order ELSE [order EXCEPT ![q] = answer],
               Goto(w, [proc[w] EXCEPT !.found = answer,
                           !.pc = IF answer = "refused" THEN "doubt" ELSE "apply",
                           !.definitive = answer = "refused"])
        PROVE  Inv' /\ Kept
    <2> DEFINE pc == IF answer = "refused" THEN "doubt" ELSE "apply"
               local == [proc[w] EXCEPT !.found = answer, !.pc = pc,
                                        !.definitive = answer = "refused"]
    <2>1. answer \in {"pending", "success", "failure", "refused"}
      BY DEF Answers
    <2>2. /\ local \in Seats /\ local.pc = pc /\ local.q = q /\ local.found = answer
          /\ local.definitive = (answer = "refused")
      <3>1. /\ pc \in Claimed /\ answer \in Holds \cup Orders \cup {"refused"}
            /\ (answer = "refused") \in BOOLEAN
        BY <2>1 DEF Claimed, Ordering, Orders
      <3> HIDE DEF pc
      <3> QED BY <1>2, <3>1 DEF Seats
    <2>3. Goto(w, local)
      BY <1>6
    <2> HIDE DEF local
    <2>4. PICK o \in {"none", "pending", "success", "failure"} :
            /\ order' = [order EXCEPT ![q] = o]
            /\ answer = "refused" => o = "none"
            /\ answer # "refused" => o = answer /\ o # "none"
      BY <1>5, <1>6
    <2> QED BY <1>1, <2>1, <2>2, <2>3, <2>4, OrderPlaced
  <1>7. ASSUME NEW answer \in Answers(q),
               order' = IF answer = "refused" \/ (Taken /\ order[q] # "none")
                        THEN order ELSE [order EXCEPT ![q] = answer],
               Step(w, "doubt")
        PROVE  Inv' /\ Kept
    <2>1. PICK o \in {"none", "pending", "success", "failure"} : order' = [order EXCEPT ![q] = o]
      BY <1>5, <1>7
    <2>2. Goto(w, doubt)
      BY <1>7 DEF Step
    <2> HIDE DEF doubt
    <2> QED BY <1>1, <1>3, <2>1, <2>2, OrderPlaced
  <1>8. CASE order' = order /\ Step(w, "doubt")
    <2>1. Goto(w, doubt)
      BY <1>8 DEF Step
    <2> HIDE DEF doubt
    <2> QED BY <1>1, <1>3, <1>4, <1>8, <2>1, OrderPlaced
  <1> QED BY <1>6, <1>7, <1>8 DEF PlaceOrder

LEMMA LookUpDoubtKeeps ==
    ASSUME Inv, NEW w \in Workers, LookUpDoubt(w) PROVE Inv' /\ Kept
  <1> DEFINE q == proc[w].q
             local == [proc[w] EXCEPT !.pc = "refund"]
  <1>1. /\ proc[w].pc = "doubt" /\ proc[w].pc \in Claimed
        /\ proc[w].pc \in Ordering \ {"check-hold"}
        /\ UNCHANGED <<hold, phone, order>>
    BY DEF LookUpDoubt, At, Claimed, Ordering
  <1>2. /\ q \in Quotes /\ proc[w] \in Seats /\ purchase[q].token = w /\ hold[q] = "ACTIVE"
        /\ purchase[q].status \in {"RESERVED", "PROVIDER_PENDING"}
        /\ proc[w].definitive => order[q] = "none"
    BY <1>1, Standpoint DEF Standing, Refunding, Ordering
  <1>3. ASSUME NEW result \in Shown(q) \ {"none"}, purchase' = purchase,
               Goto(w, [proc[w] EXCEPT !.pc = "apply", !.found = result])
        PROVE  Inv' /\ Kept
    <2>1. result = order[q] /\ result \in {"pending", "success", "failure"}
      BY <1>2, <1>3, ShownIsOrdered, Here DEF RowAgrees, Orders
    <2>2. ~proc[w].definitive
      BY <1>2, <2>1
    <2> QED BY <1>1, <1>2, <1>3, <2>1, <2>2, TakesAlong
  <1>4. CASE GiveUpForNow(w, q)
    BY <1>1, <1>4, Yields
  <1>5. CASE proc[w].definitive /\ Step(w, "refund") /\ purchase' = purchase
    <2>1. "refund" \in Claimed /\ local = [proc[w] EXCEPT !.pc = "refund"]
      BY DEF Claimed, Refunding
    <2>2. local.pc = "refund"
      BY <1>2, <2>1, SeatAt
    <2> HIDE DEF local
    <2>3. Standing(w, local, purchase[q], hold[q], order[q])
      BY <1>2, <1>5, <2>2 DEF Standing, Reserving, Ordering, Refunding, Delivering
    <2> QED BY <1>1, <1>5, <2>1, <2>3, StepsTo
  <1> QED BY <1>3, <1>4, <1>5 DEF LookUpDoubt

LEMMA ApplyProviderResultKeeps ==
    ASSUME Inv, NEW w \in Workers, ApplyProviderResult(w) PROVE Inv' /\ Kept
  <1> DEFINE q == proc[w].q
             pending == [purchase[q] EXCEPT !.status = "PROVIDER_PENDING", !.token = None]
             bought == [purchase[q] EXCEPT !.status = "PROVIDER_PURCHASED"]
             refund == [proc[w] EXCEPT !.pc = "refund"]
             persist == [proc[w] EXCEPT !.pc = "persist"]
  <1>1. /\ proc[w].pc = "apply" /\ proc[w].pc \in Claimed /\ proc[w].pc \in Ordering
        /\ UNCHANGED <<hold, phone, order>>
    BY DEF ApplyProviderResult, At, Claimed, Ordering
  <1>2. /\ q \in Quotes /\ proc[w] \in Seats /\ purchase[q].token = w /\ hold[q] = "ACTIVE"
        /\ purchase[q].status \in {"RESERVED", "PROVIDER_PENDING"} /\ ~proc[w].definitive
        /\ proc[w].found \in {"pending", "success", "failure"}
        /\ proc[w].found = "success" => order[q] = "success"
        /\ proc[w].found = "failure" => order[q] = "failure"
    BY <1>1, Standpoint DEF Standing, Refunding, Ordering
  <1>3. purchase[q] \in Rows /\ {"PROVIDER_PENDING", "PROVIDER_PURCHASED"} \subseteq Active
    BY <1>2, Here DEF Active, Claimable
  <1>4. CASE proc[w].found = "failure"
    <2>1. Step(w, "refund") /\ purchase' = purchase
      BY <1>4 DEF ApplyProviderResult
    <2>2. "refund" \in Claimed /\ refund = [proc[w] EXCEPT !.pc = "refund"]
      BY DEF Claimed, Refunding
    <2>3. refund.pc = "refund"
      BY <1>2, <2>2, SeatAt
    <2> HIDE DEF refund
    <2>4. Standing(w, refund, purchase[q], hold[q], order[q])
      BY <1>2, <1>4, <2>3 DEF Standing, Reserving, Ordering, Refunding, Delivering
    <2> QED BY <1>1, <2>1, <2>2, <2>4, StepsTo
  <1>5. CASE proc[w].found = "pending"
    <2>1. /\ Owned(w, q, [purchase[q] EXCEPT !.status = "PROVIDER_PENDING", !.token = None])
          /\ Stop(w)
      BY <1>5 DEF ApplyProviderResult
    <2>2. purchase' = [purchase EXCEPT ![q] = pending] /\ Goto(w, Idle)
      BY <1>2, <2>1 DEF Owned, Stop
    <2>3. /\ pending \in Rows /\ pending.status = "PROVIDER_PENDING"
          /\ pending.token = None /\ pending.attempt = purchase[q].attempt
      BY <1>3 DEF Rows
    <2>4. RowAgrees(pending, hold[q], order[q], phone = q)
      BY <1>2, <2>3, Here DEF RowAgrees, Claimable
    <2>5. Moves(q, pending, hold[q], order[q])
      BY <1>1, <1>2, <2>2, <2>3, <2>4, RowMoves
    <2> QED BY <1>2, <2>2, <2>5, IdleEnters, WorkerLeaves
  <1>6. CASE proc[w].found = "success"
    <2>1. /\ Owned(w, q, [purchase[q] EXCEPT !.status = "PROVIDER_PURCHASED"])
          /\ Step(w, "persist")
      BY <1>2, <1>6 DEF ApplyProviderResult
    <2>2. purchase' = [purchase EXCEPT ![q] = bought] /\ Goto(w, persist)
      BY <1>2, <2>1 DEF Owned, Step
    <2>3. /\ bought \in Rows /\ bought.status = "PROVIDER_PURCHASED"
          /\ bought.token = w /\ bought.attempt = purchase[q].attempt
      BY <1>2, <1>3 DEF Rows
    <2>4. RowAgrees(bought, hold[q], order[q], phone = q)
      BY <1>2, <1>6, <2>3, Here DEF RowAgrees, Claimable
    <2>5. Moves(q, bought, hold[q], order[q])
      BY <1>1, <1>2, <2>2, <2>3, <2>4, RowMoves
    <2>6. persist \in Seats /\ persist.pc = "persist" /\ persist.q = q /\ ~persist.definitive
      BY <1>2, SeatAt DEF Claimed
    <2> HIDE DEF persist, bought
    <2>7. Standing(w, persist, bought, hold[q], order[q])
      BY <2>3, <2>6 DEF Standing, Reserving, Ordering, Refunding, Delivering
    <2> QED BY <1>2, <2>2, <2>5, <2>6, <2>7, WorkerMoves
  <1> QED BY <1>2, <1>4, <1>5, <1>6

LEMMA RefundHoldKeeps ==
    ASSUME Inv, NEW w \in Workers, RefundHold(w) PROVE Inv' /\ Kept
  <1> DEFINE q == proc[w].q
             local == [proc[w] EXCEPT !.pc = "fail"]
  <1>1. /\ proc[w].pc = "refund" /\ proc[w].pc \in Claimed /\ proc[w].pc \in Refunding
        /\ UNCHANGED <<phone, order>>
    BY DEF RefundHold, At, Claimed, Refunding
  <1>2. /\ q \in Quotes /\ proc[w] \in Seats /\ purchase[q].token = w /\ hold[q] = "ACTIVE"
        /\ purchase[q].status \in {"RESERVED", "PROVIDER_PENDING"}
        /\ order[q] \in {"none", "failure"}
    BY <1>1, Standpoint DEF Standing, Refunding
  <1>3. hold' = [hold EXCEPT ![q] = "RELEASED"] /\ Goto(w, local) /\ purchase' = purchase
    BY <1>2 DEF RefundHold, Step
  <1>4. Moves(q, purchase[q], "RELEASED", order[q])
    <2>1. /\ purchase = [purchase EXCEPT ![q] = purchase[q]]
          /\ order = [order EXCEPT ![q] = order[q]]
      BY DEF Inv, Typed
    <2>2. RowAgrees(purchase[q], "RELEASED", order[q], phone = q)
      BY <1>2, Here DEF RowAgrees
    <2> QED BY <1>1, <1>2, <1>3, <2>1, <2>2, Here DEF Moves, Trade, Holds
  <1>5. local \in Seats /\ local.pc = "fail" /\ local.q = q
    BY <1>2, SeatAt DEF Claimed, Refunding
  <1> HIDE DEF local
  <1>6. Standing(w, local, purchase[q], "RELEASED", order[q])
    BY <1>2, <1>5 DEF Standing, Reserving, Ordering, Refunding, Delivering
  <1> QED BY <1>2, <1>3, <1>4, <1>5, <1>6, WorkerMoves

LEMMA FailPurchaseKeeps ==
    ASSUME Inv, NEW w \in Workers, FailPurchase(w) PROVE Inv' /\ Kept
  <1>1. /\ proc[w].pc = "fail" /\ proc[w].pc \in Claimed /\ proc[w].pc \in Refunding
        /\ UNCHANGED <<hold, phone, order>> /\ Finish(w, proc[w].q, "FAILED")
    BY DEF FailPurchase, At, Claimed, Refunding
  <1>2. /\ proc[w].q \in Quotes /\ hold[proc[w].q] = "RELEASED"
        /\ order[proc[w].q] \in {"none", "failure"}
    BY <1>1, Standpoint DEF Standing
  <1>3. phone # proc[w].q
    BY <1>2, Here DEF RowAgrees
  <1> QED BY <1>1, <1>2, <1>3, Finishes

-----------------------------------------------------------------------------
(* The actions: delivery.                                                  *)

LEMMA PersistPhoneKeeps ==
    ASSUME Inv, NEW w \in Workers, PersistPhone(w) PROVE Inv' /\ Kept
  <1> DEFINE q == proc[w].q
             row == [purchase[q] EXCEPT !.status = "NUMBER_PERSISTED"]
             local == [proc[w] EXCEPT !.pc = "settle"]
  <1>1. /\ proc[w].pc = "persist" /\ proc[w].pc \in Claimed /\ UNCHANGED <<hold, order>>
    BY DEF PersistPhone, At, Claimed
  <1>2. /\ q \in Quotes /\ proc[w] \in Seats /\ purchase[q].token = w
        /\ purchase[q].status = "PROVIDER_PURCHASED" /\ ~proc[w].definitive
    BY <1>1, Standpoint DEF Standing, Refunding
  <1>3. order[q] = "success"
    BY <1>2, Here DEF RowAgrees
  <1>4. CASE phone \notin {None, q}
    BY <1>1, <1>2, <1>4, Finishes DEF PersistPhone
  <1>5. CASE phone \in {None, q}
    <2>1. /\ phone' = q /\ purchase' = [purchase EXCEPT ![q] = row] /\ Goto(w, local)
      BY <1>2, <1>5 DEF PersistPhone, Step
    <2>2. /\ row \in Rows /\ row.status = "NUMBER_PERSISTED" /\ row.token = w
          /\ row.attempt = purchase[q].attempt
      <3>1. purchase[q] \in Rows /\ "NUMBER_PERSISTED" \in Active
        BY <1>2, Here DEF Active, Claimable
      <3> QED BY <1>2, <3>1 DEF Rows
    <2>3. RowAgrees(row, hold[q], order[q], TRUE)
      BY <1>2, <1>3, <2>2, Here DEF RowAgrees, Claimable
    <2>4. phone' = q /\ \A p \in Quotes \ {q} : (phone' = p) <=> (phone = p)
      BY <1>5, <2>1 DEF Inv, Typed
    <2>5. Moves(q, row, hold[q], order[q])
      <3>1. hold = [hold EXCEPT ![q] = hold[q]] /\ order = [order EXCEPT ![q] = order[q]]
        BY DEF Inv, Typed
      <3> QED BY <1>1, <1>2, <2>1, <2>2, <2>3, <2>4, <3>1, Here DEF Moves, Trade
    <2>6. local \in Seats /\ local.pc = "settle" /\ local.q = q /\ ~local.definitive
      BY <1>2, SeatAt DEF Claimed, Delivering
    <2> HIDE DEF local, row
    <2>7. Standing(w, local, row, hold[q], order[q])
      BY <2>2, <2>6 DEF Standing, Reserving, Ordering, Refunding, Delivering
    <2> QED BY <1>2, <2>1, <2>5, <2>6, <2>7, WorkerMoves
  <1> QED BY <1>4, <1>5

LEMMA FindPhoneKeeps ==
    ASSUME Inv, NEW w \in Workers, FindPhone(w) PROVE Inv' /\ Kept
  <1> DEFINE q == proc[w].q
             local == [proc[w] EXCEPT !.pc = "settle"]
  <1>1. /\ proc[w].pc = "find-phone" /\ proc[w].pc \in Claimed /\ proc[w].pc \in Delivering
        /\ UNCHANGED <<hold, phone, order>>
    BY DEF FindPhone, At, Claimed, Delivering
  <1>2. /\ q \in Quotes /\ proc[w] \in Seats /\ purchase[q].token = w
        /\ purchase[q].status = "NUMBER_PERSISTED" /\ ~proc[w].definitive
    BY <1>1, Standpoint DEF Standing, Refunding
  <1>3. CASE Step(w, "settle") /\ purchase' = purchase
    <2>1. "settle" \in Claimed /\ local = [proc[w] EXCEPT !.pc = "settle"]
      BY DEF Claimed, Delivering
    <2>2. local.pc = "settle" /\ ~local.definitive
      BY <1>2, <2>1, SeatAt
    <2> HIDE DEF local
    <2>3. Standing(w, local, purchase[q], hold[q], order[q])
      BY <1>2, <2>2 DEF Standing, Reserving, Ordering, Refunding, Delivering
    <2> QED BY <1>1, <1>3, <2>1, <2>3, StepsTo
  <1>4. CASE Finish(w, q, "REQUIRES_ATTENTION")
    BY <1>1, <1>4, Finishes
  <1> QED BY <1>3, <1>4 DEF FindPhone

LEMMA SettlePurchaseKeeps ==
    ASSUME Inv, NEW w \in Workers, SettlePurchase(w) PROVE Inv' /\ Kept
  <1> DEFINE q == proc[w].q
             local == [proc[w] EXCEPT !.pc = "succeed"]
  <1>1. /\ proc[w].pc = "settle" /\ proc[w].pc \in Claimed /\ proc[w].pc \in Delivering
        /\ UNCHANGED <<phone, order>>
    BY DEF SettlePurchase, At, Claimed, Delivering
  <1>2. /\ q \in Quotes /\ proc[w] \in Seats /\ purchase[q].token = w
        /\ purchase[q].status = "NUMBER_PERSISTED" /\ ~proc[w].definitive
    BY <1>1, Standpoint DEF Standing, Refunding
  <1>3. CASE hold[q] \in {"ACTIVE", "SETTLED"}
    <2>1. hold' = [hold EXCEPT ![q] = "SETTLED"] /\ Goto(w, local) /\ purchase' = purchase
      BY <1>3 DEF SettlePurchase, Step
    <2>2. order[q] \in {"success", "released"}
      BY <1>2, Here DEF RowAgrees
    <2>3. Moves(q, purchase[q], "SETTLED", order[q])
      <3>1. /\ purchase = [purchase EXCEPT ![q] = purchase[q]]
            /\ order = [order EXCEPT ![q] = order[q]]
        BY DEF Inv, Typed
      <3>2. RowAgrees(purchase[q], "SETTLED", order[q], phone = q)
        BY <1>2, <2>2, Here DEF RowAgrees
      <3>3. Trade(hold[q], order[q], "SETTLED", order[q])
        BY <1>3, <2>2 DEF Trade
      <3> QED BY <1>1, <1>2, <2>1, <3>1, <3>2, <3>3, Here DEF Moves, Holds
    <2>4. local \in Seats /\ local.pc = "succeed" /\ local.q = q /\ ~local.definitive
      BY <1>2, SeatAt DEF Claimed, Delivering
    <2> HIDE DEF local
    <2>5. Standing(w, local, purchase[q], "SETTLED", order[q])
      BY <1>2, <2>4 DEF Standing, Reserving, Ordering, Refunding, Delivering
    <2> QED BY <1>2, <2>1, <2>3, <2>4, <2>5, WorkerMoves
  <1>4. CASE hold[q] \notin {"ACTIVE", "SETTLED"}
    BY <1>1, <1>4, Finishes DEF SettlePurchase
  <1> QED BY <1>3, <1>4

LEMMA MarkSucceededKeeps ==
    ASSUME Inv, NEW w \in Workers, MarkSucceeded(w) PROVE Inv' /\ Kept
  <1>1. proc[w].pc \in Claimed
    BY DEF MarkSucceeded, At, Claimed, Delivering
  <1> QED BY <1>1, Finishes DEF MarkSucceeded

-----------------------------------------------------------------------------
(* The actions: everybody else.                                            *)

\* A change of one purchase that leaves those who work on it right.
LEMMA OthersMove ==
    ASSUME Inv, NEW q \in Quotes, NEW row, NEW h, NEW o, Moves(q, row, h, o), proc' = proc,
           \A v \in Workers : proc[v].pc \in Claimed /\ proc[v].q = q
               => Standing(v, proc[v], row, h, o)
    PROVE  Inv' /\ Kept
  BY MovesKeep DEF Inv, Typed

LEMMA ReplayFailedKeeps ==
    ASSUME Inv, NEW q \in Quotes, ReplayFailed(q) PROVE Inv' /\ Kept
  <1>1. /\ purchase[q].status = "FAILED" /\ hold[q] = "ACTIVE"
        /\ hold' = [hold EXCEPT ![q] = "RELEASED"]
        /\ UNCHANGED <<purchase, phone, order, proc>>
    BY DEF ReplayFailed
  <1>2. purchase[q].token = None /\ order[q] \in {"none", "failure"}
    BY <1>1, Here DEF RowAgrees, Claimable
  <1>3. Moves(q, purchase[q], "RELEASED", order[q])
    <2>1. /\ purchase = [purchase EXCEPT ![q] = purchase[q]]
          /\ order = [order EXCEPT ![q] = order[q]]
      BY DEF Inv, Typed
    <2>2. RowAgrees(purchase[q], "RELEASED", order[q], phone = q)
      BY <1>1, <1>2, Here DEF RowAgrees
    <2> QED BY <1>1, <1>2, <2>1, <2>2, Here DEF Moves, Trade, Holds
  <1>4. \A v \in Workers : proc[v].pc \in Claimed => proc[v].q # q
    BY <1>2, Standpoint, TokensDiffer DEF Standing
  <1> QED BY <1>1, <1>3, <1>4, OthersMove

\* A row on which time leaves its mark.
LEMMA TimePasses ==
    ASSUME Inv, NEW q \in Quotes, NEW row \in Rows,
           purchase' = [purchase EXCEPT ![q] = row],
           UNCHANGED <<hold, phone, order, proc>>,
           row.status = purchase[q].status, row.token = purchase[q].token,
           row.retired = purchase[q].retired,
           row.attempt = "none" <=> purchase[q].attempt = "none"
    PROVE  Inv' /\ Kept
  <1>1. RowAgrees(row, hold[q], order[q], phone = q)
    BY Here DEF RowAgrees
  <1>2. Moves(q, row, hold[q], order[q])
    BY <1>1, RowMoves
  <1>3. ASSUME NEW v \in Workers, proc[v].pc \in Claimed, proc[v].q = q
        PROVE  Standing(v, proc[v], row, hold[q], order[q])
    BY <1>3, Standpoint DEF Standing
  <1> QED BY <1>2, <1>3, OthersMove

LEMMA QuoteExpiresKeeps ==
    ASSUME Inv, NEW q \in Quotes, QuoteExpires(q) PROVE Inv' /\ Kept
  <1> DEFINE row == [purchase[q] EXCEPT !.expired = TRUE]
  <1>1. /\ row \in Rows /\ row.status = purchase[q].status /\ row.token = purchase[q].token
        /\ row.retired = purchase[q].retired /\ row.attempt = purchase[q].attempt
    BY Here DEF Rows
  <1>2. purchase' = [purchase EXCEPT ![q] = row] /\ UNCHANGED <<hold, phone, order, proc>>
    BY DEF QuoteExpires
  <1> HIDE DEF row
  <1> QED BY <1>1, <1>2, TimePasses

LEMMA AttemptAgesKeeps ==
    ASSUME Inv, NEW q \in Quotes, AttemptAges(q) PROVE Inv' /\ Kept
  <1> DEFINE row == [purchase[q] EXCEPT !.attempt = "old"]
  <1>1. /\ row \in Rows /\ row.status = purchase[q].status /\ row.token = purchase[q].token
        /\ row.retired = purchase[q].retired /\ row.attempt = "old"
    BY Here DEF Rows
  <1>2. /\ purchase' = [purchase EXCEPT ![q] = row] /\ UNCHANGED <<hold, phone, order, proc>>
        /\ purchase[q].attempt # "none"
    BY DEF AttemptAges
  <1> HIDE DEF row
  <1> QED BY <1>1, <1>2, TimePasses

LEMMA DecideOrderKeeps ==
    ASSUME Inv, NEW q \in Quotes, DecideOrder(q) PROVE Inv' /\ Kept
  <1>1. PICK o \in {"success", "failure"} : order' = [order EXCEPT ![q] = o]
    BY DEF DecideOrder
  <1>2. order[q] = "pending" /\ UNCHANGED <<purchase, hold, phone, proc>>
    BY DEF DecideOrder
  <1>3. hold[q] = "ACTIVE"
    BY <1>2, Here DEF RowAgrees, Holds
  <1>4. Moves(q, purchase[q], hold[q], o)
    <2>1. purchase = [purchase EXCEPT ![q] = purchase[q]] /\ hold = [hold EXCEPT ![q] = hold[q]]
      BY DEF Inv, Typed
    <2>2. RowAgrees(purchase[q], hold[q], o, phone = q)
      BY <1>2, <1>3, Here DEF RowAgrees
    <2>3. Trade(hold[q], order[q], hold[q], o)
      BY <1>2 DEF Trade
    <2> QED BY <1>1, <1>2, <2>1, <2>2, <2>3, Here DEF Moves, Orders
  <1>5. ASSUME NEW v \in Workers, proc[v].pc \in Claimed, proc[v].q = q
        PROVE  Standing(v, proc[v], purchase[q], hold[q], o)
    <2>1. Standing(v, proc[v], purchase[q], hold[q], order[q])
      BY <1>5, Standpoint
    <2> QED BY <1>2, <2>1 DEF Standing
  <1> QED BY <1>2, <1>4, <1>5, OthersMove

LEMMA DeleteNumberKeeps ==
    ASSUME Inv, DeleteNumber PROVE Inv' /\ Kept
  <1> DEFINE q == phone
  <1>1. /\ q \in Quotes /\ phone' = None /\ order' = [order EXCEPT ![q] = "released"]
        /\ UNCHANGED <<purchase, hold, proc>>
    BY DEF DeleteNumber, Inv, Typed
  <1>2. /\ order[q] = "success"
        /\ purchase[q].status \in {"NUMBER_PERSISTED", "SUCCEEDED", "REQUIRES_ATTENTION"}
    BY <1>1, Here DEF RowAgrees
  <1>3. Moves(q, purchase[q], hold[q], "released")
    <2>1. purchase = [purchase EXCEPT ![q] = purchase[q]] /\ hold = [hold EXCEPT ![q] = hold[q]]
      BY DEF Inv, Typed
    <2>2. RowAgrees(purchase[q], hold[q], "released", FALSE)
      BY <1>1, <1>2, Here DEF RowAgrees
    <2>3. Trade(hold[q], order[q], hold[q], "released")
      BY <1>2 DEF Trade
    <2>4. (phone' = q) = FALSE /\ \A p \in Quotes \ {q} : (phone' = p) <=> (phone = p)
      BY <1>1 DEF Inv, Typed
    <2> QED BY <1>1, <2>1, <2>2, <2>3, <2>4, Here DEF Moves, Orders
  <1>4. ASSUME NEW v \in Workers, proc[v].pc \in Claimed, proc[v].q = q
        PROVE  Standing(v, proc[v], purchase[q], hold[q], "released")
    <2>1. Standing(v, proc[v], purchase[q], hold[q], order[q])
      BY <1>4, Standpoint
    <2>2. proc[v].pc \in Delivering
      BY <1>2, <1>4, <2>1 DEF Standing, Claimed
    <2> QED BY <1>2, <2>1, <2>2 DEF Standing, Reserving, Ordering, Refunding, Delivering
  <1> QED BY <1>1, <1>3, <1>4, OthersMove

LEMMA CrashKeeps ==
    ASSUME Inv, NEW w \in Workers, Crash(w) PROVE Inv' /\ Kept
  <1>1. Goto(w, Idle) /\ UNCHANGED <<hold, phone, order>>
    BY DEF Crash, Stop
  <1>2. /\ DOMAIN purchase' = Quotes /\ purchase' = [p \in Quotes |-> purchase'[p]]
        /\ \A p \in Quotes :
              \/ purchase'[p] = purchase[p]
              \/ /\ purchase[p].token = w
                 /\ purchase'[p] = [purchase[p] EXCEPT !.token = Dead]
    BY DEF Crash
  <1>3. \A p \in Quotes : purchase'[p] \in Rows
                          /\ RowAgrees(purchase'[p], hold[p], order[p], phone = p)
    <2> SUFFICES ASSUME NEW p \in Quotes, purchase[p].token = w,
                        purchase'[p] = [purchase[p] EXCEPT !.token = Dead]
                 PROVE  /\ purchase'[p] \in Rows
                        /\ RowAgrees(purchase'[p], hold[p], order[p], phone = p)
      BY <1>2, Here
    <2>1. /\ purchase'[p] \in Rows /\ purchase'[p].status = purchase[p].status
          /\ purchase'[p].attempt = purchase[p].attempt
          /\ purchase'[p].retired = purchase[p].retired
      BY Here DEF Rows
    <2>2. purchase[p].status \in Claimable
      BY Here, TokensDiffer DEF RowAgrees
    <2> QED BY <2>1, <2>2, Here DEF RowAgrees
  <1>4. /\ proc' \in [Workers -> Locals] /\ proc'[w].pc = "idle"
        /\ \A v \in Workers \ {w} : proc'[v] = proc[v]
    BY <1>1, IdleEnters DEF Inv, Typed, Goto, Locals, Idle
  <1>5. Typed' /\ Agree'
    BY <1>1, <1>2, <1>3, <1>4 DEF Inv, Typed, Agree
  <1>6. Stand'
    <2> SUFFICES ASSUME NEW v \in Workers, proc'[v].pc \in Claimed
                 PROVE  Standing(v, proc'[v], purchase'[proc'[v].q], hold'[proc'[v].q],
                                 order'[proc'[v].q])
      BY DEF Stand
    <2>1. v # w /\ proc'[v] = proc[v]
      BY <1>4 DEF Claimed, Reserving, Ordering, Refunding, Delivering
    <2>2. /\ proc[v].q \in Quotes /\ purchase[proc[v].q].token = v
          /\ Standing(v, proc[v], purchase[proc[v].q], hold[proc[v].q], order[proc[v].q])
      BY <2>1, Standpoint DEF Standing
    <2>3. purchase'[proc[v].q] = purchase[proc[v].q]
      BY <1>2, <2>1, <2>2
    <2> QED BY <1>1, <2>1, <2>2, <2>3
  <1>7. Kept
    BY <1>1 DEF Kept, Escrowed, Delivered
  <1> QED BY <1>5, <1>6, <1>7 DEF Inv

-----------------------------------------------------------------------------
(* The invariant and the escrow.                                           *)

LEMMA InitInv ==
    ASSUME None \notin Quotes, Init
    PROVE  Inv /\ Escrow!Init
  <1>1. Typed
    BY IdleEnters DEF Init, Typed, Rows, Active, Holds, Orders, Locals
  <1>2. Agree
    BY DEF Init, Agree, RowAgrees, Claimable
  <1>3. Stand
    BY DEF Init, Stand, Idle, Claimed, Reserving, Ordering, Refunding, Delivering
  <1>4. Escrow!Init
    BY DEF Init, Escrow!Init, Escrowed, Delivered
  <1> QED BY <1>1, <1>2, <1>3, <1>4 DEF Inv

LEMMA StepKeeps ==
    ASSUME Inv, [Next]_vars
    PROVE  Inv' /\ Kept
  <1>1. ASSUME NEW w \in Workers, Work(w) PROVE Inv' /\ Kept
    <2>1. CASE InsertPurchase(w) \/ RetireExpired(w) \/ Claim(w)
      BY <2>1, InsertPurchaseKeeps, RetireExpiredKeeps, ClaimKeeps
    <2>2. CASE FindHold(w) \/ Reserve(w) \/ RecordReservation(w) \/ CheckHold(w)
      BY <2>2, FindHoldKeeps, ReserveKeeps, RecordReservationKeeps, CheckHoldKeeps
    <2>3. CASE \/ LookUpAttempt(w) \/ RecordProviderAttempt(w) \/ PlaceOrder(w)
               \/ LookUpDoubt(w) \/ ApplyProviderResult(w)
      BY <2>3, LookUpAttemptKeeps, RecordProviderAttemptKeeps, PlaceOrderKeeps,
         LookUpDoubtKeeps, ApplyProviderResultKeeps
    <2>4. CASE RefundHold(w) \/ FailPurchase(w)
      BY <2>4, RefundHoldKeeps, FailPurchaseKeeps
    <2>5. CASE PersistPhone(w) \/ FindPhone(w) \/ SettlePurchase(w) \/ MarkSucceeded(w)
      BY <2>5, PersistPhoneKeeps, FindPhoneKeeps, SettlePurchaseKeeps, MarkSucceededKeeps
    <2> QED BY <1>1, <2>1, <2>2, <2>3, <2>4, <2>5 DEF Work
  <1>2. ASSUME NEW w \in Workers, Crash(w) PROVE Inv' /\ Kept
    BY <1>2, CrashKeeps
  <1>3. ASSUME NEW w \in Workers, NEW q \in Quotes,
               RequestPurchase(w, q) \/ ResumePurchase(w, q)
        PROVE  Inv' /\ Kept
    BY <1>3, RequestPurchaseKeeps, ResumePurchaseKeeps
  <1>4. ASSUME NEW q \in Quotes,
               ReplayFailed(q) \/ QuoteExpires(q) \/ AttemptAges(q) \/ DecideOrder(q)
        PROVE  Inv' /\ Kept
    BY <1>4, ReplayFailedKeeps, QuoteExpiresKeeps, AttemptAgesKeeps, DecideOrderKeeps
  <1>5. CASE DeleteNumber
    BY <1>5, DeleteNumberKeeps
  <1>6. CASE UNCHANGED vars
    <2>1. UNCHANGED <<purchase, hold, phone, order, proc>>
      BY <1>6 DEF vars
    <2>2. Inv' /\ Escrowed' = Escrowed /\ Delivered' = Delivered
      BY <2>1 DEF Inv, Typed, Agree, Stand, Escrowed, Delivered
    <2> QED BY <2>2 DEF Kept
  <1> QED BY <1>1, <1>2, <1>3, <1>4, <1>5, <1>6 DEF Next

\* The inductive invariant: a worker that claimed a purchase owns it, and the
\* row, the hold, the order and the number agree.
THEOREM PurchaseInvariance == None \notin Quotes => (Spec => []Inv)
  <1> SUFFICES ASSUME None \notin Quotes PROVE Spec => []Inv
    OBVIOUS
  <1>1. Init => Inv
    BY InitInv
  <1>2. Inv /\ [Next]_vars => Inv'
    BY StepKeeps
  <1> QED BY <1>1, <1>2, PTL DEF Spec

\* What the wallet has left, and what has gone wrong, stay within bounds.
Counted == funds \in Nat /\ faults \in 0..MaxFaults

\* A hold takes one price from the wallet if there is one, or gives one back.
Pays == \/ UNCHANGED funds
        \/ funds # 0 /\ funds' = funds - 1
        \/ funds' = funds + 1
Faults == UNCHANGED faults \/ (faults < MaxFaults /\ faults' = faults + 1)

LEMMA WorkCounts ==
    ASSUME NEW w \in Workers, Work(w)
    PROVE  Pays /\ Faults
  <1>1. CASE InsertPurchase(w) \/ RetireExpired(w) \/ Claim(w) \/ FindHold(w)
    <2>1. UNCHANGED <<funds, faults>>
      BY <1>1 DEF InsertPurchase, RetireExpired, Claim, FindHold
    <2> QED BY <2>1 DEF Pays, Faults
  <1>2. CASE Reserve(w)
    <2>1. UNCHANGED faults
      BY <1>2 DEF Reserve
    <2>2. UNCHANGED funds \/ (funds # 0 /\ funds' = funds - 1)
      BY <1>2 DEF Reserve
    <2> QED BY <2>1, <2>2 DEF Pays, Faults
  <1>3. CASE RefundHold(w)
    <2>1. UNCHANGED faults /\ (UNCHANGED funds \/ funds' = funds + 1)
      BY <1>3 DEF RefundHold
    <2> QED BY <2>1 DEF Pays, Faults
  <1>4. CASE RecordReservation(w) \/ CheckHold(w) \/ RecordProviderAttempt(w)
             \/ ApplyProviderResult(w) \/ FailPurchase(w)
    <2>1. UNCHANGED <<funds, faults>>
      BY <1>4 DEF RecordReservation, CheckHold, RecordProviderAttempt, ApplyProviderResult,
                  FailPurchase
    <2> QED BY <2>1 DEF Pays, Faults
  <1>5. CASE LookUpAttempt(w)
    BY <1>5 DEF LookUpAttempt, Pays, Faults
  <1>6. CASE PlaceOrder(w)
    BY <1>6 DEF PlaceOrder, Pays, Faults
  <1>7. CASE LookUpDoubt(w)
    BY <1>7 DEF LookUpDoubt, Pays, Faults
  <1>8. CASE PersistPhone(w) \/ FindPhone(w) \/ SettlePurchase(w) \/ MarkSucceeded(w)
    <2>1. UNCHANGED <<funds, faults>>
      BY <1>8 DEF PersistPhone, FindPhone, SettlePurchase, MarkSucceeded
    <2> QED BY <2>1 DEF Pays, Faults
  <1> QED BY <1>1, <1>2, <1>3, <1>4, <1>5, <1>6, <1>7, <1>8 DEF Work

LEMMA StepCounts ==
    ASSUME Counted, MaxFaults \in Nat, [Next]_vars
    PROVE  Counted'
  <1>1. ASSUME NEW w \in Workers, Crash(w) PROVE Pays /\ Faults
    BY <1>1 DEF Crash, Pays, Faults
  <1>2. ASSUME NEW w \in Workers, NEW q \in Quotes,
               RequestPurchase(w, q) \/ ResumePurchase(w, q)
        PROVE  Pays /\ Faults
    BY <1>2 DEF RequestPurchase, ResumePurchase, Pays, Faults
  <1>3. ASSUME NEW q \in Quotes,
               ReplayFailed(q) \/ QuoteExpires(q) \/ AttemptAges(q) \/ DecideOrder(q)
        PROVE  Pays /\ Faults
    BY <1>3 DEF ReplayFailed, QuoteExpires, AttemptAges, DecideOrder, Pays, Faults
  <1>4. ASSUME DeleteNumber \/ UNCHANGED vars PROVE Pays /\ Faults
    BY <1>4 DEF DeleteNumber, vars, Pays, Faults
  <1>5. Pays /\ Faults
    BY <1>1, <1>2, <1>3, <1>4, WorkCounts DEF Next
  <1> QED BY <1>5 DEF Counted, Pays, Faults

\* Every state of a purchase is one that its row, hold, order and number can
\* be in, and the wallet never reserves what it does not have.
THEOREM PurchaseTypes ==
    None \notin Quotes /\ Funds \subseteq Nat /\ MaxFaults \in Nat => (Spec => []TypeOK)
  <1> SUFFICES ASSUME None \notin Quotes, Funds \subseteq Nat, MaxFaults \in Nat
               PROVE  Spec => []TypeOK
    OBVIOUS
  <1>1. Init => Counted
    BY DEF Init, Counted
  <1>2. Counted /\ [Next]_vars => Counted'
    BY StepCounts
  <1>3. Inv /\ Counted => TypeOK
    BY DEF Inv, Typed, Counted, TypeOK, Rows, Holds, Orders
  <1>4. Spec => []Inv
    BY PurchaseInvariance
  <1> QED BY <1>1, <1>2, <1>3, <1>4, PTL DEF Spec

\* A purchase that failed holds no money, unless another quote retired its row
\* (failExpiredUnfunded).
THEOREM LeaksAreRetired == None \notin Quotes => (Spec => []OnlyRetiredPurchasesLeak)
  <1> SUFFICES ASSUME None \notin Quotes PROVE Spec => []OnlyRetiredPurchasesLeak
    OBVIOUS
  <1>1. Inv => OnlyRetiredPurchasesLeak
    BY DEF Inv, Agree, RowAgrees, OnlyRetiredPurchasesLeak
  <1> QED BY <1>1, PurchaseInvariance, PTL

\* Buying a number implements the escrow: it is ordered against held money
\* only, paid only when acquired, and the money goes back only if the provider
\* neither has delivered nor may still deliver, whatever fails.
THEOREM EscrowKept == None \notin Quotes => (Spec => KeepsEscrow)
  <1> SUFFICES ASSUME None \notin Quotes PROVE Spec => KeepsEscrow
    OBVIOUS
  <1>1. Init => Escrow!Init
    BY InitInv
  <1>2. Inv /\ [Next]_vars => [Escrow!Next]_<<Escrowed, Delivered>>
    BY StepKeeps DEF Kept
  <1>3. Spec => []Inv
    BY PurchaseInvariance
  <1> QED BY <1>1, <1>2, <1>3, PTL DEF Spec, KeepsEscrow, Escrow!Spec
=============================================================================
