------------------------- MODULE NumberRentalProofs -------------------------
(***************************************************************************)
(* Proofs about NumberRental for any number of workers, periods, holds,    *)
(* deposits and faults.                                                    *)
(***************************************************************************)
EXTENDS NumberRental, TLAPS

-----------------------------------------------------------------------------
(* Types, with the local states of the workers.                            *)

\* The steps between a claim and its end, for a number that may be renewed.
Renewing == {"find-hold", "reserve", "refresh", "refresh-settled", "let-go",
             "settle", "complete", "suspend", "reload", "authorize"}

\* The steps of a deletion after its first check.
Removing == {"take-down", "check-again", "delete", "delete-row"}

Renewals == [pc : Renewing \cup {"detach", "unlink"}, mode : {"scheduled", "last-chance"},
             period : Nat \ {0}, hold : Nat, agent : BOOLEAN, remembered : BOOLEAN]
Deletions == [pc : Removing \cup {"check-claim"}, as : {"released", "returned"}]
Listings == [pc : {"claim"}, period : Nat \ {0}]
Links == [pc : {"attach", "link", "forget"}, restores : BOOLEAN, links : BOOLEAN,
          attached : BOOLEAN]
Pauses == [pc : {"idle", "restore"}]

Locals == Renewals \cup Deletions \cup Listings \cup Links \cup Pauses

Holds == [period : Nat \ {0}, after : Nat, status : {"ACTIVE", "SETTLED", "RELEASED"}]

Typed == TypeOK /\ proc \in [Workers -> Locals]

\* The program counter tells the kind of local state.
LEMMA LocalKinds ==
    ASSUME proc \in [Workers -> Locals], NEW w \in Workers
    PROVE  /\ proc[w].pc \in Renewing \cup {"detach", "unlink"} => proc[w] \in Renewals
           /\ proc[w].pc \in Removing \cup {"check-claim"} => proc[w] \in Deletions
           /\ proc[w].pc = "claim" => proc[w] \in Listings
           /\ proc[w].pc \in {"attach", "link", "forget"} => proc[w] \in Links
  BY DEF Locals, Renewals, Deletions, Listings, Links, Pauses, Renewing, Removing

Others(w) == \A v \in Workers \ {w} : proc'[v] = proc[v]

LEMMA GotoMoves ==
    ASSUME proc \in [Workers -> Locals], NEW w \in Workers, NEW local \in Locals,
           Goto(w, local)
    PROVE  /\ proc' \in [Workers -> Locals] /\ proc'[w] = local /\ Others(w)
  BY DEF Goto, Others

LEMMA StopMoves ==
    ASSUME proc \in [Workers -> Locals], NEW w \in Workers, Stop(w)
    PROVE  /\ proc' \in [Workers -> Locals] /\ proc'[w].pc = "idle" /\ Others(w)
  <1>1. Idle \in Locals
    BY DEF Idle, Locals, Pauses
  <1> QED BY <1>1, GotoMoves DEF Stop, Idle

\* What a step of a renewal changes of its local state, and what it keeps.
Keeps(w) == /\ proc'[w].mode = proc[w].mode
            /\ proc'[w].period = proc[w].period

LEMMA RenewalMoves ==
    ASSUME proc \in [Workers -> Locals], NEW w \in Workers,
           proc[w].pc \in Renewing \cup {"detach", "unlink"},
           NEW pc \in Renewing \cup {"detach", "unlink"}, NEW i \in Nat,
           \/ Step(w, pc) /\ i = proc[w].hold
           \/ Goto(w, [proc[w] EXCEPT !.pc = pc, !.hold = i])
    PROVE  /\ proc' \in [Workers -> Locals] /\ Others(w)
           /\ proc'[w].pc = pc /\ proc'[w].hold = i /\ Keeps(w)
  <1>1. proc[w] \in Renewals
    BY LocalKinds
  <1> DEFINE local == [proc[w] EXCEPT !.pc = pc, !.hold = i]
  <1>2. local \in Renewals /\ local.pc = pc /\ local.hold = i
        /\ local.mode = proc[w].mode /\ local.period = proc[w].period
    BY <1>1 DEF Renewals
  <1>3. [proc[w] EXCEPT !.pc = pc] = [proc[w] EXCEPT !.pc = pc, !.hold = proc[w].hold]
    BY <1>1 DEF Renewals
  <1>4. Goto(w, local)
    BY <1>3 DEF Step
  <1> HIDE DEF local
  <1>5. local \in Locals
    BY <1>2 DEF Locals
  <1> QED BY <1>2, <1>4, <1>5, GotoMoves DEF Keeps

LEMMA DeletionMoves ==
    ASSUME proc \in [Workers -> Locals], NEW w \in Workers,
           proc[w].pc \in Removing \cup {"check-claim"},
           NEW pc \in Removing \cup {"check-claim"}, Step(w, pc)
    PROVE  /\ proc' \in [Workers -> Locals] /\ Others(w)
           /\ proc'[w].pc = pc /\ proc'[w].as = proc[w].as
  <1>1. proc[w] \in Deletions
    BY LocalKinds
  <1> DEFINE local == [proc[w] EXCEPT !.pc = pc]
  <1>2. local \in Deletions /\ local.pc = pc /\ local.as = proc[w].as
    BY <1>1 DEF Deletions
  <1>3. Goto(w, local)
    BY DEF Step
  <1> HIDE DEF local
  <1>4. local \in Locals
    BY <1>2 DEF Locals
  <1> QED BY <1>2, <1>3, <1>4, GotoMoves

LEMMA LinkMoves ==
    ASSUME proc \in [Workers -> Locals], NEW w \in Workers,
           proc[w].pc \in {"attach", "link"}, 
           \/ Step(w, "forget")
           \/ Goto(w, [proc[w] EXCEPT !.pc = "link", !.attached = TRUE])
    PROVE  /\ proc' \in [Workers -> Locals] /\ Others(w)
           /\ proc'[w].pc \in {"link", "forget"}
  <1>1. proc[w] \in Links
    BY LocalKinds
  <1>2. CASE Step(w, "forget")
    <2> DEFINE local == [proc[w] EXCEPT !.pc = "forget"]
    <2>1. local \in Links /\ local.pc = "forget"
      BY <1>1 DEF Links
    <2>2. Goto(w, local)
      BY <1>2 DEF Step
    <2> HIDE DEF local
    <2>3. local \in Locals
      BY <2>1 DEF Locals
    <2> QED BY <2>1, <2>2, <2>3, GotoMoves
  <1>3. CASE Goto(w, [proc[w] EXCEPT !.pc = "link", !.attached = TRUE])
    <2> DEFINE local == [proc[w] EXCEPT !.pc = "link", !.attached = TRUE]
    <2>1. local \in Links /\ local.pc = "link"
      BY <1>1 DEF Links
    <2>2. Goto(w, local)
      BY <1>3
    <2> HIDE DEF local
    <2>3. local \in Locals
      BY <2>1 DEF Locals
    <2> QED BY <2>1, <2>2, <2>3, GotoMoves
  <1> QED BY <1>2, <1>3

-----------------------------------------------------------------------------
(* Steps by their effect on the row, the worker and the holds.             *)

SameRow ==
    /\ number'.status = number.status /\ number'.period = number.period
    /\ number'.token = number.token /\ number'.authorized = number.authorized

Removed(w) == proc[w].pc \in Removing /\ proc[w].as = "released"

\* A worker outside of a renewal after the step: the row keeps its period and
\* its authorization, and is at most given back, deleted, or resumed for an
\* authorized release.
Aside(w) ==
    /\ Others(w) /\ holds' = holds
    /\ proc'[w].pc \notin Renewing
    /\ Removed(w)' => number.authorized
    /\ number'.period = number.period /\ number'.authorized = number.authorized
    /\ \/ /\ number'.status = number.status
          /\ \/ number'.token = number.token
             \/ number.token \in Workers /\ number'.token \in {None, Dead}
       \/ number'.status = "GONE" /\ number'.token = None
       \/ /\ number'.status = "RELEASING" /\ number'.token = w
          /\ number.authorized /\ number.status # "GONE"

\* A renewal that ends by putting the number off.
PutsOff(w) ==
    /\ Others(w) /\ holds' = holds
    /\ proc[w].pc \in Renewing /\ number.token = w
    /\ proc'[w].pc \notin Renewing /\ ~Removed(w)'
    /\ number'.period = number.period /\ ~number'.authorized
    /\ number'.status = "RELEASE_PENDING" /\ number'.token = None

\* A claim for a renewal or for the last chance.
TakesUp(w) ==
    /\ Others(w) /\ holds' = holds
    /\ proc'[w].pc = "find-hold" /\ proc'[w].period = number.period
    /\ ~number.authorized /\ number.status # "GONE"
    /\ number'.period = number.period /\ ~number'.authorized
    /\ number'.status \in Renewable \cup {"RELEASING"} /\ number'.token = w

\* A step of somebody who is no worker of this number.
Elsewhere == SameRow /\ proc' = proc

LEMMA FailedRowType ==
    ASSUME Typed, NEW w \in Workers
    PROVE  FailedRow(w) \in
              [status : Renewable \cup {"RELEASING", "GONE"}, period : Nat \ {0},
               due : BOOLEAN, overdue : BOOLEAN, agent : BOOLEAN, remembered : BOOLEAN,
               token : Workers \cup {None, Dead}, lapsed : BOOLEAN, authorized : BOOLEAN]
  BY DEF Typed, TypeOK, FailedRow, Unowned, Renewable

LEMMA FailedRowEffect ==
    ASSUME Typed, NEW w \in Workers, proc[w].pc \in Renewing,
           number' = FailedRow(w), Stop(w), holds' = holds
    PROVE  Aside(w) \/ PutsOff(w)
  <1>1. proc'[w].pc = "idle" /\ Others(w)
    BY StopMoves DEF Typed
  <1>2. proc'[w].pc \notin Renewing /\ ~Removed(w)'
    BY <1>1 DEF Renewing, Removed, Removing
  <1>3. CASE number.token = w /\ proc[w].mode # "scheduled" /\ number.status = "RELEASING"
    <2>1. /\ number'.status = "RELEASE_PENDING" /\ number'.token = None
          /\ number'.authorized = FALSE /\ number'.period = number.period
      BY <1>3 DEF FailedRow, Unowned, Typed, TypeOK
    <2> QED BY <1>1, <1>2, <1>3, <2>1 DEF PutsOff
  <1>4. CASE ~(number.token = w /\ proc[w].mode # "scheduled" /\ number.status = "RELEASING")
    <2>1. /\ number'.status = number.status
          /\ number'.authorized = number.authorized /\ number'.period = number.period
          /\ \/ number'.token = number.token
             \/ number.token \in Workers /\ number'.token = None
      BY <1>4 DEF FailedRow, Unowned, Typed, TypeOK
    <2> QED BY <1>1, <1>2, <2>1 DEF Aside
  <1> QED BY <1>3, <1>4

LEMMA AbandonedEffect ==
    ASSUME Typed, NEW w \in Workers, number' = Abandoned(w), Stop(w), holds' = holds
    PROVE  Aside(w) /\ TypeOK /\ proc' \in [Workers -> Locals]
  <1>1. proc'[w].pc = "idle" /\ Others(w) /\ proc' \in [Workers -> Locals]
    BY StopMoves DEF Typed
  <1>2. proc'[w].pc \notin Renewing /\ ~Removed(w)'
    BY <1>1 DEF Renewing, Removed, Removing
  <1>3. /\ number'.status = number.status
        /\ number'.authorized = number.authorized /\ number'.period = number.period
        /\ \/ number'.token = number.token
           \/ number.token \in Workers /\ number'.token = Dead
    BY DEF Abandoned, Typed, TypeOK
  <1> QED BY <1>1, <1>2, <1>3 DEF Aside, Typed

-----------------------------------------------------------------------------
(* The inductive invariant.                                                *)

\* Of the holds of a period all but the last are released, and each but the
\* last has a successor; the first is found under the key without predecessor.
Chain ==
    \A p \in Nat \ {0} :
        /\ \A i, j \in OfPeriod(p) :
              i < j => /\ holds[i].status = "RELEASED"
                       /\ \E k \in OfPeriod(p) : holds[k].after = i
        /\ OfPeriod(p) # {} => /\ \E k \in OfPeriod(p) : holds[k].after = 0
                               /\ \E i \in OfPeriod(p) : \A j \in OfPeriod(p) : j <= i

\* What a renewal knows of its hold.
HoldKnown(w) ==
    /\ proc[w].pc = "reserve" /\ proc[w].hold # 0 =>
          /\ proc[w].hold \in OfPeriod(proc[w].period)
          /\ holds[proc[w].hold].status = "RELEASED"
    /\ proc[w].pc \in {"refresh", "let-go", "settle", "refresh-settled", "complete"} =>
          proc[w].hold \in OfPeriod(proc[w].period)
    /\ proc[w].pc \in {"refresh-settled", "complete"} =>
          holds[proc[w].hold].status = "SETTLED"

HoldsKnown == \A w \in Workers : HoldKnown(w)

\* A worker that renews under the token works on the current period of a number
\* whose release is not authorized; one that removes for a release may.
Claims ==
    /\ number.authorized => number.status \in {"RELEASING", "GONE"}
    /\ number.status = "GONE" => number.token = None
    /\ \A w \in Workers :
          /\ number.token = w /\ proc[w].pc \in Renewing =>
                ~number.authorized /\ proc[w].period = number.period
          /\ Removed(w) => number.authorized

\* While a worker that was told to settle may still do so, whoever has the
\* token now has not passed over its hold.
Settleable(w) == proc[w].pc = "settle" /\ holds[proc[w].hold].status = "ACTIVE"

SettlersSafe ==
    \A w \in Workers : Settleable(w) =>
        /\ ~number.authorized /\ proc[w].period = number.period
        /\ \A v \in Workers : number.token = v =>
              proc[v].pc \notin {"reserve", "reload", "authorize"}

PastPaid == \A p \in 1..(number.period - 1) : PaidHolds(p) # {}

Inv ==
    Typed /\ Chain /\ HoldsKnown /\ Claims /\ SettlersSafe /\ PastPaid
          /\ OnlyAuthorizedReleases

\* What NoReturn says of one step.
NoReturnStep ==
    number.authorized =>
        /\ number'.authorized
        /\ \A i \in 1..Len(holds) :
              holds'[i].status = "SETTLED" => holds[i].status = "SETTLED"

-----------------------------------------------------------------------------
(* Every action that is not part of a renewal leaves the row aside.        *)

Row == [status : Renewable \cup {"RELEASING", "GONE"}, period : Nat \ {0},
        due : BOOLEAN, overdue : BOOLEAN, agent : BOOLEAN, remembered : BOOLEAN,
        token : Workers \cup {None, Dead}, lapsed : BOOLEAN, authorized : BOOLEAN]

LEMMA StartAside ==
    ASSUME Typed, NEW w \in Workers,
           \/ ListDue(w) \/ ListUnbound(w) \/ UpdateLink(w) \/ OwnerDeletes(w)
           \/ RestoreBinding(w)
    PROVE  Aside(w) /\ Typed'
  <1>1. PICK local \in Locals :
            /\ Goto(w, local)
            /\ local.pc \in {"idle", "claim", "restore", "attach", "link", "check-claim"}
    <2>1. CASE ListDue(w)
      <3>1. [pc |-> "claim", period |-> number.period] \in Locals
        BY DEF Typed, TypeOK, Locals, Listings
      <3> QED BY <2>1, <3>1 DEF ListDue
    <2>2. CASE ListUnbound(w)
      <3>1. [pc |-> "restore"] \in Locals
        BY DEF Locals, Pauses
      <3> QED BY <2>2, <3>1 DEF ListUnbound
    <2>3. CASE UpdateLink(w)
      <3>1. PICK links \in BOOLEAN :
                Goto(w, [pc |-> "attach", restores |-> FALSE, links |-> links,
                         attached |-> FALSE])
        BY <2>3 DEF UpdateLink
      <3>2. [pc |-> "attach", restores |-> FALSE, links |-> links,
             attached |-> FALSE] \in Locals
        BY DEF Locals, Links
      <3> QED BY <3>1, <3>2
    <2>4. CASE OwnerDeletes(w)
      <3>1. Deleting("returned") \in Locals /\ Deleting("returned").pc = "check-claim"
        BY DEF Locals, Deletions, Deleting
      <3> QED BY <2>4, <3>1 DEF OwnerDeletes
    <2>5. CASE RestoreBinding(w)
      <3>1. \A pc \in {"link", "attach"} :
                [pc |-> pc, restores |-> TRUE, links |-> TRUE, attached |-> FALSE] \in Locals
        BY DEF Locals, Links
      <3>2. Idle \in Locals /\ Idle.pc = "idle"
        BY DEF Locals, Pauses, Idle
      <3> QED BY <2>5, <3>1, <3>2 DEF RestoreBinding, Stop
    <2> QED BY <2>1, <2>2, <2>3, <2>4, <2>5
  <1>2. proc' \in [Workers -> Locals] /\ proc'[w].pc = local.pc /\ Others(w)
    BY <1>1, GotoMoves DEF Typed
  <1>3. proc'[w].pc \notin Renewing \cup Removing
    BY <1>1, <1>2 DEF Renewing, Removing
  <1>4. UNCHANGED <<number, provider, holds, funds, spent>>
    BY DEF ListDue, ListUnbound, UpdateLink, OwnerDeletes, RestoreBinding
  <1>5. Typed'
    BY <1>2, <1>4 DEF Typed, TypeOK
  <1> QED BY <1>2, <1>3, <1>4, <1>5 DEF Aside, Removed

\* The row as an agent is linked to it or taken off it.
LEMMA RowLink ==
    ASSUME Typed, NEW b \in BOOLEAN
    PROVE  /\ [number EXCEPT !.agent = b] \in Row
           /\ [number EXCEPT !.remembered = b] \in Row
  BY DEF Typed, TypeOK, Row

LEMMA LinkAside ==
    ASSUME Typed, NEW w \in Workers,
           \/ Attach(w) \/ Link(w) \/ Forget(w) \/ Detach(w) \/ Unlink(w)
    PROVE  Aside(w) /\ Typed'
  <1>1. /\ proc' \in [Workers -> Locals] /\ Others(w)
        /\ proc'[w].pc \in {"idle", "link", "forget", "unlink"}
    <2>1. CASE Stop(w)
      BY <2>1, StopMoves DEF Typed
    <2>2. CASE Attach(w) /\ ~Stop(w)
      <3>1. proc[w].pc = "attach"
            /\ Goto(w, [proc[w] EXCEPT !.pc = "link", !.attached = TRUE])
        BY <2>2 DEF Attach, At
      <3> QED BY <3>1, LinkMoves DEF Typed
    <2>3. CASE Link(w) /\ ~Stop(w)
      <3>1. proc[w].pc = "link" /\ Step(w, "forget")
        BY <2>3 DEF Link, At
      <3> QED BY <3>1, LinkMoves DEF Typed
    <2>4. CASE Detach(w) /\ ~Stop(w)
      <3>1. proc[w].pc = "detach" /\ Step(w, "unlink")
        BY <2>4 DEF Detach, At
      <3>2. proc[w].hold \in Nat
        BY <3>1, LocalKinds DEF Typed, Renewals
      <3> QED BY <3>1, <3>2, RenewalMoves DEF Typed
    <2> QED BY <2>1, <2>2, <2>3, <2>4 DEF Forget, Unlink
  <1>2. /\ number' \in Row /\ SameRow
        /\ provider' \in [number : {"rented", "released", "returned"}, bound : BOOLEAN]
        /\ spent' \in [deposits : Nat, faults : Nat]
    <2>1. CASE Attach(w) \/ Detach(w)
      <3>1. number' = number /\ number \in Row
        BY <2>1 DEF Attach, Detach, Typed, TypeOK, Row
      <3>2. spent' \in [deposits : Nat, faults : Nat]
        BY <2>1 DEF Attach, Detach, Fault, Typed, TypeOK
      <3>3. \A b \in BOOLEAN : [provider EXCEPT !.bound = b]
                \in [number : {"rented", "released", "returned"}, bound : BOOLEAN]
        BY DEF Typed, TypeOK
      <3>4. CASE Attach(w)
        <4>1. proc[w].links \in BOOLEAN
          BY <3>4, LocalKinds DEF Attach, At, Typed, Links
        <4> QED BY <3>1, <3>2, <3>3, <3>4, <4>1 DEF Attach, SameRow, Typed, TypeOK
      <3>5. CASE Detach(w)
        BY <3>1, <3>2, <3>3, <3>5 DEF Detach, SameRow, Typed, TypeOK
      <3> QED BY <2>1, <3>4, <3>5
    <2>2. CASE Link(w)
      <3>1. proc[w].links \in BOOLEAN
        BY <2>2, LocalKinds DEF Link, At, Typed, Links
      <3>2. [number EXCEPT !.agent = proc[w].links] \in Row /\ number \in Row
        BY <3>1, RowLink DEF Typed, TypeOK, Row
      <3>3. [provider EXCEPT !.bound = ~proc[w].links]
                \in [number : {"rented", "released", "returned"}, bound : BOOLEAN]
        BY <3>1 DEF Typed, TypeOK
      <3>4. SameRow
        BY <2>2 DEF Link, SameRow, Typed, TypeOK
      <3> QED BY <2>2, <3>2, <3>3, <3>4 DEF Link, Typed, TypeOK
    <2>3. CASE Forget(w) \/ Unlink(w)
      <3>1. SameRow
        BY <2>3 DEF Forget, Unlink, SameRow, Typed, TypeOK
      <3> QED BY <2>3, <3>1, RowLink DEF Forget, Unlink, Typed, TypeOK
    <2> QED BY <2>1, <2>2, <2>3
  <1>3. UNCHANGED <<holds, funds>>
    BY DEF Attach, Link, Forget, Detach, Unlink
  <1>4. proc'[w].pc \notin Renewing \cup Removing
    BY <1>1 DEF Renewing, Removing
  <1>5. Typed'
    BY <1>1, <1>2, <1>3 DEF Typed, TypeOK, Row
  <1>6. Aside(w)
    BY <1>1, <1>2, <1>3, <1>4 DEF Aside, Removed, SameRow
  <1> QED BY <1>5, <1>6

LEMMA OwnedByType ==
    ASSUME Typed, NEW w \in Workers
    PROVE  OwnedBy(w, number) \in Row
  BY DEF Typed, TypeOK, OwnedBy, Row

LEMMA AbandonedType ==
    ASSUME Typed, NEW w \in Workers
    PROVE  Abandoned(w) \in Row
  BY DEF Typed, TypeOK, Abandoned, Row

LEMMA FaultType ==
    ASSUME spent \in [deposits : Nat, faults : Nat], Fault
    PROVE  spent' \in [deposits : Nat, faults : Nat]
  BY DEF Fault

\* A deletion that looked at its claim keeps the lease it found.
LEMMA RefreshedEffect ==
    ASSUME Typed, NEW w \in Workers, MayDelete(w), number' = Refreshed(w)
    PROVE  SameRow /\ number' \in Row
  <1>1. CASE proc[w].as = "returned"
    BY <1>1 DEF Refreshed, SameRow, Typed, TypeOK, Row
  <1>2. CASE proc[w].as # "returned"
    <2>1. number' = OwnedBy(w, number) /\ number.token = w
      BY <1>2 DEF Refreshed, MayDelete
    <2>2. number' \in Row
      BY <2>1, OwnedByType
    <2>3. SameRow
      BY <2>1 DEF OwnedBy, SameRow, Typed, TypeOK
    <2> QED BY <2>2, <2>3
  <1> QED BY <1>1, <1>2

LEMMA DeletionAside ==
    ASSUME Typed, Claims, NEW w \in Workers,
           \/ CheckReleaseClaim(w) \/ TakeDown(w) \/ CheckAgain(w)
           \/ DeleteAtProvider(w) \/ DeleteRow(w) \/ Crash(w)
    PROVE  Aside(w) /\ Typed'
  <1> DEFINE Providers == [number : {"rented", "released", "returned"}, bound : BOOLEAN]
  <1>1. CASE Stop(w) /\ number' = Abandoned(w) /\ Fault
             /\ UNCHANGED <<provider, holds, funds>>
    <2>1. spent' \in [deposits : Nat, faults : Nat]
      BY <1>1, FaultType DEF Typed, TypeOK
    <2>2. number' \in Row /\ Aside(w) /\ proc' \in [Workers -> Locals]
      BY <1>1, AbandonedEffect, AbandonedType
    <2> QED BY <1>1, <2>1, <2>2 DEF Typed, TypeOK, Row
  <1>2. CASE Stop(w) /\ UNCHANGED <<number, provider, holds, funds, spent>>
    <2>1. /\ proc' \in [Workers -> Locals] /\ Others(w) /\ proc'[w].pc = "idle"
      BY <1>2, StopMoves DEF Typed
    <2>2. proc'[w].pc \notin Renewing \cup Removing
      BY <2>1 DEF Renewing, Removing
    <2>3. Aside(w)
      BY <1>2, <2>1, <2>2 DEF Aside, Removed
    <2> QED BY <1>2, <2>1, <2>3 DEF Typed, TypeOK
  <1>3. ASSUME NEW pc \in Removing, proc[w].pc \in Removing \cup {"check-claim"},
               Step(w, pc), SameRow, number' \in Row, provider' \in Providers,
               proc[w].as = "released" => number.authorized,
               UNCHANGED <<holds, funds, spent>>
        PROVE  Aside(w) /\ Typed'
    <2>1. /\ proc' \in [Workers -> Locals] /\ Others(w)
          /\ proc'[w].pc = pc /\ proc'[w].as = proc[w].as
      BY <1>3, DeletionMoves DEF Typed
    <2>2. pc \notin Renewing
      BY DEF Removing, Renewing
    <2>3. Aside(w)
      BY <1>3, <2>1, <2>2 DEF Aside, Removed, SameRow
    <2> QED BY <1>3, <2>1, <2>3 DEF Typed, TypeOK, Row
  <1>4. number \in Row /\ provider \in Providers
    BY DEF Typed, TypeOK, Row
  <1>6. CASE (CheckReleaseClaim(w) \/ CheckAgain(w)) /\ MayDelete(w)
    <2>1. SameRow /\ number' \in Row
      BY <1>6, RefreshedEffect DEF CheckReleaseClaim, CheckAgain
    <2>2. PICK pc \in Removing : Step(w, pc)
      BY <1>6 DEF CheckReleaseClaim, CheckAgain, Removing
    <2>3. proc[w].pc \in Removing \cup {"check-claim"}
      BY <1>6 DEF CheckReleaseClaim, CheckAgain, At, Removing
    <2>4. proc[w].as = "released" => number.authorized
      BY <1>6 DEF MayDelete
    <2>5. UNCHANGED <<holds, funds, spent>> /\ provider' = provider
      BY <1>6 DEF CheckReleaseClaim, CheckAgain
    <2> QED BY <1>3, <1>4, <2>1, <2>2, <2>3, <2>4, <2>5
  <1>7. CASE /\ TakeDown(w) /\ provider' = [provider EXCEPT !.bound = FALSE]
             /\ Step(w, IF proc[w].as = "returned" THEN "delete" ELSE "check-again")
             /\ UNCHANGED <<number, spent>>
    <2>1. PICK pc \in Removing : Step(w, pc)
      BY <1>7 DEF TakeDown, Removing
    <2>2. /\ proc[w].pc = "take-down" /\ number' = number
          /\ UNCHANGED <<holds, funds, spent>>
          /\ provider' = [provider EXCEPT !.bound = FALSE]
      BY <1>7 DEF TakeDown, At
    <2>3. provider' \in Providers
      BY <1>4, <2>2
    <2>4. proc[w].as = "released" => number.authorized
      BY <2>2 DEF Claims, Removed, Removing
    <2> QED BY <1>3, <1>4, <2>1, <2>2, <2>3, <2>4 DEF SameRow, Removing
  <1>8. CASE /\ DeleteAtProvider(w) /\ Step(w, "delete-row")
             /\ provider' = IF provider.number = "rented"
                            THEN [number |-> proc[w].as, bound |-> FALSE] ELSE provider
             /\ UNCHANGED <<number, spent>>
    <2>1. /\ proc[w].pc = "delete" /\ number' = number /\ Step(w, "delete-row")
          /\ UNCHANGED <<holds, funds, spent>>
          /\ provider' = IF provider.number = "rented"
                         THEN [number |-> proc[w].as, bound |-> FALSE] ELSE provider
      BY <1>8 DEF DeleteAtProvider, At
    <2>2. proc[w].as \in {"released", "returned"}
      BY <2>1, LocalKinds DEF Typed, Deletions, Removing
    <2>3. provider' \in Providers
      BY <1>4, <2>1, <2>2
    <2>4. proc[w].as = "released" => number.authorized
      BY <2>1 DEF Claims, Removed, Removing
    <2> QED BY <1>3, <1>4, <2>1, <2>3, <2>4 DEF SameRow, Removing
  <1>9. CASE DeleteRow(w) /\ MayDelete(w)
    <2>1. /\ number' = [number EXCEPT !.status = "GONE", !.agent = FALSE, !.due = FALSE,
                                      !.token = None, !.lapsed = FALSE]
          /\ Stop(w) /\ UNCHANGED <<provider, holds, funds, spent>>
      BY <1>9 DEF DeleteRow
    <2>2. /\ proc' \in [Workers -> Locals] /\ Others(w) /\ proc'[w].pc = "idle"
      BY <2>1, StopMoves DEF Typed
    <2>3. proc'[w].pc \notin Renewing \cup Removing
      BY <2>2 DEF Renewing, Removing
    <2>4. /\ number' \in Row /\ number'.status = "GONE" /\ number'.token = None
          /\ number'.period = number.period /\ number'.authorized = number.authorized
      BY <1>4, <2>1 DEF Row
    <2> QED BY <1>4, <2>1, <2>2, <2>3, <2>4 DEF Aside, Removed, Typed, TypeOK, Row
  <1>10. CASE CheckReleaseClaim(w) \/ CheckAgain(w)
    BY <1>2, <1>6, <1>10 DEF CheckReleaseClaim, CheckAgain
  <1>11. CASE TakeDown(w)
    BY <1>1, <1>7, <1>11 DEF TakeDown
  <1>12. CASE DeleteAtProvider(w)
    BY <1>1, <1>8, <1>12 DEF DeleteAtProvider
  <1>13. CASE DeleteRow(w)
    BY <1>2, <1>9, <1>13 DEF DeleteRow
  <1>14. CASE Crash(w)
    BY <1>1, <1>14 DEF Crash
  <1> QED BY <1>10, <1>11, <1>12, <1>13, <1>14

-----------------------------------------------------------------------------
(* Holds are only appended and closed, once.                               *)

HoldsGrow ==
    /\ Len(holds') \in Nat /\ Len(holds) <= Len(holds')
    /\ \A i \in 1..Len(holds) :
          /\ holds'[i].period = holds[i].period /\ holds'[i].after = holds[i].after
          /\ holds[i].status # "ACTIVE" => holds'[i].status = holds[i].status

LEMMA HoldTypes ==
    ASSUME Typed, NEW i \in 1..Len(holds)
    PROVE  holds[i] \in Holds /\ holds[i].status \in {"ACTIVE", "SETTLED", "RELEASED"}
  <1>1. holds \in Seq(Holds)
    BY DEF Typed, TypeOK, Holds
  <1>2. holds[i] \in Holds
    BY <1>1
  <1> QED BY <1>2 DEF Holds

LEMMA HoldsUnchanged ==
    ASSUME Typed, holds' = holds
    PROVE  HoldsGrow /\ (Chain => Chain')
  <1>1. Len(holds) \in Nat
    BY DEF Typed, TypeOK
  <1>2. HoldsGrow
    BY <1>1 DEF HoldsGrow
  <1>3. Chain => Chain'
    <2>1. \A p : OfPeriod(p)' = OfPeriod(p)
      BY DEF OfPeriod
    <2> QED BY <2>1 DEF Chain
  <1> QED BY <1>2, <1>3

\* Closing a hold, or closing it again in the same way.
LEMMA CloseHold ==
    ASSUME Typed, Chain, NEW h \in 1..Len(holds), NEW status \in {"SETTLED", "RELEASED"},
           holds[h].status \in {"ACTIVE", status},
           holds' = [holds EXCEPT ![h].status = status]
    PROVE  /\ HoldsGrow /\ Chain' /\ holds' \in Seq(Holds) /\ Len(holds') = Len(holds)
           /\ holds'[h].status = status
           /\ \A i \in 1..Len(holds) \ {h} : holds'[i] = holds[i]
  <1>1. holds \in Seq(Holds) /\ Len(holds) \in Nat
    BY DEF Typed, TypeOK, Holds
  <1>2. /\ holds' \in Seq(Holds) /\ Len(holds') = Len(holds)
        /\ \A i \in 1..Len(holds) \ {h} : holds'[i] = holds[i]
        /\ holds'[h].status = status
        /\ holds'[h].period = holds[h].period /\ holds'[h].after = holds[h].after
    <2> DEFINE closed == [holds[h] EXCEPT !.status = status]
    <2>1. holds[h] \in Holds
      BY <1>1
    <2>2. /\ closed \in Holds /\ closed.status = status
          /\ closed.period = holds[h].period /\ closed.after = holds[h].after
      BY <2>1 DEF Holds
    <2>3. holds' = [holds EXCEPT ![h] = closed]
      OBVIOUS
    <2> HIDE DEF closed
    <2> QED BY <1>1, <2>2, <2>3
  <1>3. HoldsGrow
    BY <1>1, <1>2 DEF HoldsGrow
  <1>4. \A p : OfPeriod(p)' = OfPeriod(p)
    BY <1>2 DEF OfPeriod
  <1>5. \A i \in 1..Len(holds) : /\ holds'[i].after = holds[i].after
                                /\ holds[i].status = "RELEASED" =>
                                      holds'[i].status = "RELEASED"
    BY <1>2
  <1>6. \A p : \A i \in OfPeriod(p) : i \in 1..Len(holds)
    BY DEF OfPeriod
  <1>7. Chain'
    <2> SUFFICES ASSUME NEW p \in Nat \ {0}
                 PROVE  /\ \A i, j \in OfPeriod(p) :
                              i < j => /\ holds'[i].status = "RELEASED"
                                       /\ \E k \in OfPeriod(p) : holds'[k].after = i
                        /\ OfPeriod(p) # {} =>
                              /\ \E k \in OfPeriod(p) : holds'[k].after = 0
                              /\ \E i \in OfPeriod(p) : \A j \in OfPeriod(p) : j <= i
      BY <1>4 DEF Chain
    <2> QED BY <1>5, <1>6 DEF Chain
  <1> QED BY <1>2, <1>3, <1>7

\* A hold is appended after the last one of its period.
LEMMA AppendHold ==
    ASSUME Typed, Chain, NEW p \in Nat \ {0}, NEW last \in Nat,
           last # 0 => last \in OfPeriod(p) /\ holds[last].status = "RELEASED",
           \A i \in OfPeriod(p) : holds[i].after # last,
           holds' = Append(holds, [period |-> p, after |-> last, status |-> "ACTIVE"])
    PROVE  /\ HoldsGrow /\ Chain' /\ holds' \in Seq(Holds)
           /\ Len(holds) + 1 \in OfPeriod(p)'
           /\ \A i \in 1..Len(holds) : holds'[i] = holds[i]
  <1> DEFINE n == Len(holds)
             new == [period |-> p, after |-> last, status |-> "ACTIVE"]
  <1>1. holds \in Seq(Holds) /\ n \in Nat /\ new \in Holds
    BY DEF Typed, TypeOK, Holds
  <1>2. /\ holds' \in Seq(Holds) /\ Len(holds') = n + 1
        /\ \A i \in 1..n : holds'[i] = holds[i]
        /\ holds'[n + 1] = new
    BY <1>1
  <1>3. HoldsGrow
    BY <1>1, <1>2 DEF HoldsGrow
  <1>4. /\ \A q : q # p => OfPeriod(q)' = OfPeriod(q)
        /\ OfPeriod(p)' = OfPeriod(p) \cup {n + 1}
    BY <1>1, <1>2 DEF OfPeriod
  <1>5. \A q : \A i \in OfPeriod(q) : i \in 1..n /\ holds'[i] = holds[i]
    BY <1>2 DEF OfPeriod
  <1>6. holds'[n + 1].after = last /\ \A i \in 1..n : i < n + 1
    BY <1>1, <1>2
  <1> HIDE DEF n, new
  <1>7. ASSUME NEW i \in OfPeriod(p)
        PROVE  holds[i].status = "RELEASED" /\ \E k \in OfPeriod(p)' : holds'[k].after = i
    <2>1. last # 0 /\ last \in OfPeriod(p) /\ last \in Nat /\ i \in Nat
      BY <1>1, <1>5, <1>7 DEF Chain
    <2>2. CASE i = last
      BY <1>4, <1>6, <2>1, <2>2
    <2>3. CASE i < last
      <3>1. holds[i].status = "RELEASED" /\ \E k \in OfPeriod(p) : holds[k].after = i
        BY <2>1, <2>3 DEF Chain
      <3> QED BY <1>4, <1>5, <3>1
    <2>4. CASE last < i
      <3>1. \E k \in OfPeriod(p) : holds[k].after = last
        BY <2>1, <2>4 DEF Chain
      <3> QED BY <3>1
    <2>5. i = last \/ i < last \/ last < i
      BY <2>1
    <2> QED BY <2>2, <2>3, <2>4, <2>5
  <1>8. Chain'
    <2> SUFFICES ASSUME NEW q \in Nat \ {0}
                 PROVE  /\ \A i, j \in OfPeriod(q)' :
                              i < j => /\ holds'[i].status = "RELEASED"
                                       /\ \E k \in OfPeriod(q)' : holds'[k].after = i
                        /\ OfPeriod(q)' # {} =>
                              /\ \E k \in OfPeriod(q)' : holds'[k].after = 0
                              /\ \E i \in OfPeriod(q)' : \A j \in OfPeriod(q)' : j <= i
      BY DEF Chain
    <2>1. CASE q # p
      <3>1. OfPeriod(q)' = OfPeriod(q)
        BY <1>4, <2>1
      <3>2. \A i \in OfPeriod(q) : holds'[i] = holds[i]
        BY <1>5
      <3>3. ASSUME NEW i \in OfPeriod(q), NEW j \in OfPeriod(q), i < j
            PROVE  /\ holds'[i].status = "RELEASED"
                   /\ \E k \in OfPeriod(q) : holds'[k].after = i
        <4>1. holds[i].status = "RELEASED" /\ \E k \in OfPeriod(q) : holds[k].after = i
          BY <3>3 DEF Chain
        <4> QED BY <3>2, <4>1
      <3>4. ASSUME OfPeriod(q) # {}
            PROVE  /\ \E k \in OfPeriod(q) : holds'[k].after = 0
                   /\ \E i \in OfPeriod(q) : \A j \in OfPeriod(q) : j <= i
        <4>1. /\ \E k \in OfPeriod(q) : holds[k].after = 0
              /\ \E i \in OfPeriod(q) : \A j \in OfPeriod(q) : j <= i
          BY <3>4 DEF Chain
        <4> QED BY <3>2, <4>1
      <3> QED BY <3>1, <3>3, <3>4
    <2>2. CASE q = p
      <3>1. ASSUME NEW i \in OfPeriod(p)', NEW j \in OfPeriod(p)', i < j
            PROVE  /\ holds'[i].status = "RELEASED"
                   /\ \E k \in OfPeriod(p)' : holds'[k].after = i
        <4>1. i \in OfPeriod(p)
          BY <1>1, <1>4, <1>5, <3>1
        <4> QED BY <1>5, <1>7, <4>1
      <3>2. \E k \in OfPeriod(p)' : holds'[k].after = 0
        <4>1. CASE last = 0
          BY <1>4, <1>6, <4>1
        <4>2. CASE last # 0
          BY <1>4, <1>5, <4>2 DEF Chain
        <4> QED BY <4>1, <4>2
      <3>3. \A j \in OfPeriod(p)' : j <= n + 1
        BY <1>1, <1>4, <1>5
      <3> QED BY <1>4, <2>2, <3>1, <3>2, <3>3
    <2> QED BY <2>1, <2>2
  <1> QED BY <1>2, <1>3, <1>4, <1>8 DEF n

LEMMA KnownKept ==
    ASSUME Typed, HoldsKnown, NEW w \in Workers, Others(w), HoldsGrow, HoldKnown(w)'
    PROVE  HoldsKnown'
  <1> SUFFICES ASSUME NEW v \in Workers \ {w}
               PROVE  HoldKnown(v)'
    BY DEF HoldsKnown
  <1>1. proc'[v] = proc[v] /\ HoldKnown(v)
    BY DEF Others, HoldsKnown
  <1>2. \A p : \A i \in OfPeriod(p) : i \in OfPeriod(p)' /\ i \in 1..Len(holds)
    BY DEF HoldsGrow, OfPeriod, Typed, TypeOK
  <1>3. \A p : \A i \in OfPeriod(p) :
            holds[i].status # "ACTIVE" => holds'[i].status = holds[i].status
    BY DEF HoldsGrow, OfPeriod
  <1> QED BY <1>1, <1>2, <1>3 DEF HoldKnown

LEMMA IdleKnown ==
    ASSUME NEW w \in Workers, proc'[w].pc \notin Renewing
    PROVE  HoldKnown(w)'
  BY DEF HoldKnown, Renewing

LEMMA PaidKept ==
    ASSUME Typed, HoldsGrow, PastPaid, number'.period = number.period
    PROVE  PastPaid'
  <1> SUFFICES ASSUME NEW p \in 1..(number.period - 1)
               PROVE  PaidHolds(p)' # {}
    BY DEF PastPaid
  <1>1. PICK i \in 1..Len(holds) : holds[i].period = p /\ holds[i].status = "SETTLED"
    BY DEF PastPaid, PaidHolds, OfPeriod
  <1>2. i \in 1..Len(holds') /\ holds'[i].period = p /\ holds'[i].status = "SETTLED"
    <2>1. Len(holds) \in Nat
      BY DEF Typed, TypeOK
    <2> QED BY <1>1, <2>1 DEF HoldsGrow
  <1> QED BY <1>2 DEF PaidHolds, OfPeriod

-----------------------------------------------------------------------------
(* The invariant under these kinds of steps.                               *)

LEMMA AsideInv ==
    ASSUME Inv, Typed', NEW w \in Workers, Aside(w), OnlyAuthorizedReleases'
    PROVE  Inv' /\ NoReturnStep
  <1> USE DEF Inv
  <1>1. HoldsGrow /\ Chain' /\ number'.period = number.period
        /\ number'.authorized = number.authorized
    BY HoldsUnchanged DEF Aside
  <1>2. HoldsKnown' /\ PastPaid'
    BY <1>1, KnownKept, IdleKnown, PaidKept DEF Aside
  <1>3. Claims'
    <2>1. \A v \in Workers \ {w} : proc'[v] = proc[v]
      BY DEF Aside, Others
    <2>2. number'.authorized => number'.status \in {"RELEASING", "GONE"}
      BY <1>1 DEF Aside, Claims
    <2>3. number'.status = "GONE" => number'.token = None
      BY TokensDiffer DEF Aside, Claims
    <2>4. ASSUME NEW v \in Workers, number'.token = v, proc'[v].pc \in Renewing
          PROVE  ~number'.authorized /\ proc'[v].period = number'.period
      <3>1. v # w /\ number.token = v
        BY <2>4, TokensDiffer DEF Aside
      <3> QED BY <1>1, <2>1, <2>4, <3>1 DEF Claims
    <2>5. ASSUME NEW v \in Workers, Removed(v)'
          PROVE  number'.authorized
      BY <1>1, <2>1, <2>5 DEF Claims, Aside, Removed
    <2> QED BY <2>2, <2>3, <2>4, <2>5 DEF Claims
  <1>4. SettlersSafe'
    <2> SUFFICES ASSUME NEW v \in Workers, Settleable(v)'
                 PROVE  /\ ~number'.authorized /\ proc'[v].period = number'.period
                        /\ \A u \in Workers : number'.token = u =>
                              proc'[u].pc \notin {"reserve", "reload", "authorize"}
      BY DEF SettlersSafe
    <2>1. v # w
      BY DEF Settleable, Aside, Renewing
    <2>2. proc'[v] = proc[v] /\ Settleable(v)
      BY <2>1 DEF Settleable, Aside, Others
    <2>3. ASSUME NEW u \in Workers, number'.token = u,
                 proc'[u].pc \in {"reserve", "reload", "authorize"}
          PROVE  FALSE
      <3>1. u # w /\ number.token = u
        BY <2>3, TokensDiffer DEF Aside, Renewing
      <3>2. proc'[u] = proc[u]
        BY <3>1 DEF Aside, Others
      <3> QED BY <2>2, <2>3, <3>1, <3>2 DEF SettlersSafe
    <2> QED BY <1>1, <2>2, <2>3 DEF SettlersSafe
  <1>5. NoReturnStep
    BY <1>1 DEF Aside, NoReturnStep
  <1> QED BY <1>1, <1>2, <1>3, <1>4, <1>5

LEMMA PutsOffInv ==
    ASSUME Inv, Typed', NEW w \in Workers, PutsOff(w), provider' = provider
    PROVE  Inv' /\ NoReturnStep
  <1> USE DEF Inv
  <1>0. ~number.authorized
    BY DEF PutsOff, Claims
  <1>1. /\ HoldsGrow /\ Chain' /\ number'.period = number.period
        /\ ~number'.authorized /\ number'.token = None
    BY HoldsUnchanged DEF PutsOff
  <1>2. HoldsKnown' /\ PastPaid'
    BY <1>1, KnownKept, IdleKnown, PaidKept DEF PutsOff
  <1>3. Claims'
    <2>1. number'.status = "RELEASE_PENDING"
      BY DEF PutsOff
    <2>2. ASSUME NEW v \in Workers PROVE ~Removed(v)'
      BY <1>0 DEF PutsOff, Others, Claims, Removed
    <2> QED BY <1>1, <2>1, <2>2, TokensDiffer DEF Claims
  <1>4. SettlersSafe'
    <2> SUFFICES ASSUME NEW v \in Workers, Settleable(v)'
                 PROVE  proc'[v].period = number'.period
      BY <1>1, TokensDiffer DEF SettlersSafe
    <2>1. v # w
      BY DEF Settleable, PutsOff, Renewing
    <2>2. proc'[v] = proc[v] /\ Settleable(v)
      BY <2>1 DEF Settleable, PutsOff, Others
    <2> QED BY <1>1, <2>2 DEF SettlersSafe
  <1>5. OnlyAuthorizedReleases'
    BY <1>0 DEF OnlyAuthorizedReleases
  <1> QED BY <1>0, <1>1, <1>2, <1>3, <1>4, <1>5 DEF NoReturnStep

LEMMA TakesUpInv ==
    ASSUME Inv, Typed', NEW w \in Workers, TakesUp(w), provider' = provider
    PROVE  Inv' /\ NoReturnStep
  <1> USE DEF Inv
  <1>0. ~number.authorized /\ ~number'.authorized
    BY DEF TakesUp
  <1>1. /\ HoldsGrow /\ Chain' /\ number'.period = number.period
        /\ number'.token = w /\ proc'[w].pc = "find-hold"
        /\ proc'[w].period = number.period
    BY HoldsUnchanged DEF TakesUp
  <1>2. HoldsKnown' /\ PastPaid'
    <2>1. HoldKnown(w)'
      BY <1>1 DEF HoldKnown
    <2> QED BY <1>1, <2>1, KnownKept, PaidKept DEF TakesUp
  <1>3. Claims'
    <2>1. number'.status # "GONE"
      BY DEF TakesUp, Renewable
    <2>2. ASSUME NEW v \in Workers PROVE ~Removed(v)'
      BY <1>0, <1>1 DEF TakesUp, Others, Claims, Removed, Removing
    <2> QED BY <1>0, <1>1, <2>1, <2>2 DEF Claims
  <1>4. SettlersSafe'
    <2> SUFFICES ASSUME NEW v \in Workers, Settleable(v)'
                 PROVE  proc'[v].period = number'.period
      BY <1>0, <1>1 DEF SettlersSafe
    <2>1. v # w
      BY <1>1 DEF Settleable
    <2>2. proc'[v] = proc[v] /\ Settleable(v)
      BY <2>1 DEF Settleable, TakesUp, Others
    <2> QED BY <1>1, <2>2 DEF SettlersSafe
  <1>5. OnlyAuthorizedReleases'
    BY <1>0 DEF OnlyAuthorizedReleases
  <1> QED BY <1>0, <1>1, <1>2, <1>3, <1>4, <1>5 DEF NoReturnStep

\* A step within a renewal.  Who learns under the token that it need not settle
\* knows that nobody may.
LEMMA InsideInv ==
    ASSUME Inv, Typed', NEW w \in Workers, Others(w), SameRow, provider' = provider,
           HoldsGrow, Chain', HoldKnown(w)',
           proc[w].pc \in Renewing, proc'[w].pc \in Renewing,
           proc'[w].period = proc[w].period,
           proc'[w].pc = "settle" => number.token = w,
           number.token = w /\ proc'[w].pc \in {"reserve", "reload", "authorize"} =>
              \A v \in Workers \ {w} : ~Settleable(v)
    PROVE  Inv'
  <1> USE DEF Inv
  <1>1. HoldsKnown' /\ PastPaid' /\ OnlyAuthorizedReleases'
    BY KnownKept, PaidKept DEF SameRow, OnlyAuthorizedReleases
  <1>2. Claims'
    <2>1. number'.authorized => number'.status \in {"RELEASING", "GONE"}
      BY DEF Claims, SameRow
    <2>2. number'.status = "GONE" => number'.token = None
      BY DEF Claims, SameRow
    <2>3. ASSUME NEW v \in Workers, number'.token = v, proc'[v].pc \in Renewing
          PROVE  ~number'.authorized /\ proc'[v].period = number'.period
      BY <2>3 DEF Claims, SameRow, Others
    <2>4. ASSUME NEW v \in Workers, Removed(v)'
          PROVE  number'.authorized
      <3>1. v # w
        BY <2>4 DEF Removed, Removing, Renewing
      <3> QED BY <2>4, <3>1 DEF Claims, SameRow, Others, Removed
    <2> QED BY <2>1, <2>2, <2>3, <2>4 DEF Claims
  <1>3. ASSUME NEW v \in Workers, Settleable(v)'
        PROVE  /\ ~number'.authorized /\ proc'[v].period = number'.period
               /\ \A u \in Workers : number'.token = u =>
                     proc'[u].pc \notin {"reserve", "reload", "authorize"}
    <2>1. CASE v = w
      <3>1. number.token = w /\ proc'[w].pc = "settle"
        BY <1>3, <2>1 DEF Settleable
      <3>2. ~number.authorized /\ proc[w].period = number.period
        BY <3>1 DEF Claims
      <3> QED BY <2>1, <3>1, <3>2 DEF SameRow
    <2>2. CASE v # w
      <3>1. proc'[v] = proc[v]
        BY <2>2 DEF Others
      <3>2. proc[v].pc = "settle" /\ proc[v].hold \in 1..Len(holds)
        BY <1>3, <3>1 DEF Settleable, HoldsKnown, HoldKnown, OfPeriod
      <3>3. Settleable(v)
        BY <1>3, <3>1, <3>2 DEF Settleable, HoldsGrow
      <3>4. ASSUME NEW u \in Workers, number'.token = u
            PROVE  proc'[u].pc \notin {"reserve", "reload", "authorize"}
        <4>1. number.token = u
          BY <3>4 DEF SameRow
        <4>2. CASE u = w
          BY <2>2, <3>3, <4>1, <4>2
        <4>3. CASE u # w
          BY <3>3, <4>1, <4>3 DEF SettlersSafe, Others
        <4> QED BY <4>2, <4>3
      <3> QED BY <3>1, <3>3, <3>4 DEF SettlersSafe, SameRow
    <2> QED BY <2>1, <2>2
  <1>4. SettlersSafe'
    BY <1>3 DEF SettlersSafe
  <1> QED BY <1>1, <1>2, <1>4

-----------------------------------------------------------------------------
(* The actions of a renewal.                                               *)

LEMMA ClaimsPreserve ==
    ASSUME Inv, NEW w \in Workers, ClaimRenewal(w) \/ ClaimRelease(w)
    PROVE  Inv' /\ NoReturnStep
  <1> USE DEF Inv
  <1>1. /\ holds' = holds /\ UNCHANGED <<funds, spent>> /\ provider' = provider
        /\ number \in Row
    BY DEF ClaimRenewal, ClaimRelease, Typed, TypeOK, Row
  <1>2. \A mode \in {"scheduled", "last-chance"} :
            /\ Claimed(w, mode) \in Locals
            /\ Claimed(w, mode).pc = "find-hold" /\ Claimed(w, mode).period = number.period
    BY DEF Claimed, Locals, Renewals, Renewing, Typed, TypeOK
  <1>3. Deleting("released") \in Locals /\ Deleting("released").pc = "check-claim"
    BY DEF Deleting, Locals, Deletions
  <1>4. CASE ClaimRenewal(w) /\ Stop(w) /\ UNCHANGED number
    <2>1. proc' \in [Workers -> Locals] /\ Others(w) /\ proc'[w].pc = "idle"
      BY <1>4, StopMoves DEF Typed
    <2>2. Aside(w)
      BY <1>1, <1>4, <2>1 DEF Aside, Removed, Removing, Renewing
    <2>3. Typed' /\ OnlyAuthorizedReleases'
      BY <1>1, <1>4, <2>1 DEF Typed, TypeOK, OnlyAuthorizedReleases
    <2> QED BY <2>2, <2>3, AsideInv
  <1>5. CASE /\ ClaimRenewal(w) /\ number.status \in Renewable
             /\ number' = OwnedBy(w, number) /\ Goto(w, Claimed(w, "scheduled"))
    <2>1. /\ proc' \in [Workers -> Locals] /\ Others(w)
          /\ proc'[w].pc = "find-hold" /\ proc'[w].period = number.period
      BY <1>2, <1>5, GotoMoves DEF Typed
    <2>2. /\ number' \in Row /\ number'.status = number.status
          /\ number'.period = number.period /\ number'.token = w
          /\ number'.authorized = number.authorized
      BY <1>1, <1>5, OwnedByType DEF OwnedBy, Row
    <2>3. ~number.authorized /\ number.status # "GONE"
      BY <1>5 DEF Claims, Renewable
    <2>4. TakesUp(w)
      BY <1>1, <1>5, <2>1, <2>2, <2>3 DEF TakesUp
    <2>5. Typed'
      BY <1>1, <2>1, <2>2 DEF Typed, TypeOK, Row
    <2> QED BY <1>1, <2>4, <2>5, TakesUpInv
  <1>6. ASSUME ClaimRelease(w)
        PROVE  /\ number' \in Row /\ number'.status = "RELEASING" /\ number'.token = w
               /\ number'.period = number.period /\ number'.authorized = number.authorized
               /\ number.status # "GONE"
    <2>1. number' = [number EXCEPT !.status = "RELEASING", !.token = w, !.lapsed = FALSE]
      BY <1>6 DEF ClaimRelease, OwnedBy
    <2> QED BY <1>1, <1>6, <2>1 DEF Row, ClaimRelease
  <1>7. CASE ClaimRelease(w) /\ number.authorized
    <2>1. proc' \in [Workers -> Locals] /\ Others(w) /\ proc'[w].pc = "check-claim"
      BY <1>3, <1>7, GotoMoves DEF ClaimRelease, Typed
    <2>2. Aside(w)
      BY <1>1, <1>6, <1>7, <2>1 DEF Aside, Removed, Removing, Renewing
    <2>3. Typed' /\ OnlyAuthorizedReleases'
      BY <1>1, <1>6, <1>7, <2>1 DEF Typed, TypeOK, Row, OnlyAuthorizedReleases
    <2> QED BY <2>2, <2>3, AsideInv
  <1>8. CASE ClaimRelease(w) /\ ~number.authorized
    <2>1. /\ proc' \in [Workers -> Locals] /\ Others(w)
          /\ proc'[w].pc = "find-hold" /\ proc'[w].period = number.period
      BY <1>2, <1>8, GotoMoves DEF ClaimRelease, Typed
    <2>2. TakesUp(w)
      BY <1>1, <1>6, <1>8, <2>1 DEF TakesUp
    <2>3. Typed'
      BY <1>1, <1>6, <1>8, <2>1 DEF Typed, TypeOK, Row
    <2> QED BY <1>1, <2>2, <2>3, TakesUpInv
  <1> QED BY <1>4, <1>5, <1>7, <1>8 DEF ClaimRenewal

\* Latest is the largest index, if there is one.
LEMMA LatestFacts ==
    ASSUME Typed, Chain, NEW p \in Nat \ {0}, OfPeriod(p) # {}
    PROVE  Latest(p) \in OfPeriod(p) /\ \A j \in OfPeriod(p) : j <= Latest(p)
  <1>1. \E i \in OfPeriod(p) : \A j \in OfPeriod(p) : j <= i
    BY DEF Chain
  <1> QED BY <1>1 DEF Latest

\* A step of a renewal that leaves the row and the holds alone is well typed.
LEMMA RenewalTyped ==
    ASSUME Typed, NEW w \in Workers, proc[w].pc \in Renewing,
           NEW pc \in Renewing, NEW i \in Nat,
           \/ Step(w, pc) /\ i = proc[w].hold
           \/ Goto(w, [proc[w] EXCEPT !.pc = pc, !.hold = i]),
           UNCHANGED <<provider, funds, spent>>, number' \in Row, holds' \in Seq(Holds)
    PROVE  /\ Typed' /\ Others(w) /\ proc'[w].pc = pc /\ proc'[w].hold = i
           /\ proc'[w].period = proc[w].period
  <1>1. /\ proc' \in [Workers -> Locals] /\ Others(w)
        /\ proc'[w].pc = pc /\ proc'[w].hold = i /\ Keeps(w)
    BY RenewalMoves DEF Typed
  <1> QED BY <1>1 DEF Typed, TypeOK, Row, Holds, Keeps

LEMMA FindHoldPreserves ==
    ASSUME Inv, NEW w \in Workers, FindHold(w)
    PROVE  Inv' /\ NoReturnStep
  <1> USE DEF Inv
  <1> DEFINE p == proc[w].period
             last == Latest(p)
  <1>1. /\ proc[w].pc = "find-hold" /\ proc[w] \in Renewals /\ p \in Nat \ {0}
        /\ UNCHANGED <<number, provider, holds, funds, spent>>
    BY LocalKinds DEF FindHold, At, Typed, Renewing, Renewals
  <1>2. /\ last \in Nat
        /\ last # 0 => last \in OfPeriod(p) /\ \A j \in OfPeriod(p) : j <= last
        /\ last = 0 => OfPeriod(p) = {}
    <2>1. CASE OfPeriod(p) = {}
      BY <2>1 DEF Latest
    <2>2. CASE OfPeriod(p) # {}
      BY <1>1, <2>2, LatestFacts DEF OfPeriod
    <2> QED BY <2>1, <2>2
  <1>3. PICK pc \in {"refresh", "refresh-settled", "reserve"} :
            /\ Goto(w, [proc[w] EXCEPT !.pc = pc, !.hold = last])
            /\ pc = "refresh" => last # 0 /\ holds[last].status = "ACTIVE"
            /\ pc = "refresh-settled" => last # 0 /\ holds[last].status = "SETTLED"
            /\ pc = "reserve" /\ last # 0 => holds[last].status \notin {"ACTIVE", "SETTLED"}
    <2>1. \A pc : [proc[w] EXCEPT !.pc = pc, !.hold = last]
                  = [proc[w] EXCEPT !.hold = last, !.pc = pc]
      BY <1>1 DEF Renewals
    <2>2. CASE last # 0 /\ holds[last].status = "ACTIVE"
      BY <2>1, <2>2 DEF FindHold
    <2>3. CASE last # 0 /\ holds[last].status = "SETTLED"
      BY <2>1, <2>3 DEF FindHold
    <2>4. CASE ~(last # 0 /\ holds[last].status \in {"ACTIVE", "SETTLED"})
      BY <2>4 DEF FindHold
    <2> QED BY <2>2, <2>3, <2>4
  <1> HIDE DEF last
  <1>4. /\ Typed' /\ Others(w) /\ proc'[w].pc = pc /\ proc'[w].hold = last
        /\ proc'[w].period = p
    <2>1. pc \in Renewing /\ proc[w].pc \in Renewing
      BY <1>1 DEF Renewing
    <2>2. number' \in Row /\ holds' \in Seq(Holds)
      BY <1>1 DEF Typed, TypeOK, Row, Holds
    <2> QED BY <1>1, <1>2, <1>3, <2>1, <2>2, RenewalTyped
  <1>5. last # 0 => holds[last].status \in {"ACTIVE", "SETTLED", "RELEASED"}
    BY <1>2, HoldTypes DEF OfPeriod
  <1>6. SameRow /\ HoldsGrow /\ Chain'
    BY <1>1, HoldsUnchanged DEF SameRow
  <1>7. HoldKnown(w)'
    <2>1. last # 0 => last \in 1..Len(holds) /\ holds[last].period = p
      BY <1>2 DEF OfPeriod
    <2> QED BY <1>1, <1>3, <1>4, <1>5, <2>1 DEF HoldKnown, OfPeriod
  <1>8. ASSUME number.token = w, pc = "reserve", NEW v \in Workers \ {w}, Settleable(v)
        PROVE  FALSE
    <2> DEFINE h == proc[v].hold
    <2>1. proc[v].period = number.period /\ p = number.period
      BY <1>1, <1>8 DEF SettlersSafe, Claims, Renewing
    <2>2. h \in OfPeriod(p) /\ holds[h].status = "ACTIVE"
      BY <1>8, <2>1 DEF HoldsKnown, HoldKnown, Settleable
    <2>3. last \in OfPeriod(p) /\ holds[last].status = "RELEASED" /\ h <= last
      BY <1>2, <1>3, <1>5, <1>8, <2>2
    <2>4. h # last /\ h \in Nat /\ last \in Nat
      BY <1>2, <2>2, <2>3 DEF OfPeriod
    <2>5. holds[h].status = "RELEASED"
      BY <1>1, <2>2, <2>3, <2>4 DEF Chain
    <2> QED BY <2>2, <2>5
  <1>9. Inv'
    <2>1. proc[w].pc \in Renewing /\ proc'[w].pc \in Renewing
      BY <1>1, <1>4 DEF Renewing
    <2> QED BY <1>1, <1>4, <1>6, <1>7, <1>8, <2>1, InsideInv
  <1> QED BY <1>1, <1>9 DEF NoReturnStep

\* The row as a renewal that failed leaves it.
LEMMA FailurePreserves ==
    ASSUME Inv, NEW w \in Workers, proc[w].pc \in Renewing,
           number' = FailedRow(w), Stop(w), UNCHANGED <<provider, holds, funds>>,
           spent' \in [deposits : Nat, faults : Nat]
    PROVE  Inv' /\ NoReturnStep
  <1> USE DEF Inv
  <1>1. Aside(w) \/ PutsOff(w)
    BY FailedRowEffect
  <1>2. Typed'
    <2>1. proc' \in [Workers -> Locals]
      BY StopMoves DEF Typed
    <2> QED BY <2>1, FailedRowType DEF Typed, TypeOK
  <1>3. Aside(w) => OnlyAuthorizedReleases'
    BY DEF Aside, OnlyAuthorizedReleases
  <1> QED BY <1>1, <1>2, <1>3, AsideInv, PutsOffInv

\* A renewal that stops and leaves everything as it is.
LEMMA StopPreserves ==
    ASSUME Inv, NEW w \in Workers, Stop(w), UNCHANGED number, UNCHANGED holds,
           UNCHANGED provider, funds' \in Nat, spent' \in [deposits : Nat, faults : Nat]
    PROVE  Inv' /\ NoReturnStep
  <1> USE DEF Inv
  <1>1. proc' \in [Workers -> Locals] /\ Others(w) /\ proc'[w].pc = "idle"
    BY StopMoves DEF Typed
  <1>2. Aside(w)
    BY <1>1 DEF Aside, Removed, Removing, Renewing
  <1>3. Typed' /\ OnlyAuthorizedReleases'
    BY <1>1 DEF Typed, TypeOK, OnlyAuthorizedReleases
  <1> QED BY <1>2, <1>3, AsideInv

LEMMA ReservePreserves ==
    ASSUME Inv, NEW w \in Workers, Reserve(w)
    PROVE  Inv' /\ NoReturnStep
  <1> USE DEF Inv
  <1>1. /\ proc[w].pc = "reserve" /\ proc[w].pc \in Renewing /\ proc[w] \in Renewals
        /\ provider' = provider /\ number \in Row /\ holds \in Seq(Holds)
    BY LocalKinds DEF Reserve, At, Typed, TypeOK, Renewing, Row, Holds
  <1>2. PICK p \in Nat \ {0}, last \in Nat : p = proc[w].period /\ last = proc[w].hold
    BY <1>1 DEF Renewals
  <1> DEFINE same == {i \in OfPeriod(p) : holds[i].after = last}
  <1>3. CASE \E i \in same : /\ holds[i].status = "RELEASED"
                             /\ number' = FailedRow(w) /\ Stop(w)
                             /\ UNCHANGED <<holds, funds, spent>>
    <2>1. spent' \in [deposits : Nat, faults : Nat]
      BY <1>3 DEF Typed, TypeOK
    <2> QED BY <1>1, <1>3, <2>1, FailurePreserves
  <1>4. CASE /\ Fault /\ number' = FailedRow(w) /\ Stop(w)
             /\ UNCHANGED <<holds, funds>>
    <2>1. spent' \in [deposits : Nat, faults : Nat]
      BY <1>4, FaultType DEF Typed, TypeOK
    <2> QED BY <1>1, <1>4, <2>1, FailurePreserves
  <1>5. \A v \in Workers \ {w} : number.token = w => ~Settleable(v)
    BY <1>1 DEF SettlersSafe
  <1>6. ASSUME NEW pc \in Renewing, NEW i \in Nat,
               \/ Step(w, pc) /\ i = last
               \/ Goto(w, [proc[w] EXCEPT !.pc = pc, !.hold = i]),
               funds' \in Nat, UNCHANGED <<number, spent>>,
               holds' \in Seq(Holds), HoldsGrow, Chain', pc \notin {"settle", "reserve"},
               NoReturnStep,
               pc \in {"refresh", "refresh-settled"} =>
                  i \in 1..Len(holds') /\ holds'[i].period = p,
               pc \in {"refresh-settled", "complete"} => holds'[i].status = "SETTLED",
               pc \notin {"let-go", "complete"}
        PROVE  Inv' /\ NoReturnStep
    <2>1. /\ proc' \in [Workers -> Locals] /\ Others(w)
          /\ proc'[w].pc = pc /\ proc'[w].hold = i /\ proc'[w].period = p
      <3>1. pc \in Renewing \cup {"detach", "unlink"} /\ proc \in [Workers -> Locals]
            /\ proc[w].pc \in Renewing \cup {"detach", "unlink"}
        BY <1>1 DEF Typed
      <3>2. \/ Step(w, pc) /\ i = proc[w].hold
            \/ Goto(w, [proc[w] EXCEPT !.pc = pc, !.hold = i])
        BY <1>2, <1>6
      <3>3. /\ proc' \in [Workers -> Locals] /\ Others(w)
            /\ proc'[w].pc = pc /\ proc'[w].hold = i /\ Keeps(w)
        BY <3>1, <3>2, RenewalMoves
      <3> QED BY <1>2, <3>3 DEF Keeps
    <2>2. Typed'
      BY <1>1, <1>6, <2>1 DEF Typed, TypeOK, Row, Holds
    <2>3. HoldKnown(w)' /\ SameRow
      BY <1>6, <2>1 DEF HoldKnown, OfPeriod, SameRow
    <2> QED BY <1>1, <1>2, <1>5, <1>6, <2>1, <2>2, <2>3, InsideInv
  <1>7. CASE \E i \in same :
                /\ holds[i].status # "RELEASED"
                /\ Goto(w, [proc[w] EXCEPT !.hold = i,
                               !.pc = IF holds[i].status = "ACTIVE" THEN "refresh"
                                      ELSE "refresh-settled"])
                /\ UNCHANGED <<number, holds, funds, spent>>
    <2>1. PICK i \in same : /\ holds[i].status # "RELEASED"
                /\ Goto(w, [proc[w] EXCEPT !.hold = i,
                               !.pc = IF holds[i].status = "ACTIVE" THEN "refresh"
                                      ELSE "refresh-settled"])
      BY <1>7
    <2> DEFINE pc == IF holds[i].status = "ACTIVE" THEN "refresh" ELSE "refresh-settled"
    <2>2. Goto(w, [proc[w] EXCEPT !.pc = pc, !.hold = i])
      <3>1. [proc[w] EXCEPT !.pc = pc, !.hold = i] = [proc[w] EXCEPT !.hold = i, !.pc = pc]
        BY <1>1 DEF Renewals
      <3> QED BY <2>1, <3>1
    <2>3. i \in 1..Len(holds) /\ holds[i].period = p /\ i \in Nat
      BY DEF OfPeriod
    <2>4. pc = "refresh-settled" => holds[i].status = "SETTLED"
      BY <2>1, <2>3, HoldTypes
    <2>5. HoldsGrow /\ Chain' /\ NoReturnStep /\ funds' \in Nat
      BY <1>7, HoldsUnchanged DEF NoReturnStep, Typed, TypeOK
    <2>6. pc \in Renewing /\ pc \in {"refresh", "refresh-settled"}
      BY DEF Renewing
    <2> HIDE DEF pc
    <2> QED BY <1>1, <1>6, <1>7, <2>2, <2>3, <2>4, <2>5, <2>6
  <1>8. CASE /\ same = {} /\ funds > 0
             /\ holds' = Append(holds, [period |-> p, after |-> last, status |-> "ACTIVE"])
             /\ funds' = funds - 1
             /\ Goto(w, [proc[w] EXCEPT !.hold = Len(holds) + 1, !.pc = "refresh"])
             /\ UNCHANGED <<number, spent>>
    <2>1. last # 0 => last \in OfPeriod(p) /\ holds[last].status = "RELEASED"
      BY <1>1, <1>2 DEF HoldsKnown, HoldKnown
    <2>2. \A i \in OfPeriod(p) : holds[i].after # last
      BY <1>8
    <2>3. /\ HoldsGrow /\ Chain' /\ holds' \in Seq(Holds)
          /\ Len(holds) + 1 \in OfPeriod(p)'
          /\ \A i \in 1..Len(holds) : holds'[i] = holds[i]
      BY <1>8, <2>1, <2>2, AppendHold
    <2>4. Goto(w, [proc[w] EXCEPT !.pc = "refresh", !.hold = Len(holds) + 1])
      <3>1. [proc[w] EXCEPT !.pc = "refresh", !.hold = Len(holds) + 1]
            = [proc[w] EXCEPT !.hold = Len(holds) + 1, !.pc = "refresh"]
        BY <1>1 DEF Renewals
      <3> QED BY <1>8, <3>1
    <2>5. funds' \in Nat /\ NoReturnStep /\ Len(holds) + 1 \in Nat
      BY <1>1, <1>8, <2>3 DEF NoReturnStep, Typed, TypeOK
    <2>6. Len(holds) + 1 \in 1..Len(holds') /\ holds'[Len(holds) + 1].period = p
      BY <2>3 DEF OfPeriod
    <2> QED BY <1>6, <1>8, <2>3, <2>4, <2>5, <2>6 DEF Renewing
  <1>9. CASE /\ Step(w, IF proc[w].mode = "scheduled" THEN "suspend" ELSE "reload")
             /\ UNCHANGED <<number, holds, funds, spent>>
    <2>1. PICK pc \in {"suspend", "reload"} : Step(w, pc)
      BY <1>9
    <2>2. HoldsGrow /\ Chain' /\ NoReturnStep /\ funds' \in Nat
      BY <1>9, HoldsUnchanged DEF NoReturnStep, Typed, TypeOK
    <2> QED BY <1>1, <1>6, <1>9, <2>1, <2>2 DEF Renewing
  <1> QED
    <2>1. \/ \E i \in same :
                /\ IF holds[i].status = "RELEASED"
                   THEN number' = FailedRow(w) /\ Stop(w)
                   ELSE /\ Goto(w, [proc[w] EXCEPT !.hold = i,
                               !.pc = IF holds[i].status = "ACTIVE" THEN "refresh"
                                      ELSE "refresh-settled"])
                        /\ UNCHANGED number
                /\ UNCHANGED <<holds, funds, spent>>
          \/ /\ same = {} /\ funds > 0
             /\ holds' = Append(holds, [period |-> p, after |-> last, status |-> "ACTIVE"])
             /\ funds' = funds - 1
             /\ Goto(w, [proc[w] EXCEPT !.hold = Len(holds) + 1, !.pc = "refresh"])
             /\ UNCHANGED <<number, spent>>
          \/ /\ Step(w, IF proc[w].mode = "scheduled" THEN "suspend" ELSE "reload")
             /\ UNCHANGED <<number, holds, funds, spent>>
          \/ Fault /\ number' = FailedRow(w) /\ Stop(w) /\ UNCHANGED <<holds, funds>>
      BY <1>2 DEF Reserve
    <2>2. CASE \E i \in same :
                /\ IF holds[i].status = "RELEASED"
                   THEN number' = FailedRow(w) /\ Stop(w)
                   ELSE /\ Goto(w, [proc[w] EXCEPT !.hold = i,
                               !.pc = IF holds[i].status = "ACTIVE" THEN "refresh"
                                      ELSE "refresh-settled"])
                        /\ UNCHANGED number
                /\ UNCHANGED <<holds, funds, spent>>
      BY <1>3, <1>7, <2>2
    <2> QED BY <1>4, <1>8, <1>9, <2>1, <2>2

LEMMA RefreshPreserves ==
    ASSUME Inv, NEW w \in Workers, RefreshClaim(w)
    PROVE  Inv' /\ NoReturnStep
  <1> USE DEF Inv
  <1>1. /\ proc[w].pc \in {"refresh", "refresh-settled"} /\ proc[w].pc \in Renewing
        /\ proc[w] \in Renewals /\ proc[w].hold \in Nat
        /\ provider' = provider /\ holds' = holds /\ UNCHANGED <<funds, spent>>
        /\ number \in Row /\ holds \in Seq(Holds)
    <2>1. proc[w].pc \in {"refresh", "refresh-settled"} /\ proc[w].pc \in Renewing
      BY DEF RefreshClaim, At, Renewing
    <2>2. proc[w] \in Renewals /\ proc[w].hold \in Nat
      BY <2>1, LocalKinds DEF Typed, Renewals
    <2> QED BY <2>1, <2>2 DEF RefreshClaim, Typed, TypeOK, Row, Holds
  <1>2. ASSUME NEW pc \in {"settle", "complete", "let-go"}, Step(w, pc), SameRow,
               number' \in Row, pc = "settle" => number.token = w,
               pc = "complete" => proc[w].pc = "refresh-settled"
        PROVE  Inv' /\ NoReturnStep
    <2>1. pc \in Renewing
      BY DEF Renewing
    <2>2. /\ Typed' /\ Others(w) /\ proc'[w].pc = pc /\ proc'[w].hold = proc[w].hold
          /\ proc'[w].period = proc[w].period
      BY <1>1, <1>2, <2>1, RenewalTyped
    <2>3. HoldsGrow /\ Chain'
      BY <1>1, HoldsUnchanged
    <2>4. HoldKnown(w)'
      BY <1>1, <1>2, <2>2 DEF HoldsKnown, HoldKnown, OfPeriod
    <2>5. Inv'
      BY <1>1, <1>2, <2>1, <2>2, <2>3, <2>4, InsideInv
    <2> QED BY <1>1, <1>2, <2>5 DEF NoReturnStep, SameRow
  <1>3. CASE Holder(w)
    <2>1. number' = OwnedBy(w, number) /\ number.token = w
      BY <1>3 DEF RefreshClaim, Holder
    <2>2. number' \in Row
      BY <2>1, OwnedByType
    <2>3. SameRow
      BY <1>1, <2>1 DEF OwnedBy, SameRow, Row
    <2>4. Step(w, IF proc[w].pc = "refresh" THEN "settle" ELSE "complete")
      BY <1>3 DEF RefreshClaim, At
    <2> QED BY <1>1, <1>2, <2>1, <2>2, <2>3, <2>4
  <1>4. CASE ~Holder(w)
    <2>1. number' = number
      BY <1>4 DEF RefreshClaim
    <2>2. CASE proc[w].pc = "refresh"
      <3>1. Step(w, "let-go")
        BY <1>4, <2>2 DEF RefreshClaim, At
      <3> QED BY <1>1, <1>2, <2>1, <3>1 DEF SameRow
    <2>3. CASE proc[w].pc # "refresh"
      <3>1. Stop(w)
        BY <1>4, <2>3 DEF RefreshClaim, At
      <3> QED BY <1>1, <2>1, <3>1, StopPreserves DEF Typed, TypeOK
    <2> QED BY <2>2, <2>3
  <1> QED BY <1>3, <1>4

\* Releasing a hold, or one that is closed already.
LEMMA ReleasedEffect ==
    ASSUME Typed, Chain, NEW h \in 1..Len(holds), Released(h)
    PROVE  /\ HoldsGrow /\ Chain' /\ holds' \in Seq(Holds) /\ funds' \in Nat
           /\ \A i \in 1..Len(holds) :
                 holds'[i].status = "SETTLED" => holds[i].status = "SETTLED"
  <1>1. CASE holds[h].status = "ACTIVE"
    <2>1. holds' = [holds EXCEPT ![h].status = "RELEASED"] /\ funds' = funds + 1
      BY <1>1 DEF Released
    <2>2. /\ HoldsGrow /\ Chain' /\ holds' \in Seq(Holds)
          /\ holds'[h].status = "RELEASED"
          /\ \A i \in 1..Len(holds) \ {h} : holds'[i] = holds[i]
      BY <1>1, <2>1, CloseHold
    <2> QED BY <2>1, <2>2 DEF Typed, TypeOK
  <1>2. CASE holds[h].status # "ACTIVE"
    BY <1>2, HoldsUnchanged DEF Released, Typed, TypeOK, Holds
  <1> QED BY <1>1, <1>2

\* What is left of the invariant when only holds are closed.
LEMMA ClosingInv ==
    ASSUME Inv, Typed', HoldsGrow, Chain', HoldsKnown', SameRow, provider' = provider,
           NEW W \in SUBSET Workers, \A v \in Workers \ W : proc'[v] = proc[v],
           \A w \in W : proc'[w].pc \notin Renewing \cup Removing
    PROVE  Inv'
  <1> USE DEF Inv
  <1>1. PastPaid' /\ OnlyAuthorizedReleases'
    BY PaidKept DEF SameRow, OnlyAuthorizedReleases
  <1>2. Claims'
    <2>1. /\ number'.authorized => number'.status \in {"RELEASING", "GONE"}
          /\ number'.status = "GONE" => number'.token = None
      BY DEF Claims, SameRow
    <2>2. ASSUME NEW v \in Workers
          PROVE  /\ number'.token = v /\ proc'[v].pc \in Renewing =>
                       ~number'.authorized /\ proc'[v].period = number'.period
                 /\ Removed(v)' => number'.authorized
      BY DEF Claims, SameRow, Removed
    <2> QED BY <2>1, <2>2 DEF Claims
  <1>3. ASSUME NEW v \in Workers, Settleable(v)'
        PROVE  /\ ~number'.authorized /\ proc'[v].period = number'.period
               /\ \A u \in Workers : number'.token = u =>
                     proc'[u].pc \notin {"reserve", "reload", "authorize"}
    <2>1. proc'[v] = proc[v] /\ proc[v].pc = "settle"
      BY <1>3 DEF Settleable, Renewing
    <2>2. proc[v].hold \in 1..Len(holds)
      BY <2>1 DEF HoldsKnown, HoldKnown, OfPeriod
    <2>3. Settleable(v)
      BY <1>3, <2>1, <2>2 DEF Settleable, HoldsGrow
    <2>4. \A u \in Workers : proc'[u].pc \in {"reserve", "reload", "authorize"} =>
              proc[u].pc \in {"reserve", "reload", "authorize"}
      BY DEF Renewing
    <2> QED BY <2>1, <2>3, <2>4 DEF SettlersSafe, SameRow
  <1>4. SettlersSafe'
    BY <1>3 DEF SettlersSafe
  <1> QED BY <1>1, <1>2, <1>4

LEMMA LetGoPreserves ==
    ASSUME Inv, NEW w \in Workers, LetGo(w)
    PROVE  Inv' /\ NoReturnStep
  <1> USE DEF Inv
  <1>1. /\ proc' \in [Workers -> Locals] /\ Others(w) /\ proc'[w].pc = "idle"
        /\ UNCHANGED <<number, spent>> /\ provider' = provider
    BY StopMoves DEF LetGo, Typed
  <1>2. PICK h \in 1..Len(holds) : Released(h)
    BY DEF LetGo, At, HoldsKnown, HoldKnown, OfPeriod
  <1>3. /\ HoldsGrow /\ Chain' /\ holds' \in Seq(Holds) /\ funds' \in Nat
        /\ \A i \in 1..Len(holds) :
              holds'[i].status = "SETTLED" => holds[i].status = "SETTLED"
    BY <1>2, ReleasedEffect
  <1>4. Typed' /\ SameRow
    BY <1>1, <1>3 DEF Typed, TypeOK, Holds, SameRow
  <1>5. proc'[w].pc \notin Renewing \cup Removing
    BY <1>1 DEF Renewing, Removing
  <1>6. HoldsKnown'
    BY <1>1, <1>3, <1>5, IdleKnown, KnownKept
  <1>7. Inv'
    <2>1. {w} \in SUBSET Workers /\ \A v \in Workers \ {w} : proc'[v] = proc[v]
      BY <1>1 DEF Others
    <2>2. \A v \in {w} : proc'[v].pc \notin Renewing \cup Removing
      BY <1>5
    <2>3. provider' = provider /\ Chain' /\ HoldsGrow
      BY <1>1, <1>3
    <2> HIDE DEF Inv
    <2> QED BY <1>4, <1>6, <2>1, <2>2, <2>3, ClosingInv
  <1> QED BY <1>1, <1>3, <1>7 DEF NoReturnStep

LEMMA ExpiryPreserves ==
    ASSUME Inv, ReleaseExpired
    PROVE  Inv' /\ NoReturnStep
  <1> USE DEF Inv
  <1>1. PICK h \in 1..Len(holds) : Expire(h)
    BY DEF ReleaseExpired
  <1>2. Released(h) /\ UNCHANGED <<number, proc>> /\ provider' = provider
    BY <1>1 DEF Expire, ReleaseExpired
  <1>3. /\ HoldsGrow /\ Chain' /\ holds' \in Seq(Holds) /\ funds' \in Nat
        /\ \A i \in 1..Len(holds) :
              holds'[i].status = "SETTLED" => holds[i].status = "SETTLED"
    BY <1>2, ReleasedEffect
  <1>4. spent' \in [deposits : Nat, faults : Nat]
    BY <1>1, FaultType DEF Expire, Typed, TypeOK
  <1>5. Typed' /\ SameRow
    BY <1>2, <1>3, <1>4 DEF Typed, TypeOK, Holds, SameRow
  <1>6. HoldsKnown'
    <2> SUFFICES ASSUME NEW w \in Workers
                 PROVE  HoldKnown(w)'
      BY DEF HoldsKnown
    <2>1. Others(w) /\ HoldKnown(w)
      BY <1>2 DEF Others, HoldsKnown
    <2>2. \A p : \A i \in OfPeriod(p) : /\ i \in OfPeriod(p)'
                                        /\ holds[i].status # "ACTIVE" =>
                                              holds'[i].status = holds[i].status
      <3>1. Len(holds) \in Nat
        BY DEF Typed, TypeOK
      <3> QED BY <1>3, <3>1 DEF HoldsGrow, OfPeriod
    <2> QED BY <1>2, <2>1, <2>2 DEF HoldKnown
  <1>7. Inv'
    <2>1. {} \in SUBSET Workers /\ \A v \in Workers \ {} : proc'[v] = proc[v]
      BY <1>2
    <2>2. provider' = provider /\ Chain' /\ HoldsGrow
      BY <1>2, <1>3
    <2> HIDE DEF Inv
    <2> QED BY <1>5, <1>6, <2>1, <2>2, ClosingInv
  <1> QED BY <1>2, <1>3, <1>7 DEF NoReturnStep

LEMMA SettlePreserves ==
    ASSUME Inv, NEW w \in Workers, Settle(w)
    PROVE  Inv' /\ NoReturnStep
  <1> USE DEF Inv
  <1>1. /\ proc[w].pc = "settle" /\ proc[w].pc \in Renewing /\ proc[w].hold \in Nat
        /\ UNCHANGED <<funds, spent>> /\ provider' = provider
        /\ number \in Row /\ holds \in Seq(Holds)
    <2>1. proc[w].pc = "settle" /\ proc[w].pc \in Renewing
      BY DEF Settle, At, Renewing
    <2>2. proc[w].hold \in Nat
      BY <2>1, LocalKinds DEF Typed, Renewals
    <2> QED BY <2>1, <2>2 DEF Settle, Typed, TypeOK, Row, Holds
  <1>2. PICK p \in Nat \ {0}, h \in 1..Len(holds) :
            p = proc[w].period /\ h = proc[w].hold /\ h \in OfPeriod(p)
    <2>1. proc[w].period \in Nat \ {0}
      BY <1>1, LocalKinds DEF Typed, Renewals
    <2> QED BY <1>1, <2>1 DEF HoldsKnown, HoldKnown, OfPeriod
  <1>3. CASE holds[h].status = "RELEASED"
    <2>1. number' = FailedRow(w) /\ Stop(w) /\ UNCHANGED holds
      BY <1>2, <1>3 DEF Settle
    <2> QED BY <1>1, <2>1, FailurePreserves DEF Typed, TypeOK
  <1>4. CASE holds[h].status # "RELEASED"
    <2>1. /\ holds' = [holds EXCEPT ![h].status = "SETTLED"]
          /\ Step(w, "complete") /\ number' = number
      BY <1>2, <1>4 DEF Settle
    <2>2. holds[h].status \in {"ACTIVE", "SETTLED"}
      BY <1>4, HoldTypes
    <2>3. /\ HoldsGrow /\ Chain' /\ holds' \in Seq(Holds) /\ Len(holds') = Len(holds)
          /\ holds'[h].status = "SETTLED"
          /\ \A i \in 1..Len(holds) \ {h} : holds'[i] = holds[i]
      BY <2>1, <2>2, CloseHold
    <2>4. /\ Typed' /\ Others(w) /\ proc'[w].pc = "complete"
          /\ proc'[w].hold = proc[w].hold /\ proc'[w].period = proc[w].period
      <3>1. PICK pc \in Renewing : pc = "complete" /\ Step(w, pc)
        BY <2>1 DEF Renewing
      <3>2. UNCHANGED <<provider, funds, spent>> /\ number' \in Row
        BY <1>1, <2>1
      <3>3. proc[w].pc \in Renewing /\ proc[w].hold \in Nat /\ Typed
        BY <1>1
      <3>4. /\ Typed' /\ Others(w) /\ proc'[w].pc = pc
            /\ proc'[w].hold = proc[w].hold /\ proc'[w].period = proc[w].period
        <4>1. PICK i \in Nat : i = proc[w].hold
          BY <3>3
        <4>2. proc[w].pc \in Renewing \cup {"detach", "unlink"}
              /\ pc \in Renewing \cup {"detach", "unlink"}
          BY <3>1, <3>3
        <4>3. /\ proc' \in [Workers -> Locals] /\ Others(w)
              /\ proc'[w].pc = pc /\ proc'[w].hold = i /\ Keeps(w)
          <5>1. proc \in [Workers -> Locals] /\ Step(w, pc)
            BY <3>1, <3>3 DEF Typed
          <5> HIDE DEF Inv
          <5> QED BY <4>1, <4>2, <5>1, RenewalMoves
        <4>4. Typed'
          BY <2>3, <3>2, <3>3, <4>3 DEF Typed, TypeOK, Row, Holds
        <4> QED BY <4>1, <4>3, <4>4 DEF Keeps
      <3> QED BY <3>1, <3>4
    <2>5. HoldKnown(w)'
      <3>1. holds'[h].period = p
        BY <1>2, <2>3 DEF HoldsGrow, OfPeriod
      <3> QED BY <1>2, <2>3, <2>4, <3>1 DEF HoldKnown, OfPeriod
    <2>6. Inv'
      <3>1. proc'[w].pc \in Renewing /\ SameRow
        BY <2>1, <2>4 DEF Renewing, SameRow
      <3> QED BY <1>1, <2>3, <2>4, <2>5, <3>1, InsideInv
    <2>7. NoReturnStep
      <3>1. number.authorized => holds[h].status = "SETTLED"
        BY <1>1, <1>2, <2>2 DEF SettlersSafe, Settleable
      <3> QED BY <2>1, <2>3, <3>1 DEF NoReturnStep
    <2> QED BY <2>6, <2>7
  <1> QED BY <1>3, <1>4

LEMMA CompletePreserves ==
    ASSUME Inv, NEW w \in Workers, CompleteRenewal(w)
    PROVE  Inv' /\ NoReturnStep
  <1> USE DEF Inv
  <1>1. /\ proc[w].pc = "complete" /\ proc[w].pc \in Renewing
        /\ UNCHANGED <<funds, spent>> /\ provider' = provider /\ holds' = holds
        /\ number \in Row
    BY DEF CompleteRenewal, At, Renewing, Typed, TypeOK, Row
  <1>2. CASE ~Holder(w)
    <2>1. Stop(w) /\ UNCHANGED number
      BY <1>2 DEF CompleteRenewal
    <2> QED BY <1>1, <2>1, StopPreserves DEF Typed, TypeOK
  <1>3. CASE Holder(w)
    <2>1. /\ number.token = w /\ Goto(w, [pc |-> "restore"])
          /\ number' = Unowned([number EXCEPT !.status = "ACTIVE", !.overdue = FALSE,
                                              !.period = @ + 1, !.due = FALSE])
      BY <1>3 DEF CompleteRenewal, Holder
    <2>2. /\ number' \in Row /\ number'.status = "ACTIVE" /\ number'.token = None
          /\ ~number'.authorized /\ number'.period = number.period + 1
      <3>1. number' = [number EXCEPT !.status = "ACTIVE", !.overdue = FALSE,
                                     !.period = @ + 1, !.due = FALSE, !.token = None,
                                     !.lapsed = FALSE, !.authorized = FALSE]
        BY <1>1, <2>1 DEF Unowned, Row
      <3>2. number.period + 1 \in Nat \ {0}
        BY <1>1 DEF Row
      <3> QED BY <1>1, <3>1, <3>2 DEF Row, Renewable
    <2>3. /\ proc' \in [Workers -> Locals] /\ Others(w) /\ proc'[w].pc = "restore"
      <3>1. [pc |-> "restore"] \in Locals
        BY DEF Locals, Pauses
      <3> QED BY <2>1, <3>1, GotoMoves DEF Typed
    <2>4. proc'[w].pc \notin Renewing \cup Removing
      BY <2>3 DEF Renewing, Removing
    <2>5. Typed' /\ HoldsGrow /\ Chain'
      BY <1>1, <2>2, <2>3, HoldsUnchanged DEF Typed, TypeOK, Row
    <2>6. HoldsKnown'
      BY <2>3, <2>4, <2>5, IdleKnown, KnownKept
    <2>7. ~number.authorized /\ proc[w].period = number.period
      BY <1>1, <2>1 DEF Claims
    <2>8. PICK p \in Nat \ {0}, h \in 1..Len(holds) :
              p = number.period /\ h \in OfPeriod(p) /\ holds[h].status = "SETTLED"
      BY <1>1, <2>7 DEF HoldsKnown, HoldKnown, OfPeriod, Row
    <2>9. \A v \in Workers : ~Settleable(v)
      <3> SUFFICES ASSUME NEW v \in Workers, Settleable(v)
                   PROVE  FALSE
        OBVIOUS
      <3>1. PICK k \in OfPeriod(p) : k = proc[v].hold /\ holds[k].status = "ACTIVE"
        BY <2>8 DEF SettlersSafe, HoldsKnown, HoldKnown, Settleable
      <3>2. k \in Nat /\ h \in Nat /\ k # h
        BY <2>8, <3>1 DEF OfPeriod
      <3>3. holds[k].status = "RELEASED" \/ holds[h].status = "RELEASED"
        BY <2>8, <3>1, <3>2 DEF Chain
      <3> QED BY <2>8, <3>1, <3>3
    <2>10. Claims'
      <3>1. ASSUME NEW v \in Workers PROVE ~Removed(v)'
        BY <2>3, <2>4, <2>7 DEF Others, Claims, Removed
      <3> QED BY <2>2, <3>1, TokensDiffer DEF Claims
    <2>11. SettlersSafe'
      <3>1. ASSUME NEW v \in Workers PROVE ~Settleable(v)'
        BY <1>1, <2>3, <2>4, <2>9 DEF Others, Settleable, Renewing
      <3> QED BY <3>1 DEF SettlersSafe
    <2>12. PastPaid'
      <3> SUFFICES ASSUME NEW q \in 1..number.period
                   PROVE  PaidHolds(q)' # {}
        BY <1>1, <2>2 DEF PastPaid, Row
      <3>1. PaidHolds(q)' = PaidHolds(q)
        BY <1>1 DEF PaidHolds, OfPeriod
      <3>2. CASE q = number.period
        BY <2>8, <3>1, <3>2 DEF PaidHolds
      <3>3. CASE q # number.period
        BY <1>1, <3>1, <3>3 DEF PastPaid, Row
      <3> QED BY <3>2, <3>3
    <2>13. OnlyAuthorizedReleases'
      BY <1>1, <2>7 DEF OnlyAuthorizedReleases
    <2> QED BY <2>5, <2>6, <2>7, <2>10, <2>11, <2>12, <2>13 DEF NoReturnStep
  <1> QED BY <1>2, <1>3

LEMMA SuspendPreserves ==
    ASSUME Inv, NEW w \in Workers, Suspend(w)
    PROVE  Inv' /\ NoReturnStep
  <1> USE DEF Inv
  <1>1. /\ proc[w].pc = "suspend" /\ proc[w].pc \in Renewing /\ proc[w] \in Renewals
        /\ UNCHANGED <<funds, spent>> /\ provider' = provider /\ holds' = holds
        /\ number \in Row
    BY LocalKinds DEF Suspend, At, Renewing, Typed, TypeOK, Row
  <1>2. CASE ~(number.token = w /\ number.status \in Renewable)
    <2>1. Stop(w) /\ UNCHANGED number
      BY <1>2 DEF Suspend
    <2> QED BY <1>1, <2>1, StopPreserves DEF Typed, TypeOK
  <1>3. CASE number.token = w /\ number.status \in Renewable
    <2> DEFINE remembered == proc[w].remembered \/ proc[w].agent
    <2>1. number' = [number EXCEPT !.status = "RELEASE_PENDING", !.remembered = remembered,
                        !.token = None, !.lapsed = FALSE, !.authorized = FALSE]
      BY <1>3 DEF Suspend, Unowned
    <2>2. remembered \in BOOLEAN
      OBVIOUS
    <2> HIDE DEF remembered
    <2>3. /\ number' \in Row /\ number'.status = "RELEASE_PENDING" /\ number'.token = None
          /\ ~number'.authorized /\ number'.period = number.period
      BY <1>1, <2>1, <2>2 DEF Row, Renewable
    <2>4. /\ proc' \in [Workers -> Locals] /\ Others(w)
          /\ proc'[w].pc \in {"detach", "idle"}
      <3>1. CASE Stop(w)
        BY <3>1, StopMoves DEF Typed
      <3>2. CASE Step(w, "detach")
        <4>1. proc[w].hold \in Nat
          BY <1>1 DEF Renewals
        <4> QED BY <1>1, <3>2, <4>1, RenewalMoves DEF Typed
      <3> QED BY <1>3, <3>1, <3>2 DEF Suspend
    <2>5. proc'[w].pc \notin Renewing \cup Removing
      BY <2>4 DEF Renewing, Removing
    <2>6. PutsOff(w)
      BY <1>1, <1>3, <2>3, <2>4, <2>5 DEF PutsOff, Removed
    <2>7. Typed'
      BY <1>1, <2>3, <2>4 DEF Typed, TypeOK, Row
    <2> QED BY <1>1, <2>6, <2>7, PutsOffInv
  <1> QED BY <1>2, <1>3

LEMMA ReloadPreserves ==
    ASSUME Inv, NEW w \in Workers, TryReload(w)
    PROVE  Inv' /\ NoReturnStep
  <1> USE DEF Inv
  <1>1. /\ proc[w].pc = "reload" /\ proc[w].pc \in Renewing /\ proc[w].hold \in Nat
        /\ UNCHANGED <<provider, holds, funds>>
        /\ number \in Row /\ holds \in Seq(Holds)
    <2>1. proc[w].pc = "reload" /\ proc[w].pc \in Renewing
      BY DEF TryReload, At, Renewing
    <2>2. proc[w].hold \in Nat
      BY <2>1, LocalKinds DEF Typed, Renewals
    <2> QED BY <2>1, <2>2 DEF TryReload, Typed, TypeOK, Row, Holds
  <1>2. CASE Fault /\ number' = FailedRow(w) /\ Stop(w)
    <2>1. spent' \in [deposits : Nat, faults : Nat]
      BY <1>2, FaultType DEF Typed, TypeOK
    <2> QED BY <1>1, <1>2, <2>1, FailurePreserves
  <1>3. CASE Step(w, "authorize") /\ UNCHANGED <<number, spent>>
    <2>1. PICK pc \in Renewing : pc = "authorize" /\ Step(w, pc)
      BY <1>3 DEF Renewing
    <2>2. UNCHANGED <<provider, funds, spent>> /\ number' \in Row /\ holds' \in Seq(Holds)
      BY <1>1, <1>3
    <2>3. /\ Typed' /\ Others(w) /\ proc'[w].pc = pc
          /\ proc'[w].hold = proc[w].hold /\ proc'[w].period = proc[w].period
      <3>1. Typed /\ proc[w].pc \in Renewing /\ proc[w].hold \in Nat
        BY <1>1
      <3> HIDE DEF Inv
      <3> QED BY <2>1, <2>2, <3>1, RenewalTyped
    <2>4. HoldsGrow /\ Chain' /\ SameRow /\ provider' = provider
      BY <1>1, <1>3, HoldsUnchanged DEF SameRow
    <2>5. HoldKnown(w)'
      BY <2>1, <2>3 DEF HoldKnown
    <2>6. number.token = w => \A v \in Workers \ {w} : ~Settleable(v)
      BY <1>1 DEF SettlersSafe
    <2>7. Inv'
      BY <1>1, <2>1, <2>3, <2>4, <2>5, <2>6, InsideInv
    <2> QED BY <1>1, <1>3, <2>7 DEF NoReturnStep
  <1> QED BY <1>2, <1>3 DEF TryReload

LEMMA AuthorizePreserves ==
    ASSUME Inv, NEW w \in Workers, AuthorizeRelease(w)
    PROVE  Inv' /\ NoReturnStep
  <1> USE DEF Inv
  <1>1. /\ proc[w].pc = "authorize" /\ proc[w].pc \in Renewing
        /\ UNCHANGED <<funds, spent>> /\ provider' = provider /\ holds' = holds
        /\ number \in Row
    BY DEF AuthorizeRelease, At, Renewing, Typed, TypeOK, Row
  <1> DEFINE may == number.status = "RELEASING" /\ number.token = w /\ ~number.authorized
  <1>2. CASE ~may
    <2>1. Stop(w) /\ UNCHANGED number
      BY <1>2 DEF AuthorizeRelease
    <2> QED BY <1>1, <2>1, StopPreserves DEF Typed, TypeOK
  <1>3. CASE may
    <2>1. /\ number' = [number EXCEPT !.authorized = TRUE, !.token = w, !.lapsed = FALSE]
          /\ Goto(w, Deleting("released"))
      BY <1>3 DEF AuthorizeRelease, OwnedBy
    <2>2. /\ number' \in Row /\ number'.status = "RELEASING" /\ number'.token = w
          /\ number'.authorized /\ number'.period = number.period
      BY <1>1, <1>3, <2>1 DEF Row
    <2>3. /\ proc' \in [Workers -> Locals] /\ Others(w) /\ proc'[w].pc = "check-claim"
      <3>1. Deleting("released") \in Locals /\ Deleting("released").pc = "check-claim"
        BY DEF Deleting, Locals, Deletions
      <3> QED BY <2>1, <3>1, GotoMoves DEF Typed
    <2>4. proc'[w].pc \notin Renewing \cup Removing
      BY <2>3 DEF Renewing, Removing
    <2>5. Typed' /\ HoldsGrow /\ Chain'
      BY <1>1, <2>2, <2>3, HoldsUnchanged DEF Typed, TypeOK, Row
    <2>6. HoldsKnown' /\ PastPaid'
      BY <2>2, <2>3, <2>4, <2>5, IdleKnown, KnownKept, PaidKept
    <2>7. Claims'
      <3>1. ASSUME NEW v \in Workers, number'.token = v PROVE proc'[v].pc \notin Renewing
        BY <2>2, <2>4, <3>1
      <3> QED BY <2>2, <3>1 DEF Claims
    <2>8. SettlersSafe'
      <3>1. ASSUME NEW v \in Workers PROVE ~Settleable(v)
        BY <1>1, <1>3 DEF SettlersSafe
      <3>2. ASSUME NEW v \in Workers PROVE ~Settleable(v)'
        BY <1>1, <2>3, <2>4, <3>1 DEF Others, Settleable, Renewing
      <3> QED BY <3>2 DEF SettlersSafe
    <2>9. OnlyAuthorizedReleases'
      BY <2>2 DEF OnlyAuthorizedReleases
    <2> QED BY <1>3, <2>5, <2>6, <2>7, <2>8, <2>9 DEF NoReturnStep
  <1> QED BY <1>2, <1>3

-----------------------------------------------------------------------------
(* Everything else, and the theorems.                                      *)

LEMMA ElsewherePreserves ==
    ASSUME Inv, BillingFallsDue \/ GraceEnds \/ Deposit \/ Spend \/ LeaseLapses
    PROVE  Inv' /\ NoReturnStep
  <1> USE DEF Inv
  <1>1. proc' = proc /\ holds' = holds /\ provider' = provider /\ number \in Row
    BY DEF BillingFallsDue, GraceEnds, Deposit, Spend, LeaseLapses, Typed, TypeOK, Row
  <1>2. number' \in Row /\ SameRow
    BY <1>1 DEF BillingFallsDue, GraceEnds, Deposit, Spend, LeaseLapses, SameRow, Row
  <1>3. funds' \in Nat
    BY DEF BillingFallsDue, GraceEnds, Deposit, Spend, LeaseLapses, Typed, TypeOK
  <1>4. spent' \in [deposits : Nat, faults : Nat]
    BY FaultType DEF BillingFallsDue, GraceEnds, Deposit, Spend, LeaseLapses, Typed, TypeOK
  <1>5. Typed' /\ HoldsGrow /\ Chain'
    BY <1>1, <1>2, <1>3, <1>4, HoldsUnchanged DEF Typed, TypeOK, Row
  <1>6. HoldsKnown'
    BY <1>1 DEF HoldsKnown, HoldKnown, OfPeriod
  <1>7. Inv'
    <2>1. {} \in SUBSET Workers /\ \A v \in Workers \ {} : proc'[v] = proc[v]
      BY <1>1
    <2> HIDE DEF Inv
    <2> QED BY <1>1, <1>2, <1>5, <1>6, <2>1, ClosingInv
  <1> QED BY <1>1, <1>2, <1>7 DEF NoReturnStep, SameRow

\* Every step keeps the invariant, and none takes back an authorization.
LEMMA StepPreserves ==
    ASSUME Inv, [Next]_vars
    PROVE  Inv' /\ (NoReturnStep \/ UNCHANGED vars)
  <1>1. CASE UNCHANGED vars
    <2>1. /\ Typed' /\ Chain' /\ HoldsKnown' /\ Claims' /\ SettlersSafe' /\ PastPaid'
          /\ OnlyAuthorizedReleases'
      <3>1. Typed' /\ OnlyAuthorizedReleases'
        BY <1>1 DEF Inv, vars, Typed, TypeOK, OnlyAuthorizedReleases
      <3>2. HoldsGrow /\ Chain'
        BY <1>1, HoldsUnchanged DEF Inv, vars
      <3>3. HoldsKnown' /\ PastPaid'
        BY <1>1 DEF Inv, vars, HoldsKnown, HoldKnown, OfPeriod, PastPaid, PaidHolds
      <3>4. Claims' /\ SettlersSafe'
        BY <1>1 DEF Inv, vars, Claims, Removed, SettlersSafe, Settleable
      <3> QED BY <3>1, <3>2, <3>3, <3>4
    <2> QED BY <1>1, <2>1 DEF Inv
  <1>2. ASSUME NEW w \in Workers,
               \/ ListDue(w) \/ ListUnbound(w) \/ UpdateLink(w) \/ OwnerDeletes(w)
               \/ RestoreBinding(w)
               \/ Attach(w) \/ Link(w) \/ Forget(w) \/ Detach(w) \/ Unlink(w)
        PROVE  Inv' /\ NoReturnStep
    <2>1. Aside(w) /\ Typed'
      BY <1>2, StartAside, LinkAside DEF Inv
    <2>2. provider'.number = provider.number
      BY <1>2 DEF ListDue, ListUnbound, UpdateLink, OwnerDeletes, RestoreBinding, Attach,
                  Link, Forget, Detach, Unlink, Inv, Typed, TypeOK
    <2>3. OnlyAuthorizedReleases'
      BY <2>1, <2>2 DEF Aside, OnlyAuthorizedReleases, Inv
    <2> QED BY <2>1, <2>3, AsideInv
  <1>3. ASSUME NEW w \in Workers,
               \/ CheckReleaseClaim(w) \/ TakeDown(w) \/ CheckAgain(w)
               \/ DeleteAtProvider(w) \/ DeleteRow(w) \/ Crash(w)
        PROVE  Inv' /\ NoReturnStep
    <2>1. Aside(w) /\ Typed'
      BY <1>3, DeletionAside DEF Inv
    <2>2. provider'.number = "released" => provider.number = "released" \/ number.authorized
      <3>1. CASE DeleteAtProvider(w)
        BY <3>1 DEF DeleteAtProvider, At, Inv, Claims, Removed, Removing
      <3>2. CASE ~DeleteAtProvider(w)
        BY <1>3, <3>2 DEF CheckReleaseClaim, TakeDown, CheckAgain, DeleteRow, Crash,
                          Inv, Typed, TypeOK
      <3> QED BY <3>1, <3>2
    <2>3. OnlyAuthorizedReleases'
      BY <2>1, <2>2 DEF Aside, OnlyAuthorizedReleases, Inv
    <2> QED BY <2>1, <2>3, AsideInv
  <1>4. ASSUME NEW w \in Workers,
               \/ ClaimRenewal(w) \/ ClaimRelease(w) \/ FindHold(w) \/ Reserve(w)
               \/ RefreshClaim(w) \/ LetGo(w) \/ Settle(w) \/ CompleteRenewal(w)
               \/ Suspend(w) \/ TryReload(w) \/ AuthorizeRelease(w)
        PROVE  Inv' /\ NoReturnStep
    BY <1>4, ClaimsPreserve, FindHoldPreserves, ReservePreserves, RefreshPreserves,
       LetGoPreserves, SettlePreserves, CompletePreserves, SuspendPreserves,
       ReloadPreserves, AuthorizePreserves
  <1> QED
    BY <1>1, <1>2, <1>3, <1>4, ExpiryPreserves, ElsewherePreserves DEF Next, Work

LEMMA InitInv == Init => Inv
  <1> SUFFICES ASSUME Init
               PROVE  Inv
    OBVIOUS
  <1>1. number \in Row /\ ~number.authorized /\ number.status = "ACTIVE"
        /\ number.token = None /\ number.period = 1 /\ provider.number = "rented"
    BY DEF Init, Row, Renewable
  <1>2. Idle \in Locals /\ Idle.pc = "idle"
    BY DEF Idle, Locals, Pauses
  <1>3. \A w \in Workers : proc[w].pc = "idle"
    BY <1>2 DEF Init
  <1>4. Typed
    BY <1>1, <1>2 DEF Init, Typed, TypeOK, Row
  <1>5. Chain /\ PastPaid
    BY <1>1 DEF Init, Chain, OfPeriod, PastPaid
  <1>6. HoldsKnown /\ Claims /\ SettlersSafe /\ OnlyAuthorizedReleases
    BY <1>1, <1>3, TokensDiffer
    DEF HoldsKnown, HoldKnown, Claims, Removed, Removing, SettlersSafe, Settleable,
        OnlyAuthorizedReleases
  <1> QED BY <1>4, <1>5, <1>6 DEF Inv

THEOREM Invariance == Spec => []Inv
  <1>1. Inv /\ [Next]_vars => Inv'
    BY StepPreserves
  <1> QED BY <1>1, InitInv, PTL DEF Spec

\* The row, the holds and the wallet keep their types.
THEOREM RentalTypes == Spec => []TypeOK
  <1>1. Inv => TypeOK
    BY DEF Inv, Typed
  <1> QED BY <1>1, Invariance, PTL

\* No overlap of workers, lapse of a lease, death or fault makes a period paid
\* twice, and no renewal moves on from a period that was not paid.
THEOREM PaidOnce == Spec => []RentPaidOnce
  <1>1. Inv => RentPaidOnce
    <2> SUFFICES ASSUME Inv
                 PROVE  RentPaidOnce
      OBVIOUS
    <2>1. ASSUME NEW p \in Nat \ {0}, NEW i \in PaidHolds(p), NEW j \in PaidHolds(p)
          PROVE  i = j
      <3>1. i \in OfPeriod(p) /\ j \in OfPeriod(p) /\ i \in Nat /\ j \in Nat
            /\ holds[i].status = "SETTLED" /\ holds[j].status = "SETTLED"
        BY DEF PaidHolds, OfPeriod
      <3>2. ~(i < j) /\ ~(j < i)
        BY <3>1 DEF Inv, Chain
      <3> QED BY <3>1, <3>2
    <2>2. number.period \in Nat \ {0}
      BY DEF Inv, Typed, TypeOK
    <2>3. ASSUME NEW p \in 1..(number.period - 1)
          PROVE  \E i \in PaidHolds(p) : PaidHolds(p) = {i}
      <3>1. PICK i \in PaidHolds(p) : TRUE
        BY DEF Inv, PastPaid
      <3>2. p \in Nat \ {0}
        BY <2>2
      <3>3. PaidHolds(p) = {i}
        BY <2>1, <3>2
      <3> QED BY <3>3
    <2> QED BY <2>1, <2>2, <2>3 DEF RentPaidOnce
  <1> QED BY <1>1, Invariance, PTL

\* The provider loses a number that its owner did not delete only after the
\* release was authorized.
THEOREM AuthorizedReleases == Spec => []OnlyAuthorizedReleases
  <1>1. Inv => OnlyAuthorizedReleases
    BY DEF Inv
  <1> QED BY <1>1, Invariance, PTL

\* An authorization is never taken back, and no rent is collected after it,
\* not even by a worker that was on its way to settle.
THEOREM NoReturnHolds == Spec => NoReturn
  <1>1. Inv /\ [Next]_vars =>
            [number.authorized =>
                /\ number'.authorized
                /\ \A i \in 1..Len(holds) :
                      holds'[i].status = "SETTLED" => holds[i].status = "SETTLED"]_vars
    BY StepPreserves DEF NoReturnStep
  <1> QED BY <1>1, Invariance, PTL DEF Spec, NoReturn
=============================================================================
