----------------------------- MODULE MCFinality -----------------------------
(***************************************************************************)
(* TLC instance of three protocols that have to come to an end: the final  *)
(* price of calls, the purchase of a number, its rental.  They share no    *)
(* state here, so a behaviour is about one of them, its subject, while the *)
(* others sleep in a state where none of their fair actions is enabled.    *)
(***************************************************************************)
EXTENDS CallSettlement

CONSTANTS
    Workers, Quotes, Funds, Owner, MaxPeriods, MaxHolds, MaxDeposits, MaxFaults, None, Dead

VARIABLES
    subject,
    number, provider, holds, funds, worker, spent,        \* NumberRental
    purchase, price, cash, phone, order, buyer, faults    \* NumberPurchase

rentalVars == <<number, provider, holds, funds, worker, spent>>
purchaseVars == <<purchase, price, cash, phone, order, buyer, faults>>

Rental == INSTANCE NumberRental WITH proc <- worker
Purchase == INSTANCE NumberPurchase WITH hold <- price, funds <- cash, proc <- buyer

\* No call yet, and quotes that nobody took up; a number that is paid up
\* sleeps as it starts.
SettlementSleeps == Init /\ \A c \in Calls : session[c].final = 0

PurchaseSleeps ==
    /\ purchase = [q \in Quotes |-> [status |-> "NONE", token |-> None, funded |-> FALSE,
                                     attempt |-> "none", expired |-> TRUE,
                                     retired |-> FALSE]]
    /\ price = [q \in Quotes |-> "NONE"]
    /\ cash = 0 /\ phone = None
    /\ order = [q \in Quotes |-> "none"]
    /\ buyer = [w \in Workers |-> Purchase!Idle]
    /\ faults = 0

FinalityInit ==
    /\ subject \in {"prices", "purchase", "rental"}
    /\ IF subject = "prices" THEN Init ELSE SettlementSleeps
    /\ IF subject = "purchase" THEN Purchase!Init ELSE PurchaseSleeps
    /\ Rental!Init

everything == <<subject, vars, rentalVars, purchaseVars>>

About(protocol, step) == subject = protocol /\ step /\ UNCHANGED subject
OfPrices(step)   == About("prices", step)   /\ UNCHANGED <<rentalVars, purchaseVars>>
OfPurchase(step) == About("purchase", step) /\ UNCHANGED <<vars, rentalVars>>
OfRental(step)   == About("rental", step)   /\ UNCHANGED <<vars, purchaseVars>>

FinalityNext == OfPrices(Next) \/ OfPurchase(Purchase!Next) \/ OfRental(Rental!Next)

\* What is weakly fair in the three protocols.
TimeAndWorkers ==
    /\ \A q \in Reconcilers : WF_vars(Claim(q)) /\ WF_vars(Finish(q))
    /\ \A c \in Calls : WF_vars(ClaimAges(c)) /\ WF_vars(PromoteEndedDebt(c))
    /\ \A w \in Workers : WF_purchaseVars(Purchase!Work(w)) /\ WF_rentalVars(Rental!Work(w))
    /\ \A q \in Quotes : /\ WF_purchaseVars(Purchase!QuoteExpires(q))
                         /\ WF_purchaseVars(Purchase!AttemptAges(q))
                         /\ WF_purchaseVars(Purchase!DecideOrder(q))
    /\ WF_rentalVars(Rental!GraceEnds) /\ WF_rentalVars(Rental!ReleaseExpired)

\* What is strongly fair.  Since the subject stays what it is, fairness of an
\* alternative of steps of different subjects is fairness of each of them;
\* TLC doubles its work with every SF.
Sweeps ==
    /\ \A r \in Reconcilers, c \in Calls, q \in Quotes :
          /\ SF_everything(\/ OfPrices(ReadCandidate(r, c))
                           \/ OfRental(\E w \in Workers : Rental!ListDue(w)))
          /\ SF_everything(\/ OfPrices(proc[r].call = c /\ Adjust(r))
                           \/ OfRental(\E w \in Workers : Rental!ClaimRelease(w))
                           \/ OfPurchase(\E w \in Workers :
                                  /\ Purchase!Takeable(purchase[q].token)
                                  /\ Purchase!ResumePurchase(w, q)))
    /\ SF_everything(OfRental(\E w \in Workers : Rental!ListUnbound(w)))

FinalitySpec ==
    FinalityInit /\ [][FinalityNext]_everything /\ TimeAndWorkers /\ Sweeps

\* Every purchase comes to an end: the number is delivered and paid, or the
\* purchase failed, or somebody is asked to look at it.
EveryPurchaseEnds == Purchase!EveryPurchaseEnds

\* No rent stays reserved for ever.
HoldsClose == Rental!HoldsClose

\* An unpaid number is not kept for ever: it is paid or released.
UnpaidEnds == Rental!UnpaidEnds
=============================================================================
