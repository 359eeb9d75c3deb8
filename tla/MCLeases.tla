------------------------------ MODULE MCLeases ------------------------------
(***************************************************************************)
(* TLC instance of the protocols in which overlapping workers hand a row   *)
(* from one to the next when a lease runs out: the usage reports of a      *)
(* call, the final price of calls, the purchase of a number, its rental.   *)
(* They share no state here, so a behaviour is about one of them, its      *)
(* subject, and the others stay as they start.  The workers are the same   *)
(* everywhere.                                                             *)
(***************************************************************************)
EXTENDS NumberRental

CONSTANTS
    Calls, HoldMicros, Charges, Promo, Deposits, MaxDeposited, MaxCrashes, NoCall,
    Quotes, Funds,
    LastReport

VARIABLES
    subject,
    purchase, price, cash, phone, order, buyer, faults,     \* NumberPurchase
    account, deposited, session, hold, funding, adjusted,
    reconciler, crashes,                                    \* CallSettlement
    call, wallet, reserves, charges, request, env           \* CallMetering

purchaseVars == <<purchase, price, cash, phone, order, buyer, faults>>
priceVars == <<account, deposited, session, hold, funding, adjusted, reconciler, crashes>>
reportVars == <<call, wallet, reserves, charges, request, env>>

Purchase == INSTANCE NumberPurchase
    WITH hold <- price, funds <- cash, proc <- buyer

Settlement == INSTANCE CallSettlement
    WITH Reconcilers <- Workers, proc <- reconciler

\* Requests that stall for longer than their claims live.
Stalling == INSTANCE CallMetering
    WITH session <- call, account <- wallet, holds <- reserves, proc <- request,
         Requests <- Workers, Sweepers <- {},
         Generations <- 1, MaxRecovery <- 0, MaxCrashes <- 0,
         Funds <- {2, 4}, HasProvider <- TRUE, Lulls <- {0}, Stalls <- TRUE

LeasesInit ==
    /\ subject \in {"reports", "prices", "purchase", "rental"}
    /\ Init /\ Purchase!Init /\ Settlement!Init /\ Stalling!Init
    /\ subject # "prices" => \A c \in Calls : session[c].final = 0
    /\ subject # "purchase" => cash = 0
    /\ subject # "reports" => wallet.paid = 2

LeasesNext ==
    /\ UNCHANGED subject
    /\ \/ /\ subject = "rental"
          /\ Next            /\ UNCHANGED <<purchaseVars, priceVars, reportVars>>
       \/ /\ subject = "purchase"
          /\ Purchase!Next   /\ UNCHANGED <<vars, priceVars, reportVars>>
       \/ /\ subject = "prices"
          /\ Settlement!Next /\ UNCHANGED <<vars, purchaseVars, reportVars>>
       \/ /\ subject = "reports"
          /\ Stalling!Next   /\ UNCHANGED <<vars, purchaseVars, priceVars>>

LeasesSpec ==
    LeasesInit /\ [][LeasesNext]_<<subject, vars, purchaseVars, priceVars, reportVars>>

Symmetry == Permutations(Workers) \cup Permutations(Calls)

TypesOK == CASE subject = "rental"   -> TypeOK
             [] subject = "purchase" -> Purchase!TypeOK
             [] subject = "prices"   -> Settlement!TypeOK
             [] subject = "reports"  -> Stalling!TypeOK

\* A call is charged once, whoever settles, reconciles, dies or takes over: the
\* wallet has paid for each what its session says, and requests that outlive
\* their claims charge usage once while the call has a hold.
CallsChargedOnce ==
    /\ Settlement!WalletPaysSessionTotals
    /\ Stalling!ReservedUsageChargedOnce

\* Whatever answer is lost and wherever a process dies, a number is ordered
\* against held money only, paid only when acquired, and the money goes back
\* only if the provider neither has delivered nor may still deliver.
KeepsEscrow == Purchase!KeepsEscrow

\* A purchase that failed holds no money, unless another quote retired its row.
OnlyRetiredPurchasesLeak == Purchase!OnlyRetiredPurchasesLeak
=============================================================================
