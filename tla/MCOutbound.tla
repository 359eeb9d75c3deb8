----------------------------- MODULE MCOutbound -----------------------------
(***************************************************************************)
(* TLC instance of OutboundDispatch: a campaign that meets a quick call    *)
(* and a fault, or a campaign alone, faultless, with two calls left.       *)
(***************************************************************************)
EXTENDS OutboundDispatch

CONSTANT Later    \* the recipient that only the second case calls

VARIABLE alone

OutboundInit ==
    /\ faults = 0
    /\ \/ alone = FALSE /\ InitAfter({Later})
       \/ alone = TRUE  /\ InitAfter(Quick)

OutboundNext ==
    /\ Next
    /\ alone => UNCHANGED faults
    /\ UNCHANGED alone

OutboundSpec == OutboundInit /\ [][OutboundNext]_<<vars, alone>> /\ Fairness
=============================================================================
