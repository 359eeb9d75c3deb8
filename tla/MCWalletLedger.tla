--------------------------- MODULE MCWalletLedger ---------------------------
(***************************************************************************)
(* TLC instance of WalletLedger.                                           *)
(***************************************************************************)
EXTENDS WalletLedger, TLC

\* Keys are only compared for equality.
Symmetry == Permutations(Keys)
=============================================================================
