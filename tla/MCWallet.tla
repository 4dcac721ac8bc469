------------------------------ MODULE MCWallet ------------------------------
(***************************************************************************)
(* A wallet with two starts, an account setup, a payment and a checkout    *)
(* that Stripe delivers twice, for TLC.  Fees and thresholds keep their    *)
(* order: an opening balance allows one start and not two.                 *)
(***************************************************************************)
EXTENDS Wallet, TLC

CONSTANTS s1, s2, a1, p1, d1, d2, c1

MCCheckoutOf == [d \in Deliveries |-> c1]
MCFloor == 0
=============================================================================
