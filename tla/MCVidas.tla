------------------------------ MODULE MCVidas ------------------------------
(***************************************************************************)
(* The instance of Vidas for TLC: one share, one buyer, paid with Pix.     *)
(***************************************************************************)
EXTENDS Vidas, TLC

CONSTANTS c1

Uma == {c1}
UmaUnidade == c1 :> 1
UmaCompradora == c1 :> "ana"
SoPix == c1 :> {"pix"}
=============================================================================
