---------------------------- MODULE MCVendaCotas ----------------------------
(***************************************************************************)
(* Instances of VendaCotas and of its reports for TLC: one share in depth, *)
(* with every provider behaviour and crashes, and two shares that dispute  *)
(* the stock.                                                              *)
(***************************************************************************)
EXTENDS Relatorios, TLC

CONSTANTS c1, c2

\* One share, and the methods its buyer may choose.
Uma == {c1}
UmaUnidade == c1 :> 1
UmaCompradora == c1 :> "ana"
TodosOsMetodos == c1 :> {"pix", "boleto", "cartao"}
SoPix == c1 :> {"pix"}
SoCartao == c1 :> {"cartao"}

\* Two shares of one buyer, a double and a single one, for two units.
Duas == {c1, c2}
DuplaESimples == (c1 :> 2) @@ (c2 :> 1)
MesmaCompradora == (c1 :> "ana") @@ (c2 :> "ana")
BoletoEPix == (c1 :> {"boleto"}) @@ (c2 :> {"pix"})
=============================================================================
