---------------------------- MODULE MCConcursos ----------------------------
(***************************************************************************)
(* Instances of Concursos for TLC.  Contest 1 was drawn on day 0 and       *)
(* contest 2 is announced for day 1; the last one is never drawn.          *)
(***************************************************************************)
EXTENDS Concursos, TLC

CONSTANTS b1, b2

UmBolao == {b1}
DoisBoloes == {b1, b2}

\* A draw every day.
Pontual == {(1 :> 0) @@ (2 :> 1) @@ (3 :> 2)}
=============================================================================
