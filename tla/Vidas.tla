------------------------------- MODULE Vidas -------------------------------
(***************************************************************************)
(* What must eventually happen: in the sale, on the screens of the buyer   *)
(* while the sale moves, and to those who wait for a pool to be released.  *)
(* The sale reads nothing of the other two, so only one of the three is    *)
(* followed in a behaviour ("foco").  While the screens are followed the   *)
(* server has one operation in flight at a time and does not fail: they    *)
(* have polls in flight and failures of their own.                         *)
(***************************************************************************)
EXTENDS Tela

CONSTANTS Lacos, MaxTentativas, MaxQuedas, MaxTrocas        \* of the notices

\* The token of a claim is a fresh one, never the absence of a token.
ASSUME AvisosAssumption == /\ MaxTentativas \in Nat \ {0} /\ MaxQuedas \in Nat /\ MaxTrocas \in Nat
                           /\ IsFiniteSet(Lacos) /\ "nenhum" \notin Lacos

VARIABLES foco, liberado, interesse, laco, criados, aviso, pushes, emails, duvidas, quedas, trocas

A == INSTANCE Avisos
avisosVars == <<liberado, interesse, laco, criados, aviso, pushes, emails, duvidas, quedas, trocas>>

VidasInit ==
    /\ foco \in {"venda", "telas", "avisos"}
    /\ Init /\ TelaInit /\ A!Init

\* While the notices are followed nobody buys, and the sale first goes to where its fairness
\* asks nothing more of it: the contest of its pool is drawn.
Venda ==
    /\ IF foco = "avisos" THEN AvancaConcurso /\ concurso' # "sem_premio" ELSE Online \/ Bolao
    /\ foco = "telas" => falhas' = 0 /\ EmVoo' <= 1
    /\ UNCHANGED <<foco, telaVars, avisosVars>>
Compradora == foco = "telas" /\ TelaAnda /\ UNCHANGED <<foco, vars, avisosVars>>
Interessado == foco = "avisos" /\ concurso = "premiado" /\ A!Next /\ UNCHANGED <<foco, vars, telaVars>>

VidasNext == Venda \/ Compradora \/ Interessado
VidasSpec == VidasInit /\ [][VidasNext]_<<foco, tudo, avisosVars>>
                       /\ Justica /\ TelaJustica /\ A!Fairness

-----------------------------------------------------------------------------
(* The safety of the notices; the rest is stated in the modules extended *)

VidasTypeOK == TypeOK /\ TelaTypeOK /\ A!TypeOK
NoticedOnce == A!NoticedOnce
InterestIsAnswered == A!InterestIsAnswered
=============================================================================
