------------------------------ MODULE Estoque -------------------------------
(***************************************************************************)
(* What the sale of a pool promises about its stock, whatever payments,    *)
(* webhooks, jobs and operators do: a set of shares holds units of the     *)
(* pool, and shares enter the set only while their units fit in the total. *)
(* There is no counter here: the promise is about the shares themselves.   *)
(***************************************************************************)
EXTENDS Integers, FiniteSets

CONSTANTS Cotas, Quantidade, TotalCotas

VARIABLE ocupam     \* the shares that hold stock

Unidades(S) == UNION {{c} \X (1..Quantidade[c]) : c \in S}
Cabem(S) == Cardinality(Unidades(S)) <= TotalCotas

Init == ocupam = {}

Ocupa(S) == Cabem(ocupam \cup S) /\ ocupam' = ocupam \cup S

Devolve(S) == ocupam' = ocupam \ S

Next == \E S \in SUBSET Cotas : Ocupa(S) \/ Devolve(S)

Spec == Init /\ [][Next]_ocupam
=============================================================================
