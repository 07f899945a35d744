------------------------------ MODULE Repasses ------------------------------
(***************************************************************************)
(* Payout of commissions (admin.service.ts).  createRemittance reads the   *)
(* commissions of its list outside the transaction that creates the batch  *)
(* and claims them, so the two are separate steps; payRemittance reads the *)
(* batch outside the transaction that pays it.  A batch row stands for the *)
(* request that creates it.                                                *)
(***************************************************************************)
EXTENDS Integers

CONSTANTS
    Comissoes,      \* rows of table "comissoes"
    Lotes,          \* rows of table "repasses_lotes" that may ever exist
    MaxPagando      \* bound: requests to pay the same batch at the same time

VARIABLES
    comissao,       \* status of each commission and its batch: {} when loteRepasseId is null
    lote,           \* status of each batch, and the commissions its valorTotal is the sum of
    lista,          \* lists read and found free by a createRemittance in flight
    pagando,        \* payRemittance in flight, per batch
    cruzados        \* history: two createRemittance requests have overlapped

vars == <<comissao, lote, lista, pagando, cruzados>>

SemLote == {}
Comissao == [status : {"pendente", "paga", "cancelada"}, lote : {SemLote} \cup {{l} : l \in Lotes}]
Lote == [status : {"nenhum", "rascunho", "pago"}, soma : SUBSET Comissoes]

TypeOK ==
    /\ comissao \in [Comissoes -> Comissao]
    /\ lote \in [Lotes -> Lote]
    /\ lista \in [Lotes -> SUBSET Comissoes]
    /\ pagando \in [Lotes -> Nat]
    /\ cruzados \in BOOLEAN

Init ==
    /\ comissao = [c \in Comissoes |-> [status |-> "pendente", lote |-> SemLote]]
    /\ lote = [l \in Lotes |-> [status |-> "nenhum", soma |-> {}]]
    /\ lista = [l \in Lotes |-> {}]
    /\ pagando = [l \in Lotes |-> 0]
    /\ cruzados = FALSE

SoPendente(c) == comissao[c].status = "pendente"
Livre(c) == comissao[c].status = "pendente" /\ comissao[c].lote = SemLote

\* createRemittance: every commission of the list must be pending and in no batch.
LeLista(l, S) ==
    /\ lote[l].status = "nenhum"
    /\ lista[l] = {}
    /\ \A c \in S : Livre(c)
    /\ lista' = [lista EXCEPT ![l] = S]
    /\ cruzados' = (cruzados \/ \E k \in Lotes : lista[k] # {})
    /\ UNCHANGED <<comissao, lote, pagando>>

\* What updateMany may touch.
AlcancaQualquer(c) == TRUE
Alcanca(c) == comissao[c].status = "pendente"

\* Its transaction claims those still pending, whatever batch they are in by then;
\* the total is the one of the list that was read.
CriaLote(l) ==
    /\ lista[l] # {}
    /\ lote' = [lote EXCEPT ![l] = [status |-> "rascunho", soma |-> lista[l]]]
    /\ comissao' = [c \in Comissoes |->
                       IF c \in lista[l] /\ Alcanca(c)
                       THEN [comissao[c] EXCEPT !.lote = {l}] ELSE comissao[c]]
    /\ lista' = [lista EXCEPT ![l] = {}]
    /\ UNCHANGED <<pagando, cruzados>>

\* payRemittance: the batch is read as not paid yet.
LePagamento(l) ==
    /\ lote[l].status = "rascunho"
    /\ pagando[l] < MaxPagando
    /\ pagando' = [pagando EXCEPT ![l] = @ + 1]
    /\ UNCHANGED <<comissao, lote, lista, cruzados>>

\* Its transaction pays what is pending in the batch at that moment.
PagaLote(l) ==
    /\ pagando[l] > 0
    /\ lote' = [lote EXCEPT ![l].status = "pago"]
    /\ comissao' = [c \in Comissoes |->
                       IF comissao[c].lote = {l} /\ Alcanca(c)
                       THEN [comissao[c] EXCEPT !.status = "paga"] ELSE comissao[c]]
    /\ pagando' = [pagando EXCEPT ![l] = @ - 1]
    /\ UNCHANGED <<lista, cruzados>>

\* The sale is refunded or its pool cancelled: a pending commission is cancelled, in a batch or not.
CancelaComissao(c) ==
    /\ comissao[c].status = "pendente"
    /\ comissao' = [comissao EXCEPT ![c].status = "cancelada"]
    /\ UNCHANGED <<lote, lista, pagando, cruzados>>

Next ==
    \/ \E l \in Lotes : \/ \E S \in SUBSET Comissoes \ {{}} : LeLista(l, S)
                        \/ CriaLote(l)
                        \/ LePagamento(l)
                        \/ PagaLote(l)
    \/ \E c \in Comissoes : CancelaComissao(c)

Spec == Init /\ [][Next]_vars

-----------------------------------------------------------------------------
(* Properties *)

\* A paid commission stays paid, in the batch that paid it: neither a late request
\* that read it pending nor a refund of the sale moves it (updateMany asks for
\* status pendente again in its transaction).
PaidCommissionIsFinal ==
    \A c \in Comissoes : comissao[c].status = "paga" => comissao'[c] = comissao[c]

\* A commission is in the total of one batch at most, so it is not transferred
\* twice, as long as no two requests to create a batch have overlapped; and a batch
\* never pays a commission that its total does not count, even when they overlap
\* (createRemittance claims only what it has added up).
OneBatchPerCommission ==
    /\ ~cruzados => \A k, l \in Lotes : k # l => lote[k].soma \cap lote[l].soma = {}
    /\ \A l \in Lotes : \A c \in Comissoes : comissao[c].lote = {l} => c \in lote[l].soma

\* Every step keeps what was paid, and leaves every commission in one total.
PayoutsAddUp == [][PaidCommissionIsFinal /\ OneBatchPerCommission']_vars
=============================================================================
