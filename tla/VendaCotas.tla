----------------------------- MODULE VendaCotas -----------------------------
(***************************************************************************)
(* The sale of the shares (cotas) of ONE pool (bolao): reservation,        *)
(* charge, payment event, reconciliation, desk operation, registration and *)
(* settlement, with the stock counter and the affiliate commission.        *)
(*                                                                         *)
(* Every transaction of the API that changes the pool starts with          *)
(*      SELECT id FROM boloes WHERE id = ... FOR UPDATE                    *)
(* so it is one atomic action here.  What the code does OUTSIDE such a     *)
(* transaction is a step of its own: reads whose result is used later, and *)
(* calls to the payment provider.  Pools do not share stock, so one pool   *)
(* is enough.  A share is identified by its row; what never changes in a   *)
(* row (quantity, buyer, affiliate) is a constant.                         *)
(***************************************************************************)
EXTENDS Integers, FiniteSets

CONSTANTS
    Cotas,          \* the rows of table "cotas" that may ever exist
    Quantidade,     \* cota.quantidade
    Comprador,      \* cota.compradorId
    Metodos,        \* the methods its buyer may choose: "pix", "boleto" (Cora), "cartao" (Mercado Pago)
    ComAfiliado,    \* shares with afiliadoReferenciaId and a commission above zero
    TotalCotas,     \* bolao.totalCotas
    MaxPorPessoa,   \* bolao.maxCotasPorPessoa
    Recebimentos,   \* what the buyer may pay: {"paga"}, or also "divergente" (another amount)
    ConcursoInicial,\* the contest when the pool opens: "longe" or "perto" of its cutoff
    MaxAvisos,      \* bound: webhooks being handled at the same time
    MaxEmVoo,       \* bound: operations of any kind in flight at the same time
    MaxFalhas       \* bound: crashes and failed provider calls in a behaviour

ASSUME CotasAssumption == IsFiniteSet(Cotas)
ASSUME QuantidadeAssumption == Quantidade \in [Cotas -> Nat \ {0}]
ASSUME MetodosAssumption == Metodos \in [Cotas -> SUBSET {"pix", "boleto", "cartao"}]
ASSUME TotalAssumption == TotalCotas \in Nat \ {0}
ASSUME LimiteAssumption == /\ MaxPorPessoa \in Nat
                           /\ MaxAvisos \in Nat
                           /\ MaxEmVoo \in Nat
                           /\ MaxFalhas \in Nat
                           /\ ConcursoInicial \in {"longe", "perto"}
                           /\ ComAfiliado \subseteq Cotas
                           /\ Recebimentos \subseteq {"paga", "divergente"}
                           /\ DOMAIN Comprador = Cotas

VARIABLES
    concurso,       \* contest: "longe", "perto" (of the cutoff), "encerrado", then drawn
    statusBolao,    \* bolao.status
    marcos,         \* what is on record of the pool: "painel", that the panel registered its bet
                    \* (audit event bolao.comprovante.vinculado), "apurado", its apuradoEm
    cotasVendidas,  \* bolao.cotasVendidas, the stock counter
    statusCota,     \* cota.status, "livre" while the row does not exist
    expira,         \* cota.expiraReservaEm: "nula", "futura" or "vencida"
    statusPag,      \* pagamento.status, "nenhum" while the row does not exist
    comPsp,         \* pagamento.pspTransactionId # null
    origem,         \* pagamento.origem and pspProvedor: "gateway" or "manual"
    metodo,         \* the method of its charge, "nenhum" before the first request
    comissao,       \* comissao.status, "nenhuma" while the row does not exist
    cobranca,       \* the charge at the provider (external)
    pedido,         \* createForShare in flight for the share
    avisos,         \* webhooks already resolved, not yet applied
    conciliacao,    \* reconcilePending in flight: the batch and the charge at hand
    balcao,         \* the desk operation in flight
    worker,         \* apurarConcurso in flight: the shares it has read
    falhas          \* crashes and failed calls so far

bolaoVars == <<statusBolao, marcos, cotasVendidas>>
cotaVars  == <<statusCota, expira>>
pagVars   == <<statusPag, comPsp, origem, metodo>>
procVars  == <<pedido, avisos, conciliacao, balcao, worker>>
vars == <<concurso, bolaoVars, cotaVars, pagVars, comissao, cobranca, procVars, falhas>>

-----------------------------------------------------------------------------
(* Statuses and vocabulary *)

Liquidadas == {"paga", "registrada", "apurada", "premiada"}
Desfeitas  == {"cancelada", "estornada"}
StatusCota == {"livre", "reservada"} \cup Liquidadas \cup Desfeitas
StatusPagamento == {"nenhum", "pendente", "confirmado", "falhou", "estornado"}
StatusBolao == {"aberto", "fechado", "registrado", "apurado", "cancelado"}
Marcos == SUBSET {"painel", "apurado"}
StatusConcurso == {"longe", "perto", "encerrado", "premiado", "sem_premio"}
FasePedido == {"ocioso", "enviando", "criada", "ja_paga",
               "estende", "estende_paga", "confirma"}
SemOperacao == [op |-> "nenhuma"]
Consultada == [cota : Cotas, cancelada : BOOLEAN]
Visto == {"pendente", "confirmado", "divergente", "falhou", "estornado"}
Aviso == [cota : Cotas, visto : Visto]
SemConsulta == [fase |-> "ociosa"]

AntesDoCorte == concurso \in {"longe", "perto"}
Sorteado == concurso \in {"premiado", "sem_premio"}
HaEstoqueDeUma(c) == cotasVendidas + 1 <= TotalCotas
HaEstoque(c) == cotasVendidas + Quantidade[c] <= TotalCotas

\* The shares that hold stock, and the units they hold: unit <<c, i>> is the i-th of share c.
Vivas == {c \in Cotas : statusCota[c] \notin {"livre"} \cup Desfeitas}
UnidadesDe(c) == {c} \X (1..Quantidade[c])
Unidades(S) == UNION {UnidadesDe(c) : c \in S}

\* Bound: one more operation may start.
EmVoo == Cardinality({c \in Cotas : pedido[c] # "ocioso"}) + Cardinality(avisos)
             + Cardinality({p \in {"conciliacao", "balcao", "worker"} :
                               \/ p = "conciliacao" /\ conciliacao # SemConsulta
                               \/ p = "balcao" /\ balcao # SemOperacao
                               \/ p = "worker" /\ worker.lido})
HaVez == EmVoo < MaxEmVoo

\* What spends the personal limit: settled shares and reservations still in time.
Contadas(p) == {c \in Cotas : /\ Comprador[c] = p
                              /\ \/ statusCota[c] \in Liquidadas
                                 \/ statusCota[c] = "reservada" /\ expira[c] = "futura"}

TypeOK ==
    /\ concurso \in StatusConcurso
    /\ statusBolao \in StatusBolao
    /\ marcos \in Marcos
    /\ cotasVendidas \in Int
    /\ statusCota \in [Cotas -> StatusCota]
    /\ expira \in [Cotas -> {"nula", "futura", "vencida"}]
    /\ statusPag \in [Cotas -> StatusPagamento]
    /\ comPsp \in [Cotas -> BOOLEAN]
    /\ origem \in [Cotas -> {"gateway", "manual"}]
    /\ metodo \in [Cotas -> {"nenhum", "pix", "boleto", "cartao"}]
    /\ comissao \in [Cotas -> {"nenhuma", "pendente", "paga", "cancelada"}]
    /\ cobranca \in [Cotas -> {"nenhuma", "aberta", "paga", "divergente", "cancelada", "devolvida"}]
    /\ pedido \in [Cotas -> FasePedido]
    /\ avisos \subseteq Aviso
    /\ conciliacao \in {SemConsulta}
           \cup [fase : {"lote"}, lote : SUBSET Consultada]
           \cup [fase : {"aplica"}, lote : SUBSET Consultada, atual : Consultada, visto : Visto]
    /\ balcao \in {SemOperacao, [op |-> "comprovante"]} \cup [op : {"baixa", "cancela", "falha", "estorna"}, cota : Cotas]
    /\ worker \in [lido : BOOLEAN, vistas : SUBSET Cotas]
    /\ falhas \in Nat

Init ==
    /\ concurso = ConcursoInicial
    /\ statusBolao = "aberto"
    /\ marcos = {}
    /\ cotasVendidas = 0
    /\ statusCota = [c \in Cotas |-> "livre"]
    /\ expira = [c \in Cotas |-> "nula"]
    /\ statusPag = [c \in Cotas |-> "nenhum"]
    /\ comPsp = [c \in Cotas |-> FALSE]
    /\ origem = [c \in Cotas |-> "gateway"]
    /\ metodo = [c \in Cotas |-> "nenhum"]
    /\ comissao = [c \in Cotas |-> "nenhuma"]
    /\ cobranca = [c \in Cotas |-> "nenhuma"]
    /\ pedido = [c \in Cotas |-> "ocioso"]
    /\ avisos = {}
    /\ conciliacao = SemConsulta
    /\ balcao = SemOperacao
    /\ worker = [lido |-> FALSE, vistas |-> {}]
    /\ falhas = 0

-----------------------------------------------------------------------------
(* Reservation *)

\* A new row that takes stock; shared by the site and by the desk.
NovaCota(c, prazo) ==
    /\ statusCota[c] = "livre"
    /\ AntesDoCorte
    /\ statusBolao = "aberto"
    /\ HaEstoque(c)
    /\ statusCota' = [statusCota EXCEPT ![c] = "reservada"]
    /\ expira' = [expira EXCEPT ![c] = prazo]
    /\ cotasVendidas' = cotasVendidas + Quantidade[c]
    /\ UNCHANGED <<concurso, statusBolao, marcos, pagVars, comissao, cobranca, procVars, falhas>>

\* Reservation by the site.  The sale window, the release gate and the proof only refuse it.
Reserve(c) ==
    /\ Cardinality(Unidades(Contadas(Comprador[c]))) + Quantidade[c] <= MaxPorPessoa
    /\ NovaCota(c, "futura")

\* Desk sale: no personal limit and no deadline.  Its payment, if any, is a MarkPaid of its own.
ManualSale(c) == NovaCota(c, "nula")

ExpiradaSemCobranca(c) == statusCota[c] = "reservada" /\ expira[c] = "vencida" /\ statusPag[c] = "nenhum"
Expirada(c) == statusCota[c] = "reservada" /\ expira[c] = "vencida"

\* The job of every minute gives back the stock of an overdue reservation.
ExpireReservation(c) ==
    /\ Expirada(c)
    /\ statusCota' = [statusCota EXCEPT ![c] = "cancelada"]
    /\ cotasVendidas' = cotasVendidas - Quantidade[c]
    /\ UNCHANGED <<concurso, statusBolao, marcos, expira, pagVars, comissao, cobranca, procVars, falhas>>

-----------------------------------------------------------------------------
(* settleTx and releasePayment, the two transactions every event ends in *)

Efetiva(c) == statusCota[c] = "reservada" /\ AntesDoCorte /\ statusBolao = "aberto"

ReativaSempre(c) == statusCota[c] = "cancelada" /\ AntesDoCorte /\ statusBolao = "aberto"
ReativaNoCancelado(c) == statusCota[c] = "cancelada" /\ AntesDoCorte /\ HaEstoque(c)
Reativa(c) == statusCota[c] = "cancelada" /\ AntesDoCorte /\ statusBolao = "aberto" /\ HaEstoque(c)

\* A received payment is made effective: the share is paid, or taken back into
\* the stock if it had been cancelled and still fits; the payment is confirmed
\* in any case, and a settled sale gets its commission once.
SettleTx(c) ==
    LET transitioned == Efetiva(c) \/ Reativa(c)
        settled == transitioned \/ statusCota[c] \in Liquidadas
    IN  /\ statusCota' = [statusCota EXCEPT ![c] = IF transitioned THEN "paga" ELSE @]
        /\ expira' = [expira EXCEPT ![c] = IF transitioned THEN "nula" ELSE @]
        /\ cotasVendidas' = IF Reativa(c) THEN cotasVendidas + Quantidade[c] ELSE cotasVendidas
        /\ statusPag' = [statusPag EXCEPT ![c] = "confirmado"]
        /\ comissao' = [comissao EXCEPT ![c] =
                           IF settled /\ c \in ComAfiliado /\ @ = "nenhuma" THEN "pendente" ELSE @]

\* The payment row an event of the provider is matched with.
Encontrado(c) == comPsp[c] /\ origem[c] = "gateway"

EstornoReversivel(c) == FALSE
EstornoTerminal(c) == statusPag[c] = "estornado"

\* confirmPayment: a repeated confirmation, an unknown charge or a different amount changes nothing.
ConfirmPayment(c, valorConfere) ==
    IF /\ Encontrado(c)
       /\ ~(statusPag[c] = "confirmado" /\ statusCota[c] = "paga")
       /\ valorConfere
       /\ ~EstornoTerminal(c)
    THEN SettleTx(c) /\ UNCHANGED <<statusBolao, marcos, comPsp, origem, metodo>>
    ELSE UNCHANGED <<bolaoVars, cotaVars, pagVars, comissao>>

\* There must be a payment; a refund is final, a repetition is ignored, and a
\* failure never undoes a confirmation.
IgnoraRepetida(c, novo) == EstornoTerminal(c) \/ statusPag[c] \in {"nenhum", novo}
Ignora(c, novo) == \/ EstornoTerminal(c) \/ statusPag[c] \in {"nenhum", novo}
                   \/ novo = "falhou" /\ statusPag[c] = "confirmado"

\* The stock is given back once: a share already undone holds none.
Devolve(c) == Quantidade[c]
EstoqueDevolvido(c) == IF statusCota[c] \in Desfeitas THEN 0 ELSE Quantidade[c]

CotaComOStatus(c, novo) == novo
CotaPoupada(c, novo) == IF novo = "estornado" THEN statusCota[c] ELSE "cancelada"
CotaLiberada(c, novo) == IF novo = "estornado" THEN "estornada" ELSE "cancelada"

ComissaoMantida(c) == comissao[c]
ComissaoCancelada(c) == IF comissao[c] = "pendente" THEN "cancelada" ELSE comissao[c]

\* releasePayment: the payment failed or was refunded; the share goes with it.
ReleasePayment(c, novo) ==
    IF Ignora(c, novo)
    THEN UNCHANGED <<bolaoVars, cotaVars, pagVars, comissao>>
    ELSE /\ statusPag' = [statusPag EXCEPT ![c] = novo]
         /\ statusCota' = [statusCota EXCEPT ![c] = CotaLiberada(c, novo)]
         /\ cotasVendidas' = cotasVendidas - EstoqueDevolvido(c)
         /\ comissao' = [comissao EXCEPT ![c] = ComissaoCancelada(c)]
         /\ UNCHANGED <<statusBolao, marcos, expira, comPsp, origem, metodo>>

-----------------------------------------------------------------------------
(* createForShare: a transaction, a call to the provider, an unguarded      *)
(* update, the extension of a boleto reservation, and the confirmation of a *)
(* charge that came back already paid                                       *)

\* The payment row is claimed under the lock.  A retry reuses the row, hence the
\* method and the key of the charge.
CobrancaAbre(c) ==
    /\ HaVez
    /\ pedido[c] = "ocioso"
    /\ statusCota[c] = "reservada"
    /\ statusBolao = "aberto"
    /\ AntesDoCorte
    /\ expira[c] # "vencida"
    /\ ~comPsp[c]
    /\ statusPag[c] \in {"nenhum", "falhou"}
    /\ statusPag' = [statusPag EXCEPT ![c] = "pendente"]
    /\ origem[c] = "gateway"
    /\ \E m \in Metodos[c] : /\ metodo[c] \in {"nenhum", m}
                             /\ m = "boleto" => concurso = "longe"
                             /\ metodo' = [metodo EXCEPT ![c] = m]
    /\ pedido' = [pedido EXCEPT ![c] = "enviando"]
    /\ UNCHANGED <<concurso, bolaoVars, cotaVars, comPsp, origem, comissao, cobranca,
                   avisos, conciliacao, balcao, worker, falhas>>

\* The provider creates the charge, or returns the one it already has for the key.
CobrancaNoProvedor(c) ==
    /\ pedido[c] = "enviando"
    /\ cobranca' = [cobranca EXCEPT ![c] = IF @ = "nenhuma" THEN "aberta" ELSE @]
    /\ pedido' = [pedido EXCEPT ![c] =
                     IF metodo[c] # "cartao" /\ cobranca[c] \in {"paga", "divergente"}
                     THEN "ja_paga" ELSE "criada"]
    /\ UNCHANGED <<concurso, bolaoVars, cotaVars, pagVars, comissao,
                   avisos, conciliacao, balcao, worker, falhas>>

\* The answer is written by payment id, whatever happened to the payment meanwhile.
CobrancaGrava(c) ==
    /\ pedido[c] \in {"criada", "ja_paga"}
    /\ LET paga == pedido[c] = "ja_paga"
       IN  /\ statusPag' = [statusPag EXCEPT ![c] = IF paga THEN "confirmado" ELSE "pendente"]
           /\ comPsp' = [comPsp EXCEPT ![c] = TRUE]
           /\ pedido' = [pedido EXCEPT ![c] =
                 IF metodo[c] = "boleto" THEN IF paga THEN "estende_paga" ELSE "estende"
                 ELSE IF paga THEN "confirma" ELSE "ocioso"]
    /\ UNCHANGED <<concurso, bolaoVars, cotaVars, origem, metodo, comissao, cobranca,
                   avisos, conciliacao, balcao, worker, falhas>>

\* A boleto keeps the share until it is due, at most 72 h after the request: before the cutoff.
CobrancaEstende(c) ==
    /\ pedido[c] \in {"estende", "estende_paga"}
    /\ expira' = [expira EXCEPT ![c] = IF AntesDoCorte THEN "futura" ELSE "vencida"]
    /\ pedido' = [pedido EXCEPT ![c] = IF @ = "estende" THEN "ocioso" ELSE "confirma"]
    /\ UNCHANGED <<concurso, bolaoVars, statusCota, pagVars, comissao, cobranca,
                   avisos, conciliacao, balcao, worker, falhas>>

\* confirmPayment without an amount: nothing compares what was paid.
CobrancaConfirma(c) ==
    /\ pedido[c] = "confirma"
    /\ ConfirmPayment(c, TRUE)
    /\ pedido' = [pedido EXCEPT ![c] = "ocioso"]
    /\ UNCHANGED <<concurso, cobranca, avisos, conciliacao, balcao, worker, falhas>>

\* createCharge or a later write throws, even after the provider created the charge.
CobrancaErro(c) ==
    /\ pedido[c] # "ocioso"
    /\ falhas < MaxFalhas
    /\ falhas' = falhas + 1
    /\ statusPag' = [statusPag EXCEPT ![c] = IF @ = "pendente" /\ ~comPsp[c] THEN "falhou" ELSE @]
    /\ pedido' = [pedido EXCEPT ![c] = "ocioso"]
    /\ UNCHANGED <<concurso, bolaoVars, cotaVars, comPsp, origem, metodo, comissao, cobranca,
                   avisos, conciliacao, balcao, worker>>

-----------------------------------------------------------------------------
(* The provider and its events (external), the webhook and the reconciliation *)

\* The buyer pays the charge, the right amount or another one.
ClientePaga(c) ==
    /\ cobranca[c] = "aberta"
    /\ \E resultado \in Recebimentos : cobranca' = [cobranca EXCEPT ![c] = resultado]
    /\ UNCHANGED <<concurso, bolaoVars, cotaVars, pagVars, comissao, procVars, falhas>>

\* The charge expires or is cancelled at the provider, or a received payment is refunded there.
ProvedorEncerra(c) ==
    /\ cobranca[c] \in {"aberta", "paga", "divergente"}
    /\ cobranca' = [cobranca EXCEPT ![c] = IF @ = "aberta" THEN "cancelada" ELSE "devolvida"]
    /\ UNCHANGED <<concurso, bolaoVars, cotaVars, pagVars, comissao, procVars, falhas>>

\* fetchStatus at Cora: no status is mapped to a refund, so a refunded charge reads
\* as whatever Cora calls it.
VistoNaCora(c) ==
    {v \in Visto : \/ cobranca[c] \in {"nenhuma", "aberta"} /\ v = "pendente"
                   \/ cobranca[c] = "paga" /\ v = "confirmado"
                   \/ cobranca[c] = "divergente" /\ v = "divergente"
                   \/ cobranca[c] = "cancelada" /\ v = "falhou"
                   \/ cobranca[c] = "devolvida" /\ v \in {"confirmado", "falhou", "pendente"}}

\* fetchStatus at Mercado Pago: a checkout that closed without a payment still reads as pending.
VistoNoMercadoPago(c) ==
    {v \in Visto : \/ cobranca[c] \in {"nenhuma", "aberta", "cancelada"} /\ v = "pendente"
                   \/ cobranca[c] = "paga" /\ v = "confirmado"
                   \/ cobranca[c] = "divergente" /\ v = "divergente"
                   \/ cobranca[c] = "devolvida" /\ v = "estornado"}

VistoNaConsulta(c) == IF metodo[c] = "cartao" THEN VistoNoMercadoPago(c) ELSE VistoNaCora(c)

\* A webhook of a card is about one attempt: one the buyer abandoned reads as failed,
\* even when another attempt paid the charge.
VistoNoAviso(c) ==
    {v \in Visto : \/ v \in VistoNaConsulta(c) /\ v # "pendente"
                   \/ v = "falhou" /\ metodo[c] = "cartao"}

AvisoChega(c) ==
    /\ HaVez
    /\ cobranca[c] # "nenhuma"
    /\ Cardinality(avisos) < MaxAvisos
    /\ \E v \in VistoNoAviso(c) : avisos' = avisos \cup {[cota |-> c, visto |-> v]}
    /\ UNCHANGED <<concurso, bolaoVars, cotaVars, pagVars, comissao, cobranca,
                   pedido, conciliacao, balcao, worker, falhas>>

\* What a status read at the provider does to the payment it is matched with.
AplicaStatus(c, visto) ==
    \/ visto = "confirmado" /\ ConfirmPayment(c, TRUE)
    \/ visto = "divergente" /\ ConfirmPayment(c, FALSE)
    \/ visto \in {"falhou", "estornado"} /\ ReleasePayment(c, visto)
    \/ visto = "pendente" /\ UNCHANGED <<bolaoVars, cotaVars, pagVars, comissao>>

\* applyProviderStatus with the status the webhook resolved a while ago.
AvisoAplica(a) ==
    /\ a \in avisos
    /\ avisos' = avisos \ {a}
    /\ IF Encontrado(a.cota) THEN AplicaStatus(a.cota, a.visto)
       ELSE UNCHANGED <<bolaoVars, cotaVars, pagVars, comissao>>
    /\ UNCHANGED <<concurso, cobranca, pedido, conciliacao, balcao, worker, falhas>>

\* reconcilePending reads its batch; the flag "running" keeps one at a time.
ConciliavelReservada(c) == statusPag[c] = "pendente" /\ Encontrado(c) /\ statusCota[c] = "reservada"
Conciliavel(c) == statusPag[c] = "pendente" /\ Encontrado(c)

\* The reservation of the charge is gone: the charge must be cancelled too.
SemReservaEstornada(c) == statusCota[c] = "estornada"
SemReserva(c) == statusCota[c] \in Desfeitas

ConciliaLe ==
    /\ HaVez
    /\ conciliacao = SemConsulta
    /\ \E c \in Cotas : Conciliavel(c)
    /\ conciliacao' = [fase |-> "lote",
           lote |-> {[cota |-> c, cancelada |-> SemReserva(c)] :
                        c \in {d \in Cotas : Conciliavel(d)}}]
    /\ UNCHANGED <<concurso, bolaoVars, cotaVars, pagVars, comissao, cobranca,
                   pedido, avisos, balcao, worker, falhas>>

ConciliaConsulta ==
    /\ conciliacao.fase = "lote"
    /\ \E r \in conciliacao.lote : \E v \in VistoNaConsulta(r.cota) :
          conciliacao' = [fase |-> "aplica", lote |-> conciliacao.lote \ {r}, atual |-> r, visto |-> v]
    /\ UNCHANGED <<concurso, bolaoVars, cotaVars, pagVars, comissao, cobranca,
                   pedido, avisos, balcao, worker, falhas>>

Restante(lote) == IF lote = {} THEN SemConsulta ELSE [fase |-> "lote", lote |-> lote]

\* Cora can cancel a charge that is not paid; Mercado Pago has no cancelCharge.
PodeCancelar(c) == metodo[c] = "cartao" \/ cobranca[c] \in {"aberta", "cancelada"}

ConciliaAplica ==
    /\ conciliacao.fase = "aplica"
    /\ LET c == conciliacao.atual.cota
           cancela == conciliacao.visto = "pendente" /\ conciliacao.atual.cancelada
       IN  IF cancela /\ PodeCancelar(c)
           THEN /\ cobranca' = [cobranca EXCEPT ![c] = IF metodo[c] = "cartao" THEN @ ELSE "cancelada"]
                /\ ReleasePayment(c, "falhou")
           ELSE AplicaStatus(c, conciliacao.visto) /\ UNCHANGED cobranca
    /\ conciliacao' = Restante(conciliacao.lote)
    /\ UNCHANGED <<concurso, pedido, avisos, balcao, worker, falhas>>

\* A provider call fails: the charge is left for the next run.
ConciliaErro ==
    /\ conciliacao.fase = "aplica"
    /\ falhas < MaxFalhas
    /\ falhas' = falhas + 1
    /\ conciliacao' = Restante(conciliacao.lote)
    /\ UNCHANGED <<concurso, bolaoVars, cotaVars, pagVars, comissao, cobranca,
                   pedido, avisos, balcao, worker>>

-----------------------------------------------------------------------------
(* The desk: manual payment and cancellation, each read before the lock *)

\* cancelCharge before the transaction: best effort, its failure is only logged.
TentaCancelar(c) ==
    \/ UNCHANGED cobranca
    \/ /\ Encontrado(c)
       /\ metodo[c] # "cartao"
       /\ cobranca[c] = "aberta"
       /\ cobranca' = [cobranca EXCEPT ![c] = "cancelada"]

MarkPaidLe(c) ==
    /\ HaVez
    /\ balcao = SemOperacao
    /\ statusCota[c] \in {"reservada", "cancelada"}
    /\ statusPag[c] # "confirmado"
    /\ TentaCancelar(c)
    /\ balcao' = [op |-> "baixa", cota |-> c]
    /\ UNCHANGED <<concurso, bolaoVars, cotaVars, pagVars, comissao,
                   pedido, avisos, conciliacao, worker, falhas>>

\* The payment row becomes manual and is settled; if the share does not end up paid, all is rolled back.
MarkPaidGrava ==
    /\ balcao.op = "baixa"
    /\ balcao' = SemOperacao
    /\ LET c == balcao.cota
       IN  IF (Efetiva(c) \/ Reativa(c)) /\ statusPag[c] # "confirmado"
           THEN /\ SettleTx(c)
                /\ origem' = [origem EXCEPT ![c] = "manual"]
                /\ comPsp' = [comPsp EXCEPT ![c] = FALSE]
                /\ UNCHANGED <<statusBolao, marcos, metodo>>
           ELSE UNCHANGED <<bolaoVars, cotaVars, pagVars, comissao>>
    /\ UNCHANGED <<concurso, cobranca, pedido, avisos, conciliacao, worker, falhas>>

CancelavelAqui(c) == statusCota[c] \in {"reservada", "paga"}
Cancelavel(c) == /\ statusCota[c] \in {"reservada", "paga"}
                 /\ ~(statusPag[c] = "confirmado" /\ origem[c] = "gateway")

\* What cancelShare will do is decided by the payment it reads here.
CancelShareLe(c) ==
    /\ HaVez
    /\ balcao = SemOperacao
    /\ Cancelavel(c)
    /\ IF statusPag[c] = "pendente" THEN TentaCancelar(c) ELSE UNCHANGED cobranca
    /\ balcao' = [cota |-> c,
                  op |-> IF statusPag[c] = "nenhum" THEN "cancela"
                         ELSE IF statusPag[c] = "confirmado" THEN "estorna" ELSE "falha"]
    /\ UNCHANGED <<concurso, bolaoVars, cotaVars, pagVars, comissao,
                   pedido, avisos, conciliacao, worker, falhas>>

\* A share without a payment is cancelled only if it is still so.
CancelaSemPagamento(c) ==
    IF statusPag[c] = "nenhum" /\ statusCota[c] = "reservada"
    THEN /\ statusCota' = [statusCota EXCEPT ![c] = "cancelada"]
         /\ cotasVendidas' = cotasVendidas - Quantidade[c]
         /\ comissao' = [comissao EXCEPT ![c] = ComissaoCancelada(c)]
         /\ UNCHANGED <<statusBolao, marcos, expira, pagVars>>
    ELSE UNCHANGED <<bolaoVars, cotaVars, pagVars, comissao>>

CancelShareGrava ==
    /\ balcao.op \in {"cancela", "falha", "estorna"}
    /\ balcao' = SemOperacao
    /\ \/ balcao.op = "falha" /\ ReleasePayment(balcao.cota, "falhou")
       \/ balcao.op = "estorna" /\ ReleasePayment(balcao.cota, "estornado")
       \/ balcao.op = "cancela" /\ CancelaSemPagamento(balcao.cota)
    /\ UNCHANGED <<concurso, cobranca, pedido, avisos, conciliacao, worker, falhas>>

\* A commission is paid out to the affiliate.
PayCommission(c) ==
    /\ comissao[c] = "pendente"
    /\ comissao' = [comissao EXCEPT ![c] = "paga"]
    /\ UNCHANGED <<concurso, bolaoVars, cotaVars, pagVars, cobranca, procVars, falhas>>

-----------------------------------------------------------------------------
(* The pool: closing, cancelling, registering the bet, settling the contest *)

MudaBolao(para) ==
    /\ statusBolao' = para
    /\ UNCHANGED <<concurso, cotasVendidas, pagVars, comissao, cobranca, falhas>>

Close ==
    /\ statusBolao = "aberto"
    /\ MudaBolao("fechado")
    /\ UNCHANGED <<marcos, cotaVars, procVars>>

CancelPool ==
    /\ statusBolao \in {"aberto", "fechado"}
    /\ \A c \in Cotas : /\ statusCota[c] \in {"livre"} \cup Desfeitas
                        /\ statusPag[c] \notin {"pendente", "confirmado"}
    /\ MudaBolao("cancelado")
    /\ UNCHANGED <<marcos, cotaVars, procVars>>

TodasPagas == Vivas # {} /\ \A c \in Vivas : statusCota[c] = "paga"

Registrada(c) == IF statusCota[c] = "paga" THEN "registrada" ELSE statusCota[c]

\* The bet was placed: every live share must be paid, under the lock.
Register ==
    /\ statusBolao \in {"aberto", "fechado"}
    /\ TodasPagas
    /\ statusCota' = [c \in Cotas |-> Registrada(c)]
    /\ MudaBolao("registrado")
    /\ UNCHANGED <<marcos, expira, procVars>>

\* registerOperationReceipt, the panel's way, is decided on a pool read without the lock ...
ComprovanteLe ==
    /\ HaVez
    /\ balcao = SemOperacao
    /\ statusBolao \in {"fechado", "registrado"}
    /\ balcao' = [op |-> "comprovante"]
    /\ UNCHANGED <<concurso, bolaoVars, cotaVars, pagVars, comissao, cobranca,
                   pedido, avisos, conciliacao, worker, falhas>>

\* ... and written whatever became of it, whether or not all of its shares are paid.
ComprovanteGrava ==
    /\ balcao.op = "comprovante"
    /\ statusCota' = [c \in Cotas |-> Registrada(c)]
    /\ MudaBolao("registrado")
    /\ marcos' = IF statusBolao \in {"registrado", "apurado"} THEN marcos ELSE marcos \cup {"painel"}
    /\ balcao' = SemOperacao
    /\ UNCHANGED <<expira, pedido, avisos, conciliacao, worker>>

\* apurarConcurso reads the registered pool and its shares outside the transaction ...
ApuraLe ==
    /\ HaVez
    /\ Sorteado
    /\ statusBolao = "registrado"
    /\ ~worker.lido
    /\ worker' = [lido |-> TRUE, vistas |-> {c \in Cotas : statusCota[c] = "registrada"}]
    /\ UNCHANGED <<concurso, bolaoVars, cotaVars, pagVars, comissao, cobranca,
                   pedido, avisos, conciliacao, balcao, falhas>>

\* ... and writes them back without a lock and without looking at them again.
ApuraGrava ==
    /\ worker.lido
    /\ LET resultado == IF concurso = "premiado" THEN "premiada" ELSE "apurada"
       IN  statusCota' = [c \in Cotas |-> IF c \in worker.vistas THEN resultado ELSE statusCota[c]]
    /\ MudaBolao("apurado")
    /\ marcos' = marcos \cup {"apurado"}
    /\ worker' = [lido |-> FALSE, vistas |-> {}]
    /\ UNCHANGED <<expira, pedido, avisos, conciliacao, balcao>>

-----------------------------------------------------------------------------
(* Time and crashes *)

\* The time of a reservation runs out.
Vence(c) ==
    /\ statusCota[c] = "reservada"
    /\ expira[c] = "futura"
    /\ expira' = [expira EXCEPT ![c] = "vencida"]
    /\ UNCHANGED <<concurso, bolaoVars, statusCota, pagVars, comissao, cobranca, procVars, falhas>>

\* The contest approaches its cutoff, passes it (no reservation outlives it) and is drawn.
AvancaConcurso ==
    /\ \/ concurso = "longe" /\ concurso' = "perto" /\ UNCHANGED expira
       \/ /\ concurso = "perto"
          /\ concurso' = "encerrado"
          /\ expira' = [c \in Cotas |-> IF expira[c] = "futura" THEN "vencida" ELSE expira[c]]
       \/ /\ concurso = "encerrado"
          /\ concurso' \in {"premiado", "sem_premio"}
          /\ UNCHANGED expira
    /\ UNCHANGED <<bolaoVars, statusCota, pagVars, comissao, cobranca, procVars, falhas>>

\* The API process stops: everything it had in flight is lost.
QuedaApi ==
    /\ falhas < MaxFalhas
    /\ falhas' = falhas + 1
    /\ pedido' = [c \in Cotas |-> "ocioso"]
    /\ avisos' = {}
    /\ conciliacao' = SemConsulta
    /\ balcao' = SemOperacao
    /\ UNCHANGED <<concurso, bolaoVars, cotaVars, pagVars, comissao, cobranca, worker>>

QuedaWorker ==
    /\ worker.lido
    /\ falhas < MaxFalhas
    /\ falhas' = falhas + 1
    /\ worker' = [lido |-> FALSE, vistas |-> {}]
    /\ UNCHANGED <<concurso, bolaoVars, cotaVars, pagVars, comissao, cobranca,
                   pedido, avisos, conciliacao, balcao>>

-----------------------------------------------------------------------------
(* The system *)

PedidoSegue(c) == CobrancaNoProvedor(c) \/ CobrancaGrava(c) \/ CobrancaEstende(c) \/ CobrancaConfirma(c)
Concilia == ConciliaLe \/ ConciliaConsulta \/ ConciliaAplica

\* What the site, the provider and the jobs do on their own.
Online ==
    \/ \E c \in Cotas : \/ Reserve(c) \/ ExpireReservation(c)
                        \/ CobrancaAbre(c) \/ PedidoSegue(c) \/ CobrancaErro(c)
                        \/ ClientePaga(c) \/ ProvedorEncerra(c) \/ AvisoChega(c)
                        \/ Vence(c)
    \/ \E a \in avisos : AvisoAplica(a)
    \/ Concilia \/ ConciliaErro
    \/ AvancaConcurso \/ QuedaApi

\* What the operators decide about a share.
Balcao ==
    \/ \E c \in Cotas : ManualSale(c) \/ MarkPaidLe(c) \/ CancelShareLe(c) \/ PayCommission(c)
    \/ MarkPaidGrava \/ CancelShareGrava

\* What happens to the pool as a whole.
Bolao == Close \/ CancelPool \/ Register \/ ApuraLe \/ ApuraGrava \/ QuedaWorker

\* The registration of the bet by the panel.
Painel == ComprovanteLe \/ ComprovanteGrava

Next == Online \/ Balcao \/ Bolao \/ Painel

Spec == Init /\ [][Next]_vars

\* The system without the desk and the panel.
SpecOnline == Init /\ [][Online \/ Bolao]_vars

\* Time passes, a request that was accepted is served, and the jobs run again and again.
Justica ==
    /\ \A c \in Cotas : /\ WF_vars(Vence(c))
                         /\ WF_vars(ExpireReservation(c))
                         /\ WF_vars(PedidoSegue(c))
    /\ WF_vars(AvancaConcurso)
    /\ WF_vars(\E a \in avisos : AvisoAplica(a))
    /\ WF_vars(Concilia)

SpecJusta == SpecOnline /\ Justica

-----------------------------------------------------------------------------
(* Safety *)

\* The counter is the sum of the quantities of the live shares, through expiry,
\* late payment, release and desk work, until the pool is settled.
StockConserved ==
    "apurado" \notin marcos => cotasVendidas = Cardinality(Unidades(Vivas))

\* The shares that hold stock never exceed the pool, counted share by share.
NeverOversold == Cardinality(Unidades(Vivas)) <= TotalCotas

\* What became of the pool, became of each of its shares: a cancelled pool has no
\* live one and no late payment brings one back; from the registration of the bet
\* on none is left merely paid, none is left reserved but by the panel, which does
\* not look (module CicloBolao, RegisteredMeansPaid), and once settled none is
\* merely registered, although the panel may take a settled pool back.
NoShareLeftBehind ==
    /\ statusBolao = "cancelado" => Vivas = {}
    /\ statusBolao \in {"registrado", "apurado"} =>
          \A c \in Cotas : /\ statusCota[c] # "paga"
                           /\ statusCota[c] = "reservada" => "painel" \in marcos
    /\ statusBolao = "apurado" => \A c \in Cotas : statusCota[c] # "registrada"

\* The panel never shows a refund the provider has not made: a gateway payment
\* is "estornado" only if its money went back.
NoPhantomRefund ==
    \A c \in Cotas : statusPag[c] = "estornado" /\ origem[c] = "gateway" => cobranca[c] = "devolvida"

\* A share paid through the gateway only leaves "paga" by the registration of
\* the bet or a refund: neither an old failure notice, nor the reconciliation of
\* a batch read before the payment, nor a desk cancellation decided before it.
PaidShareIsKept ==
    [][\A c \in Cotas : statusCota[c] = "paga" /\ origem[c] = "gateway"
                            => statusCota'[c] \in {"paga", "registrada", "estornada"}]_vars

\* A gateway refund is final: confirmations and failures that arrive late,
\* repeated or out of order leave the payment refunded.
RefundIsFinal ==
    [][\A c \in Cotas : statusPag[c] = "estornado" /\ origem[c] = "gateway"
                            => statusPag'[c] = "estornado"]_vars

\* The stock the shares hold implements the abstract one.
Abstrato == INSTANCE Estoque WITH ocupam <- Vivas
EstoqueSpec == Abstrato!Spec

-----------------------------------------------------------------------------
(* Liveness, without the desk: in these the provider's word decides alone *)

\* A pending payment whose charge the system knows.
CobrancaConhecida(c) == statusPag[c] = "pendente" /\ comPsp[c] /\ origem[c] = "gateway"

\* The stock of a site reservation that is not paid is not held for ever.
ReservationEnds ==
    \A c \in Cotas : statusCota[c] = "reservada" /\ expira[c] # "nula" ~> statusCota[c] # "reservada"

\* A known pending charge that was paid is confirmed even if every webhook is
\* lost, unless the money is returned first.
PaidIsConfirmed ==
    \A c \in Cotas : CobrancaConhecida(c) /\ cobranca[c] = "paga"
                         ~> statusPag[c] = "confirmado" \/ cobranca[c] = "devolvida"

\* The known charge of a reservation that expired does not stay open at the provider.
StaleChargeIsClosed ==
    \A c \in Cotas : CobrancaConhecida(c) /\ statusCota[c] \in Desfeitas ~> cobranca[c] # "aberta"

-----------------------------------------------------------------------------
(* What the documentation or a message says and the code does not do *)

\* "Dar baixa: confirma o recebimento de uma reserva": a manual payment, once
\* confirmed, only changes by a cancellation.
ManualPaymentIsKept ==
    [][\A c \in Cotas : statusPag[c] = "confirmado" /\ origem[c] = "manual"
                            => statusPag'[c] \in {"confirmado", "estornado"}]_vars

\* A refunded sale takes no part in the draw.
RefundedTakesNoPart ==
    \A c \in Cotas : statusPag[c] = "estornado" => statusCota[c] \notin {"apurada", "premiada"}

\* "Aguarde a conciliacao": a claimed payment whose request ended does not stay
\* pending for ever while nobody knows its charge.
UncertainIsReconciled ==
    \A c \in Cotas : statusPag[c] = "pendente" /\ pedido[c] = "ocioso" /\ ~comPsp[c]
                         ~> statusPag[c] # "pendente" \/ comPsp[c]
=============================================================================
