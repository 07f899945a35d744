----------------------------- MODULE Relatorios -----------------------------
(***************************************************************************)
(* The reports of the panel: what the administrator and the affiliate read *)
(* about the sales of VendaCotas.  Every report is computed from the same  *)
(* rows by a query of its own, so each one is an operator over the same    *)
(* variables, and what can go wrong is that two of them disagree.          *)
(*                                                                         *)
(* Money is a number per unit of share.  Period filters, page limits and   *)
(* the files (CSV, XLSX, PDF) are left out; the filters by status stay.    *)
(***************************************************************************)
EXTENDS VendaCotas, FiniteSetsExt

CONSTANTS
    CustoUnidade,    \* what a unit pays for the games
    TaxaUnidade,     \* the administration fee of a unit
    ComissaoUnidade  \* the affiliate's part of that fee

ASSUME ValoresAssumption == /\ CustoUnidade \in Nat
                            /\ TaxaUnidade \in Nat
                            /\ ComissaoUnidade \in 0..TaxaUnidade

ValorCota == CustoUnidade + TaxaUnidade
Quantas(S) == Cardinality(Unidades(S))
AoMenosZero(n) == IF n < 0 THEN 0 ELSE n

-----------------------------------------------------------------------------
(* The sets of rows the queries select *)

Linhas == {c \in Cotas : statusCota[c] # "livre"}
NoStatus(S) == {c \in Linhas : statusCota[c] \in S}
PAID_STATUSES == {"paga", "registrada", "apurada", "premiada"}
PagasAntesDoSorteio == {"paga", "registrada"}
Confirmadas == {c \in Linhas : statusPag[c] = "confirmado"}
ComComissao(S) == {c \in Linhas : comissao[c] \in S}

\* expiraReservaEm is null or still ahead, or it has passed.
Aguardando == {c \in NoStatus({"reservada"}) : expira[c] # "vencida"}
Vencidas == NoStatus({"reservada"}) \ Aguardando

\* Received payments without a share, to be refunded to the participant.
PagosSemCota == Confirmadas \cap NoStatus(Desfeitas)

\* Shares that count as paid, without a confirmed payment.
CotasPagasSemPagamento == NoStatus(PAID_STATUSES) \ Confirmadas

\* unpaid: waiting, overdue, or cancelled without a received payment.
NaoPagas == NoStatus({"reservada"}) \cup (NoStatus({"cancelada"}) \ Confirmadas)

-----------------------------------------------------------------------------
(* One row per share and one row per payment *)

MetodoDoPagamento(c) == IF origem[c] = "manual" THEN "manual" ELSE metodo[c]
MetodosDePagamento == {"pix", "boleto", "cartao", "manual"}

\* shareRow: cost and fee only once the payment is confirmed.
ShareRow(c) ==
    [cota |-> c,
     quantidade |-> Quantidade[c],
     valorTotal |-> Quantidade[c] * ValorCota,
     statusCota |-> IF c \in Vencidas THEN "reservada (vencida)" ELSE statusCota[c],
     statusPagamento |-> IF statusPag[c] = "nenhum" THEN "sem cobranca" ELSE statusPag[c],
     custoBilhete |-> IF c \in Confirmadas THEN Quantidade[c] * CustoUnidade ELSE 0,
     taxaAdmin |-> IF c \in Confirmadas THEN Quantidade[c] * TaxaUnidade ELSE 0,
     statusComissao |-> comissao[c]]

\* sales: the rows of the filter (a set of share statuses, a set of payment statuses).
Sales(cotas, pagamentos) ==
    LET linhas == {ShareRow(c) : c \in {d \in NoStatus(cotas) : statusPag[d] \in pagamentos}}
        pagas == {r \in linhas : r.statusPagamento = "confirmado"}
    IN  [linhas |-> linhas,
         recebido |-> Quantas({r.cota : r \in pagas}) * ValorCota,
         taxa |-> Quantas({r.cota : r \in pagas}) * TaxaUnidade]

\* payments: a cancelled commission takes nothing from the result.
Payments(c) ==
    LET parte == IF comissao[c] \in {"pendente", "paga"} THEN Quantidade[c] * ComissaoUnidade ELSE 0
    IN  [status |-> statusPag[c],
         statusCota |-> statusCota[c],
         metodo |-> MetodoDoPagamento(c),
         comissao |-> IF c \in Confirmadas THEN parte ELSE 0,
         resultado |-> IF c \in Confirmadas THEN Quantidade[c] * TaxaUnidade - parte ELSE 0]

-----------------------------------------------------------------------------
(* The totals of the administrator *)

Summary ==
    LET devidas == ComComissao({"pendente", "paga"})
    IN  [receitaBruta |-> Quantas(Confirmadas) * ValorCota,
         custoJogos |-> Quantas(Confirmadas) * CustoUnidade,
         taxaAdministracao |-> Quantas(Confirmadas) * TaxaUnidade,
         comissoes |-> Quantas(devidas) * ComissaoUnidade,
         resultado |-> Quantas(Confirmadas) * TaxaUnidade - Quantas(devidas) * ComissaoUnidade,
         aguardando |-> Quantas(Aguardando) * ValorCota,
         vencido |-> Quantas(Vencidas) * ValorCota,
         semCota |-> Cardinality(PagosSemCota),
         porMetodo |-> [m \in MetodosDePagamento |->
                           Quantas({c \in Confirmadas : MetodoDoPagamento(c) = m}) * ValorCota],
         porStatus |-> [s \in StatusCota \ {"livre"} |-> Quantas(NoStatus({s}))]]

\* pools: free units are counted from the rows, not from the stock counter.
Pools ==
    LET pagas == Quantas(NoStatus(PAID_STATUSES))
        aguardando == Quantas(NoStatus({"reservada"}))
    IN  [cotasPagas |-> pagas,
         cotasAguardando |-> aguardando,
         cotasCanceladas |-> Quantas(NoStatus(Desfeitas)),
         cotasLivres |-> AoMenosZero(TotalCotas - pagas - aguardando),
         participantes |-> Cardinality({Comprador[c] : c \in NoStatus(PAID_STATUSES)}),
         aReceber |-> aguardando * ValorCota,
         receita |-> pagas * ValorCota]

\* poolSheet: its money comes from the payments, its counts from the shares.
PoolSheet ==
    LET devidas == Linhas \ ComComissao({"nenhuma", "cancelada"})
    IN  [cotasPagas |-> Pools.cotasPagas,
         receitaBruta |-> Quantas(Confirmadas) * ValorCota,
         ficaComPlataforma |-> Quantas(Confirmadas) * TaxaUnidade - Quantas(devidas) * ComissaoUnidade]

\* commissions: what is due and what was paid to the affiliate.
Commissions ==
    [vendas |-> Cardinality(ComComissao({"pendente", "paga"})),
     base |-> Quantas(ComComissao({"pendente", "paga"})) * TaxaUnidade,
     pendente |-> Quantas(ComComissao({"pendente"})) * ComissaoUnidade,
     paga |-> Quantas(ComComissao({"paga"})) * ComissaoUnidade]

\* dashboard and listPools: what can still be bought, from the stock counter.
Disponiveis == AoMenosZero(TotalCotas - cotasVendidas)
Dashboard ==
    [cotasDisponiveis |-> IF statusBolao = "aberto" THEN Disponiveis ELSE 0,
     cotasReservadas |-> Cardinality(NoStatus({"reservada"})),
     cotasPagas |-> Cardinality(NoStatus({"paga"})),
     arrecadacao |-> Quantas(Confirmadas) * ValorCota]
ListPools ==
    [reservadas |-> Quantas(NoStatus({"reservada"})),
     pagas |-> Quantas(NoStatus(PAID_STATUSES)),
     disponiveis |-> Disponiveis,
     arrecadado |-> Quantas(NoStatus(PAID_STATUSES)) * ValorCota]

\* financialReconciliation: the commission is the one written in the payment.
FinancialReconciliation ==
    LET comissoes == Quantas(Confirmadas \cap ComAfiliado) * ComissaoUnidade
        arrecadado == Quantas(Confirmadas) * ValorCota
        custo == Quantas(Confirmadas) * CustoUnidade
        taxa == Quantas(Confirmadas) * TaxaUnidade
    IN  [resultado |-> taxa - comissoes,
         conciliado |-> /\ arrecadado = custo + taxa
                        /\ comissoes <= taxa
                        /\ PagosSemCota = {}
                        /\ CotasPagasSemPagamento = {}]

-----------------------------------------------------------------------------
(* What the affiliate sees of the sales of its link *)

DoAfiliado(S) == S \cap ComAfiliado

AffiliateDashboard ==
    [cotas |-> Cardinality(DoAfiliado(Linhas)),
     participantes |-> Cardinality({Comprador[c] : c \in DoAfiliado(Linhas)}),
     volume |-> Quantas(DoAfiliado(NoStatus(PAID_STATUSES))) * ValorCota,
     comissaoPendente |-> Commissions.pendente,
     comissaoPaga |-> Commissions.paga]

AffiliateSalesByPool ==
    [cotasVendidas |-> Quantas(DoAfiliado(NoStatus(PAID_STATUSES))),
     cotasReservadas |-> Quantas(DoAfiliado(NoStatus({"reservada"})))]

AffiliateQuotas(status) ==
    {[cota |-> c, status |-> statusCota[c], comissao |-> comissao[c]] : c \in DoAfiliado(NoStatus(status))}

-----------------------------------------------------------------------------
(* Safety *)

\* The stock that listPools and dashboard take from the counter is what pools
\* counts in the rows, until the pool is settled.
StockAgrees ==
    "apurado" \notin marcos =>
        /\ ListPools.disponiveis = Pools.cotasLivres
        /\ statusBolao = "aberto" => Dashboard.cotasDisponiveis = Pools.cotasLivres

\* When the reconciliation says the books agree, the revenue summed over the
\* payments is the revenue summed over the paid shares, but for payments received
\* for a share that is still reserved.
RevenueAgrees ==
    FinancialReconciliation.conciliado =>
        Summary.receitaBruta =
            Pools.receita + Quantas(Confirmadas \cap NoStatus({"reservada"})) * ValorCota

\* The two results of the platform differ only by commissions that are written
\* in a confirmed payment but are not due (its share is not settled, or the
\* commission was cancelled), and by commissions paid for a sale later undone.
ResultAgrees ==
    FinancialReconciliation.conciliado =>
        LET naoDevidas == {c \in Confirmadas \cap ComAfiliado :
                              statusCota[c] = "reservada" \/ comissao[c] = "cancelada"}
        IN  Summary.resultado - FinancialReconciliation.resultado =
                (Quantas(naoDevidas) - Quantas(ComComissao({"paga"}) \ Confirmadas)) * ComissaoUnidade

\* The sheets with one row per share or per payment add up to the totals: the
\* sheet of sales to the revenue of the summary, the sheet of payments to what the
\* pool sheet says stays with the platform, but for the commissions paid for a sale
\* later undone, which only the pool sheet takes off.
RowsAgree ==
    FinancialReconciliation.conciliado =>
        /\ Sales(StatusCota, StatusPagamento).recebido = Summary.receitaBruta
        /\ MapThenSumSet(LAMBDA c : Payments(c).resultado, Linhas) - PoolSheet.ficaComPlataforma =
               Quantas(ComComissao({"paga"}) \ Confirmadas) * ComissaoUnidade

\* Every settled sale of an affiliate has its commission, and what the affiliate
\* still has to receive is covered by sales it sees as sold.
AffiliateIsCovered ==
    /\ \A q \in AffiliateQuotas(PAID_STATUSES) : q.comissao # "nenhuma"
    /\ \A q \in AffiliateQuotas(StatusCota) : q.comissao = "pendente" => q.status \in PAID_STATUSES
    /\ AffiliateDashboard.comissaoPendente <= AffiliateSalesByPool.cotasVendidas * ComissaoUnidade

\* No share sold through the gateway is listed as paid without a payment, before
\* the draw: no refund, failure or retry takes the payment and leaves the share.
PaidShareHasMoney ==
    \A c \in CotasPagasSemPagamento : origem[c] = "gateway" => statusCota[c] \notin PagasAntesDoSorteio

\* Reports of the same sales, each computed by its own query, do not contradict each other.
ReportsAgree ==
    /\ StockAgrees
    /\ RevenueAgrees
    /\ ResultAgrees
    /\ RowsAgree
    /\ AffiliateIsCovered
    /\ PaidShareHasMoney

-----------------------------------------------------------------------------
(* What a report says of itself and does not do *)

\* "Pagamentos recebidos sem cota aparecem na segunda tabela e devem ser
\* estornados": a payment received for a desk reservation, which nothing expires,
\* when its share can no longer become paid, is in the table of the refunds and
\* not in that of the shares to be collected.
PaidWithoutShareIsListed ==
    \A c \in Confirmadas :
        /\ statusCota[c] \notin PAID_STATUSES
        /\ expira[c] = "nula"
        /\ pedido[c] = "ocioso"
        /\ statusBolao # "aberto" \/ ~AntesDoCorte
        => c \in PagosSemCota \ NaoPagas
=============================================================================
