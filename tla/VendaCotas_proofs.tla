-------------------------- MODULE VendaCotas_proofs --------------------------
(***************************************************************************)
(* Theorems about VendaCotas, for any set of shares, any quantities, any   *)
(* bounds: types, the stock counter, no overselling, that the sale         *)
(* implements the abstract stock of module Estoque, what becomes of the    *)
(* shares of a pool, what the events of the provider may do to a payment;  *)
(* and about what follows the sale: the screens and the notices (module    *)
(* Vidas, with Tela and Avisos) and the reports (module Relatorios).       *)
(*                                                                         *)
(* The invariant IInv has three parts: the types; RowInv, that a payment   *)
(* row in use belongs to a share that exists; and StockInv, which relates  *)
(* the counter, the live shares and the shares the worker has read.  The   *)
(* parts on the fate of the shares and on the payments add what is in      *)
(* flight (DestinoInv, PagInv).                                            *)
(*                                                                         *)
(* NoticedOnce is not inductive.  Its three parts are about what a loop    *)
(* holds between two writes: a loop that has marked the interest is the    *)
(* only one that ever will (InteresseInv), one that has claimed the push   *)
(* is the only one that sends it (TelefoneInv), and an e-mail that may     *)
(* still go out, now or after a new claim, is the first or is paid for by  *)
(* a doubt (EmailInv).                                                     *)
(*                                                                         *)
(* ReportsAgree is not inductive either: the reports are computed from     *)
(* rows that agree because a commission goes with its sale (ComissaoInv)   *)
(* and, by the invariants above, stock and payments do.                    *)
(***************************************************************************)
EXTENDS Vidas, Relatorios, FiniteSetTheorems, TLAPS

-----------------------------------------------------------------------------
(* Types *)

LEMMA InitTypeOK == Init => TypeOK
  BY CotasAssumption, LimiteAssumption
  DEF Init, TypeOK, Marcos, StatusCota, StatusPagamento, StatusBolao, StatusConcurso, FasePedido, SemConsulta, SemOperacao

LEMMA SettleTxType ==
  ASSUME TypeOK, NEW c \in Cotas, SettleTx(c)
  PROVE  /\ cotasVendidas' \in Int
         /\ statusCota' \in [Cotas -> StatusCota]
         /\ expira' \in [Cotas -> {"nula", "futura", "vencida"}]
         /\ statusPag' \in [Cotas -> StatusPagamento]
         /\ comissao' \in [Cotas -> {"nenhuma", "pendente", "paga", "cancelada"}]
  <1>1. cotasVendidas' \in Int
    BY QuantidadeAssumption DEF TypeOK, SettleTx
  <1>2. statusCota' \in [Cotas -> StatusCota]
    BY DEF TypeOK, SettleTx, StatusCota, Liquidadas
  <1>3. expira' \in [Cotas -> {"nula", "futura", "vencida"}]
    BY DEF TypeOK, SettleTx
  <1>4. statusPag' \in [Cotas -> StatusPagamento]
    BY DEF TypeOK, SettleTx, StatusPagamento
  <1>5. comissao' \in [Cotas -> {"nenhuma", "pendente", "paga", "cancelada"}]
    BY DEF TypeOK, SettleTx
  <1>6. QED
    BY <1>1, <1>2, <1>3, <1>4, <1>5

PagamentoTipado ==
    /\ statusBolao' \in StatusBolao
    /\ marcos' \in Marcos
    /\ cotasVendidas' \in Int
    /\ statusCota' \in [Cotas -> StatusCota]
    /\ expira' \in [Cotas -> {"nula", "futura", "vencida"}]
    /\ statusPag' \in [Cotas -> StatusPagamento]
    /\ comPsp' \in [Cotas -> BOOLEAN]
    /\ origem' \in [Cotas -> {"gateway", "manual"}]
    /\ metodo' \in [Cotas -> {"nenhum", "pix", "boleto", "cartao"}]
    /\ comissao' \in [Cotas -> {"nenhuma", "pendente", "paga", "cancelada"}]

LEMMA ConfirmType ==
  ASSUME TypeOK, NEW c \in Cotas, NEW v, ConfirmPayment(c, v)
  PROVE  PagamentoTipado
  BY SettleTxType DEF TypeOK, ConfirmPayment, PagamentoTipado, bolaoVars, cotaVars, pagVars

LEMMA ReleaseType ==
  ASSUME TypeOK, NEW c \in Cotas, NEW novo \in {"falhou", "estornado"}, ReleasePayment(c, novo)
  PROVE  PagamentoTipado
  <1>1. CASE Ignora(c, novo)
    BY <1>1 DEF TypeOK, ReleasePayment, PagamentoTipado, bolaoVars, cotaVars, pagVars
  <1>2. CASE ~Ignora(c, novo)
    <2>1. /\ EstoqueDevolvido(c) \in Int
          /\ CotaLiberada(c, novo) \in StatusCota
          /\ ComissaoCancelada(c) \in {"nenhuma", "pendente", "paga", "cancelada"}
      BY QuantidadeAssumption DEF TypeOK, EstoqueDevolvido, CotaLiberada, ComissaoCancelada, StatusCota, Desfeitas
    <2>2. QED
      BY <1>2, <2>1 DEF TypeOK, ReleasePayment, PagamentoTipado, StatusPagamento
  <1>3. QED
    BY <1>1, <1>2

LEMMA AplicaType ==
  ASSUME TypeOK, NEW c \in Cotas, NEW lido, AplicaStatus(c, lido)
  PROVE  PagamentoTipado
  <1>1. UNCHANGED <<bolaoVars, cotaVars, pagVars, comissao>> => PagamentoTipado
    BY DEF TypeOK, PagamentoTipado, bolaoVars, cotaVars, pagVars
  <1>2. QED
    BY <1>1, ConfirmType, ReleaseType DEF AplicaStatus

LEMMA TypeOfTheCharge ==
  ASSUME TypeOK, NEW c \in Cotas
  PROVE  /\ CobrancaAbre(c) => TypeOK'
         /\ CobrancaNoProvedor(c) => TypeOK'
         /\ CobrancaGrava(c) => TypeOK'
         /\ CobrancaEstende(c) => TypeOK'
         /\ CobrancaConfirma(c) => TypeOK'
         /\ CobrancaErro(c) => TypeOK'
  <1>1. CobrancaAbre(c) => TypeOK'
    BY MetodosAssumption DEF TypeOK, CobrancaAbre, StatusPagamento, FasePedido, bolaoVars, cotaVars
  <1>2. CobrancaNoProvedor(c) => TypeOK'
    BY DEF TypeOK, CobrancaNoProvedor, FasePedido, bolaoVars, cotaVars, pagVars
  <1>3. CobrancaGrava(c) => TypeOK'
    BY DEF TypeOK, CobrancaGrava, StatusPagamento, FasePedido, bolaoVars, cotaVars
  <1>4. CobrancaEstende(c) => TypeOK'
    BY DEF TypeOK, CobrancaEstende, FasePedido, bolaoVars, pagVars
  <1>5. CobrancaConfirma(c) => TypeOK'
    <2> SUFFICES ASSUME CobrancaConfirma(c) PROVE TypeOK'
      OBVIOUS
    <2>1. PagamentoTipado
      BY ConfirmType DEF CobrancaConfirma
    <2>2. QED
      BY <2>1 DEF TypeOK, CobrancaConfirma, FasePedido, PagamentoTipado
  <1>6. CobrancaErro(c) => TypeOK'
    BY DEF TypeOK, CobrancaErro, StatusPagamento, FasePedido, bolaoVars, cotaVars
  <1>7. QED
    BY <1>1, <1>2, <1>3, <1>4, <1>5, <1>6

LEMMA TypeOfEvents ==
  ASSUME TypeOK
  PROVE  /\ \A c \in Cotas : ClientePaga(c) \/ ProvedorEncerra(c) \/ AvisoChega(c) => TypeOK'
         /\ \A a \in avisos : AvisoAplica(a) => TypeOK'
         /\ ConciliaLe => TypeOK'
         /\ ConciliaConsulta => TypeOK'
         /\ ConciliaAplica => TypeOK'
         /\ ConciliaErro => TypeOK'
  <1>1. ASSUME NEW c \in Cotas, ClientePaga(c) \/ ProvedorEncerra(c)
        PROVE  TypeOK'
    BY <1>1, LimiteAssumption DEF TypeOK, ClientePaga, ProvedorEncerra, bolaoVars, cotaVars, pagVars, procVars
  <1>2. ASSUME NEW c \in Cotas, AvisoChega(c)
        PROVE  TypeOK'
    BY <1>2 DEF TypeOK, AvisoChega, VistoNoAviso, Aviso, Visto, bolaoVars, cotaVars, pagVars
  <1>3. ASSUME NEW a \in avisos, AvisoAplica(a)
        PROVE  TypeOK'
    <2>1. a.cota \in Cotas /\ avisos' \subseteq Aviso
      BY <1>3 DEF TypeOK, AvisoAplica, Aviso
    <2>2. PagamentoTipado
      <3>1. UNCHANGED <<bolaoVars, cotaVars, pagVars, comissao>> => PagamentoTipado
        BY DEF TypeOK, PagamentoTipado, bolaoVars, cotaVars, pagVars
      <3>2. QED
        BY <1>3, <2>1, <3>1, AplicaType DEF AvisoAplica
    <2>3. QED
      BY <1>3, <2>1, <2>2 DEF TypeOK, AvisoAplica, PagamentoTipado
  <1>4. ConciliaLe => TypeOK'
    <2> DEFINE lote == {[cota |-> c, cancelada |-> SemReserva(c)] :
                           c \in {d \in Cotas : Conciliavel(d)}}
    <2>1. lote \subseteq Consultada
      <3> SUFFICES ASSUME NEW c \in Cotas
                   PROVE  [cota |-> c, cancelada |-> SemReserva(c)] \in Consultada
        OBVIOUS
      <3>1. SemReserva(c) \in BOOLEAN
        BY DEF SemReserva
      <3>2. QED
        BY <3>1, Zenon DEF Consultada
    <2>2. ConciliaLe => conciliacao' = [fase |-> "lote", lote |-> lote]
      BY DEF ConciliaLe
    <2> HIDE DEF lote
    <2>3. [fase |-> "lote", lote |-> lote] \in [fase : {"lote"}, lote : SUBSET Consultada]
      BY <2>1
    <2>4. QED
      BY <2>2, <2>3 DEF TypeOK, ConciliaLe, bolaoVars, cotaVars, pagVars
  <1>5. ConciliaConsulta => TypeOK'
    BY DEF TypeOK, ConciliaConsulta, Consultada, SemConsulta, VistoNaConsulta, VistoNaCora, VistoNoMercadoPago, Visto, bolaoVars, cotaVars, pagVars
  <1>6. ConciliaAplica => TypeOK'
    <2> SUFFICES ASSUME ConciliaAplica PROVE TypeOK'
      OBVIOUS
    <2>1. /\ conciliacao.atual.cota \in Cotas
          /\ conciliacao.lote \in SUBSET Consultada
      BY DEF TypeOK, ConciliaAplica, SemConsulta, Consultada
    <2>2. PagamentoTipado
      BY <2>1, AplicaType, ReleaseType DEF ConciliaAplica
    <2>3. cobranca' \in [Cotas -> {"nenhuma", "aberta", "paga", "divergente", "cancelada", "devolvida"}]
      BY <2>1 DEF TypeOK, ConciliaAplica
    <2>4. conciliacao' = Restante(conciliacao.lote)
      BY DEF ConciliaAplica
    <2>5. QED
      BY <2>1, <2>2, <2>3, <2>4 DEF TypeOK, ConciliaAplica, PagamentoTipado, Restante
  <1>7. ConciliaErro => TypeOK'
    BY DEF TypeOK, ConciliaErro, Restante, SemConsulta, bolaoVars, cotaVars, pagVars
  <1>8. QED
    BY <1>1, <1>2, <1>3, <1>4, <1>5, <1>6, <1>7

LEMMA TypeOfTheDesk ==
  ASSUME TypeOK
  PROVE  /\ \A c \in Cotas : MarkPaidLe(c) \/ CancelShareLe(c) \/ PayCommission(c) => TypeOK'
         /\ MarkPaidGrava => TypeOK'
         /\ CancelShareGrava => TypeOK'
  <1>1. ASSUME NEW c \in Cotas, MarkPaidLe(c)
        PROVE  TypeOK'
    BY <1>1 DEF TypeOK, MarkPaidLe, TentaCancelar, bolaoVars, cotaVars, pagVars
  <1>2. ASSUME NEW c \in Cotas, CancelShareLe(c)
        PROVE  TypeOK'
    <2>1. cobranca' \in [Cotas -> {"nenhuma", "aberta", "paga", "divergente", "cancelada", "devolvida"}]
      BY <1>2 DEF TypeOK, CancelShareLe, TentaCancelar
    <2>2. balcao' \in [op : {"baixa", "cancela", "falha", "estorna"}, cota : Cotas]
      BY <1>2 DEF CancelShareLe
    <2>3. QED
      BY <1>2, <2>1, <2>2 DEF TypeOK, CancelShareLe, bolaoVars, cotaVars, pagVars
  <1>3. ASSUME NEW c \in Cotas, PayCommission(c)
        PROVE  TypeOK'
    BY <1>3 DEF TypeOK, PayCommission, bolaoVars, cotaVars, pagVars, procVars
  <1>4. ASSUME balcao.op \in {"baixa", "cancela", "falha", "estorna"}
        PROVE  balcao.cota \in Cotas
    BY <1>4 DEF TypeOK, SemOperacao
  <1>5. UNCHANGED <<bolaoVars, cotaVars, pagVars, comissao>> => PagamentoTipado
    BY DEF TypeOK, PagamentoTipado, bolaoVars, cotaVars, pagVars
  <1>6. MarkPaidGrava => TypeOK'
    <2> SUFFICES ASSUME MarkPaidGrava PROVE TypeOK'
      OBVIOUS
    <2> DEFINE c == balcao.cota
    <2>1. c \in Cotas
      BY <1>4 DEF MarkPaidGrava
    <2>2. PagamentoTipado
      <3>1. CASE /\ SettleTx(c)
                 /\ origem' = [origem EXCEPT ![c] = "manual"]
                 /\ comPsp' = [comPsp EXCEPT ![c] = FALSE]
                 /\ UNCHANGED <<statusBolao, marcos, metodo>>
        BY <2>1, <3>1, SettleTxType DEF PagamentoTipado, TypeOK
      <3>2. CASE UNCHANGED <<bolaoVars, cotaVars, pagVars, comissao>>
        BY <1>5, <3>2
      <3>3. QED
        BY <3>1, <3>2, Zenon DEF MarkPaidGrava
    <2>3. QED
      BY <2>2 DEF TypeOK, MarkPaidGrava, PagamentoTipado
  <1>7. CancelShareGrava => TypeOK'
    <2> SUFFICES ASSUME CancelShareGrava PROVE TypeOK'
      OBVIOUS
    <2>1. balcao.cota \in Cotas
      BY <1>4 DEF CancelShareGrava
    <2>2. CancelaSemPagamento(balcao.cota) => PagamentoTipado
      <3>1. ComissaoCancelada(balcao.cota) \in {"nenhuma", "pendente", "paga", "cancelada"}
        BY <2>1 DEF TypeOK, ComissaoCancelada
      <3>2. QED
        BY <1>5, <2>1, <3>1, QuantidadeAssumption
        DEF CancelaSemPagamento, PagamentoTipado, TypeOK, StatusCota, Desfeitas, pagVars
    <2>3. PagamentoTipado
      BY <2>1, <2>2, ReleaseType DEF CancelShareGrava
    <2>4. QED
      BY <2>3 DEF TypeOK, CancelShareGrava, PagamentoTipado
  <1>8. QED
    BY <1>1, <1>2, <1>3, <1>6, <1>7

LEMMA TypeOfThePool ==
  ASSUME TypeOK
  PROVE  /\ Bolao => TypeOK'
         /\ AvancaConcurso \/ QuedaApi => TypeOK'
         /\ \A c \in Cotas : Reserve(c) \/ ManualSale(c) \/ ExpireReservation(c) \/ Vence(c) => TypeOK'
  <1>1. Close \/ CancelPool \/ Register => TypeOK'
    BY DEF TypeOK, Close, CancelPool, Register, Registrada, MudaBolao, StatusBolao, StatusCota, Liquidadas,
           cotaVars, pagVars, procVars
  <1>2. ApuraLe => TypeOK'
    BY DEF TypeOK, ApuraLe, bolaoVars, cotaVars, pagVars
  <1>3. ApuraGrava => TypeOK'
    <2>1. ApuraGrava => marcos' \in Marcos
      BY DEF TypeOK, ApuraGrava, Marcos
    <2>2. QED
      BY <2>1 DEF TypeOK, ApuraGrava, MudaBolao, StatusBolao, StatusCota, Liquidadas, pagVars
  <1>4. QuedaWorker => TypeOK'
    BY DEF TypeOK, QuedaWorker, bolaoVars, cotaVars, pagVars
  <1>5. AvancaConcurso \/ QuedaApi => TypeOK'
    BY DEF TypeOK, AvancaConcurso, QuedaApi, StatusConcurso, FasePedido, bolaoVars, cotaVars, pagVars, procVars
  <1>6. ASSUME NEW c \in Cotas, Reserve(c) \/ ManualSale(c)
        PROVE  TypeOK'
    BY <1>6, QuantidadeAssumption
    DEF TypeOK, Reserve, ManualSale, NovaCota, StatusCota, pagVars, procVars
  <1>7. ASSUME NEW c \in Cotas, ExpireReservation(c) \/ Vence(c)
        PROVE  TypeOK'
    BY <1>7, QuantidadeAssumption
    DEF TypeOK, ExpireReservation, Expirada, Vence, StatusCota, Desfeitas, bolaoVars, pagVars, procVars
  <1>8. QED
    BY <1>1, <1>2, <1>3, <1>4, <1>5, <1>6, <1>7 DEF Bolao

LEMMA TypeOfThePanel ==
  ASSUME TypeOK, Painel
  PROVE  TypeOK'
  <1>1. CASE ComprovanteLe
    BY <1>1 DEF TypeOK, ComprovanteLe, bolaoVars, cotaVars, pagVars
  <1>2. CASE ComprovanteGrava
    <2>1. marcos' \in Marcos
      BY <1>2 DEF TypeOK, ComprovanteGrava, Marcos
    <2>2. statusCota' \in [Cotas -> StatusCota]
      BY <1>2 DEF TypeOK, ComprovanteGrava, Registrada, StatusCota, Liquidadas
    <2>3. QED
      BY <1>2, <2>1, <2>2 DEF TypeOK, ComprovanteGrava, MudaBolao, StatusBolao, pagVars
  <1>3. QED
    BY <1>1, <1>2 DEF Painel

LEMMA TypeStep == TypeOK /\ [Next]_vars => TypeOK'
  <1> SUFFICES ASSUME TypeOK, [Next]_vars PROVE TypeOK'
    OBVIOUS
  <1>1. CASE Online
    BY <1>1, TypeOfTheCharge, TypeOfEvents, TypeOfThePool DEF Online, PedidoSegue, Concilia
  <1>2. CASE Balcao
    BY <1>2, TypeOfTheDesk, TypeOfThePool DEF Balcao
  <1>3. CASE Bolao
    BY <1>3, TypeOfThePool
  <1>4. CASE UNCHANGED vars
    BY <1>4 DEF TypeOK, vars, bolaoVars, cotaVars, pagVars, procVars
  <1>5. CASE Painel
    BY <1>5, TypeOfThePanel
  <1>6. QED
    BY <1>1, <1>2, <1>3, <1>4, <1>5 DEF Next

\* Every variable keeps its type, through every handler, job and desk operation.
THEOREM TypeCorrect == Spec => []TypeOK
  BY InitTypeOK, TypeStep, PTL DEF Spec

-----------------------------------------------------------------------------
(* Units of stock: the units of disjoint sets of shares add up *)

LEMMA UnitsOfOne ==
  ASSUME NEW c \in Cotas
  PROVE  IsFiniteSet(UnidadesDe(c)) /\ Cardinality(UnidadesDe(c)) = Quantidade[c]
  <1> DEFINE q == Quantidade[c]
             I == 1..q
  <1>1. q \in Nat \ {0} /\ q \in Int /\ 1 \in Int
    BY QuantidadeAssumption
  <1>2. IsFiniteSet(I) /\ Cardinality(I) = IF 1 > q THEN 0 ELSE q - 1 + 1
    BY <1>1, FS_Interval, Zenon
  <1>3. IsFiniteSet({c}) /\ Cardinality({c}) = 1
    BY FS_Singleton
  <1>4. IsFiniteSet({c} \X I) /\ Cardinality({c} \X I) = Cardinality({c}) * Cardinality(I)
    BY <1>2, <1>3, FS_Product, Zenon
  <1>5. UnidadesDe(c) = {c} \X I
    BY DEF UnidadesDe
  <1> HIDE DEF I
  <1>6. QED
    BY <1>1, <1>2, <1>3, <1>4, <1>5

LEMMA UnitsFinite ==
  ASSUME NEW S \in SUBSET Cotas
  PROVE  IsFiniteSet(Unidades(S)) /\ Cardinality(Unidades(S)) \in Nat
  <1> DEFINE T == {UnidadesDe(c) : c \in S}
             f == [c \in S |-> UnidadesDe(c)]
  <1>1. IsFiniteSet(S)
    BY CotasAssumption, FS_Subset
  <1>2. f \in Surjection(S, T)
    BY DEF Surjection
  <1>3. IsFiniteSet(T)
    BY <1>1, <1>2, FS_Surjection
  <1>4. \A U \in T : IsFiniteSet(U)
    BY UnitsOfOne
  <1>5. IsFiniteSet(UNION T)
    BY <1>3, <1>4, FS_UNION
  <1>6. QED
    BY <1>5, FS_CardinalityType DEF Unidades

LEMMA UnitsAdd ==
  ASSUME NEW S \in SUBSET Cotas, NEW c \in Cotas \ S
  PROVE  Cardinality(Unidades(S \cup {c})) = Cardinality(Unidades(S)) + Quantidade[c]
  <1>1. Unidades(S \cup {c}) = Unidades(S) \cup UnidadesDe(c)
    BY DEF Unidades
  <1>2. Unidades(S) \cap UnidadesDe(c) = {}
    BY DEF Unidades, UnidadesDe
  <1>3. Cardinality(Unidades(S) \cap UnidadesDe(c)) = 0
    BY <1>2, FS_EmptySet
  <1>4. /\ IsFiniteSet(Unidades(S)) /\ Cardinality(Unidades(S)) \in Nat
        /\ IsFiniteSet(UnidadesDe(c)) /\ Cardinality(UnidadesDe(c)) = Quantidade[c]
    BY UnitsFinite, UnitsOfOne
  <1>5. Cardinality(Unidades(S) \cup UnidadesDe(c))
          = Cardinality(Unidades(S)) + Cardinality(UnidadesDe(c)) - Cardinality(Unidades(S) \cap UnidadesDe(c))
    BY <1>4, FS_Union, Zenon
  <1>6. Quantidade[c] \in Nat
    BY QuantidadeAssumption
  <1>7. Cardinality(Unidades(S \cup {c})) = Cardinality(Unidades(S) \cup UnidadesDe(c))
    BY <1>1, Zenon
  <1> HIDE DEF Unidades, UnidadesDe
  <1>8. QED
    BY <1>3, <1>4, <1>5, <1>6, <1>7

LEMMA UnitsRemove ==
  ASSUME NEW S \in SUBSET Cotas, NEW c \in S
  PROVE  Cardinality(Unidades(S \ {c})) = Cardinality(Unidades(S)) - Quantidade[c]
  <1>1. S \ {c} \in SUBSET Cotas /\ c \in Cotas \ (S \ {c}) /\ (S \ {c}) \cup {c} = S
    OBVIOUS
  <1>2. Cardinality(Unidades(S)) = Cardinality(Unidades(S \ {c})) + Quantidade[c]
    BY <1>1, UnitsAdd
  <1>3. Cardinality(Unidades(S \ {c})) \in Nat /\ Quantidade[c] \in Nat
    BY <1>1, UnitsFinite, QuantidadeAssumption
  <1>4. QED
    BY <1>2, <1>3

LEMMA UnitsMonotone ==
  ASSUME NEW S \in SUBSET Cotas, NEW T \in SUBSET S
  PROVE  Cardinality(Unidades(T)) <= Cardinality(Unidades(S))
  <1>1. Unidades(T) \in SUBSET Unidades(S)
    BY DEF Unidades
  <1>2. QED
    BY <1>1, UnitsFinite, FS_Subset

-----------------------------------------------------------------------------
(* What a step does to the stock *)

Mantem == Vivas' = Vivas /\ UNCHANGED <<statusBolao, marcos, cotasVendidas>>

Entra(c) ==
    /\ c \notin Vivas /\ Vivas' = Vivas \cup {c}
    /\ statusBolao = "aberto" /\ UNCHANGED <<statusBolao, marcos>>
    /\ HaEstoque(c) /\ cotasVendidas' = cotasVendidas + Quantidade[c]

Deixa(c) ==
    /\ c \in Vivas /\ Vivas' = Vivas \ {c}
    /\ UNCHANGED <<statusBolao, marcos>>
    /\ cotasVendidas' = cotasVendidas - Quantidade[c]

Movimento == Mantem \/ \E c \in Cotas : Entra(c) \/ Deixa(c)

LEMMA SettleTxEffect ==
  ASSUME TypeOK, NEW c \in Cotas, SettleTx(c), UNCHANGED <<statusBolao, marcos>>
  PROVE  Movimento
  <1>1. CASE Reativa(c)
    <2>1. statusCota[c] = "cancelada" /\ statusCota' = [statusCota EXCEPT ![c] = "paga"]
      BY <1>1 DEF SettleTx, Reativa
    <2>2. Entra(c)
      BY <1>1, <2>1 DEF Entra, Vivas, Desfeitas, TypeOK, SettleTx, Reativa
    <2>3. QED
      BY <2>2 DEF Movimento
  <1>2. CASE ~Reativa(c) /\ Efetiva(c)
    <2>1. statusCota[c] = "reservada" /\ statusCota' = [statusCota EXCEPT ![c] = "paga"]
      BY <1>2 DEF SettleTx, Efetiva
    <2>2. Mantem
      BY <1>2, <2>1 DEF Mantem, Vivas, Desfeitas, TypeOK, SettleTx
    <2>3. QED
      BY <2>2 DEF Movimento
  <1>3. CASE ~Reativa(c) /\ ~Efetiva(c)
    <2>1. UNCHANGED <<cotasVendidas, statusCota>>
      BY <1>3 DEF SettleTx, TypeOK
    <2>2. QED
      BY <2>1 DEF Movimento, Mantem, Vivas
  <1>4. QED
    BY <1>1, <1>2, <1>3

LEMMA NoEffect ==
  ASSUME UNCHANGED <<statusBolao, marcos, cotasVendidas, statusCota>>
  PROVE  Movimento
  BY DEF Movimento, Mantem, Vivas

LEMMA ConfirmEffect ==
  ASSUME TypeOK, NEW c \in Cotas, NEW v, ConfirmPayment(c, v)
  PROVE  Movimento
  BY SettleTxEffect, NoEffect DEF ConfirmPayment, bolaoVars, cotaVars

LEMMA LeaveEffect ==
  ASSUME TypeOK, NEW c \in Cotas, NEW s \in Desfeitas,
         statusCota[c] # "livre",
         statusCota' = [statusCota EXCEPT ![c] = s],
         cotasVendidas' = cotasVendidas - EstoqueDevolvido(c),
         UNCHANGED <<statusBolao, marcos>>
  PROVE  Movimento
  <1>1. CASE statusCota[c] \in Desfeitas
    BY <1>1 DEF Movimento, Mantem, Vivas, EstoqueDevolvido, TypeOK
  <1>2. CASE statusCota[c] \notin Desfeitas
    <2>1. Deixa(c)
      BY <1>2 DEF Deixa, Vivas, EstoqueDevolvido, TypeOK
    <2>2. QED
      BY <2>1 DEF Movimento
  <1>3. QED
    BY <1>1, <1>2

\* Rows exist in the order the code creates them: the share, its payment, its charge.
RowInv ==
    \A c \in Cotas : /\ statusPag[c] # "nenhum" => statusCota[c] # "livre"
                     /\ comPsp[c] \/ pedido[c] # "ocioso" => statusPag[c] # "nenhum"

LEMMA ReleaseEffect ==
  ASSUME TypeOK, RowInv, NEW c \in Cotas, NEW novo \in {"falhou", "estornado"}, ReleasePayment(c, novo)
  PROVE  Movimento
  <1>1. CASE Ignora(c, novo)
    BY <1>1, NoEffect DEF ReleasePayment, bolaoVars, cotaVars
  <1>2. CASE ~Ignora(c, novo)
    <2>1. statusCota[c] # "livre"
      BY <1>2 DEF Ignora, RowInv
    <2>2. CotaLiberada(c, novo) \in Desfeitas
      BY DEF CotaLiberada, Desfeitas
    <2>3. /\ statusCota' = [statusCota EXCEPT ![c] = CotaLiberada(c, novo)]
          /\ cotasVendidas' = cotasVendidas - EstoqueDevolvido(c)
          /\ UNCHANGED <<statusBolao, marcos>>
      BY <1>2 DEF ReleasePayment
    <2>4. QED
      BY <2>1, <2>2, <2>3, LeaveEffect
  <1>3. QED
    BY <1>1, <1>2

LEMMA AplicaEffect ==
  ASSUME TypeOK, RowInv, NEW c \in Cotas, NEW lido, AplicaStatus(c, lido)
  PROVE  Movimento
  BY ConfirmEffect, ReleaseEffect, NoEffect DEF AplicaStatus, bolaoVars, cotaVars

LEMMA OnlineEffect ==
  ASSUME TypeOK, RowInv, Online
  PROVE  Movimento /\ worker' = worker
  <1>1. ASSUME NEW c \in Cotas, Reserve(c)
        PROVE  Movimento /\ worker' = worker
    <2>1. Entra(c)
      BY <1>1 DEF Reserve, NovaCota, Entra, Vivas, Desfeitas, TypeOK
    <2>2. QED
      BY <1>1, <2>1 DEF Movimento, Reserve, NovaCota, procVars
  <1>2. ASSUME NEW c \in Cotas, ExpireReservation(c)
        PROVE  Movimento /\ worker' = worker
    <2>1. Deixa(c)
      BY <1>2 DEF ExpireReservation, Expirada, Deixa, Vivas, Desfeitas, TypeOK
    <2>2. QED
      BY <1>2, <2>1 DEF Movimento, ExpireReservation, Expirada, procVars
  <1>3. ASSUME NEW c \in Cotas,
               \/ CobrancaAbre(c) \/ CobrancaNoProvedor(c) \/ CobrancaGrava(c) \/ CobrancaEstende(c)
               \/ CobrancaErro(c) \/ ClientePaga(c) \/ ProvedorEncerra(c) \/ AvisoChega(c) \/ Vence(c)
        PROVE  Movimento /\ worker' = worker
    BY <1>3, NoEffect
    DEF CobrancaAbre, CobrancaNoProvedor, CobrancaGrava, CobrancaEstende, CobrancaErro, ClientePaga,
        ProvedorEncerra, AvisoChega, Vence, bolaoVars, cotaVars, procVars
  <1>4. ASSUME NEW c \in Cotas, CobrancaConfirma(c)
        PROVE  Movimento /\ worker' = worker
    BY <1>4, ConfirmEffect DEF CobrancaConfirma
  <1>5. ASSUME NEW a \in avisos, AvisoAplica(a)
        PROVE  Movimento /\ worker' = worker
    <2>1. a.cota \in Cotas
      BY DEF TypeOK, Aviso
    <2>2. AplicaStatus(a.cota, a.visto) \/ UNCHANGED <<bolaoVars, cotaVars, pagVars, comissao>>
      BY <1>5, Zenon DEF AvisoAplica
    <2>3. Movimento
      BY <2>1, <2>2, AplicaEffect, NoEffect DEF bolaoVars, cotaVars
    <2>4. worker' = worker
      BY <1>5, Zenon DEF AvisoAplica
    <2>5. QED
      BY <2>3, <2>4
  <1>6. CASE ConciliaAplica
    <2>1. conciliacao.atual.cota \in Cotas
      BY <1>6 DEF TypeOK, ConciliaAplica, SemConsulta, Consultada
    <2>2. Movimento
      BY <1>6, <2>1, AplicaEffect, ReleaseEffect DEF ConciliaAplica
    <2>3. QED
      BY <1>6, <2>2 DEF ConciliaAplica
  <1>7. CASE ConciliaLe \/ ConciliaConsulta \/ ConciliaErro \/ AvancaConcurso \/ QuedaApi
    BY <1>7, NoEffect
    DEF ConciliaLe, ConciliaConsulta, ConciliaErro, AvancaConcurso, QuedaApi, bolaoVars, cotaVars, procVars
  <1>8. QED
    BY <1>1, <1>2, <1>3, <1>4, <1>5, <1>6, <1>7 DEF Online, PedidoSegue, Concilia

LEMMA BalcaoEffect ==
  ASSUME TypeOK, RowInv, Balcao
  PROVE  Movimento /\ worker' = worker
  <1>1. ASSUME NEW c \in Cotas, ManualSale(c)
        PROVE  Movimento /\ worker' = worker
    <2>1. Entra(c)
      BY <1>1 DEF ManualSale, NovaCota, Entra, Vivas, Desfeitas, TypeOK
    <2>2. QED
      BY <1>1, <2>1 DEF Movimento, ManualSale, NovaCota, procVars
  <1>2. ASSUME NEW c \in Cotas, MarkPaidLe(c) \/ CancelShareLe(c) \/ PayCommission(c)
        PROVE  Movimento /\ worker' = worker
    BY <1>2, NoEffect DEF MarkPaidLe, CancelShareLe, PayCommission, bolaoVars, cotaVars, procVars
  <1>3. ASSUME balcao.op \in {"baixa", "cancela", "falha", "estorna"}
        PROVE  balcao.cota \in Cotas
    BY <1>3 DEF TypeOK, SemOperacao
  <1>4. CASE MarkPaidGrava
    <2>1. balcao.cota \in Cotas /\ worker' = worker
      BY <1>3, <1>4 DEF MarkPaidGrava
    <2>2. CASE SettleTx(balcao.cota) /\ UNCHANGED <<statusBolao, marcos>>
      BY <2>1, <2>2, SettleTxEffect
    <2>3. CASE UNCHANGED <<bolaoVars, cotaVars, pagVars, comissao>>
      BY <2>1, <2>3, NoEffect DEF bolaoVars, cotaVars
    <2>4. QED
      BY <1>4, <2>2, <2>3, Zenon DEF MarkPaidGrava
  <1>5. CASE CancelShareGrava
    <2>1. balcao.cota \in Cotas /\ worker' = worker
      BY <1>3, <1>5 DEF CancelShareGrava
    <2>2. CASE CancelaSemPagamento(balcao.cota)
      <3>1. CASE /\ statusCota[balcao.cota] = "reservada"
                 /\ statusCota' = [statusCota EXCEPT ![balcao.cota] = "cancelada"]
                 /\ cotasVendidas' = cotasVendidas - Quantidade[balcao.cota]
                 /\ UNCHANGED <<statusBolao, marcos>>
        BY <2>1, <3>1, LeaveEffect DEF Desfeitas, EstoqueDevolvido
      <3>2. CASE UNCHANGED <<bolaoVars, cotaVars, pagVars, comissao>>
        BY <2>1, <3>2, NoEffect DEF bolaoVars, cotaVars
      <3>3. QED
        BY <2>2, <3>1, <3>2, Zenon DEF CancelaSemPagamento
    <2>3. QED
      BY <1>5, <2>1, <2>2, ReleaseEffect DEF CancelShareGrava
  <1>6. QED
    BY <1>1, <1>2, <1>4, <1>5 DEF Balcao

-----------------------------------------------------------------------------
(* The rows and the stock invariant *)

\* No payment row disappears, and every payment row has its share.
LinhasFicam ==
    \A d \in Cotas : /\ statusPag[d] # "nenhum" => statusPag'[d] # "nenhum"
                     /\ statusPag'[d] # "nenhum" => statusCota'[d] # "livre"

LEMMA RowsUntouched ==
  ASSUME TypeOK, RowInv, UNCHANGED <<statusCota, statusPag>>
  PROVE  LinhasFicam
  BY DEF LinhasFicam, RowInv

LEMMA SettleTxRows ==
  ASSUME TypeOK, RowInv, NEW c \in Cotas, statusCota[c] # "livre", SettleTx(c)
  PROVE  LinhasFicam
  BY DEF TypeOK, RowInv, LinhasFicam, SettleTx

LEMMA ConfirmRows ==
  ASSUME TypeOK, RowInv, NEW c \in Cotas, NEW v, ConfirmPayment(c, v)
  PROVE  LinhasFicam /\ comPsp' = comPsp
  <1>1. CASE Encontrado(c) /\ SettleTx(c) /\ UNCHANGED <<statusBolao, marcos, comPsp, origem, metodo>>
    BY <1>1, SettleTxRows DEF Encontrado, RowInv
  <1>2. CASE UNCHANGED <<bolaoVars, cotaVars, pagVars, comissao>>
    BY <1>2, RowsUntouched DEF cotaVars, pagVars
  <1>3. QED
    BY <1>1, <1>2, Zenon DEF ConfirmPayment

LEMMA ReleaseRows ==
  ASSUME TypeOK, RowInv, NEW c \in Cotas, NEW novo \in {"falhou", "estornado"}, ReleasePayment(c, novo)
  PROVE  LinhasFicam /\ comPsp' = comPsp
  <1>1. CASE Ignora(c, novo)
    BY <1>1, RowsUntouched DEF ReleasePayment, cotaVars, pagVars
  <1>2. CASE ~Ignora(c, novo)
    <2>1. CotaLiberada(c, novo) # "livre"
      BY DEF CotaLiberada
    <2>2. QED
      BY <1>2, <2>1 DEF ReleasePayment, LinhasFicam, RowInv, TypeOK
  <1>3. QED
    BY <1>1, <1>2

LEMMA AplicaRows ==
  ASSUME TypeOK, RowInv, NEW c \in Cotas, NEW lido, AplicaStatus(c, lido)
  PROVE  LinhasFicam /\ comPsp' = comPsp
  BY ConfirmRows, ReleaseRows, RowsUntouched DEF AplicaStatus, cotaVars, pagVars

LEMMA RowsFollow ==
  ASSUME RowInv, LinhasFicam,
         \A d \in Cotas : (comPsp'[d] => comPsp[d]) /\ (pedido'[d] # "ocioso" => pedido[d] # "ocioso")
  PROVE  RowInv'
  BY DEF RowInv, LinhasFicam

LEMMA OnlineRows ==
  ASSUME TypeOK, RowInv, Online
  PROVE  RowInv'
  <1>1. ASSUME NEW c \in Cotas, Reserve(c) \/ ExpireReservation(c)
        PROVE  RowInv'
    BY <1>1 DEF Reserve, NovaCota, ExpireReservation, Expirada, RowInv, TypeOK, pagVars, procVars
  <1>2. ASSUME NEW c \in Cotas, CobrancaAbre(c)
        PROVE  RowInv'
    BY <1>2 DEF CobrancaAbre, RowInv, TypeOK, cotaVars
  <1>3. ASSUME NEW c \in Cotas, CobrancaGrava(c)
        PROVE  RowInv'
    BY <1>3 DEF CobrancaGrava, RowInv, TypeOK, cotaVars
  <1>4. ASSUME NEW c \in Cotas, CobrancaNoProvedor(c) \/ CobrancaEstende(c) \/ CobrancaErro(c)
        PROVE  RowInv'
    BY <1>4 DEF CobrancaNoProvedor, CobrancaEstende, CobrancaErro, RowInv, TypeOK, cotaVars, pagVars
  <1>5. ASSUME NEW c \in Cotas, ClientePaga(c) \/ ProvedorEncerra(c) \/ AvisoChega(c) \/ Vence(c)
        PROVE  RowInv'
    BY <1>5 DEF ClientePaga, ProvedorEncerra, AvisoChega, Vence, RowInv, cotaVars, pagVars, procVars
  <1>6. ASSUME NEW c \in Cotas, CobrancaConfirma(c)
        PROVE  RowInv'
    <2>1. LinhasFicam /\ comPsp' = comPsp
      BY <1>6, ConfirmRows DEF CobrancaConfirma
    <2>2. \A d \in Cotas : pedido'[d] # "ocioso" => pedido[d] # "ocioso"
      BY <1>6 DEF CobrancaConfirma, TypeOK
    <2>3. QED
      BY <2>1, <2>2, RowsFollow
  <1>7. ASSUME NEW a \in avisos, AvisoAplica(a)
        PROVE  RowInv'
    <2>1. a.cota \in Cotas
      BY DEF TypeOK, Aviso
    <2>2. /\ AplicaStatus(a.cota, a.visto) \/ UNCHANGED <<bolaoVars, cotaVars, pagVars, comissao>>
          /\ pedido' = pedido
      BY <1>7, Zenon DEF AvisoAplica
    <2>3. LinhasFicam /\ comPsp' = comPsp
      BY <2>1, <2>2, AplicaRows, RowsUntouched DEF cotaVars, pagVars
    <2>4. QED
      BY <2>2, <2>3, RowsFollow
  <1>8. CASE ConciliaAplica
    <2>1. conciliacao.atual.cota \in Cotas
      BY <1>8 DEF TypeOK, ConciliaAplica, SemConsulta, Consultada
    <2>2. LinhasFicam /\ comPsp' = comPsp /\ pedido' = pedido
      BY <1>8, <2>1, AplicaRows, ReleaseRows DEF ConciliaAplica
    <2>3. QED
      BY <2>2, RowsFollow
  <1>9. CASE ConciliaLe \/ ConciliaConsulta \/ ConciliaErro \/ AvancaConcurso \/ QuedaApi
    BY <1>9
    DEF ConciliaLe, ConciliaConsulta, ConciliaErro, AvancaConcurso, QuedaApi, RowInv, cotaVars, pagVars, procVars
  <1>10. QED
    BY <1>1, <1>2, <1>3, <1>4, <1>5, <1>6, <1>7, <1>8, <1>9 DEF Online, PedidoSegue, Concilia

LEMMA BalcaoRows ==
  ASSUME TypeOK, RowInv, Balcao
  PROVE  RowInv'
  <1>1. ASSUME NEW c \in Cotas, ManualSale(c)
        PROVE  RowInv'
    BY <1>1 DEF ManualSale, NovaCota, RowInv, TypeOK, pagVars, procVars
  <1>2. ASSUME NEW c \in Cotas, MarkPaidLe(c) \/ CancelShareLe(c) \/ PayCommission(c)
        PROVE  RowInv'
    BY <1>2 DEF MarkPaidLe, CancelShareLe, PayCommission, RowInv, cotaVars, pagVars, procVars
  <1>3. ASSUME balcao.op \in {"baixa", "cancela", "falha", "estorna"}
        PROVE  balcao.cota \in Cotas
    BY <1>3 DEF TypeOK, SemOperacao
  <1>4. CASE MarkPaidGrava
    <2>1. balcao.cota \in Cotas /\ pedido' = pedido
      BY <1>3, <1>4 DEF MarkPaidGrava
    <2>2. CASE /\ Efetiva(balcao.cota) \/ Reativa(balcao.cota)
               /\ SettleTx(balcao.cota)
               /\ comPsp' = [comPsp EXCEPT ![balcao.cota] = FALSE]
      <3>1. LinhasFicam
        BY <2>1, <2>2, SettleTxRows DEF Efetiva, Reativa
      <3>2. \A d \in Cotas : comPsp'[d] => comPsp[d]
        BY <2>1, <2>2 DEF TypeOK
      <3>3. QED
        BY <2>1, <3>1, <3>2, RowsFollow
    <2>3. CASE UNCHANGED <<bolaoVars, cotaVars, pagVars, comissao>>
      BY <2>1, <2>3 DEF RowInv, cotaVars, pagVars
    <2>4. QED
      BY <1>4, <2>2, <2>3, Zenon DEF MarkPaidGrava
  <1>5. CASE CancelShareGrava
    <2>1. balcao.cota \in Cotas /\ pedido' = pedido
      BY <1>3, <1>5 DEF CancelShareGrava
    <2>2. CancelaSemPagamento(balcao.cota) => RowInv'
      BY <2>1 DEF CancelaSemPagamento, RowInv, TypeOK, cotaVars, pagVars
    <2>3. QED
      BY <1>5, <2>1, <2>2, ReleaseRows, RowsFollow DEF CancelShareGrava
  <1>6. QED
    BY <1>1, <1>2, <1>4, <1>5 DEF Balcao

LEMMA RowStep ==
  ASSUME TypeOK, RowInv, [Next]_vars
  PROVE  RowInv'
  <1>1. CASE Bolao
    <2>1. CASE Register \/ ApuraGrava
      BY <2>1 DEF Register, Registrada, ApuraGrava, MudaBolao, RowInv, TypeOK, pagVars, procVars
    <2>2. CASE Close \/ CancelPool \/ ApuraLe \/ QuedaWorker
      BY <2>2 DEF Close, CancelPool, ApuraLe, QuedaWorker, MudaBolao, RowInv, cotaVars, pagVars, procVars
    <2>3. QED
      BY <1>1, <2>1, <2>2 DEF Bolao
  <1>2. CASE UNCHANGED vars
    BY <1>2 DEF RowInv, vars, cotaVars, pagVars, procVars
  <1>3. CASE ComprovanteLe
    BY <1>3 DEF ComprovanteLe, RowInv, cotaVars, pagVars
  <1>4. CASE ComprovanteGrava
    BY <1>4 DEF ComprovanteGrava, Registrada, MudaBolao, RowInv, TypeOK, pagVars
  <1>5. QED
    BY <1>1, <1>2, <1>3, <1>4, OnlineRows, BalcaoRows DEF Next, Painel

StockInv ==
    /\ StockConserved
    /\ statusBolao = "aberto" => marcos = {}
    /\ worker.lido => statusBolao = "registrado"
    /\ ~worker.lido => worker.vistas = {}
    /\ Cardinality(Unidades(Vivas \cup worker.vistas)) <= TotalCotas

LEMMA MovimentoKeepsStock ==
  ASSUME TypeOK, StockInv, Movimento, worker' = worker
  PROVE  StockInv'
  <1>1. Vivas \in SUBSET Cotas /\ worker.vistas \in SUBSET Cotas
    BY DEF Vivas, TypeOK
  <1>2. CASE Mantem
    BY <1>2 DEF Mantem, StockInv, StockConserved
  <1>3. ASSUME NEW c \in Cotas, Entra(c)
        PROVE  StockInv'
    <2>1. worker.vistas = {} /\ cotasVendidas = Cardinality(Unidades(Vivas))
      BY <1>3 DEF Entra, StockInv, StockConserved
    <2>2. Cardinality(Unidades(Vivas')) = Cardinality(Unidades(Vivas)) + Quantidade[c]
      BY <1>1, <1>3, UnitsAdd DEF Entra
    <2>3. Vivas' \cup worker'.vistas = Vivas'
      BY <2>1
    <2>4. QED
      BY <1>3, <2>1, <2>2, <2>3 DEF Entra, HaEstoque, StockInv, StockConserved
  <1>4. ASSUME NEW c \in Cotas, Deixa(c)
        PROVE  StockInv'
    <2>1. Cardinality(Unidades(Vivas')) = Cardinality(Unidades(Vivas)) - Quantidade[c]
      BY <1>1, <1>4, UnitsRemove DEF Deixa
    <2>2. Vivas' \cup worker'.vistas \in SUBSET (Vivas \cup worker.vistas)
      BY <1>4 DEF Deixa
    <2>3. Cardinality(Unidades(Vivas' \cup worker'.vistas)) <= TotalCotas
      <3> DEFINE antes == Vivas \cup worker.vistas
                 depois == Vivas' \cup worker'.vistas
      <3>1. antes \in SUBSET Cotas /\ depois \in SUBSET antes
        BY <1>1, <2>2
      <3> HIDE DEF antes, depois
      <3>2. Cardinality(Unidades(depois)) <= Cardinality(Unidades(antes))
        BY <3>1, UnitsMonotone
      <3>3. Cardinality(Unidades(antes)) \in Nat /\ Cardinality(Unidades(depois)) \in Nat
        BY <3>1, UnitsFinite
      <3>4. Cardinality(Unidades(antes)) <= TotalCotas
        BY DEF StockInv, antes
      <3>5. Cardinality(Unidades(depois)) <= TotalCotas
        BY <3>2, <3>3, <3>4, TotalAssumption
      <3>6. QED
        BY <3>5 DEF depois
    <2>4. StockConserved'
      BY <1>4, <2>1 DEF Deixa, StockInv, StockConserved
    <2>5. QED
      BY <1>4, <2>3, <2>4 DEF Deixa, StockInv
  <1>5. QED
    BY <1>2, <1>3, <1>4 DEF Movimento

LEMMA BolaoKeepsStock ==
  ASSUME TypeOK, StockInv, Bolao
  PROVE  StockInv'
  <1>1. CASE Close \/ CancelPool
    BY <1>1 DEF Close, CancelPool, MudaBolao, StockInv, StockConserved, Vivas, cotaVars, procVars
  <1>2. CASE Register
    <2>1. Vivas' = Vivas
      BY <1>2 DEF Register, Registrada, Vivas, TypeOK, Desfeitas
    <2>2. /\ statusBolao' = "registrado" /\ UNCHANGED <<marcos, cotasVendidas, worker>>
      BY <1>2 DEF Register, MudaBolao, procVars
    <2>3. QED
      BY <2>1, <2>2 DEF StockInv, StockConserved
  <1>3. CASE ApuraLe
    <2>1. Vivas' = Vivas /\ UNCHANGED <<statusBolao, marcos, cotasVendidas>> /\ statusBolao = "registrado"
      BY <1>3 DEF ApuraLe, Vivas, bolaoVars, cotaVars
    <2>2. worker'.lido /\ worker'.vistas \subseteq Vivas /\ worker.vistas = {}
      BY <1>3 DEF ApuraLe, Vivas, Desfeitas, StockInv
    <2>3. Vivas' \cup worker'.vistas = Vivas \cup worker.vistas
      BY <2>1, <2>2
    <2>4. QED
      BY <2>1, <2>2, <2>3 DEF StockInv, StockConserved
  <1>4. CASE ApuraGrava
    <2>1. Vivas' = Vivas \cup worker.vistas
      BY <1>4 DEF ApuraGrava, Vivas, Desfeitas, TypeOK
    <2>2. ~worker'.lido /\ worker'.vistas = {} /\ "apurado" \in marcos' /\ statusBolao' = "apurado"
      BY <1>4 DEF ApuraGrava, MudaBolao
    <2>3. Vivas' \cup worker'.vistas = Vivas \cup worker.vistas
      BY <2>1, <2>2
    <2>4. QED
      BY <2>2, <2>3 DEF StockInv, StockConserved
  <1>5. CASE QuedaWorker
    <2>1. Vivas' = Vivas /\ UNCHANGED <<statusBolao, marcos, cotasVendidas>> /\ ~worker'.lido /\ worker'.vistas = {}
      BY <1>5 DEF QuedaWorker, Vivas, bolaoVars, cotaVars
    <2>2. Cardinality(Unidades(Vivas')) <= TotalCotas
      <3> DEFINE antes == Vivas \cup worker.vistas
      <3>1. antes \in SUBSET Cotas /\ Vivas \in SUBSET antes
        BY DEF Vivas, TypeOK
      <3>2. Cardinality(Unidades(antes)) <= TotalCotas
        BY DEF StockInv
      <3> HIDE DEF antes
      <3>3. Cardinality(Unidades(Vivas)) <= Cardinality(Unidades(antes))
        BY <3>1, UnitsMonotone
      <3>4. Cardinality(Unidades(Vivas)) \in Nat /\ Cardinality(Unidades(antes)) \in Nat
        BY <3>1, UnitsFinite
      <3>5. QED
        BY <2>1, <3>2, <3>3, <3>4, TotalAssumption
    <2>3. Vivas' \cup worker'.vistas = Vivas'
      BY <2>1
    <2>4. QED
      BY <2>1, <2>2, <2>3 DEF StockInv, StockConserved
  <1>6. QED
    BY <1>1, <1>2, <1>3, <1>4, <1>5 DEF Bolao

LEMMA PainelKeepsStock ==
  ASSUME TypeOK, StockInv, Painel
  PROVE  StockInv' /\ Vivas' = Vivas
  <1>1. CASE ComprovanteLe
    BY <1>1 DEF ComprovanteLe, StockInv, StockConserved, Vivas, bolaoVars, cotaVars
  <1>2. CASE ComprovanteGrava
    <2>1. Vivas' = Vivas
      BY <1>2 DEF ComprovanteGrava, Registrada, Vivas, TypeOK, Desfeitas
    <2>2. /\ statusBolao' = "registrado" /\ UNCHANGED <<cotasVendidas, worker>>
          /\ marcos \subseteq marcos'
      BY <1>2 DEF ComprovanteGrava, MudaBolao
    <2>3. QED
      BY <2>1, <2>2 DEF StockInv, StockConserved
  <1>3. QED
    BY <1>1, <1>2 DEF Painel

\* The inductive invariant.
IInv == TypeOK /\ RowInv /\ StockInv

LEMMA InitIInv == Init => IInv
  <1> SUFFICES ASSUME Init PROVE IInv
    OBVIOUS
  <1>1. TypeOK /\ RowInv
    BY InitTypeOK DEF Init, RowInv
  <1>2. Vivas = {} /\ worker.vistas = {} /\ ~worker.lido /\ cotasVendidas = 0 /\ marcos = {}
    BY DEF Init, Vivas
  <1>3. Unidades({}) = {}
    BY DEF Unidades
  <1>4. Cardinality(Unidades({})) = 0
    BY <1>3, FS_EmptySet
  <1>5. Vivas \cup worker.vistas = {}
    BY <1>2
  <1>6. QED
    BY <1>1, <1>2, <1>4, <1>5, TotalAssumption DEF IInv, StockInv, StockConserved

LEMMA NextIInv == IInv /\ [Next]_vars => IInv'
  <1> SUFFICES ASSUME IInv, [Next]_vars PROVE IInv'
    OBVIOUS
  <1>1. TypeOK' /\ RowInv'
    BY TypeStep, RowStep DEF IInv
  <1>2. StockInv'
    <2>1. CASE Online
      BY <2>1, OnlineEffect, MovimentoKeepsStock DEF IInv
    <2>2. CASE Balcao
      BY <2>2, BalcaoEffect, MovimentoKeepsStock DEF IInv
    <2>3. CASE Bolao
      BY <2>3, BolaoKeepsStock DEF IInv
    <2>4. CASE UNCHANGED vars
      BY <2>4, NoEffect, MovimentoKeepsStock DEF IInv, vars, bolaoVars, cotaVars, procVars
    <2>5. CASE Painel
      BY <2>5, PainelKeepsStock DEF IInv
    <2>6. QED
      BY <2>1, <2>2, <2>3, <2>4, <2>5 DEF Next
  <1>3. QED
    BY <1>1, <1>2 DEF IInv

\* Every reachable state satisfies the inductive invariant: settlement, release,
\* expiry, registration and the worker's late writes all keep it.
THEOREM SpecIInv == Spec => []IInv
  BY InitIInv, NextIInv, PTL DEF Spec

\* The stock counter is the sum of the live shares until the pool is settled.
THEOREM StockCorrect == Spec => []StockConserved
  <1>1. IInv => StockConserved
    BY DEF IInv, StockInv
  <1>2. QED
    BY <1>1, SpecIInv, PTL

\* The live shares fit in the pool, even when the worker writes shares it read before.
THEOREM NoOversale == Spec => []NeverOversold
  <1>1. IInv => NeverOversold
    <2> SUFFICES ASSUME IInv PROVE NeverOversold
      OBVIOUS
    <2> DEFINE todas == Vivas \cup worker.vistas
    <2>1. todas \in SUBSET Cotas /\ Vivas \in SUBSET todas
      BY DEF Vivas, TypeOK, IInv
    <2>2. Cardinality(Unidades(todas)) <= TotalCotas
      BY DEF StockInv, IInv
    <2> HIDE DEF todas
    <2>3. Cardinality(Unidades(Vivas)) <= Cardinality(Unidades(todas))
      BY <2>1, UnitsMonotone
    <2>4. Cardinality(Unidades(Vivas)) \in Nat /\ Cardinality(Unidades(todas)) \in Nat
      BY <2>1, UnitsFinite
    <2>5. QED
      BY <2>2, <2>3, <2>4, TotalAssumption DEF NeverOversold
  <1>2. QED
    BY <1>1, SpecIInv, PTL

-----------------------------------------------------------------------------
(* The sale implements the abstract stock *)

LEMMA AbstractFits ==
  ASSUME NEW S, Cardinality(Unidades(S)) <= TotalCotas
  PROVE  Abstrato!Cabem(S)
  <1>1. Abstrato!Unidades(S) = Unidades(S)
    BY DEF Abstrato!Unidades, Unidades, UnidadesDe
  <1>2. \A T : Abstrato!Cardinality(T) = Cardinality(T)
    BY DEF Abstrato!Cardinality, Cardinality
  <1>3. QED
    BY <1>1, <1>2, Zenon DEF Abstrato!Cabem

\* Every step takes shares that fit, gives shares back, or leaves the stock as it is.
LEMMA AbstractStep ==
  ASSUME IInv, [Next]_vars
  PROVE  [Abstrato!Next]_Vivas
  <1>1. StockInv'
    BY NextIInv DEF IInv
  <1>2. ASSUME Movimento, worker' = worker
        PROVE  [Abstrato!Next]_Vivas
    <2>1. ASSUME NEW c \in Cotas, Entra(c)
          PROVE  Abstrato!Next
      <3>1. worker.vistas = {} /\ Vivas' = Vivas \cup {c}
        BY <2>1 DEF Entra, IInv, StockInv
      <3>2. Vivas' \cup worker'.vistas = Vivas \cup {c}
        BY <1>2, <3>1
      <3>3. Cardinality(Unidades(Vivas \cup {c})) <= TotalCotas
        BY <1>1, <3>2 DEF StockInv
      <3>4. Abstrato!Ocupa({c})
        BY <3>1, <3>3, AbstractFits DEF Abstrato!Ocupa
      <3>5. {c} \in SUBSET Cotas
        OBVIOUS
      <3>6. QED
        BY <3>4, <3>5 DEF Abstrato!Next
    <2>2. ASSUME NEW c \in Cotas, Deixa(c)
          PROVE  Abstrato!Next
      <3>1. Abstrato!Devolve({c})
        BY <2>2 DEF Deixa, Abstrato!Devolve
      <3>2. {c} \in SUBSET Cotas
        OBVIOUS
      <3>3. QED
        BY <3>1, <3>2 DEF Abstrato!Next
    <2>3. QED
      BY <1>2, <2>1, <2>2 DEF Movimento, Mantem
  <1>3. CASE Online
    BY <1>2, <1>3, OnlineEffect DEF IInv
  <1>4. CASE Balcao
    BY <1>2, <1>4, BalcaoEffect DEF IInv
  <1>5. CASE ApuraGrava
    <2>1. Vivas' = Vivas \cup worker.vistas /\ worker.vistas \in SUBSET Cotas
      BY <1>5 DEF ApuraGrava, Vivas, Desfeitas, TypeOK, IInv
    <2>2. Abstrato!Ocupa(worker.vistas)
      BY <2>1, AbstractFits DEF IInv, StockInv, Abstrato!Ocupa
    <2>3. QED
      BY <2>1, <2>2 DEF Abstrato!Next
  <1>6. CASE Close \/ CancelPool \/ Register \/ ApuraLe \/ QuedaWorker
    <2>1. Vivas' = Vivas
      BY <1>6 DEF Close, CancelPool, Register, Registrada, ApuraLe, QuedaWorker, Vivas, Desfeitas, TypeOK, IInv, cotaVars
    <2>2. QED
      BY <2>1
  <1>7. CASE UNCHANGED vars
    BY <1>7 DEF vars, cotaVars, Vivas
  <1>8. CASE Painel
    BY <1>8, PainelKeepsStock DEF IInv
  <1>9. QED
    BY <1>3, <1>4, <1>5, <1>6, <1>7, <1>8 DEF Next, Bolao

\* The stock of the pool behaves as the abstract stock, whatever payments,
\* webhooks, jobs, operators and the worker do.
THEOREM SaleImplementsStock == Spec => EstoqueSpec
  <1>1. Init => Abstrato!Init
    BY DEF Init, Abstrato!Init, Vivas
  <1>2. IInv /\ [Next]_vars => [Abstrato!Next]_Vivas
    BY AbstractStep
  <1>3. QED
    BY <1>1, <1>2, SpecIInv, PTL DEF Spec, EstoqueSpec, Abstrato!Spec

-----------------------------------------------------------------------------
(***************************************************************************)
(* What becomes of the shares of a pool, for any set of shares and any     *)
(* bounds: the fate of the pool is the fate of each of them.               *)
(*                                                                         *)
(* While the pool is closed to sales, a step of the site, the provider or  *)
(* the desk only leaves a share as it is or undoes it (Destino).  The rest *)
(* is what the worker does with the shares it has read: DestinoInv adds    *)
(* that those it has read are all the registered ones.                     *)
(***************************************************************************)

Destino ==
    /\ statusBolao' = statusBolao /\ marcos' = marcos
    /\ \A c \in Cotas : \/ statusCota'[c] = statusCota[c]
                        \/ statusCota'[c] \in Desfeitas
                        \/ statusBolao = "aberto" /\ statusCota'[c] \in {"reservada", "paga"}

LEMMA SameFate ==
  ASSUME UNCHANGED <<statusBolao, marcos, statusCota>>
  PROVE  Destino
  BY DEF Destino

LEMMA OneFate ==
  ASSUME TypeOK, NEW c \in Cotas, NEW s, statusCota' = [statusCota EXCEPT ![c] = s],
         UNCHANGED <<statusBolao, marcos>>,
         \/ s \in Desfeitas \/ s = statusCota[c]
         \/ statusBolao = "aberto" /\ s \in {"reservada", "paga"}
  PROVE  Destino
  BY DEF Destino, TypeOK

LEMMA SettleTxFate ==
  ASSUME TypeOK, NEW c \in Cotas, SettleTx(c), UNCHANGED <<statusBolao, marcos>>
  PROVE  Destino
  <1> DEFINE s == IF Efetiva(c) \/ Reativa(c) THEN "paga" ELSE statusCota[c]
  <1>1. statusCota' = [statusCota EXCEPT ![c] = s]
    BY DEF SettleTx
  <1>2. s = statusCota[c] \/ (statusBolao = "aberto" /\ s \in {"reservada", "paga"})
    BY DEF Efetiva, Reativa
  <1> HIDE DEF s
  <1>3. QED
    BY <1>1, <1>2, OneFate

LEMMA ConfirmFate ==
  ASSUME TypeOK, NEW c \in Cotas, NEW v, ConfirmPayment(c, v)
  PROVE  Destino
  BY SettleTxFate, SameFate DEF ConfirmPayment, bolaoVars, cotaVars

LEMMA ReleaseFate ==
  ASSUME TypeOK, NEW c \in Cotas, NEW novo, ReleasePayment(c, novo)
  PROVE  Destino
  <1>1. CASE Ignora(c, novo)
    BY <1>1, SameFate DEF ReleasePayment, bolaoVars, cotaVars
  <1>2. CASE ~Ignora(c, novo)
    <2>1. CotaLiberada(c, novo) \in Desfeitas
      BY DEF CotaLiberada, Desfeitas
    <2>2. statusCota' = [statusCota EXCEPT ![c] = CotaLiberada(c, novo)] /\ UNCHANGED <<statusBolao, marcos>>
      BY <1>2 DEF ReleasePayment
    <2>3. QED
      BY <2>1, <2>2, OneFate
  <1>3. QED
    BY <1>1, <1>2

LEMMA AplicaFate ==
  ASSUME TypeOK, NEW c \in Cotas, NEW lido, AplicaStatus(c, lido)
  PROVE  Destino
  BY ConfirmFate, ReleaseFate, SameFate DEF AplicaStatus, bolaoVars, cotaVars

LEMMA NewShareFate ==
  ASSUME TypeOK, NEW c \in Cotas, NEW prazo, NovaCota(c, prazo)
  PROVE  Destino
  BY OneFate DEF NovaCota

LEMMA OnlineFate ==
  ASSUME TypeOK, Online
  PROVE  Destino
  <1>1. ASSUME NEW c \in Cotas, Reserve(c)
        PROVE  Destino
    BY <1>1, NewShareFate DEF Reserve
  <1>2. ASSUME NEW c \in Cotas, ExpireReservation(c)
        PROVE  Destino
    BY <1>2, OneFate DEF ExpireReservation, Desfeitas
  <1>3. ASSUME NEW c \in Cotas,
               \/ CobrancaAbre(c) \/ CobrancaNoProvedor(c) \/ CobrancaGrava(c) \/ CobrancaEstende(c)
               \/ CobrancaErro(c) \/ ClientePaga(c) \/ ProvedorEncerra(c) \/ AvisoChega(c) \/ Vence(c)
        PROVE  Destino
    BY <1>3, SameFate
    DEF CobrancaAbre, CobrancaNoProvedor, CobrancaGrava, CobrancaEstende, CobrancaErro, ClientePaga,
        ProvedorEncerra, AvisoChega, Vence, bolaoVars, cotaVars
  <1>4. ASSUME NEW c \in Cotas, CobrancaConfirma(c)
        PROVE  Destino
    BY <1>4, ConfirmFate DEF CobrancaConfirma
  <1>5. ASSUME NEW a \in avisos, AvisoAplica(a)
        PROVE  Destino
    <2>1. a.cota \in Cotas
      BY DEF TypeOK, Aviso
    <2>2. AplicaStatus(a.cota, a.visto) \/ UNCHANGED <<bolaoVars, cotaVars, pagVars, comissao>>
      BY <1>5, Zenon DEF AvisoAplica
    <2>3. QED
      BY <2>1, <2>2, AplicaFate, SameFate DEF bolaoVars, cotaVars
  <1>6. CASE ConciliaAplica
    <2>1. conciliacao.atual.cota \in Cotas
      BY <1>6 DEF TypeOK, ConciliaAplica, SemConsulta, Consultada
    <2>2. QED
      BY <1>6, <2>1, AplicaFate, ReleaseFate DEF ConciliaAplica
  <1>7. CASE ConciliaLe \/ ConciliaConsulta \/ ConciliaErro \/ AvancaConcurso \/ QuedaApi
    BY <1>7, SameFate
    DEF ConciliaLe, ConciliaConsulta, ConciliaErro, AvancaConcurso, QuedaApi, bolaoVars, cotaVars
  <1>8. QED
    BY <1>1, <1>2, <1>3, <1>4, <1>5, <1>6, <1>7 DEF Online, PedidoSegue, Concilia

LEMMA BalcaoFate ==
  ASSUME TypeOK, Balcao
  PROVE  Destino
  <1>1. ASSUME NEW c \in Cotas, ManualSale(c)
        PROVE  Destino
    BY <1>1, NewShareFate DEF ManualSale
  <1>2. ASSUME NEW c \in Cotas, MarkPaidLe(c) \/ CancelShareLe(c) \/ PayCommission(c)
        PROVE  Destino
    BY <1>2, SameFate DEF MarkPaidLe, CancelShareLe, PayCommission, bolaoVars, cotaVars
  <1>3. ASSUME balcao.op \in {"baixa", "cancela", "falha", "estorna"}
        PROVE  balcao.cota \in Cotas
    BY <1>3 DEF TypeOK, SemOperacao
  <1>4. ASSUME UNCHANGED <<bolaoVars, cotaVars, pagVars, comissao>>
        PROVE  Destino
    BY <1>4, SameFate DEF bolaoVars, cotaVars
  <1>5. CASE MarkPaidGrava
    <2>1. balcao.cota \in Cotas
      BY <1>3, <1>5 DEF MarkPaidGrava
    <2>2. CASE SettleTx(balcao.cota) /\ UNCHANGED <<statusBolao, marcos>>
      BY <2>1, <2>2, SettleTxFate
    <2>3. QED
      BY <1>4, <1>5, <2>2, Zenon DEF MarkPaidGrava
  <1>6. CASE CancelShareGrava
    <2>1. balcao.cota \in Cotas
      BY <1>3, <1>6 DEF CancelShareGrava
    <2>2. CASE CancelaSemPagamento(balcao.cota)
      <3>1. CASE statusCota' = [statusCota EXCEPT ![balcao.cota] = "cancelada"] /\ UNCHANGED <<statusBolao, marcos>>
        BY <2>1, <3>1, OneFate DEF Desfeitas
      <3>2. QED
        BY <1>4, <2>2, <3>1, Zenon DEF CancelaSemPagamento
    <2>3. QED
      BY <1>6, <2>1, <2>2, ReleaseFate DEF CancelShareGrava
  <1>7. QED
    BY <1>1, <1>2, <1>5, <1>6 DEF Balcao

-----------------------------------------------------------------------------
(* The invariant *)

\* Nothing is registered behind the back of a worker that has read its shares.
Vistas == worker.lido => \A c \in Cotas : statusCota[c] = "registrada" => c \in worker.vistas
DestinoInv == NoShareLeftBehind /\ Vistas

LEMMA FateKeeps ==
  ASSUME TypeOK, StockInv, DestinoInv, Destino, worker' = worker
  PROVE  DestinoInv'
  <1>1. NoShareLeftBehind'
    BY DEF DestinoInv, NoShareLeftBehind, Destino, Desfeitas, Vivas
  <1>2. Vistas'
    BY DEF DestinoInv, Vistas, Destino, Desfeitas, StockInv
  <1>3. QED
    BY <1>1, <1>2 DEF DestinoInv

LEMMA PoolKeeps ==
  ASSUME TypeOK, StockInv, DestinoInv, Bolao
  PROVE  DestinoInv'
  <1>1. CASE Close \/ CancelPool
    <2>1. statusBolao' \in {"fechado", "cancelado"} /\ UNCHANGED <<statusCota, worker>>
      BY <1>1 DEF Close, CancelPool, MudaBolao, cotaVars, procVars
    <2>2. statusBolao' = "cancelado" => Vivas' = {}
      BY <1>1, <2>1 DEF Close, CancelPool, MudaBolao, Vivas
    <2>3. QED
      BY <2>1, <2>2 DEF DestinoInv, NoShareLeftBehind, Vistas
  <1>2. CASE Register
    <2>1. /\ statusBolao \in {"aberto", "fechado"} /\ statusBolao' = "registrado" /\ worker' = worker
          /\ \A c \in Cotas : statusCota'[c] = IF statusCota[c] = "paga" THEN "registrada" ELSE statusCota[c]
      BY <1>2 DEF Register, Registrada, MudaBolao, procVars
    <2>2. \A c \in Cotas : statusCota[c] # "reservada"
      BY <1>2 DEF Register, TodasPagas, Vivas, Desfeitas
    <2>3. ~worker'.lido
      BY <2>1 DEF StockInv
    <2>4. QED
      BY <2>1, <2>2, <2>3 DEF DestinoInv, NoShareLeftBehind, Vistas
  <1>3. CASE ApuraLe
    <2>1. /\ UNCHANGED <<statusBolao, marcos, statusCota>>
          /\ worker'.vistas = {c \in Cotas : statusCota[c] = "registrada"}
      BY <1>3 DEF ApuraLe, bolaoVars, cotaVars
    <2>2. QED
      BY <2>1 DEF DestinoInv, NoShareLeftBehind, Vistas, Vivas
  <1>4. CASE ApuraGrava
    <2>1. /\ worker.lido /\ ~worker'.lido
          /\ statusBolao = "registrado" /\ statusBolao' = "apurado"
      BY <1>4 DEF ApuraGrava, MudaBolao, StockInv
    <2>2. \A c \in Cotas : IF c \in worker.vistas THEN statusCota'[c] \in {"premiada", "apurada"}
                           ELSE statusCota'[c] = statusCota[c]
      BY <1>4 DEF ApuraGrava
    <2>3. \A c \in Cotas : /\ statusCota'[c] \notin {"paga", "registrada"}
                           /\ statusCota'[c] = "reservada" => "painel" \in marcos
      BY <2>1, <2>2 DEF DestinoInv, NoShareLeftBehind, Vistas
    <2>4. "painel" \in marcos => "painel" \in marcos'
      BY <1>4 DEF ApuraGrava
    <2>5. QED
      BY <2>1, <2>3, <2>4 DEF DestinoInv, NoShareLeftBehind, Vistas
  <1>5. CASE QuedaWorker
    <2>1. UNCHANGED <<statusBolao, marcos, statusCota>> /\ ~worker'.lido
      BY <1>5 DEF QuedaWorker, bolaoVars, cotaVars
    <2>2. QED
      BY <2>1 DEF DestinoInv, NoShareLeftBehind, Vistas, Vivas
  <1>6. QED
    BY <1>1, <1>2, <1>3, <1>4, <1>5 DEF Bolao

LEMMA PanelKeeps ==
  ASSUME TypeOK, StockInv, DestinoInv, Painel
  PROVE  DestinoInv'
  <1>1. CASE ComprovanteLe
    <2>1. UNCHANGED <<statusBolao, marcos, statusCota, worker>>
      BY <1>1 DEF ComprovanteLe, bolaoVars, cotaVars
    <2>2. QED
      BY <2>1, SameFate, FateKeeps
  <1>2. CASE ComprovanteGrava
    <2>1. /\ statusBolao' = "registrado" /\ worker' = worker
          /\ \A c \in Cotas : statusCota'[c] = IF statusCota[c] = "paga" THEN "registrada" ELSE statusCota[c]
      BY <1>2 DEF ComprovanteGrava, Registrada, MudaBolao
    <2>2. CASE statusBolao \in {"registrado", "apurado"}
      <3>1. marcos' = marcos /\ \A c \in Cotas : statusCota'[c] = statusCota[c]
        BY <1>2, <2>1, <2>2 DEF ComprovanteGrava, DestinoInv, NoShareLeftBehind
      <3>2. QED
        BY <2>1, <2>2, <3>1 DEF DestinoInv, NoShareLeftBehind, Vistas
    <2>3. CASE statusBolao \notin {"registrado", "apurado"}
      <3>1. "painel" \in marcos' /\ ~worker'.lido
        BY <1>2, <2>1, <2>3 DEF ComprovanteGrava, StockInv
      <3>2. QED
        BY <2>1, <3>1 DEF DestinoInv, NoShareLeftBehind, Vistas
    <2>4. QED
      BY <2>2, <2>3
  <1>3. QED
    BY <1>1, <1>2 DEF Painel

LEMMA DestinoStep ==
  ASSUME IInv, DestinoInv, [Next]_vars
  PROVE  DestinoInv'
  <1> TypeOK /\ RowInv /\ StockInv
    BY DEF IInv
  <1>1. CASE Online
    BY <1>1, OnlineEffect, OnlineFate, FateKeeps
  <1>2. CASE Balcao
    BY <1>2, BalcaoEffect, BalcaoFate, FateKeeps
  <1>3. CASE Bolao
    BY <1>3, PoolKeeps
  <1>4. CASE UNCHANGED vars
    <2>1. UNCHANGED <<statusBolao, marcos, statusCota, worker>>
      BY <1>4 DEF vars, bolaoVars, cotaVars, procVars
    <2>2. QED
      BY <2>1, SameFate, FateKeeps
  <1>5. CASE Painel
    BY <1>5, PanelKeeps
  <1>6. QED
    BY <1>1, <1>2, <1>3, <1>4, <1>5 DEF Next

\* A cancelled pool has no live share and none comes back by a late payment; once
\* the bet is registered none is left merely paid, and one is left reserved only if
\* it was the panel that registered the pool (registerOperationReceipt), late as its
\* write may be; once settled, however late the worker writes what it had read, none
\* is left merely registered.
THEOREM NothingLeftBehind == Spec => []NoShareLeftBehind
  <1>1. Init => DestinoInv
    BY DEF Init, DestinoInv, NoShareLeftBehind, Vistas
  <1>2. DestinoInv => NoShareLeftBehind
    BY DEF DestinoInv
  <1>3. QED
    BY <1>1, <1>2, SpecIInv, DestinoStep, PTL DEF Spec

-----------------------------------------------------------------------------
(***************************************************************************)
(* What the events of the provider may do to a payment, for any set of     *)
(* shares and any bounds, however late, repeated or out of order they are  *)
(* applied: a share paid through the gateway is kept, a refund is final,   *)
(* and no refund is shown that the provider has not made.                  *)
(*                                                                         *)
(* Conv(c) relates the payment of a share to its charge.  It stands on     *)
(* what is in flight: a request has no charge id yet, a notice of a refund *)
(* is of money that went back, what the reconciliation has read still has  *)
(* its charge or was taken over by the desk, and the desk refunds only     *)
(* what it received.                                                       *)
(***************************************************************************)

EmCurso == {"enviando", "criada", "ja_paga"}
Convertida(c) == statusCota[c] \in {"paga", "registrada"}

Conv(c) ==
    /\ pedido[c] \in EmCurso => ~comPsp[c]
    /\ Convertida(c) /\ origem[c] = "gateway" => statusPag[c] = "confirmado" /\ comPsp[c]
    /\ statusPag[c] = "estornado" /\ origem[c] = "gateway" =>
          /\ comPsp[c] /\ cobranca[c] = "devolvida"
          /\ statusCota[c] \in {"estornada", "apurada", "premiada"}

ComDono(c) == comPsp[c] \/ origem[c] = "manual"

AvisosInv == \A a \in avisos : a.visto = "estornado" => cobranca[a.cota] = "devolvida"
ConciliaInv ==
    /\ conciliacao.fase \in {"lote", "aplica"} => \A r \in conciliacao.lote : ComDono(r.cota)
    /\ conciliacao.fase = "aplica" =>
          /\ ComDono(conciliacao.atual.cota)
          /\ conciliacao.visto = "estornado" => cobranca[conciliacao.atual.cota] = "devolvida"
BalcaoInv == balcao.op = "estorna" => origem[balcao.cota] = "manual"

PagInv == (\A c \in Cotas : Conv(c)) /\ AvisosInv /\ ConciliaInv /\ BalcaoInv

-----------------------------------------------------------------------------
(* What a step may do to one share *)

Fica(c) == /\ statusCota'[c] = statusCota[c] /\ statusPag'[c] = statusPag[c]
           /\ comPsp'[c] = comPsp[c] /\ origem'[c] = origem[c]

Paga(c) == /\ comPsp[c] /\ origem[c] = "gateway" /\ statusPag[c] # "estornado"
           /\ comPsp'[c] = comPsp[c] /\ origem'[c] = origem[c] /\ statusPag'[c] = "confirmado"
           /\ statusCota'[c] \in {"paga", statusCota[c]}

Falha(c) == /\ statusPag[c] \notin {"confirmado", "estornado"} /\ statusPag'[c] = "falhou"
            /\ comPsp'[c] = comPsp[c] /\ origem'[c] = origem[c] /\ statusCota'[c] = "cancelada"

Estorna(c) == /\ statusPag[c] # "estornado" /\ statusPag'[c] = "estornado"
              /\ comPsp'[c] = comPsp[c] /\ origem'[c] = origem[c] /\ statusCota'[c] = "estornada"

EstornoReal(c) == origem[c] = "gateway" => comPsp[c] /\ cobranca[c] = "devolvida"

\* A step is safe for a share.
Seguro(c) ==
    /\ Conv(c)'
    /\ statusCota[c] = "paga" /\ origem[c] = "gateway" => statusCota'[c] \in {"paga", "registrada", "estornada"}
    /\ statusPag[c] = "estornado" /\ origem[c] = "gateway" => statusPag'[c] = "estornado"

LEMMA EventIsSafe ==
  ASSUME NEW c \in Cotas, Conv(c),
         Fica(c) \/ Paga(c) \/ Falha(c) \/ (Estorna(c) /\ EstornoReal(c)),
         pedido'[c] \in EmCurso => pedido[c] \in EmCurso,
         cobranca[c] = "devolvida" => cobranca'[c] = "devolvida"
  PROVE  Seguro(c)
  BY DEF Seguro, Conv, Fica, Paga, Falha, Estorna, EstornoReal, Convertida, EmCurso

LEMMA ConfirmDoes ==
  ASSUME TypeOK, NEW c \in Cotas, NEW v, ConfirmPayment(c, v)
  PROVE  \A d \in Cotas : Fica(d) \/ Paga(d)
  <1>1. CASE UNCHANGED <<bolaoVars, cotaVars, pagVars, comissao>>
    BY <1>1 DEF Fica, cotaVars, pagVars
  <1>2. CASE Encontrado(c) /\ ~EstornoTerminal(c) /\ SettleTx(c) /\ UNCHANGED <<statusBolao, marcos, comPsp, origem, metodo>>
    BY <1>2 DEF Fica, Paga, Encontrado, EstornoTerminal, SettleTx, TypeOK
  <1>3. QED
    BY <1>1, <1>2 DEF ConfirmPayment

LEMMA ReleaseDoes ==
  ASSUME TypeOK, NEW c \in Cotas, NEW novo \in {"falhou", "estornado"}, ReleasePayment(c, novo)
  PROVE  \A d \in Cotas : \/ Fica(d)
                          \/ d = c /\ novo = "falhou" /\ Falha(d)
                          \/ d = c /\ novo = "estornado" /\ Estorna(d)
  <1>1. CASE Ignora(c, novo)
    BY <1>1 DEF ReleasePayment, Fica, cotaVars, pagVars
  <1>2. CASE ~Ignora(c, novo)
    BY <1>2 DEF ReleasePayment, Fica, Falha, Estorna, Ignora, EstornoTerminal, CotaLiberada, TypeOK
  <1>3. QED
    BY <1>1, <1>2

LEMMA AplicaDoes ==
  ASSUME TypeOK, NEW c \in Cotas, NEW lido, AplicaStatus(c, lido)
  PROVE  \A d \in Cotas : \/ Fica(d) \/ Paga(d) \/ Falha(d)
                          \/ d = c /\ lido = "estornado" /\ Estorna(d)
  <1>1. UNCHANGED <<bolaoVars, cotaVars, pagVars, comissao>> => \A d \in Cotas : Fica(d)
    BY DEF Fica, cotaVars, pagVars
  <1>2. QED
    BY <1>1, ConfirmDoes, ReleaseDoes DEF AplicaStatus

-----------------------------------------------------------------------------
(* Every step is safe for every share *)

LEMMA ChargeIsSafe ==
  ASSUME TypeOK, PagInv, NEW c \in Cotas,
         CobrancaAbre(c) \/ CobrancaNoProvedor(c) \/ CobrancaGrava(c) \/ CobrancaEstende(c) \/ CobrancaErro(c)
  PROVE  \A d \in Cotas : Seguro(d)
  <1> SUFFICES ASSUME NEW d \in Cotas PROVE Seguro(d)
    OBVIOUS
  <1>1. Conv(d)
    BY DEF PagInv
  <1>2. CASE CobrancaAbre(c)
    BY <1>1, <1>2 DEF CobrancaAbre, Seguro, Conv, Convertida, EmCurso, TypeOK, cotaVars
  <1>3. CASE CobrancaNoProvedor(c)
    BY <1>1, <1>3 DEF CobrancaNoProvedor, Seguro, Conv, Convertida, EmCurso, TypeOK, cotaVars, pagVars
  <1>4. CASE CobrancaGrava(c)
    BY <1>1, <1>4 DEF CobrancaGrava, Seguro, Conv, Convertida, EmCurso, TypeOK, cotaVars
  <1>5. CASE CobrancaEstende(c)
    BY <1>1, <1>5 DEF CobrancaEstende, Seguro, Conv, Convertida, EmCurso, TypeOK, pagVars
  <1>6. CASE CobrancaErro(c)
    BY <1>1, <1>6 DEF CobrancaErro, Seguro, Conv, Convertida, EmCurso, TypeOK, cotaVars
  <1>7. QED
    BY <1>2, <1>3, <1>4, <1>5, <1>6

LEMMA EventsAreSafe ==
  ASSUME TypeOK, PagInv, Online
  PROVE  \A d \in Cotas : Seguro(d)
  <1> SUFFICES ASSUME NEW d \in Cotas PROVE Seguro(d)
    OBVIOUS
  <1>0. Conv(d)
    BY DEF PagInv
  <1>1. ASSUME NEW c \in Cotas, Reserve(c) \/ ExpireReservation(c)
        PROVE  Seguro(d)
    BY <1>0, <1>1 DEF Reserve, NovaCota, ExpireReservation, Expirada, Seguro, Conv, Convertida, TypeOK, pagVars, procVars
  <1>2. ASSUME NEW c \in Cotas, CobrancaConfirma(c)
        PROVE  Seguro(d)
    <2>1. Fica(d) \/ Paga(d)
      BY <1>2, ConfirmDoes DEF CobrancaConfirma
    <2>2. (pedido'[d] \in EmCurso => pedido[d] \in EmCurso) /\ cobranca' = cobranca
      BY <1>2 DEF CobrancaConfirma, TypeOK, EmCurso
    <2>3. QED
      BY <1>0, <2>1, <2>2, EventIsSafe
  <1>3. ASSUME NEW c \in Cotas, ClientePaga(c) \/ ProvedorEncerra(c) \/ AvisoChega(c) \/ Vence(c)
        PROVE  Seguro(d)
    <2>1. Fica(d) /\ pedido' = pedido
      BY <1>3 DEF ClientePaga, ProvedorEncerra, AvisoChega, Vence, Fica, cotaVars, pagVars, procVars
    <2>2. cobranca[d] = "devolvida" => cobranca'[d] = "devolvida"
      BY <1>3 DEF ClientePaga, ProvedorEncerra, AvisoChega, Vence, TypeOK
    <2>3. QED
      BY <1>0, <2>1, <2>2, EventIsSafe
  <1>4. ASSUME NEW a \in avisos, AvisoAplica(a)
        PROVE  Seguro(d)
    <2>1. a.cota \in Cotas
      BY DEF TypeOK, Aviso
    <2>2. pedido' = pedido /\ cobranca' = cobranca
      BY <1>4, Zenon DEF AvisoAplica
    <2>3. CASE UNCHANGED <<bolaoVars, cotaVars, pagVars, comissao>>
      BY <1>0, <2>2, <2>3, EventIsSafe DEF Fica, cotaVars, pagVars
    <2>4. CASE Encontrado(a.cota) /\ AplicaStatus(a.cota, a.visto)
      <3>1. a.visto = "estornado" => EstornoReal(a.cota)
        BY <2>4 DEF Encontrado, EstornoReal, PagInv, AvisosInv
      <3>2. QED
        BY <1>0, <2>1, <2>2, <2>4, <3>1, AplicaDoes, EventIsSafe
    <2>5. QED
      BY <1>4, <2>3, <2>4, Zenon DEF AvisoAplica
  <1>5. CASE ConciliaAplica
    <2> DEFINE c == conciliacao.atual.cota
    <2>1. c \in Cotas
      BY <1>5 DEF TypeOK, ConciliaAplica, SemConsulta, Consultada
    <2>2. pedido' = pedido /\ (cobranca[d] = "devolvida" => cobranca'[d] = "devolvida")
      BY <1>5, <2>1 DEF ConciliaAplica, PodeCancelar, TypeOK
    <2>3. conciliacao.visto = "estornado" => EstornoReal(c)
      BY <1>5 DEF ConciliaAplica, EstornoReal, PagInv, ConciliaInv, ComDono
    <2>4. ReleasePayment(c, "falhou") \/ AplicaStatus(c, conciliacao.visto)
      BY <1>5 DEF ConciliaAplica
    <2> HIDE DEF c
    <2>5. QED
      BY <1>0, <2>1, <2>2, <2>3, <2>4, ReleaseDoes, AplicaDoes, EventIsSafe
  <1>6. CASE ConciliaLe \/ ConciliaConsulta \/ ConciliaErro \/ AvancaConcurso \/ QuedaApi
    <2>1. Fica(d) /\ (pedido' = pedido \/ pedido'[d] = "ocioso") /\ cobranca' = cobranca
      BY <1>6 DEF ConciliaLe, ConciliaConsulta, ConciliaErro, AvancaConcurso, QuedaApi, Fica, cotaVars, pagVars, procVars
    <2>2. QED
      BY <1>0, <2>1, EventIsSafe DEF EmCurso
  <1>7. QED
    BY <1>1, <1>2, <1>3, <1>4, <1>5, <1>6, ChargeIsSafe DEF Online, PedidoSegue, Concilia

LEMMA DeskIsSafe ==
  ASSUME TypeOK, PagInv, Balcao
  PROVE  \A d \in Cotas : Seguro(d)
  <1> SUFFICES ASSUME NEW d \in Cotas PROVE Seguro(d)
    OBVIOUS
  <1>0. Conv(d)
    BY DEF PagInv
  <1>1. ASSUME NEW c \in Cotas, ManualSale(c)
        PROVE  Seguro(d)
    BY <1>0, <1>1 DEF ManualSale, NovaCota, Seguro, Conv, Convertida, TypeOK, pagVars, procVars
  <1>2. ASSUME NEW c \in Cotas, MarkPaidLe(c) \/ CancelShareLe(c) \/ PayCommission(c)
        PROVE  Seguro(d)
    <2>1. Fica(d) /\ pedido' = pedido
      BY <1>2 DEF MarkPaidLe, CancelShareLe, PayCommission, Fica, cotaVars, pagVars, procVars
    <2>2. cobranca[d] = "devolvida" => cobranca'[d] = "devolvida"
      BY <1>2 DEF MarkPaidLe, CancelShareLe, PayCommission, TentaCancelar, TypeOK
    <2>3. QED
      BY <1>0, <2>1, <2>2, EventIsSafe
  <1>3. ASSUME balcao.op \in {"baixa", "cancela", "falha", "estorna"}
        PROVE  balcao.cota \in Cotas
    BY <1>3 DEF TypeOK, SemOperacao
  <1>4. ASSUME UNCHANGED <<bolaoVars, cotaVars, pagVars, comissao>>, pedido' = pedido, cobranca' = cobranca
        PROVE  Seguro(d)
    BY <1>0, <1>4, EventIsSafe DEF Fica, cotaVars, pagVars
  <1>5. CASE MarkPaidGrava
    <2> DEFINE c == balcao.cota
    <2>1. c \in Cotas /\ pedido' = pedido /\ cobranca' = cobranca
      BY <1>3, <1>5 DEF MarkPaidGrava
    <2>2. CASE /\ Efetiva(c) \/ Reativa(c)
               /\ SettleTx(c)
               /\ origem' = [origem EXCEPT ![c] = "manual"]
               /\ comPsp' = [comPsp EXCEPT ![c] = FALSE]
      BY <1>0, <2>1, <2>2 DEF Efetiva, Reativa, SettleTx, Seguro, Conv, Convertida, TypeOK
    <2>3. QED
      BY <1>4, <1>5, <2>1, <2>2, Zenon DEF MarkPaidGrava
  <1>6. CASE CancelShareGrava
    <2> DEFINE c == balcao.cota
    <2>1. c \in Cotas /\ pedido' = pedido /\ cobranca' = cobranca
      BY <1>3, <1>6 DEF CancelShareGrava
    <2>2. CASE CancelaSemPagamento(c)
      <3>1. CASE /\ statusPag[c] = "nenhum" /\ statusCota[c] = "reservada"
                 /\ statusCota' = [statusCota EXCEPT ![c] = "cancelada"]
                 /\ UNCHANGED pagVars
        BY <1>0, <2>1, <3>1 DEF Seguro, Conv, Convertida, TypeOK, pagVars
      <3>2. QED
        BY <1>4, <2>1, <2>2, <3>1, Zenon DEF CancelaSemPagamento
    <2>3. balcao.op = "estorna" => EstornoReal(c)
      BY DEF PagInv, BalcaoInv, EstornoReal
    <2>4. \/ balcao.op = "falha" /\ ReleasePayment(c, "falhou")
          \/ balcao.op = "estorna" /\ ReleasePayment(c, "estornado")
          \/ CancelaSemPagamento(c)
      BY <1>6 DEF CancelShareGrava
    <2> HIDE DEF c
    <2>5. QED
      BY <1>0, <2>1, <2>2, <2>3, <2>4, ReleaseDoes, EventIsSafe
  <1>7. QED
    BY <1>1, <1>2, <1>5, <1>6 DEF Balcao

LEMMA PanelIsSafe ==
  ASSUME TypeOK, PagInv, Painel
  PROVE  \A d \in Cotas : Seguro(d)
  <1> SUFFICES ASSUME NEW d \in Cotas PROVE Seguro(d)
    OBVIOUS
  <1>0. Conv(d)
    BY DEF PagInv
  <1>1. CASE ComprovanteLe
    <2>1. Fica(d) /\ pedido' = pedido /\ cobranca' = cobranca
      BY <1>1 DEF ComprovanteLe, Fica, cotaVars, pagVars
    <2>2. QED
      BY <1>0, <2>1, EventIsSafe
  <1>2. CASE ComprovanteGrava
    BY <1>0, <1>2 DEF ComprovanteGrava, Registrada, MudaBolao, Seguro, Conv, Convertida, TypeOK, pagVars
  <1>3. QED
    BY <1>1, <1>2 DEF Painel

LEMMA PoolIsSafe ==
  ASSUME TypeOK, StockInv, DestinoInv, PagInv, Bolao
  PROVE  \A d \in Cotas : Seguro(d)
  <1> SUFFICES ASSUME NEW d \in Cotas PROVE Seguro(d)
    OBVIOUS
  <1>0. Conv(d)
    BY DEF PagInv
  <1>1. CASE Close \/ CancelPool \/ ApuraLe \/ QuedaWorker
    <2>1. Fica(d) /\ pedido' = pedido /\ cobranca' = cobranca
      BY <1>1 DEF Close, CancelPool, ApuraLe, QuedaWorker, MudaBolao, Fica, cotaVars, pagVars, procVars
    <2>2. QED
      BY <1>0, <2>1, EventIsSafe
  <1>2. CASE Register
    BY <1>0, <1>2 DEF Register, Registrada, MudaBolao, Seguro, Conv, Convertida, TypeOK, pagVars, procVars
  <1>3. CASE ApuraGrava
    <2>1. /\ UNCHANGED <<pagVars, cobranca, pedido>>
          /\ statusCota'[d] \in {"premiada", "apurada", statusCota[d]}
      BY <1>3 DEF ApuraGrava, MudaBolao
    <2>2. statusCota[d] # "paga"
      BY <1>3 DEF ApuraGrava, StockInv, DestinoInv, NoShareLeftBehind
    <2>3. QED
      BY <1>0, <2>1, <2>2 DEF Seguro, Conv, Convertida, pagVars
  <1>4. QED
    BY <1>1, <1>2, <1>3 DEF Bolao

-----------------------------------------------------------------------------
(* What is in flight stays true while the rest moves *)

Persiste ==
    \A c \in Cotas : /\ cobranca[c] = "devolvida" => cobranca'[c] = "devolvida"
                     /\ origem[c] = "manual" => origem'[c] = "manual"
                     /\ ComDono(c) => ComDono(c)'

LEMMA PagamentoPersists ==
  ASSUME NEW c \in Cotas, Fica(c) \/ Paga(c) \/ Falha(c) \/ Estorna(c)
  PROVE  /\ origem[c] = "manual" => origem'[c] = "manual"
         /\ ComDono(c) => ComDono(c)'
  BY DEF Fica, Paga, Falha, Estorna, ComDono

LEMMA SameOwner ==
  ASSUME UNCHANGED <<comPsp, origem>>,
         \A c \in Cotas : cobranca[c] = "devolvida" => cobranca'[c] = "devolvida"
  PROVE  Persiste
  BY DEF Persiste, ComDono

LEMMA OnlinePersists ==
  ASSUME TypeOK, Online
  PROVE  Persiste
  <1>1. ASSUME NEW c \in Cotas,
               \/ Reserve(c) \/ ExpireReservation(c) \/ CobrancaAbre(c) \/ CobrancaNoProvedor(c)
               \/ CobrancaEstende(c) \/ CobrancaErro(c)
               \/ ClientePaga(c) \/ ProvedorEncerra(c) \/ AvisoChega(c) \/ Vence(c)
        PROVE  Persiste
    <2>1. UNCHANGED <<comPsp, origem>>
      BY <1>1
      DEF Reserve, NovaCota, ExpireReservation, CobrancaAbre, CobrancaNoProvedor, CobrancaEstende,
          CobrancaErro, ClientePaga, ProvedorEncerra, AvisoChega, Vence, pagVars
    <2>2. \A d \in Cotas : cobranca[d] = "devolvida" => cobranca'[d] = "devolvida"
      BY <1>1
      DEF Reserve, NovaCota, ExpireReservation, CobrancaAbre, CobrancaNoProvedor, CobrancaEstende,
          CobrancaErro, ClientePaga, ProvedorEncerra, AvisoChega, Vence, TypeOK
    <2>3. QED
      BY <2>1, <2>2, SameOwner
  <1>2. ASSUME NEW c \in Cotas, CobrancaGrava(c)
        PROVE  Persiste
    BY <1>2 DEF CobrancaGrava, Persiste, ComDono, TypeOK
  <1>3. ASSUME NEW c \in Cotas, CobrancaConfirma(c)
        PROVE  Persiste
    BY <1>3, ConfirmDoes, PagamentoPersists DEF CobrancaConfirma, Persiste
  <1>4. ASSUME NEW a \in avisos, AvisoAplica(a)
        PROVE  Persiste
    <2>1. a.cota \in Cotas /\ cobranca' = cobranca
      BY <1>4, Zenon DEF TypeOK, Aviso, AvisoAplica
    <2>2. AplicaStatus(a.cota, a.visto) \/ UNCHANGED <<bolaoVars, cotaVars, pagVars, comissao>>
      BY <1>4, Zenon DEF AvisoAplica
    <2>3. QED
      BY <2>1, <2>2, AplicaDoes, PagamentoPersists, SameOwner DEF Persiste, pagVars
  <1>5. CASE ConciliaAplica
    <2> DEFINE c == conciliacao.atual.cota
    <2>1. c \in Cotas
      BY <1>5 DEF TypeOK, ConciliaAplica, SemConsulta, Consultada
    <2>2. \A d \in Cotas : cobranca[d] = "devolvida" => cobranca'[d] = "devolvida"
      BY <1>5, <2>1 DEF ConciliaAplica, PodeCancelar, TypeOK
    <2>3. ReleasePayment(c, "falhou") \/ AplicaStatus(c, conciliacao.visto)
      BY <1>5 DEF ConciliaAplica
    <2> HIDE DEF c
    <2>4. QED
      BY <2>1, <2>2, <2>3, ReleaseDoes, AplicaDoes, PagamentoPersists DEF Persiste
  <1>6. CASE ConciliaLe \/ ConciliaConsulta \/ ConciliaErro \/ AvancaConcurso \/ QuedaApi
    BY <1>6, SameOwner
    DEF ConciliaLe, ConciliaConsulta, ConciliaErro, AvancaConcurso, QuedaApi, pagVars
  <1>7. QED
    BY <1>1, <1>2, <1>3, <1>4, <1>5, <1>6 DEF Online, PedidoSegue, Concilia

LEMMA DeskPersists ==
  ASSUME TypeOK, Balcao
  PROVE  Persiste
  <1>1. ASSUME NEW c \in Cotas,
               ManualSale(c) \/ MarkPaidLe(c) \/ CancelShareLe(c) \/ PayCommission(c)
        PROVE  Persiste
    <2>1. UNCHANGED <<comPsp, origem>>
      BY <1>1 DEF ManualSale, NovaCota, MarkPaidLe, CancelShareLe, PayCommission, pagVars
    <2>2. \A d \in Cotas : cobranca[d] = "devolvida" => cobranca'[d] = "devolvida"
      BY <1>1 DEF ManualSale, NovaCota, MarkPaidLe, CancelShareLe, PayCommission, TentaCancelar, TypeOK
    <2>3. QED
      BY <2>1, <2>2, SameOwner
  <1>2. ASSUME balcao.op \in {"baixa", "cancela", "falha", "estorna"}
        PROVE  balcao.cota \in Cotas
    BY <1>2 DEF TypeOK, SemOperacao
  <1>3. CASE MarkPaidGrava
    <2> DEFINE c == balcao.cota
    <2>1. c \in Cotas /\ cobranca' = cobranca
      BY <1>2, <1>3 DEF MarkPaidGrava
    <2>2. CASE /\ origem' = [origem EXCEPT ![c] = "manual"]
               /\ comPsp' = [comPsp EXCEPT ![c] = FALSE]
      BY <2>1, <2>2 DEF Persiste, ComDono, TypeOK
    <2>3. CASE UNCHANGED <<bolaoVars, cotaVars, pagVars, comissao>>
      BY <2>1, <2>3, SameOwner DEF pagVars
    <2>4. QED
      BY <1>3, <2>2, <2>3, Zenon DEF MarkPaidGrava
  <1>4. CASE CancelShareGrava
    <2> DEFINE c == balcao.cota
    <2>1. c \in Cotas /\ cobranca' = cobranca
      BY <1>2, <1>4 DEF CancelShareGrava
    <2>2. CASE CancelaSemPagamento(c)
      <3>1. UNCHANGED pagVars
        BY <2>2, Zenon DEF CancelaSemPagamento
      <3>2. QED
        BY <2>1, <3>1, SameOwner DEF pagVars
    <2>3. ReleasePayment(c, "falhou") \/ ReleasePayment(c, "estornado") \/ CancelaSemPagamento(c)
      BY <1>4 DEF CancelShareGrava
    <2> HIDE DEF c
    <2>4. QED
      BY <2>1, <2>2, <2>3, ReleaseDoes, PagamentoPersists DEF Persiste
  <1>5. QED
    BY <1>1, <1>3, <1>4 DEF Balcao

LEMMA NextPersists ==
  ASSUME TypeOK, [Next]_vars
  PROVE  Persiste
  <1>1. CASE Bolao \/ Painel \/ UNCHANGED vars
    BY <1>1, SameOwner
    DEF Painel, ComprovanteLe, ComprovanteGrava, Bolao, Close, CancelPool, Register, ApuraLe, ApuraGrava, QuedaWorker, MudaBolao, vars, pagVars
  <1>2. QED
    BY <1>1, OnlinePersists, DeskPersists DEF Next

-----------------------------------------------------------------------------
(* What is in flight *)

LEMMA ReadIsTrue ==
  ASSUME NEW c, "estornado" \in VistoNaConsulta(c)
  PROVE  cobranca[c] = "devolvida"
  BY DEF VistoNaConsulta, VistoNaCora, VistoNoMercadoPago

LEMMA NoticesStep ==
  ASSUME TypeOK, AvisosInv, [Next]_vars
  PROVE  AvisosInv'
  <1>1. CASE \E c \in Cotas : AvisoChega(c)
    <2>1. PICK c \in Cotas : AvisoChega(c)
      BY <1>1
    <2>2. PICK v \in VistoNoAviso(c) : avisos' = avisos \cup {[cota |-> c, visto |-> v]}
      BY <2>1 DEF AvisoChega
    <2>3. cobranca' = cobranca
      BY <2>1 DEF AvisoChega
    <2>4. v = "estornado" => cobranca[c] = "devolvida"
      BY <2>2, ReadIsTrue DEF VistoNoAviso
    <2>5. QED
      BY <2>2, <2>3, <2>4 DEF AvisosInv
  <1>2. CASE ~\E c \in Cotas : AvisoChega(c)
    <2>1. avisos' \subseteq avisos
      BY <1>2
      DEF Next, Online, Balcao, Bolao, Painel, ComprovanteLe, ComprovanteGrava, PedidoSegue, Concilia,
          Reserve, NovaCota, ExpireReservation,
          CobrancaAbre, CobrancaNoProvedor, CobrancaGrava, CobrancaEstende, CobrancaConfirma,
          CobrancaErro, ClientePaga, ProvedorEncerra, Vence, AvisoAplica, ConciliaLe,
          ConciliaConsulta, ConciliaAplica, ConciliaErro, AvancaConcurso, QuedaApi, ManualSale,
          MarkPaidLe, MarkPaidGrava, CancelShareLe, CancelShareGrava, PayCommission, Close,
          CancelPool, Register, ApuraLe, ApuraGrava, QuedaWorker, MudaBolao, vars, procVars
    <2>2. \A a \in avisos : a.cota \in Cotas
      BY DEF TypeOK, Aviso
    <2>3. QED
      BY <2>1, <2>2, NextPersists DEF AvisosInv, Persiste
  <1>3. QED
    BY <1>1, <1>2

LEMMA ReconciliationStep ==
  ASSUME TypeOK, ConciliaInv, [Next]_vars
  PROVE  ConciliaInv'
  <1>0. Persiste
    BY NextPersists
  <1>1. CASE UNCHANGED conciliacao
    <2>1. CASE conciliacao.fase \in {"lote", "aplica"}
      <3>1. conciliacao.lote \subseteq Consultada /\ (conciliacao.fase = "aplica" => conciliacao.atual \in Consultada)
        BY <2>1 DEF TypeOK, SemConsulta
      <3>2. QED
        BY <1>0, <1>1, <3>1 DEF ConciliaInv, Persiste, Consultada
    <2>2. CASE conciliacao.fase \notin {"lote", "aplica"}
      BY <1>1, <2>2 DEF ConciliaInv
    <2>3. QED
      BY <2>1, <2>2
  <1>2. CASE conciliacao' = SemConsulta
    BY <1>2 DEF ConciliaInv, SemConsulta
  <1>3. CASE ConciliaLe
    <2>1. \A c \in Cotas : Conciliavel(c) => ComDono(c)'
      BY <1>3 DEF ConciliaLe, Conciliavel, Encontrado, ComDono, pagVars
    <2>2. /\ conciliacao'.fase = "lote"
          /\ \A r \in conciliacao'.lote : r.cota \in Cotas /\ Conciliavel(r.cota)
      BY <1>3 DEF ConciliaLe
    <2>3. QED
      BY <2>1, <2>2 DEF ConciliaInv
  <1>4. CASE ConciliaConsulta
    <2>1. PICK r \in conciliacao.lote : \E v \in VistoNaConsulta(r.cota) :
             conciliacao' = [fase |-> "aplica", lote |-> conciliacao.lote \ {r}, atual |-> r, visto |-> v]
      BY <1>4 DEF ConciliaConsulta
    <2>2. PICK v \in VistoNaConsulta(r.cota) :
             conciliacao' = [fase |-> "aplica", lote |-> conciliacao.lote \ {r}, atual |-> r, visto |-> v]
      BY <2>1
    <2>3. /\ conciliacao.fase = "lote"
          /\ conciliacao.lote \subseteq Consultada
          /\ UNCHANGED <<comPsp, origem, cobranca>>
      BY <1>4 DEF ConciliaConsulta, TypeOK, SemConsulta, pagVars
    <2>4. \A x \in conciliacao.lote : ComDono(x.cota)'
      BY <2>3 DEF ConciliaInv, ComDono
    <2>5. v = "estornado" => cobranca'[r.cota] = "devolvida"
      BY <2>2, <2>3, ReadIsTrue
    <2>6. QED
      BY <2>2, <2>4, <2>5 DEF ConciliaInv
  <1>5. CASE ConciliaAplica \/ ConciliaErro
    <2>1. /\ conciliacao.fase = "aplica"
          /\ conciliacao' = Restante(conciliacao.lote)
      BY <1>5 DEF ConciliaAplica, ConciliaErro
    <2>2. conciliacao.lote \subseteq Consultada
      BY <2>1 DEF TypeOK, SemConsulta
    <2>3. \A r \in conciliacao.lote : ComDono(r.cota)'
      BY <1>0, <2>1, <2>2 DEF ConciliaInv, Persiste, Consultada
    <2>4. CASE conciliacao' = [fase |-> "lote", lote |-> conciliacao.lote]
      BY <2>3, <2>4 DEF ConciliaInv
    <2>5. QED
      BY <1>2, <2>1, <2>4 DEF Restante
  <1>6. UNCHANGED conciliacao \/ conciliacao' = SemConsulta \/ ConciliaLe \/ ConciliaConsulta
            \/ ConciliaAplica \/ ConciliaErro
    BY DEF Next, Online, Balcao, Bolao, Painel, ComprovanteLe, ComprovanteGrava, PedidoSegue, Concilia,
          Reserve, NovaCota, ExpireReservation,
           CobrancaAbre, CobrancaNoProvedor, CobrancaGrava, CobrancaEstende, CobrancaConfirma,
           CobrancaErro, ClientePaga, ProvedorEncerra, AvisoChega, Vence, AvisoAplica,
           AvancaConcurso, QuedaApi, ManualSale, MarkPaidLe, MarkPaidGrava, CancelShareLe,
           CancelShareGrava, PayCommission, Close, CancelPool, Register, ApuraLe, ApuraGrava,
           QuedaWorker, MudaBolao, vars, procVars
  <1>7. QED
    BY <1>1, <1>2, <1>3, <1>4, <1>5, <1>6

LEMMA DeskStep ==
  ASSUME TypeOK, BalcaoInv, [Next]_vars
  PROVE  BalcaoInv'
  <1>1. CASE UNCHANGED balcao
    <2>1. CASE balcao.op = "estorna"
      <3>1. balcao.cota \in Cotas
        BY <2>1 DEF TypeOK, SemOperacao
      <3>2. QED
        BY <1>1, <3>1, NextPersists DEF BalcaoInv, Persiste
    <2>2. QED
      BY <1>1, <2>1 DEF BalcaoInv
  <1>2. CASE balcao' = SemOperacao \/ balcao' = [op |-> "comprovante"]
    BY <1>2 DEF BalcaoInv, SemOperacao
  <1>3. ASSUME NEW c \in Cotas, MarkPaidLe(c)
        PROVE  BalcaoInv'
    BY <1>3 DEF MarkPaidLe, BalcaoInv
  <1>4. ASSUME NEW c \in Cotas, CancelShareLe(c)
        PROVE  BalcaoInv'
    <2>1. /\ balcao'.cota = c /\ origem' = origem
          /\ balcao'.op = "estorna" => statusPag[c] = "confirmado"
      BY <1>4 DEF CancelShareLe, pagVars
    <2>2. statusPag[c] = "confirmado" => origem[c] = "manual"
      BY <1>4 DEF CancelShareLe, Cancelavel, TypeOK
    <2>3. QED
      BY <2>1, <2>2 DEF BalcaoInv
  <1>5. \/ UNCHANGED balcao \/ balcao' = SemOperacao \/ balcao' = [op |-> "comprovante"]
        \/ \E c \in Cotas : MarkPaidLe(c) \/ CancelShareLe(c)
    BY DEF Next, Online, Balcao, Bolao, Painel, ComprovanteLe, ComprovanteGrava, PedidoSegue, Concilia,
          Reserve, NovaCota, ExpireReservation,
           CobrancaAbre, CobrancaNoProvedor, CobrancaGrava, CobrancaEstende, CobrancaConfirma,
           CobrancaErro, ClientePaga, ProvedorEncerra, AvisoChega, Vence, AvisoAplica, ConciliaLe,
           ConciliaConsulta, ConciliaAplica, ConciliaErro, AvancaConcurso, QuedaApi, ManualSale,
           MarkPaidGrava, CancelShareGrava, PayCommission, Close, CancelPool, Register, ApuraLe,
           ApuraGrava, QuedaWorker, MudaBolao, vars, procVars
  <1>6. QED
    BY <1>1, <1>2, <1>3, <1>4, <1>5

-----------------------------------------------------------------------------
(* The theorems *)

LEMMA EveryStepIsSafe ==
  ASSUME TypeOK, StockInv, DestinoInv, PagInv, [Next]_vars
  PROVE  \A c \in Cotas : Seguro(c)
  <1>1. CASE UNCHANGED vars
    BY <1>1 DEF PagInv, Seguro, Conv, Convertida, EmCurso, vars, cotaVars, pagVars, procVars
  <1>2. QED
    BY <1>1, EventsAreSafe, DeskIsSafe, PoolIsSafe, PanelIsSafe DEF Next

LEMMA PaymentInit ==
  ASSUME Init
  PROVE  PagInv
  BY DEF Init, PagInv, Conv, Convertida, EmCurso, AvisosInv, ConciliaInv, BalcaoInv,
         SemConsulta, SemOperacao

LEMMA PaymentStep ==
  ASSUME IInv, DestinoInv, PagInv, [Next]_vars
  PROVE  PagInv'
  <1> TypeOK /\ StockInv
    BY DEF IInv
  <1>1. \A c \in Cotas : Conv(c)'
    BY EveryStepIsSafe DEF Seguro
  <1>2. AvisosInv' /\ ConciliaInv' /\ BalcaoInv'
    BY NoticesStep, ReconciliationStep, DeskStep DEF PagInv
  <1>3. QED
    BY <1>1, <1>2 DEF PagInv

\* The inductive invariant behind the three results below, together with those of
\* the stock and of the fate of the shares it stands on.
THEOREM SpecPagInv == Spec => [](IInv /\ DestinoInv /\ PagInv)
  <1>1. Init => DestinoInv /\ PagInv
    BY PaymentInit DEF Init, DestinoInv, NoShareLeftBehind, Vistas
  <1>2. IInv /\ DestinoInv /\ PagInv /\ [Next]_vars => DestinoInv' /\ PagInv'
    BY DestinoStep, PaymentStep
  <1>3. QED
    BY <1>1, <1>2, SpecIInv, PTL DEF Spec

\* A gateway payment is shown as refunded only if the provider returned its money,
\* whatever the webhooks, the reconciliation and the desk had read before.
THEOREM NoRefundInvented == Spec => []NoPhantomRefund
  <1>1. PagInv => NoPhantomRefund
    BY DEF PagInv, Conv, NoPhantomRefund
  <1>2. QED
    BY <1>1, SpecPagInv, PTL

\* A share paid through the gateway is lost to nobody: no late failure, no stale
\* reconciliation and no desk decision taken before the payment undoes it.
THEOREM PaidShareKept == Spec => PaidShareIsKept
  <1>1. IInv /\ DestinoInv /\ PagInv /\ [Next]_vars =>
          [\A c \in Cotas : statusCota[c] = "paga" /\ origem[c] = "gateway"
                            => statusCota'[c] \in {"paga", "registrada", "estornada"}]_vars
    BY EveryStepIsSafe DEF IInv, Seguro
  <1>2. QED
    BY <1>1, SpecPagInv, PTL DEF Spec, PaidShareIsKept

\* A gateway refund is final: what arrives late, repeated or out of order leaves it so.
THEOREM RefundFinal == Spec => RefundIsFinal
  <1>1. IInv /\ DestinoInv /\ PagInv /\ [Next]_vars =>
          [\A c \in Cotas : statusPag[c] = "estornado" /\ origem[c] = "gateway"
                            => statusPag'[c] = "estornado"]_vars
    BY EveryStepIsSafe DEF IInv, Seguro
  <1>2. QED
    BY <1>1, SpecPagInv, PTL DEF Spec, RefundIsFinal
-----------------------------------------------------------------------------
(* The notices *)

InteresseInv ==
    /\ \A p \in Lacos : laco[p] = "marcou" => interesse \in {"marcado", "saiu"} /\ criados = 0
    /\ \A p, q \in Lacos : laco[p] = "marcou" /\ laco[q] = "marcou" => p = q
    /\ criados > 0 => interesse \in {"marcado", "saiu"}
    /\ criados <= 1

TelefoneInv ==
    /\ \A p \in Lacos : laco[p] = "tomou_push" => aviso.push /\ pushes = 0
    /\ \A p, q \in Lacos : laco[p] = "tomou_push" /\ laco[q] = "tomou_push" => p = q
    /\ ~aviso.push => pushes = 0
    /\ pushes <= 1

\* The loops about to send, and whether another may claim the e-mail: the lease is free or
\* ran out, or its holder is about to free it after a failure.
Enviando == {p \in Lacos : laco[p] = "tomou_email"}
Repetivel == /\ ~aviso.enviado
             /\ aviso.lease # "valida" \/ (aviso.token # "nenhum" /\ laco[aviso.token] = "falhou")
PorRepetir == IF Repetivel THEN 1 ELSE 0
EmailInv ==
    /\ aviso.enviado => aviso.token = "nenhum"
    /\ emails + Cardinality(Enviando) + PorRepetir <= 1 + duvidas

NoticesInv == A!TypeOK /\ InteresseInv /\ TelefoneInv /\ EmailInv

-----------------------------------------------------------------------------
(* Types *)

LEMMA AvisosInitTypeOK == A!Init => A!TypeOK
  <1>1. 0 \in 0..MaxTentativas /\ 0 \in 0..MaxQuedas /\ 0 \in 0..MaxTrocas /\ 0 \in Nat
    BY AvisosAssumption
  <1>2. A!Ocioso = "ocioso" /\ A!Nenhum = "nenhum"
    BY DEF A!Ocioso, A!Nenhum
  <1>3. A!Init => aviso \in [push : BOOLEAN, enviado : BOOLEAN, tentativas : 0..MaxTentativas,
              lease : {"livre", "valida", "vencida"}, token : Lacos \cup {A!Nenhum}, espera : BOOLEAN]
    BY <1>1, <1>2 DEF A!Init
  <1>4. A!Init => laco \in [Lacos -> {A!Ocioso, "leu", "marcou", "leu_push",
                             "tomou_push", "leu_email", "tomou_email",
                             "enviou", "falhou"}]
    BY DEF A!Init
  <1>5. A!Init => liberado \in BOOLEAN
    BY DEF A!Init
  <1>9. QED
    BY <1>1, <1>3, <1>4, <1>5 DEF A!Init, A!TypeOK


AvisoTipo == [push : BOOLEAN, enviado : BOOLEAN, tentativas : 0..MaxTentativas,
              lease : {"livre", "valida", "vencida"}, token : Lacos \cup {"nenhum"}, espera : BOOLEAN]
FaseDoLaco == {"ocioso", "leu", "marcou", "leu_push", "tomou_push",
               "leu_email", "tomou_email", "enviou", "falhou"}

\* What a step of a loop does to where the loops are.
Passou(p, f) == /\ laco' \in [Lacos -> FaseDoLaco]
                /\ laco'[p] = f
                /\ \A q \in Lacos \ {p} : laco'[q] = laco[q]

LEMMA LacoSegue ==
  ASSUME A!TypeOK, NEW p \in Lacos, NEW f \in FaseDoLaco, A!Segue(p, f)
  PROVE  Passou(p, f)
  BY DEF A!TypeOK, A!Segue, A!Ocioso, FaseDoLaco, Passou

LEMMA PessoasType ==
  ASSUME A!TypeOK, A!LeBolao \/ A!Assina \/ A!Desassina \/ A!Libera \/ A!TrocaGatilho
  PROVE  A!TypeOK'
  <1>1. CASE A!LeBolao \/ A!Assina \/ A!Desassina \/ A!Libera
    BY <1>1 DEF A!TypeOK, A!LeBolao, A!Assina, A!Desassina, A!Libera, A!avisoVars, A!Ocioso, A!Nenhum
  <1>2. CASE A!TrocaGatilho
    <2>1. trocas' \in 0..MaxTrocas
      BY <1>2, AvisosAssumption DEF A!TypeOK, A!TrocaGatilho
    <2>2. QED
      BY <1>2, <2>1 DEF A!TypeOK, A!TrocaGatilho, A!avisoVars, A!Ocioso, A!Nenhum
  <1>3. QED
    BY <1>1, <1>2

LEMMA AvisoTypes ==
  ASSUME A!TypeOK, NEW p \in Lacos
  PROVE  /\ [aviso EXCEPT !.push = TRUE] \in AvisoTipo
         /\ aviso.tentativas < MaxTentativas =>
               [aviso EXCEPT !.lease = "valida", !.token = p, !.tentativas = @ + 1] \in AvisoTipo
         /\ \A b \in BOOLEAN :
               [aviso EXCEPT !.enviado = b, !.lease = "livre", !.token = "nenhum", !.espera = TRUE] \in AvisoTipo
         /\ [aviso EXCEPT !.lease = "vencida"] \in AvisoTipo
         /\ [aviso EXCEPT !.espera = FALSE] \in AvisoTipo
  <1>1. aviso \in AvisoTipo
    BY DEF A!TypeOK, A!Nenhum, AvisoTipo
  <1>2. aviso.tentativas < MaxTentativas => aviso.tentativas + 1 \in 0..MaxTentativas
    BY <1>1, AvisosAssumption DEF AvisoTipo
  <1>3. QED
    BY <1>1, <1>2 DEF AvisoTipo

\* The types as one formula over the next state.
LEMMA TipoDepois ==
  ASSUME A!TypeOK,
         interesse' \in {"nunca", "assinando", "pendente", "marcado", "saiu"},
         laco' \in [Lacos -> FaseDoLaco], criados' \in Nat, aviso' \in AvisoTipo,
         pushes' \in Nat, emails' \in Nat, duvidas' \in Nat, quedas' \in 0..MaxQuedas,
         liberado' = liberado, trocas' = trocas
  PROVE  A!TypeOK'
  BY DEF A!TypeOK, A!Ocioso, A!Nenhum, FaseDoLaco, AvisoTipo

LEMMA LacosType ==
  ASSUME A!TypeOK, NEW p \in Lacos,
         A!LeInteressados(p) \/ A!LePush(p) \/ A!LeEmail(p) \/ A!Passo(p) \/ A!Cai(p)
  PROVE  A!TypeOK'
  <1> USE TipoDepois, LacoSegue DEF Passou
  <1>0. /\ aviso \in AvisoTipo /\ laco \in [Lacos -> FaseDoLaco] /\ A!Ocioso = "ocioso"
        /\ criados \in Nat /\ pushes \in Nat /\ emails \in Nat /\ duvidas \in Nat /\ quedas \in 0..MaxQuedas
        /\ interesse \in {"nunca", "assinando", "pendente", "marcado", "saiu"}
    BY DEF A!TypeOK, A!Nenhum, A!Ocioso, AvisoTipo, FaseDoLaco
  <1>1. CASE A!LeInteressados(p) \/ A!LePush(p) \/ A!LeEmail(p)
    BY <1>0, <1>1 DEF A!LeInteressados, A!LePush, A!LeEmail, A!Comeca, A!avisoVars, FaseDoLaco
  <1>2. CASE A!Marca(p)
    BY <1>0, <1>2 DEF A!Marca, A!MarcaUma, A!avisoVars, FaseDoLaco
  <1>3. CASE A!Notifica(p)
    BY <1>0, <1>3 DEF A!Notifica, FaseDoLaco
  <1>4. CASE A!TomaPush(p)
    BY <1>0, <1>4, AvisoTypes DEF A!TomaPush, FaseDoLaco
  <1>5. CASE A!EnviaPush(p)
    BY <1>0, <1>5 DEF A!EnviaPush, FaseDoLaco
  <1>6. CASE A!TomaEmail(p)
    BY <1>0, <1>6, AvisoTypes DEF A!TomaEmail, A!Livre, A!Pendente, FaseDoLaco
  <1>7. CASE A!EnviaEmail(p)
    BY <1>0, <1>7 DEF A!EnviaEmail, FaseDoLaco
  <1>8. CASE A!GravaEmail(p)
    BY <1>0, <1>8, AvisoTypes DEF A!GravaEmail, A!Nenhum, FaseDoLaco
  <1>9. CASE A!Cai(p)
    <2>1. quedas' \in 0..MaxQuedas
      BY <1>0, <1>9, AvisosAssumption DEF A!Cai
    <2>2. QED
      BY <1>0, <1>9, <2>1 DEF A!Cai, A!avisoVars, FaseDoLaco
  <1>10. QED
    BY <1>1, <1>2, <1>3, <1>4, <1>5, <1>6, <1>7, <1>8, <1>9 DEF A!Passo

LEMMA RelogioType ==
  ASSUME A!TypeOK, A!VenceLease \/ A!PassaEspera
  PROVE  A!TypeOK'
  <1>1. [aviso EXCEPT !.lease = "vencida"] \in AvisoTipo /\ [aviso EXCEPT !.espera = FALSE] \in AvisoTipo
    <2>1. aviso \in AvisoTipo
      BY DEF A!TypeOK, A!Nenhum, AvisoTipo
    <2>2. QED
      BY <2>1 DEF AvisoTipo
  <1>2. duvidas \in Nat /\ laco \in [Lacos -> FaseDoLaco]
    BY DEF A!TypeOK, A!Ocioso, FaseDoLaco
  <1>3. CASE A!VenceLease
    BY <1>1, <1>2, <1>3, TipoDepois DEF A!VenceLease, A!TypeOK
  <1>4. CASE A!PassaEspera
    BY <1>1, <1>2, <1>4, TipoDepois DEF A!PassaEspera, A!TypeOK
  <1>5. QED
    BY <1>3, <1>4

LEMMA AvisosNextTypeOK == A!TypeOK /\ A!Next => A!TypeOK'
  BY PessoasType, LacosType, RelogioType DEF A!Next

-----------------------------------------------------------------------------
(* Screens *)

LEMMA TelaNextTypeOK ==
  ASSUME TypeOK, TelaTypeOK, TelaAnda
  PROVE  TelaTypeOK'
  <1>0. /\ cartao \in [tela : Dizeres, chegando : Dizeres] /\ SemLista \in [tela : Dizeres, chegando : Dizeres]
        /\ aberta \in Cotas /\ statusPag[aberta] \in StatusPagamento /\ Diz \in Dizeres
    BY DEF TelaTypeOK, TypeOK, Diz, Dizeres, SemLista
  <1>1. CASE Abre
    <2>1. visitas' \in 0..MaxVisitas
      BY <1>1, TelaAssumption DEF Abre, TelaTypeOK
    <2>2. QED
      BY <1>0, <1>1, <2>1 DEF Abre, Sai, TelaTypeOK
  <1>2. CASE Pergunta
    BY <1>0, <1>2 DEF Pergunta, TelaTypeOK
  <1>3. CASE Mostra
    BY <1>0, <1>3 DEF Mostra, TelaTypeOK
  <1>4. CASE Perde
    BY <1>0, <1>4 DEF Perde, TelaTypeOK, Dizeres
  <1>5. CASE Volta \/ Desconecta
    BY <1>0, <1>5 DEF Volta, Desconecta, Sai, TelaTypeOK
  <1>6. CASE PedeLista
    BY <1>0, <1>6 DEF PedeLista, TelaTypeOK
  <1>7. CASE MostraLista
    BY <1>0, <1>7 DEF MostraLista, TelaTypeOK, StatusPagamento, Dizeres
  <1>8. QED
    BY <1>1, <1>2, <1>3, <1>4, <1>5, <1>6, <1>7 DEF TelaAnda

-----------------------------------------------------------------------------
(* One notice of an interest, once to the phone *)

LEMMA InteresseStep ==
  ASSUME A!TypeOK, InteresseInv, A!Next
  PROVE  InteresseInv'
  <1> USE DEF InteresseInv
  <1>0. criados \in Nat /\ laco \in [Lacos -> FaseDoLaco] /\ A!Ocioso = "ocioso"
    BY DEF A!TypeOK, A!Ocioso, FaseDoLaco
  <1>1. CASE A!LeBolao \/ A!Assina \/ A!Desassina \/ A!Libera \/ A!TrocaGatilho
    BY <1>1 DEF A!LeBolao, A!Assina, A!Desassina, A!Libera, A!TrocaGatilho, A!avisoVars
  <1>2. CASE A!VenceLease \/ A!PassaEspera
    BY <1>2 DEF A!VenceLease, A!PassaEspera
  <1>3. ASSUME NEW p \in Lacos, A!Marca(p)
        PROVE  InteresseInv'
    <2>1. CASE interesse = "pendente"
      <3>1. criados = 0 /\ \A q \in Lacos : laco[q] # "marcou"
        BY <1>0, <2>1
      <3>2. Passou(p, "marcou") /\ interesse' = "marcado" /\ criados' = criados
        BY <1>3, <2>1, LacoSegue DEF A!Marca, A!MarcaUma, A!avisoVars, FaseDoLaco
      <3>3. QED
        BY <3>1, <3>2 DEF Passou
    <2>2. CASE interesse # "pendente"
      <3>1. Passou(p, "ocioso") /\ interesse' = interesse /\ criados' = criados
        BY <1>0, <1>3, <2>2, LacoSegue DEF A!Marca, A!MarcaUma, A!avisoVars, FaseDoLaco
      <3>2. QED
        BY <3>1 DEF Passou
    <2>3. QED
      BY <2>1, <2>2
  <1>4. ASSUME NEW p \in Lacos, A!Notifica(p)
        PROVE  InteresseInv'
    <2>1. Passou(p, "ocioso") /\ interesse' = interesse /\ criados' = criados + 1 /\ laco[p] = "marcou"
      BY <1>0, <1>4, LacoSegue DEF A!Notifica, FaseDoLaco
    <2>2. QED
      BY <1>0, <2>1 DEF Passou
  <1>5. ASSUME NEW p \in Lacos,
               \/ A!LeInteressados(p) \/ A!LePush(p) \/ A!LeEmail(p) \/ A!Cai(p)
               \/ A!TomaPush(p) \/ A!EnviaPush(p) \/ A!TomaEmail(p) \/ A!EnviaEmail(p) \/ A!GravaEmail(p)
        PROVE  InteresseInv'
    <2>1. /\ interesse' = interesse /\ criados' = criados
          /\ \E f \in FaseDoLaco \ {"marcou"} : A!Segue(p, f)
      BY <1>5, <1>0 DEF A!LeInteressados, A!LePush, A!LeEmail, A!Cai, A!TomaPush, A!EnviaPush, A!TomaEmail,
        A!EnviaEmail, A!GravaEmail, A!Comeca, A!avisoVars, FaseDoLaco
    <2>2. PICK f \in FaseDoLaco \ {"marcou"} : Passou(p, f)
      BY <2>1, LacoSegue
    <2>3. QED
      BY <2>1, <2>2 DEF Passou
  <1>6. QED
    BY <1>1, <1>2, <1>3, <1>4, <1>5 DEF A!Next, A!Passo

LEMMA TelefoneStep ==
  ASSUME A!TypeOK, TelefoneInv, A!Next
  PROVE  TelefoneInv'
  <1> USE DEF TelefoneInv
  <1>0. /\ pushes \in Nat /\ laco \in [Lacos -> FaseDoLaco] /\ A!Ocioso = "ocioso" /\ A!Nenhum = "nenhum"
        /\ aviso \in AvisoTipo
    BY DEF A!TypeOK, A!Ocioso, A!Nenhum, FaseDoLaco, AvisoTipo
  <1>1. CASE A!LeBolao \/ A!Assina \/ A!Desassina \/ A!Libera \/ A!TrocaGatilho
    BY <1>1 DEF A!LeBolao, A!Assina, A!Desassina, A!Libera, A!TrocaGatilho, A!avisoVars
  <1>2. CASE A!VenceLease \/ A!PassaEspera
    BY <1>0, <1>2 DEF A!VenceLease, A!PassaEspera, AvisoTipo
  <1>3. ASSUME NEW p \in Lacos, A!TomaPush(p)
        PROVE  TelefoneInv'
    <2>1. CASE A!Tomavel
      <3>1. pushes = 0 /\ \A q \in Lacos : laco[q] # "tomou_push"
        BY <1>0, <2>1 DEF A!Tomavel
      <3>2. Passou(p, "tomou_push") /\ aviso'.push /\ pushes' = pushes
        BY <1>0, <1>3, <2>1, LacoSegue DEF A!TomaPush, FaseDoLaco, AvisoTipo
      <3>3. QED
        BY <3>1, <3>2 DEF Passou
    <2>2. CASE ~A!Tomavel
      <3>1. Passou(p, "ocioso") /\ aviso' = aviso /\ pushes' = pushes
        BY <1>0, <1>3, <2>2, LacoSegue DEF A!TomaPush, FaseDoLaco
      <3>2. QED
        BY <3>1 DEF Passou
    <2>3. QED
      BY <2>1, <2>2
  <1>4. ASSUME NEW p \in Lacos, A!EnviaPush(p)
        PROVE  TelefoneInv'
    <2>1. Passou(p, "ocioso") /\ aviso' = aviso /\ pushes' \in {pushes, pushes + 1} /\ laco[p] = "tomou_push"
      BY <1>0, <1>4, LacoSegue DEF A!EnviaPush, FaseDoLaco
    <2>2. QED
      BY <1>0, <2>1 DEF Passou
  <1>5. ASSUME NEW p \in Lacos,
               \/ A!LeInteressados(p) \/ A!LePush(p) \/ A!LeEmail(p) \/ A!Cai(p) \/ A!Marca(p) \/ A!Notifica(p)
               \/ A!TomaEmail(p) \/ A!EnviaEmail(p) \/ A!GravaEmail(p)
        PROVE  TelefoneInv'
    <2>1. pushes' = pushes /\ \E f \in FaseDoLaco \ {"tomou_push"} : A!Segue(p, f)
      BY <1>5, <1>0 DEF A!LeInteressados, A!LePush, A!LeEmail, A!Cai, A!Marca, A!MarcaUma, A!Notifica, A!TomaEmail,
        A!EnviaEmail, A!GravaEmail, A!Comeca, A!avisoVars, FaseDoLaco
    <2>2. PICK f \in FaseDoLaco \ {"tomou_push"} : Passou(p, f)
      BY <2>1, LacoSegue
    <2>3. aviso'.push = aviso.push
      <3>1. CASE A!TomaEmail(p) \/ A!GravaEmail(p)
        BY <1>0, <3>1 DEF A!TomaEmail, A!GravaEmail, AvisoTipo
      <3>2. CASE ~(A!TomaEmail(p) \/ A!GravaEmail(p))
        BY <1>5, <3>2 DEF A!LeInteressados, A!LePush, A!LeEmail, A!Cai, A!Marca, A!Notifica, A!EnviaEmail, A!avisoVars
      <3>3. QED
        BY <3>1, <3>2
    <2>4. QED
      BY <2>1, <2>2, <2>3 DEF Passou
  <1>6. QED
    BY <1>1, <1>2, <1>3, <1>4, <1>5 DEF A!Next, A!Passo

-----------------------------------------------------------------------------
(* E-mails *)

\* How many are about to send, when a loop moves.
LEMMA QuantosEnviam ==
  ASSUME A!TypeOK, NEW p \in Lacos, NEW f \in FaseDoLaco, Passou(p, f)
  PROVE  /\ Cardinality(Enviando) \in Nat /\ Cardinality(Enviando)' \in Nat
         /\ laco[p] # "tomou_email" /\ f = "tomou_email"
                => Cardinality(Enviando)' = Cardinality(Enviando) + 1
         /\ laco[p] = "tomou_email" /\ f # "tomou_email"
                => Cardinality(Enviando)' = Cardinality(Enviando) - 1
         /\ (laco[p] = "tomou_email") = (f = "tomou_email")
                => Cardinality(Enviando)' = Cardinality(Enviando)
  <1>1. Enviando \subseteq Lacos /\ Enviando' \subseteq Lacos /\ IsFiniteSet(Lacos)
    BY AvisosAssumption DEF Enviando
  <1>2. IsFiniteSet(Enviando) /\ IsFiniteSet(Enviando')
    BY <1>1, FS_Subset
  <1>3. Cardinality(Enviando) \in Nat /\ Cardinality(Enviando') \in Nat
    BY <1>2, FS_CardinalityType
  <1>4. ASSUME laco[p] # "tomou_email", f = "tomou_email"
        PROVE  Cardinality(Enviando') = Cardinality(Enviando) + 1
    <2>1. Enviando' = Enviando \cup {p} /\ p \notin Enviando
      BY <1>4 DEF Enviando, Passou
    <2>2. QED
      BY <1>2, <2>1, FS_AddElement
  <1>5. ASSUME laco[p] = "tomou_email", f # "tomou_email"
        PROVE  Cardinality(Enviando') = Cardinality(Enviando) - 1
    <2>1. Enviando' = Enviando \ {p} /\ p \in Enviando
      BY <1>5 DEF Enviando, Passou
    <2>2. QED
      BY <1>2, <2>1, FS_RemoveElement
  <1>6. ASSUME (laco[p] = "tomou_email") = (f = "tomou_email")
        PROVE  Cardinality(Enviando') = Cardinality(Enviando)
    <2>1. Enviando' = Enviando
      BY <1>6 DEF Enviando, Passou
    <2>2. QED
      BY <2>1
  <1>7. QED
    BY <1>3, <1>4, <1>5, <1>6

\* No step may send or allow to send more than it took from the others, or from a doubt.
LEMMA EmailFica ==
  ASSUME NEW d \in {0, 1}, NEW m \in {0, 1}, A!TypeOK, EmailInv, emails' = emails + m, duvidas' = duvidas + d,
         Cardinality(Enviando) \in Nat, Cardinality(Enviando)' \in Nat,
         m + Cardinality(Enviando)' + PorRepetir' <= Cardinality(Enviando) + PorRepetir + d,
         aviso'.enviado => aviso'.token = "nenhum"
  PROVE  EmailInv'
  <1>1. emails \in Nat /\ duvidas \in Nat /\ PorRepetir \in {0, 1} /\ PorRepetir' \in {0, 1}
    BY DEF A!TypeOK, PorRepetir
  <1>2. PICK a \in Nat, b \in Nat, r \in {0, 1}, s \in {0, 1} :
              a = Cardinality(Enviando) /\ b = Cardinality(Enviando)' /\ r = PorRepetir /\ s = PorRepetir'
    BY <1>1
  <1>3. emails + a + r <= 1 + duvidas /\ m + b + s <= a + r + d
    BY <1>2 DEF EmailInv
  <1>4. emails + m + b + s <= 1 + (duvidas + d)
    BY <1>1, <1>2, <1>3
  <1>5. (emails + Cardinality(Enviando) + PorRepetir <= 1 + duvidas)'
    BY <1>1, <1>2, <1>4
  <1>6. QED
    BY <1>5 DEF EmailInv

LEMMA EmailPara ==
  ASSUME A!TypeOK, EmailInv, NEW p \in Lacos, NEW f \in FaseDoLaco \ {"tomou_email", "falhou"}, Passou(p, f),
         emails' = emails, duvidas' = duvidas,
         aviso'.enviado = aviso.enviado, aviso'.lease = aviso.lease, aviso'.token = aviso.token
  PROVE  EmailInv'
  <1>1. Repetivel' => Repetivel
    <2> SUFFICES ASSUME Repetivel' PROVE Repetivel
      OBVIOUS
    <2>1. CASE aviso.lease # "valida"
      BY <2>1 DEF Repetivel
    <2>2. CASE aviso.token # "nenhum" /\ laco'[aviso.token] = "falhou"
      <3>1. aviso.token \in Lacos
        BY <2>2 DEF A!TypeOK, A!Nenhum
      <3>2. laco[aviso.token] = "falhou"
        BY <2>2, <3>1 DEF Passou
      <3>3. QED
        BY <2>2, <3>2 DEF Repetivel
    <2>3. QED
      BY <2>1, <2>2 DEF Repetivel
  <1>2. PorRepetir \in {0, 1} /\ PorRepetir' \in {0, 1} /\ PorRepetir' <= PorRepetir
    BY <1>1 DEF PorRepetir
  <1>3. Cardinality(Enviando)' <= Cardinality(Enviando)
    BY QuantosEnviam
  <1>4. 0 + Cardinality(Enviando)' + PorRepetir' <= Cardinality(Enviando) + PorRepetir + 0
    BY <1>2, <1>3, QuantosEnviam
  <1>5. emails' = emails + 0 /\ duvidas' = duvidas + 0
    BY DEF A!TypeOK
  <1>6. aviso'.enviado => aviso'.token = "nenhum"
    BY DEF EmailInv
  <1>7. QED
    BY <1>4, <1>5, <1>6, QuantosEnviam, EmailFica

LEMMA TomaStep ==
  ASSUME A!TypeOK, EmailInv, NEW p \in Lacos, A!TomaEmail(p)
  PROVE  EmailInv'
  <1>0. aviso \in AvisoTipo /\ A!Ocioso = "ocioso"
    BY DEF A!TypeOK, A!Nenhum, A!Ocioso, AvisoTipo
  <1>1. CASE A!Livre
    <2>1. Passou(p, "tomou_email") /\ laco[p] = "leu_email" /\ emails' = emails /\ duvidas' = duvidas
      BY <1>1, LacoSegue DEF A!TomaEmail, FaseDoLaco
    <2>2. aviso'.enviado = aviso.enviado /\ aviso'.lease = "valida" /\ aviso'.token = p /\ ~aviso.enviado
      BY <1>0, <1>1 DEF A!TomaEmail, A!Livre, A!Pendente, AvisoTipo
    <2>3. PorRepetir = 1
      BY <1>1, <2>2 DEF A!Livre, PorRepetir, Repetivel
    <2>4. PorRepetir' = 0
      BY <2>1, <2>2 DEF PorRepetir, Repetivel, Passou
    <2>5. Cardinality(Enviando)' = Cardinality(Enviando) + 1
      BY <2>1, QuantosEnviam DEF FaseDoLaco
    <2>6. Cardinality(Enviando) \in Nat /\ Cardinality(Enviando)' \in Nat
      BY <2>1, QuantosEnviam DEF FaseDoLaco
    <2>7. 0 + Cardinality(Enviando)' + PorRepetir' <= Cardinality(Enviando) + PorRepetir + 0
      BY <2>3, <2>4, <2>5, <2>6
    <2>8. emails' = emails + 0 /\ duvidas' = duvidas + 0
      BY <2>1 DEF A!TypeOK
    <2>9. QED
      BY <2>2, <2>6, <2>7, <2>8, EmailFica
  <1>2. CASE ~A!Livre
    <2>1. Passou(p, "ocioso") /\ emails' = emails /\ duvidas' = duvidas /\ aviso' = aviso
      BY <1>0, <1>2, LacoSegue DEF A!TomaEmail, FaseDoLaco
    <2>2. QED
      BY <2>1, EmailPara DEF FaseDoLaco
  <1>3. QED
    BY <1>1, <1>2

LEMMA EnviaStep ==
  ASSUME A!TypeOK, EmailInv, NEW p \in Lacos, A!EnviaEmail(p)
  PROVE  EmailInv'
  <1>1. PICK f \in {"enviou", "falhou"}, m \in {0, 1}, d \in {0, 1} :
              /\ A!Segue(p, f) /\ emails' = emails + m /\ duvidas' = duvidas + d
              /\ f = "enviou" => m = 1 /\ d = 0
              /\ f = "falhou" => m = d
    <2>1. CASE emails' = emails + 1 /\ A!Segue(p, "enviou") /\ UNCHANGED duvidas
      BY <2>1 DEF A!TypeOK
    <2>2. CASE A!Segue(p, "falhou") /\ UNCHANGED <<emails, duvidas>>
      BY <2>2 DEF A!TypeOK
    <2>3. CASE emails' = emails + 1 /\ duvidas' = duvidas + 1 /\ A!Segue(p, "falhou")
      BY <2>3 DEF A!TypeOK
    <2>4. QED
      BY <2>1, <2>2, <2>3 DEF A!EnviaEmail
  <1>2. Passou(p, f) /\ laco[p] = "tomou_email" /\ aviso' = aviso
    BY <1>1, LacoSegue DEF A!EnviaEmail, FaseDoLaco
  <1>3. Cardinality(Enviando)' = Cardinality(Enviando) - 1
    BY <1>1, <1>2, QuantosEnviam DEF FaseDoLaco
  <1>4. Cardinality(Enviando) \in Nat /\ Cardinality(Enviando)' \in Nat
    BY <1>1, <1>2, QuantosEnviam DEF FaseDoLaco
  <1>5. f = "enviou" => PorRepetir' <= PorRepetir
    <2> SUFFICES ASSUME f = "enviou", Repetivel' PROVE Repetivel
      BY DEF PorRepetir
    <2>1. aviso.token # "nenhum" => aviso.token \in Lacos
      BY DEF A!TypeOK, A!Nenhum
    <2>2. QED
      BY <1>2, <2>1 DEF Repetivel, Passou
  <1>6. PorRepetir \in {0, 1} /\ PorRepetir' \in {0, 1}
    BY DEF PorRepetir
  <1>7. m + Cardinality(Enviando)' + PorRepetir' <= Cardinality(Enviando) + PorRepetir + d
    <2>1. CASE f = "enviou"
      BY <1>1, <1>3, <1>4, <1>5, <1>6, <2>1
    <2>2. CASE f = "falhou"
      BY <1>1, <1>3, <1>4, <1>6, <2>2
    <2>3. QED
      BY <2>1, <2>2
  <1>8. aviso'.enviado => aviso'.token = "nenhum"
    BY <1>2 DEF EmailInv
  <1>9. QED
    BY <1>1, <1>4, <1>7, <1>8, EmailFica

LEMMA GravaStep ==
  ASSUME A!TypeOK, EmailInv, NEW p \in Lacos, A!GravaEmail(p)
  PROVE  EmailInv'
  <1>0. aviso \in AvisoTipo /\ A!Ocioso = "ocioso" /\ A!Nenhum = "nenhum"
    BY DEF A!TypeOK, A!Nenhum, A!Ocioso, AvisoTipo
  <1>1. Passou(p, "ocioso") /\ laco[p] \in {"enviou", "falhou"} /\ emails' = emails /\ duvidas' = duvidas
    BY <1>0, LacoSegue DEF A!GravaEmail, FaseDoLaco
  <1>2. CASE aviso.token # p
    BY <1>1, <1>2, EmailPara DEF A!GravaEmail, FaseDoLaco
  <1>3. CASE aviso.token = p
    <2>1. ~aviso.enviado
      BY <1>3, AvisosAssumption DEF EmailInv
    <2>2. /\ aviso'.enviado = (laco[p] = "enviou") /\ aviso'.lease = "livre" /\ aviso'.token = "nenhum"
      BY <1>0, <1>3 DEF A!GravaEmail, AvisoTipo
    <2>3. Repetivel' => Repetivel
      <3> SUFFICES ASSUME Repetivel' PROVE Repetivel
        OBVIOUS
      <3>1. laco[p] = "falhou"
        BY <1>1, <2>2 DEF Repetivel
      <3>2. p # "nenhum"
        BY AvisosAssumption
      <3>3. QED
        BY <1>3, <2>1, <3>1, <3>2 DEF Repetivel
    <2>4. PorRepetir \in {0, 1} /\ PorRepetir' \in {0, 1} /\ PorRepetir' <= PorRepetir
      BY <2>3 DEF PorRepetir
    <2>5. Cardinality(Enviando)' = Cardinality(Enviando) /\ Cardinality(Enviando) \in Nat /\ Cardinality(Enviando)' \in Nat
      BY <1>1, QuantosEnviam DEF FaseDoLaco
    <2>6. 0 + Cardinality(Enviando)' + PorRepetir' <= Cardinality(Enviando) + PorRepetir + 0
      BY <2>4, <2>5
    <2>7. emails' = emails + 0 /\ duvidas' = duvidas + 0
      BY <1>1 DEF A!TypeOK
    <2>8. QED
      BY <2>2, <2>5, <2>6, <2>7, EmailFica
  <1>4. QED
    BY <1>2, <1>3

LEMMA VenceStep ==
  ASSUME A!TypeOK, EmailInv, A!VenceLease
  PROVE  EmailInv'
  <1>1. aviso \in AvisoTipo
    BY DEF A!TypeOK, A!Nenhum, AvisoTipo
  <1>2. aviso'.enviado = aviso.enviado /\ aviso'.token = aviso.token /\ laco' = laco
    BY <1>1 DEF A!VenceLease, AvisoTipo
  <1>3. Enviando' = Enviando
    BY <1>2 DEF Enviando
  <1>4. Cardinality(Enviando) \in Nat
    <2>1. IsFiniteSet(Enviando)
      BY AvisosAssumption, FS_Subset DEF Enviando
    <2>2. QED
      BY <2>1, FS_CardinalityType
  <1>5. PorRepetir \in {0, 1} /\ PorRepetir' \in {0, 1}
    BY DEF PorRepetir
  <1>6. Cardinality(Enviando)' = Cardinality(Enviando) /\ Cardinality(Enviando)' \in Nat
    BY <1>3, <1>4
  <1>7. 0 + Cardinality(Enviando)' + PorRepetir' <= Cardinality(Enviando) + PorRepetir + 1
    BY <1>4, <1>5, <1>6
  <1>8. emails' = emails + 0 /\ duvidas' = duvidas + 1
    BY DEF A!VenceLease, A!TypeOK
  <1>9. aviso'.enviado => aviso'.token = "nenhum"
    BY <1>2 DEF EmailInv
  <1>10. QED
    BY <1>4, <1>6, <1>7, <1>8, <1>9, EmailFica

LEMMA EmailStep ==
  ASSUME A!TypeOK, EmailInv, A!Next
  PROVE  EmailInv'
  <1>0. aviso \in AvisoTipo /\ A!Ocioso = "ocioso" /\ A!Nenhum = "nenhum" /\ laco \in [Lacos -> FaseDoLaco]
    BY DEF A!TypeOK, A!Nenhum, A!Ocioso, AvisoTipo, FaseDoLaco
  <1>1. CASE A!LeBolao \/ A!Assina \/ A!Desassina \/ A!Libera \/ A!TrocaGatilho
    <2>1. UNCHANGED <<laco, aviso, emails, duvidas>>
      BY <1>1 DEF A!LeBolao, A!Assina, A!Desassina, A!Libera, A!TrocaGatilho, A!avisoVars
    <2>2. QED
      BY <2>1 DEF EmailInv, Enviando, PorRepetir, Repetivel
  <1>2. CASE A!PassaEspera
    <2>1. /\ UNCHANGED <<laco, emails, duvidas>>
          /\ aviso'.enviado = aviso.enviado /\ aviso'.token = aviso.token /\ aviso'.lease = aviso.lease
      BY <1>0, <1>2 DEF A!PassaEspera, AvisoTipo
    <2>2. QED
      BY <2>1 DEF EmailInv, Enviando, PorRepetir, Repetivel
  <1>3. ASSUME NEW p \in Lacos,
               \/ A!LeInteressados(p) \/ A!LePush(p) \/ A!LeEmail(p) \/ A!Cai(p) \/ A!Marca(p) \/ A!Notifica(p)
               \/ A!TomaPush(p) \/ A!EnviaPush(p)
        PROVE  EmailInv'
    <2>1. emails' = emails /\ duvidas' = duvidas /\ \E f \in FaseDoLaco \ {"tomou_email", "falhou"} : A!Segue(p, f)
      BY <1>3, <1>0 DEF A!LeInteressados, A!LePush, A!LeEmail, A!Cai, A!Marca, A!MarcaUma, A!Notifica, A!TomaPush,
        A!EnviaPush, A!Comeca, A!avisoVars, FaseDoLaco
    <2>2. PICK f \in FaseDoLaco \ {"tomou_email", "falhou"} : Passou(p, f)
      BY <2>1, LacoSegue
    <2>3. aviso'.enviado = aviso.enviado /\ aviso'.token = aviso.token /\ aviso'.lease = aviso.lease
      <3>1. CASE A!TomaPush(p)
        BY <1>0, <3>1 DEF A!TomaPush, AvisoTipo
      <3>2. CASE ~A!TomaPush(p)
        BY <1>3, <3>2 DEF A!LeInteressados, A!LePush, A!LeEmail, A!Cai, A!Marca, A!Notifica, A!EnviaPush, A!avisoVars
      <3>3. QED
        BY <3>1, <3>2
    <2>4. QED
      BY <2>1, <2>2, <2>3, EmailPara
  <1>4. QED
    BY <1>1, <1>2, <1>3, TomaStep, EnviaStep, GravaStep, VenceStep DEF A!Next, A!Passo

-----------------------------------------------------------------------------
(* The behaviours of Vidas *)

LEMMA NoticesStart == A!Init => NoticesInv
  <1> SUFFICES ASSUME A!Init PROVE NoticesInv
    OBVIOUS
  <1>1. InteresseInv /\ TelefoneInv
    BY DEF A!Init, A!Ocioso, InteresseInv, TelefoneInv
  <1>2. Enviando = {}
    BY DEF A!Init, A!Ocioso, Enviando
  <1>3. Cardinality(Enviando) = 0 /\ PorRepetir \in {0, 1} /\ emails = 0 /\ duvidas = 0 /\ ~aviso.enviado
    BY <1>2, FS_EmptySet DEF A!Init, PorRepetir
  <1>4. EmailInv
    BY <1>3 DEF EmailInv
  <1>5. QED
    BY <1>1, <1>4, AvisosInitTypeOK DEF NoticesInv

LEMMA NoticesNext == NoticesInv /\ [A!Next]_A!vars => NoticesInv'
  <1> SUFFICES ASSUME NoticesInv, [A!Next]_A!vars PROVE NoticesInv'
    OBVIOUS
  <1>1. CASE A!Next
    BY <1>1, AvisosNextTypeOK, InteresseStep, TelefoneStep, EmailStep DEF NoticesInv
  <1>2. CASE UNCHANGED A!vars
    BY <1>2 DEF A!vars, NoticesInv, A!TypeOK, InteresseInv, TelefoneInv, EmailInv, Enviando, PorRepetir, Repetivel
  <1>3. QED
    BY <1>1, <1>2

\* Whatever is followed, the sale is that of VendaCotas: it reads nothing of the screens and of
\* the notices, so that all its theorems hold here (reserve, confirmPayment, the jobs).
THEOREM SaleIsTheSale == VidasSpec => Spec
  <1>1. VidasInit => Init
    BY DEF VidasInit
  <1>2. [VidasNext]_<<foco, tudo, avisosVars>> => [Next]_vars
    <2>1. Venda => Next
      BY DEF Venda, Next, Online
    <2>2. Compradora \/ Interessado => UNCHANGED vars
      BY DEF Compradora, Interessado
    <2>3. UNCHANGED <<foco, tudo, avisosVars>> => UNCHANGED vars
      BY DEF tudo
    <2>4. QED
      BY <2>1, <2>2, <2>3 DEF VidasNext
  <1>3. QED
    BY <1>1, <1>2, PTL DEF VidasSpec, Spec

\* The notices move by the steps of Avisos and no other.
LEMMA NoticesAreNotices == VidasSpec => A!Spec
  <1>1. VidasInit => A!Init
    BY DEF VidasInit
  <1>2. [VidasNext]_<<foco, tudo, avisosVars>> => [A!Next]_A!vars
    <2>1. Venda \/ Compradora => UNCHANGED A!vars
      BY DEF Venda, Compradora, avisosVars, A!vars
    <2>2. Interessado => A!Next
      BY DEF Interessado
    <2>3. UNCHANGED <<foco, tudo, avisosVars>> => UNCHANGED A!vars
      BY DEF avisosVars, A!vars
    <2>4. QED
      BY <2>1, <2>2, <2>3 DEF VidasNext
  <1>3. QED
    BY <1>1, <1>2, PTL DEF VidasSpec, A!Spec

\* However many loops read it, crash or overlap, an interest makes one notice, a notice goes to the
\* phone at most once, and its e-mail is repeated only after a lease that ran out or a delivery
\* nobody confirmed (notifyPoolReleased, dispatchPushes, dispatchPending).
THEOREM NoticesGoOnce == VidasSpec => []NoticedOnce
  <1>1. NoticesInv => NoticedOnce
    <2> SUFFICES ASSUME NoticesInv PROVE NoticedOnce
      OBVIOUS
    <2>1. Cardinality(Enviando) \in Nat
      <3>1. IsFiniteSet(Enviando)
        BY AvisosAssumption, FS_Subset DEF Enviando
      <3>2. QED
        BY <3>1, FS_CardinalityType
    <2>2. PorRepetir \in {0, 1} /\ emails \in Nat /\ duvidas \in Nat
      BY DEF PorRepetir, NoticesInv, A!TypeOK
    <2>3. emails <= 1 + duvidas
      BY <2>1, <2>2 DEF NoticesInv, EmailInv
    <2>4. QED
      BY <2>3 DEF NoticesInv, InteresseInv, TelefoneInv, NoticedOnce, A!NoticedOnce
  <1>2. QED
    BY <1>1, NoticesStart, NoticesNext, NoticesAreNotices, PTL DEF A!Spec

\* Every variable keeps its type: the sale, the pages with their polls, the notices.
THEOREM VidasTypeCorrect == VidasSpec => []VidasTypeOK
  <1>1. VidasInit => VidasTypeOK
    <2>1. TelaInit => TelaTypeOK
      <3>1. SemLista \in [tela : Dizeres, chegando : Dizeres] /\ 0 \in 0..MaxVisitas
        BY TelaAssumption DEF SemLista, Dizeres
      <3>2. QED
        BY <3>1 DEF TelaInit, TelaTypeOK
    <2>2. QED
      BY <2>1, InitTypeOK, AvisosInitTypeOK DEF VidasInit, VidasTypeOK
  <1>2. VidasTypeOK /\ [VidasNext]_<<foco, tudo, avisosVars>> => VidasTypeOK'
    <2> SUFFICES ASSUME VidasTypeOK, [VidasNext]_<<foco, tudo, avisosVars>> PROVE VidasTypeOK'
      OBVIOUS
    <2>1. [Next]_vars
      BY DEF VidasNext, Venda, Compradora, Interessado, Next, Online, tudo
    <2>2. TypeOK'
      BY <2>1, TypeStep DEF VidasTypeOK
    <2>3. A!Next \/ UNCHANGED A!vars
      BY DEF VidasNext, Venda, Compradora, Interessado, tudo, avisosVars, A!vars
    <2>4. A!TypeOK'
      BY <2>3, AvisosNextTypeOK DEF VidasTypeOK, A!TypeOK, A!vars
    <2>5. TelaAnda \/ UNCHANGED telaVars
      BY DEF VidasNext, Venda, Compradora, Interessado, tudo
    <2>6. TelaTypeOK'
      BY <2>5, TelaNextTypeOK DEF VidasTypeOK, TelaTypeOK, telaVars
    <2>7. QED
      BY <2>2, <2>4, <2>6 DEF VidasTypeOK
  <1>3. QED
    BY <1>1, <1>2, PTL DEF VidasSpec
-----------------------------------------------------------------------------
(* Commissions *)

ComissaoDe(c) ==
    /\ comissao[c] # "nenhuma" => c \in ComAfiliado /\ statusCota[c] \notin {"livre", "reservada"}
    /\ statusCota[c] \in Liquidadas /\ c \in ComAfiliado => comissao[c] # "nenhuma"
    /\ comissao[c] = "pendente" => statusCota[c] \in Liquidadas
ComissaoVista == \A c \in worker.vistas \cap ComAfiliado : comissao[c] # "nenhuma"
ComissaoInv == (\A c \in Cotas : ComissaoDe(c)) /\ ComissaoVista

\* A step that keeps the commission of each share in accordance with it, and takes none away.
Acerta == \A d \in Cotas : ComissaoDe(d)' /\ (comissao[d] # "nenhuma" => comissao'[d] # "nenhuma")

LEMMA SemAcerto ==
  ASSUME ComissaoInv, UNCHANGED <<statusCota, comissao>>
  PROVE  Acerta
  BY DEF Acerta, ComissaoInv, ComissaoDe

LEMMA SettleTxAcerta ==
  ASSUME TypeOK, ComissaoInv, NEW c \in Cotas, SettleTx(c)
  PROVE  Acerta
  <1> SUFFICES ASSUME NEW d \in Cotas
               PROVE  ComissaoDe(d)' /\ (comissao[d] # "nenhuma" => comissao'[d] # "nenhuma")
    BY DEF Acerta
  <1>0. ComissaoDe(d)
    BY DEF ComissaoInv
  <1>1. CASE d # c
    BY <1>0, <1>1 DEF SettleTx, ComissaoDe, TypeOK
  <1>2. CASE d = c
    <2>1. /\ statusCota'[c] = IF Efetiva(c) \/ Reativa(c) THEN "paga" ELSE statusCota[c]
          /\ comissao'[c] = IF (Efetiva(c) \/ Reativa(c) \/ statusCota[c] \in Liquidadas)
                                  /\ c \in ComAfiliado /\ comissao[c] = "nenhuma"
                            THEN "pendente" ELSE comissao[c]
      BY DEF SettleTx, TypeOK
    <2>2. QED
      BY <1>0, <1>2, <2>1 DEF ComissaoDe, Liquidadas, Efetiva, Reativa
  <1>3. QED
    BY <1>1, <1>2

LEMMA ConfirmAcerta ==
  ASSUME TypeOK, ComissaoInv, NEW c \in Cotas, NEW v, ConfirmPayment(c, v)
  PROVE  Acerta
  BY SettleTxAcerta, SemAcerto DEF ConfirmPayment, cotaVars

LEMMA ReleaseAcerta ==
  ASSUME TypeOK, ComissaoInv, RowInv, NEW c \in Cotas, NEW novo \in {"falhou", "estornado"}, ReleasePayment(c, novo)
  PROVE  Acerta
  <1>1. CASE Ignora(c, novo)
    BY <1>1, SemAcerto DEF ReleasePayment, cotaVars
  <1>2. CASE ~Ignora(c, novo)
    BY <1>2 DEF ReleasePayment, CotaLiberada, ComissaoCancelada, Acerta, ComissaoInv, ComissaoDe, Liquidadas, TypeOK
  <1>3. QED
    BY <1>1, <1>2

LEMMA AplicaAcerta ==
  ASSUME TypeOK, ComissaoInv, RowInv, NEW c \in Cotas, NEW v, AplicaStatus(c, v)
  PROVE  Acerta
  BY ConfirmAcerta, ReleaseAcerta, SemAcerto DEF AplicaStatus, cotaVars

LEMMA AcertaMantem ==
  ASSUME ComissaoInv, Acerta, TypeOK, worker' = worker \/ worker'.vistas = {}
  PROVE  ComissaoInv'
  BY DEF ComissaoInv, ComissaoVista, Acerta, TypeOK

LEMMA OnlineAcerta ==
  ASSUME TypeOK, ComissaoInv, RowInv, Online
  PROVE  Acerta /\ worker' = worker
  <1>1. ASSUME NEW c \in Cotas, Reserve(c) \/ ExpireReservation(c)
        PROVE  Acerta /\ worker' = worker
    BY <1>1 DEF Reserve, NovaCota, ExpireReservation, Expirada, ComissaoInv, ComissaoDe, Acerta, Liquidadas, TypeOK, procVars
  <1>2. ASSUME NEW c \in Cotas,
               \/ CobrancaAbre(c) \/ CobrancaGrava(c) \/ CobrancaNoProvedor(c) \/ CobrancaEstende(c)
               \/ CobrancaErro(c) \/ ClientePaga(c) \/ ProvedorEncerra(c) \/ AvisoChega(c) \/ Vence(c)
        PROVE  Acerta /\ worker' = worker
    BY <1>2, SemAcerto DEF CobrancaAbre, CobrancaGrava, CobrancaNoProvedor, CobrancaEstende, CobrancaErro, ClientePaga,
      ProvedorEncerra, AvisoChega, Vence, cotaVars, procVars
  <1>3. ASSUME NEW c \in Cotas, CobrancaConfirma(c)
        PROVE  Acerta /\ worker' = worker
    BY <1>3, ConfirmAcerta DEF CobrancaConfirma
  <1>4. ASSUME NEW a \in avisos, AvisoAplica(a)
        PROVE  Acerta /\ worker' = worker
    <2>1. a.cota \in Cotas
      BY DEF TypeOK, Aviso
    <2>2. /\ AplicaStatus(a.cota, a.visto) \/ UNCHANGED <<bolaoVars, cotaVars, pagVars, comissao>>
          /\ worker' = worker
      BY <1>4, Zenon DEF AvisoAplica
    <2>3. QED
      BY <2>1, <2>2, AplicaAcerta, SemAcerto DEF cotaVars
  <1>5. CASE ConciliaAplica
    <2>1. conciliacao.atual.cota \in Cotas
      BY <1>5 DEF TypeOK, ConciliaAplica, SemConsulta, Consultada
    <2>2. QED
      BY <1>5, <2>1, AplicaAcerta, ReleaseAcerta DEF ConciliaAplica
  <1>6. CASE ConciliaLe \/ ConciliaConsulta \/ ConciliaErro \/ AvancaConcurso \/ QuedaApi
    BY <1>6, SemAcerto
    DEF ConciliaLe, ConciliaConsulta, ConciliaErro, AvancaConcurso, QuedaApi, cotaVars, procVars
  <1>7. QED
    BY <1>1, <1>2, <1>3, <1>4, <1>5, <1>6 DEF Online, PedidoSegue, Concilia

LEMMA BalcaoAcerta ==
  ASSUME TypeOK, ComissaoInv, RowInv, Balcao
  PROVE  Acerta /\ worker' = worker
  <1>1. ASSUME NEW c \in Cotas, ManualSale(c)
        PROVE  Acerta /\ worker' = worker
    BY <1>1 DEF ManualSale, NovaCota, ComissaoInv, ComissaoDe, Acerta, Liquidadas, TypeOK, procVars
  <1>2. ASSUME NEW c \in Cotas, MarkPaidLe(c) \/ CancelShareLe(c)
        PROVE  Acerta /\ worker' = worker
    BY <1>2, SemAcerto DEF MarkPaidLe, CancelShareLe, cotaVars
  <1>3. ASSUME NEW c \in Cotas, PayCommission(c)
        PROVE  Acerta /\ worker' = worker
    BY <1>3 DEF PayCommission, cotaVars, procVars, Acerta, ComissaoInv, ComissaoDe, TypeOK
  <1>4. ASSUME balcao.op \in {"baixa", "cancela", "falha", "estorna"}
        PROVE  balcao.cota \in Cotas
    BY <1>4 DEF TypeOK, SemOperacao
  <1>5. CASE MarkPaidGrava
    <2>1. balcao.cota \in Cotas /\ worker' = worker
      BY <1>4, <1>5 DEF MarkPaidGrava
    <2>2. SettleTx(balcao.cota) \/ UNCHANGED <<bolaoVars, cotaVars, pagVars, comissao>>
      BY <1>5, Zenon DEF MarkPaidGrava
    <2>3. QED
      BY <2>1, <2>2, SettleTxAcerta, SemAcerto DEF cotaVars
  <1>6. CASE CancelShareGrava
    <2>1. balcao.cota \in Cotas /\ worker' = worker
      BY <1>4, <1>6 DEF CancelShareGrava
    <2>2. CancelaSemPagamento(balcao.cota) => Acerta
      <3>1. CASE statusPag[balcao.cota] = "nenhum" /\ statusCota[balcao.cota] = "reservada"
        BY <2>1, <3>1 DEF CancelaSemPagamento, ComissaoCancelada, Acerta, ComissaoInv, ComissaoDe, Liquidadas, TypeOK
      <3>2. CASE ~(statusPag[balcao.cota] = "nenhum" /\ statusCota[balcao.cota] = "reservada")
        BY <3>2, SemAcerto DEF CancelaSemPagamento, cotaVars
      <3>3. QED
        BY <3>1, <3>2
    <2>3. QED
      BY <1>6, <2>1, <2>2, ReleaseAcerta DEF CancelShareGrava
  <1>7. QED
    BY <1>1, <1>2, <1>3, <1>5, <1>6 DEF Balcao

LEMMA ComissaoStep ==
  ASSUME TypeOK, ComissaoInv, RowInv, [Next]_vars
  PROVE  ComissaoInv'
  <1>1. CASE Register
    <2>1. Acerta
      BY <1>1 DEF Register, Registrada, MudaBolao, Acerta, ComissaoInv, ComissaoDe, Liquidadas, TypeOK
    <2>2. QED
      BY <1>1, <2>1, AcertaMantem DEF Register, procVars
  <1>2. CASE ApuraGrava
    <2>1. ASSUME NEW d \in Cotas
          PROVE  /\ comissao'[d] = comissao[d]
                 /\ statusCota'[d] = statusCota[d] \/ (statusCota'[d] \in {"apurada", "premiada"} /\ d \in worker.vistas)
      BY <1>2 DEF ApuraGrava, MudaBolao, TypeOK
    <2>2. Acerta
      BY <2>1 DEF Acerta, ComissaoInv, ComissaoDe, ComissaoVista, Liquidadas
    <2>3. worker'.vistas = {}
      BY <1>2 DEF ApuraGrava
    <2>4. QED
      BY <2>2, <2>3, AcertaMantem
  <1>3. CASE ApuraLe
    <2>1. UNCHANGED <<statusCota, comissao>> /\ worker'.vistas = {c \in Cotas : statusCota[c] = "registrada"}
      BY <1>3 DEF ApuraLe, cotaVars
    <2>2. QED
      BY <2>1 DEF ComissaoInv, ComissaoDe, ComissaoVista, Liquidadas
  <1>4. CASE Close \/ CancelPool \/ QuedaWorker
    <2>1. UNCHANGED <<statusCota, comissao>>
      BY <1>4 DEF Close, CancelPool, QuedaWorker, MudaBolao, cotaVars
    <2>2. worker' = worker \/ worker'.vistas = {}
      BY <1>4 DEF Close, CancelPool, QuedaWorker, procVars
    <2>3. QED
      BY <2>1, <2>2, SemAcerto, AcertaMantem
  <1>5. CASE UNCHANGED vars
    BY <1>5, SemAcerto, AcertaMantem DEF vars, cotaVars, procVars
  <1>6. CASE ComprovanteLe
    <2>1. UNCHANGED <<statusCota, comissao, worker>>
      BY <1>6 DEF ComprovanteLe, cotaVars
    <2>2. QED
      BY <2>1, SemAcerto, AcertaMantem
  <1>7. CASE ComprovanteGrava
    <2>1. Acerta
      BY <1>7 DEF ComprovanteGrava, Registrada, MudaBolao, Acerta, ComissaoInv, ComissaoDe, Liquidadas, TypeOK
    <2>2. QED
      BY <1>7, <2>1, AcertaMantem DEF ComprovanteGrava
  <1>8. QED
    BY <1>1, <1>2, <1>3, <1>4, <1>5, <1>6, <1>7, OnlineAcerta, BalcaoAcerta, AcertaMantem DEF Next, Bolao, Painel

-----------------------------------------------------------------------------
(* Units of the rows a query selects *)

LEMMA QuantasNat ==
  ASSUME NEW S \in SUBSET Cotas
  PROVE  Quantas(S) \in Nat
  BY UnitsFinite DEF Quantas

LEMMA QuantasSoma ==
  ASSUME NEW S \in SUBSET Cotas, NEW T \in SUBSET Cotas, S \cap T = {}
  PROVE  Quantas(S \cup T) = Quantas(S) + Quantas(T)
  <1>1. Unidades(S \cup T) = Unidades(S) \cup Unidades(T)
    BY DEF Unidades
  <1>2. Unidades(S) \cap Unidades(T) = {}
    BY DEF Unidades, UnidadesDe
  <1>3. Cardinality(Unidades(S) \cap Unidades(T)) = 0
    BY <1>2, FS_EmptySet
  <1>4. /\ IsFiniteSet(Unidades(S)) /\ Cardinality(Unidades(S)) \in Nat
        /\ IsFiniteSet(Unidades(T)) /\ Cardinality(Unidades(T)) \in Nat
    BY UnitsFinite
  <1>5. Cardinality(Unidades(S) \cup Unidades(T))
          = Cardinality(Unidades(S)) + Cardinality(Unidades(T)) - Cardinality(Unidades(S) \cap Unidades(T))
    BY <1>4, FS_Union, Zenon
  <1>6. Quantas(S \cup T) = Cardinality(Unidades(S) \cup Unidades(T))
        /\ Quantas(S) = Cardinality(Unidades(S)) /\ Quantas(T) = Cardinality(Unidades(T))
    BY <1>1, Zenon DEF Quantas
  <1> HIDE DEF Unidades, Quantas
  <1>7. QED
    BY <1>3, <1>4, <1>5, <1>6

LEMMA QuantasMenos ==
  ASSUME NEW S \in SUBSET Cotas, NEW T \in SUBSET S
  PROVE  Quantas(T) <= Quantas(S)
  BY UnitsMonotone DEF Quantas

\* The rows by status: what the queries select is taken apart without loss.
LEMMA RowsOfTheQueries ==
  ASSUME TypeOK
  PROVE  /\ Linhas \in SUBSET Cotas /\ Confirmadas \in SUBSET Cotas
         /\ \A S : NoStatus(S) \in SUBSET Cotas /\ ComComissao(S) \in SUBSET Cotas
         /\ Vivas = NoStatus(PAID_STATUSES) \cup NoStatus({"reservada"})
         /\ NoStatus(PAID_STATUSES) \cap NoStatus({"reservada"}) = {}
  BY DEF Linhas, Confirmadas, NoStatus, ComComissao, Vivas, PAID_STATUSES, TypeOK, StatusCota, Liquidadas, Desfeitas

\* Books that agree: a confirmed payment has a share, reserved or settled, and what is settled is confirmed.
LEMMA BooksAgree ==
  ASSUME TypeOK, FinancialReconciliation.conciliado
  PROVE  /\ \A c \in Cotas : statusPag[c] = "confirmado" => statusCota[c] \notin Desfeitas
         /\ \A c \in Cotas : statusCota[c] \in Liquidadas => statusPag[c] = "confirmado"
  <1>1. PagosSemCota = {} /\ CotasPagasSemPagamento = {}
    BY DEF FinancialReconciliation
  <1>2. ASSUME NEW c \in Cotas, statusPag[c] = "confirmado", statusCota[c] \in Desfeitas
        PROVE  FALSE
    <2>1. c \in PagosSemCota
      BY <1>2 DEF PagosSemCota, Confirmadas, NoStatus, Linhas, Desfeitas
    <2>2. QED
      BY <1>1, <2>1
  <1>3. ASSUME NEW c \in Cotas, statusCota[c] \in Liquidadas, statusPag[c] # "confirmado"
        PROVE  FALSE
    <2>1. c \in CotasPagasSemPagamento
      BY <1>3 DEF CotasPagasSemPagamento, Confirmadas, NoStatus, Linhas, PAID_STATUSES, Liquidadas
    <2>2. QED
      BY <1>1, <2>1
  <1>4. QED
    BY <1>2, <1>3

LEMMA StockReports ==
  ASSUME TypeOK, StockConserved
  PROVE  StockAgrees
  <1> DEFINE p == Quantas(NoStatus(PAID_STATUSES))
             r == Quantas(NoStatus({"reservada"}))
  <1> SUFFICES ASSUME "apurado" \notin marcos
               PROVE  Disponiveis = AoMenosZero(TotalCotas - p - r)
    BY DEF StockAgrees, ListPools, Pools, Dashboard
  <1>1. p \in Nat /\ r \in Nat /\ Quantas(Vivas) = p + r
    BY RowsOfTheQueries, QuantasSoma, QuantasNat
  <1>2. cotasVendidas = Quantas(Vivas)
    BY DEF StockConserved, Quantas
  <1> HIDE DEF p, r
  <1>3. TotalCotas - cotasVendidas = TotalCotas - p - r
    BY <1>1, <1>2, TotalAssumption
  <1>4. QED
    BY <1>3 DEF Disponiveis

LEMMA RevenueReports ==
  ASSUME TypeOK, RowInv
  PROVE  RevenueAgrees
  <1> SUFFICES ASSUME FinancialReconciliation.conciliado
               PROVE  Summary.receitaBruta
                        = Pools.receita + Quantas(Confirmadas \cap NoStatus({"reservada"})) * ValorCota
    BY DEF RevenueAgrees
  <1> DEFINE P == NoStatus(PAID_STATUSES)
             R == Confirmadas \cap NoStatus({"reservada"})
  <1>1. Confirmadas = P \cup R /\ P \cap R = {} /\ P \in SUBSET Cotas /\ R \in SUBSET Cotas
    BY BooksAgree DEF Confirmadas, NoStatus, Linhas, PAID_STATUSES, TypeOK, StatusCota, Liquidadas, Desfeitas
  <1>2. Quantas(Confirmadas) = Quantas(P) + Quantas(R) /\ Quantas(P) \in Nat /\ Quantas(R) \in Nat
    BY <1>1, QuantasSoma, QuantasNat
  <1>3. ValorCota \in Nat
    BY ValoresAssumption DEF ValorCota
  <1>4. Summary.receitaBruta = Quantas(Confirmadas) * ValorCota /\ Pools.receita = Quantas(P) * ValorCota
    BY DEF Summary, Pools
  <1> HIDE DEF P, R
  <1>5. PICK p \in Nat, r \in Nat, v \in Nat : p = Quantas(P) /\ r = Quantas(R) /\ v = ValorCota
    BY <1>2, <1>3
  <1>6. (p + r) * v = p * v + r * v
    OBVIOUS
  <1>7. Summary.receitaBruta = Pools.receita + Quantas(R) * ValorCota
    BY <1>2, <1>4, <1>5, <1>6
  <1>8. QED
    BY <1>7 DEF R

\* Of the commissions written in confirmed payments and the commissions due, what is in one and not in the other.
Devidas == ComComissao({"pendente", "paga"})
NaoDevidas == {c \in Confirmadas \cap ComAfiliado : statusCota[c] = "reservada" \/ comissao[c] = "cancelada"}
PagasDesfeitas == ComComissao({"paga"}) \ Confirmadas

LEMMA WrittenAndDue ==
  ASSUME TypeOK, RowInv, ComissaoInv, FinancialReconciliation.conciliado
  PROVE  /\ Quantas(Confirmadas \cap ComAfiliado) + Quantas(PagasDesfeitas) = Quantas(NaoDevidas) + Quantas(Devidas)
         /\ Quantas(Devidas) = Quantas(PagasDesfeitas) + Quantas(Devidas \cap Confirmadas)
  <1> DEFINE D == Devidas \cap Confirmadas
  <1>0. ASSUME NEW c \in Cotas
        PROVE  /\ statusPag[c] = "confirmado" => statusCota[c] \in {"reservada"} \cup Liquidadas
               /\ statusCota[c] \in Liquidadas => statusPag[c] = "confirmado"
               /\ comissao[c] \in {"nenhuma", "pendente", "paga", "cancelada"}
               /\ ComissaoDe(c)
    <2>1. statusCota[c] \in {"livre", "reservada"} \cup Liquidadas \cup Desfeitas
      BY DEF TypeOK, StatusCota
    <2>2. QED
      BY <2>1, BooksAgree DEF ComissaoInv, RowInv, TypeOK
  <1>1. Confirmadas \cap ComAfiliado = NaoDevidas \cup D /\ NaoDevidas \cap D = {}
    <2>1. ASSUME NEW c \in Confirmadas \cap ComAfiliado
          PROVE  c \in NaoDevidas \cup D
      BY <1>0 DEF Devidas, NaoDevidas, ComComissao, Confirmadas, Linhas, ComissaoDe
    <2>2. ASSUME NEW c \in D
          PROVE  c \in Confirmadas \cap ComAfiliado /\ c \notin NaoDevidas
      BY <1>0 DEF Devidas, NaoDevidas, ComComissao, Confirmadas, Linhas, ComissaoDe
    <2>3. QED
      BY <2>1, <2>2 DEF NaoDevidas
  <1>2. Devidas = PagasDesfeitas \cup D /\ PagasDesfeitas \cap D = {}
    <2>1. ASSUME NEW c \in Devidas \ Confirmadas
          PROVE  c \in PagasDesfeitas
      BY <1>0 DEF Devidas, PagasDesfeitas, ComComissao, Confirmadas, Linhas, ComissaoDe
    <2>2. PagasDesfeitas \subseteq Devidas /\ PagasDesfeitas \cap Confirmadas = {}
      BY DEF Devidas, PagasDesfeitas, ComComissao
    <2>3. QED
      BY <2>1, <2>2
  <1>3. NaoDevidas \in SUBSET Cotas /\ D \in SUBSET Cotas /\ PagasDesfeitas \in SUBSET Cotas
    BY DEF Devidas, NaoDevidas, PagasDesfeitas, ComComissao, Confirmadas, Linhas
  <1>4. /\ Quantas(NaoDevidas \cup D) = Quantas(NaoDevidas) + Quantas(D)
        /\ Quantas(PagasDesfeitas \cup D) = Quantas(PagasDesfeitas) + Quantas(D)
    BY <1>1, <1>2, <1>3, QuantasSoma
  <1>5. Quantas(NaoDevidas) \in Nat /\ Quantas(D) \in Nat /\ Quantas(PagasDesfeitas) \in Nat
    BY <1>3, QuantasNat
  <1>6. Quantas(Confirmadas \cap ComAfiliado) = Quantas(NaoDevidas) + Quantas(D)
    BY <1>1, <1>4, Zenon
  <1>7. Quantas(Devidas) = Quantas(PagasDesfeitas) + Quantas(D)
    BY <1>2, <1>4, Zenon
  <1>8. Quantas(Devidas) = Quantas(PagasDesfeitas) + Quantas(Devidas \cap Confirmadas)
    BY <1>7
  <1> HIDE DEF D
  <1>9. QED
    BY <1>5, <1>6, <1>7, <1>8

LEMMA ResultReports ==
  ASSUME TypeOK, RowInv, ComissaoInv
  PROVE  ResultAgrees
  <1> SUFFICES ASSUME FinancialReconciliation.conciliado
               PROVE  Summary.resultado - FinancialReconciliation.resultado
                        = (Quantas(NaoDevidas) - Quantas(PagasDesfeitas)) * ComissaoUnidade
    BY DEF ResultAgrees, NaoDevidas, PagasDesfeitas
  <1> DEFINE E == Confirmadas \cap ComAfiliado
  <1>1. /\ Summary.resultado = Quantas(Confirmadas) * TaxaUnidade - Quantas(Devidas) * ComissaoUnidade
        /\ FinancialReconciliation.resultado = Quantas(Confirmadas) * TaxaUnidade - Quantas(E) * ComissaoUnidade
    BY DEF Summary, FinancialReconciliation, Devidas
  <1>2. /\ Confirmadas \in SUBSET Cotas /\ E \in SUBSET Cotas /\ Devidas \in SUBSET Cotas
        /\ NaoDevidas \in SUBSET Cotas /\ PagasDesfeitas \in SUBSET Cotas
    BY DEF Confirmadas, Linhas, Devidas, NaoDevidas, PagasDesfeitas, ComComissao
  <1>3. PICK q \in Nat, e \in Nat, d \in Nat, n \in Nat, u \in Nat :
              /\ q = Quantas(Confirmadas) /\ e = Quantas(E) /\ d = Quantas(Devidas)
              /\ n = Quantas(NaoDevidas) /\ u = Quantas(PagasDesfeitas)
    BY <1>2, QuantasNat
  <1>4. e + u = n + d
    BY <1>3, WrittenAndDue
  <1>5. PICK t \in Nat, k \in Nat : t = TaxaUnidade /\ k = ComissaoUnidade
    BY ValoresAssumption
  <1>6. (q * t - d * k) - (q * t - e * k) = (e - d) * k
    <2>1. q * t \in Int /\ d * k \in Int /\ e * k \in Int /\ (e - d) * k = e * k - d * k
      OBVIOUS
    <2>2. QED
      BY <2>1
  <1>7. e - d = n - u
    BY <1>4
  <1> HIDE DEF E
  <1>8. QED
    BY <1>1, <1>3, <1>5, <1>6, <1>7

LEMMA AffiliateReports ==
  ASSUME TypeOK, ComissaoInv
  PROVE  AffiliateIsCovered
  <1>1. \A q \in AffiliateQuotas(PAID_STATUSES) : q.comissao # "nenhuma"
    BY DEF AffiliateQuotas, DoAfiliado, NoStatus, Linhas, PAID_STATUSES, Liquidadas, ComissaoInv, ComissaoDe
  <1>2. \A q \in AffiliateQuotas(StatusCota) : q.comissao = "pendente" => q.status \in PAID_STATUSES
    BY DEF AffiliateQuotas, DoAfiliado, NoStatus, Linhas, PAID_STATUSES, Liquidadas, ComissaoInv, ComissaoDe
  <1>3. AffiliateDashboard.comissaoPendente <= AffiliateSalesByPool.cotasVendidas * ComissaoUnidade
    <2> DEFINE P == ComComissao({"pendente"})
               V == DoAfiliado(NoStatus(PAID_STATUSES))
    <2>1. V \in SUBSET Cotas /\ P \in SUBSET V
      BY DEF ComComissao, DoAfiliado, NoStatus, Linhas, PAID_STATUSES, Liquidadas, ComissaoInv, ComissaoDe
    <2>2. PICK p \in Nat, v \in Nat, k \in Nat : p = Quantas(P) /\ v = Quantas(V) /\ k = ComissaoUnidade
      BY <2>1, QuantasNat, ValoresAssumption
    <2>3. p <= v
      BY <2>1, <2>2, QuantasMenos
    <2>4. p * k <= v * k
      BY <2>3
    <2>5. AffiliateDashboard.comissaoPendente = Quantas(P) * ComissaoUnidade /\ AffiliateSalesByPool.cotasVendidas = Quantas(V)
      BY DEF AffiliateDashboard, AffiliateSalesByPool, Commissions
    <2> HIDE DEF P, V
    <2>6. QED
      BY <2>2, <2>4, <2>5
  <1>4. QED
    BY <1>1, <1>2, <1>3 DEF AffiliateIsCovered

LEMMA MoneyOfPaidShares ==
  ASSUME PagInv
  PROVE  PaidShareHasMoney
  BY DEF PaidShareHasMoney, CotasPagasSemPagamento, NoStatus, Linhas, Confirmadas, PagasAntesDoSorteio, PagInv, Conv, Convertida

-----------------------------------------------------------------------------
(* The sum of a sheet with one row per payment.  It is defined by recursion *)
(* over the rows; Resultados gives its value without recursion, and the     *)
(* least set of rows where the two differ is a contradiction, because sets  *)
(* of rows are well founded.                                                *)

Resultados(s) == Quantas(Confirmadas \cap s) * TaxaUnidade - Quantas(Devidas \cap Confirmadas \cap s) * ComissaoUnidade

LEMMA OneRowMore ==
  ASSUME NEW s \in SUBSET Linhas, NEW c \in s
  PROVE  Resultados(s) = Payments(c).resultado + Resultados(s \ {c})
  <1> DEFINE Conf == Confirmadas \cap s
             Dev == Devidas \cap Confirmadas \cap s
  <1>1. /\ Conf \in SUBSET Cotas /\ Dev \in SUBSET Cotas /\ c \in Cotas
        /\ c \in Conf <=> c \in Confirmadas
        /\ c \in Dev <=> c \in Confirmadas /\ c \in Devidas
        /\ Confirmadas \cap (s \ {c}) = Conf \ {c} /\ Devidas \cap Confirmadas \cap (s \ {c}) = Dev \ {c}
    BY DEF Linhas
  <1>2. c \in Devidas <=> comissao[c] \in {"pendente", "paga"}
    BY DEF Devidas, ComComissao
  <1>3. PICK q \in Nat, t \in Nat, k \in Nat : q = Quantidade[c] /\ t = TaxaUnidade /\ k = ComissaoUnidade
    BY <1>1, QuantidadeAssumption, ValoresAssumption
  <1>4. PICK a \in Nat, b \in Nat : a = Quantas(Conf \ {c}) /\ b = Quantas(Dev \ {c})
    BY <1>1, QuantasNat
  <1>5. Quantas(Conf) = IF c \in Confirmadas THEN a + q ELSE a
    <2>1. CASE c \in Confirmadas
      <3>1. Quantas(Conf \ {c}) = Quantas(Conf) - Quantidade[c] /\ Quantas(Conf) \in Nat
        BY <1>1, <2>1, UnitsRemove, QuantasNat DEF Quantas
      <3>2. QED
        BY <1>3, <1>4, <2>1, <3>1
    <2>2. CASE c \notin Confirmadas
      <3>1. Conf \ {c} = Conf
        BY <1>1, <2>2
      <3>2. QED
        BY <1>4, <2>2, <3>1
    <2>3. QED
      BY <2>1, <2>2
  <1>6. Quantas(Dev) = IF c \in Confirmadas /\ c \in Devidas THEN b + q ELSE b
    <2>1. CASE c \in Confirmadas /\ c \in Devidas
      <3>1. Quantas(Dev \ {c}) = Quantas(Dev) - Quantidade[c] /\ Quantas(Dev) \in Nat
        BY <1>1, <2>1, UnitsRemove, QuantasNat DEF Quantas
      <3>2. QED
        BY <1>3, <1>4, <2>1, <3>1
    <2>2. CASE ~(c \in Confirmadas /\ c \in Devidas)
      <3>1. Dev \ {c} = Dev
        BY <1>1, <2>2
      <3>2. QED
        BY <1>4, <2>2, <3>1
    <2>3. QED
      BY <2>1, <2>2
  <1>7. Resultados(s) = Quantas(Conf) * t - Quantas(Dev) * k
    BY <1>3 DEF Resultados
  <1>8. Resultados(s \ {c}) = a * t - b * k
    BY <1>1, <1>3, <1>4, Zenon DEF Resultados
  <1>9. Payments(c).resultado = IF c \in Confirmadas
                                THEN q * t - (IF c \in Devidas THEN q * k ELSE 0) ELSE 0
    BY <1>2, <1>3 DEF Payments
  <1>10. /\ (a + q) * t = a * t + q * t /\ (b + q) * k = b * k + q * k
         /\ a * t \in Int /\ b * k \in Int /\ q * t \in Int /\ q * k \in Int
    OBVIOUS
  <1> HIDE DEF Conf, Dev
  <1>11. CASE c \notin Confirmadas
    BY <1>5, <1>6, <1>7, <1>8, <1>9, <1>10, <1>11
  <1>12. CASE c \in Confirmadas /\ c \notin Devidas
    BY <1>5, <1>6, <1>7, <1>8, <1>9, <1>10, <1>12
  <1>13. CASE c \in Confirmadas /\ c \in Devidas
    BY <1>5, <1>6, <1>7, <1>8, <1>9, <1>10, <1>13
  <1>14. QED
    BY <1>11, <1>12, <1>13

LEMMA NoRows == Resultados({}) = 0
  <1>1. Confirmadas \cap {} = {} /\ Devidas \cap Confirmadas \cap {} = {} /\ Unidades({}) = {}
    BY DEF Unidades
  <1>2. Quantas({}) = 0
    BY <1>1, FS_EmptySet DEF Quantas
  <1>3. Resultados({}) = 0 * TaxaUnidade - 0 * ComissaoUnidade
    BY <1>1, <1>2, Zenon DEF Resultados
  <1>4. QED
    BY <1>3, ValoresAssumption

\* A function on the sets of rows that adds them one at a time, whichever comes first.
Soma(it) == it = [s \in SUBSET Linhas |->
                    IF s = {} THEN 0 ELSE Payments(CHOOSE c \in s : TRUE).resultado + it[s \ {CHOOSE c \in s : TRUE}]]

LEMMA SomaExiste == Soma([s \in SUBSET Linhas |-> Resultados(s)])
  <1> DEFINE h == [s \in SUBSET Linhas |-> Resultados(s)]
             V(s) == IF s = {} THEN 0
                     ELSE Payments(CHOOSE c \in s : TRUE).resultado + h[s \ {CHOOSE c \in s : TRUE}]
  <1>1. ASSUME NEW s \in SUBSET Linhas
        PROVE  Resultados(s) = V(s)
    <2>1. CASE s = {}
      BY <2>1, NoRows
    <2>2. CASE s # {}
      <3> DEFINE c == CHOOSE c \in s : TRUE
      <3>1. c \in s
        BY <2>2
      <3>2. Resultados(s) = Payments(c).resultado + Resultados(s \ {c})
        BY <3>1, OneRowMore
      <3>3. h[s \ {c}] = Resultados(s \ {c})
        OBVIOUS
      <3>4. V(s) = Payments(c).resultado + h[s \ {c}]
        BY <2>2, Zenon
      <3>5. QED
        BY <3>2, <3>3, <3>4, Zenon
    <2>3. QED
      BY <2>1, <2>2
  <1>2. h = [s \in SUBSET Linhas |-> V(s)]
    BY <1>1, Zenon
  <1>3. QED
    BY <1>2, Zenon DEF Soma

LEMMA SomaUnica ==
  ASSUME NEW it, Soma(it)
  PROVE  it[Linhas] = Resultados(Linhas)
  <1> DEFINE Ruins == {s \in SUBSET Linhas : it[s] # Resultados(s)}
  <1>1. Linhas \in SUBSET Cotas /\ IsFiniteSet(Linhas)
    BY CotasAssumption, FS_Subset DEF Linhas
  <1>2. IsWellFoundedOn(StrictSubsetOrdering(Linhas), SUBSET Linhas)
    BY <1>1, FS_StrictSubsetOrderingWellFounded, FS_FiniteSubsetsOfFinite
  <1>3. ASSUME Ruins # {} PROVE FALSE
    <2>1. Ruins \subseteq SUBSET Linhas
      OBVIOUS
    <2> HIDE DEF Ruins
    <2>2. PICK s \in Ruins : \A u \in Ruins : ~(<<u, s>> \in StrictSubsetOrdering(Linhas))
      BY <1>2, <1>3, <2>1, WFMin, Zenon
    <2>3. s \in SUBSET Linhas /\ it[s] # Resultados(s)
      BY <2>2 DEF Ruins
    <2>4. it[s] = IF s = {} THEN 0
                  ELSE Payments(CHOOSE c \in s : TRUE).resultado + it[s \ {CHOOSE c \in s : TRUE}]
      BY <2>3, Zenon DEF Soma
    <2>5. s # {}
      BY <2>3, <2>4, NoRows
    <2> DEFINE c == CHOOSE c \in s : TRUE
    <2>6. c \in s
      BY <2>5
    <2>7. it[s] = Payments(c).resultado + it[s \ {c}]
      BY <2>4, <2>5, Zenon
    <2> HIDE DEF c
    <2>8. s \ {c} \in SUBSET Linhas /\ <<s \ {c}, s>> \in StrictSubsetOrdering(Linhas)
      BY <2>3, <2>6 DEF StrictSubsetOrdering
    <2>9. it[s \ {c}] = Resultados(s \ {c})
      BY <2>2, <2>8 DEF Ruins
    <2>10. Resultados(s) = Payments(c).resultado + Resultados(s \ {c})
      BY <2>3, <2>6, OneRowMore
    <2>11. QED
      BY <2>3, <2>7, <2>9, <2>10, Zenon
  <1>4. QED
    BY <1>3

LEMMA SumOfTheSheet == MapThenSumSet(LAMBDA c : Payments(c).resultado, Linhas) = Resultados(Linhas)
  <1>1. MapThenSumSet(LAMBDA c : Payments(c).resultado, Linhas) = (CHOOSE it : Soma(it))[Linhas]
    BY Zenon DEF MapThenSumSet, MapThenFoldSet, Soma
  <1>2. Soma(CHOOSE it : Soma(it))
    BY SomaExiste, Zenon
  <1>3. QED
    BY <1>1, <1>2, SomaUnica, Zenon

LEMMA RowReports ==
  ASSUME TypeOK, RowInv, ComissaoInv
  PROVE  RowsAgree
  <1> DEFINE linhas == {ShareRow(c) : c \in {d \in NoStatus(StatusCota) : statusPag[d] \in StatusPagamento}}
             pagas == {r \in linhas : r.statusPagamento = "confirmado"}
  <1>1. {r.cota : r \in pagas} = Confirmadas
    <2>1. ASSUME NEW c \in Linhas
          PROVE  /\ ShareRow(c).cota = c
                 /\ ShareRow(c).statusPagamento = "confirmado" <=> c \in Confirmadas
                 /\ c \in {d \in NoStatus(StatusCota) : statusPag[d] \in StatusPagamento}
      BY DEF ShareRow, Confirmadas, NoStatus, Linhas, TypeOK
    <2>2. {d \in NoStatus(StatusCota) : statusPag[d] \in StatusPagamento} = Linhas
      BY <2>1 DEF NoStatus
    <2>3. Confirmadas \subseteq Linhas
      BY DEF Confirmadas
    <2>4. linhas = {ShareRow(c) : c \in Linhas}
      BY <2>2, Zenon
    <2>5. ASSUME NEW r \in pagas
          PROVE  r.cota \in Confirmadas
      <3>1. PICK c \in Linhas : r = ShareRow(c)
        BY <2>4, <2>5
      <3>2. r.statusPagamento = "confirmado"
        BY <2>5
      <3>3. QED
        BY <2>1, <3>1, <3>2
    <2>6. ASSUME NEW c \in Confirmadas
          PROVE  ShareRow(c) \in pagas /\ ShareRow(c).cota = c
      BY <2>1, <2>3, <2>4, <2>6
    <2> HIDE DEF pagas
    <2>7. QED
      BY <2>5, <2>6
  <1>2. Sales(StatusCota, StatusPagamento).recebido = Summary.receitaBruta
    <2>1. Sales(StatusCota, StatusPagamento).recebido = Quantas({r.cota : r \in pagas}) * ValorCota
      BY DEF Sales
    <2>2. Summary.receitaBruta = Quantas(Confirmadas) * ValorCota
      BY DEF Summary
    <2>3. QED
      BY <1>1, <2>1, <2>2, Zenon
  <1>3. ASSUME FinancialReconciliation.conciliado
        PROVE  MapThenSumSet(LAMBDA c : Payments(c).resultado, Linhas) - PoolSheet.ficaComPlataforma
                 = Quantas(ComComissao({"paga"}) \ Confirmadas) * ComissaoUnidade
    <2> DEFINE D == Devidas \cap Confirmadas
    <2>1. Linhas \ ComComissao({"nenhuma", "cancelada"}) = Devidas
      BY DEF Linhas, ComComissao, Devidas, TypeOK
    <2>2. PoolSheet.ficaComPlataforma = Quantas(Confirmadas) * TaxaUnidade - Quantas(Devidas) * ComissaoUnidade
      BY <2>1, Zenon DEF PoolSheet
    <2>3. Confirmadas \cap Linhas = Confirmadas /\ Devidas \cap Confirmadas \cap Linhas = D
      BY DEF Confirmadas
    <2>4. Resultados(Linhas) = Quantas(Confirmadas) * TaxaUnidade - Quantas(D) * ComissaoUnidade
      BY <2>3, Zenon DEF Resultados
    <2>5. Quantas(Devidas) = Quantas(PagasDesfeitas) + Quantas(D)
      BY <1>3, WrittenAndDue
    <2>6. Confirmadas \in SUBSET Cotas /\ D \in SUBSET Cotas /\ PagasDesfeitas \in SUBSET Cotas
      BY DEF Confirmadas, Linhas, PagasDesfeitas, ComComissao
    <2>7. PICK q \in Nat, d \in Nat, u \in Nat :
                q = Quantas(Confirmadas) /\ d = Quantas(D) /\ u = Quantas(PagasDesfeitas)
      BY <2>6, QuantasNat
    <2>8. PICK t \in Nat, k \in Nat : t = TaxaUnidade /\ k = ComissaoUnidade
      BY ValoresAssumption
    <2> HIDE DEF D
    <2>9. (q * t - d * k) - (q * t - (u + d) * k) = u * k
      <3>1. q * t \in Int /\ d * k \in Int /\ u * k \in Int /\ (u + d) * k = u * k + d * k
        OBVIOUS
      <3>2. QED
        BY <3>1
    <2>10. Resultados(Linhas) - PoolSheet.ficaComPlataforma = u * k
      BY <2>2, <2>4, <2>5, <2>7, <2>8, <2>9
    <2>11. QED
      BY <2>7, <2>8, <2>10, SumOfTheSheet, Zenon DEF PagasDesfeitas
  <1>4. QED
    BY <1>2, <1>3, Zenon DEF RowsAgree

-----------------------------------------------------------------------------
(* The reports in every state of a sale *)

\* A commission is of a sale of an affiliate, there as soon as it is settled and due only while it is.
LEMMA CommissionsFollow == Spec => []ComissaoInv
  <1>1. Init => ComissaoInv
    BY DEF Init, ComissaoInv, ComissaoDe, ComissaoVista, Liquidadas
  <1>2. TypeOK /\ RowInv /\ ComissaoInv /\ [Next]_vars => ComissaoInv'
    BY ComissaoStep
  <1>3. IInv => TypeOK /\ RowInv
    BY DEF IInv
  <1>4. QED
    BY <1>1, <1>2, <1>3, SpecIInv, PTL DEF Spec

\* Reports of the same sales never contradict each other, whatever was sold, refunded, paid by hand
\* or paid out in whatever order: stock by the counter and by the rows, revenue by payments and by
\* shares, the two results of the platform, the sheets and their totals, what the affiliate sees and
\* what it is owed (reports.service.ts, admin.service.ts, affiliates.service.ts).
THEOREM ReportsNeverDisagree == Spec => []ReportsAgree
  <1>1. IInv /\ ComissaoInv /\ PagInv => ReportsAgree
    BY StockReports, RevenueReports, ResultReports, RowReports, AffiliateReports, MoneyOfPaidShares
    DEF IInv, StockInv, ReportsAgree
  <1>2. QED
    BY <1>1, SpecPagInv, CommissionsFollow, PTL
=============================================================================
