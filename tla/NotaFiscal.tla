----------------------------- MODULE NotaFiscal -----------------------------
(***************************************************************************)
(* The invoice (NFS-e) of ONE confirmed payment (fiscal/nfse.service.ts):  *)
(* emission by the operator and by the job, query, cancellation and manual *)
(* registration.  There is one row per payment and no lock: each request   *)
(* reads the row, calls the issuer (Focus or Cora) and writes what it got. *)
(* A reference identifies an invoice at the issuer: the ref of Focus, the  *)
(* idempotency key of Cora.                                                *)
(***************************************************************************)
EXTENDS Integers, FiniteSets

CONSTANTS
    Pedidos,        \* requests that may be in flight at the same time
    MaxRefs         \* bound: references of the payment; 1 is the one made of its id

VARIABLES
    provedor,       \* NFSE_PROVIDER: "focus" or "cora"
    nota,           \* row of notas_fiscais: status, origem, provedorId (0 is null)
    emissor,        \* what the issuer has for each reference (external)
    pedido,         \* requests in flight
    usadas,         \* references made so far
    liberada        \* history: something gave the reference up, see below

vars == <<provedor, nota, emissor, pedido, usadas, liberada>>

Refs == 1..MaxRefs
Ocioso == [op |-> "nenhuma"]
Resposta == {"aguardando", "emitida", "erro", "cancelada"}
Pedido == [op : {"envia", "consulta", "cancela", "grava_recusa"}, ref : Refs]
             \cup [op : {"grava_nota", "grava_consulta"}, ref : Refs, status : Resposta]
             \cup {Ocioso, [op |-> "rele"], [op |-> "manual"], [op |-> "grava_cancelada"]}

TypeOK ==
    /\ provedor \in {"focus", "cora"}
    /\ nota \in [status : Resposta \cup {"nenhuma"}, origem : {"focus", "cora", "manual"}, ref : 0..MaxRefs]
    /\ emissor \in [Refs -> {"ausente", "processando", "autorizada", "recusada", "cancelada"}]
    /\ pedido \in [Pedidos -> Pedido]
    /\ usadas \in 1..MaxRefs
    /\ liberada \in BOOLEAN

Init ==
    /\ provedor \in {"focus", "cora"}
    /\ nota = [status |-> "nenhuma", origem |-> provedor, ref |-> 0]
    /\ emissor = [k \in Refs |-> "ausente"]
    /\ pedido = [r \in Pedidos |-> Ocioso]
    /\ usadas = 1
    /\ liberada = FALSE

Segue(r, p) == pedido' = [pedido EXCEPT ![r] = p]
\* A call that fails, or whose answer is lost, ends the request and writes nothing.
Falha(r) == Segue(r, Ocioso) /\ UNCHANGED <<provedor, nota, usadas, liberada>>

EmAberto == nota.status \in {"aguardando", "emitida"}          \* OPEN_STATUSES
Vivas == {k \in Refs : emissor[k] \in {"processando", "autorizada"}}

\* mapFocusStatus and mapReceiptStatus: Cora has no answer for a cancelled invoice.
Lido(k) == CASE emissor[k] = "autorizada" -> "emitida"
             [] emissor[k] = "recusada" -> "erro"
             [] emissor[k] = "cancelada" /\ provedor = "focus" -> "cancelada"
             [] OTHER -> "aguardando"

-----------------------------------------------------------------------------
(* emitForPayment and emitViaFocus; the job calls the same functions *)

\* Which rows make the emission start again with a reference of its own.
RecomecaSempre == nota.status # "nenhuma"
Recomeca == /\ nota.status # "nenhuma"
            /\ provedor = "focus" => (nota.ref = 0 \/ nota.status = "cancelada")
LeParaEmitir(r) ==
    /\ pedido[r] = Ocioso
    /\ ~EmAberto
    /\ IF Recomeca
       THEN /\ usadas < MaxRefs
            /\ usadas' = usadas + 1
            /\ Segue(r, [op |-> "envia", ref |-> usadas + 1])
       ELSE /\ UNCHANGED usadas
            /\ Segue(r, [op |-> "envia", ref |-> IF nota.ref = 0 THEN 1 ELSE nota.ref])
    /\ liberada' = (liberada \/ (provedor = "cora" /\ nota.status = "erro"))
    /\ UNCHANGED <<provedor, nota, emissor>>

\* The issuer takes a reference it does not have, or has refused.
Aceita(r) ==
    /\ pedido[r].op = "envia"
    /\ LET k == pedido[r].ref
       IN  /\ emissor[k] \in {"ausente", "recusada"}
           /\ emissor' = [emissor EXCEPT ![k] = "processando"]
           /\ \/ /\ Segue(r, [op |-> "grava_nota", ref |-> k, status |-> "aguardando"])
                 /\ UNCHANGED <<provedor, nota, usadas, liberada>>
              \/ Falha(r)

\* It answers for one it has with its status.
Repete(r) ==
    /\ pedido[r].op = "envia"
    /\ pedido[r].ref \in Vivas
    /\ Segue(r, [op |-> "grava_nota", ref |-> pedido[r].ref, status |-> Lido(pedido[r].ref)])
    /\ UNCHANGED <<provedor, nota, emissor, usadas, liberada>>

\* It refuses (HTTP 400, 404, 409 or 422), be it new to it or not; or the call fails.
Recusa(r) ==
    /\ pedido[r].op = "envia"
    /\ UNCHANGED emissor
    /\ \/ /\ Segue(r, [op |-> "grava_recusa", ref |-> pedido[r].ref])
          /\ UNCHANGED <<provedor, nota, usadas, liberada>>
       \/ Falha(r)

\* The upserts write whatever the row has become since it was read.
GravaNota(r) ==
    /\ pedido[r].op = "grava_nota"
    /\ nota' = [status |-> pedido[r].status, origem |-> provedor, ref |-> pedido[r].ref]
    /\ Segue(r, IF provedor = "cora" THEN [op |-> "rele"] ELSE Ocioso)
    /\ UNCHANGED <<provedor, emissor, usadas, liberada>>

GravaRecusa(r) ==
    /\ pedido[r].op = "grava_recusa"
    /\ nota' = IF provedor = "focus"
               THEN [status |-> "erro", origem |-> "focus", ref |-> pedido[r].ref]
               ELSE [nota EXCEPT !.status = "erro"]
    /\ Segue(r, Ocioso)
    /\ UNCHANGED <<provedor, emissor, usadas, liberada>>

-----------------------------------------------------------------------------
(* refresh: of one row by the operator, of the pending ones by syncPending, and at the end of an emission at Cora *)

Consultavel ==
    /\ nota.status \notin {"nenhuma", "cancelada"}
    /\ nota.origem # "manual" /\ nota.ref # 0

LeParaConsultar(r) ==
    /\ \/ pedido[r] = Ocioso /\ Consultavel
       \/ pedido[r].op = "rele"
    /\ Segue(r, IF Consultavel THEN [op |-> "consulta", ref |-> nota.ref] ELSE Ocioso)
    /\ UNCHANGED <<provedor, nota, emissor, usadas, liberada>>

Consulta(r) ==
    /\ pedido[r].op = "consulta"
    /\ UNCHANGED emissor
    /\ \/ /\ emissor[pedido[r].ref] # "ausente"
          /\ Segue(r, [op |-> "grava_consulta", ref |-> pedido[r].ref, status |-> Lido(pedido[r].ref)])
          /\ UNCHANGED <<provedor, nota, usadas, liberada>>
       \/ Falha(r)

\* Only the status: the reference of the row is not compared with the one asked about.
GravaConsulta(r) ==
    /\ pedido[r].op = "grava_consulta"
    /\ nota' = [nota EXCEPT !.status = pedido[r].status]
    /\ Segue(r, Ocioso)
    /\ UNCHANGED <<provedor, emissor, usadas, liberada>>

-----------------------------------------------------------------------------
(* cancel and registerManual *)

\* Focus is told only of an invoice the row shows as issued.
LeParaCancelar(r) ==
    /\ pedido[r] = Ocioso
    /\ nota.status \notin {"nenhuma", "cancelada"}
    /\ LET avisa == /\ nota.ref # 0
                    /\ \/ nota.origem = "cora"
                       \/ nota.origem = "focus" /\ nota.status = "emitida"
       IN  Segue(r, IF avisa THEN [op |-> "cancela", ref |-> nota.ref] ELSE [op |-> "grava_cancelada"])
    /\ liberada' = TRUE
    /\ UNCHANGED <<provedor, nota, emissor, usadas>>

Cancela(r) ==
    /\ pedido[r].op = "cancela"
    /\ LET k == pedido[r].ref
       IN  \/ /\ k \in Vivas
              /\ emissor' = [emissor EXCEPT ![k] = "cancelada"]
              /\ \/ /\ Segue(r, [op |-> "grava_cancelada"])
                    /\ UNCHANGED <<provedor, nota, usadas, liberada>>
                 \/ Falha(r)
           \/ UNCHANGED emissor /\ Falha(r)

GravaCancelada(r) ==
    /\ pedido[r].op = "grava_cancelada"
    /\ nota' = [nota EXCEPT !.status = "cancelada"]
    /\ Segue(r, Ocioso)
    /\ UNCHANGED <<provedor, emissor, usadas, liberada>>

LeParaRegistrar(r) ==
    /\ pedido[r] = Ocioso
    /\ ~EmAberto
    /\ Segue(r, [op |-> "manual"])
    /\ liberada' = TRUE
    /\ UNCHANGED <<provedor, nota, emissor, usadas>>

RegistraManual(r) ==
    /\ pedido[r].op = "manual"
    /\ nota' = [status |-> "emitida", origem |-> "manual", ref |-> 0]
    /\ Segue(r, Ocioso)
    /\ UNCHANGED <<provedor, emissor, usadas, liberada>>

\* The city authorises or rejects what the issuer holds.
Prefeitura(k) ==
    /\ emissor[k] = "processando"
    /\ \E s \in {"autorizada", "recusada"} : emissor' = [emissor EXCEPT ![k] = s]
    /\ UNCHANGED <<provedor, nota, pedido, usadas, liberada>>

Next ==
    \/ \E r \in Pedidos :
        \/ LeParaEmitir(r) \/ Aceita(r) \/ Repete(r) \/ Recusa(r) \/ GravaNota(r) \/ GravaRecusa(r)
        \/ LeParaConsultar(r) \/ Consulta(r) \/ GravaConsulta(r)
        \/ LeParaCancelar(r) \/ Cancela(r) \/ GravaCancelada(r)
        \/ LeParaRegistrar(r) \/ RegistraManual(r)
    \/ \E k \in Refs : Prefeitura(k)

Spec == Init /\ [][Next]_vars

-----------------------------------------------------------------------------
(* Properties *)

\* A payment has one live invoice at the issuer at most, until someone asks to
\* cancel it or registers one by hand (or emits at Cora again after an error: that
\* attempt has another key).  Lost answers, refusals of what the issuer already has, late queries
\* and an operator who emits together with the job do not invoice a sale twice.
OneInvoice == ~liberada => Cardinality(Vivas) <= 1
=============================================================================
