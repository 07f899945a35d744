----------------------------- MODULE Provedores -----------------------------
(***************************************************************************)
(* What the adapters of payment.provider.ts make of one payment at the     *)
(* provider: the requests that create its charge and their retries, the    *)
(* token of Cora, the attempts of a card checkout, the events and the      *)
(* consultations.  VendaCotas sees the provider as one charge with one     *)
(* state; here are the requests and the attempts behind that state.        *)
(***************************************************************************)
EXTENDS Integers, Sequences

CONSTANTS
    MaxCobrancas,   \* bound: charges (attempts, for a card) the provider records
    MaxPostagens,   \* bound: requests that create a charge
    MaxFalhas       \* bound: tokens that expire and processes that stop

VARIABLES
    psp,            \* which provider the payment is with
    token,          \* Cora: the token kept in memory
    pagamento,      \* the row: status, and whether it has the provider's identifier
    reservada,      \* the share is still reserved
    criacao,        \* the createCharge in progress
    postagens,      \* external: requests on their way to the provider
    cobrancas,      \* external: the charges, or the attempts of the card's page
    paginas,        \* external: the pages of Mercado Pago
    eventos,        \* events sent, each may arrive at any time, again or never
    lidas,          \* answers of the provider not applied yet
    postadas, falhasPsp
localVars == <<token, pagamento, reservada, criacao, lidas>>
vars == <<psp, localVars, postagens, cobrancas, paginas, eventos, postadas, falhasPsp>>

Estados == {"aberta", "paga", "cancelada", "devolvida", "recusada"}
Ids == DOMAIN cobrancas
Algum(e) == \E i \in Ids : cobrancas[i] = e
ComChave == {"cora", "mercadopago"}         \* the request carries an idempotency key, payment.id
Parada == [fase |-> "nada", confirmada |-> FALSE]

-----------------------------------------------------------------------------
(* Creation *)

\* createForShare: only a failed charge is tried again, and only with the same key.
TentaSempre == TRUE
TentaDeNovo == psp \in ComChave
Reivindica ==
    /\ criacao.fase = "nada" /\ reservada /\ pagamento.id = 0
    /\ \/ pagamento.status = "nenhum"
       \/ pagamento.status = "falhou" /\ TentaDeNovo
    /\ pagamento' = [pagamento EXCEPT !.status = "pendente"]
    /\ criacao' = [criacao EXCEPT !.fase = "envia"]
    /\ UNCHANGED <<psp, token, reservada, lidas, postagens, cobrancas, paginas, eventos, postadas, falhasPsp>>

\* call: the request goes with the token in memory; after a 401 it is repeated once with a
\* new one (Cora).  The other providers have a fixed key.
Envia ==
    /\ criacao.fase \in {"envia", "repete"} /\ postadas < MaxPostagens
    /\ LET usado == IF psp = "cora" /\ (token = "nenhum" \/ criacao.fase = "repete") THEN "bom" ELSE token
       IN  /\ token' = usado
           /\ IF psp = "cora" /\ usado = "vencido"
              THEN criacao' = [criacao EXCEPT !.fase = "repete"] /\ UNCHANGED <<postagens, postadas>>
              ELSE /\ criacao' = [criacao EXCEPT !.fase = "espera"]
                   /\ postagens' = postagens + 1 /\ postadas' = postadas + 1
    /\ UNCHANGED <<psp, pagamento, reservada, lidas, cobrancas, paginas, eventos, falhasPsp>>

\* The provider handles a request: one with a key it has seen finds what the first created.
Chega ==
    /\ postagens > 0
    /\ postagens' = postagens - 1
    /\ CASE psp = "mercadopago" -> paginas' = 1 /\ UNCHANGED cobrancas
         [] psp = "cora" /\ cobrancas # <<>> -> UNCHANGED <<cobrancas, paginas>>
         [] OTHER -> /\ Len(cobrancas) < MaxCobrancas
                     /\ cobrancas' = Append(cobrancas, "aberta") /\ UNCHANGED paginas
    /\ UNCHANGED <<psp, localVars, eventos, postadas, falhasPsp>>

\* createCharge answers: only Cora may say it is paid already.
Responde ==
    /\ criacao.fase = "espera"
    /\ cobrancas # <<>> \/ paginas > 0
    /\ criacao' = [fase |-> "grava", confirmada |-> psp = "cora" /\ cobrancas[1] = "paga"]
    /\ UNCHANGED <<psp, token, pagamento, reservada, lidas, postagens, cobrancas, paginas, eventos, postadas, falhasPsp>>

Grava ==
    /\ criacao.fase = "grava"
    /\ pagamento' = [status |-> IF criacao.confirmada THEN "confirmado" ELSE "pendente",
                     id |-> IF psp = "mercadopago" THEN 1 ELSE Len(cobrancas)]
    /\ criacao' = Parada
    /\ UNCHANGED <<psp, token, reservada, lidas, postagens, cobrancas, paginas, eventos, postadas, falhasPsp>>

\* The request fails, or times out with its effect unknown.
SemResposta ==
    /\ criacao.fase \in {"envia", "repete", "espera"}
    /\ criacao' = Parada
    /\ pagamento' = [pagamento EXCEPT !.status = IF @ = "pendente" THEN "falhou" ELSE @]
    /\ UNCHANGED <<psp, token, reservada, lidas, postagens, cobrancas, paginas, eventos, postadas, falhasPsp>>

\* The process stops between the claim and the answer; the memory of the token goes with it.
Para ==
    /\ falhasPsp < MaxFalhas
    /\ criacao' = Parada /\ lidas' = {} /\ token' = "nenhum"
    /\ falhasPsp' = falhasPsp + 1
    /\ UNCHANGED <<psp, pagamento, reservada, postagens, cobrancas, paginas, eventos, postadas>>

TokenVence ==
    /\ psp = "cora" /\ token = "bom" /\ falhasPsp < MaxFalhas
    /\ token' = "vencido" /\ falhasPsp' = falhasPsp + 1
    /\ UNCHANGED <<psp, pagamento, reservada, criacao, lidas, postagens, cobrancas, paginas, eventos, postadas>>

-----------------------------------------------------------------------------
(* The customer, the bank and the operator, at the provider (external) *)

Muda(i, e) ==
    /\ cobrancas' = [cobrancas EXCEPT ![i] = e]
    /\ eventos' = eventos \cup {<<i, e>>}

NoProvedor ==
    /\ \/ \E i \in Ids :
             \/ cobrancas[i] = "aberta" /\ Muda(i, "paga")
             \/ cobrancas[i] = "aberta" /\ psp # "mock" /\ Muda(i, "cancelada")
             \/ cobrancas[i] = "paga" /\ psp # "cora" /\ Muda(i, "devolvida")   \* Cora tells of no refund
       \* the page takes one card after another ("o cliente pode tentar outro cartão"),
       \* each attempt answered at once (binary_mode), until one is approved
       \/ /\ paginas > 0 /\ Len(cobrancas) < MaxCobrancas /\ ~Algum("paga")
          /\ \E e \in {"paga", "recusada", "cancelada"} :
                /\ cobrancas' = Append(cobrancas, e)
                /\ eventos' = eventos \cup {<<Len(cobrancas) + 1, e>>}
    /\ UNCHANGED <<psp, localVars, postagens, paginas, postadas, falhasPsp>>

-----------------------------------------------------------------------------
(* What the adapters answer *)

mapStatus(e) ==
    CASE e = "paga" -> "confirmed"
      [] e = "cancelada" -> "failed"
      [] e = "devolvida" -> "refunded"
      [] OTHER -> "pending"

\* fetchStatus: for a card, any attempt that was approved, then any that was returned.
fetchStatus(id) ==
    IF psp = "mercadopago"
    THEN IF Algum("paga") THEN "confirmed" ELSE IF Algum("devolvida") THEN "refunded" ELSE "pending"
    ELSE mapStatus(cobrancas[id])

\* resolveWebhook: Cora and Mercado Pago are consulted again, about the charge or the one
\* attempt of the event; Asaas and the test provider are taken at their word.
Resolve(ev) == mapStatus(IF psp \in ComChave THEN cobrancas[ev[1]] ELSE ev[2])

Le(resposta) == lidas' = lidas \cup {resposta}

Aviso ==
    /\ \E ev \in eventos :
          /\ psp = "mercadopago" \/ ev[1] = pagamento.id
          /\ Resolve(ev) # "pending"
          /\ Le(Resolve(ev))
    /\ pagamento.id > 0
    /\ UNCHANGED <<psp, token, pagamento, reservada, criacao, postagens, cobrancas, paginas, eventos, postadas, falhasPsp>>

Consulta ==
    /\ psp \in ComChave /\ pagamento.status = "pendente" /\ pagamento.id > 0
    /\ fetchStatus(pagamento.id) # "pending"
    /\ Le(fetchStatus(pagamento.id))
    /\ UNCHANGED <<psp, token, pagamento, reservada, criacao, postagens, cobrancas, paginas, eventos, postadas, falhasPsp>>

\* applyProviderStatus
Aplica ==
    /\ \E r \in lidas :
          /\ lidas' = lidas \ {r}
          /\ pagamento' = [pagamento EXCEPT !.status =
                CASE @ = "estornado" -> @
                  [] r = "confirmed" -> "confirmado"
                  [] r = "refunded" -> "estornado"
                  [] r = "failed" /\ @ # "confirmado" -> "falhou"
                  [] OTHER -> @]
    /\ UNCHANGED <<psp, token, reservada, criacao, postagens, cobrancas, paginas, eventos, postadas, falhasPsp>>

Expira ==
    /\ reservada /\ pagamento.id > 0 /\ reservada' = FALSE
    /\ UNCHANGED <<psp, token, pagamento, criacao, lidas, postagens, cobrancas, paginas, eventos, postadas, falhasPsp>>

\* reconcilePending of a reservation that ended: cancelCharge (only Cora has it, and it
\* refuses a charge that is paid), then the release.
CancelaEncerrada ==
    /\ psp \in ComChave /\ ~reservada /\ pagamento.status = "pendente" /\ pagamento.id > 0
    /\ fetchStatus(pagamento.id) = "pending"
    /\ IF psp = "cora"
       THEN cobrancas[pagamento.id] = "aberta" /\ Muda(pagamento.id, "cancelada")
       ELSE UNCHANGED <<cobrancas, eventos>>
    /\ pagamento' = [pagamento EXCEPT !.status = "falhou"]
    /\ UNCHANGED <<psp, token, reservada, criacao, lidas, postagens, paginas, postadas, falhasPsp>>

-----------------------------------------------------------------------------

TypeOK ==
    /\ psp \in {"cora", "mercadopago", "asaas", "mock"}
    /\ token \in {"nenhum", "bom", "vencido"}
    /\ pagamento \in [status : {"nenhum", "pendente", "confirmado", "falhou", "estornado"}, id : 0..MaxCobrancas]
    /\ reservada \in BOOLEAN
    /\ criacao \in [fase : {"nada", "envia", "repete", "espera", "grava"}, confirmada : BOOLEAN]
    /\ postagens \in 0..MaxPostagens /\ postadas \in 0..MaxPostagens
    /\ cobrancas \in Seq(Estados) /\ Len(cobrancas) <= MaxCobrancas
    /\ paginas \in 0..1
    /\ eventos \subseteq (1..MaxCobrancas) \X Estados
    /\ lidas \subseteq {"confirmed", "failed", "refunded"}
    /\ falhasPsp \in 0..MaxFalhas

Init ==
    /\ psp \in {"cora", "mercadopago", "asaas", "mock"}
    /\ token = "nenhum"
    /\ pagamento = [status |-> "nenhum", id |-> 0]
    /\ reservada = TRUE
    /\ criacao = Parada
    /\ postagens = 0 /\ postadas = 0 /\ cobrancas = <<>> /\ paginas = 0
    /\ eventos = {} /\ lidas = {} /\ falhasPsp = 0

Next ==
    \/ Reivindica \/ Envia \/ Chega \/ Responde \/ Grava \/ SemResposta \/ Para \/ TokenVence
    \/ NoProvedor
    \/ Aviso \/ Consulta \/ Aplica \/ Expira \/ CancelaEncerrada
Spec == Init /\ [][Next]_vars

-----------------------------------------------------------------------------
(* Properties *)

\* "An uncertain network result must reuse the same provider key, never create a new
\* charge": however often the creation is tried, the customer has one charge to pay.
OneCharge == psp # "mercadopago" => Len(cobrancas) <= 1

\* A charge the site gave up at Cora, after its identifier was known, cannot be paid any more.
FailedCannotBePaid ==
    psp = "cora" /\ pagamento.status = "falhou" /\ pagamento.id > 0 =>
        cobrancas[pagamento.id] = "cancelada"

\* A card that was approved is found by the consultation whatever happened to the other
\* attempts of its page, and no row says more than the provider knows.
MoneyIsFound ==
    /\ pagamento.id > 0 /\ Algum("paga") => fetchStatus(pagamento.id) = "confirmed"
    /\ pagamento.status = "confirmado" => Algum("paga") \/ Algum("devolvida")
    /\ pagamento.status = "estornado" => Algum("devolvida")

ChargesAreSound == OneCharge /\ FailedCannotBePaid /\ MoneyIsFound
=============================================================================
