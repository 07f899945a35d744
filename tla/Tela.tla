-------------------------------- MODULE Tela --------------------------------
(***************************************************************************)
(* What the buyer sees of the payment while the sale moves: the checkout   *)
(* page (checkout.tsx) and the payment panel inside Minhas Cotas           *)
(* (payment-instructions.tsx in account-dashboard.tsx).  Both poll the     *)
(* API; a poll is a request whose answer was true when the server read the *)
(* row and may arrive late, out of order or never.                         *)
(***************************************************************************)
EXTENDS VendaCotas

CONSTANTS
    MaxLeituras,    \* bound: polls of a page in flight at the same time
    MaxVisitas      \* bound: pages the buyer opens

ASSUME TelaAssumption == MaxLeituras \in Nat /\ MaxVisitas \in Nat

VARIABLES
    pagina,         \* "fora", "checkout", "conta" (Minhas Cotas) or "login"
    aberta,         \* the share of the page
    visto,          \* the status the page shows; "nada" before the first answer
    leituras,       \* answers of the polls on their way
    voltando,       \* checkout: the countdown back to the pool is running
    cartao,         \* conta: what the card of the share says, and what the list on its way says
    visitas
telaVars == <<pagina, aberta, visto, leituras, voltando, cartao, visitas>>
tudo == <<vars, telaVars>>

Dizeres == {"nada", "a pagar", "nada a pagar"}
Diz == IF statusCota[aberta] = "reservada" /\ statusPag[aberta] = "pendente" THEN "a pagar" ELSE "nada a pagar"

TelaTypeOK ==
    /\ pagina \in {"fora", "checkout", "conta", "login"}
    /\ aberta \in Cotas
    /\ visto \in StatusPagamento \cup {"nada"}
    /\ leituras \subseteq StatusPagamento
    /\ voltando \in BOOLEAN
    /\ cartao \in [tela : Dizeres, chegando : Dizeres]
    /\ visitas \in 0..MaxVisitas

SemLista == [tela |-> "nada", chegando |-> "nada"]
TelaInit ==
    /\ pagina = "fora" /\ aberta \in Cotas /\ visto = "nada" /\ leituras = {}
    /\ voltando = FALSE /\ cartao = SemLista /\ visitas = 0

\* The panel is there while the card says there is something to pay (and, by the clock of
\* the device, in time: not followed here, it only takes the panel away earlier).
ComPainel == pagina = "conta" /\ cartao.tela = "a pagar"

-----------------------------------------------------------------------------

Sai(para) ==
    /\ pagina' = para /\ visto' = "nada" /\ leituras' = {} /\ voltando' = FALSE
    /\ cartao' = SemLista

\* The buyer opens the checkout of a reservation, or their shares, or closes the page.
Abre ==
    /\ visitas < MaxVisitas
    /\ statusCota[aberta] # "livre"
    /\ \E p \in {"checkout", "conta", "fora"} : pagina # p /\ Sai(p)
    /\ visitas' = visitas + 1
    /\ UNCHANGED aberta

\* The checkout asks until it has an answer other than "pendente" (an answer "there is no
\* charge" leaves it without one); the panel, while it shows "pendente".
ParaSemCobranca == visto \in {"nada", "pendente"}
Acompanha == IF pagina = "checkout" THEN visto \in {"nada", "nenhum", "pendente"}
                                    ELSE ComPainel /\ visto = "pendente"

\* load, refresh: the server reads the row.
Pergunta ==
    /\ pagina \in {"checkout", "conta"} /\ Acompanha
    /\ Cardinality(leituras \cup {statusPag[aberta]}) <= MaxLeituras
    /\ leituras' = leituras \cup {statusPag[aberta]}
    /\ UNCHANGED <<pagina, aberta, visto, voltando, cartao, visitas>>

\* The answer is shown, even if a later one was shown before.  The countdown starts with
\* the first confirmation and nothing stops it.
Mostra ==
    /\ \E s \in leituras :
          /\ leituras' = leituras \ {s}
          /\ visto' = IF s = "nenhum" /\ visto # "nada" THEN visto ELSE s
          /\ voltando' = (voltando \/ (pagina = "checkout" /\ s = "confirmado"))
    /\ UNCHANGED <<pagina, aberta, cartao, visitas>>

Perde ==
    /\ \/ \E s \in leituras : leituras' = leituras \ {s} /\ UNCHANGED cartao
       \/ cartao.chegando # "nada" /\ cartao' = [cartao EXCEPT !.chegando = "nada"] /\ UNCHANGED leituras
    /\ UNCHANGED <<pagina, aberta, visto, voltando, visitas>>

\* REDIRECT_SECONDS after the confirmation, back to the pool.
Volta ==
    /\ voltando /\ Sai("fora")
    /\ UNCHANGED <<aberta, visitas>>

\* The session cannot be renewed; the login page leads back to the checkout, or to the account.
Desconecta ==
    /\ pagina \in {"checkout", "conta"}
    /\ Sai("login")
    /\ UNCHANGED <<aberta, visitas>>

-----------------------------------------------------------------------------
(* Minhas Cotas reads the whole list every 30 s, one read at a time *)

PedeLista ==
    /\ pagina = "conta" /\ cartao.chegando = "nada"
    /\ cartao' = [cartao EXCEPT !.chegando = Diz]
    /\ UNCHANGED <<pagina, aberta, visto, leituras, voltando, visitas>>

\* The new list gives the panel its payment again.
MostraLista ==
    /\ cartao.chegando # "nada"
    /\ cartao' = [tela |-> cartao.chegando, chegando |-> "nada"]
    /\ IF cartao.chegando = "a pagar"
       THEN visto' = "pendente" /\ UNCHANGED leituras
       ELSE visto' = "nada" /\ leituras' = {}                       \* the panel is taken away
    /\ UNCHANGED <<pagina, aberta, voltando, visitas>>

-----------------------------------------------------------------------------

TelaAnda == Abre \/ Pergunta \/ Mostra \/ Perde \/ Volta \/ Desconecta \/ PedeLista \/ MostraLista

\* The timers of an open page run, and a connection that loses answers does not lose all of them.
TelaJustica ==
    /\ WF_tudo(Pergunta /\ UNCHANGED vars) /\ SF_tudo(Mostra /\ UNCHANGED vars)
    /\ WF_tudo(PedeLista /\ UNCHANGED vars) /\ SF_tudo(MostraLista /\ UNCHANGED vars)
    /\ WF_tudo(Volta /\ UNCHANGED vars)

\* "Esta tela confirma sozinha, sem precisar atualizar": once the payment is confirmed,
\* the page the buyer has open stops waiting, whatever answers were lost or late.
Espera == \/ pagina = "checkout" /\ visto \in {"nada", "nenhum", "pendente"}
          \/ ComPainel /\ visto = "pendente"
PaidIsShown == statusPag[aberta] = "confirmado" /\ Espera ~> ~Espera
=============================================================================
