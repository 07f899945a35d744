----------------------------- MODULE Assistente -----------------------------
(***************************************************************************)
(* How a pool gets its price: the table of CAIXA's prices, loaded by every *)
(* instance that starts and versioned by administrators                    *)
(* (pricing.service.ts, pricing-admin.controller.ts); the form of a new    *)
(* pool, which quotes itself while it is filled in (pool-wizard.tsx); and  *)
(* the server that prices it again and creates it (pools.service.ts).  The *)
(* bets of the form are all of one kind, so the table has one key.         *)
(* Amounts are in cents.  An affiliate who does without the table types    *)
(* the cost and the price, and nothing is computed: left out.              *)
(***************************************************************************)
EXTENDS Integers, Sequences, FiniteSets

CONSTANTS
    Instancias,     \* instances of the API
    Precos,         \* prices CAIXA may set
    Valores,        \* amounts typed in the form
    MaxVersoes      \* bound: rows of the table

VARIABLES
    tabela,         \* precos_loteria: the versions, the oldest first
    carga,          \* instances that found the table empty and are about to load it
    form,           \* what is typed
    precoPagina,    \* the price in the page, read when it opened; 0 before
    cotacao,        \* the quote the form shows
    buscas,         \* quotes on their way
    criacao,        \* POST of the new pool in progress
    bolao           \* the pool created, with history of what was shown and in force
vars == <<tabela, carga, form, precoPagina, cotacao, buscas, criacao, bolao>>

\* "afiliado": a share costs its part of the bets plus a percentage.  The others are the
\* administrator's: the share typed ("digitar"), its fee typed ("registro"), or the share
\* and the cost of the bets typed ("manual").
Modos == {"afiliado", "digitar", "registro", "manual"}
Forms == [modo : Modos, jogos : 1..2, cotas : 2..3, valor : Valores]
Nada == [fase |-> "nada"]
SemCotacao == [total |-> 0]

Teto(a, b) == (a + b - 1) \div b
Vigentes == {i \in DOMAIN tabela : tabela[i].vigente}
Preco == IF Vigentes = {} THEN 0 ELSE tabela[CHOOSE i \in Vigentes : TRUE].valor

Init ==
    /\ tabela = <<>> /\ carga = {}
    /\ form \in [modo : {"afiliado", "digitar"}, jogos : {1}, cotas : {2}, valor : {CHOOSE v \in Valores : TRUE}]
    /\ precoPagina = 0 /\ cotacao = SemCotacao /\ buscas = {}
    /\ criacao = Nada /\ bolao = Nada

-----------------------------------------------------------------------------
(* The table *)

\* ensureOfficialPrices looks for the keys that are missing, then creates their rows; the
\* unique key (kind, key, date) skips what another instance created meanwhile.
Falta(i) ==
    /\ tabela = <<>>
    /\ carga' = carga \cup {i}
    /\ UNCHANGED <<tabela, form, precoPagina, cotacao, buscas, criacao, bolao>>

SemChave(v) == tabela' = Append(tabela, [valor |-> v, oficial |-> TRUE, vigente |-> TRUE])
Oficial(v) ==
    IF \E k \in DOMAIN tabela : tabela[k].oficial
    THEN UNCHANGED tabela
    ELSE tabela' = Append(tabela, [valor |-> v, oficial |-> TRUE, vigente |-> TRUE])

Carrega(i) ==
    /\ i \in carga /\ Len(tabela) < MaxVersoes
    /\ carga' = carga \ {i}
    /\ Oficial(CHOOSE v \in Precos : TRUE)
    /\ UNCHANGED <<form, precoPagina, cotacao, buscas, criacao, bolao>>

\* version, under the lock of the key: the version in force ends and a new one begins.  (The
\* panel offers the rows of the table.)
Versiona(v) ==
    /\ tabela # <<>> /\ Len(tabela) < MaxVersoes
    /\ tabela' = Append([k \in DOMAIN tabela |-> [tabela[k] EXCEPT !.vigente = FALSE]],
                        [valor |-> v, oficial |-> FALSE, vigente |-> TRUE])
    /\ criacao' = IF criacao = Nada THEN Nada ELSE [criacao EXCEPT !.vigor = @ \cup {v}]
    /\ UNCHANGED <<carga, form, precoPagina, cotacao, buscas, bolao>>

\* The page reads the table once, and again only while it was empty.
LeTabela ==
    /\ precoPagina = 0 /\ Preco > 0
    /\ precoPagina' = Preco
    /\ UNCHANGED <<tabela, carga, form, cotacao, buscas, criacao, bolao>>

-----------------------------------------------------------------------------
(* The form *)

\* What a quote is of: a change of anything else keeps it.
De(f) == [jogos |-> f.jogos, cotas |-> f.cotas, tabela |-> f.modo # "manual",
          taxa |-> IF f.modo = "afiliado" THEN f.valor ELSE 0]

\* splitPool, with the percentage typed, and the parts of planPricing that the modes use.
Registro(f, custo) == Teto(custo, f.cotas)
TaxaDe(f, custo) ==
    CASE f.modo = "afiliado" -> (2 * Registro(f, custo) * f.valor + 100) \div 200
      [] f.modo = "registro" -> f.valor
      [] OTHER -> 1
CotaDe(f, custo) == IF f.modo \in {"digitar", "manual"} THEN f.valor ELSE Registro(f, custo) + TaxaDe(f, custo)
Cobre(f, cota, taxa, custo) == cota - taxa >= Registro(f, custo)

\* The cost the form counts with: quoted, or of the page's table, or typed.
CustoNaTela == IF form.modo = "manual" THEN form.jogos * form.valor
               ELSE IF cotacao # SemCotacao THEN cotacao.custo ELSE form.jogos * precoPagina

\* A change of what is quoted takes the quote away and aborts the one on its way.  Games
\* that were generated or suggested change the form when they arrive.  (While the pool is
\* being saved the form is left alone: what is saved was taken from it before.)
MantemBuscas(antes) == antes
Aborta(antes) == {}
Edita ==
    /\ criacao = Nada
    /\ \E f \in Forms :
          /\ f # form /\ (f.modo = "afiliado" <=> form.modo = "afiliado")
          /\ form' = f
          /\ IF De(f) = De(form)
             THEN UNCHANGED <<cotacao, buscas>>
             ELSE cotacao' = SemCotacao /\ buscas' = Aborta(buscas)
    /\ UNCHANGED <<tabela, carga, precoPagina, criacao, bolao>>

\* 350 ms without a change.
Pede ==
    /\ criacao = Nada /\ form.modo # "manual" /\ cotacao = SemCotacao /\ buscas = {}
    /\ buscas' = {[de |-> De(form), f |-> form, custo |-> 0]}
    /\ UNCHANGED <<tabela, carga, form, precoPagina, cotacao, criacao, bolao>>

\* quote, at the server; a failure shows an error in the place of the quote.
Cota ==
    /\ Preco > 0
    /\ \E b \in buscas :
          /\ b.custo = 0
          /\ buscas' = (buscas \ {b}) \cup {[b EXCEPT !.custo = b.f.jogos * Preco]}
    /\ UNCHANGED <<tabela, carga, form, precoPagina, cotacao, criacao, bolao>>

ChegaCotacao ==
    /\ \E b \in buscas :
          /\ b.custo > 0
          /\ buscas' = buscas \ {b}
          /\ cotacao' = [de |-> b.de, custo |-> b.custo,
                         total |-> b.f.cotas * CotaDe([b.f EXCEPT !.modo = "afiliado"], b.custo)]
    /\ UNCHANGED <<tabela, carga, form, precoPagina, criacao, bolao>>

-----------------------------------------------------------------------------
(* The creation *)

Mostrado == IF form.modo = "afiliado" THEN cotacao.total ELSE form.cotas * CotaDe(form, CustoNaTela)

\* submit: the body is what the page knows now.
Envia ==
    /\ criacao = Nada
    /\ form.modo # "manual" => cotacao # SemCotacao
    /\ form.modo # "afiliado" =>
           Cobre(form, CotaDe(form, CustoNaTela), TaxaDe(form, CustoNaTela), CustoNaTela)
    /\ criacao' = [fase |-> "confere", f |-> form, total |-> Mostrado, custo |-> CustoNaTela,
                   cota |-> CotaDe(form, CustoNaTela), taxa |-> TaxaDe(form, CustoNaTela),
                   vigor |-> {Preco}]
    /\ UNCHANGED <<tabela, carga, form, precoPagina, cotacao, buscas, bolao>>

\* create prices the bets again, now, and wants the total the form showed.
CustoDoCorpo(c) == c.custo
CustoNoServidor(c) == IF c.f.modo = "manual" THEN c.custo ELSE c.f.jogos * Preco
Aceita(c, custo) ==
    IF c.f.modo = "afiliado"
    THEN c.total = c.f.cotas * CotaDe(c.f, custo)
    ELSE Cobre(c.f, c.cota, c.taxa, custo) /\ c.total = c.f.cotas * c.cota

Confere ==
    /\ criacao.fase = "confere"
    /\ LET custo == CustoNoServidor(criacao)
       IN  criacao' = IF Aceita(criacao, custo)
                      THEN [criacao EXCEPT !.fase = "cria", !.custo = custo] ELSE Nada
    /\ UNCHANGED <<tabela, carga, form, precoPagina, cotacao, buscas, bolao>>

\* The pool is written with the price that was checked, whatever the table says by now; the
\* form starts over.
Cria ==
    /\ criacao.fase = "cria"
    /\ bolao' = LET livre == criacao.f.modo # "afiliado"
                    taxa == IF livre THEN criacao.taxa ELSE TaxaDe(criacao.f, criacao.custo)
                    cota == IF livre THEN criacao.cota ELSE CotaDe(criacao.f, criacao.custo)
                IN  [fase |-> "criado", modo |-> criacao.f.modo, jogos |-> criacao.f.jogos,
                     cotas |-> criacao.f.cotas, cota |-> cota, taxa |-> taxa, custo |-> criacao.custo,
                     mostrado |-> criacao.total, vigor |-> criacao.vigor]
    /\ criacao' = Nada /\ cotacao' = SemCotacao /\ buscas' = {}
    /\ UNCHANGED <<tabela, carga, form, precoPagina>>

\* The request is lost, before or after the server did its work.
Perde ==
    /\ \/ criacao # Nada /\ criacao' = Nada /\ UNCHANGED buscas
       \/ buscas # {} /\ buscas' = {} /\ UNCHANGED criacao
    /\ UNCHANGED <<tabela, carga, form, precoPagina, cotacao, bolao>>

-----------------------------------------------------------------------------

TypeOK ==
    /\ Len(tabela) <= MaxVersoes /\ \A k \in DOMAIN tabela : tabela[k].valor \in Precos
    /\ carga \subseteq Instancias
    /\ form \in Forms
    /\ precoPagina \in Precos \cup {0}
    /\ cotacao = SemCotacao \/ cotacao.custo \in Nat
    /\ Cardinality(buscas) <= 1
    /\ criacao.fase \in {"nada", "confere", "cria"}
    /\ bolao.fase \in {"nada", "criado"}

\* One pool: the form of the next one starts empty.
Next ==
    /\ bolao = Nada
    /\ \/ \E i \in Instancias : Falta(i) \/ Carrega(i)
       \/ \E v \in Precos : Versiona(v)
       \/ LeTabela \/ Edita \/ Pede \/ Cota \/ ChegaCotacao
       \/ Envia \/ Confere \/ Cria \/ Perde
Spec == Init /\ [][Next]_vars

-----------------------------------------------------------------------------
(* Properties *)

\* "Preço vigente ausente ou ambíguo" never happens to a loaded table: whatever loads and
\* versions overlap, one price is in force.
OnePriceInForce == tabela # <<>> => Cardinality(Vigentes) = 1

\* The quote on the screen is of the games, the shares and the fee on the screen.
QuoteIsOfTheForm == cotacao # SemCotacao => cotacao.de = De(form)

\* The pool sells for the total its author saw when saving, and what its shares leave for
\* the bets pays them at a price that was in force while the pool was being created,
\* however old the prices and the quote in the page were.
PoolIsAsShown ==
    bolao # Nada =>
        /\ bolao.cota * bolao.cotas = bolao.mostrado
        /\ (bolao.cota - bolao.taxa) * bolao.cotas >= bolao.custo
        /\ bolao.modo # "manual" => \E p \in bolao.vigor : bolao.custo = bolao.jogos * p

DraftsAreAsShown == OnePriceInForce /\ QuoteIsOfTheForm /\ PoolIsAsShown
=============================================================================
