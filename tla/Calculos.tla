------------------------------ MODULE Calculos ------------------------------
(***************************************************************************)
(* The calculations that decide on money, each a pure function of the      *)
(* source: the price of a bet and of a share (pricing.engine.ts), the      *)
(* prize of a game and its division among the shares (settlement.ts), and  *)
(* the comparison of the typed ticket with the pool (ticket-match.ts).     *)
(* Each action makes one of them on an input of the bounded sets below and *)
(* keeps input and result in "calculo".  Money is in cents.                *)
(***************************************************************************)
EXTENDS Integers, FiniteSets, FiniteSetsExt, SequencesExt, Functions

CONSTANTS
    Partes,         \* ids of shares, numbers because the code orders them
    Jogos,          \* keys of games: the numbers of a game, put in order where order is nothing
    MaxQuantidade, MaxTotal, MaxCusto, MaxCotas, MaxValor, MaxJogos   \* bounds of the inputs

VARIABLE calculo
vars == <<calculo>>

Nenhum == [op |-> "nenhum"]
Teto(a, b) == (a + b - 1) \div b                    \* Math.ceil(a / b)
Arredonda(a, b) == (2 * a + b) \div (2 * b)         \* Math.round(a / b)

-----------------------------------------------------------------------------
(* splitPrize.  Quantity 0 stands for a share that is not in the list. *)

Exato(total, q, c) == total * q[c]
Unidades(q) == MapThenSumSet(LAMBDA c : q[c], Partes)
Base(total, q, c) == Exato(total, q, c) \div Unidades(q)
Fracao(total, q, c) == Exato(total, q, c) % Unidades(q)

\* Cents that the floors leave over go to the largest fractions, then to the smallest ids.
Antes(total, q, b, c) ==
    \/ Fracao(total, q, b) > Fracao(total, q, c)
    \/ Fracao(total, q, b) = Fracao(total, q, c) /\ b < c
Sobra(total, q) == total - MapThenSumSet(LAMBDA c : Base(total, q, c), Partes)
SobraDe(total, q, c) ==
    IF Cardinality({b \in Partes : q[b] > 0 /\ Antes(total, q, b, c)}) < Sobra(total, q) THEN 1 ELSE 0

splitPrize(total, q) ==
    [c \in Partes |-> IF Unidades(q) = 0 \/ total = 0 \/ q[c] = 0 THEN 0
                     ELSE Base(total, q, c) + SobraDe(total, q, c)]

Divide ==
    \E total \in 0..MaxTotal : \E q \in [Partes -> 0..MaxQuantidade] :
        calculo' = [op |-> "divide", total |-> total, cotas |-> q, partes |-> splitPrize(total, q)]

-----------------------------------------------------------------------------
(* settleGames, for one game, from its hits in each draw.  A tier that nobody won is not  *)
(* paid.                                                                                 *)

\* A table has a row per tier, of each draw or of both at once.
Tabelas == UNION {[(2..3) \X sorteios -> [valor : {1, 5}, ganhadores : {0, 1}]] :
                     sorteios \in {{FALSE}, BOOLEAN}}
Pagas(ts) == {t \in DOMAIN ts : ts[t].ganhadores > 0}
Separa(ts) == \E t \in Pagas(ts) : t[2]
Faixas(ts, acertos, segundo) ==
    {t \in Pagas(ts) : t[1] = acertos /\ (Separa(ts) => t[2] = segundo)}
Valor(ts, S) == MapThenSumSet(LAMBDA t : ts[t].valor, S)
settleGames(ts, primeiro, segundo) ==
    Valor(ts, Faixas(ts, primeiro, FALSE)) + Valor(ts, Faixas(ts, segundo, TRUE))

Premia ==
    \E ts \in Tabelas : \E a, b \in 1..3 :
        calculo' = [op |-> "premia", faixas |-> ts, primeiro |-> a, segundo |-> b,
                    valor |-> settleGames(ts, a, b)]

-----------------------------------------------------------------------------
(* splitPool, splitPoolByQuota and splitPoolByFee: the registration and the fee of a share *)

Preco(custo, cotas, registro, taxa) ==
    [op |-> "preco", custo |-> custo, cotas |-> cotas, registro |-> registro, taxa |-> taxa,
     cota |-> registro + taxa, orcamento |-> registro * cotas, reserva |-> registro * cotas - custo,
     administracao |-> taxa * cotas, total |-> (registro + taxa) * cotas]

ParteSemTeto(custo, cotas) == custo \div cotas
Parte(custo, cotas) == Teto(custo, cotas)

PorPercentual(custo, cotas, bps) ==
    Preco(custo, cotas, Parte(custo, cotas), Arredonda(Parte(custo, cotas) * bps, 10000))

PorCota(custo, cotas, cota) == Preco(custo, cotas, Parte(custo, cotas), cota - Parte(custo, cotas))
PorTaxa(custo, cotas, cota, taxa) == Preco(custo, cotas, cota - taxa, taxa)

Precifica ==
    \E custo \in 0..MaxCusto : \E cotas \in 1..MaxCotas :
        \/ \E bps \in {0, 1250, 3500} :
              custo > 0 /\ calculo' = PorPercentual(custo, cotas, bps)
        \/ \E cota \in 1..MaxValor :
              cota >= Parte(custo, cotas) /\ calculo' = PorCota(custo, cotas, cota)
        \/ \E cota \in 1..MaxValor : \E taxa \in 0..cota :
              cota - taxa >= Parte(custo, cotas) /\ calculo' = PorTaxa(custo, cotas, cota, taxa)

-----------------------------------------------------------------------------
(* planPricing, the price the form shows: the share is typed or made from its part of the  *)
(* bets; the fee is a percentage of the share, an amount per share or for the whole pool,   *)
(* or what is left                                                                          *)

Taxas == [modo : {"pct"}, valor : {0, 7, 35, 99, 100}]
         \cup [modo : {"cota", "total"}, valor : 0..MaxValor] \cup {[modo |-> "sobra", valor |-> 0]}

ComPctSemTeto(parte, pct) == (parte * 100) \div (100 - pct)
ComPct(parte, pct) == Teto(parte * 100, 100 - pct)

\* Typed: 0 when it is made from the part of the bets.
planPricing(custo, cotas, digitada, taxa) ==
    LET parte == Parte(custo, cotas)
        cota == IF digitada > 0 THEN digitada
                ELSE CASE taxa.modo = "pct" -> ComPct(parte, taxa.valor)
                       [] taxa.modo = "cota" -> parte + taxa.valor
                       [] OTHER -> parte + Arredonda(taxa.valor, cotas)
        daCota == IF digitada = 0 \/ taxa.modo = "sobra" THEN cota - parte
                  ELSE CASE taxa.modo = "pct" -> Arredonda(cota * taxa.valor, 100)
                         [] taxa.modo = "cota" -> taxa.valor
                         [] OTHER -> Arredonda(taxa.valor, cotas)
    IN  [cota |-> cota, taxa |-> daCota, ok |-> cota > 0 /\ daCota >= 0 /\ cota - daCota >= parte]

Planeja ==
    \E custo \in 0..MaxCusto : \E cotas \in 1..MaxCotas :
    \E digitada \in 0..MaxValor : \E taxa \in Taxas :
        /\ digitada = 0 => custo > 0 /\ taxa.modo # "sobra" /\ ~(taxa.modo = "pct" /\ taxa.valor = 100)
        /\ calculo' = [op |-> "plano", custo |-> custo, cotas |-> cotas, pedida |-> taxa,
                       calculada |-> digitada = 0,
                       plano |-> planPricing(custo, cotas, digitada, taxa)]

-----------------------------------------------------------------------------
(* officialPriceRows: simple bets in one with "n" numbers, or with columns of 1, 2 or 3 *)

\* The product and its divisions are taken in the order of the loop.
choose(n, k) == FoldLeft(LAMBDA r, i : (r * (n - i + 1)) \div i, 1, [i \in 1..k |-> i])

SuperSete(n) == IF n <= 14 THEN 2^(n - 7) ELSE 3^(n - 14) * 2^(21 - n)

\* selectionKey: the columns of a Super Sete bet with d doubles and t triples.
Distribuida(d, t) ==
    LET n == 7 + d + 2 * t
    IN  IF n <= 14 THEN t = 0 ELSE d + t = 7

Tabula ==
    \/ \E n \in 6..9 : calculo' = [op |-> "numeros", n |-> n, apostas |-> choose(n, 6)]
    \/ \E d, t \in 0..7 :
          /\ d + t <= 7 /\ Distribuida(d, t)
          /\ calculo' = [op |-> "colunas", duplas |-> d, triplas |-> t,
                         apostas |-> SuperSete(7 + d + 2 * t)]

-----------------------------------------------------------------------------
(* assertTicketMatchesPool: each informed game takes one equal game of the pool *)

Ocorrencia(s, j) == SelectInSeq(s, LAMBDA x : x = j)
RetiraTodas(s, j) == SelectSeq(s, LAMBDA x : x # j)
Retira(s, j) == RemoveAt(s, Ocorrencia(s, j))

assertTicketMatchesPool(jogos, informados) ==
    LET fim == FoldLeft(LAMBDA f, j : IF Ocorrencia(f.pendentes, j) = 0
                                     THEN [f EXCEPT !.fora = TRUE]
                                     ELSE [f EXCEPT !.pendentes = Retira(@, j)],
                        [pendentes |-> jogos, fora |-> FALSE], informados)
    IN  informados # <<>> /\ ~fim.fora /\ fim.pendentes = <<>>

Confere ==
    \E jogos, informados \in BoundedSeq(Jogos, MaxJogos) :
        calculo' = [op |-> "confere", jogos |-> jogos, informados |-> informados,
                    aceito |-> assertTicketMatchesPool(jogos, informados)]

-----------------------------------------------------------------------------

TypeOK == calculo.op \in {"nenhum", "divide", "premia", "preco", "plano", "numeros", "colunas", "confere"}

Init == calculo = Nenhum
Next == calculo = Nenhum /\ (Divide \/ Premia \/ Precifica \/ Planeja \/ Tabula \/ Confere)
Spec == Init /\ [][Next]_vars

-----------------------------------------------------------------------------
(* Properties *)

\* The parts of a prize add up to it ("a soma das partes é SEMPRE igual ao total"),
\* each is the exact fraction give or take a cent, and a smaller share never gets more.
PartesSomam ==
    calculo.op = "divide" =>
        LET q == calculo.cotas  p == calculo.partes  n == Unidades(q)
        IN  /\ n > 0 => MapThenSumSet(LAMBDA c : p[c], Partes) = calculo.total
            /\ \A c \in Partes : n > 0 => /\ p[c] * n < calculo.total * q[c] + n
                                         /\ p[c] * n > calculo.total * q[c] - n
            /\ \A b, c \in Partes : q[b] < q[c] => p[b] <= p[c]

\* A game is paid, in each draw, the tier its hits reach there, when the table of
\* CAIXA counts it among the winners of that tier.
PremioDoSorteio ==
    calculo.op = "premia" =>
        LET ts == calculo.faixas
            separada == <<2, TRUE>> \in DOMAIN ts
            Da(acertos, segundo) == {<<acertos, segundo /\ separada>>} \cap DOMAIN ts
            primeiro == Da(calculo.primeiro, FALSE)
            segundo == Da(calculo.segundo, TRUE)
        IN  primeiro \cup segundo \subseteq Pagas(ts) =>
                calculo.valor = Valor(ts, primeiro) + Valor(ts, segundo)

\* What the shares pay covers the bet, and is the budget of the bet plus the fee; the
\* excess of the rounding is less than a cent a share unless the price is free.
PrecoFecha ==
    calculo.op = "preco" =>
        /\ calculo.orcamento >= calculo.custo
        /\ calculo.orcamento + calculo.administracao = calculo.total
        /\ calculo.registro = Parte(calculo.custo, calculo.cotas) => calculo.reserva < calculo.cotas

\* "O servidor refaz esta conta": what the form accepts the server accepts, and a share
\* made from its part of the bets keeps the fee asked for, or less than a cent more.
PlanoConfere ==
    calculo.op = "plano" =>
        LET p == calculo.plano
            parte == Parte(calculo.custo, calculo.cotas)
            pct == calculo.pedida.valor
        IN  /\ p.ok => LET s == PorTaxa(calculo.custo, calculo.cotas, p.cota, p.taxa)
                       IN  s.orcamento >= calculo.custo /\ s.total = p.cota * calculo.cotas
            /\ calculo.calculada =>
                  /\ p.ok
                  /\ calculo.pedida.modo = "pct" =>
                        /\ p.taxa * 100 >= p.cota * pct
                        /\ (p.taxa - 1) * 100 < (p.cota - 1) * pct
            /\ calculo.pedida.modo = "total" =>
                  2 * (p.taxa * calculo.cotas - pct) \in (-calculo.cotas)..calculo.cotas

\* The table charges a multiple bet as many times as the simple bets it holds.
TabelaConta ==
    /\ calculo.op = "numeros" => calculo.apostas = Cardinality(kSubset(6, 1..calculo.n))
    /\ calculo.op = "colunas" => calculo.apostas = 2^calculo.duplas * 3^calculo.triplas

\* A bet is registered exactly when the ticket has the games of the pool, each as
\* many times as the pool has it, in any order.
BilheteConfere ==
    calculo.op = "confere" =>
        (calculo.aceito <=>
            /\ calculo.informados # <<>>
            /\ \A j \in Jogos : Cardinality({i \in DOMAIN calculo.jogos : calculo.jogos[i] = j})
                              = Cardinality({i \in DOMAIN calculo.informados : calculo.informados[i] = j}))

\* What was priced is what is bet, and what is won is what is given out.
MoneyAddsUp == PartesSomam /\ PremioDoSorteio /\ PrecoFecha /\ PlanoConfere /\ TabelaConta /\ BilheteConfere
=============================================================================
