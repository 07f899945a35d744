---------------------------- MODULE Estatisticas ----------------------------
(***************************************************************************)
(* The statistics of the lotteries of numbers (lottery-stats.ts) and the   *)
(* service that serves them (statistics.service.ts): the numbers of the    *)
(* history, the analysis of a game, the generation of games under rules,   *)
(* and one run of the import of the missing history.  Each action makes    *)
(* one computation on an input of the bounded sets below and keeps input   *)
(* and result in "consulta".  A lottery is the record of its rule.  Ratios *)
(* are compared by their integer numerators, a random draw is a choice.    *)
(***************************************************************************)
EXTENDS Integers, FiniteSets, FiniteSetsExt, SequencesExt

CONSTANTS
    Loterias,           \* rules: menor, maior, sorteia, apostaMin, apostaMax, dois (two draws a contest)
    Cartelas,           \* larger rules, for the games suggested without a history
    MenorJanela,        \* the smallest window of recent draws (5)
    Janelas,            \* the windows asked for, the default one (20) too
    AmostraAtraso,      \* the draws it takes to call a number overdue (10)
    TamanhoDoGrupo,     \* groupSize: 5 or 10 numbers
    Barras,             \* bars of the histogram of sums (12)
    Topo,               \* topN, the length of a ranking (10)
    DatasAte,           \* the numbers people take from dates (31)
    LimiteHistorico,    \* HISTORY_LIMIT, in contests
    MaxConcursos,       \* bound: contests with a result
    Quantidades,        \* how many games are asked for
    UltimoConcurso, Profundidades, Limites      \* the import: newest contest, depths and limits of a run

VARIABLE consulta
vars == <<consulta>>

Nenhuma == [op |-> "nenhuma"]
Universo(r) == r.menor..r.maior
universeSize(r) == r.maior - r.menor + 1
Impares(S) == {v \in S : v % 2 = 1}
Soma(f) == MapThenSumSet(LAMBDA x : f[x], DOMAIN f)
SomaDe(S) == Soma([v \in S |-> v])
Teto(a, b) == (a + b - 1) \div b

\* The lotteries of the code: universe, draw, sizes of a bet, hits that pay.
Loteria(menor, maior, sorteia, apostaMin, apostaMax, faixas) ==
    [menor |-> menor, maior |-> maior, sorteia |-> sorteia,
     apostaMin |-> apostaMin, apostaMax |-> apostaMax, faixas |-> faixas]
LOTTERY_RULES ==
    [megasena |-> Loteria(1, 60, 6, 6, 20, 4..6),       lotofacil |-> Loteria(1, 25, 15, 15, 20, 11..15),
     quina |-> Loteria(1, 80, 5, 5, 15, 2..5),          lotomania |-> Loteria(0, 99, 20, 50, 50, {0} \cup 16..20),
     duplasena |-> Loteria(1, 50, 6, 6, 15, 3..6),      timemania |-> Loteria(1, 80, 7, 10, 10, 3..7),
     diadesorte |-> Loteria(1, 31, 7, 7, 15, 4..7)]

\* The numbers of S in the order in which antes[v] are those that go before v.
EmOrdem(S, antes) == [i \in 1..Cardinality(S) |-> CHOOSE v \in S : Cardinality(antes[v]) = i - 1]
Crescente(S) == EmOrdem(S, [v \in S |-> {u \in S : u < v}])

\* Neighbours and the longest run of them, in one pass over the numbers in order.
Emenda(a, v) ==
    LET segue == a.antes # {} /\ v - 1 \in a.antes
        run == IF segue THEN a.run + 1 ELSE 1
    IN  [antes |-> {v}, run |-> run, maxRun |-> Max({a.maxRun, run}),
         pairs |-> a.pairs + (IF segue THEN 1 ELSE 0)]
consecutiveInfo(S) ==
    LET fim == FoldLeft(Emenda, [antes |-> {}, run |-> 0, maxRun |-> 0, pairs |-> 0], Crescente(S))
    IN  [pairs |-> fim.pairs, maxRun |-> fim.maxRun]

\* The mean of the sum of k drawn numbers, doubled, and its variance, times twelve.
theoreticalSum(r, k) ==
    LET N == universeSize(r)
    IN  [dobro |-> k * (r.menor + r.maior), doze |-> k * (N + 1) * (N - k)]

\* Within 1.645 deviations of the mean, where nine draws in ten fall.
Tipica(t, soma) == 3000 * (2 * soma - t.dobro) * (2 * soma - t.dobro) <= 2706 * t.doze

\* The groups of neighbouring numbers, counted from 0.
Grupo(r, v) == (v - r.menor) \div TamanhoDoGrupo
Grupos(r) == 0..((universeSize(r) - 1) \div TamanhoDoGrupo)
DoGrupo(r, S, g) == {v \in S : Grupo(r, v) = g}

-----------------------------------------------------------------------------
(* The history: the draws of the newest contests, oldest first *)

Sorteios(r) == kSubset(r.sorteia, Universo(r))

\* A result has one draw, or two where the lottery has two.
Linhas(r) == {<<s>> : s \in Sorteios(r)} \cup
             (IF r.dois THEN Sorteios(r) \X Sorteios(r) ELSE {})
Bases(r) == BoundedSeq(Linhas(r), MaxConcursos)

\* The rows come newest first, LimiteHistorico at most, and are read backwards.
dataset(base) ==
    LET desde == Max({0, Len(base) - LimiteHistorico})
        Lidos(i) == [k \in DOMAIN base[i] |-> [concurso |-> i, dezenas |-> base[i][k]]]
    IN  FlattenSeq([i \in 1..(Len(base) - desde) |-> Lidos(desde + i)])

-----------------------------------------------------------------------------
(* computeStats *)

Janela(draws, pedida) == Max({MenorJanela, Min({pedida, Max({Len(draws), MenorJanela})})})

\* One pass over the draws: indices start at 0, and -1 is "never seen".
Observa(a, d, v, desde) ==
    IF v \notin d.dezenas THEN [a EXCEPT !.i = @ + 1]
    ELSE [i |-> a.i + 1, vezes |-> a.vezes + 1, ultimo |-> a.i,
          intervalo |-> Max({a.intervalo, a.i - a.ultimo - 1}),
          recentes |-> a.recentes + (IF a.i >= desde THEN 1 ELSE 0)]
Percorre(draws, v, janela) ==
    FoldLeft(LAMBDA a, d : Observa(a, d, v, Len(draws) - janela),
             [i |-> 0, vezes |-> 0, ultimo |-> -1, intervalo |-> 0, recentes |-> 0], draws)

\* The longest gap between two draws of the number, without the one that still runs.
SemOAtual(intervalo, atraso) == intervalo
MaiorAtraso(intervalo, atraso) == Max({intervalo, atraso})

\* recentZ is desvio / sqrt(janela * d * (N - d)).
Dezena(r, draws, v, janela) ==
    LET n == Len(draws)  N == universeSize(r)  d == r.sorteia
        a == Percorre(draws, v, janela)
        atraso == n - 1 - a.ultimo
        desvio == a.recentes * N - janela * d
        longe == n >= janela /\ desvio * desvio >= janela * d * (N - d)
    IN  [vezes |-> a.vezes, recentes |-> a.recentes, atraso |-> atraso,
         maior |-> MaiorAtraso(a.intervalo, atraso),
         quente |-> longe /\ desvio > 0, fria |-> longe /\ desvio < 0,
         atrasada |-> n >= AmostraAtraso /\ atraso * d > 2 * N]

\* How many draws have each number of odd ones, and repeat each number of the previous draw.
ContaSe(draws, T(_)) == Cardinality({i \in DOMAIN draws : T(i)})
Paridade(r, draws) ==
    [odd \in 0..r.sorteia |-> ContaSe(draws, LAMBDA i : Cardinality(Impares(draws[i].dezenas)) = odd)]
Repetidas(draws, i) == Cardinality(draws[i].dezenas \cap draws[i - 1].dezenas)
Repeticao(r, draws) ==
    [k \in 0..r.sorteia |-> ContaSe(draws, LAMBDA i : i > 1 /\ Repetidas(draws, i) = k)]

\* How many draws have the two numbers together.
Pares(r, draws) ==
    [p \in kSubset(2, Universo(r)) |-> ContaSe(draws, LAMBDA i : p \subseteq draws[i].dezenas)]

\* Draws with neighbours, and the neighbours in all.
Seguidas(draws) ==
    [comPar |-> ContaSe(draws, LAMBDA i : consecutiveInfo(draws[i].dezenas).pairs > 0),
     pares |-> Soma([i \in DOMAIN draws |-> consecutiveInfo(draws[i].dezenas).pairs])]

PorGrupo(r, draws) ==
    [g \in Grupos(r) |-> Soma([i \in DOMAIN draws |-> Cardinality(DoGrupo(r, draws[i].dezenas, g))])]

\* Bars from three deviations under the mean to three over it; the last ones take what is beyond.
Abaixo(t) == Max({x \in (0 - t.doze)..t.dobro : 2 * x <= t.dobro /\ (t.dobro - 2 * x) * (t.dobro - 2 * x) >= 3 * t.doze})
Histograma(r, draws) ==
    LET t == theoreticalSum(r, r.sorteia)
        baixo == Abaixo(t)
        largura == Max({1, Teto(t.dobro - 2 * baixo, Barras)})
        barra == [i \in DOMAIN draws |->
                     Min({Barras - 1, Max({0, (SomaDe(draws[i].dezenas) - baixo) \div largura})})]
    IN  [b \in 0..(Barras - 1) |-> ContaSe(draws, LAMBDA i : barra[i] = b)]

\* The numbers with the largest (or smallest) value; a tie goes to the smaller number.
Ranking(r, valor, maiores) ==
    LET Antes(a, b) == \/ IF maiores THEN valor[a] > valor[b] ELSE valor[a] < valor[b]
                       \/ valor[a] = valor[b] /\ a < b
        ordem == EmOrdem(Universo(r), [v \in Universo(r) |-> {u \in Universo(r) : Antes(u, v)}])
    IN  SubSeq(ordem, 1, Min({Topo, Len(ordem)}))

computeStats(r, draws, pedida) ==
    LET janela == Janela(draws, pedida)
        dezenas == [v \in Universo(r) |-> Dezena(r, draws, v, janela)]
        vezes == [v \in Universo(r) |-> dezenas[v].vezes]
    IN  [janela |-> janela, dezenas |-> dezenas,
         somas |-> [i \in DOMAIN draws |-> SomaDe(draws[i].dezenas)],
         histograma |-> Histograma(r, draws), seguidas |-> Seguidas(draws), grupos |-> PorGrupo(r, draws),
         mais |-> Ranking(r, vezes, TRUE), menos |-> Ranking(r, vezes, FALSE),
         atraso |-> Ranking(r, [v \in Universo(r) |-> dezenas[v].atraso], TRUE),
         paridade |-> Paridade(r, draws), repeticao |-> Repeticao(r, draws),
         pares |-> Pares(r, draws)]

Estatistica ==
    \E r \in Loterias : \E base \in Bases(r) : \E pedida \in Janelas :
        LET draws == dataset(base)
        IN  consulta' = [op |-> "estatistica", r |-> r, draws |-> draws,
                         stats |-> computeStats(r, draws, pedida)]

-----------------------------------------------------------------------------
(* analyzeGame *)

\* All in the universe, as many as a bet may have; a repeated number is refused before.
validateGame(r, S) ==
    /\ S \subseteq Universo(r)
    /\ Cardinality(S) \in r.apostaMin..r.apostaMax

\* Four or more numbers at the same distance, the first step being the measure.
isArithmeticSequence(S) ==
    LET ordem == Crescente(S)
    IN  Len(ordem) >= 4 /\ \A i \in 2..Len(ordem) : ordem[i] - ordem[i - 1] = ordem[2] - ordem[1]

\* The warnings under the analysis: a rare sum, a pattern, only dates, a long run.
notes(r, S) ==
    {n \in {"soma", "sequencia", "datas", "seguidas"} :
        CASE n = "soma" -> ~Tipica(theoreticalSum(r, Cardinality(S)), SomaDe(S))
          [] n = "sequencia" -> isArithmeticSequence(S)
          [] n = "datas" -> universeSize(r) > DatasAte /\ \A v \in S : v <= DatasAte
          [] n = "seguidas" -> consecutiveInfo(S).maxRun >= 4}

\* The best contest is the oldest of those with most hits.
Acertos(draws, S, i) == Cardinality(draws[i].dezenas \cap S)
Supera(a, hits, concurso) == IF a.hits < hits THEN [hits |-> hits, concurso |-> concurso] ELSE a
analyzeGame(r, draws, S) ==
    LET topo == {i \in DOMAIN draws : Acertos(draws, S, i) = r.sorteia}
    IN  [acertos |-> [h \in 0..r.sorteia |-> ContaSe(draws, LAMBDA i : Acertos(draws, S, i) = h)],
         melhor |-> FoldLeft(LAMBDA a, i : Supera(a, Acertos(draws, S, i), draws[i].concurso),
                            [hits |-> -1, concurso |-> 0], [i \in DOMAIN draws |-> i]),
         topo |-> topo,
         exatos |-> IF Cardinality(S) = r.sorteia THEN topo ELSE {},
         grupos |-> [g \in Grupos(r) |-> Cardinality(DoGrupo(r, S, g))],
         seguidas |-> consecutiveInfo(S)]

Analisa ==
    \E r \in Loterias : \E base \in Bases(r) : \E S \in SUBSET (r.menor..(r.maior + 1)) :
        LET draws == dataset(base)
        IN  /\ validateGame(r, S)
            /\ consulta' = [op |-> "analise", r |-> r, draws |-> draws, jogo |-> S,
                            numberStats |-> [v \in S |-> Dezena(r, draws, v, MenorJanela)],
                            analise |-> analyzeGame(r, draws, S)]

-----------------------------------------------------------------------------
(* The exact probabilities: tierProbabilities, theoreticalParity *)

\* choose of lottery-stats.ts, exact.
choose(n, k) == IF k < 0 \/ k > n THEN 0
                ELSE FoldLeft(LAMBDA c, i : (c * (n - i + 1)) \div i, 1, [i \in 1..k |-> i])

\* hitProbability times choose(universe, drawSize).
Favoraveis(universo, sorteadas, k, hits) == choose(k, hits) * choose(universo - k, sorteadas - hits)

equivalentSimpleGames(r, k) == choose(k, Min({k, r.apostaMin}))

tierProbabilities(r, k) == [h \in 0..r.sorteia |-> Favoraveis(universeSize(r), r.sorteia, k, h)]
theoreticalParity(r, k) ==
    [j \in 0..k |-> Favoraveis(universeSize(r), k, Cardinality(Impares(Universo(r))), j)]

Probabilidades ==
    \E r \in Loterias : \E k \in r.apostaMin..r.apostaMax :
        consulta' = [op |-> "probabilidade", r |-> r, k |-> k,
            faixas |-> tierProbabilities(r, k), paridade |-> theoreticalParity(r, k),
            simples |-> equivalentSimpleGames(r, k)]

-----------------------------------------------------------------------------
(* suggestGames, and generateMany that asks it for a given number of different games *)

\* An excluded number is not fixed; the sample takes what there is.
Sugeridos(r, size, fixos, excluir) ==
    LET fixed == fixos \ excluir
        pool == Universo(r) \ (excluir \cup fixed)
        pick == Min({size - Cardinality(fixed), Cardinality(pool)})
    IN  {fixed \cup s : s \in kSubset(pick, pool)}

\* What makes a game balanced: the center of the sums, a common mix of odd and even,
\* no long run, several groups, numbers that are no dates, and no geometric pattern.
acceptableOdd(r, size) ==
    LET comuns == {j \in 0..size : 20 * theoreticalParity(r, size)[j] >= choose(universeSize(r), size)}
    IN  IF comuns = {} THEN 0..size ELSE comuns
maxRunAllowed(size) == IF size >= 12 THEN 4 ELSE 3
maxPairsAllowed(size) == Teto(size, 3)
needGroups(r, size) == Min({3, Teto(size, 4), Cardinality(Grupos(r))})
needHigh(r, size) == IF universeSize(r) > DatasAte /\ size >= 4 THEN Max({1, size \div 4}) ELSE 0

SemOPadrao(S) == TRUE
SemPadrao(S) == ~isArithmeticSequence(S)
Equilibrado(r, size, S) ==
    LET seguidas == consecutiveInfo(S)
    IN  /\ Tipica(theoreticalSum(r, size), SomaDe(S))
        /\ Cardinality(Impares(S)) \in acceptableOdd(r, size)
        /\ seguidas.maxRun <= maxRunAllowed(size) /\ seguidas.pairs <= maxPairsAllowed(size)
        /\ Cardinality({Grupo(r, v) : v \in S}) >= needGroups(r, size)
        /\ size > 4 => \A g \in Grupos(r) : Cardinality(DoGrupo(r, S, g)) <= Teto(7 * size, 10)
        /\ Cardinality({v \in S : v > DatasAte}) >= needHigh(r, size)
        /\ SemPadrao(S)

\* Games are drawn until enough are balanced; if luck runs out, the rest are not ("relaxed").
Sugere ==
    \E r \in Loterias \cup Cartelas : \E size \in r.apostaMin..r.apostaMax :
    \E fixos \in {{}} \cup kSubset(1, Universo(r)) : \E relaxed \in BOOLEAN :
    \E jogo \in Sugeridos(r, size, fixos, {}) :
        /\ relaxed \/ Equilibrado(r, size, jogo)
        /\ consulta' = [op |-> "sugere", r |-> r, size |-> size, fixos |-> fixos,
                        jogo |-> jogo, relaxed |-> relaxed, avisos |-> notes(r, jogo)]

\* A real lottery and a size of its bets.
Regra ==
    \E m \in DOMAIN LOTTERY_RULES : \E size \in LOTTERY_RULES[m].apostaMin..LOTTERY_RULES[m].apostaMax :
        consulta' = [op |-> "regra", m |-> m, size |-> size, paresMax |-> maxPairsAllowed(size)]

\* Here an excluded number that is also fixed counts as fixed.
generateMany(r, size, fixos, excluir, wanted) ==
    LET free == universeSize(r) - Cardinality(excluir \ fixos) - Cardinality(fixos)
        pick == size - Cardinality(fixos)
    IN  pick <= free /\ choose(free, pick) >= wanted

\* The accepted request may still be refused, for lack of luck; "jogo" is any game of the answer.
Gera ==
    \E r \in Loterias : \E size \in r.apostaMin..r.apostaMax : \E wanted \in Quantidades :
    \E fixos, excluir \in SUBSET Universo(r) :
        /\ Cardinality(fixos) <= size
        /\ \E jogo \in Sugeridos(r, size, fixos, excluir) :
              consulta' = [op |-> "gera", r |-> r, size |-> size, wanted |-> wanted,
                           fixos |-> fixos, excluir |-> excluir, jogo |-> jogo,
                           aceito |-> generateMany(r, size, fixos, excluir, wanted)]

-----------------------------------------------------------------------------
(* importHistory: the missing contests, newest first, until three answers in a row are no good *)

ZeraTarde(falhas, boa) == falhas + (IF boa THEN 0 ELSE 1)
Falhas(falhas, boa) == IF boa THEN 0 ELSE falhas + 1

Pede(a, n, boas) ==
    IF a.falhas >= 3 THEN a
    ELSE [falhas |-> Falhas(a.falhas, n \in boas), pedidos |-> a.pedidos \cup {n}]

\* Boas: the contests whose answer parseHistoricalDraw accepts and the base stores.
importHistory(presentes, boas, limite, profundidade) ==
    LET newest == Max(presentes)
        missing == (Max({1, newest - profundidade + 1})..newest) \ presentes
        fila == EmOrdem(missing, [n \in missing |-> {m \in missing : m > n}])
        fim == FoldLeft(LAMBDA a, n : Pede(a, n, boas), [falhas |-> 0, pedidos |-> {}],
                        SubSeq(fila, 1, Min({limite, Len(fila)})))
    IN  [pedidos |-> fim.pedidos, importados |-> fim.pedidos \cap boas,
         faltando |-> Cardinality(missing) - Cardinality(fim.pedidos \cap boas)]

Importa ==
    \E presentes, boas \in SUBSET (1..UltimoConcurso) :
    \E limite \in Limites : \E profundidade \in Profundidades :
        /\ UltimoConcurso \in presentes
        /\ boas \cap presentes = {}
        /\ consulta' = [op |-> "importa", presentes |-> presentes, boas |-> boas, limite |-> limite,
                        profundidade |-> profundidade,
                        relatorio |-> importHistory(presentes, boas, limite, profundidade)]

-----------------------------------------------------------------------------

TypeOK == consulta.op \in {"nenhuma", "estatistica", "analise", "probabilidade", "gera", "sugere", "regra", "importa"}

Init == consulta = Nenhuma
Next == consulta = Nenhuma /\ (Estatistica \/ Analisa \/ Probabilidades \/ Gera \/ Sugere \/ Regra \/ Importa)
Spec == Init /\ [][Next]_vars

-----------------------------------------------------------------------------
(* Properties *)

SemEla(draws, v, a, b) == \A i \in a..b : v \notin draws[i].dezenas

\* Every drawn number is counted once, in its frequency, its pairs, its parity and
\* the window; the delay is the draws since it came out last, the largest one the
\* longest absence there ever was; sums, neighbours and groups agree with the numbers
\* they are made of; and no hot number without one that came out less than expected.
HistoricoBate ==
    consulta.op = "estatistica" =>
        LET r == consulta.r  draws == consulta.draws  st == consulta.stats  n == Len(draws)
            De(campo) == Soma([v \in Universo(r) |-> st.dezenas[v][campo]])
            Ausencias(v) == {x[2] - x[1] + 1 :
                x \in {y \in (1..n) \X (0..n) : y[2] >= y[1] - 1 /\ SemEla(draws, v, y[1], y[2])}}
        IN  /\ De("vezes") = n * r.sorteia
            /\ De("recentes") = Min({n, st.janela}) * r.sorteia
            /\ Soma(st.pares) = n * choose(r.sorteia, 2)
            /\ Soma(st.paridade) = n /\ Soma(st.repeticao) = Max({n - 1, 0})
            /\ Soma(st.somas) = Soma([v \in Universo(r) |-> v * st.dezenas[v].vezes])
            /\ st.seguidas.pares = Soma([v \in Universo(r) \ {r.menor} |-> st.pares[{v - 1, v}]])
            /\ Soma(st.histograma) = n
            /\ \A g \in DOMAIN st.grupos :
                  st.grupos[g] = Soma([v \in DoGrupo(r, Universo(r), g) |-> st.dezenas[v].vezes])
            /\ \A v \in Range(st.mais), u \in Universo(r) \ Range(st.mais) : st.dezenas[v].vezes >= st.dezenas[u].vezes
            /\ \A v \in Universo(r) :
                  LET e == st.dezenas[v]
                  IN  /\ SemEla(draws, v, n - e.atraso + 1, n)
                      /\ e.atraso < n => v \in draws[n - e.atraso].dezenas
                      /\ e.maior = Max({0} \cup Ausencias(v))
                      /\ e.quente => \E u \in Universo(r) :
                                        st.dezenas[u].recentes * universeSize(r) < st.janela * r.sorteia

\* The hits of a game, contest by contest, are the times its numbers came out; the
\* draws it would have won are among them, the best one is no worse than any, and
\* runs are counted as the longest one is.
AnaliseBate ==
    consulta.op = "analise" =>
        LET a == consulta.analise  draws == consulta.draws  S == consulta.jogo
        IN  /\ Soma(a.acertos) = Len(draws)
            /\ Soma([h \in DOMAIN a.acertos |-> h * a.acertos[h]])
                   = Soma([v \in S |-> consulta.numberStats[v].vezes])
            /\ \A h \in DOMAIN a.acertos : a.acertos[h] > 0 => h <= a.melhor.hits
            /\ Cardinality(a.topo) = a.acertos[consulta.r.sorteia]
            /\ \A i \in a.exatos : draws[i].dezenas = S
            /\ a.seguidas.pairs = Cardinality({v \in S : v + 1 \in S})
            /\ a.seguidas.maxRun = Max({x[2] - x[1] + 1 : x \in {y \in S \X S : y[1]..y[2] \subseteq S}})

\* The odds shown are exact: of all the draws, those with so many hits; of all the
\* games, those with so many odd numbers; and the simple games a multiple one holds.
ChancesExatas ==
    consulta.op = "probabilidade" =>
        LET r == consulta.r  k == consulta.k  U == Universo(r)
            marcadas == r.menor..(r.menor + k - 1)
        IN  /\ \A h \in 0..r.sorteia :
                  consulta.faixas[h] = Cardinality({s \in Sorteios(r) : Cardinality(s \cap marcadas) = h})
            /\ \A j \in 0..k :
                  consulta.paridade[j] = Cardinality({s \in kSubset(k, U) : Cardinality(Impares(s)) = j})
            /\ consulta.simples = Cardinality(kSubset(r.apostaMin, marcadas))

\* Games are promised exactly when so many different ones exist under the rules, and
\* each is a bet with the fixed numbers and without the excluded ones, unless a
\* number was both.
GeradosServem ==
    consulta.op = "gera" /\ consulta.fixos \cap consulta.excluir = {} =>
        LET r == consulta.r
            possiveis == {s \in kSubset(consulta.size, Universo(r)) :
                             consulta.fixos \subseteq s /\ s \cap consulta.excluir = {}}
        IN  /\ consulta.aceito <=> Cardinality(possiveis) >= consulta.wanted
            /\ consulta.aceito => consulta.jogo \in possiveis

\* A game suggested as balanced is one the analysis has nothing against, in the sizes
\* (4 to 11) where the two allow runs of the same length; it holds the fixed numbers.
\* The suggestion and the analysis each have their own rules for that.
SugestaoSemAvisos ==
    consulta.op = "sugere" =>
        /\ Cardinality(consulta.jogo) = consulta.size /\ consulta.fixos \subseteq consulta.jogo
        /\ ~consulta.relaxed /\ consulta.size \in 4..11 =>
              /\ consulta.avisos = {}
              /\ ~\E passo \in 1..universeSize(consulta.r) :
                    \A v \in consulta.jogo : v = Min(consulta.jogo) \/ v - passo \in consulta.jogo

\* In every real lottery each paying number of hits can happen to a bet of any size,
\* and some game respects the limit of neighbours, except the Lotofacil of 17 numbers
\* or more: there no suggestion can ever be balanced, whatever the answer says.
RegrasServem ==
    consulta.op = "regra" =>
        LET r == LOTTERY_RULES[consulta.m]  N == universeSize(r)  k == consulta.size
        IN  /\ \A h \in r.faixas : h <= k /\ r.sorteia - h <= N - k
            /\ 2 * k - N - 1 > consulta.paresMax <=> consulta.m = "lotofacil" /\ k >= 17

\* The report of an import: what is still missing in its window, nothing imported
\* over what was there, the newest asked first, and no contest within the limit left
\* unasked unless three answers in a row, just before, were no good.
ImportacaoConta ==
    consulta.op = "importa" =>
        LET rel == consulta.relatorio
            janela == {n \in 1..UltimoConcurso : n > UltimoConcurso - consulta.profundidade}
            ausentes == janela \ consulta.presentes
            restam == ausentes \ rel.pedidos
        IN  /\ rel.faltando = Cardinality(ausentes \ rel.importados)
            /\ rel.pedidos \subseteq ausentes /\ Cardinality(rel.pedidos) <= consulta.limite
            /\ \A n \in rel.pedidos, m \in restam : m < n
            /\ restam # {} /\ Cardinality(rel.pedidos) < consulta.limite =>
                  \E ultimas \in kSubset(3, rel.pedidos \ consulta.boas) :
                      \A n \in rel.pedidos \ ultimas, m \in ultimas : m < n

StatisticsAgree ==
    /\ HistoricoBate /\ AnaliseBate /\ ChancesExatas /\ GeradosServem
    /\ SugestaoSemAvisos /\ RegrasServem /\ ImportacaoConta
=============================================================================
