------------------------------ MODULE Concursos ------------------------------
(***************************************************************************)
(* The contests of ONE lottery game (modalidade) and the pools that bet on *)
(* them.  CAIXA announces the next contest only when it draws the previous *)
(* one; three processes write what they learn, or guess, into the table of *)
(* contests without knowing of each other:                                 *)
(*   "worker"  syncOnce of the worker, every few minutes;                  *)
(*   "painel"  LotteriesService.sync, a button of the panel;               *)
(*   "site"    ensureUpcomingContestsSoon, when somebody lists contests.   *)
(* Games do not share contests, so one is enough.  A row is known by its   *)
(* number; a festival contest (festa) has the number Provisorio until      *)
(* CAIXA gives it one.  Time counts two instants a day: 2d is the morning  *)
(* cutoff of day d, 2d+1 its evening cutoff; a contest is drawn after it.  *)
(***************************************************************************)
EXTENDS Integers, FiniteSets

CONSTANTS
    Ultimo,       \* bound: the last contest number
    Dias,         \* bound: the last day
    Calendarios,  \* the days on which CAIXA may draw its contests
    Publicadas,   \* whether the numbers of the first contest may be out at the start
    Automaticas,  \* whether the lottery may be one that the program settles by itself
    FestaDia,     \* the day of the festival, 0 if there is none
    FestaCedo,    \* the festival is drawn in the morning
    Boloes,       \* the pools
    MaxAtraso,    \* how many contests a fallback source may be behind
    MaxPedidos    \* bound: runs of the panel and the site at work at the same time

Numeros == 1..Ultimo
Provisorio == 0

ASSUME ConcursosAssumption ==
    /\ Ultimo \in Nat /\ Ultimo >= 2
    /\ Dias \in Nat
    /\ Calendarios \subseteq [Numeros -> 0..Dias]
    /\ Publicadas \subseteq BOOLEAN
    /\ Automaticas \subseteq BOOLEAN
    /\ FestaDia \in 0..Dias
    /\ FestaCedo \in BOOLEAN
    /\ MaxAtraso \in Nat
    /\ MaxPedidos \in Nat

VARIABLES
    agora,      \* the clock
    automatica, \* the lottery is one of AUTO_SETTLEMENT_MODALITIES
    calendario, \* the day of each contest (external)
    caixa,      \* the last contest drawn, and whether its numbers are published (external)
    banco,      \* table "concursos", with "resultados"
    bolao,      \* table "boloes": contest, status, whether it has live shares or ever had
    fase,       \* where each process is
    visto,      \* the answer of CAIXA each process is working with
    lote        \* the pools the worker has read and not settled yet

fora == <<agora, automatica, calendario, caixa>>
procs == <<fase, visto, lote>>
vars == <<fora, banco, bolao, procs>>

-----------------------------------------------------------------------------
(* Vocabulary *)

Processos == {"worker", "painel", "site"}
Fases == {"ocioso", "consulta", "grava", "apura", "fecha", "cria"}
StatusConcurso == {"ausente", "aberto", "fechado", "apurado"}
StatusBolao == {"nenhum", "rascunho", "aberto", "fechado", "registrado", "apurado", "cancelado"}
StatusVendas == {"nenhuma", "vivas", "desfeitas"}
SemBolao == [concurso |-> 0, status |-> "nenhum", vendas |-> "nenhuma"]
Resposta == [numero : Numeros, dezenas : BOOLEAN]
SemResposta == [numero |-> 0, dezenas |-> FALSE]

\* The cutoff the program gives to a contest of day d.
CorteUmTurnoDepois(d) == 2 * d + 2
CorteDoDia(d) == 2 * d + 1

\* The instant of the draw, which the administrator knows for the festival (external).
CorteDaFesta == IF FestaCedo THEN 2 * FestaDia ELSE 2 * FestaDia + 1
Sorteio(n) == IF calendario[n] = FestaDia THEN CorteDaFesta ELSE 2 * calendario[n] + 1

Linha(status, dia, corte) ==
    [status |-> status, dia |-> dia, corte |-> corte, especial |-> FALSE, resultado |-> FALSE]
Nada == Linha("ausente", 0, 0)
LinhaDaFesta == [Linha("aberto", FestaDia, CorteDaFesta) EXCEPT !.especial = TRUE]

\* Bound: the worker never waits; the panel and the site may have to.
HaVez(p) == p = "worker" \/ Cardinality({q \in Processos \ {"worker"} : fase[q] # "ocioso"}) < MaxPedidos

Existe(n) == banco[n].status # "ausente"
EmVenda(linha) == linha.status = "aberto" /\ linha.corte > agora
Concurso(b) == banco[bolao[b].concurso]

TypeOK ==
    /\ agora \in Nat
    /\ automatica \in BOOLEAN
    /\ calendario \in [Numeros -> 0..Dias]
    /\ caixa \in Resposta
    /\ banco \in [{Provisorio} \cup Numeros ->
                     [status : StatusConcurso, dia : 0..Dias, corte : 0..(2 * Dias + 1),
                      especial : BOOLEAN, resultado : BOOLEAN]]
    /\ bolao \in [Boloes -> [concurso : {Provisorio} \cup Numeros, status : StatusBolao, vendas : StatusVendas]]
    /\ fase \in [Processos -> Fases]
    /\ visto \in [Processos -> Resposta \cup {SemResposta}]
    /\ lote \subseteq Boloes

\* The first contest was drawn on day 0, and the first run wrote what CAIXA answered.
Init ==
    /\ agora = 2
    /\ automatica \in Automaticas
    /\ calendario \in Calendarios
    /\ caixa \in {[numero |-> 1, dezenas |-> publica] : publica \in Publicadas}
    /\ banco = [n \in {Provisorio} \cup Numeros |->
                  IF n = 1 THEN [Linha(IF caixa.dezenas THEN "apurado" ELSE "fechado",
                                       calendario[1], CorteDoDia(calendario[1]))
                                    EXCEPT !.resultado = caixa.dezenas]
                  ELSE IF n = 2 THEN Linha("aberto", calendario[2], CorteDoDia(calendario[2]))
                  ELSE Nada]
    /\ bolao = [b \in Boloes |-> SemBolao]
    /\ fase = [p \in Processos |-> "ocioso"]
    /\ visto = [p \in Processos |-> SemResposta]
    /\ lote = {}

-----------------------------------------------------------------------------
(* CAIXA and the clock (external) *)

Avanca ==
    /\ agora < 2 * Dias + 1
    /\ agora' = agora + 1
    /\ UNCHANGED <<automatica, calendario, caixa, banco, bolao, procs>>

\* The next contest is drawn; its numbers may be published with it or later.
Sorteia ==
    /\ caixa.numero + 1 < Ultimo
    /\ Sorteio(caixa.numero + 1) <= agora
    /\ \E publica \in BOOLEAN : caixa' = [numero |-> caixa.numero + 1, dezenas |-> publica]
    /\ UNCHANGED <<agora, automatica, calendario, banco, bolao, procs>>

PublicaDezenas ==
    /\ ~caixa.dezenas
    /\ caixa' = [caixa EXCEPT !.dezenas = TRUE]
    /\ UNCHANGED <<agora, automatica, calendario, banco, bolao, procs>>

-----------------------------------------------------------------------------
(* The synchronisation *)

\* Contests whose cutoff passed do not stay open.
Vencidos(b) == [n \in DOMAIN b |-> IF b[n].status = "aberto" /\ b[n].corte <= agora
                                   THEN [b[n] EXCEPT !.status = "fechado"] ELSE b[n]]

Inicia(p) ==
    /\ p \in {"worker", "painel"}
    /\ fase[p] = "ocioso"
    /\ HaVez(p)
    /\ banco' = Vencidos(banco)
    /\ fase' = [fase EXCEPT ![p] = "consulta"]
    /\ UNCHANGED <<fora, bolao, visto, lote>>

\* CAIXA, or a fallback source that is behind, answers.
ConsultaResponde(p) ==
    /\ fase[p] = "consulta"
    /\ \E r \in {caixa} \cup {[numero |-> caixa.numero - k, dezenas |-> TRUE] :
                                 k \in {j \in 1..MaxAtraso : j < caixa.numero}} :
          visto' = [visto EXCEPT ![p] = r]
    /\ fase' = [fase EXCEPT ![p] = "grava"]
    /\ UNCHANGED <<fora, banco, bolao, lote>>

\* The process is through with the answer of CAIXA.
Termina(p) ==
    /\ fase' = [fase EXCEPT ![p] = "fecha"]
    /\ visto' = [visto EXCEPT ![p] = SemResposta]

\* No source answers, or the transaction fails: the run goes on without this game.
ConsultaFalha(p) ==
    /\ fase[p] \in {"consulta", "grava"}
    /\ Termina(p)
    /\ UNCHANGED <<fora, banco, bolao, lote>>

\* The provisional festival of day d is, or becomes part of, the official contest n.
AdotavelEmQualquerDia(b, d) == b[Provisorio].status # "ausente"
Adotavel(b, d) == b[Provisorio].status # "ausente" /\ b[Provisorio].dia = d

Adota(b, n, d) ==
    IF ~Adotavel(b, d) THEN b
    ELSE LET festa == b[Provisorio]
             oficial == IF b[n].status = "ausente" THEN festa
                        ELSE [b[n] EXCEPT !.especial = TRUE, !.dia = festa.dia, !.corte = festa.corte]
         IN  [b EXCEPT ![n] = oficial, ![Provisorio] = Nada]

\* The pools of an adopted festival move with it.
Migra(adotado, n) ==
    [b \in Boloes |-> IF adotado /\ bolao[b].status # "nenhum" /\ bolao[b].concurso = Provisorio
                      THEN [bolao[b] EXCEPT !.concurso = n] ELSE bolao[b]]

\* The contest just drawn gets its result; a row that exists keeps its status until there is one.
LinhaSorteada(linha, d, dezenas) ==
    [linha EXCEPT !.status = IF dezenas THEN "apurado" ELSE IF @ = "ausente" THEN "fechado" ELSE @,
                  !.dia = d, !.corte = CorteDoDia(d), !.resultado = @ \/ dezenas]

\* The panel keeps the hour of a festival of the same day; the worker does not.
\* A row that exists keeps its status.
LinhaProxima(p, linha, d) ==
    IF linha.status = "ausente"
    THEN Linha(IF CorteDoDia(d) > agora THEN "aberto" ELSE "fechado", d, CorteDoDia(d))
    ELSE IF p = "painel" /\ linha.especial /\ linha.dia = d THEN linha
    ELSE [linha EXCEPT !.dia = d, !.corte = CorteDoDia(d)]

\* The worker settles after every answer that has numbers, new or not.
ComResultadoNovo(r) == r.dezenas /\ ~banco[r.numero].resultado
ComQualquerResposta(r) == r.numero > 0
ComResultado(r) == r.dezenas

Grava(p) ==
    /\ fase[p] = "grava"
    /\ LET n == visto[p].numero
           d == calendario[n]
           dProximo == calendario[n + 1]
           comAtual == Adota(banco, n, d)
           comProximo == Adota(comAtual, n + 1, dProximo)
       IN  /\ banco' = [comProximo EXCEPT ![n] = LinhaSorteada(@, d, visto[p].dezenas),
                                          ![n + 1] = LinhaProxima(p, @, dProximo)]
           /\ bolao' = Migra(Adotavel(banco, d) \/ Adotavel(comAtual, dProximo),
                             IF Adotavel(banco, d) THEN n ELSE n + 1)
    /\ IF p = "worker" /\ ComResultado(visto[p])
       THEN fase' = [fase EXCEPT ![p] = "apura"] /\ UNCHANGED visto
       ELSE Termina(p)
    /\ UNCHANGED <<fora, lote>>

-----------------------------------------------------------------------------
(* apurarConcurso: the worker settles the registered pools of the contest it has just written *)

ApuraLe ==
    /\ fase["worker"] = "apura"
    /\ lote = {}
    /\ lote' = {b \in Boloes : bolao[b].concurso = visto["worker"].numero /\ bolao[b].status = "registrado"}
    /\ IF lote' = {} THEN Termina("worker") ELSE UNCHANGED <<fase, visto>>
    /\ UNCHANGED <<fora, banco, bolao>>

\* One transaction for each pool; in a lottery settled by hand the pool is only reported.
ApuraBolao(b) ==
    /\ fase["worker"] = "apura"
    /\ b \in lote
    /\ bolao' = IF automatica THEN [bolao EXCEPT ![b].status = "apurado"] ELSE bolao
    /\ lote' = lote \ {b}
    /\ IF lote' = {} THEN Termina("worker") ELSE UNCHANGED <<fase, visto>>
    /\ UNCHANGED <<fora, banco>>

\* A transaction fails: the others of the contest wait for the next run.
ApuraFalha ==
    /\ fase["worker"] = "apura"
    /\ lote' = {}
    /\ Termina("worker")
    /\ UNCHANGED <<fora, banco, bolao>>

-----------------------------------------------------------------------------
(* ensureUpcomingContests: a game without an open contest gets the one it should have *)

HaConcursoAberto(b) == \E n \in Numeros : ~b[n].especial /\ EmVenda(b[n])

\* The cutoffs of the run, and the first read of ensureUpcomingContests.
Encerra(p) ==
    /\ fase[p] = "fecha"
    /\ banco' = Vencidos(banco)
    /\ fase' = [fase EXCEPT ![p] = IF HaConcursoAberto(banco) THEN "ocioso" ELSE "cria"]
    /\ UNCHANGED <<fora, bolao, visto, lote>>

VisitaSite ==
    /\ fase["site"] = "ocioso"
    /\ HaVez("site")
    /\ ~HaConcursoAberto(banco)
    /\ fase' = [fase EXCEPT !["site"] = "cria"]
    /\ UNCHANGED <<fora, banco, bolao, visto, lote>>

\* The game draws every day.
PulaUmDia(d) == d + 2
ProximoDia(d) == d + 1

Conhecidos == {n \in Numeros : Existe(n) /\ ~banco[n].especial}
MaisRecente == CHOOSE n \in Conhecidos : \A m \in Conhecidos : m <= n

\* The number after the last one known, on the next day of draw, if it can still be sold.
PodePrever ==
    /\ Conhecidos # {}
    /\ MaisRecente < Ultimo
    /\ ProximoDia(banco[MaisRecente].dia) <= Dias
    /\ CorteDoDia(ProximoDia(banco[MaisRecente].dia)) > agora
    /\ ~Existe(MaisRecente + 1)

Cria(p) ==
    /\ fase[p] = "cria"
    /\ LET d == ProximoDia(banco[MaisRecente].dia)
       IN  banco' = IF PodePrever
                    THEN [banco EXCEPT ![MaisRecente + 1] = Linha("aberto", d, CorteDoDia(d))]
                    ELSE banco
    /\ fase' = [fase EXCEPT ![p] = "ocioso"]
    /\ UNCHANGED <<fora, bolao, visto, lote>>

\* The import of old results marks the contest drawn; it settles no pool.
ImportaHistorico(n) ==
    /\ ~banco[n].resultado
    /\ \E m \in Numeros : n < m /\ banco[m].resultado
    /\ banco' = [banco EXCEPT ![n] =
                    [(IF Existe(n) THEN @ ELSE Linha("apurado", calendario[n], CorteDoDia(calendario[n])))
                        EXCEPT !.status = "apurado", !.resultado = TRUE]]
    /\ UNCHANGED <<fora, bolao, procs>>

\* The worker, or the API, stops: what it was doing is lost.
Queda(juntos) ==
    /\ \E p \in juntos : fase[p] # "ocioso"
    /\ fase' = [p \in Processos |-> IF p \in juntos THEN "ocioso" ELSE fase[p]]
    /\ visto' = [p \in Processos |-> IF p \in juntos THEN SemResposta ELSE visto[p]]
    /\ lote' = IF "worker" \in juntos THEN {} ELSE lote
    /\ UNCHANGED <<fora, banco, bolao>>

-----------------------------------------------------------------------------
(* Contests written by the administrator, who knows what CAIXA announced *)

\* Contingency: the next contest, when CAIXA cannot be reached.
CreateManual(n) ==
    /\ n = caixa.numero + 1
    /\ ~Existe(n)
    /\ CorteDoDia(calendario[n]) >= agora
    /\ banco' = [banco EXCEPT ![n] = Linha("aberto", calendario[n], CorteDoDia(calendario[n]))]
    /\ UNCHANGED <<fora, bolao, procs>>

\* A festival without an official number is born provisional and on sale.
CreateFestival ==
    /\ FestaDia > 0
    /\ CorteDaFesta > agora
    /\ ~Existe(Provisorio)
    /\ ~\E n \in Numeros : banco[n].especial /\ banco[n].dia = FestaDia
    /\ banco' = [banco EXCEPT ![Provisorio] = LinhaDaFesta]
    /\ UNCHANGED <<fora, bolao, procs>>

\* With its number: the contest is created, or the one CAIXA brought is marked.
CreateFestivalComNumero(n) ==
    /\ FestaDia > 0
    /\ calendario[n] = FestaDia
    /\ CorteDaFesta > agora
    /\ ~banco[n].especial
    /\ banco' = [banco EXCEPT ![n] = IF Existe(n) THEN [@ EXCEPT !.especial = TRUE] ELSE LinhaDaFesta]
    /\ UNCHANGED <<fora, bolao, procs>>

\* The administrator gives the festival its number.
UpdateFestival(n) ==
    /\ Existe(Provisorio)
    /\ calendario[n] = FestaDia
    /\ banco' = Adota(banco, n, banco[Provisorio].dia)
    /\ bolao' = Migra(TRUE, n)
    /\ UNCHANGED <<fora, procs>>

SemBolaoAberto(n) == ~\E b \in Boloes : bolao[b].status = "aberto" /\ bolao[b].concurso = n
SemBoloes(n) == ~\E b \in Boloes : bolao[b].status # "nenhum" /\ bolao[b].concurso = n

\* A festival without pools is removed, with its result if it has one.
DeleteFestival(n) ==
    /\ Existe(n)
    /\ banco[n].especial
    /\ SemBoloes(n)
    /\ banco' = [banco EXCEPT ![n] = Nada]
    /\ UNCHANGED <<fora, bolao, procs>>

-----------------------------------------------------------------------------
(* The life of a pool *)

Disponivel(b) == EmVenda(Concurso(b)) /\ ~Concurso(b).resultado
Vendavel(b) == bolao[b].status = "aberto" /\ Disponivel(b)

MudaBolao(b, para) ==
    /\ bolao' = [bolao EXCEPT ![b].status = para]
    /\ UNCHANGED <<fora, banco, procs>>

\* A pool is created for a contest whose cutoff is to come.
Create(b, n) ==
    /\ bolao[b].status = "nenhum"
    /\ Existe(n)
    /\ banco[n].corte > agora
    /\ bolao' = [bolao EXCEPT ![b] = [concurso |-> n, status |-> "rascunho", vendas |-> "nenhuma"]]
    /\ UNCHANGED <<fora, banco, procs>>

\* The copy of a pool is a draft for the same contest.
Duplicate(b, de) ==
    /\ bolao[b].status = "nenhum"
    /\ bolao[de].status # "nenhum"
    /\ Disponivel(de)
    /\ bolao' = [bolao EXCEPT ![b] = [bolao[de] EXCEPT !.status = "rascunho", !.vendas = "nenhuma"]]
    /\ UNCHANGED <<fora, banco, procs>>

Publish(b) == bolao[b].status = "rascunho" /\ Disponivel(b) /\ MudaBolao(b, "aberto")

Close(b) == bolao[b].status = "aberto" /\ MudaBolao(b, "fechado")

\* Registration of the bet, whatever the contest: the live shares are paid ...
Register(b) ==
    /\ bolao[b].status \in {"aberto", "fechado"}
    /\ bolao[b].vendas = "vivas"
    /\ MudaBolao(b, "registrado")

\* ... but the panel's way does not look at them, and writes on the pool it read as closed
\* or registered, be it settled by now (module VendaCotas has that read and its write apart).
RegisterNoPainel(b) ==
    /\ bolao[b].status \in {"fechado", "apurado"}
    /\ MudaBolao(b, "registrado")

Cancel(b) ==
    /\ bolao[b].status \in {"rascunho", "aberto", "fechado", "cancelado"}
    /\ bolao[b].vendas # "vivas"
    /\ MudaBolao(b, "cancelado")

\* Only a pool that never had a share is deleted.
RemoveUnused(b) ==
    /\ bolao[b].status \in {"rascunho", "aberto", "fechado", "cancelado"}
    /\ bolao[b].vendas = "nenhuma"
    /\ bolao' = [bolao EXCEPT ![b] = SemBolao]
    /\ UNCHANGED <<fora, banco, procs>>

\* A share is reserved; the last live share is cancelled or refunded (module VendaCotas).
Vende(b) ==
    /\ Vendavel(b)
    /\ bolao' = [bolao EXCEPT ![b].vendas = "vivas"]
    /\ UNCHANGED <<fora, banco, procs>>

Desfaz(b) ==
    /\ bolao[b].status \in {"aberto", "fechado"}
    /\ bolao[b].vendas = "vivas"
    /\ bolao' = [bolao EXCEPT ![b].vendas = "desfeitas"]
    /\ UNCHANGED <<fora, banco, procs>>

-----------------------------------------------------------------------------
(* The system *)

Passo(p) == Inicia(p) \/ ConsultaResponde(p) \/ ConsultaFalha(p) \/ Grava(p) \/ Encerra(p) \/ Cria(p)

Apura == ApuraLe \/ \E b \in Boloes : ApuraBolao(b)

Administra ==
    \/ CreateFestival
    \/ \E n \in Numeros : CreateManual(n) \/ CreateFestivalComNumero(n) \/ UpdateFestival(n)
    \/ \E n \in {Provisorio} \cup Numeros : DeleteFestival(n)

Bolao(b) ==
    \/ \E n \in {Provisorio} \cup Numeros : Create(b, n)
    \/ \E de \in Boloes : Duplicate(b, de)
    \/ Publish(b) \/ Close(b) \/ Register(b) \/ RegisterNoPainel(b) \/ Cancel(b) \/ RemoveUnused(b) \/ Vende(b) \/ Desfaz(b)

Next ==
    \/ Avanca \/ Sorteia \/ PublicaDezenas
    \/ \E p \in Processos : Passo(p)
    \/ Apura \/ ApuraFalha
    \/ Queda({"worker"}) \/ Queda({"painel", "site"})
    \/ VisitaSite
    \/ \E n \in Numeros : ImportaHistorico(n)
    \/ Administra
    \/ \E b \in Boloes : Bolao(b)

Spec == Init /\ [][Next]_vars

\* The worker runs every few minutes.
\* Not every run fails, stops or hears from a source that is behind: one that
\* has the last draw gets through each of its steps in the end.
Atual == visto["worker"] = caixa
Justica ==
    /\ WF_vars(Passo("worker") \/ Apura)
    /\ SF_vars(ConsultaResponde("worker") /\ Atual')
    /\ SF_vars(Atual /\ Grava("worker")) /\ SF_vars(Atual /\ ApuraLe)
    /\ \A b \in Boloes : SF_vars(ApuraBolao(b))

SpecJusta == Spec /\ Justica

-----------------------------------------------------------------------------
(* Properties *)

\* No share is sold after the draw: whatever the three writers of the table of
\* contests learned late or guessed, a pool on sale bets on a draw to come.
NoSaleAfterDraw ==
    \A b \in Boloes : Vendavel(b) =>
        \A n \in Numeros :
            \/ bolao[b].concurso = n
            \/ bolao[b].concurso = Provisorio /\ banco[Provisorio].dia = calendario[n]
            => agora < Sorteio(n)

\* A pool always belongs to a contest that exists, through the adoption and the
\* removal of festivals.
PoolHasContest == \A b \in Boloes : bolao[b].status # "nenhum" => Concurso(b).status # "ausente"

\* A pool never changes its draw: it only moves from the provisional festival to
\* the official contest CAIXA draws on the day of the festival.
PoolKeepsItsDraw ==
    [][\A b \in Boloes :
          /\ bolao[b].status # "nenhum" /\ bolao'[b].status # "nenhum"
          /\ bolao'[b].concurso # bolao[b].concurso
          => /\ bolao[b].concurso = Provisorio
             /\ calendario[bolao'[b].concurso] = banco[Provisorio].dia]_vars

\* A pool is settled only with the official result of its contest, also when
\* the festival it was sold for was adopted or removed meanwhile.
SettledWithResult == \A b \in Boloes : bolao[b].status = "apurado" => Concurso(b).resultado

\* A registered pool of a lottery that the program settles by itself is settled, unless
\* CAIXA draws the next contest first: also when the worker stopped half way, or the panel
\* took a settled pool back (a lottery settled by hand waits for the administrator).
PorApurar == {b \in Boloes : bolao[b].status = "registrado" /\ bolao[b].concurso = caixa.numero /\ caixa.dezenas}
SettledWhileCurrent == \A b \in Boloes : automatica /\ b \in PorApurar ~> b \notin PorApurar

-----------------------------------------------------------------------------
(* What the documentation says and the code does not do *)

\* "A sincronizacao com a CAIXA nao zera mais a hora e o corte de um concurso de
\* festa do mesmo dia": a festival on sale keeps its cutoff while its day stands.
FestivalKeepsItsTime ==
    [][\A n \in Numeros :
          /\ banco[n].especial /\ banco[n].status = "aberto" /\ banco[n].corte = CorteDaFesta
          /\ banco'[n].dia = banco[n].dia
          => banco'[n].corte = banco[n].corte]_vars
=============================================================================
