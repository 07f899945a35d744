------------------------------ MODULE Paineis ------------------------------
(***************************************************************************)
(* The screens of the site that keep a copy of what the server has (the    *)
(* back office, the account, the affiliate's workspace): ONE screen, from  *)
(* when it opens.  A screen asks again when its filter or its page changes,*)
(* by a timer, and after a form of it has written; the answers come back   *)
(* in any order.  What tells the screens apart is in a record each: how it *)
(* treats an answer that is late, what clears it, and what its forms do.   *)
(* What the server does with a form is in the module of its service.       *)
(***************************************************************************)
EXTENDS Integers, FiniteSets

CONSTANTS
    Filtros,        \* values of the filter: a tab, a search, the client of a sheet
    Inicial,        \* the filter it opens with
    MaxCargas,      \* bound: requests of one screen
    MaxNoAr,        \* bound: requests in flight
    MaxEscritas,    \* bound: forms sent
    MaxVersaoDoDado \* bound: changes of what the screen shows

VARIABLES
    tela,           \* the screen, one of Telas
    filtro, pagina, \* as the person sees them
    seq,            \* requests sent: the number of the last (sequence.current)
    cargas,         \* requests in flight
    mostrado,       \* the answer on the screen
    carregando,     \* its spinner
    erro,           \* the last answer taken was a failure
    escritas,       \* forms in flight, with the load() of the render they were sent from
    enviadas,       \* forms sent so far
    servidor,       \* version of what the screen shows
    minha,          \* history: last version written here for which the screen asked again
    vista           \* history: newest version shown
cargaVars == <<seq, cargas, carregando>>
escritaVars == <<escritas, enviadas, minha>>
vars == <<tela, filtro, pagina, cargaVars, mostrado, erro, escritaVars, servidor, vista>>

Paginas == 1..2
Fechada == "fechada"
Nada == [n |-> 0, filtro |-> Fechada, pagina |-> 0, versao |-> 0, herdada |-> FALSE]
Maior(a, b) == IF a > b THEN a ELSE b

-----------------------------------------------------------------------------
(* Forms: whether the screen stops renewing itself until the answer, and   *)
(* when it asks again: if the form was "aceita", "sempre", "nunca", or the *)
(* answer of the form is itself the new state ("devolve").                 *)

Formulario(ocupa, recarrega) == [ocupa |-> ocupa, recarrega |-> recarrega]

Executa == Formulario(TRUE, "aceita")
SincronizaConcursos == Formulario(TRUE, "aceita")
ImportaHistorico == Formulario(TRUE, "nunca")
BaixaOuCancela == Formulario(FALSE, "aceita")
VendaDeBalcao == Formulario(FALSE, "aceita")
ConcursoManual == Formulario(FALSE, "aceita")
CriaFesta == Formulario(FALSE, "aceita")
NumeroDaFesta == Formulario(FALSE, "aceita")
RemoveFesta == Formulario(FALSE, "aceita")
AlteraUsuario == Formulario(FALSE, "aceita")
AcessoDoUsuario == Formulario(FALSE, "aceita")
PapelDoUsuario == Formulario(FALSE, "aceita")
Exporta == Formulario(TRUE, "nunca")
AcaoDePagamento == Formulario(FALSE, "nunca")
AcaoDaNota == Formulario(FALSE, "aceita")
AnotaCliente == Formulario(FALSE, "aceita")
AcompanhaCliente == Formulario(FALSE, "aceita")
SenhaDoCliente == Formulario(FALSE, "nunca")
LiberaBolao == Formulario(FALSE, "aceita")
GeraNumeros == Formulario(FALSE, "aceita")
GuardaNumeros == Formulario(FALSE, "aceita")
TiraNumeros == Formulario(FALSE, "aceita")
EnviaComunicado == Formulario(FALSE, "aceita")
EnviaArquivos == Formulario(FALSE, "sempre")
AlternaArquivo == Formulario(FALSE, "aceita")
ReenviaArquivo == Formulario(FALSE, "nunca")
RemoveArquivo == Formulario(FALSE, "aceita")
SalvaVitrine == Formulario(FALSE, "aceita")
TestaConexao == Formulario(FALSE, "nunca")
NovoPreco == Formulario(FALSE, "aceita")
ConviteDoAfiliado == Formulario(FALSE, "aceita")
MudaAfiliado == Formulario(FALSE, "aceita")
ConviteDaEquipe == Formulario(FALSE, "aceita")
CancelaConvite == Formulario(FALSE, "aceita")
LeAviso == Formulario(FALSE, "sempre")
SalvaEndereco == Formulario(FALSE, "aceita")
LimiteOuPausa == Formulario(FALSE, "devolve")
LigaDuasEtapas == Formulario(FALSE, "devolve")
SalvaPerfil == Formulario(FALSE, "devolve")

-----------------------------------------------------------------------------
(* Screens *)

\* guarda: an answer that is not of the last request is taken ("nenhuma"), or dropped
\* because requests are numbered ("ordem") or the effect that asked was undone
\* ("cancela"); or nothing is asked while a request is in flight ("uma").
\* paginas: the page goes back to 1 with the filter ("junto"), or in an effect of its own
\* after the effect that asks ("efeito").  gira: a spinner, of every load() that is not
\* quiet or only of an effect ("efeito").  renova: it asks again by itself, quietly.
\* avisa: its load() depends on notify(), which the panel makes anew in each render, so
\* that it asks again whenever it notifies.  botao: it asks when told to.  fecha: a
\* failure closes it.
Simples == [guarda |-> "nenhuma", filtra |-> FALSE, paginas |-> "nao", gira |-> "nunca", renova |-> FALSE,
            avisa |-> FALSE, limpa |-> FALSE, botao |-> FALSE, fecha |-> FALSE, formularios |-> {}]
Com(formularios) == [Simples EXCEPT !.formularios = formularios]
Filtrada(guarda) == [Simples EXCEPT !.filtra = TRUE, !.guarda = guarda]

Relatorios == [Filtrada("ordem") EXCEPT !.gira = "sempre", !.renova = TRUE, !.formularios = {Exporta}]
PainelGeral == [Filtrada("ordem") EXCEPT !.gira = "sempre", !.renova = TRUE, !.paginas = "efeito",
    !.formularios = {Executa, SincronizaConcursos, ImportaHistorico, BaixaOuCancela, VendaDeBalcao, ConcursoManual,
                     CriaFesta, NumeroDaFesta, RemoveFesta, AlteraUsuario, AcessoDoUsuario, PapelDoUsuario}]
BuscaDeParticipante == Filtrada("nenhuma")
ConfiguracaoDePagamentos == Com({AcaoDePagamento})
NotasFiscais == [Com({AcaoDaNota}) EXCEPT !.gira = "sempre", !.avisa = TRUE]
Clientes == [Filtrada("nenhuma") EXCEPT !.gira = "sempre", !.paginas = "junto", !.avisa = TRUE]
FichaDoCliente == [Filtrada("nenhuma") EXCEPT !.avisa = TRUE, !.fecha = TRUE,
                                              !.formularios = {AnotaCliente, AcompanhaCliente, SenhaDoCliente}]
ControleDeBoloes == [Simples EXCEPT !.gira = "sempre", !.avisa = TRUE]
FichaDoBolao == [Filtrada("nenhuma") EXCEPT !.avisa = TRUE, !.fecha = TRUE, !.formularios = {LiberaBolao}]
BancoDeNumeros == [Filtrada("nenhuma") EXCEPT !.gira = "sempre", !.paginas = "efeito",
                                              !.formularios = {GeraNumeros, GuardaNumeros, TiraNumeros}]
Comunicados == Com({EnviaComunicado})
PreviaDoPublico == [Filtrada("cancela") EXCEPT !.limpa = TRUE]
ArquivosDoBolao == [Com({EnviaArquivos, AlternaArquivo, ReenviaArquivo, RemoveArquivo}) EXCEPT !.gira = "efeito", !.avisa = TRUE]
Vitrine == [Com({SalvaVitrine}) EXCEPT !.gira = "sempre"]
Conexoes == [Com({TestaConexao}) EXCEPT !.gira = "sempre", !.avisa = TRUE]
TabelaDePrecos == Com({NovoPreco})
EditorDeUsuario == [Filtrada("cancela") EXCEPT !.limpa = TRUE]
Afiliado == Com({ConviteDoAfiliado, MudaAfiliado})
CotasDoAfiliado == [Filtrada("cancela") EXCEPT !.limpa = TRUE]
Equipe == Com({ConviteDaEquipe, CancelaConvite})
MinhaConta == [Simples EXCEPT !.guarda = "uma", !.gira = "efeito", !.renova = TRUE, !.formularios = {SalvaEndereco}]
MeusAvisos == Com({LeAviso})
JogoResponsavel == Com({LimiteOuPausa})
DuasEtapas == Com({LigaDuasEtapas})
MeuPerfil == [Com({SalvaPerfil}) EXCEPT !.guarda = "cancela"]
\* The first answer comes with the page; the game and the suggestions wait for a button.
Probabilidades == [Filtrada("nenhuma") EXCEPT !.gira = "sempre"]
AnaliseDoJogo == [Filtrada("nenhuma") EXCEPT !.gira = "sempre", !.botao = TRUE, !.limpa = TRUE]
Sugestoes == [Filtrada("nenhuma") EXCEPT !.gira = "sempre", !.botao = TRUE]

Telas == {Relatorios, PainelGeral, BuscaDeParticipante, ConfiguracaoDePagamentos, NotasFiscais, Clientes, FichaDoCliente,
          FichaDoBolao, ControleDeBoloes, BancoDeNumeros, Comunicados, PreviaDoPublico, ArquivosDoBolao, Vitrine,
          Conexoes, TabelaDePrecos, EditorDeUsuario, Afiliado, CotasDoAfiliado, Equipe, MinhaConta, MeusAvisos,
          JogoResponsavel, DuasEtapas, MeuPerfil, Probabilidades, AnaliseDoJogo, Sugestoes}

-----------------------------------------------------------------------------
(* Asking *)

Carga(n, f, p, quieta, herdada) ==
    [n |-> n, filtro |-> f, pagina |-> p, quieta |-> quieta, herdada |-> herdada, fase |-> "vai", versao |-> 0, ok |-> TRUE]

\* load(), once or more in a row.
Pede(pedidas) ==
    /\ cargas' = cargas \cup pedidas
    /\ seq' = seq + Cardinality(pedidas)
    /\ seq' <= MaxCargas /\ Cardinality(cargas') <= MaxNoAr
    /\ carregando' = (carregando \/ \E c \in pedidas : ~c.quieta)
NaoPede == UNCHANGED cargaVars

Ocupada == tela.guarda = "uma" /\ cargas # {}
\* Asked by an effect or a timer, with the filter as it is.
DoEfeito(n, f, p) == Carga(n, f, p, tela.gira = "nunca", FALSE)
DaTela(quieta) == Carga(seq + 1, filtro, pagina, quieta \/ tela.gira = "nunca", FALSE)

Init ==
    /\ tela \in Telas
    /\ filtro = Inicial
    /\ pagina = 1
    /\ cargas = IF tela.botao THEN {} ELSE {DoEfeito(1, filtro, 1)}
    /\ seq = IF tela.botao THEN 0 ELSE 1
    /\ carregando = (~tela.botao /\ tela.gira # "nunca")
    /\ mostrado = Nada /\ erro = FALSE
    /\ escritas = {} /\ enviadas = 0
    /\ servidor = 1 /\ minha = 0 /\ vista = 0

\* The effect that asks runs with the page of before, and again when the page is 1.
ComOFiltro(f) ==
    IF tela.paginas = "efeito" /\ pagina # 1
    THEN {DoEfeito(seq + 1, f, pagina), DoEfeito(seq + 2, f, 1)}
    ELSE {DoEfeito(seq + 1, f, 1)}
Filtra(f) ==
    /\ tela.filtra /\ f # filtro
    /\ filtro' = f /\ pagina' = 1
    /\ IF tela.botao THEN NaoPede ELSE Pede(ComOFiltro(f))
    /\ mostrado' = IF tela.limpa THEN Nada ELSE mostrado
    /\ UNCHANGED <<tela, erro, escritaVars, servidor, vista>>

Vira(p) ==
    /\ tela.paginas # "nao" /\ p # pagina
    /\ pagina' = p
    /\ Pede({DoEfeito(seq + 1, filtro, p)})
    /\ UNCHANGED <<tela, filtro, mostrado, erro, escritaVars, servidor, vista>>

\* The timer and the focus; or the panel drew itself again (a toast that goes away).
Renova ==
    /\ tela.renova \/ tela.avisa
    /\ filtro # Fechada /\ ~Ocupada
    /\ \A e \in escritas : ~e.f.ocupa
    /\ Pede({DaTela(tela.renova)})
    /\ UNCHANGED <<tela, filtro, pagina, mostrado, erro, escritaVars, servidor, vista>>

Aperta ==
    /\ tela.botao /\ cargas = {}
    /\ Pede({DaTela(FALSE)})
    /\ UNCHANGED <<tela, filtro, pagina, mostrado, erro, escritaVars, servidor, vista>>

\* A sheet is closed: what it asked is of nobody.
FechaFicha ==
    /\ filtro' = Fechada /\ pagina' = 1
    /\ cargas' = {} /\ escritas' = {} /\ mostrado' = Nada
    /\ carregando' = FALSE /\ erro' = FALSE
    /\ UNCHANGED seq
Fecha ==
    /\ tela.fecha /\ filtro # Fechada
    /\ FechaFicha
    /\ UNCHANGED <<tela, enviadas, minha, servidor, vista>>

-----------------------------------------------------------------------------
(* Answers *)

\* The server reads when it answers.
Responde(c) ==
    /\ c.fase = "vai"
    /\ \E ok \in BOOLEAN :
          cargas' = (cargas \ {c}) \cup {[c EXCEPT !.fase = "volta", !.ok = ok, !.versao = servidor]}
    /\ UNCHANGED <<tela, filtro, pagina, seq, carregando, mostrado, erro, escritaVars, servidor, vista>>

\* What a screen that does not number its requests does with every answer.
AceitaTudo(c) == c.n <= seq
Aceita(c) == tela.guarda \in {"ordem", "cancela"} => c.n = seq
Mostra(c) ==
    /\ mostrado' = [n |-> c.n, filtro |-> c.filtro, pagina |-> c.pagina, versao |-> c.versao,
                    herdada |-> c.herdada \/ (tela.botao /\ c.filtro # filtro)]
    /\ vista' = Maior(vista, c.versao)

Chega(c) ==
    /\ c.fase = "volta" /\ c.ok
    /\ cargas' = cargas \ {c}
    /\ IF Aceita(c) THEN Mostra(c) /\ erro' = FALSE /\ carregando' = FALSE
                    ELSE UNCHANGED <<mostrado, vista, erro, carregando>>
    /\ UNCHANGED <<tela, filtro, pagina, seq, escritaVars, servidor>>

\* A failure that is notified makes a screen that "avisa" ask again, with no pause.
Falha(c) ==
    /\ c.fase = "volta" /\ ~c.ok
    /\ IF ~Aceita(c)
       THEN cargas' = cargas \ {c} /\ UNCHANGED <<filtro, pagina, mostrado, erro, carregando, seq, escritas>>
       ELSE IF tela.fecha THEN FechaFicha
       ELSE /\ erro' = TRUE
            /\ UNCHANGED <<filtro, pagina, mostrado, escritas>>
            /\ IF tela.avisa
               THEN /\ seq < MaxCargas /\ seq' = seq + 1
                    /\ cargas' = (cargas \ {c}) \cup {DaTela(FALSE)}
                    /\ carregando' = (tela.gira # "nunca")
               ELSE cargas' = cargas \ {c} /\ carregando' = FALSE /\ UNCHANGED seq
    /\ UNCHANGED <<tela, enviadas, minha, servidor, vista>>

-----------------------------------------------------------------------------
(* Writing *)

Muda ==
    /\ servidor < MaxVersaoDoDado /\ servidor' = servidor + 1
    /\ UNCHANGED <<tela, filtro, pagina, cargaVars, mostrado, erro, escritaVars, vista>>

\* The button of a card that shows the answer of its form waits for it (busy).
Envia(f) ==
    /\ mostrado # Nada
    /\ f.recarrega = "devolve" => escritas = {}
    /\ enviadas < MaxEscritas /\ enviadas' = enviadas + 1
    /\ escritas' = escritas \cup {[n |-> enviadas + 1, f |-> f, filtro |-> filtro, pagina |-> pagina,
                                  fase |-> "vai", versao |-> 0]}
    /\ UNCHANGED <<tela, filtro, pagina, cargaVars, mostrado, erro, servidor, minha, vista>>

Passa(e, fase, versao) == escritas' = (escritas \ {e}) \cup {[e EXCEPT !.fase = fase, !.versao = versao]}

\* The server writes, or refuses; then its answer arrives, or is lost.
Grava(e) ==
    /\ e.fase = "vai"
    /\ \/ servidor < MaxVersaoDoDado /\ servidor' = servidor + 1 /\ Passa(e, "gravou", servidor')
       \/ Passa(e, "recusou", 0) /\ UNCHANGED servidor
    /\ UNCHANGED <<tela, filtro, pagina, cargaVars, mostrado, erro, enviadas, minha, vista>>

\* load() as it was when the form was sent; then the effect of a screen that "avisa".
DoEnvio(e) ==
    {Carga(seq + 1, e.filtro, e.pagina, tela.gira # "sempre", <<e.filtro, e.pagina>> # <<filtro, pagina>>)}
        \cup (IF tela.avisa THEN {DoEfeito(seq + 2, filtro, pagina)} ELSE {})
Volta(e) ==
    /\ e.fase = "gravou"
    /\ escritas' = escritas \ {e}
    /\ \/ /\ e.f.recarrega \in {"aceita", "sempre"} /\ ~Ocupada
          /\ Pede(DoEnvio(e))
          /\ minha' = Maior(minha, e.versao)
          /\ UNCHANGED <<mostrado, vista>>
       \/ /\ e.f.recarrega \in {"aceita", "sempre"} /\ Ocupada
          /\ NaoPede /\ UNCHANGED <<mostrado, vista, minha>>
       \/ /\ e.f.recarrega = "devolve"
          /\ Mostra([Carga(seq, filtro, pagina, FALSE, FALSE) EXCEPT !.versao = e.versao])
          /\ NaoPede /\ UNCHANGED minha
       \/ /\ e.f.recarrega = "nunca"
          /\ IF tela.avisa THEN Pede({DaTela(FALSE)}) ELSE NaoPede
          /\ UNCHANGED <<mostrado, vista, minha>>
    /\ UNCHANGED <<tela, filtro, pagina, erro, enviadas, servidor>>

\* Refused, or written without the screen knowing.
Perde(e) ==
    /\ e.fase \in {"gravou", "recusou"}
    /\ escritas' = escritas \ {e}
    /\ IF e.f.recarrega = "sempre" THEN Pede(DoEnvio(e)) /\ minha' = Maior(minha, e.versao)
       ELSE /\ IF tela.avisa THEN Pede({DaTela(FALSE)}) ELSE NaoPede
            /\ UNCHANGED minha
    /\ UNCHANGED <<tela, filtro, pagina, mostrado, erro, enviadas, servidor, vista>>

-----------------------------------------------------------------------------

TypeOK ==
    /\ tela \in Telas
    /\ filtro \in Filtros \cup {Fechada} /\ pagina \in Paginas
    /\ seq \in 0..MaxCargas
    /\ \A c \in cargas : c.n \in 1..seq /\ c.pagina \in Paginas /\ c.versao <= servidor
    /\ \A c, d \in cargas : c.n = d.n => c = d
    /\ mostrado.n \in 0..seq /\ mostrado.versao <= servidor
    /\ carregando \in BOOLEAN /\ erro \in BOOLEAN
    /\ enviadas \in 0..MaxEscritas /\ servidor \in 1..MaxVersaoDoDado
    /\ {minha, vista} \subseteq 0..servidor

Next ==
    \/ \E f \in Filtros : Filtra(f)
    \/ \E p \in Paginas : Vira(p)
    \/ Renova \/ Aperta \/ Fecha \/ Muda
    \/ \E c \in cargas : Responde(c) \/ Chega(c) \/ Falha(c)
    \/ \E f \in tela.formularios : Envia(f)
    \/ \E e \in escritas : Grava(e) \/ Volta(e) \/ Perde(e)
Spec == Init /\ [][Next]_vars

-----------------------------------------------------------------------------
(* Properties *)

EmRepouso == cargas = {} /\ ~erro /\ mostrado # Nada
\* The answers of a screen that takes them all crossed.
Cruzou == tela.guarda = "nenhuma" /\ mostrado.n < seq

\* At rest, a screen shows what its filter and its page say; unless its answers crossed,
\* or it was asked again by a form sent under another filter.
ShowsWhatWasAsked ==
    EmRepouso /\ ~tela.botao /\ ~Cruzou /\ ~mostrado.herdada =>
        mostrado.filtro = filtro /\ mostrado.pagina = pagina
\* A result that is cleared with the choice is of this choice, unless it was on its way.
ClearedResult == tela.botao /\ tela.limpa /\ mostrado # Nada /\ ~mostrado.herdada => mostrado.filtro = filtro

\* A screen that drops late answers never goes back to what was.
NeverGoesBack == tela.guarda # "nenhuma" /\ mostrado # Nada => mostrado.versao = vista

\* What was written here is on the screen that was asked again for it.
WriteIsShown == EmRepouso /\ ~Cruzou => mostrado.versao >= minha

\* The spinner stops; and while it numbers its requests, not before the last answer.
SpinnerIsTrue ==
    /\ carregando => cargas # {}
    /\ tela.guarda = "ordem" /\ (\E c \in cargas : c.n = seq /\ ~c.quieta) => carregando

ScreensAreCurrent == ShowsWhatWasAsked /\ ClearedResult /\ NeverGoesBack /\ WriteIsShown /\ SpinnerIsTrue
=============================================================================
