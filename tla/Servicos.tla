------------------------------ MODULE Servicos ------------------------------
(***************************************************************************)
(* The services around the sale: payouts, responsible play, invoices,      *)
(* accounts, the network of affiliates, the staff's side of a pool, the    *)
(* calculations, the statistics, the providers of payment, the push, the   *)
(* form of a new pool, the sources of results, the files of a pool, the     *)
(* screens that show all that, who is admitted to each of them, and the     *)
(* bank of numbers.                                                        *)
(* They share the process and the database, but where one depends on what  *)
(* another writes (the release of a pool, the refund of a sale) its module *)
(* has that change as an action of its environment, at any moment.  So a   *)
(* property of one holds in the composition if it holds when that service  *)
(* moves alone.  "foco" is the service that moves in a behaviour: the      *)
(* states of the services add up instead of multiplying.                   *)
(***************************************************************************)
EXTENDS Retaguarda

CONSTANTS
    Limites, SemLimite, Espera, Pausas, Custos, MaxGasto, MaxPedidos, MaxTempo,
    MaxErros, MaxSenhas, MaxVersao, MaxLinks,
    Cotas, Anexos, MaxPremio, MaxEdicoes,
    Partes, Jogos, MaxQuantidade, MaxTotal, MaxCusto, MaxCotas, MaxValor, MaxJogos,
    MenorJanela, Janelas, AmostraAtraso, TamanhoDoGrupo, Barras, Topo, DatasAte, LimiteHistorico, MaxConcursos,
    Quantidades, UltimoConcurso, Profundidades, LimitesImportacao,
    Precos, Valores, MaxVersoes,
    Consultas, UltimaFonte, Descanso, MaxConsultas,
    Cartoes, MaxNumero, Sorteaveis, MaxMarcas, MaxMarcando

\* Money and days are natural numbers; no limit is above every limit and spending.
ASSUME LimitesAssumption ==
    /\ Limites \subseteq Nat /\ SemLimite \in Nat /\ Custos \subseteq Nat
    /\ Pausas \subseteq Nat \ {0} /\ Espera \in Nat
    /\ \A v \in Limites \cup {MaxGasto} : v < SemLimite

\* The code tries something at least once, and an account has its first password.
ASSUME TentativasAssumption ==
    /\ MaxErros \in Nat \ {0} /\ MaxPostagens \in Nat \ {0}
    /\ MaxRefs \in Nat \ {0} /\ MaxSenhas \in Nat \ {0}

\* The bounds are numbers, and requests in flight are finitely many.
ASSUME BoundsAssumption ==
    /\ IsFiniteSet(Pedidos)
    /\ {MaxGasto, MaxPedidos, MaxTempo, MaxPremio, MaxEdicoes, MaxVersao, MaxVersoes,
        MaxConsultas, MaxMarcas} \subseteq Nat

\* A table has a price in each version and a bet costs something; a game costs nothing less than nothing.
ASSUME PrecosAssumption ==
    /\ Precos \subseteq Nat \ {0} /\ Precos # {}
    /\ Valores \subseteq Nat /\ Valores # {}

\* Shares are finitely many and have numbers, and so have a prize and the shares of a person.
ASSUME PartesAssumption ==
    /\ IsFiniteSet(Partes) /\ Partes \subseteq Int
    /\ MaxTotal \in Nat /\ MaxQuantidade \in Nat

\* Who asks for games asks for one at least, and a ticket has so many games.
ASSUME JogosAssumption == Quantidades \subseteq Nat \ {0} /\ MaxJogos \in Nat

\* A window, a sample, a limit or a ranking is so many contests or numbers, and there are bars and groups to fill.
ASSUME BasesAssumption ==
    /\ {MenorJanela, AmostraAtraso, Topo, DatasAte, LimiteHistorico, MaxConcursos} \subseteq Nat
    /\ {TamanhoDoGrupo, Barras, UltimoConcurso} \subseteq Nat \ {0}
    /\ Janelas \subseteq Nat /\ LimitesImportacao \subseteq Nat /\ Profundidades \subseteq Nat

\* There is a source to ask, CAIXA itself, and a rest is counted in units of time.
ASSUME FontesAssumption == UltimaFonte \in Nat \ {0} /\ Descanso \in Nat

VARIABLES
    foco,
    agora, pessoa, gasto, pedidoJogo, feitos, decisao, perdida,
    conta, senhas, link, pedidoConta, sessao, palpites,
    bolao, premio, aberto, cota, anexo, pedidoBolao, cruzadosBolao,
    calculo,
    consulta,
    tabela, carga, form, precoPagina, cotacao, buscas, criacaoBolao, rascunho,
    descanso, chamada, chamadas,
    guardados, marcando, marcas, vezes

\* The two lotteries of the computations: one with two draws, one with a larger bet.
Loterias ==
    {[menor |-> 1, maior |-> 3, sorteia |-> 2, apostaMin |-> 2, apostaMax |-> 3, dois |-> TRUE],
     [menor |-> 0, maior |-> 4, sorteia |-> 2, apostaMin |-> 2, apostaMax |-> 4, dois |-> FALSE]}

Cartelas == {[menor |-> 1, maior |-> 10, sorteia |-> 4, apostaMin |-> 4, apostaMax |-> 5, dois |-> FALSE]}

J == INSTANCE JogoResponsavel WITH conta <- pessoa, pedido <- pedidoJogo
C == INSTANCE Contas WITH pedido <- pedidoConta
B == INSTANCE CicloBolao WITH pedido <- pedidoBolao, cruzados <- cruzadosBolao
K == INSTANCE Calculos
E == INSTANCE Estatisticas WITH Limites <- LimitesImportacao
A == INSTANCE Assistente WITH criacao <- criacaoBolao, bolao <- rascunho
O == INSTANCE Fontes
G == INSTANCE Banco

jogoVars == <<agora, pessoa, gasto, pedidoJogo, feitos, decisao, perdida>>
contasVars == <<conta, senhas, link, pedidoConta, sessao, palpites>>
bolaoVars == <<bolao, premio, aberto, cota, anexo, pedidoBolao, cruzadosBolao>>
calculosVars == <<calculo>>
estatisticasVars == <<consulta>>
assistenteVars == <<tabela, carga, form, precoPagina, cotacao, buscas, criacaoBolao, rascunho>>
fontesVars == <<descanso, chamada, chamadas>>
bancoVars == <<guardados, marcando, marcas, vezes>>
vars == <<foco, repassesVars, jogoVars, fiscalVars, contasVars, redeVars, bolaoVars, calculosVars, estatisticasVars, provedoresVars, pushVars,
          assistenteVars, fontesVars, arquivosVars, paineisVars, acessoVars, bancoVars>>

Init ==
    /\ foco \in {"repasses", "jogo", "fiscal", "contas", "rede", "bolao", "calculos", "estatisticas", "provedores", "push",
                "assistente", "fontes", "arquivos", "paineis", "acesso", "banco"}
    \* of the services that do not move the choices at the start make no difference
    /\ R!Init
    /\ J!Init
    /\ F!Init /\ (foco # "fiscal" => provedor = "focus")
    /\ C!Init
    /\ D!Init
    /\ B!Init /\ (foco # "bolao" => bolao.gatilho = 0)
    /\ K!Init
    /\ E!Init
    /\ V!Init /\ (foco # "provedores" => psp = "mock")
    /\ U!Init
    /\ A!Init /\ (foco # "assistente" => form.modo = "digitar")
    /\ O!Init
    /\ Q!Init
    /\ T!Init /\ (foco # "paineis" => tela = T!Relatorios)
    /\ X!Init /\ (foco # "acesso" => eu = Chefe /\ \A p \in Pessoas : cadastro[p].papel = "admin")
    /\ G!Init

\* The services that do not move.
Parados ==
    /\ UNCHANGED foco
    /\ foco # "repasses" => UNCHANGED repassesVars
    /\ foco # "jogo" => UNCHANGED jogoVars
    /\ foco # "fiscal" => UNCHANGED fiscalVars
    /\ foco # "contas" => UNCHANGED contasVars
    /\ foco # "rede" => UNCHANGED redeVars
    /\ foco # "bolao" => UNCHANGED bolaoVars
    /\ foco # "calculos" => UNCHANGED calculosVars
    /\ foco # "estatisticas" => UNCHANGED estatisticasVars
    /\ foco # "provedores" => UNCHANGED provedoresVars
    /\ foco # "push" => UNCHANGED pushVars
    /\ foco # "assistente" => UNCHANGED assistenteVars
    /\ foco # "fontes" => UNCHANGED fontesVars
    /\ foco # "arquivos" => UNCHANGED arquivosVars
    /\ foco # "paineis" => UNCHANGED paineisVars
    /\ foco # "acesso" => UNCHANGED acessoVars
    /\ foco # "banco" => UNCHANGED bancoVars

RepassesAnda == foco = "repasses" /\ R!Next
JogoAnda == foco = "jogo" /\ J!Next
FiscalAnda == foco = "fiscal" /\ F!Next
ContasAnda == foco = "contas" /\ C!Next
RedeAnda == foco = "rede" /\ D!Next
BolaoAnda == foco = "bolao" /\ B!Next
CalculosAnda == foco = "calculos" /\ K!Next
EstatisticasAnda == foco = "estatisticas" /\ E!Next
ProvedoresAnda == foco = "provedores" /\ V!Next
PushAnda == foco = "push" /\ U!Next
AssistenteAnda == foco = "assistente" /\ A!Next
FontesAnda == foco = "fontes" /\ O!Next
ArquivosAnda == foco = "arquivos" /\ Q!Next
PaineisAnda == foco = "paineis" /\ T!Next
AcessoAnda == foco = "acesso" /\ X!Next
BancoAnda == foco = "banco" /\ G!Next

Next ==
    /\ Parados
    /\ \/ RepassesAnda
       \/ JogoAnda
       \/ FiscalAnda
       \/ ContasAnda
       \/ RedeAnda
       \/ BolaoAnda
       \/ CalculosAnda
       \/ EstatisticasAnda
       \/ ProvedoresAnda
       \/ PushAnda
       \/ AssistenteAnda
       \/ FontesAnda
       \/ ArquivosAnda
       \/ PaineisAnda
       \/ AcessoAnda
       \/ BancoAnda

Spec == Init /\ [][Next]_vars

-----------------------------------------------------------------------------
(* The properties, each stated and explained in the module of its service *)

\* Only of the service that moves: the others are in an initial state of their own.
TypeOK ==
    /\ foco = "repasses" => R!TypeOK
    /\ foco = "jogo" => J!TypeOK
    /\ foco = "fiscal" => F!TypeOK
    /\ foco = "contas" => C!TypeOK
    /\ foco = "rede" => D!TypeOK
    /\ foco = "bolao" => B!TypeOK
    /\ foco = "calculos" => K!TypeOK
    /\ foco = "estatisticas" => E!TypeOK
    /\ foco = "provedores" => V!TypeOK
    /\ foco = "push" => U!TypeOK
    /\ foco = "assistente" => A!TypeOK
    /\ foco = "fontes" => O!TypeOK
    /\ foco = "arquivos" => Q!TypeOK
    /\ foco = "paineis" => T!TypeOK
    /\ foco = "acesso" => X!TypeOK
    /\ foco = "banco" => G!TypeOK
\* Payouts: a commission is in the total of one batch, and once paid it stays paid.
PayoutsAddUp == R!PayoutsAddUp
\* Rules nobody may bend: no limit is loosened before its term, nobody buys against the rules of responsible play, and
\* administrators are made and unmade by the main account.
PlaysByTheRules == J!LoosensLate /\ J!BuysWithinTheRules /\ X!HierarchyHolds
OneInvoice == foco = "fiscal" => F!OneInvoice
\* Accounts: a changed password ends what the old one opened, guesses are bounded, and each role is offered what the
\* API admits it to.
AccountsAreSafe == (foco = "contas" => C!OldSessionsDie /\ C!GuessesAreBounded) /\ (foco = "acesso" => X!AccessIsSound)
\* The network of affiliates, and one account for each invitation.
NetworkIsSound == foco = "rede" => D!NetworkIsSound /\ D!OneAccountPerInvite
BuyersKeepTheirTerms == foco = "bolao" => B!BuyersKeepTheirTerms
\* Files: the last proof of a registered pool stays, and each file reaches whom it is for.
ProofIsKept == (foco = "bolao" => B!ProofIsKept) /\ (foco = "arquivos" => Q!FilesAreKept)
\* Money: the computations agree with each other, and a new pool sells for what its author saw.
MoneyAddsUp == (foco = "calculos" => K!MoneyAddsUp) /\ (foco = "assistente" => A!DraftsAreAsShown)
\* Draws: the statistics agree with the draws, every source of results is asked, and the bank counts the games used.
StatisticsAgree ==
    /\ foco = "estatisticas" => E!StatisticsAgree
    /\ foco = "fontes" => O!SourcesAreAsked
    /\ foco = "banco" => G!UsesAreCounted
ChargesAreSound == foco = "provedores" => V!ChargesAreSound
\* What people see: a device is told, and a screen shows what was asked of it.
PeopleAreInformed == (foco = "push" => U!PushReaches) /\ (foco = "paineis" => T!ScreensAreCurrent)
=============================================================================
