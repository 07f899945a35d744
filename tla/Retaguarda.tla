----------------------------- MODULE Retaguarda -----------------------------
(***************************************************************************)
(* The services whose proofs share one module, Retaguarda_proofs: payouts  *)
(* to affiliates, the network of affiliates, the files of a pool, who is   *)
(* admitted to what, the invoices, the providers of payment, the notices   *)
(* on a device and the screens.  They share the process and the database,  *)
(* and no variable; the steps they take are in Servicos, with those of the *)
(* other services.                                                         *)
(***************************************************************************)
EXTENDS Integers, FiniteSets

CONSTANTS
    Pedidos,                                    \* requests in flight, of every service
    Comissoes, Lotes, MaxPagando,
    Pessoas, Convites, Apagaveis, MaxAtos,
    Conteudos, Arquivos, MaxFalhasDeArquivo,
    Chefe, Navegadores, MaxMudancas, MaxTrocas,
    MaxRefs,
    MaxCobrancas, MaxPostagens, MaxFalhas,
    Instancias, Donos, MaxRecusas, MaxEnderecos,
    Filtros, Inicial, MaxCargas, MaxNoAr, MaxEscritas, MaxVersaoDoDado

\* The main account is one of the accounts, and no file has the name of the notice of a payment.
ASSUME RetaguardaAssumption ==
    /\ Chefe \in Pessoas /\ Navegadores \subseteq Pessoas
    /\ "pagamento" \notin Arquivos

\* Somebody uses the device, and nobody and no instance is named as the absence of one.
ASSUME AparelhosAssumption ==
    /\ "nenhum" \notin Instancias /\ "ninguem" \notin Donos /\ Donos # {}
    /\ MaxRecusas \in Nat \ {0} /\ MaxEnderecos \in Nat

\* The bounds are numbers, enough for one charge, one request of a screen and one change; a screen opens with a filter.
ASSUME LimitesDaRetaguarda ==
    /\ {MaxAtos, MaxFalhasDeArquivo, MaxPostagens, MaxFalhas, MaxEscritas} \subseteq Nat
    /\ {MaxMudancas, MaxCobrancas, MaxCargas, MaxVersaoDoDado} \subseteq Nat \ {0}
    /\ Inicial \in Filtros

VARIABLES
    comissao, lote, lista, pagando, cruzados,
    papel, afiliado, grupo, convite, veioDe, pedidoRede, cruzadosRede, atos,
    cotaDona, arquivo, disco, avisos, correio, recebeu, cruzadosArquivo, falhasArquivo,
    cadastro, eu, cookie, aba, troca, aprovado, mudancas,
    provedor, nota, emissor, pedidoNota, usadas, liberada,
    psp, token, pagamento, reservada, criacao, postagens, cobrancas, paginas, eventos, lidas, postadas, falhasPsp,
    banco, memoria, geracao, aparelho, cliente, linhas, envio, recusas,
    tela, filtro, pagina, seq, cargas, mostrado, carregando, erro, escritas, enviadas, servidor, minha, vista

R == INSTANCE Repasses
D == INSTANCE Rede WITH pedido <- pedidoRede, cruzados <- cruzadosRede
Q == INSTANCE Arquivos WITH cota <- cotaDona, cruzados <- cruzadosArquivo, falhas <- falhasArquivo,
                            MaxFalhas <- MaxFalhasDeArquivo
X == INSTANCE Acesso WITH Gente <- Pessoas
F == INSTANCE NotaFiscal WITH pedido <- pedidoNota
V == INSTANCE Provedores
U == INSTANCE Push WITH Contas <- Donos
T == INSTANCE Paineis

repassesVars == <<comissao, lote, lista, pagando, cruzados>>
redeVars == <<papel, afiliado, grupo, convite, veioDe, pedidoRede, cruzadosRede, atos>>
arquivosVars == <<cotaDona, arquivo, disco, avisos, correio, recebeu, cruzadosArquivo, falhasArquivo>>
acessoVars == <<cadastro, eu, cookie, aba, troca, aprovado, mudancas>>
fiscalVars == <<provedor, nota, emissor, pedidoNota, usadas, liberada>>
provedoresVars == <<psp, token, pagamento, reservada, criacao, postagens, cobrancas, paginas, eventos, lidas, postadas, falhasPsp>>
pushVars == <<banco, memoria, geracao, aparelho, cliente, linhas, envio, recusas>>
paineisVars == <<tela, filtro, pagina, seq, cargas, mostrado, carregando, erro, escritas, enviadas, servidor, minha, vista>>
=============================================================================
