-------------------------------- MODULE Acesso -------------------------------
(***************************************************************************)
(* Who may do what, from the browser of one person: the sign-in and where   *)
(* it lands, the gate of the panel and of the area of affiliates, the menu, *)
(* and what each screen asks of the API, while the staff changes roles and  *)
(* takes access away.  The guards of the API read the role of the account   *)
(* again at each request; a tab keeps the role it was told.                 *)
(***************************************************************************)
EXTENDS Rotas, FiniteSets

CONSTANTS
    Gente,          \* accounts
    Chefe,          \* the main account, ADMIN_BOOTSTRAP_EMAIL
    Navegadores,    \* whose browser may be followed
    MaxMudancas,    \* changes of roles and of access
    MaxTrocas       \* changes of a role in flight, while nobody uses the browser

VARIABLES
    cadastro,   \* per account: usuario.papel, tokenVersion, desativadoEm, and whether it has a row in afiliado
    eu,         \* whose browser it is
    cookie,     \* the version in the session of the browser, SemSessao without one
    aba,        \* the tab: where it is, the role it was told, whether it came there by signing in
    troca,      \* updateUserRole in flight: who asked, of whom, which role, and the rank read before the transaction
    aprovado,   \* history: whose role approveAffiliate wrote, since the last change of it that ends sessions
    mudancas

acessoVars == <<cadastro, eu, cookie, aba, troca, aprovado, mudancas>>

SemSessao == -1
Lugares == {"fora", "painel", "afiliado", "site"}
NaoSabe == "?"

IsSuperAdmin(p, papel) == papel = "admin" /\ p = Chefe
Rank == [cotista |-> 0, afiliado |-> 1, operacao |-> 2, admin |-> 3]
RankOf(p, papel) == IF IsSuperAdmin(p, papel) THEN 4 ELSE Rank[papel]

Ativo(p) == cadastro[p].ativa
AdminAgora(p) == Ativo(p) /\ cadastro[p].papel = "admin"
\* JwtAuthGuard: the account is there, active, and of the version the token was issued for.
SessaoVale == cookie # SemSessao /\ Ativo(eu) /\ cookie = cadastro[eu].versao
Perfil0 == [papel |-> cadastro[eu].papel, principal |-> IsSuperAdmin(eu, cadastro[eu].papel)]

Init ==
    /\ cadastro \in [Gente -> [papel : Papeis, versao : {0}, ativa : {TRUE}, ficha : BOOLEAN]]
    /\ cadastro[Chefe].papel = "admin"
    \* an affiliate has a row, a customer may have asked for one
    /\ \A p \in Gente : (cadastro[p].papel = "afiliado" => cadastro[p].ficha)
                          /\ (cadastro[p].ficha => cadastro[p].papel \in {"afiliado", "cotista"})
    /\ eu \in Navegadores
    /\ cookie = SemSessao
    /\ aba = [lugar |-> "fora", papel |-> NaoSabe, entrou |-> FALSE]
    /\ troca = {}
    /\ aprovado = {}
    /\ mudancas = 0

-----------------------------------------------------------------------------
(* Signing in, and the gates *)

IsStaff(papel) == papel \in Equipe
HomeForRole == [cotista |-> "site", afiliado |-> "afiliado", operacao |-> "painel", admin |-> "painel"]
AllowedNext ==
    [cotista |-> {"site"}, afiliado |-> {"site", "afiliado"}, operacao |-> {"painel"}, admin |-> {"painel", "site", "afiliado"}]
\* next is where the person was going, "fora" when there is none
LandingFor(papel, next) ==
    IF next \in AllowedNext[papel] /\ papel # "operacao" THEN next ELSE HomeForRole[papel]

\* The three forms of the sign-in: of the site, of the panel, and of affiliates.
Aceita(entrada, papel) ==
    CASE entrada = "painel" -> IsStaff(papel)
      [] entrada = "afiliado" -> papel = "afiliado"
      [] OTHER -> TRUE

\* With the browser in use, one change of a role at a time is asked for.
PodePedir == troca = {} \/ (eu # Chefe /\ cookie = SemSessao /\ aba.lugar = "fora" /\ Cardinality(troca) < MaxTrocas)
PodeUsar == troca = {}
\* Nobody but the main account touches it: one change is enough while its browser is followed.
PodeMudar == mudancas < IF eu = Chefe THEN 1 ELSE MaxMudancas

Entra(entrada, next) ==
    /\ PodeUsar
    /\ Ativo(eu)
    /\ IF Aceita(entrada, cadastro[eu].papel)
       THEN /\ cookie' = cadastro[eu].versao
            /\ aba' = [lugar |-> LandingFor(cadastro[eu].papel, next), papel |-> NaoSabe, entrou |-> TRUE]
       ELSE cookie' = SemSessao /\ UNCHANGED aba
    /\ UNCHANGED <<cadastro, eu, troca, aprovado, mudancas>>

\* An address typed, or a tab reloaded.
Abre(lugar) ==
    /\ PodeUsar
    /\ lugar # "fora"
    /\ aba' = [lugar |-> lugar, papel |-> NaoSabe, entrou |-> FALSE]
    /\ UNCHANGED <<cadastro, eu, cookie, troca, aprovado, mudancas>>

\* The effect of StaffGate, and the first load of AffiliateDashboard: auth/me, or a refresh, refused together.
Confere ==
    /\ aba.lugar \in {"painel", "afiliado"} /\ aba.papel = NaoSabe
    /\ aba' = IF SessaoVale THEN [aba EXCEPT !.papel = cadastro[eu].papel] ELSE [aba EXCEPT !.lugar = "fora"]
    /\ UNCHANGED <<cadastro, eu, cookie, troca, aprovado, mudancas>>

\* The screens the gate of the panel keeps for a role, and the menu and tabs of the panel.
STAFF_VIEWS == {"operacao"}
SUPERADMIN_VIEWS == {"conexoes", "auditoria", "configuracoes"}
\* (MostraATodoAdmin would forget what is for the main account only)
MostraATodoAdmin(papel, principal, v) == IsStaff(papel) /\ (papel = "operacao" => v \in STAFF_VIEWS)
Mostra(papel, principal, v) ==
    /\ IsStaff(papel)
    /\ papel = "operacao" => v \in STAFF_VIEWS
    /\ papel = "admin" /\ ~principal => v \notin SUPERADMIN_VIEWS
AdminHubs ==
    {{"boloes", "jogos", "cotas", "controle"}, {"financeiro", "recebimentos", "comissoes", "repasses", "notas-fiscais"},
     {"operacao", "comprovantes", "lotericas", "comunicados"}}
AdminShell(papel, principal) ==
    {v \in {"visao-geral", "relatorios", "concursos", "boloes", "crm", "afiliados", "grupos", "vitrine", "usuarios", "conexoes",
            "auditoria", "configuracoes", "financeiro", "operacao"} :
        IF papel = "operacao" THEN v \in STAFF_VIEWS ELSE principal \/ v \notin SUPERADMIN_VIEWS}
AdminHubTabs(papel, principal, v) ==
    LET abas == {t \in UNION {h \in AdminHubs : v \in h} :
                    (papel = "operacao" => t \in STAFF_VIEWS) /\ (principal \/ t \notin SUPERADMIN_VIEWS)}
    IN IF Cardinality(abas) < 2 THEN {} ELSE abas

-----------------------------------------------------------------------------
(* Changes of roles and of access, by any administrator *)

CanManage(ator, p, papel) == ator = p \/ RankOf(ator, "admin") > RankOf(p, papel)
CanGrantRole(ator, papel) == Rank[papel] < RankOf(ator, "admin")
\* inside a transaction, with the advisory lock
\* (SoAtivo would trust the role the request came with, MesmaVersao would leave the old sessions open)
SoAtivo(ator) == Ativo(ator)
LockAdminActor(ator) == AdminAgora(ator)
MesmaVersao(c) == c.versao
ProximaVersao(c) == c.versao + 1

UpdateUserRole(ator, p, papel) ==
    /\ AdminAgora(ator)
    /\ PodePedir /\ PodeMudar
    /\ ator = p => papel = "admin"
    /\ CanManage(ator, p, cadastro[p].papel)
    /\ ator # p => CanGrantRole(ator, papel)
    /\ troca' = troca \cup {[ator |-> ator, alvo |-> p, papel |-> papel, visto |-> RankOf(p, cadastro[p].papel)]}
    /\ mudancas' = mudancas + 1
    /\ UNCHANGED <<cadastro, eu, cookie, aba, aprovado>>

\* Its transaction: the target was read before.  A new affiliate gets a row.
ComPapel(c, papel) ==
    LET d == [c EXCEPT !.papel = papel, !.versao = ProximaVersao(c)]
    IN  IF papel = "afiliado" THEN [d EXCEPT !.ficha = TRUE] ELSE d

GravaPapel(t) ==
    /\ troca' = troca \ {t}
    /\ IF LockAdminActor(t.ator)
       THEN /\ cadastro' = [cadastro EXCEPT ![t.alvo] = ComPapel(@, t.papel)]
            /\ aprovado' = aprovado \ {t.alvo}
       ELSE UNCHANGED <<cadastro, aprovado>>
    /\ UNCHANGED <<eu, cookie, aba, mudancas>>

SetActive(ator, p, ativa) ==
    /\ LockAdminActor(ator)
    /\ ativa \/ ator # p
    /\ CanManage(ator, p, cadastro[p].papel)
    /\ ativa # cadastro[p].ativa
    /\ PodeMudar
    /\ cadastro' = [cadastro EXCEPT ![p].ativa = ativa, ![p].versao = ProximaVersao(cadastro[p])]
    /\ aprovado' = aprovado \ {p}
    /\ mudancas' = mudancas + 1
    /\ UNCHANGED <<eu, cookie, aba, troca>>

\* approveAffiliate: whoever owns the row becomes an affiliate, and no session ends.
ApproveAffiliate(ator, p) ==
    /\ AdminAgora(ator) /\ cadastro[p].ficha
    /\ PodeMudar
    /\ cadastro' = [cadastro EXCEPT ![p].papel = "afiliado"]
    /\ aprovado' = aprovado \cup {p}
    /\ mudancas' = mudancas + 1
    /\ UNCHANGED <<eu, cookie, aba, troca>>

EntraPelaPagina == \E entrada \in {"site", "painel", "afiliado"}, next \in Lugares : Entra(entrada, next)
AbreEndereco == \E lugar \in Lugares : Abre(lugar)
PedeTroca == \E ator, p \in Gente, papel \in Papeis : UpdateUserRole(ator, p, papel)
GravaTroca == \E t \in troca : GravaPapel(t)
MudaAcesso == \E ator, p \in Gente, ativa \in BOOLEAN : SetActive(ator, p, ativa)
AprovaAfiliado == \E ator, p \in Gente : ApproveAffiliate(ator, p)

Next ==
    \/ EntraPelaPagina
    \/ AbreEndereco
    \/ Confere
    \/ PedeTroca
    \/ GravaTroca
    \/ MudaAcesso
    \/ AprovaAfiliado

-----------------------------------------------------------------------------

TypeOK ==
    /\ cadastro \in [Gente -> [papel : Papeis, versao : 0 .. MaxMudancas, ativa : BOOLEAN, ficha : BOOLEAN]]
    /\ eu \in Gente
    /\ cookie \in {SemSessao} \cup 0 .. MaxMudancas
    /\ aba \in [lugar : Lugares, papel : Papeis \cup {NaoSabe}, entrou : BOOLEAN]
    /\ troca \subseteq [ator : Gente, alvo : Gente, papel : Papeis, visto : 0 .. 4]
    /\ aprovado \subseteq Gente
    /\ mudancas \in 0 .. MaxMudancas

\* What the back office shows to the operation team though its routes are for administrators (see the README).
BotoesRecusados == {<<"attachments", "remove">>, <<"pools", "publish">>}

\* A tab that was told the present role of its person offers nothing the API refuses to that person.
OfferedIsAllowed ==
    SessaoVale /\ aba.papel = cadastro[eu].papel =>
        /\ aba.lugar = "painel" =>
            \A v \in TelasDoPainel : Mostra(aba.papel, Perfil0.principal, v) =>
                NaTela(v, Perfil0.principal) \ Abertas[Perfil0] \subseteq (IF aba.papel = "operacao" THEN BotoesRecusados ELSE {})
        /\ aba.lugar = "afiliado" /\ aba.papel = "afiliado" => AreaDoAfiliado \subseteq Abertas[Perfil0]
SiteIsForAll == SessaoVale /\ aba.lugar = "site" => NoSite \subseteq Abertas[Perfil0]

\* Whoever has just signed in is where the gate will let them in: an administrator who was going to the area of
\* affiliates is the exception (see the README).
LandsInside ==
    aba.entrou /\ SessaoVale /\ eu \notin aprovado =>
        /\ aba.lugar = "painel" => IsStaff(cadastro[eu].papel)
        /\ aba.lugar = "afiliado" => cadastro[eu].papel \in {"afiliado", "admin"}

\* Every screen of the menu and of its tabs is one the gate keeps for that role.
MenuLeads ==
    aba.lugar = "painel" /\ aba.papel # NaoSabe /\ IsStaff(aba.papel) =>
        LET principal == IsSuperAdmin(eu, aba.papel)
            menu == AdminShell(aba.papel, principal)
        IN /\ menu # {}
           /\ \A v \in menu \cup UNION {AdminHubTabs(aba.papel, principal, m) : m \in menu} :
                v \in TelasDoPainel /\ Mostra(aba.papel, principal, v)

\* A tab that still shows the screens of a role its person lost has lost its session, but for approveAffiliate.
StaleTabIsOut ==
    aba.papel \notin {NaoSabe, cadastro[eu].papel} => ~SessaoVale \/ eu \in aprovado

AccessIsSound == OfferedIsAllowed /\ SiteIsForAll /\ LandsInside /\ MenuLeads /\ StaleTabIsOut

\* Administrators are made by the main account only, whatever was in flight; one stops being an administrator only by
\* the main account, by approveAffiliate, or by a request that read it before it was one; and the main account stays.
HierarchyHolds ==
    [][/\ \A p \in Gente :
            /\ cadastro[p].papel # "admin" /\ cadastro'[p].papel = "admin" =>
                 \E t \in troca \ troca' : t.ator = Chefe /\ t.alvo = p
            /\ cadastro[p].papel = "admin" /\ cadastro'[p].papel # "admin" =>
                 p \in aprovado' \/ \E t \in troca \ troca' : t.alvo = p /\ (t.ator = Chefe \/ t.visto < Rank.admin)
       /\ AdminAgora(Chefe)']_acessoVars
=============================================================================
