-------------------------------- MODULE Rotas --------------------------------
(***************************************************************************)
(* The routes of the API, by controller, with whom the guards of each one  *)
(* admit; and the routes each screen of the site calls when it opens or    *)
(* from a button of it.  A route is named by its controller and its method.*)
(***************************************************************************)
EXTENDS Integers

\* usuario.papel.  A visitor has no session.
Papeis == {"cotista", "afiliado", "operacao", "admin"}
Visitante == "visitante"
Todos == Papeis \cup {Visitante}
Admin == {"admin"}
Equipe == {"admin", "operacao"}
SoAfiliado == {"afiliado"}

\* @Public, JwtAuthGuard alone, or with @Roles; and SuperAdminGuard, or its check in the service.
De(c, metodos) == {<<c, m>> : m \in metodos}
Rotas(c, quem, metodos) == {[rota |-> r, quem |-> quem, principal |-> FALSE] : r \in De(c, metodos)}
DoPrincipal(c, metodos) == {[rota |-> r, quem |-> Admin, principal |-> TRUE] : r \in De(c, metodos)}

-----------------------------------------------------------------------------
(* Controllers *)

AuthController ==
    Rotas("auth", Todos, {"register", "inviteInfo", "login", "refresh", "logout"})
        \cup Rotas("auth", Papeis, {"me", "logoutAll", "startTwoFactor", "enableTwoFactor", "disableTwoFactor"})
AccountController ==
    Rotas("account", Todos, {"forgot", "reset"})
        \cup Rotas("account", Papeis, {"profile", "updateProfile", "savePhoto", "photo", "deletePhoto", "change", "exportData",
                                       "requestDeletion", "responsibleStatus", "pause", "setLimit"})
        \cup Rotas("account", Admin, {"adminLink", "adminResetTwoFactor"})
AdminUsersController ==
    Rotas("users", Admin, {"detail", "edit", "removeAccess", "deleteEmpty", "reactivate", "sendReset"})
AdminListasController ==
    Rotas("admin", Admin, {"dashboard", "contests", "pools", "shares", "payments", "affiliates", "commissions", "remittances",
                           "createRemittance", "payRemittance", "users", "createUser", "createAffiliate", "createAdminInvite",
                           "revokeInvite", "invites"})
AdminPessoasController ==
    Rotas("admin", Admin, {"createAdminGroup", "groups", "adminGroupMembers", "updateGroupCapacity", "removeGroupMember",
                           "updateUserRole", "updateUserKyc", "partners", "createPartner"})
        \cup Rotas("admin", Equipe, {"operation", "operationReceipt"})
        \cup DoPrincipal("admin", {"audits", "deleteGroup"})
AdminAfiliadosController ==
    Rotas("admin", {"cotista", "afiliado"}, {"requestAffiliate"})
        \cup Rotas("admin", SoAfiliado, {"createAffiliateInvite", "affiliateInvites", "createAffiliateGroup", "affiliateGroups",
                                         "affiliateGroupMembers", "affiliateNetwork", "affiliateWorkspace", "affiliateDashboard",
                                         "affiliateSales", "affiliateQuotas", "affiliateCommissions"})
        \cup Rotas("admin", Admin, {"approve", "updateAffiliateNetwork", "updateAffiliateCommission", "reconciliation"})
        \cup DoPrincipal("admin", {"settings"})
AttachmentsStaffController ==
    Rotas("attachments", Equipe, {"upload", "list", "shares", "update", "resend"})
        \cup Rotas("attachments", Admin, {"remove"})
AttachmentsDownloadController == Rotas("files", Papeis, {"mine", "file"})
CrmController == Rotas("crm", Admin, {"overview", "list", "detail", "note", "profile"})
NfseAdminController ==
    Rotas("nfse", Admin, {"settings", "sync", "list", "emit", "manual", "refresh", "cancel"})
        \cup DoPrincipal("nfse", {"diagnostics", "registerIssuer"})
UserAddressController == Rotas("address", Papeis, {"get", "save"})
HealthController == Rotas("health", Todos, {"health", "ready"})
HomeController ==
    Rotas("home", Todos, {"config", "latest", "image"}) \cup Rotas("home", Admin, {"adminView", "uploadImage", "save"})
LegalController == Rotas("legal", SoAfiliado, {"affiliate", "accept"}) \cup Rotas("legal", Papeis, {"mine"})
LotteriesController ==
    Rotas("lotteries", Todos, {"list", "getById", "getResult"})
        \cup Rotas("lotteries", Admin, {"sync", "diagnostics", "createManual", "situation", "festivals", "createFestival",
                                        "updateFestival", "deleteFestival"})
CommunicationsController == Rotas("communications", Admin, {"list", "preview", "send"})
NotificationsController ==
    Rotas("notifications", Papeis, {"list", "markAll", "markOne", "subscribe", "unsubscribe"})
        \cup Rotas("notifications", Todos, {"status"})
PushController == Rotas("push", Papeis, {"key", "status", "test", "subscribe", "unsubscribe"})
NumbersController == Rotas("numbers", Admin, {"list", "rules", "generate", "add", "used", "remove"})
OperationController == Rotas("operation", Equipe, {"health", "queue", "register"})
PaymentsController == Rotas("payments", Papeis, {"create", "current"}) \cup Rotas("payments", Todos, {"methods", "webhook"})
PaymentsAdminController ==
    Rotas("desk", Admin, {"manualSale", "markPaid", "cancel"}) \cup DoPrincipal("desk", {"settings", "registerWebhooks", "reconcile"})
PoolsController ==
    Rotas("pools", Todos, {"prices", "list", "group", "available", "drawn", "history", "get"})
        \cup Rotas("pools", Papeis, {"groupMembership", "joinGroup", "leaveGroup"})
        \cup Rotas("pools", {"admin", "afiliado"}, {"quote", "generateGames"})
        \cup Rotas("pools", SoAfiliado, {"createAffiliatePool", "updateAffiliatePool", "publishAffiliatePool", "closeAffiliatePool",
                                         "duplicateAffiliatePool", "cancelAffiliatePool"})
        \cup Rotas("pools", Admin, {"rejectApproval", "create", "update", "publish", "release", "close", "duplicate",
                                    "removeUnused", "cancel"})
PricingAdminController == Rotas("pricing", Admin, {"history", "version"})
ReportsController ==
    Rotas("reports", Admin, {"summary", "pools", "sales", "unpaid", "commissions", "payments", "invoices", "poolSheet"})
PublicConfigController == Rotas("config", Todos, {"mandate", "document"})
ReceiptVerifyController == Rotas("verify", Todos, {"verify"})
SharesController == Rotas("shares", Papeis, {"reserve", "mine", "receipt", "receiptDetail", "prize"})
StatisticsController ==
    Rotas("statistics", Todos, {"overview", "modality", "probabilities", "analyze", "suggest"})
        \cup Rotas("statistics", Admin, {"importHistory"})
ConnectionsController == DoPrincipal("connections", {"overview", "testEmail", "testAlert"})

API ==
    UNION {AuthController, AccountController, AdminUsersController, AdminListasController, AdminPessoasController,
           AdminAfiliadosController, AttachmentsStaffController, AttachmentsDownloadController, CrmController,
           NfseAdminController, UserAddressController, HealthController, HomeController, LegalController, LotteriesController,
           CommunicationsController, NotificationsController, PushController, NumbersController, OperationController,
           PaymentsController, PaymentsAdminController, PoolsController, PricingAdminController, ReportsController,
           PublicConfigController, ReceiptVerifyController, SharesController, StatisticsController, ConnectionsController}

\* Who is there: a role, and whether it is the main account of the system.
Perfis == [papel : Todos, principal : BOOLEAN]
Admite(r, perfil) == perfil.papel \in r.quem /\ (r.principal => perfil.principal)
Abertas == [perfil \in Perfis |-> {r.rota : r \in {s \in API : Admite(s, perfil)}}]

-----------------------------------------------------------------------------
(* What is shared by several screens *)

HealthPanel == De("operation", {"health"})
FormularioDeFesta == De("lotteries", {"festivals", "createFestival"})
TabelaDePrecos == De("pools", {"prices"}) \cup De("pricing", {"version"})
BancoDeNumeros == De("numbers", {"list", "rules", "generate", "add", "remove"}) \cup De("pools", {"prices"})
EscolheDoBanco == De("numbers", {"list"})
\* PoolWizard, for the administrator and for the affiliate.
AssistenteComum == De("pools", {"prices", "quote", "generateGames"}) \cup De("statistics", {"suggest"})
AssistenteDoAdmin ==
    AssistenteComum \cup De("pools", {"create", "update"}) \cup De("numbers", {"used"})
        \cup EscolheDoBanco \cup FormularioDeFesta \cup TabelaDePrecos
AssistenteDoAfiliado == AssistenteComum \cup De("pools", {"createAffiliatePool", "updateAffiliatePool"})
ArquivosDoBolao ==
    De("attachments", {"upload", "list", "shares", "update", "resend", "remove"}) \cup De("files", {"file"})
RegistraAposta == ArquivosDoBolao \cup De("admin", {"operationReceipt"}) \cup De("pools", {"publish"})
EditorDeUsuario ==
    De("users", {"detail", "edit", "removeAccess", "deleteEmpty", "reactivate", "sendReset"})
        \cup De("account", {"adminLink"}) \cup De("admin", {"updateUserRole"})
PessoaNova == De("admin", {"createUser", "createAffiliate"})
Convida == De("admin", {"createAdminInvite"})
ConviteDaEquipe == De("admin", {"invites", "createAdminInvite", "revokeInvite"})
AvisosDoAparelho == De("push", {"key", "status", "test", "subscribe", "unsubscribe"})
Perfil == De("account", {"profile", "updateProfile", "photo", "savePhoto", "deletePhoto"})

-----------------------------------------------------------------------------
(* The screens of the back office *)

DashboardView == HealthPanel \cup De("lotteries", {"sync"})
ReportsView ==
    De("reports", {"summary", "sales", "unpaid", "commissions", "payments", "invoices", "pools", "poolSheet"})
FinanceView == De("admin", {"dashboard"}) \cup De("nfse", {"settings"})
InvoicesView(principal) ==
    De("nfse", {"settings", "list", "emit", "manual", "sync", "refresh", "cancel"})
        \cup IF principal THEN De("nfse", {"diagnostics", "registerIssuer"}) ELSE {}
ContestsView ==
    De("lotteries", {"sync", "diagnostics", "situation", "createManual", "updateFestival", "deleteFestival"})
        \cup FormularioDeFesta \cup De("statistics", {"importHistory"}) \cup AssistenteDoAdmin
PoolsView ==
    De("pools", {"publish", "close", "release", "duplicate", "rejectApproval", "cancel", "removeUnused"})
        \cup AssistenteDoAdmin \cup RegistraAposta
GamesView == BancoDeNumeros \cup RegistraAposta
SharesView == De("desk", {"manualSale", "markPaid", "cancel"}) \cup De("admin", {"pools", "users"}) \cup RegistraAposta
CrmView ==
    De("crm", {"overview", "list", "detail", "note", "profile"}) \cup De("account", {"adminLink", "adminResetTwoFactor"})
ComunicadosView == De("communications", {"list", "preview", "send"}) \cup De("admin", {"pools", "groups"})
VitrineView == De("home", {"adminView", "uploadImage", "save"})
PoolControlView == De("reports", {"pools", "poolSheet"}) \cup De("pools", {"release"})
AffiliatesView ==
    De("admin", {"approve", "updateAffiliateCommission"}) \cup PessoaNova \cup Convida
InvitesView == Convida
GroupsView(principal) ==
    De("admin", {"createAdminGroup", "adminGroupMembers", "updateGroupCapacity", "removeGroupMember"})
        \cup IF principal THEN De("admin", {"deleteGroup"}) ELSE {}
CommissionsView == De("admin", {"createRemittance"})
RemittancesView == De("admin", {"payRemittance"})
UsersView == PessoaNova \cup ConviteDaEquipe \cup EditorDeUsuario
OperationView == RegistraAposta
ReceiptsView == RegistraAposta
SettingsView == De("admin", {"settings"}) \cup De("desk", {"settings", "registerWebhooks", "reconcile"})
ConnectionsView == De("connections", {"overview", "testEmail", "testAlert"})

\* What the panel itself asks for each screen, before the screen is drawn.
DoPainel ==
    [v \in {"visao-geral", "concursos", "boloes", "jogos", "cotas", "recebimentos", "pagamentos", "afiliados", "convites",
            "grupos", "comissoes", "repasses", "usuarios", "operacao", "comprovantes", "lotericas", "auditoria"} |->
        CASE v = "visao-geral" -> De("admin", {"dashboard", "contests"}) \cup De("pools", {"group"})
          [] v = "concursos" -> De("admin", {"contests"}) \cup De("pools", {"group"})
          [] v = "boloes" -> De("admin", {"pools", "contests"}) \cup De("pools", {"group"})
          [] v = "jogos" -> De("admin", {"pools"})
          [] v = "cotas" -> De("admin", {"shares"})
          [] v \in {"recebimentos", "pagamentos"} -> De("admin", {"payments"})
          [] v = "afiliados" -> De("admin", {"affiliates"})
          [] v = "convites" -> De("admin", {"invites", "affiliates"})
          [] v = "grupos" -> De("admin", {"groups", "affiliates"})
          [] v = "comissoes" -> De("admin", {"commissions"})
          [] v = "repasses" -> De("admin", {"remittances"})
          [] v = "usuarios" -> De("admin", {"users"})
          [] v \in {"operacao", "comprovantes"} -> De("admin", {"operation"})
          [] v = "lotericas" -> De("admin", {"partners"})
          [] v = "auditoria" -> De("admin", {"audits"})]

\* renderView
Desenha(principal) ==
    [v \in {"visao-geral", "relatorios", "financeiro", "notas-fiscais", "concursos", "boloes", "jogos", "cotas", "crm",
            "comunicados", "vitrine", "controle", "recebimentos", "pagamentos", "afiliados", "convites", "grupos", "comissoes",
            "repasses", "usuarios", "operacao", "comprovantes", "lotericas", "auditoria", "conexoes", "configuracoes"} |->
        CASE v = "visao-geral" -> DashboardView
          [] v = "relatorios" -> ReportsView
          [] v = "financeiro" -> FinanceView
          [] v = "notas-fiscais" -> InvoicesView(principal)
          [] v = "concursos" -> ContestsView
          [] v = "boloes" -> PoolsView
          [] v = "jogos" -> GamesView
          [] v = "cotas" -> SharesView
          [] v = "crm" -> CrmView \cup EditorDeUsuario
          [] v = "comunicados" -> ComunicadosView
          [] v = "vitrine" -> VitrineView
          [] v = "controle" -> PoolControlView
          [] v = "afiliados" -> AffiliatesView \cup EditorDeUsuario
          [] v = "convites" -> InvitesView
          [] v = "grupos" -> GroupsView(principal)
          [] v = "comissoes" -> CommissionsView
          [] v = "repasses" -> RemittancesView
          [] v = "usuarios" -> UsersView
          [] v = "operacao" -> OperationView
          [] v = "comprovantes" -> ReceiptsView
          [] v = "conexoes" -> ConnectionsView
          [] v = "configuracoes" -> SettingsView
          [] OTHER -> {}]
TelasDoPainel == DOMAIN Desenha(TRUE)
NaTela(v, principal) == Desenha(principal)[v] \cup (IF v \in DOMAIN DoPainel THEN DoPainel[v] ELSE {})

-----------------------------------------------------------------------------
(* The other screens that need a session *)

ContratoDoAfiliado == De("legal", {"affiliate", "accept"})
AreaDoAfiliado ==
    De("admin", {"affiliateDashboard", "affiliateCommissions", "affiliateWorkspace", "createAffiliateInvite",
                 "createAffiliateGroup", "affiliateGroupMembers", "affiliateQuotas", "affiliateSales"})
        \cup De("pools", {"publishAffiliatePool", "closeAffiliatePool", "duplicateAffiliatePool", "cancelAffiliatePool"})
        \cup De("lotteries", {"list"}) \cup De("auth", {"logout"})
        \cup AssistenteDoAfiliado \cup ContratoDoAfiliado \cup Perfil \cup AvisosDoAparelho
MinhaConta ==
    De("auth", {"me", "refresh", "logout", "logoutAll", "startTwoFactor", "enableTwoFactor", "disableTwoFactor"})
        \cup De("shares", {"mine", "receiptDetail"}) \cup De("files", {"mine", "file"})
        \cup De("address", {"get", "save"}) \cup De("notifications", {"list", "markAll", "markOne"})
        \cup De("account", {"change", "exportData", "requestDeletion", "responsibleStatus", "pause", "setLimit"})
        \cup De("legal", {"mine"}) \cup Perfil \cup AvisosDoAparelho
Compra ==
    De("shares", {"reserve"}) \cup De("payments", {"create", "current", "methods"})
        \cup De("config", {"mandate"}) \cup De("auth", {"me", "refresh"})
NoGrupo == De("pools", {"groupMembership", "joinGroup", "leaveGroup"})
AviseMe == De("notifications", {"status", "subscribe", "unsubscribe"})
NoSite == Compra \cup NoGrupo \cup AviseMe \cup MinhaConta
=============================================================================
