------------------------------- MODULE Contas -------------------------------
(***************************************************************************)
(* The access of ONE person (auth.service.ts, account.service.ts,          *)
(* admin-users.service.ts, jwt-auth.guard.ts): entering, the lock after    *)
(* wrong passwords, reset links, change of password and the end of         *)
(* sessions.  A password takes the server a while to hash, so each request *)
(* reads the row, computes, and writes; only the claim of a reset link     *)
(* looks again at what it had read.                                        *)
(*                                                                         *)
(* Passwords are numbered in the order they are set; 0 is a wrong one.     *)
(***************************************************************************)
EXTENDS Integers, FiniteSets

CONSTANTS
    Pedidos,        \* requests that may be in flight at the same time
    MaxErros,       \* LOGIN_MAX_ATTEMPTS
    MaxSenhas,      \* bound: passwords the account has had
    MaxVersao,      \* bound: tokenVersion
    MaxLinks        \* bound: reset links

VARIABLES
    conta,          \* senhaHash, tokenVersion, tentativasLogin, bloqueadoAte, desativadoEm
    senhas,         \* passwords chosen so far
    link,           \* rows of tokens_senha
    pedido,         \* requests in flight
    sessao,         \* history: one of the sessions opened, any, with the password its owner knew
    palpites        \* history: wrong guesses judged since the counter last started over

vars == <<conta, senhas, link, pedido, sessao, palpites>>

Links == 1..MaxLinks
Ocioso == [op |-> "nenhuma"]
Nenhuma == [versao |-> -1]
Sessao == [versao : 0..MaxVersao, senha : 1..MaxSenhas, reemitida : BOOLEAN]

TypeOK ==
    /\ conta \in [senha : 1..MaxSenhas, versao : 0..MaxVersao,
                  tentativas : 0..MaxErros + Cardinality(Pedidos) - 1,
                  bloqueio : {"nao", "sim", "vencido"}, ativa : BOOLEAN]
    /\ senhas \in 1..MaxSenhas
    /\ link \in [Links -> {"nenhum", "valido", "vencido", "usado"}]
    /\ pedido \in [Pedidos -> {Ocioso, [op |-> "erro"], [op |-> "bloqueia"],
                               [op |-> "pede_link"], [op |-> "cria_link"]}
                     \cup [op : {"zera", "entra"}, versao : 0..MaxVersao, senha : 1..MaxSenhas]
                     \cup [op : {"redefine"}, link : Links]
                     \cup [op : {"troca"}] \cup [op : {"reemite"}, senha : 1..MaxSenhas]]
    /\ sessao \in Sessao \cup {Nenhuma}
    /\ palpites \in Nat

Init ==
    /\ conta = [senha |-> 1, versao |-> 0, tentativas |-> 0, bloqueio |-> "nao", ativa |-> TRUE]
    /\ senhas = 1
    /\ link = [l \in Links |-> "nenhum"]
    /\ pedido = [r \in Pedidos |-> Ocioso]
    /\ sessao = Nenhuma
    /\ palpites = 0

Segue(r, p) == pedido' = [pedido EXCEPT ![r] = p]
Comeca(r, p) == pedido[r] = Ocioso /\ Segue(r, p)

\* JwtAuthGuard and refresh compare the version of the token with the account's.
Aceita(s) == conta.ativa /\ s.versao = conta.versao

-----------------------------------------------------------------------------
(* login: one read of the account decides; the tokens carry the version it read *)

VersaoAgora(p) == conta.versao
VersaoLida(p) == p.versao

\* A right password, and a second factor when there is one.
EntraCom(r) ==
    /\ conta.ativa /\ conta.bloqueio # "sim"
    /\ Comeca(r, [op |-> IF conta.tentativas > 0 \/ conta.bloqueio # "nao" THEN "zera" ELSE "entra",
                  versao |-> conta.versao, senha |-> conta.senha])
    /\ UNCHANGED <<conta, senhas, link, sessao, palpites>>

\* A wrong one, or any at all for an account that is switched off; while locked it is not counted.
Erra(r) ==
    /\ conta.bloqueio # "sim"
    /\ Comeca(r, [op |-> "erro"])
    /\ palpites' = palpites + 1
    /\ UNCHANGED <<conta, senhas, link, sessao>>

Zera(r) ==
    /\ pedido[r].op = "zera"
    /\ conta' = [conta EXCEPT !.tentativas = 0, !.bloqueio = "nao"]
    /\ palpites' = 0
    /\ Segue(r, [pedido[r] EXCEPT !.op = "entra"])
    /\ UNCHANGED <<senhas, link, sessao>>

Entra(r) ==
    /\ pedido[r].op = "entra"
    /\ sessao' \in {sessao, [versao |-> VersaoLida(pedido[r]), senha |-> pedido[r].senha,
                            reemitida |-> FALSE]}
    /\ Segue(r, Ocioso)
    /\ UNCHANGED <<conta, senhas, link, palpites>>

\* registerLoginFailure: the increment is one update, the lock is another.
AtingiuTarde(n) == n > MaxErros
Atingiu(n) == n >= MaxErros

ContaErro(r) ==
    /\ pedido[r].op = "erro"
    /\ conta' = [conta EXCEPT !.tentativas = @ + 1]
    /\ Segue(r, IF Atingiu(conta'.tentativas) THEN [op |-> "bloqueia"] ELSE Ocioso)
    /\ UNCHANGED <<senhas, link, sessao, palpites>>

Bloqueia(r) ==
    /\ pedido[r].op = "bloqueia"
    /\ conta' = [conta EXCEPT !.tentativas = 0, !.bloqueio = "sim"]
    /\ Segue(r, Ocioso)
    /\ UNCHANGED <<senhas, link, sessao, palpites>>

VenceBloqueio ==
    /\ conta.bloqueio = "sim"
    /\ conta' = [conta EXCEPT !.bloqueio = "vencido"]
    /\ palpites' = 0
    /\ UNCHANGED <<senhas, link, pedido, sessao>>

-----------------------------------------------------------------------------
(* Setting a password *)

LinksGastos == [l \in Links |-> IF link[l] = "nenhum" THEN "nenhum" ELSE "usado"]

\* What resetPassword, changePassword and admin-recovery write in one transaction.
GravaSenha ==
    /\ senhas < MaxSenhas /\ conta.versao < MaxVersao
    /\ senhas' = senhas + 1
    /\ conta' = [conta EXCEPT !.senha = senhas + 1, !.versao = @ + 1,
                              !.tentativas = 0, !.bloqueio = "nao"]
    /\ palpites' = 0

\* requestReset reads the account, then spends the links it sees and creates one; two at a time
\* do not see each other's.
PedeLink(r) ==
    /\ conta.ativa
    /\ Comeca(r, [op |-> "pede_link"])
    /\ UNCHANGED <<conta, senhas, link, sessao, palpites>>

GastaLinks(r) ==
    /\ pedido[r].op = "pede_link"
    /\ link' = LinksGastos
    /\ Segue(r, [op |-> "cria_link"])
    /\ UNCHANGED <<conta, senhas, sessao, palpites>>

Novo(l) == link[l] = "nenhum" /\ \A k \in Links : k < l => link[k] # "nenhum"

CriaLink(r) ==
    /\ pedido[r].op = "cria_link"
    /\ \E l \in Links : Novo(l) /\ link' = [link EXCEPT ![l] = "valido"]
    /\ Segue(r, Ocioso)
    /\ UNCHANGED <<conta, senhas, sessao, palpites>>

\* adminResetLink and sendReset lock the account; a message that cannot be sent spends the link.
LinkDoAdmin ==
    /\ conta.ativa
    /\ \E l \in Links : /\ Novo(l)
                        /\ \E s \in {"valido", "usado"} : link' = [LinksGastos EXCEPT ![l] = s]
    /\ UNCHANGED <<conta, senhas, pedido, sessao, palpites>>

VenceLink(l) ==
    /\ link[l] = "valido"
    /\ link' = [link EXCEPT ![l] = "vencido"]
    /\ UNCHANGED <<conta, senhas, pedido, sessao, palpites>>

\* resetPassword: the link is read, and claimed only after the new password is hashed.
LeLink(r, l) ==
    /\ link[l] = "valido" /\ conta.ativa
    /\ Comeca(r, [op |-> "redefine", link |-> l])
    /\ UNCHANGED <<conta, senhas, link, sessao, palpites>>

Tomavel(l) == link[l] # "usado"

Redefine(r) ==
    /\ pedido[r].op = "redefine"
    /\ Segue(r, Ocioso)
    /\ IF Tomavel(pedido[r].link)
       THEN /\ GravaSenha
            /\ link' = LinksGastos
       ELSE UNCHANGED <<conta, senhas, link, palpites>>
    /\ UNCHANGED sessao

\* changePassword, by whoever has a session and the password; the update has no condition.
LeTroca(r) ==
    /\ conta.ativa
    /\ Comeca(r, [op |-> "troca"])
    /\ UNCHANGED <<conta, senhas, link, sessao, palpites>>

Troca(r) ==
    /\ pedido[r].op = "troca"
    /\ GravaSenha
    /\ link' = LinksGastos
    /\ Segue(r, [op |-> "reemite", senha |-> senhas'])
    /\ UNCHANGED sessao

\* reissue reads the account again: its tokens have whatever version it has by now.
Reemite(r) ==
    /\ pedido[r].op = "reemite"
    /\ Segue(r, Ocioso)
    /\ IF conta.ativa
       THEN sessao' \in {sessao, [versao |-> conta.versao, senha |-> pedido[r].senha, reemitida |-> TRUE]}
       ELSE UNCHANGED sessao
    /\ UNCHANGED <<conta, senhas, link, palpites>>

\* admin-recovery, on the server.
Recupera ==
    /\ conta.ativa
    /\ GravaSenha
    /\ link' = LinksGastos
    /\ UNCHANGED <<pedido, sessao>>

-----------------------------------------------------------------------------
(* Ending the sessions *)

\* revokeAllSessions; updateUserRole and adminResetTwoFactor do the same.
Revoga ==
    /\ conta.versao < MaxVersao
    /\ conta' = [conta EXCEPT !.versao = @ + 1]
    /\ UNCHANGED <<senhas, link, pedido, sessao, palpites>>

\* setActive
Ativa(b) ==
    /\ conta.ativa # b /\ conta.versao < MaxVersao
    /\ conta' = [conta EXCEPT !.ativa = b, !.versao = @ + 1]
    /\ link' = LinksGastos
    /\ UNCHANGED <<senhas, pedido, sessao, palpites>>

Next ==
    \/ \E r \in Pedidos :
        \/ EntraCom(r) \/ Erra(r) \/ Zera(r) \/ Entra(r) \/ ContaErro(r) \/ Bloqueia(r)
        \/ PedeLink(r) \/ GastaLinks(r) \/ CriaLink(r) \/ Redefine(r) \/ LeTroca(r) \/ Troca(r) \/ Reemite(r)
        \/ \E l \in Links : LeLink(r, l)
    \/ \E l \in Links : VenceLink(l)
    \/ LinkDoAdmin \/ VenceBloqueio \/ Recupera \/ Revoga
    \/ \E b \in BOOLEAN : Ativa(b)

Spec == Init /\ [][Next]_vars

-----------------------------------------------------------------------------
(* Properties *)

\* A session that a login opened is accepted only while the password it was opened
\* with is the account's, however long the login took and whatever happened in
\* between (the version it carries was read together with the password).
OldSessionsDie ==
    Aceita(sessao) => (sessao.reemitida \/ sessao.senha = conta.senha)

\* Requests that fail together gain one extra guess each, and no more, before the
\* account locks: the increment is atomic though the lock comes after it.
GuessesAreBounded == palpites < MaxErros + Cardinality(Pedidos)
=============================================================================
