-------------------------------- MODULE Rede --------------------------------
(***************************************************************************)
(* Accounts, affiliates and invites: how an account is born, becomes an    *)
(* affiliate, takes its place in the network and leaves it.                *)
(*                                                                         *)
(* register, revokeInvite and updateAffiliateNetwork decide by what they   *)
(* read before their transaction, so each has two steps.  The other        *)
(* operations write what they check under the lock of a row or of          *)
(* lockAdminActor, and are one step.  Who may do each one is left out; an  *)
(* affiliate is named by its account, and the walk up the network is one   *)
(* read.                                                                   *)
(***************************************************************************)
EXTENDS Integers, FiniteSets

CONSTANTS
    Pessoas,        \* accounts that may exist
    Convites,       \* rows of table "convites" that may exist
    Pedidos,        \* requests in flight
    Apagaveis,      \* the accounts that never buy, sell or hold a pool: they may be deleted
    MaxAtos         \* bound: operations started in a behaviour

VARIABLES
    papel,          \* usuario.papel; "nenhum" while there is no account, "apagado" when it is gone for good
    afiliado,       \* the affiliate row of the account: statusAprovacao, and the parent ({} when null)
    grupo,          \* the oldest group of the affiliate: "nenhum", "existe", or "apagado" by the superadmin
    convite,        \* the invites: status, type and affiliate of origin
    veioDe,         \* history: the invite an account was created with
    pedido,         \* the requests in flight
    cruzados,       \* history: two requests of updateAffiliateNetwork have overlapped
    atos

vars == <<papel, afiliado, grupo, convite, veioDe, pedido, cruzados, atos>>

Ninguem == {}
AlguemOuNinguem == {Ninguem} \cup {{p} : p \in Pessoas}
SemAfiliado == [status |-> "nenhum", pai |-> Ninguem]
SemConvite == [status |-> "nenhum", tipo |-> "usuario", origem |-> Ninguem]
SemPedido == [op |-> "nenhuma"]

TypeOK ==
    /\ papel \in [Pessoas -> {"nenhum", "apagado", "cotista", "afiliado", "operacao"}]
    /\ afiliado \in [Pessoas -> [status : {"nenhum", "pendente", "aprovado", "inativo"}, pai : AlguemOuNinguem]]
    /\ grupo \in [Pessoas -> {"nenhum", "existe", "apagado"}]
    /\ convite \in [Convites -> [status : {"nenhum", "ativo", "usado", "revogado"},
                                 tipo : {"usuario", "afiliado", "operacao"}, origem : AlguemOuNinguem]]
    /\ veioDe \in [Pessoas -> {{}} \cup {{v} : v \in Convites}]
    /\ pedido \in [Pedidos -> {SemPedido}
           \cup [op : {"cadastro"}, quem : Pessoas, convite : {{}} \cup {{v} : v \in Convites}, origem : AlguemOuNinguem]
           \cup [op : {"revoga"}, convite : Convites]
           \cup [op : {"rede"}, alvo : Pessoas, pai : AlguemOuNinguem]]
    /\ cruzados \in BOOLEAN
    /\ atos \in 0..MaxAtos

Init ==
    /\ papel = [p \in Pessoas |-> "nenhum"]
    /\ afiliado = [p \in Pessoas |-> SemAfiliado]
    /\ grupo = [p \in Pessoas |-> "nenhum"]
    /\ convite = [v \in Convites |-> SemConvite]
    /\ veioDe = [p \in Pessoas |-> {}]
    /\ pedido = [r \in Pedidos |-> SemPedido]
    /\ cruzados = FALSE
    /\ atos = 0

Comeca == atos < MaxAtos /\ atos' = atos + 1

Aprovados == {p \in Pessoas : afiliado[p].status = "aprovado"}
ComConta == {p \in Pessoas : papel[p] \notin {"nenhum", "apagado"}}
ComCadastro == {p \in Pessoas : afiliado[p].status # "nenhum"}
ExistemTodos(S) == S \subseteq ComCadastro

\* The affiliates above p, starting with its parent: the walk reaches the least set
\* with the parent of p and the parents of its members.
ComOsDeCima(S) == \A q \in S : afiliado[q].pai \subseteq S
Ancestrais(p) ==
    {q \in Pessoas : \A S \in SUBSET Pessoas : afiliado[p].pai \subseteq S /\ ComOsDeCima(S) => q \in S}

-----------------------------------------------------------------------------
(* Invites and registration *)

\* createInvite: the affiliate of origin, if any, must be approved; a staff link has none.
CreateInvite(v, tipo, origem) ==
    /\ Comeca
    /\ convite[v].status = "nenhum"
    /\ origem \subseteq Aprovados
    /\ tipo = "operacao" => origem = Ninguem
    /\ convite' = [convite EXCEPT ![v] = [status |-> "ativo", tipo |-> tipo, origem |-> origem]]
    /\ UNCHANGED <<papel, afiliado, grupo, veioDe, pedido, cruzados>>

\* revokeInvite looks at the status ...
RevokeInviteLe(r, v) ==
    /\ Comeca
    /\ pedido[r] = SemPedido
    /\ convite[v].status = "ativo"
    /\ pedido' = [pedido EXCEPT ![r] = [op |-> "revoga", convite |-> v]]
    /\ UNCHANGED <<papel, afiliado, grupo, convite, veioDe, cruzados>>

\* ... and writes without looking again.
RevokeInviteGrava(r) ==
    /\ pedido[r].op = "revoga"
    /\ convite' = [convite EXCEPT ![pedido[r].convite].status = "revogado"]
    /\ pedido' = [pedido EXCEPT ![r] = SemPedido]
    /\ UNCHANGED <<papel, afiliado, grupo, veioDe, cruzados, atos>>

\* register: an unused e-mail, and an active invite, the code of an approved affiliate, or nothing.
RegisterLe(r, p) ==
    /\ Comeca
    /\ pedido[r] = SemPedido
    /\ papel[p] = "nenhum"
    /\ \/ \E v \in Convites :
             /\ convite[v].status = "ativo"
             /\ pedido' = [pedido EXCEPT ![r] = [op |-> "cadastro", quem |-> p, convite |-> {v},
                                                 origem |-> convite[v].origem]]
       \/ \E origem \in {Ninguem} \cup {{q} : q \in Aprovados} :
             pedido' = [pedido EXCEPT ![r] = [op |-> "cadastro", quem |-> p, convite |-> {}, origem |-> origem]]
    /\ UNCHANGED <<papel, afiliado, grupo, convite, veioDe, cruzados>>

\* ensureAffiliateGroup: an affiliate has at least one group.
ComGrupo(p) == [grupo EXCEPT ![p] = "existe"]

AindaExiste(convites) == \A v \in convites : convite[v].status \in {"ativo", "usado"}

\* The invite must still be active.
AindaServe(convites) == \A v \in convites : convite[v].status = "ativo"

\* The account is created with the role of the invite, which is marked as used; an
\* e-mail taken meanwhile, an affiliate deleted meanwhile or an invite no longer
\* active undoes everything.
RegisterGrava(r) ==
    /\ pedido[r].op = "cadastro"
    /\ pedido' = [pedido EXCEPT ![r] = SemPedido]
    /\ LET p == pedido[r].quem
           tipo == IF pedido[r].convite = {} THEN "usuario" ELSE convite[CHOOSE v \in pedido[r].convite : TRUE].tipo
       IN  IF papel[p] = "nenhum" /\ ExistemTodos(pedido[r].origem) /\ AindaServe(pedido[r].convite)
           THEN /\ papel' = [papel EXCEPT ![p] = IF tipo = "usuario" THEN "cotista" ELSE tipo]
                /\ afiliado' = [afiliado EXCEPT ![p] =
                      IF tipo = "afiliado" THEN [status |-> "aprovado", pai |-> pedido[r].origem] ELSE @]
                /\ grupo' = IF tipo = "afiliado" THEN ComGrupo(p) ELSE grupo
                /\ convite' = [v \in Convites |-> IF v \in pedido[r].convite
                                                  THEN [convite[v] EXCEPT !.status = "usado"] ELSE convite[v]]
                /\ veioDe' = [veioDe EXCEPT ![p] = pedido[r].convite]
           ELSE UNCHANGED <<papel, afiliado, grupo, convite, veioDe>>
    /\ UNCHANGED <<cruzados, atos>>

-----------------------------------------------------------------------------
(* Accounts and affiliates in the panel *)

\* createManagedUser: the parent, if any, is approved and only serves an affiliate.
CreateManagedUser(p, novo, pai) ==
    /\ Comeca
    /\ papel[p] = "nenhum"
    /\ pai \subseteq Aprovados
    /\ papel' = [papel EXCEPT ![p] = novo]
    /\ IF novo = "afiliado"
       THEN /\ afiliado' = [afiliado EXCEPT ![p] = [status |-> "aprovado", pai |-> pai]]
            /\ grupo' = ComGrupo(p)
       ELSE UNCHANGED <<afiliado, grupo>>
    /\ UNCHANGED <<convite, veioDe, pedido, cruzados>>

\* updateUserRole: the affiliate row follows the role.
SegueOPapelSoAoEntrar(p, novo) ==
    IF novo = "afiliado" THEN [afiliado[p] EXCEPT !.status = "aprovado"] ELSE afiliado[p]
SegueOPapel(p, novo) ==
    IF novo = "afiliado" THEN [afiliado[p] EXCEPT !.status = "aprovado"]
    ELSE IF afiliado[p].status = "nenhum" THEN afiliado[p]
    ELSE [afiliado[p] EXCEPT !.status = "inativo"]

UpdateUserRole(p, novo) ==
    /\ Comeca
    /\ p \in ComConta
    /\ papel' = [papel EXCEPT ![p] = novo]
    /\ afiliado' = [afiliado EXCEPT ![p] = SegueOPapel(p, novo)]
    /\ grupo' = IF novo = "afiliado" /\ afiliado[p].status # "aprovado" THEN ComGrupo(p) ELSE grupo
    /\ UNCHANGED <<convite, veioDe, pedido, cruzados>>

\* requestAffiliate: one request per account.
RequestAffiliate(p) ==
    /\ Comeca
    /\ p \in ComConta
    /\ afiliado[p].status = "nenhum"
    /\ afiliado' = [afiliado EXCEPT ![p].status = "pendente"]
    /\ UNCHANGED <<papel, grupo, convite, veioDe, pedido, cruzados>>

\* approveAffiliate: approval, role and group together.
ApproveAffiliate(p) ==
    /\ Comeca
    /\ afiliado[p].status # "nenhum"
    /\ afiliado' = [afiliado EXCEPT ![p].status = "aprovado"]
    /\ papel' = [papel EXCEPT ![p] = "afiliado"]
    /\ grupo' = ComGrupo(p)
    /\ UNCHANGED <<convite, veioDe, pedido, cruzados>>

\* updateAffiliateNetwork: the new parent is approved and not below the affiliate ...
SoNaoEOProprio(p, pai) == pai # {p}
NaoFechaCiclo(p, pai) == pai # {p} /\ \A q \in pai : p \notin Ancestrais(q)

UpdateAffiliateNetworkLe(r, p, pai) ==
    /\ Comeca
    /\ pedido[r] = SemPedido
    /\ p \in ComCadastro
    /\ pai \subseteq Aprovados
    /\ NaoFechaCiclo(p, pai)
    /\ pedido' = [pedido EXCEPT ![r] = [op |-> "rede", alvo |-> p, pai |-> pai]]
    /\ cruzados' = (cruzados \/ \E s \in Pedidos : pedido[s].op = "rede")
    /\ UNCHANGED <<papel, afiliado, grupo, convite, veioDe>>

\* ... when it was read.
UpdateAffiliateNetworkGrava(r) ==
    /\ pedido[r].op = "rede"
    /\ pedido' = [pedido EXCEPT ![r] = SemPedido]
    /\ LET p == pedido[r].alvo
       IN  afiliado' = IF p \in ComCadastro /\ ExistemTodos(pedido[r].pai)
                       THEN [afiliado EXCEPT ![p].pai = pedido[r].pai] ELSE afiliado
    /\ UNCHANGED <<papel, grupo, convite, veioDe, cruzados, atos>>

\* affiliateWorkspace makes the group of an affiliate that has none.
AffiliateWorkspace(p) ==
    /\ p \in Aprovados
    /\ grupo[p] # "existe"
    /\ grupo' = ComGrupo(p)
    /\ UNCHANGED <<papel, afiliado, convite, veioDe, pedido, cruzados, atos>>

\* deleteGroup: not a group with pools.
DeleteGroup(p) ==
    /\ Comeca
    /\ p \in Apagaveis
    /\ grupo[p] = "existe"
    /\ grupo' = [grupo EXCEPT ![p] = "apagado"]
    /\ UNCHANGED <<papel, afiliado, convite, veioDe, pedido, cruzados>>

\* deleteEmpty by the superadmin: the affiliate row and the group go with the
\* account; children and invites lose their affiliate.
DeleteEmpty(p) ==
    /\ Comeca
    /\ p \in Apagaveis
    /\ p \in ComConta
    /\ papel' = [papel EXCEPT ![p] = "apagado"]
    /\ afiliado' = [q \in Pessoas |-> IF q = p THEN SemAfiliado ELSE [afiliado[q] EXCEPT !.pai = @ \ {p}]]
    /\ grupo' = [grupo EXCEPT ![p] = "nenhum"]
    /\ convite' = [v \in Convites |-> [convite[v] EXCEPT !.origem = @ \ {p}]]
    /\ veioDe' = [veioDe EXCEPT ![p] = {}]
    /\ UNCHANGED <<pedido, cruzados>>

-----------------------------------------------------------------------------

Papeis == {"cotista", "afiliado", "operacao"}

Next ==
    \/ \E v \in Convites, tipo \in {"usuario", "afiliado", "operacao"}, origem \in AlguemOuNinguem :
          CreateInvite(v, tipo, origem)
    \/ \E r \in Pedidos :
          \/ \E v \in Convites : RevokeInviteLe(r, v)
          \/ RevokeInviteGrava(r)
          \/ \E p \in Pessoas : RegisterLe(r, p)
          \/ RegisterGrava(r)
          \/ \E p \in Pessoas, pai \in AlguemOuNinguem : UpdateAffiliateNetworkLe(r, p, pai)
          \/ UpdateAffiliateNetworkGrava(r)
    \/ \E p \in Pessoas :
          \/ \E novo \in Papeis, pai \in AlguemOuNinguem : CreateManagedUser(p, novo, pai)
          \/ \E novo \in Papeis : UpdateUserRole(p, novo)
          \/ RequestAffiliate(p)
          \/ ApproveAffiliate(p)
          \/ AffiliateWorkspace(p)
          \/ DeleteGroup(p)
          \/ DeleteEmpty(p)

Spec == Init /\ [][Next]_vars

-----------------------------------------------------------------------------
(* Safety *)

\* An invite makes at most one account, and none while it is active: two
\* registrations with the same link, or one that a revocation overtakes.
OneAccountPerInvite ==
    \A v \in Convites :
        LET contas == {p \in Pessoas : veioDe[p] = {v}}
        IN  /\ Cardinality(contas) <= 1
            /\ convite[v].status \in {"nenhum", "ativo"} => contas = {}

\* The network has no cycle, unless two of its requests overlapped; the walk up
\* (affiliateNetwork, updateAffiliateNetwork) ends.
NetworkIsATree == ~cruzados => \A p \in Pessoas : p \notin Ancestrais(p)

\* The role and the approval always agree, by whatever way they changed, and an
\* approved affiliate has its group unless the superadmin deleted it.
RoleFollowsApproval ==
    \A p \in Pessoas :
        /\ papel[p] = "afiliado" <=> afiliado[p].status = "aprovado"
        /\ afiliado[p].status = "aprovado" => grupo[p] # "nenhum"

NetworkIsSound == NetworkIsATree /\ RoleFollowsApproval
=============================================================================
