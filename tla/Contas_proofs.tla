--------------------------- MODULE Contas_proofs ---------------------------
(***************************************************************************)
(* The access of a person, for any requests at the same time and any       *)
(* number of wrong passwords that lock the account.                        *)
(*                                                                         *)
(* A session dies with its password because whatever carries a version,    *)
(* a login in flight or a session, carries the password that version had   *)
(* (VersaoInv).  The guesses are bounded because each of them is in the     *)
(* counter or in a request that is still to count it, and a counter past   *)
(* the limit has a request that is about to lock (PalpitesInv).            *)
(***************************************************************************)
EXTENDS Contas, FiniteSetTheorems, TLAPS

FormaConta == [senha : Nat, versao : Nat, tentativas : Nat, bloqueio : {"nao", "sim", "vencido"}, ativa : BOOLEAN]
FormaPedido == {Ocioso, [op |-> "erro"], [op |-> "bloqueia"], [op |-> "pede_link"], [op |-> "cria_link"], [op |-> "troca"]}
               \cup [op : {"zera", "entra"}, versao : Nat, senha : Nat]
               \cup [op : {"redefine"}, link : Links]
               \cup [op : {"reemite"}, senha : Nat]
FormaSessao == [versao : Nat, senha : Nat, reemitida : BOOLEAN] \cup {Nenhuma}

\* The types, without the bounds.
Forma ==
    /\ conta \in FormaConta
    /\ senhas \in Nat
    /\ pedido \in [Pedidos -> FormaPedido]
    /\ sessao \in FormaSessao
    /\ palpites \in Nat

DaVersao(s) == s.versao <= conta.versao /\ (s.versao = conta.versao => s.senha = conta.senha)

VersaoInv ==
    /\ \A r \in Pedidos : pedido[r].op \in {"zera", "entra"} => DaVersao(pedido[r])
    /\ sessao = Nenhuma \/ sessao.reemitida \/ DaVersao(sessao)

Com(o) == {r \in Pedidos : pedido[r].op = o}

PalpitesInv ==
    /\ conta.bloqueio # "sim" => palpites <= conta.tentativas + Cardinality(Com("erro"))
    /\ conta.tentativas < MaxErros + Cardinality(Com("bloqueia"))
    /\ palpites < MaxErros + Cardinality(Pedidos)

-----------------------------------------------------------------------------
(* Requests and what they carry *)

LEMMA FollowForm ==
  ASSUME Forma, NEW r \in Pedidos, NEW p \in FormaPedido, Segue(r, p)
  PROVE  /\ pedido' \in [Pedidos -> FormaPedido] /\ pedido'[r] = p
         /\ \A q \in Pedidos \ {r} : pedido'[q] = pedido[q]
  BY DEF Forma, Segue

LEMMA AccountFields ==
  ASSUME NEW c \in FormaConta, NEW n \in Nat, NEW m \in Nat, NEW b \in BOOLEAN
  PROVE  /\ [c EXCEPT !.senha = n, !.versao = m, !.tentativas = 0, !.bloqueio = "nao"] \in FormaConta
         /\ [c EXCEPT !.ativa = b, !.versao = m] \in FormaConta
  BY DEF FormaConta

LEMMA Plain ==
  /\ \A o \in {"erro", "bloqueia", "pede_link", "cria_link", "troca"} : [op |-> o] \in FormaPedido
  /\ Ocioso \in FormaPedido /\ Ocioso.op = "nenhuma"
  /\ \A l \in Links : [op |-> "redefine", link |-> l] \in FormaPedido
  /\ \A n \in Nat : [op |-> "reemite", senha |-> n] \in FormaPedido
  /\ \A o \in {"zera", "entra"} : \A v, n \in Nat : [op |-> o, versao |-> v, senha |-> n] \in FormaPedido
  BY DEF FormaPedido, Ocioso

LEMMA Carried ==
  ASSUME Forma, NEW r \in Pedidos
  PROVE  /\ pedido[r].op \in {"zera", "entra"} =>
              /\ pedido[r] = [op |-> pedido[r].op, versao |-> pedido[r].versao, senha |-> pedido[r].senha]
              /\ pedido[r].versao \in Nat /\ pedido[r].senha \in Nat
         /\ pedido[r].op = "reemite" => pedido[r].senha \in Nat
  BY DEF Forma, FormaPedido, Ocioso

\* A new password and the end of the sessions: the version grows.
LEMMA NewVersion ==
  ASSUME Forma, VersaoInv, conta' \in FormaConta, conta'.versao = conta.versao + 1,
         \A r \in Pedidos : pedido'[r] = pedido[r] \/ pedido'[r].op \notin {"zera", "entra"},
         sessao' = sessao
  PROVE  VersaoInv'
  <1>1. conta.versao \in Nat
    BY DEF Forma, FormaConta
  <1>2. ASSUME NEW r \in Pedidos, pedido'[r].op \in {"zera", "entra"} PROVE DaVersao(pedido[r])' 
    <2>1. pedido'[r] = pedido[r] /\ pedido[r].versao \in Nat
      BY <1>2, Carried
    <2>2. pedido[r].versao <= conta.versao
      BY <1>2, <2>1 DEF VersaoInv, DaVersao
    <2>3. QED
      BY <1>1, <2>1, <2>2 DEF DaVersao
  <1>3. sessao = Nenhuma \/ sessao.reemitida \/ DaVersao(sessao)'
    <2>1. sessao = Nenhuma \/ sessao.versao \in Nat
      BY DEF Forma, FormaSessao
    <2>2. QED
      BY <1>1, <2>1 DEF VersaoInv, DaVersao
  <1>4. QED
    BY <1>2, <1>3 DEF VersaoInv

\* The version and the password stay.
LEMMA SameVersion ==
  ASSUME Forma, VersaoInv, conta'.versao = conta.versao, conta'.senha = conta.senha,
         \A r \in Pedidos : pedido'[r] = pedido[r] \/ pedido'[r].op \notin {"zera", "entra"} \/ DaVersao(pedido'[r]),
         sessao' = sessao \/ sessao'.reemitida \/ DaVersao(sessao')
  PROVE  VersaoInv'
  BY DEF VersaoInv, DaVersao

-----------------------------------------------------------------------------
(* Every step keeps the form and the versions *)

FV == Forma /\ VersaoInv

\* A step of a request that leaves the account as it is, or changes its counter and its lock only.
LEMMA RequestFV ==
  ASSUME FV, NEW r \in Pedidos, NEW p \in FormaPedido, Segue(r, p),
         p.op \in {"zera", "entra"} => DaVersao(p),
         conta' \in FormaConta, conta'.versao = conta.versao, conta'.senha = conta.senha,
         senhas' = senhas, palpites' \in Nat,
         sessao' \in FormaSessao, sessao' = sessao \/ sessao'.reemitida \/ DaVersao(sessao')
  PROVE  FV'
  <1>1. pedido' \in [Pedidos -> FormaPedido] /\ pedido'[r] = p /\ \A q \in Pedidos \ {r} : pedido'[q] = pedido[q]
    BY FollowForm DEF FV
  <1>2. Forma'
    BY <1>1 DEF FV, Forma
  <1>3. VersaoInv'
    BY <1>1, SameVersion DEF FV
  <1>4. QED
    BY <1>2, <1>3 DEF FV

\* A step that sets a password, or ends the sessions.
LEMMA PasswordFV ==
  ASSUME FV, GravaSenha, sessao' = sessao,
         \/ pedido' = pedido
         \/ \E r \in Pedidos : \E p \in FormaPedido : Segue(r, p) /\ p.op \notin {"zera", "entra"}
  PROVE  FV'
  <1>1. conta' \in FormaConta /\ conta'.versao = conta.versao + 1 /\ senhas' \in Nat /\ palpites' \in Nat
    <2>1. conta \in FormaConta /\ senhas \in Nat
      BY DEF FV, Forma
    <2>2. senhas' \in Nat /\ palpites' \in Nat
      BY <2>1 DEF GravaSenha
    <2>3. conta' = [conta EXCEPT !.senha = senhas + 1, !.versao = @ + 1, !.tentativas = 0, !.bloqueio = "nao"]
      BY DEF GravaSenha
    <2>4. conta' \in FormaConta
      <3>1. conta.versao \in Nat
        BY <2>1 DEF FormaConta
      <3>2. conta.versao + 1 \in Nat /\ senhas + 1 \in Nat
        BY <2>1, <3>1
      <3>3. QED
        BY <2>1, <2>3, <3>2, AccountFields
    <2>5. conta'.versao = conta.versao + 1
      BY <2>1, <2>3 DEF FormaConta
    <2>6. QED
      BY <2>2, <2>4, <2>5
  <1>2. pedido' \in [Pedidos -> FormaPedido]
        /\ \A q \in Pedidos : pedido'[q] = pedido[q] \/ pedido'[q].op \notin {"zera", "entra"}
    <2>1. CASE pedido' = pedido
      BY <2>1 DEF FV, Forma
    <2>2. ASSUME NEW r \in Pedidos, NEW p \in FormaPedido, Segue(r, p), p.op \notin {"zera", "entra"}
          PROVE  <1>2!1 /\ <1>2!2
      BY <2>2, FollowForm DEF FV
    <2>3. QED
      BY <2>1, <2>2
  <1>3. Forma'
    BY <1>1, <1>2 DEF FV, Forma
  <1>4. VersaoInv'
    BY <1>1, <1>2, NewVersion DEF FV
  <1>5. QED
    BY <1>3, <1>4 DEF FV

LEMMA SessionsFV ==
  ASSUME FV, conta' \in FormaConta, conta'.versao = conta.versao + 1, UNCHANGED <<senhas, pedido, sessao, palpites>>
  PROVE  FV'
  BY NewVersion DEF FV, Forma

\* A step of the links, or of the lock.
LEMMA QuietFV ==
  ASSUME FV, conta' \in FormaConta, conta'.versao = conta.versao, conta'.senha = conta.senha, palpites' \in Nat,
         UNCHANGED <<senhas, pedido, sessao>>
  PROVE  FV'
  BY SameVersion DEF FV, Forma

LEMMA NextFV == FV /\ [Next]_vars => FV'
  <1> SUFFICES ASSUME FV, [Next]_vars PROVE FV'
    OBVIOUS
  <1>0. conta \in FormaConta /\ senhas \in Nat /\ palpites \in Nat /\ sessao \in FormaSessao
    BY DEF FV, Forma
  <1>1. ASSUME NEW r \in Pedidos, EntraCom(r) PROVE FV'
    <2> DEFINE o == IF conta.tentativas > 0 \/ conta.bloqueio # "nao" THEN "zera" ELSE "entra"
               p == [op |-> o, versao |-> conta.versao, senha |-> conta.senha]
    <2>1. o \in {"zera", "entra"} /\ conta.versao \in Nat /\ conta.senha \in Nat
      BY <1>0 DEF FormaConta
    <2>2. p \in FormaPedido
      BY <2>1, Plain
    <2>3. DaVersao(p)
      BY <2>1 DEF DaVersao
    <2>4. Segue(r, p) /\ UNCHANGED <<conta, senhas, link, sessao, palpites>>
      BY <1>1 DEF EntraCom, Comeca
    <2>5. QED
      BY <1>0, <2>2, <2>3, <2>4, RequestFV
  <1>2. ASSUME NEW r \in Pedidos, NEW p \in FormaPedido, Segue(r, p), p.op \notin {"zera", "entra"},
               UNCHANGED <<conta, senhas, sessao>>, palpites' \in Nat
        PROVE  FV'
    BY <1>0, <1>2, RequestFV
  <1>3. ASSUME NEW r \in Pedidos, Erra(r) \/ PedeLink(r) \/ GastaLinks(r) \/ CriaLink(r) \/ LeTroca(r) PROVE FV'
    BY <1>0, <1>2, <1>3, Plain DEF Erra, PedeLink, GastaLinks, CriaLink, LeTroca, Comeca
  <1>4. ASSUME NEW r \in Pedidos, NEW l \in Links, LeLink(r, l) PROVE FV'
    BY <1>0, <1>2, <1>4, Plain DEF LeLink, Comeca
  <1>5. ASSUME NEW r \in Pedidos, Zera(r) PROVE FV'
    <2> DEFINE p == [pedido[r] EXCEPT !.op = "entra"]
    <2>1. pedido[r].op = "zera" /\ Segue(r, p) /\ UNCHANGED <<senhas, sessao>> /\ palpites' = 0
      BY <1>5 DEF Zera
    <2>2. /\ pedido[r] = [op |-> "zera", versao |-> pedido[r].versao, senha |-> pedido[r].senha]
          /\ pedido[r].versao \in Nat /\ pedido[r].senha \in Nat
      BY <2>1, Carried DEF FV
    <2>3. p = [op |-> "entra", versao |-> pedido[r].versao, senha |-> pedido[r].senha]
      BY <2>2
    <2>4. p \in FormaPedido
      BY <2>2, <2>3, Plain
    <2>5. DaVersao(pedido[r])
      BY <2>1 DEF FV, VersaoInv
    <2>6. DaVersao(p)
      BY <2>3, <2>5 DEF DaVersao
    <2>7. conta' \in FormaConta /\ conta'.versao = conta.versao /\ conta'.senha = conta.senha
      BY <1>0, <1>5 DEF Zera, FormaConta
    <2> HIDE DEF p
    <2>8. QED
      BY <1>0, <2>1, <2>4, <2>6, <2>7, RequestFV
  <1>6. ASSUME NEW r \in Pedidos, Entra(r) PROVE FV'
    <2> DEFINE s == [versao |-> pedido[r].versao, senha |-> pedido[r].senha, reemitida |-> FALSE]
    <2>1. pedido[r].op = "entra" /\ Segue(r, Ocioso) /\ UNCHANGED <<conta, senhas, palpites>> /\ sessao' \in {sessao, s}
      BY <1>6 DEF Entra, VersaoLida
    <2>2. pedido[r].versao \in Nat /\ pedido[r].senha \in Nat /\ DaVersao(pedido[r])
      BY <2>1, Carried DEF FV, VersaoInv
    <2>3. s \in FormaSessao
      BY <2>2 DEF FormaSessao
    <2>4. DaVersao(s)
      BY <2>2 DEF DaVersao
    <2>5. Ocioso \in FormaPedido /\ Ocioso.op = "nenhuma"
      BY Plain
    <2> HIDE DEF s
    <2>6. QED
      BY <1>0, <2>1, <2>3, <2>4, <2>5, RequestFV
  <1>7. ASSUME NEW r \in Pedidos, ContaErro(r) \/ Bloqueia(r) PROVE FV'
    <2>1. conta' \in FormaConta /\ conta'.versao = conta.versao /\ conta'.senha = conta.senha
      <3>1. CASE ContaErro(r)
        BY <1>0, <3>1 DEF ContaErro, FormaConta
      <3>2. CASE Bloqueia(r)
        BY <1>0, <3>2 DEF Bloqueia, FormaConta
      <3>3. QED
        BY <1>7, <3>1, <3>2
    <2>2. UNCHANGED <<senhas, sessao, palpites>> /\ (Segue(r, [op |-> "bloqueia"]) \/ Segue(r, Ocioso))
      BY <1>7 DEF ContaErro, Bloqueia
    <2>3. /\ [op |-> "bloqueia"] \in FormaPedido /\ [op |-> "bloqueia"].op = "bloqueia"
          /\ Ocioso \in FormaPedido /\ Ocioso.op = "nenhuma"
      BY Plain
    <2>4. QED
      BY <1>0, <2>1, <2>2, <2>3, RequestFV
  <1>8. ASSUME NEW r \in Pedidos, Redefine(r) PROVE FV'
    <2>1. Segue(r, Ocioso) /\ sessao' = sessao /\ (GravaSenha \/ UNCHANGED <<conta, senhas, palpites>>)
      BY <1>8 DEF Redefine
    <2>2. Ocioso \in FormaPedido /\ Ocioso.op \notin {"zera", "entra"}
      BY Plain
    <2>3. QED
      BY <1>0, <1>2, <2>1, <2>2, PasswordFV
  <1>9. ASSUME NEW r \in Pedidos, Troca(r) PROVE FV'
    <2> DEFINE p == [op |-> "reemite", senha |-> senhas']
    <2>1. GravaSenha /\ Segue(r, p) /\ sessao' = sessao
      BY <1>9 DEF Troca
    <2>2. senhas' \in Nat
      BY <1>0, <2>1 DEF GravaSenha
    <2>3. p \in FormaPedido /\ p.op \notin {"zera", "entra"}
      BY <2>2, Plain
    <2>4. QED
      BY <2>1, <2>3, PasswordFV
  <1>10. ASSUME NEW r \in Pedidos, Reemite(r) PROVE FV'
    <2> DEFINE s == [versao |-> conta.versao, senha |-> pedido[r].senha, reemitida |-> TRUE]
    <2>1. Segue(r, Ocioso) /\ UNCHANGED <<conta, senhas, palpites>> /\ sessao' \in {sessao, s}
      BY <1>10 DEF Reemite
    <2>2. conta.versao \in Nat /\ pedido[r].senha \in Nat
      BY <1>0, <1>10, Carried DEF Reemite, FV, FormaConta
    <2>3. s \in FormaSessao /\ s.reemitida
      BY <2>2 DEF FormaSessao
    <2>4. Ocioso \in FormaPedido /\ Ocioso.op \notin {"zera", "entra"}
      BY Plain
    <2> HIDE DEF s
    <2>5. QED
      BY <1>0, <2>1, <2>3, <2>4, RequestFV
  <1>11. ASSUME NEW l \in Links, VenceLink(l) PROVE FV'
    BY <1>0, <1>11, QuietFV DEF VenceLink
  <1>12. CASE LinkDoAdmin
    BY <1>0, <1>12, QuietFV DEF LinkDoAdmin
  <1>13. CASE VenceBloqueio
    <2>1. conta' \in FormaConta /\ conta'.versao = conta.versao /\ conta'.senha = conta.senha
      BY <1>0, <1>13 DEF VenceBloqueio, FormaConta
    <2>2. QED
      BY <1>13, <2>1, QuietFV DEF VenceBloqueio
  <1>14. CASE Recupera
    BY <1>14, PasswordFV DEF Recupera
  <1>15. CASE Revoga
    <2>1. conta' \in FormaConta /\ conta'.versao = conta.versao + 1
      BY <1>0, <1>15 DEF Revoga, FormaConta
    <2>2. QED
      BY <1>15, <2>1, SessionsFV DEF Revoga
  <1>16. ASSUME NEW b \in BOOLEAN, Ativa(b) PROVE FV'
    <2>1. conta' \in FormaConta /\ conta'.versao = conta.versao + 1
      <3>1. conta' = [conta EXCEPT !.ativa = b, !.versao = @ + 1]
        BY <1>16 DEF Ativa
      <3>2. conta'.versao = conta.versao + 1
        BY <1>0, <3>1 DEF FormaConta
      <3>3. conta' \in FormaConta
        <4>1. conta.versao \in Nat
          BY <1>0 DEF FormaConta
        <4>2. conta.versao + 1 \in Nat
          BY <4>1
        <4>3. QED
          BY <1>0, <3>1, <4>2, AccountFields
      <3>4. QED
        BY <3>2, <3>3
    <2>2. QED
      BY <1>16, <2>1, SessionsFV DEF Ativa
  <1>17. CASE UNCHANGED vars
    BY <1>0, <1>17, QuietFV DEF vars
  <1>18. QED
    BY <1>1, <1>3, <1>4, <1>5, <1>6, <1>7, <1>8, <1>9, <1>10, <1>11, <1>12, <1>13, <1>14, <1>15, <1>16, <1>17 DEF Next

LEMMA InitFV == Init => FV
  <1> SUFFICES ASSUME Init PROVE FV
    OBVIOUS
  <1>1. conta \in FormaConta /\ senhas \in Nat /\ palpites \in Nat
    BY DEF Init, FormaConta
  <1>2. sessao \in FormaSessao /\ sessao = Nenhuma
    BY DEF Init, FormaSessao
  <1>3. pedido \in [Pedidos -> FormaPedido] /\ \A r \in Pedidos : pedido[r].op = "nenhuma"
    BY Plain DEF Init
  <1>4. QED
    BY <1>1, <1>2, <1>3 DEF FV, Forma, VersaoInv

\* The inductive invariant of the sessions: whatever carries a version carries its password.
THEOREM SpecFV == Spec => []FV
  BY InitFV, NextFV, PTL DEF Spec

\* A session that a login opened is accepted only while its password is the account's (JwtAuthGuard, login),
\* for any requests in flight and however long each takes.
THEOREM SessionsDie == Spec => []OldSessionsDie
  <1>1. FV => OldSessionsDie
    <2> SUFFICES ASSUME FV, Aceita(sessao), ~sessao.reemitida PROVE sessao.senha = conta.senha
      BY DEF OldSessionsDie
    <2>1. sessao # Nenhuma
      BY DEF Aceita, Nenhuma, FV, Forma, FormaConta
    <2>2. QED
      BY <2>1 DEF FV, VersaoInv, DaVersao, Aceita
  <1>2. QED
    BY <1>1, SpecFV, PTL

-----------------------------------------------------------------------------
(* The guesses *)

Um(b) == IF b THEN 1 ELSE 0

LEMMA Counts ==
  ASSUME IsFiniteSet(Pedidos), NEW o
  PROVE  IsFiniteSet(Com(o)) /\ Cardinality(Com(o)) \in Nat
  <1>1. IsFiniteSet(Com(o))
    BY FS_Subset DEF Com
  <1>2. QED
    BY <1>1, FS_CardinalityType

\* A request moves from one kind to another.
LEMMA Moved ==
  ASSUME IsFiniteSet(Pedidos), Forma, NEW r \in Pedidos, NEW p \in FormaPedido, Segue(r, p), NEW o
  PROVE  Cardinality(Com(o)') = Cardinality(Com(o)) + Um(p.op = o) - Um(pedido[r].op = o)
  <1>1. pedido'[r] = p /\ \A q \in Pedidos \ {r} : pedido'[q] = pedido[q]
    BY FollowForm
  <1>2. IsFiniteSet(Com(o)) /\ Cardinality(Com(o)) \in Nat
    BY Counts
  <1>3. CASE p.op = o
    <2>1. Com(o)' = Com(o) \cup {r}
      BY <1>1, <1>3 DEF Com
    <2>2. r \in Com(o) <=> pedido[r].op = o
      BY DEF Com
    <2>3. Cardinality(Com(o) \cup {r}) = IF r \in Com(o) THEN Cardinality(Com(o)) ELSE Cardinality(Com(o)) + 1
      BY <1>2, FS_AddElement
    <2>4. Cardinality(Com(o)') = Cardinality(Com(o) \cup {r})
      BY <2>1
    <2>5. QED
      BY <1>2, <1>3, <2>2, <2>3, <2>4 DEF Um
  <1>4. CASE p.op # o
    <2>1. Com(o)' = Com(o) \ {r}
      BY <1>1, <1>4 DEF Com
    <2>2. r \in Com(o) <=> pedido[r].op = o
      BY DEF Com
    <2>3. Cardinality(Com(o) \ {r}) = IF r \in Com(o) THEN Cardinality(Com(o)) - 1 ELSE Cardinality(Com(o))
      BY <1>2, FS_RemoveElement
    <2>4. Cardinality(Com(o)') = Cardinality(Com(o) \ {r})
      BY <2>1
    <2>5. QED
      BY <1>2, <1>4, <2>2, <2>3, <2>4 DEF Um
  <1>5. QED
    BY <1>3, <1>4

\* A request counts once, and one that guesses now is in neither set yet.
LEMMA NoMoreThanAll ==
  ASSUME IsFiniteSet(Pedidos), NEW r \in Pedidos, pedido[r].op \notin {"erro", "bloqueia"}
  PROVE  Cardinality(Com("erro")) + Cardinality(Com("bloqueia")) < Cardinality(Pedidos)
  <1> DEFINE E == Com("erro")
             B == Com("bloqueia")
  <1>1. IsFiniteSet(E) /\ IsFiniteSet(B) /\ Cardinality(E) \in Nat /\ Cardinality(B) \in Nat
    BY Counts
  <1>2. E \cap B = {} /\ E \cup B \subseteq Pedidos \ {r}
    BY DEF Com
  <1>3. Cardinality(E \cup B) = Cardinality(E) + Cardinality(B)
    <2> HIDE DEF E, B
    <2>1. Cardinality(E \cap B) = 0
      BY <1>2, FS_EmptySet
    <2>2. Cardinality(E \cup B) = Cardinality(E) + Cardinality(B) - Cardinality(E \cap B)
      BY <1>1, FS_Union
    <2>3. QED
      BY <1>1, <2>1, <2>2
  <1>4. IsFiniteSet(Pedidos \ {r}) /\ Cardinality(Pedidos \ {r}) = Cardinality(Pedidos) - 1
    BY FS_RemoveElement
  <1>5. Cardinality(E \cup B) <= Cardinality(Pedidos \ {r})
    BY <1>2, <1>4, FS_Subset
  <1>6. Cardinality(Pedidos) \in Nat
    BY FS_CardinalityType
  <1>7. QED
    BY <1>1, <1>3, <1>4, <1>5, <1>6

\* The counter starts over.
LEMMA StartsOver ==
  ASSUME MaxErros \in Nat \ {0}, IsFiniteSet(Pedidos), palpites' = 0, conta'.tentativas \in Nat,
         conta'.tentativas < MaxErros + Cardinality(Com("bloqueia")')
  PROVE  PalpitesInv'
  <1>1. IsFiniteSet(Com("erro")')
    BY FS_Subset DEF Com
  <1>2. Cardinality(Com("erro")') \in Nat /\ Cardinality(Pedidos) \in Nat
    BY <1>1, FS_CardinalityType
  <1>3. QED
    BY <1>2 DEF PalpitesInv

LEMMA StartsFromZero ==
  ASSUME MaxErros \in Nat \ {0}, IsFiniteSet(Pedidos), palpites' = 0, conta'.tentativas = 0
  PROVE  PalpitesInv'
  <1>1. IsFiniteSet(Com("bloqueia")')
    BY FS_Subset DEF Com
  <1>2. Cardinality(Com("bloqueia")') \in Nat
    BY <1>1, FS_CardinalityType
  <1>3. QED
    BY <1>2, StartsOver

\* A request that neither guesses nor counts nor locks, and the counter stays.
LEMMA NotCounting ==
  ASSUME IsFiniteSet(Pedidos), FV, PalpitesInv,
         conta'.tentativas = conta.tentativas, conta'.bloqueio = conta.bloqueio, palpites' = palpites,
         \/ pedido' = pedido
         \/ \E r \in Pedidos : \E p \in FormaPedido :
                Segue(r, p) /\ p.op \notin {"erro", "bloqueia"} /\ pedido[r].op \notin {"erro", "bloqueia"}
  PROVE  PalpitesInv'
  <1>1. Cardinality(Com("erro")') = Cardinality(Com("erro")) /\ Cardinality(Com("bloqueia")') = Cardinality(Com("bloqueia"))
    <2>1. CASE pedido' = pedido
      BY <2>1 DEF Com
    <2>2. ASSUME NEW r \in Pedidos, NEW p \in FormaPedido, Segue(r, p),
                 p.op \notin {"erro", "bloqueia"}, pedido[r].op \notin {"erro", "bloqueia"}
          PROVE  <1>1
      <3>1. Cardinality(Com("erro")) \in Nat /\ Cardinality(Com("bloqueia")) \in Nat
        BY Counts
      <3>2. Cardinality(Com("erro")') = Cardinality(Com("erro")) + Um(p.op = "erro") - Um(pedido[r].op = "erro")
        BY <2>2, Moved DEF FV
      <3>3. Cardinality(Com("bloqueia")') = Cardinality(Com("bloqueia")) + Um(p.op = "bloqueia") - Um(pedido[r].op = "bloqueia")
        BY <2>2, Moved DEF FV
      <3>4. QED
        BY <2>2, <3>1, <3>2, <3>3 DEF Um
    <2>3. QED
      BY <2>1, <2>2
  <1>2. QED
    BY <1>1 DEF PalpitesInv

LEMMA GuessCounted ==
  ASSUME MaxErros \in Nat \ {0}, IsFiniteSet(Pedidos), FV, PalpitesInv, NEW r \in Pedidos,
         Erra(r) \/ ContaErro(r) \/ Bloqueia(r)
  PROVE  PalpitesInv'
  <1> DEFINE E == Cardinality(Com("erro"))
             B == Cardinality(Com("bloqueia"))
  <1>1. /\ E \in Nat /\ B \in Nat /\ Cardinality(Pedidos) \in Nat
        /\ conta.tentativas \in Nat /\ palpites \in Nat /\ conta \in FormaConta
    BY Counts, FS_CardinalityType DEF FV, Forma, FormaConta
  <1>2. /\ [op |-> "erro"] \in FormaPedido /\ [op |-> "bloqueia"] \in FormaPedido
        /\ Ocioso \in FormaPedido /\ Ocioso.op = "nenhuma"
    BY Plain
  <1>3. CASE Erra(r)
    <2>1. /\ Segue(r, [op |-> "erro"]) /\ pedido[r].op = "nenhuma"
          /\ conta' = conta /\ palpites' = palpites + 1 /\ conta.bloqueio # "sim"
      BY <1>2, <1>3 DEF Erra, Comeca
    <2>2. Cardinality(Com("erro")') = E + Um([op |-> "erro"].op = "erro") - Um(pedido[r].op = "erro")
      BY <1>2, <2>1, Moved DEF FV
    <2>3. Cardinality(Com("bloqueia")') = B + Um([op |-> "erro"].op = "bloqueia") - Um(pedido[r].op = "bloqueia")
      BY <1>2, <2>1, Moved DEF FV
    <2>4. E + B < Cardinality(Pedidos)
      BY <2>1, NoMoreThanAll
    <2>5. palpites <= conta.tentativas + E /\ conta.tentativas < MaxErros + B
      BY <2>1 DEF PalpitesInv
    <2>6. QED
      BY <1>1, <1>2, <2>1, <2>2, <2>3, <2>4, <2>5 DEF PalpitesInv, Um
  <1>4. CASE ContaErro(r)
    <2>1. /\ pedido[r].op = "erro" /\ conta'.tentativas = conta.tentativas + 1
          /\ conta'.bloqueio = conta.bloqueio /\ palpites' = palpites
      BY <1>1, <1>4 DEF ContaErro, FormaConta
    <2>2. CASE conta'.tentativas >= MaxErros
      <3>1. Segue(r, [op |-> "bloqueia"])
        BY <1>4, <2>2 DEF ContaErro, Atingiu
      <3>2. Cardinality(Com("erro")') = E + Um([op |-> "bloqueia"].op = "erro") - Um(pedido[r].op = "erro")
        BY <1>2, <2>1, <3>1, Moved DEF FV
      <3>3. Cardinality(Com("bloqueia")') = B + Um([op |-> "bloqueia"].op = "bloqueia") - Um(pedido[r].op = "bloqueia")
        BY <1>2, <2>1, <3>1, Moved DEF FV
      <3>4. QED
        BY <1>1, <1>2, <2>1, <3>2, <3>3 DEF PalpitesInv, Um
    <2>3. CASE ~(conta'.tentativas >= MaxErros)
      <3>1. Segue(r, Ocioso)
        BY <1>4, <2>3 DEF ContaErro, Atingiu
      <3>2. Cardinality(Com("erro")') = E + Um(Ocioso.op = "erro") - Um(pedido[r].op = "erro")
        BY <1>2, <2>1, <3>1, Moved DEF FV
      <3>3. Cardinality(Com("bloqueia")') = B + Um(Ocioso.op = "bloqueia") - Um(pedido[r].op = "bloqueia")
        BY <1>2, <2>1, <3>1, Moved DEF FV
      <3>4. QED
        BY <1>1, <1>2, <2>1, <2>3, <3>2, <3>3 DEF PalpitesInv, Um
    <2>4. QED
      BY <2>2, <2>3
  <1>5. CASE Bloqueia(r)
    <2>1. /\ Segue(r, Ocioso) /\ pedido[r].op = "bloqueia"
          /\ conta'.tentativas = 0 /\ conta'.bloqueio = "sim" /\ palpites' = palpites
      BY <1>1, <1>5 DEF Bloqueia, FormaConta
    <2>2. IsFiniteSet(Com("bloqueia")')
      BY FS_Subset DEF Com
    <2>3. Cardinality(Com("bloqueia")') \in Nat
      BY <2>2, FS_CardinalityType
    <2>4. QED
      BY <1>1, <2>1, <2>3 DEF PalpitesInv
  <1>6. QED
    BY <1>3, <1>4, <1>5

LEMMA NextGuesses ==
  MaxErros \in Nat \ {0} /\ IsFiniteSet(Pedidos) /\ FV /\ PalpitesInv /\ [Next]_vars => PalpitesInv'
  <1> SUFFICES ASSUME MaxErros \in Nat \ {0}, IsFiniteSet(Pedidos), FV, PalpitesInv, [Next]_vars PROVE PalpitesInv'
    OBVIOUS
  <1>0. conta \in FormaConta /\ senhas \in Nat
    BY DEF FV, Forma
  <1>1. ASSUME UNCHANGED <<conta, pedido, palpites>> PROVE PalpitesInv'
    BY <1>1, NotCounting
  <1>2. ASSUME NEW r \in Pedidos, NEW p \in FormaPedido, Segue(r, p), p.op \notin {"erro", "bloqueia"},
               pedido[r].op \notin {"erro", "bloqueia"}, UNCHANGED <<conta, palpites>>
        PROVE  PalpitesInv'
    BY <1>2, NotCounting
  <1>3. ASSUME GravaSenha PROVE PalpitesInv'
    <2>1. palpites' = 0 /\ conta'.tentativas = 0
      BY <1>0, <1>3 DEF GravaSenha, FormaConta
    <2>2. QED
      BY <2>1, StartsFromZero
  <1>4. ASSUME NEW r \in Pedidos, EntraCom(r) PROVE PalpitesInv'
    <2> DEFINE o == IF conta.tentativas > 0 \/ conta.bloqueio # "nao" THEN "zera" ELSE "entra"
               p == [op |-> o, versao |-> conta.versao, senha |-> conta.senha]
    <2>1. o \in {"zera", "entra"} /\ conta.versao \in Nat /\ conta.senha \in Nat
      BY <1>0 DEF FormaConta
    <2>2. p \in FormaPedido /\ p.op \notin {"erro", "bloqueia"}
      BY <2>1, Plain
    <2>3. Segue(r, p) /\ UNCHANGED <<conta, palpites>> /\ pedido[r].op \notin {"erro", "bloqueia"}
      BY <1>4, Plain DEF EntraCom, Comeca
    <2> HIDE DEF p
    <2>4. QED
      BY <1>2, <2>2, <2>3
  <1>5. ASSUME NEW r \in Pedidos, PedeLink(r) \/ GastaLinks(r) \/ CriaLink(r) \/ LeTroca(r) PROVE PalpitesInv'
    BY <1>2, <1>5, Plain DEF PedeLink, GastaLinks, CriaLink, LeTroca, Comeca
  <1>6. ASSUME NEW r \in Pedidos, NEW l \in Links, LeLink(r, l) PROVE PalpitesInv'
    BY <1>2, <1>6, Plain DEF LeLink, Comeca
  <1>7. ASSUME NEW r \in Pedidos, Erra(r) \/ ContaErro(r) \/ Bloqueia(r) PROVE PalpitesInv'
    BY <1>7, GuessCounted
  <1>8. ASSUME NEW r \in Pedidos, Zera(r) PROVE PalpitesInv'
    <2>1. palpites' = 0 /\ conta'.tentativas = 0
      BY <1>0, <1>8 DEF Zera, FormaConta
    <2>2. QED
      BY <2>1, StartsFromZero
  <1>9. ASSUME NEW r \in Pedidos, Entra(r) \/ Reemite(r) PROVE PalpitesInv'
    BY <1>2, <1>9, Plain DEF Entra, Reemite
  <1>10. ASSUME NEW r \in Pedidos, Redefine(r) PROVE PalpitesInv'
    BY <1>2, <1>3, <1>10, Plain DEF Redefine
  <1>11. ASSUME NEW r \in Pedidos, Troca(r) PROVE PalpitesInv'
    BY <1>3, <1>11 DEF Troca
  <1>12. CASE VenceBloqueio
    <2>1. palpites' = 0 /\ conta'.tentativas = conta.tentativas /\ conta.tentativas \in Nat /\ pedido' = pedido
      BY <1>0, <1>12 DEF VenceBloqueio, FormaConta
    <2>2. conta.tentativas < MaxErros + Cardinality(Com("bloqueia")')
      BY <2>1 DEF PalpitesInv, Com
    <2>3. QED
      BY <2>1, <2>2, StartsOver
  <1>13. CASE Recupera
    BY <1>3, <1>13 DEF Recupera
  <1>14. ASSUME Revoga \/ \E b \in BOOLEAN : Ativa(b) PROVE PalpitesInv'
    <2>1. /\ conta'.tentativas = conta.tentativas /\ conta'.bloqueio = conta.bloqueio
          /\ palpites' = palpites /\ pedido' = pedido
      BY <1>0, <1>14 DEF Revoga, Ativa, FormaConta
    <2>2. QED
      BY <2>1, NotCounting
  <1>15. QED
    BY <1>1, <1>4, <1>5, <1>6, <1>7, <1>8, <1>9, <1>10, <1>11, <1>12, <1>13, <1>14 DEF Next, vars, VenceLink, LinkDoAdmin

LEMMA InitGuesses ==
  ASSUME MaxErros \in Nat \ {0}, IsFiniteSet(Pedidos), Init
  PROVE  PalpitesInv
  <1>1. Cardinality(Com("erro")) \in Nat /\ Cardinality(Com("bloqueia")) \in Nat /\ Cardinality(Pedidos) \in Nat
    BY Counts, FS_CardinalityType
  <1>2. palpites = 0 /\ conta.tentativas = 0
    BY DEF Init
  <1>3. QED
    BY <1>1, <1>2 DEF PalpitesInv

\* Between two starts of the counter a person guesses less than LOGIN_MAX_ATTEMPTS plus the requests that may be
\* in flight together (registerLoginFailure): the lock comes after the increment, and no later.
THEOREM GuessesBounded ==
  ASSUME MaxErros \in Nat \ {0}, IsFiniteSet(Pedidos) PROVE Spec => []GuessesAreBounded
  <1>1. Init => PalpitesInv
    BY InitGuesses
  <1>2. FV /\ PalpitesInv /\ [Next]_vars => PalpitesInv'
    BY NextGuesses
  <1>3. PalpitesInv => GuessesAreBounded
    BY DEF PalpitesInv, GuessesAreBounded
  <1>4. QED
    BY <1>1, <1>2, <1>3, SpecFV, PTL DEF Spec

-----------------------------------------------------------------------------
(* Types, with their bounds *)

TipoConta == [senha : 1..MaxSenhas, versao : 0..MaxVersao, tentativas : Nat, bloqueio : {"nao", "sim", "vencido"}, ativa : BOOLEAN]
TipoPedido == {Ocioso, [op |-> "erro"], [op |-> "bloqueia"], [op |-> "pede_link"], [op |-> "cria_link"]}
              \cup [op : {"zera", "entra"}, versao : 0..MaxVersao, senha : 1..MaxSenhas]
              \cup [op : {"redefine"}, link : Links]
              \cup [op : {"troca"}] \cup [op : {"reemite"}, senha : 1..MaxSenhas]
\* TypeOK, but for the counter, which PalpitesInv bounds.
TipoInv ==
    /\ conta \in TipoConta
    /\ senhas \in 1..MaxSenhas
    /\ link \in [Links -> {"nenhum", "valido", "vencido", "usado"}]
    /\ pedido \in [Pedidos -> TipoPedido]
    /\ sessao \in Sessao \cup {Nenhuma}
    /\ palpites \in Nat

\* A request that goes on carries what it may.
LEMMA FollowType ==
  ASSUME TipoInv, NEW r \in Pedidos, NEW p \in TipoPedido, Segue(r, p)
  PROVE  pedido' \in [Pedidos -> TipoPedido]
  BY DEF TipoInv, Segue

LEMMA PlainType ==
  /\ \A o \in {"erro", "bloqueia", "pede_link", "cria_link", "troca"} : [op |-> o] \in TipoPedido
  /\ Ocioso \in TipoPedido
  /\ \A l \in Links : [op |-> "redefine", link |-> l] \in TipoPedido
  /\ \A s \in 1..MaxSenhas : [op |-> "reemite", senha |-> s] \in TipoPedido
  /\ \A o \in {"zera", "entra"}, v \in 0..MaxVersao, s \in 1..MaxSenhas : [op |-> o, versao |-> v, senha |-> s] \in TipoPedido
  BY DEF TipoPedido

\* What the requests in flight carry.
LEMMA CarriedType ==
  ASSUME TipoInv, NEW r \in Pedidos
  PROVE  /\ pedido[r].op \in {"zera", "entra"} => /\ pedido[r].versao \in 0..MaxVersao /\ pedido[r].senha \in 1..MaxSenhas
                                                  /\ [pedido[r] EXCEPT !.op = "entra"] \in TipoPedido
         /\ pedido[r].op = "reemite" => pedido[r].senha \in 1..MaxSenhas
  BY DEF TipoInv, TipoPedido, Ocioso

LEMMA SpentType ==
  ASSUME TipoInv
  PROVE  LinksGastos \in [Links -> {"nenhum", "valido", "vencido", "usado"}]
  BY DEF TipoInv, LinksGastos

\* A new password, within its bounds.
LEMMA PasswordType ==
  ASSUME TipoInv, GravaSenha, MaxSenhas \in Nat, MaxVersao \in Nat
  PROVE  conta' \in TipoConta /\ senhas' \in 1..MaxSenhas /\ palpites' \in Nat
  <1>1. senhas + 1 \in 1..MaxSenhas /\ conta.versao + 1 \in 0..MaxVersao
    BY DEF GravaSenha, TipoInv, TipoConta
  <1>2. conta' = [conta EXCEPT !.senha = senhas + 1, !.versao = conta.versao + 1, !.tentativas = 0, !.bloqueio = "nao"]
    BY DEF GravaSenha
  <1>3. conta' \in TipoConta
    BY <1>1, <1>2 DEF TipoInv, TipoConta
  <1>4. QED
    BY <1>1, <1>3 DEF GravaSenha

LEMMA InitType == ASSUME MaxSenhas \in Nat \ {0}, MaxVersao \in Nat, Init PROVE TipoInv
  <1>1. 1 \in 1..MaxSenhas /\ 0 \in 0..MaxVersao
    OBVIOUS
  <1>2. QED
    BY <1>1 DEF Init, TipoInv, TipoConta, TipoPedido

LEMMA NextType ==
  ASSUME MaxSenhas \in Nat \ {0}, MaxVersao \in Nat, TipoInv, [Next]_vars
  PROVE  TipoInv'
  <1>1. ASSUME NEW r \in Pedidos, EntraCom(r) PROVE TipoInv'
    <2>1. PICK o \in {"zera", "entra"} : Segue(r, [op |-> o, versao |-> conta.versao, senha |-> conta.senha])
      BY <1>1 DEF EntraCom, Comeca
    <2>2. [op |-> o, versao |-> conta.versao, senha |-> conta.senha] \in TipoPedido
      BY PlainType DEF TipoInv, TipoConta
    <2>3. QED
      BY <1>1, <2>1, <2>2, FollowType DEF EntraCom, TipoInv
  <1>2. ASSUME NEW r \in Pedidos, Erra(r) \/ PedeLink(r) \/ LeTroca(r) \/ GastaLinks(r) PROVE TipoInv'
    <2>1. \E p \in TipoPedido : Segue(r, p)
      BY <1>2, PlainType DEF Erra, PedeLink, LeTroca, GastaLinks, Comeca
    <2>2. pedido' \in [Pedidos -> TipoPedido]
      BY <2>1, FollowType
    <2>3. palpites' \in Nat /\ link' \in [Links -> {"nenhum", "valido", "vencido", "usado"}]
      BY <1>2, SpentType DEF Erra, PedeLink, LeTroca, GastaLinks, TipoInv
    <2>4. QED
      BY <1>2, <2>2, <2>3 DEF Erra, PedeLink, LeTroca, GastaLinks, TipoInv
  <1>3. ASSUME NEW r \in Pedidos, Zera(r) PROVE TipoInv'
    <2>1. pedido' \in [Pedidos -> TipoPedido]
      BY <1>3, CarriedType, FollowType DEF Zera
    <2>2. conta' \in TipoConta
      BY <1>3 DEF Zera, TipoInv, TipoConta
    <2>3. QED
      BY <1>3, <2>1, <2>2 DEF Zera, TipoInv
  <1>4. ASSUME NEW r \in Pedidos, Entra(r) \/ Reemite(r) PROVE TipoInv'
    <2>1. pedido' \in [Pedidos -> TipoPedido]
      BY <1>4, PlainType, FollowType DEF Entra, Reemite
    <2>2. sessao' \in Sessao \cup {Nenhuma}
      <3>1. conta.versao \in 0..MaxVersao
        BY DEF TipoInv, TipoConta
      <3>2. QED
        <4>1. \A v \in 0..MaxVersao, n \in 1..MaxSenhas, b \in BOOLEAN : [versao |-> v, senha |-> n, reemitida |-> b] \in Sessao
          BY DEF Sessao
        <4>2. CASE Entra(r)
          <5>1. pedido[r].versao \in 0..MaxVersao /\ pedido[r].senha \in 1..MaxSenhas
            BY <4>2, CarriedType DEF Entra
          <5>2. QED
            BY <4>1, <4>2, <5>1 DEF Entra, VersaoLida, TipoInv
        <4>3. CASE Reemite(r)
          <5>1. pedido[r].senha \in 1..MaxSenhas
            BY <4>3, CarriedType DEF Reemite
          <5>2. QED
            BY <3>1, <4>1, <4>3, <5>1 DEF Reemite, TipoInv
        <4>4. QED
          BY <1>4, <4>2, <4>3
    <2>3. QED
      BY <1>4, <2>1, <2>2 DEF Entra, Reemite, TipoInv
  <1>5. ASSUME NEW r \in Pedidos, ContaErro(r) \/ Bloqueia(r) PROVE TipoInv'
    <2>1. pedido' \in [Pedidos -> TipoPedido]
      <3>1. \E p \in TipoPedido : Segue(r, p)
        BY <1>5, PlainType DEF ContaErro, Bloqueia
      <3>2. QED
        BY <3>1, FollowType
    <2>2. conta.tentativas \in Nat
      BY DEF TipoInv, TipoConta
    <2>3. conta' \in TipoConta
      <3>1. conta' = [conta EXCEPT !.tentativas = conta.tentativas + 1] \/ conta' = [conta EXCEPT !.tentativas = 0, !.bloqueio = "sim"]
        BY <1>5 DEF ContaErro, Bloqueia
      <3>2. conta \in TipoConta /\ conta.tentativas + 1 \in Nat
        BY <2>2 DEF TipoInv
      <3>3. QED
        <4>1. \A n \in Nat : [conta EXCEPT !.tentativas = n] \in TipoConta
          BY <3>2 DEF TipoConta
        <4>2. [conta EXCEPT !.tentativas = 0, !.bloqueio = "sim"] \in TipoConta
          BY <3>2 DEF TipoConta
        <4>3. QED
          BY <3>1, <3>2, <4>1, <4>2
    <2>4. QED
      BY <1>5, <2>1, <2>3 DEF ContaErro, Bloqueia, TipoInv
  <1>6. ASSUME NEW r \in Pedidos, CriaLink(r) PROVE TipoInv'
    BY <1>6, PlainType, FollowType DEF CriaLink, TipoInv
  <1>7. ASSUME NEW r \in Pedidos, Redefine(r) PROVE TipoInv'
    BY <1>7, PlainType, FollowType, PasswordType, SpentType DEF Redefine, TipoInv
  <1>8. ASSUME NEW r \in Pedidos, Troca(r) PROVE TipoInv'
    <2>1. conta' \in TipoConta /\ senhas' \in 1..MaxSenhas /\ palpites' \in Nat
      BY <1>8, PasswordType DEF Troca
    <2>2. pedido' \in [Pedidos -> TipoPedido]
      BY <1>8, <2>1, PlainType, FollowType DEF Troca
    <2>3. QED
      BY <1>8, <2>1, <2>2, SpentType DEF Troca, TipoInv
  <1>9. ASSUME NEW r \in Pedidos, NEW l \in Links, LeLink(r, l) PROVE TipoInv'
    BY <1>9, PlainType, FollowType DEF LeLink, Comeca, TipoInv
  <1>10. ASSUME NEW l \in Links, VenceLink(l) PROVE TipoInv'
    BY <1>10 DEF VenceLink, TipoInv
  <1>11. CASE LinkDoAdmin
    BY <1>11, SpentType DEF LinkDoAdmin, TipoInv
  <1>12. CASE VenceBloqueio \/ Revoga \/ \E b \in BOOLEAN : Ativa(b)
    <2>1. conta.versao < MaxVersao => conta.versao + 1 \in 0..MaxVersao
      BY DEF TipoInv, TipoConta
    <2>2. conta' \in TipoConta
      BY <1>12, <2>1 DEF VenceBloqueio, Revoga, Ativa, TipoInv, TipoConta
    <2>3. QED
      <3>1. senhas' = senhas /\ pedido' = pedido /\ sessao' = sessao /\ palpites' \in {palpites, 0} /\ link' \in {link, LinksGastos}
        BY <1>12 DEF VenceBloqueio, Revoga, Ativa
      <3>2. QED
        BY <2>2, <3>1, SpentType DEF TipoInv
  <1>13. CASE Recupera
    BY <1>13, PasswordType, SpentType DEF Recupera, TipoInv
  <1>14. CASE UNCHANGED vars
    BY <1>14 DEF vars, TipoInv
  <1>15. QED
    BY <1>1, <1>2, <1>3, <1>4, <1>5, <1>6, <1>7, <1>8, <1>9, <1>10, <1>11, <1>12, <1>13, <1>14 DEF Next

\* Types of an account: the counter of wrong passwords passes the limit by less than the requests that may be in flight,
\* since what counts the last one locks (registerLoginFailure).
THEOREM AccountsTyped ==
  ASSUME MaxErros \in Nat \ {0}, IsFiniteSet(Pedidos), MaxSenhas \in Nat \ {0}, MaxVersao \in Nat PROVE Spec => []TypeOK
  <1>1. TipoInv /\ PalpitesInv => TypeOK
    <2> SUFFICES ASSUME TipoInv, PalpitesInv PROVE TypeOK
      OBVIOUS
    <2> DEFINE b == Cardinality(Com("bloqueia"))  n == Cardinality(Pedidos)
    <2>1. b \in Nat /\ n \in Nat /\ b <= n
      BY FS_Subset, FS_CardinalityType DEF Com
    <2>2. conta.tentativas \in Nat /\ conta.tentativas < MaxErros + b
      BY DEF TipoInv, TipoConta, PalpitesInv
    <2>3. conta.tentativas \in 0..MaxErros + n - 1
      <3> HIDE DEF b, n
      <3>1. QED
        BY <2>1, <2>2
    <2>4. conta \in [senha : 1..MaxSenhas, versao : 0..MaxVersao, tentativas : 0..MaxErros + Cardinality(Pedidos) - 1,
                     bloqueio : {"nao", "sim", "vencido"}, ativa : BOOLEAN]
      <3> HIDE DEF n
      <3>1. conta \in TipoConta
        BY DEF TipoInv
      <3>2. QED
        BY <2>3, <3>1 DEF TipoConta, n
    <2>5. QED
      BY <2>4 DEF TipoInv, TipoPedido, TypeOK
  <1>2. Init => TipoInv /\ PalpitesInv
    BY InitType, InitGuesses
  <1>3. FV /\ PalpitesInv /\ TipoInv /\ [Next]_vars => PalpitesInv' /\ TipoInv'
    BY NextGuesses, NextType
  <1>4. QED
    BY <1>1, <1>2, <1>3, SpecFV, PTL DEF Spec
=============================================================================
