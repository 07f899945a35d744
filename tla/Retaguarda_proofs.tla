------------------------- MODULE Retaguarda_proofs --------------------------
(***************************************************************************)
(* The services of Retaguarda, for every value of the constants: of each,  *)
(* an inductive invariant, and what it implies.  The theorems about the    *)
(* behaviours of the system are in Servicos_proofs.                        *)
(***************************************************************************)
EXTENDS Retaguarda, FiniteSetTheorems, SequenceTheorems, TLAPS

-----------------------------------------------------------------------------
(* Payouts (module Repasses)                                                *)
(*                                                                         *)
(* A list that was read belongs to a batch that does not exist yet         *)
(* (LotesInv), a commission in a total is not free any more (SomaInv), and *)
(* as long as no two creations overlap the list in flight shares nothing   *)
(* with the totals there are (ListaInv).                                   *)

LotesInv ==
    /\ \A l \in Lotes : lista[l] # {} => lote[l].status = "nenhum"
    /\ \A l \in Lotes : pagando[l] > 0 => lote[l].status # "nenhum"
    /\ \A l \in Lotes : lote[l].status = "nenhum" => \A c \in Comissoes : comissao[c].lote # {l}

SomaInv ==
    /\ \A l \in Lotes : \A c \in Comissoes : comissao[c].lote = {l} => c \in lote[l].soma
    /\ \A l \in Lotes : \A c \in lote[l].soma : ~R!Livre(c)

ListaInv ==
    ~cruzados =>
        /\ \A k, l \in Lotes : lista[k] # {} /\ lista[l] # {} => k = l
        /\ \A k, l \in Lotes : lista[k] \cap lote[l].soma = {}
        /\ \A k, l \in Lotes : k # l => lote[k].soma \cap lote[l].soma = {}

PayoutsInv == R!TypeOK /\ LotesInv /\ SomaInv /\ ListaInv

LEMMA PayoutsInit == R!Init => PayoutsInv
  <1> SUFFICES ASSUME R!Init PROVE PayoutsInv
    OBVIOUS
  <1>1. R!TypeOK
    <2>1. comissao \in [Comissoes -> R!Comissao]
      BY DEF R!Init, R!Comissao
    <2>2. lote \in [Lotes -> R!Lote]
      BY DEF R!Init, R!Lote
    <2>3. QED
      BY <2>1, <2>2 DEF R!Init, R!TypeOK
  <1>2. LotesInv
    <2>1. \A l \in Lotes : lista[l] = {} /\ pagando[l] = 0
      BY DEF R!Init
    <2>2. \A c \in Comissoes : comissao[c].lote = {}
      BY DEF R!Init, R!SemLote
    <2>3. \A l \in Lotes : {l} # {}
      OBVIOUS
    <2>4. QED
      BY <2>1, <2>2, <2>3 DEF LotesInv
  <1>3. SomaInv
    BY DEF R!Init, SomaInv, R!SemLote
  <1>4. ListaInv
    BY DEF R!Init, ListaInv
  <1>5. QED
    BY <1>1, <1>2, <1>3, <1>4 DEF PayoutsInv

LEMMA ReadListKeeps ==
  ASSUME PayoutsInv, NEW l \in Lotes, NEW S \in SUBSET Comissoes \ {{}}, R!LeLista(l, S)
  PROVE  PayoutsInv'
  <1> USE DEF R!LeLista
  <1>1. R!TypeOK'
    BY DEF PayoutsInv, R!TypeOK
  <1>2. LotesInv'
    BY DEF PayoutsInv, R!TypeOK, LotesInv
  <1>3. SomaInv'
    BY DEF PayoutsInv, R!TypeOK, SomaInv, R!Livre
  <1>4. ASSUME ~cruzados' PROVE ListaInv'
    <2>1. ~cruzados /\ \A k \in Lotes : lista[k] = {}
      BY <1>4
    <2>2. \A k \in Lotes : lista'[k] = IF k = l THEN S ELSE {}
      BY <2>1 DEF PayoutsInv, R!TypeOK
    <2>3. \A k \in Lotes : S \cap lote[k].soma = {}
      BY DEF PayoutsInv, SomaInv
    <2>4. QED
      BY <2>1, <2>2, <2>3 DEF PayoutsInv, ListaInv
  <1>5. QED
    BY <1>1, <1>2, <1>3, <1>4 DEF PayoutsInv, ListaInv

LEMMA CreateKeeps ==
  ASSUME PayoutsInv, NEW l \in Lotes, R!CriaLote(l)
  PROVE  PayoutsInv'
  <1> USE DEF R!CriaLote
  <1>1. lote[l].status = "nenhum" /\ \A c \in Comissoes : comissao[c].lote # {l}
    BY DEF PayoutsInv, LotesInv
  <1>2. \A k \in Lotes : lote'[k] = IF k = l THEN [status |-> "rascunho", soma |-> lista[l]] ELSE lote[k]
    BY DEF PayoutsInv, R!TypeOK
  <1>3. \A k \in Lotes : lista'[k] = IF k = l THEN {} ELSE lista[k]
    BY DEF PayoutsInv, R!TypeOK
  <1>4. \A c \in Comissoes :
            IF c \in lista[l] /\ comissao[c].status = "pendente"
            THEN comissao'[c] \in R!Comissao /\ comissao'[c].status = comissao[c].status /\ comissao'[c].lote = {l}
            ELSE comissao'[c] = comissao[c]
    <2> SUFFICES ASSUME NEW c \in Comissoes
                 PROVE  IF c \in lista[l] /\ comissao[c].status = "pendente"
                        THEN comissao'[c] \in R!Comissao /\ comissao'[c].status = comissao[c].status /\ comissao'[c].lote = {l}
                        ELSE comissao'[c] = comissao[c]
      OBVIOUS
    <2>1. CASE c \in lista[l] /\ comissao[c].status = "pendente"
      <3>1. comissao'[c] = [comissao[c] EXCEPT !.lote = {l}]
        BY <2>1 DEF R!Alcanca
      <3>2. comissao[c] \in R!Comissao
        BY DEF PayoutsInv, R!TypeOK
      <3>3. QED
        BY <2>1, <3>1, <3>2 DEF R!Comissao
    <2>2. CASE ~(c \in lista[l] /\ comissao[c].status = "pendente")
      BY <2>2 DEF R!Alcanca
    <2>3. QED
      BY <2>1, <2>2
  <1>5. lista[l] \subseteq Comissoes
    BY DEF PayoutsInv, R!TypeOK
  <1> HIDE DEF R!CriaLote
  <1>6. R!TypeOK'
    <2>1. comissao' \in [Comissoes -> R!Comissao]
      BY <1>4 DEF PayoutsInv, R!TypeOK, R!CriaLote
    <2>2. lote' \in [Lotes -> R!Lote] /\ lista' \in [Lotes -> SUBSET Comissoes]
      BY <1>5 DEF PayoutsInv, R!TypeOK, R!Lote, R!CriaLote
    <2>3. QED
      BY <2>1, <2>2 DEF PayoutsInv, R!TypeOK, R!CriaLote
  <1>7. LotesInv'
    <2>1. \A k \in Lotes : lote'[k].status = "nenhum" => k # l /\ lote[k].status = "nenhum"
      BY <1>2
    <2>2. \A k \in Lotes, c \in Comissoes : k # l /\ comissao[c].lote # {k} => comissao'[c].lote # {k}
      BY <1>4
    <2>3. QED
      BY <1>2, <1>3, <2>1, <2>2 DEF PayoutsInv, LotesInv, R!CriaLote
  <1>8. SomaInv'
    <2>1. \A k \in Lotes, c \in Comissoes : comissao'[c].lote = {k} => c \in lote'[k].soma
      BY <1>1, <1>2, <1>4 DEF PayoutsInv, SomaInv
    <2>2. ASSUME NEW c \in Comissoes, ~R!Livre(c) \/ c \in lista[l] PROVE ~R!Livre(c)'
      <3>1. CASE c \in lista[l] /\ comissao[c].status = "pendente"
        <4>1. comissao'[c].lote = {l}
          BY <1>4, <3>1
        <4>2. {l} # R!SemLote
          BY DEF R!SemLote
        <4>3. QED
          BY <4>1, <4>2 DEF R!Livre
      <3>2. CASE ~(c \in lista[l] /\ comissao[c].status = "pendente")
        <4>1. comissao'[c] = comissao[c]
          BY <1>4, <3>2
        <4>2. QED
          BY <2>2, <3>2, <4>1 DEF R!Livre
      <3>3. QED
        BY <3>1, <3>2
    <2>3. lista[l] \subseteq Comissoes
      BY <1>5
    <2>4. \A k \in Lotes : lote[k].soma \subseteq Comissoes
      BY DEF PayoutsInv, R!TypeOK, R!Lote
    <2>5. \A k \in Lotes : \A c \in lote'[k].soma : ~R!Livre(c)'
      BY <1>2, <2>2, <2>3, <2>4 DEF PayoutsInv, SomaInv
    <2>6. QED
      BY <2>1, <2>5 DEF SomaInv
  <1>9. ListaInv'
    <2> SUFFICES ASSUME ~cruzados PROVE ListaInv'
      BY DEF ListaInv, R!CriaLote
    <2>1. \A k \in Lotes : lista'[k] = {}
      BY <1>3 DEF PayoutsInv, ListaInv, R!CriaLote
    <2>2. \A k \in Lotes : lista[l] \cap lote[k].soma = {}
      BY DEF PayoutsInv, ListaInv
    <2>3. \A k, m \in Lotes : k # m => lote'[k].soma \cap lote'[m].soma = {}
      BY <1>2, <2>2 DEF PayoutsInv, ListaInv
    <2>4. QED
      BY <2>1, <2>3 DEF ListaInv
  <1>10. QED
    BY <1>6, <1>7, <1>8, <1>9 DEF PayoutsInv

LEMMA ReadPaymentKeeps ==
  ASSUME PayoutsInv, NEW l \in Lotes, R!LePagamento(l)
  PROVE  PayoutsInv'
  <1>1. R!TypeOK'
    BY DEF PayoutsInv, R!TypeOK, R!LePagamento
  <1>2. LotesInv'
    BY DEF PayoutsInv, R!TypeOK, LotesInv, R!LePagamento
  <1>3. SomaInv' /\ ListaInv'
    BY DEF PayoutsInv, SomaInv, ListaInv, R!Livre, R!LePagamento
  <1>4. QED
    BY <1>1, <1>2, <1>3 DEF PayoutsInv

\* A step that moves a commission only out of "pendente" and leaves lists and totals alone.
LEMMA PendingOnly ==
  ASSUME PayoutsInv, R!TypeOK', UNCHANGED <<lista, cruzados>>,
         \A c \in Comissoes : comissao'[c].lote = comissao[c].lote
                              /\ (comissao'[c].status = "pendente" => comissao[c].status = "pendente"),
         \A l \in Lotes : lote'[l].soma = lote[l].soma
                          /\ (lote'[l].status = "nenhum" <=> lote[l].status = "nenhum"),
         \A l \in Lotes : pagando'[l] > 0 => pagando[l] > 0
  PROVE  PayoutsInv'
  <1>1. LotesInv'
    BY DEF PayoutsInv, LotesInv
  <1>2. \A c \in Comissoes : ~R!Livre(c) => ~R!Livre(c)'
    BY DEF R!Livre
  <1>3. \A l \in Lotes : lote[l].soma \subseteq Comissoes
    BY DEF PayoutsInv, R!TypeOK, R!Lote
  <1>4. SomaInv'
    BY <1>2, <1>3 DEF PayoutsInv, SomaInv
  <1>5. ListaInv'
    BY DEF PayoutsInv, ListaInv
  <1>6. QED
    BY <1>1, <1>4, <1>5 DEF PayoutsInv

LEMMA PayKeeps ==
  ASSUME PayoutsInv, NEW l \in Lotes, R!PagaLote(l)
  PROVE  PayoutsInv'
  <1>1. \A k \in Lotes : lote'[k] = IF k = l THEN [status |-> "pago", soma |-> lote[l].soma] ELSE lote[k]
    BY DEF PayoutsInv, R!TypeOK, R!Lote, R!PagaLote
  <1>2. \A c \in Comissoes :
            \/ /\ comissao'[c] \in R!Comissao
               /\ comissao'[c].status = "paga" /\ comissao'[c].lote = comissao[c].lote
            \/ comissao'[c] = comissao[c]
    <2> SUFFICES ASSUME NEW c \in Comissoes, comissao'[c] # comissao[c]
                 PROVE  /\ comissao'[c] \in R!Comissao
                        /\ comissao'[c].status = "paga" /\ comissao'[c].lote = comissao[c].lote
      OBVIOUS
    <2>1. comissao'[c] = [comissao[c] EXCEPT !.status = "paga"]
      BY DEF R!PagaLote
    <2>2. comissao[c] \in R!Comissao
      BY DEF PayoutsInv, R!TypeOK
    <2>3. QED
      BY <2>1, <2>2 DEF R!Comissao
  <1>3. \A k \in Lotes : pagando'[k] = IF k = l THEN pagando[k] - 1 ELSE pagando[k]
    BY DEF PayoutsInv, R!TypeOK, R!PagaLote
  <1>4. R!TypeOK'
    <2>1. comissao' \in [Comissoes -> R!Comissao]
      BY <1>2 DEF PayoutsInv, R!TypeOK, R!PagaLote
    <2>2. lote' \in [Lotes -> R!Lote]
      BY DEF PayoutsInv, R!TypeOK, R!Lote, R!PagaLote
    <2>3. pagando' \in [Lotes -> Nat]
      BY DEF PayoutsInv, R!TypeOK, R!PagaLote
    <2>4. QED
      BY <2>1, <2>2, <2>3 DEF PayoutsInv, R!TypeOK, R!PagaLote
  <1>5. \A c \in Comissoes : /\ comissao'[c].lote = comissao[c].lote
                             /\ comissao'[c].status = "pendente" => comissao[c].status = "pendente"
    BY <1>2
  <1>6. lote[l].status # "nenhum"
    BY DEF PayoutsInv, LotesInv, R!PagaLote
  <1>7. \A k \in Lotes : /\ lote'[k].soma = lote[k].soma
                         /\ lote'[k].status = "nenhum" <=> lote[k].status = "nenhum"
    BY <1>1, <1>6
  <1>8. \A k \in Lotes : pagando'[k] > 0 => pagando[k] > 0
    BY <1>3 DEF PayoutsInv, R!TypeOK
  <1>9. QED
    BY <1>4, <1>5, <1>7, <1>8, PendingOnly DEF R!PagaLote

LEMMA CancelKeeps ==
  ASSUME PayoutsInv, NEW c \in Comissoes, R!CancelaComissao(c)
  PROVE  PayoutsInv'
  <1>1. R!TypeOK'
    BY DEF PayoutsInv, R!TypeOK, R!Comissao, R!CancelaComissao
  <1>2. \A d \in Comissoes : /\ comissao'[d].lote = comissao[d].lote
                             /\ comissao'[d].status = "pendente" => comissao[d].status = "pendente"
    BY DEF PayoutsInv, R!TypeOK, R!Comissao, R!CancelaComissao
  <1>3. QED
    BY <1>1, <1>2, PendingOnly DEF R!CancelaComissao

LEMMA PayoutsNext == PayoutsInv /\ [R!Next]_R!vars => PayoutsInv'
  <1> SUFFICES ASSUME PayoutsInv, [R!Next]_R!vars PROVE PayoutsInv'
    OBVIOUS
  <1>1. ASSUME NEW l \in Lotes, NEW S \in SUBSET Comissoes \ {{}}, R!LeLista(l, S) PROVE PayoutsInv'
    BY <1>1, ReadListKeeps
  <1>2. ASSUME NEW l \in Lotes, R!CriaLote(l) PROVE PayoutsInv'
    BY <1>2, CreateKeeps
  <1>3. ASSUME NEW l \in Lotes, R!LePagamento(l) PROVE PayoutsInv'
    BY <1>3, ReadPaymentKeeps
  <1>4. ASSUME NEW l \in Lotes, R!PagaLote(l) PROVE PayoutsInv'
    BY <1>4, PayKeeps
  <1>5. ASSUME NEW c \in Comissoes, R!CancelaComissao(c) PROVE PayoutsInv'
    BY <1>5, CancelKeeps
  <1>6. CASE UNCHANGED R!vars
    BY <1>6 DEF PayoutsInv, R!TypeOK, LotesInv, SomaInv, ListaInv, R!Livre, R!vars
  <1>7. QED
    BY <1>1, <1>2, <1>3, <1>4, <1>5, <1>6 DEF R!Next

LEMMA PaidStays == R!TypeOK /\ [R!Next]_R!vars => R!PaidCommissionIsFinal
  <1> SUFFICES ASSUME R!TypeOK, [R!Next]_R!vars, NEW c \in Comissoes, comissao[c].status = "paga"
               PROVE  comissao'[c] = comissao[c]
    BY DEF R!PaidCommissionIsFinal
  <1>1. CASE comissao' = comissao
    BY <1>1
  <1>2. ASSUME NEW l \in Lotes, R!CriaLote(l) PROVE comissao'[c] = comissao[c]
    BY <1>2 DEF R!CriaLote, R!Alcanca
  <1>3. ASSUME NEW l \in Lotes, R!PagaLote(l) PROVE comissao'[c] = comissao[c]
    BY <1>3 DEF R!PagaLote, R!Alcanca
  <1>4. ASSUME NEW d \in Comissoes, R!CancelaComissao(d) PROVE comissao'[c] = comissao[c]
    BY <1>4 DEF R!CancelaComissao, R!TypeOK
  <1>5. QED
    BY <1>1, <1>2, <1>3, <1>4 DEF R!Next, R!vars, R!LeLista, R!LePagamento

-----------------------------------------------------------------------------
(* Who may do what (module Acesso) *)

\* The main account is an administrator, active, and has no row as an affiliate; and what a change of a role in flight
\* may do was decided by what was read: only the main account asks for a new administrator, only it may touch itself,
\* and an administrator is only touched by it, by themselves (who stay one), or by who read less.
Cadastro == [papel : X!Papeis, versao : Nat, ativa : BOOLEAN, ficha : BOOLEAN]
FormaTroca == [ator : Pessoas, alvo : Pessoas, papel : X!Papeis, visto : 0 .. 4]
Devida(t) ==
    /\ t.papel = "admin" => t.ator \in {Chefe, t.alvo}
    /\ t.ator = t.alvo => t.papel = "admin"
    /\ t.alvo = Chefe => t.ator = Chefe
    /\ t.ator \in {Chefe, t.alvo} \/ t.visto < 3
ChefeInv ==
    /\ cadastro \in [Pessoas -> Cadastro] /\ troca \subseteq FormaTroca
    /\ X!AdminAgora(Chefe) /\ ~cadastro[Chefe].ficha
    /\ \A t \in troca : Devida(t)

\* One step of the hierarchy.
Feito(p) == cadastro[p].papel # "admin" /\ cadastro'[p].papel = "admin"
Desfeito(p) == cadastro[p].papel = "admin" /\ cadastro'[p].papel # "admin"
Hierarquia ==
    \A p \in Pessoas :
        /\ Feito(p) => \E t \in troca \ troca' : t.ator = Chefe /\ t.alvo = p
        /\ Desfeito(p) => p \in aprovado' \/ \E t \in troca \ troca' : t.alvo = p /\ (t.ator = Chefe \/ t.visto < 3)

LEMMA Ranks ==
  ASSUME NEW cargo \in X!Papeis
  PROVE  /\ X!Rank[cargo] \in 0 .. 3
         /\ X!Rank[cargo] = 3 <=> cargo = "admin"
  BY DEF X!Rank, X!Papeis

LEMMA RankRange ==
  ASSUME NEW p, NEW cargo \in X!Papeis
  PROVE  /\ X!RankOf(p, cargo) \in 0 .. 4
         /\ cargo = "admin" => X!RankOf(p, cargo) = IF p = Chefe THEN 4 ELSE 3
         /\ cargo # "admin" => X!RankOf(p, cargo) < 3
  <1>1. X!Rank[cargo] \in 0 .. 3 /\ (X!Rank[cargo] = 3 <=> cargo = "admin")
    BY Ranks
  <1>2. QED
    BY <1>1 DEF X!RankOf, X!IsSuperAdmin

\* A step that only changes what one account has.
LEMMA UmCadastro ==
  ASSUME cadastro \in [Pessoas -> Cadastro], NEW p \in Pessoas, NEW c \in Cadastro,
         cadastro' = [cadastro EXCEPT ![p] = c]
  PROVE  /\ cadastro' \in [Pessoas -> Cadastro]
         /\ cadastro'[p] = c
         /\ \A q \in Pessoas \ {p} : cadastro'[q] = cadastro[q]
  OBVIOUS

LEMMA ComPapelDe ==
  ASSUME NEW c \in Cadastro, NEW cargo \in X!Papeis
  PROVE  LET d == X!ComPapel(c, cargo)
         IN  /\ d \in Cadastro /\ d.papel = cargo /\ d.ativa = c.ativa /\ d.versao = c.versao + 1
             /\ cargo # "afiliado" => d.ficha = c.ficha
  <1>1. PICK e : e = [c EXCEPT !.papel = cargo, !.versao = c.versao + 1]
    OBVIOUS
  <1>2. c.versao + 1 \in Nat
    BY DEF Cadastro
  <1>3. e \in Cadastro
    BY <1>1, <1>2 DEF Cadastro
  <1>4. e.papel = cargo /\ e.versao = c.versao + 1 /\ e.ativa = c.ativa /\ e.ficha = c.ficha
    BY <1>1 DEF Cadastro
  <1>5. PICK g : g = [e EXCEPT !.ficha = TRUE]
    OBVIOUS
  <1>6. g \in Cadastro
    BY <1>3, <1>5 DEF Cadastro
  <1>7. g.papel = e.papel /\ g.versao = e.versao /\ g.ativa = e.ativa
    BY <1>3, <1>5 DEF Cadastro
  <1>8. QED
    BY <1>1, <1>3, <1>4, <1>5, <1>6, <1>7 DEF X!ComPapel, X!ProximaVersao

LEMMA ComAcessoDe ==
  ASSUME NEW c \in Cadastro, NEW a \in BOOLEAN
  PROVE  LET d == [c EXCEPT !.ativa = a, !.versao = c.versao + 1]
         IN  d \in Cadastro /\ d.papel = c.papel /\ d.ativa = a /\ d.ficha = c.ficha /\ d.versao = c.versao + 1
  <1>1. PICK e : e = [c EXCEPT !.ativa = a, !.versao = c.versao + 1]
    OBVIOUS
  <1>2. c.versao + 1 \in Nat
    BY DEF Cadastro
  <1>3. e \in Cadastro
    BY <1>1, <1>2 DEF Cadastro
  <1>4. e.papel = c.papel /\ e.versao = c.versao + 1 /\ e.ativa = a /\ e.ficha = c.ficha
    BY <1>1 DEF Cadastro
  <1>5. QED
    BY <1>1, <1>3, <1>4

LEMMA MesmaHierarquia ==
  ASSUME ChefeInv, UNCHANGED <<cadastro, troca>>
  PROVE  ChefeInv' /\ Hierarquia
  BY DEF ChefeInv, Hierarquia, Feito, Desfeito, X!AdminAgora, X!Ativo, Devida

LEMMA PedidaAHierarquia ==
  ASSUME ChefeInv, NEW ator \in Pessoas, NEW p \in Pessoas, NEW cargo \in X!Papeis, X!UpdateUserRole(ator, p, cargo)
  PROVE  ChefeInv' /\ Hierarquia
  <1>1. cadastro[p].papel \in X!Papeis /\ cadastro[p] \in Cadastro
    BY DEF ChefeInv, Cadastro
  <1>2. PICK t : t = [ator |-> ator, alvo |-> p, papel |-> cargo, visto |-> X!RankOf(p, cadastro[p].papel)]
    OBVIOUS
  <1>3. troca' = troca \cup {t} /\ cadastro' = cadastro
    BY <1>2 DEF X!UpdateUserRole
  <1>4. t \in FormaTroca
    BY <1>1, <1>2, RankRange DEF FormaTroca
  <1>5. Devida(t)
    <2>1. t.papel = "admin" => t.ator \in {Chefe, t.alvo}
      <3>1. CASE ator # p /\ cargo = "admin"
        <4>1. X!Rank[cargo] < X!RankOf(ator, "admin")
          BY <3>1 DEF X!UpdateUserRole, X!CanGrantRole
        <4>2. X!Rank[cargo] = 3 /\ "admin" \in X!Papeis
          BY <3>1, Ranks DEF X!Papeis
        <4>3. X!RankOf(ator, "admin") = IF ator = Chefe THEN 4 ELSE 3
          BY <4>2, RankRange
        <4>4. QED
          BY <4>1, <4>2, <4>3, <1>2
      <3>2. CASE ator = p \/ cargo # "admin"
        BY <3>2, <1>2
      <3>3. QED
        BY <3>1, <3>2
    <2>2. t.ator = t.alvo => t.papel = "admin"
      BY <1>2 DEF X!UpdateUserRole
    <2>3. ator = p \/ X!RankOf(ator, "admin") > X!RankOf(p, cadastro[p].papel)
      BY DEF X!UpdateUserRole, X!CanManage
    <2>4. "admin" \in X!Papeis
      BY DEF X!Papeis
    <2>5. X!RankOf(ator, "admin") = IF ator = Chefe THEN 4 ELSE 3
      BY <2>4, RankRange
    <2>6. t.alvo = Chefe => t.ator = Chefe
      <3>1. CASE p = Chefe /\ ator # Chefe
        <4>1. X!RankOf(p, cadastro[p].papel) = 4
          BY <3>1, <1>1, RankRange DEF ChefeInv, X!AdminAgora
        <4>2. QED
          BY <4>1, <3>1, <2>3, <2>5
      <3>2. CASE p # Chefe \/ ator = Chefe
        BY <3>2, <1>2
      <3>3. QED
        BY <3>1, <3>2
    <2>7. t.ator \in {Chefe, t.alvo} \/ t.visto < 3
      <3>1. X!RankOf(p, cadastro[p].papel) \in 0 .. 4
        BY <1>1, RankRange
      <3>2. QED
        BY <3>1, <2>3, <2>5, <1>2
    <2>8. QED
      BY <2>1, <2>2, <2>6, <2>7 DEF Devida
  <1>6. \A s \in troca' : Devida(s)
    BY <1>3, <1>5 DEF ChefeInv
  <1>7. QED
    BY <1>3, <1>4, <1>6 DEF ChefeInv, Hierarquia, Feito, Desfeito, X!AdminAgora, X!Ativo, Devida

LEMMA GravadaAHierarquia ==
  ASSUME ChefeInv, NEW t \in troca, X!GravaPapel(t)
  PROVE  ChefeInv' /\ Hierarquia
  <1>1. t \in FormaTroca /\ Devida(t) /\ t.alvo \in Pessoas /\ t.ator \in Pessoas
    BY DEF ChefeInv, FormaTroca
  <1>2. troca' = troca \ {t}
    BY DEF X!GravaPapel
  <1>3. CASE ~X!LockAdminActor(t.ator)
    BY <1>2, <1>3 DEF X!GravaPapel, ChefeInv, Hierarquia, Feito, Desfeito, X!AdminAgora, X!Ativo, Devida
  <1>4. CASE X!LockAdminActor(t.ator)
    <2>1. PICK p \in Pessoas : p = t.alvo
      BY <1>1
    <2>2. PICK c : c = X!ComPapel(cadastro[p], t.papel)
      OBVIOUS
    <2>3. cadastro' = [cadastro EXCEPT ![p] = c]
      BY <1>4, <2>1, <2>2 DEF X!GravaPapel
    <2>4. cadastro[p] \in Cadastro /\ t.papel \in X!Papeis
      BY <1>1 DEF ChefeInv, FormaTroca
    <2>5. c \in Cadastro /\ c.papel = t.papel /\ c.ativa = cadastro[p].ativa
          /\ (t.papel # "afiliado" => c.ficha = cadastro[p].ficha)
      BY <2>2, <2>4, ComPapelDe
    <2>6. /\ cadastro' \in [Pessoas -> Cadastro] /\ cadastro'[p] = c
          /\ \A q \in Pessoas \ {p} : cadastro'[q] = cadastro[q]
      BY <2>3, <2>5, UmCadastro DEF ChefeInv
    <2>7. p = Chefe => t.papel = "admin"
      BY <1>1, <2>1 DEF Devida
    <2>8. X!AdminAgora(Chefe)' /\ ~cadastro'[Chefe].ficha
      BY <2>5, <2>6, <2>7, RetaguardaAssumption DEF ChefeInv, X!AdminAgora, X!Ativo
    <2>9. Feito(p) => t.ator = Chefe
      <3>1. t.ator = p => cadastro[p].papel = "admin"
        BY <1>4 DEF X!LockAdminActor, X!AdminAgora
      <3>2. QED
        BY <3>1, <1>1, <2>1, <2>5, <2>6 DEF Feito, Devida
    <2>10. Desfeito(p) => t.ator = Chefe \/ t.visto < 3
      BY <1>1, <2>1, <2>5, <2>6 DEF Desfeito, Devida
    <2>11. Hierarquia
      BY <1>2, <2>1, <2>6, <2>9, <2>10 DEF Hierarquia, Feito, Desfeito
    <2>12. QED
      BY <1>2, <2>6, <2>8, <2>11 DEF ChefeInv, Devida
  <1>5. QED
    BY <1>3, <1>4

LEMMA AcessoDaHierarquia ==
  ASSUME ChefeInv, NEW ator \in Pessoas, NEW p \in Pessoas, NEW ativa \in BOOLEAN, X!SetActive(ator, p, ativa)
  PROVE  ChefeInv' /\ Hierarquia
  <1>1. PICK c : c = [cadastro[p] EXCEPT !.ativa = ativa, !.versao = X!ProximaVersao(cadastro[p])]
    OBVIOUS
  <1>2. cadastro[p] \in Cadastro
    BY DEF ChefeInv
  <1>3. c \in Cadastro /\ c.papel = cadastro[p].papel /\ c.ativa = ativa /\ c.ficha = cadastro[p].ficha
    BY <1>1, <1>2, ComAcessoDe DEF X!ProximaVersao
  <1>4. cadastro' = [cadastro EXCEPT ![p] = c]
    BY <1>1, <1>2 DEF X!SetActive, ChefeInv, Cadastro
  <1>5. /\ cadastro' \in [Pessoas -> Cadastro] /\ cadastro'[p] = c
        /\ \A q \in Pessoas \ {p} : cadastro'[q] = cadastro[q]
    BY <1>3, <1>4, UmCadastro DEF ChefeInv
  <1>6. p = Chefe => ativa
    <2>1. SUFFICES ASSUME p = Chefe, ~ativa PROVE FALSE
      OBVIOUS
    <2>2. "admin" \in X!Papeis /\ cadastro[p].papel = "admin"
      BY <2>1 DEF X!Papeis, ChefeInv, X!AdminAgora
    <2>3. ator # Chefe /\ X!RankOf(ator, "admin") > X!RankOf(p, "admin")
      BY <2>1, <2>2 DEF X!SetActive, X!CanManage
    <2>4. X!RankOf(p, "admin") = 4 /\ X!RankOf(ator, "admin") = 3
      BY <2>1, <2>2, <2>3, RankRange
    <2>5. QED
      BY <2>3, <2>4
  <1>7. X!AdminAgora(Chefe)' /\ ~cadastro'[Chefe].ficha
    BY <1>3, <1>5, <1>6, RetaguardaAssumption DEF ChefeInv, X!AdminAgora, X!Ativo
  <1>8. troca' = troca
    BY DEF X!SetActive
  <1>9. QED
    BY <1>3, <1>5, <1>7, <1>8 DEF ChefeInv, Hierarquia, Feito, Desfeito, Devida

LEMMA AprovadaAHierarquia ==
  ASSUME ChefeInv, NEW ator \in Pessoas, NEW p \in Pessoas, X!ApproveAffiliate(ator, p)
  PROVE  ChefeInv' /\ Hierarquia
  <1>1. PICK c : c = [cadastro[p] EXCEPT !.papel = "afiliado"]
    OBVIOUS
  <1>2. cadastro[p] \in Cadastro
    BY DEF ChefeInv
  <1>3. c \in Cadastro /\ c.papel = "afiliado"
    BY <1>1, <1>2 DEF Cadastro, X!Papeis
  <1>4. cadastro' = [cadastro EXCEPT ![p] = c]
    BY <1>1 DEF X!ApproveAffiliate
  <1>5. /\ cadastro' \in [Pessoas -> Cadastro] /\ cadastro'[p] = c
        /\ \A q \in Pessoas \ {p} : cadastro'[q] = cadastro[q]
    BY <1>3, <1>4, UmCadastro DEF ChefeInv
  <1>6. p # Chefe
    BY DEF X!ApproveAffiliate, ChefeInv
  <1>7. X!AdminAgora(Chefe)' /\ ~cadastro'[Chefe].ficha
    BY <1>5, <1>6, RetaguardaAssumption DEF ChefeInv, X!AdminAgora, X!Ativo
  <1>8. troca' = troca /\ p \in aprovado'
    BY DEF X!ApproveAffiliate
  <1>9. QED
    BY <1>3, <1>5, <1>7, <1>8 DEF ChefeInv, Hierarquia, Feito, Desfeito, Devida

LEMMA HierarchyStep ==
  ASSUME ChefeInv, X!Next
  PROVE  ChefeInv' /\ Hierarquia
  <1>1. CASE X!EntraPelaPagina
    BY <1>1, MesmaHierarquia DEF X!EntraPelaPagina, X!Entra
  <1>2. CASE X!AbreEndereco \/ X!Confere
    BY <1>2, MesmaHierarquia DEF X!AbreEndereco, X!Abre, X!Confere
  <1>3. CASE X!PedeTroca
    BY <1>3, PedidaAHierarquia DEF X!PedeTroca
  <1>4. CASE X!GravaTroca
    BY <1>4, GravadaAHierarquia DEF X!GravaTroca
  <1>5. CASE X!MudaAcesso
    BY <1>5, AcessoDaHierarquia DEF X!MudaAcesso
  <1>6. CASE X!AprovaAfiliado
    BY <1>6, AprovadaAHierarquia DEF X!AprovaAfiliado
  <1>7. QED
    BY <1>1, <1>2, <1>3, <1>4, <1>5, <1>6 DEF X!Next

LEMMA CadastroNovo ==
  ASSUME NEW c \in [papel : X!Papeis, versao : {0}, ativa : {TRUE}, ficha : BOOLEAN]
  PROVE  c \in Cadastro /\ c.ativa
  <1>1. ASSUME NEW N, NEW L, N \subseteq Nat, L \subseteq BOOLEAN
        PROVE  [papel : X!Papeis, versao : N, ativa : L, ficha : BOOLEAN] \subseteq Cadastro
    BY <1>1 DEF Cadastro
  <1>2. {0} \subseteq Nat
    OBVIOUS
  <1>3. {TRUE} \subseteq BOOLEAN
    BY Zenon
  <1>4. c.ativa \in {TRUE}
    BY Zenon
  <1>5. c.ativa
    BY <1>4, Zenon
  <1>6. QED
    BY <1>1, <1>2, <1>3, <1>5

LEMMA InitChefeInv ==
  ASSUME X!Init
  PROVE  ChefeInv
  <1>1. cadastro \in [Pessoas -> [papel : X!Papeis, versao : {0}, ativa : {TRUE}, ficha : BOOLEAN]]
    BY DEF X!Init
  <1>2. ASSUME NEW p \in Pessoas PROVE cadastro[p] \in Cadastro /\ cadastro[p].ativa
    BY <1>1, CadastroNovo
  <1>3. cadastro \in [Pessoas -> Cadastro]
    BY <1>1, <1>2
  <1>4. cadastro[Chefe].papel = "admin" /\ ~cadastro[Chefe].ficha
    BY RetaguardaAssumption DEF X!Init
  <1>5. cadastro[Chefe].ativa
    BY <1>2, RetaguardaAssumption
  <1>6. QED
    BY <1>3, <1>4, <1>5 DEF X!Init, ChefeInv, X!AdminAgora, X!Ativo

-----------------------------------------------------------------------------
(* A tab and its session *)

\* A session is of a version the account has had; whoever has just signed in is inside, and a tab knows the role of its session.
FormaAba == [lugar : X!Lugares, papel : X!Papeis \cup {X!NaoSabe}, entrou : BOOLEAN]
EntradaInv ==
    /\ eu \in Pessoas /\ aba \in FormaAba
    /\ cookie \in Int /\ cookie =< cadastro[eu].versao
    /\ X!LandsInside /\ X!StaleTabIsOut

\* A change of the account ends the session, is remembered in aprovado, or is of somebody else.
LEMMA ContaMudaKeeps ==
  ASSUME EntradaInv, cadastro[eu] \in Cadastro, cadastro'[eu] \in Cadastro, UNCHANGED <<eu, cookie, aba>>,
         \/ cadastro'[eu].versao > cadastro[eu].versao
         \/ eu \in aprovado' /\ cadastro'[eu].versao = cadastro[eu].versao
         \/ cadastro'[eu] = cadastro[eu] /\ (eu \in aprovado <=> eu \in aprovado')
  PROVE  EntradaInv'
  <1>1. cadastro[eu].versao \in Nat /\ cadastro'[eu].versao \in Nat
    BY DEF Cadastro
  <1>2. eu' \in Pessoas /\ aba' \in FormaAba /\ cookie' \in Int
    BY DEF EntradaInv
  <1>3. CASE cadastro'[eu].versao > cadastro[eu].versao
    <2>1. cookie < cadastro'[eu].versao
      BY <1>1, <1>3 DEF EntradaInv
    <2>2. ~X!SessaoVale'
      BY <2>1 DEF X!SessaoVale, EntradaInv
    <2>3. cookie' =< cadastro'[eu'].versao
      BY <1>1, <2>1 DEF EntradaInv
    <2>4. QED
      BY <1>2, <2>2, <2>3 DEF EntradaInv, X!LandsInside, X!StaleTabIsOut
  <1>4. CASE eu \in aprovado' /\ cadastro'[eu].versao = cadastro[eu].versao
    BY <1>2, <1>4 DEF EntradaInv, X!LandsInside, X!StaleTabIsOut
  <1>5. CASE cadastro'[eu] = cadastro[eu] /\ (eu \in aprovado <=> eu \in aprovado')
    <2>1. X!SessaoVale' <=> X!SessaoVale
      BY <1>5 DEF X!SessaoVale, X!Ativo
    <2>2. X!LandsInside'
      BY <1>5, <2>1 DEF EntradaInv, X!LandsInside
    <2>3. X!StaleTabIsOut'
      BY <1>5, <2>1 DEF EntradaInv, X!StaleTabIsOut
    <2>4. QED
      BY <1>2, <1>5, <2>2, <2>3 DEF EntradaInv
  <1>6. QED
    BY <1>3, <1>4, <1>5

\* Where a sign-in lands is a place of the role.
LEMMA LandsWhereItMay ==
  ASSUME NEW cargo \in X!Papeis, NEW next \in X!Lugares
  PROVE  /\ X!LandingFor(cargo, next) \in X!Lugares
         /\ X!LandingFor(cargo, next) = "painel" => X!IsStaff(cargo)
         /\ X!LandingFor(cargo, next) = "afiliado" => cargo \in {"afiliado", "admin"}
  <1>1. X!HomeForRole[cargo] \in X!Lugares
    BY DEF X!HomeForRole, X!Papeis, X!Lugares
  <1>2. X!HomeForRole[cargo] = "painel" => cargo \in {"operacao", "admin"}
    BY DEF X!HomeForRole, X!Papeis
  <1>3. X!HomeForRole[cargo] = "afiliado" => cargo = "afiliado"
    BY DEF X!HomeForRole, X!Papeis
  <1>4. cargo # "operacao" /\ "painel" \in X!AllowedNext[cargo] => cargo = "admin"
    BY DEF X!AllowedNext, X!Papeis
  <1>5. "afiliado" \in X!AllowedNext[cargo] => cargo \in {"afiliado", "admin"}
    BY DEF X!AllowedNext, X!Papeis
  <1>6. QED
    BY <1>1, <1>2, <1>3, <1>4, <1>5 DEF X!LandingFor, X!IsStaff, X!Equipe

LEMMA EntraKeeps ==
  ASSUME EntradaInv, cadastro[eu] \in Cadastro, NEW entrada, NEW next \in X!Lugares, X!Entra(entrada, next)
  PROVE  EntradaInv'
  <1>1. PICK cargo : cargo = cadastro[eu].papel
    OBVIOUS
  <1>2. cargo \in X!Papeis /\ cadastro[eu].versao \in Nat
    BY <1>1 DEF Cadastro
  <1>3. cadastro' = cadastro /\ eu' = eu /\ eu \in Pessoas
    BY DEF X!Entra, EntradaInv
  <1>4. CASE X!Aceita(entrada, cargo)
    <2>1. PICK l : l = X!LandingFor(cargo, next)
      OBVIOUS
    <2>2. l \in X!Lugares /\ (l = "painel" => X!IsStaff(cargo)) /\ (l = "afiliado" => cargo \in {"afiliado", "admin"})
      BY <1>2, <2>1, LandsWhereItMay
    <2>3. cookie' = cadastro[eu].versao /\ aba' = [lugar |-> l, papel |-> X!NaoSabe, entrou |-> TRUE]
      BY <1>1, <1>4, <2>1 DEF X!Entra
    <2>4. aba' \in FormaAba /\ aba'.lugar = l /\ aba'.papel = X!NaoSabe
      BY <2>2, <2>3 DEF FormaAba
    <2>5. X!LandsInside'
      BY <1>1, <1>3, <2>2, <2>4 DEF X!LandsInside
    <2>6. X!StaleTabIsOut'
      BY <2>4 DEF X!StaleTabIsOut
    <2>7. cookie' \in Int /\ cookie' =< cadastro'[eu'].versao
      BY <1>2, <1>3, <2>3
    <2>8. QED
      BY <1>3, <2>4, <2>5, <2>6, <2>7 DEF EntradaInv
  <1>5. CASE ~X!Aceita(entrada, cargo)
    <2>1. cookie' = X!SemSessao /\ aba' = aba
      BY <1>1, <1>5 DEF X!Entra
    <2>2. ~X!SessaoVale'
      BY <2>1 DEF X!SessaoVale
    <2>3. cookie' \in Int /\ cookie' =< cadastro'[eu'].versao
      BY <1>2, <1>3, <2>1 DEF X!SemSessao
    <2>4. QED
      BY <1>3, <2>1, <2>2, <2>3 DEF EntradaInv, X!LandsInside, X!StaleTabIsOut
  <1>6. QED
    BY <1>4, <1>5

LEMMA AbreEnderecoKeeps ==
  ASSUME EntradaInv, NEW lugar \in X!Lugares, X!Abre(lugar)
  PROVE  EntradaInv'
  <1>1. aba' = [lugar |-> lugar, papel |-> X!NaoSabe, entrou |-> FALSE] /\ UNCHANGED <<cadastro, eu, cookie, aprovado>>
    BY DEF X!Abre
  <1>2. aba' \in FormaAba /\ aba'.papel = X!NaoSabe /\ ~aba'.entrou
    BY <1>1 DEF FormaAba
  <1>3. QED
    BY <1>1, <1>2 DEF EntradaInv, X!LandsInside, X!StaleTabIsOut

LEMMA ConfereKeeps ==
  ASSUME EntradaInv, cadastro[eu] \in Cadastro, X!Confere
  PROVE  EntradaInv'
  <1>1. UNCHANGED <<cadastro, eu, cookie, aprovado>> /\ aba.papel = X!NaoSabe /\ aba \in FormaAba
    BY DEF X!Confere, EntradaInv
  <1>2. X!SessaoVale' <=> X!SessaoVale
    BY <1>1 DEF X!SessaoVale, X!Ativo
  <1>3. CASE X!SessaoVale
    <2>1. PICK cargo : cargo = cadastro[eu].papel
      OBVIOUS
    <2>2. cargo \in X!Papeis
      BY <2>1 DEF Cadastro
    <2>3. aba' = [aba EXCEPT !.papel = cargo]
      BY <1>3, <2>1 DEF X!Confere
    <2>4. aba' \in FormaAba /\ aba'.papel = cargo /\ aba'.lugar = aba.lugar /\ aba'.entrou = aba.entrou
      BY <1>1, <2>2, <2>3 DEF FormaAba
    <2>5. QED
      BY <1>1, <1>2, <2>1, <2>4 DEF EntradaInv, X!LandsInside, X!StaleTabIsOut
  <1>4. CASE ~X!SessaoVale
    <2>1. aba' = [aba EXCEPT !.lugar = "fora"]
      BY <1>4 DEF X!Confere
    <2>2. "fora" \in X!Lugares
      BY DEF X!Lugares
    <2>3. aba' \in FormaAba
      BY <1>1, <2>1, <2>2 DEF FormaAba
    <2>4. QED
      BY <1>1, <1>2, <1>4, <2>3 DEF EntradaInv, X!LandsInside, X!StaleTabIsOut
  <1>5. QED
    BY <1>3, <1>4

LEMMA GravaPapelKeeps ==
  ASSUME EntradaInv, cadastro \in [Pessoas -> Cadastro], cadastro' \in [Pessoas -> Cadastro],
         NEW t \in troca, t.alvo \in Pessoas, t.papel \in X!Papeis, X!GravaPapel(t)
  PROVE  EntradaInv'
  <1>1. eu \in Pessoas /\ cadastro[eu] \in Cadastro /\ cadastro'[eu] \in Cadastro /\ UNCHANGED <<eu, cookie, aba>>
    BY DEF EntradaInv, X!GravaPapel
  <1>2. CASE X!LockAdminActor(t.ator) /\ t.alvo = eu
    <2>1. PICK c : c = X!ComPapel(cadastro[eu], t.papel)
      OBVIOUS
    <2>2. cadastro' = [cadastro EXCEPT ![eu] = c]
      BY <1>2, <2>1 DEF X!GravaPapel
    <2>3. c.versao = cadastro[eu].versao + 1
      BY <1>1, <2>1, ComPapelDe
    <2>4. cadastro'[eu] = c
      BY <1>1, <2>2
    <2>5. cadastro[eu].versao \in Nat
      BY <1>1 DEF Cadastro
    <2>6. QED
      BY <1>1, <2>3, <2>4, <2>5, ContaMudaKeeps
  <1>3. CASE X!LockAdminActor(t.ator) /\ t.alvo # eu
    <2>1. PICK c : c = X!ComPapel(cadastro[t.alvo], t.papel)
      OBVIOUS
    <2>2. cadastro' = [cadastro EXCEPT ![t.alvo] = c] /\ aprovado' = aprovado \ {t.alvo}
      BY <1>3, <2>1 DEF X!GravaPapel
    <2>3. cadastro'[eu] = cadastro[eu]
      BY <1>1, <1>3, <2>2
    <2>4. eu \in aprovado <=> eu \in aprovado'
      BY <1>3, <2>2
    <2>5. QED
      BY <1>1, <2>3, <2>4, ContaMudaKeeps
  <1>4. CASE ~X!LockAdminActor(t.ator)
    <2>1. UNCHANGED <<cadastro, aprovado>>
      BY <1>4 DEF X!GravaPapel
    <2>2. QED
      BY <1>1, <2>1, ContaMudaKeeps
  <1>5. QED
    BY <1>2, <1>3, <1>4

LEMMA SetActiveKeeps ==
  ASSUME EntradaInv, cadastro \in [Pessoas -> Cadastro], cadastro' \in [Pessoas -> Cadastro],
         NEW ator \in Pessoas, NEW p \in Pessoas, NEW ativa \in BOOLEAN, X!SetActive(ator, p, ativa)
  PROVE  EntradaInv'
  <1>1. eu \in Pessoas /\ cadastro[eu] \in Cadastro /\ cadastro'[eu] \in Cadastro /\ UNCHANGED <<eu, cookie, aba>>
    BY DEF EntradaInv, X!SetActive
  <1>2. PICK c : c = [cadastro[p] EXCEPT !.ativa = ativa, !.versao = cadastro[p].versao + 1]
    OBVIOUS
  <1>3. c.versao = cadastro[p].versao + 1
    BY <1>2, ComAcessoDe
  <1>4. cadastro' = [cadastro EXCEPT ![p] = c] /\ aprovado' = aprovado \ {p}
    BY <1>2 DEF X!SetActive, X!ProximaVersao
  <1>5. CASE p = eu
    <2>1. cadastro'[eu] = c /\ cadastro[eu].versao \in Nat
      BY <1>1, <1>4, <1>5 DEF Cadastro
    <2>2. QED
      BY <1>1, <1>3, <1>5, <2>1, ContaMudaKeeps
  <1>6. CASE p # eu
    <2>1. cadastro'[eu] = cadastro[eu]
      BY <1>1, <1>4, <1>6
    <2>2. eu \in aprovado <=> eu \in aprovado'
      BY <1>4, <1>6
    <2>3. QED
      BY <1>1, <2>1, <2>2, ContaMudaKeeps
  <1>7. QED
    BY <1>5, <1>6

LEMMA ApproveAffiliateKeeps ==
  ASSUME EntradaInv, cadastro \in [Pessoas -> Cadastro], cadastro' \in [Pessoas -> Cadastro],
         NEW ator \in Pessoas, NEW p \in Pessoas, X!ApproveAffiliate(ator, p)
  PROVE  EntradaInv'
  <1>1. eu \in Pessoas /\ cadastro[eu] \in Cadastro /\ cadastro'[eu] \in Cadastro /\ UNCHANGED <<eu, cookie, aba>>
    BY DEF EntradaInv, X!ApproveAffiliate
  <1>2. PICK c : c = [cadastro[p] EXCEPT !.papel = "afiliado"]
    OBVIOUS
  <1>3. cadastro[p] \in Cadastro /\ c.versao = cadastro[p].versao
    BY <1>2 DEF Cadastro
  <1>4. cadastro' = [cadastro EXCEPT ![p] = c] /\ aprovado' = aprovado \cup {p}
    BY <1>2 DEF X!ApproveAffiliate
  <1>5. CASE p = eu
    <2>1. cadastro'[eu] = c /\ eu \in aprovado'
      BY <1>1, <1>4, <1>5
    <2>2. QED
      BY <1>1, <1>3, <1>5, <2>1, ContaMudaKeeps
  <1>6. CASE p # eu
    <2>1. cadastro'[eu] = cadastro[eu]
      BY <1>1, <1>4, <1>6
    <2>2. eu \in aprovado <=> eu \in aprovado'
      BY <1>4, <1>6
    <2>3. QED
      BY <1>1, <2>1, <2>2, ContaMudaKeeps
  <1>7. QED
    BY <1>5, <1>6

LEMMA EntradaStep ==
  ASSUME ChefeInv, ChefeInv', EntradaInv, X!Next
  PROVE  EntradaInv'
  <1>1. /\ cadastro \in [Pessoas -> Cadastro] /\ cadastro' \in [Pessoas -> Cadastro]
        /\ cadastro[eu] \in Cadastro /\ troca \subseteq FormaTroca
    BY DEF ChefeInv, EntradaInv
  <1>2. CASE X!EntraPelaPagina
    BY <1>1, <1>2, EntraKeeps DEF X!EntraPelaPagina
  <1>3. CASE X!AbreEndereco
    BY <1>3, AbreEnderecoKeeps DEF X!AbreEndereco
  <1>4. CASE X!Confere
    BY <1>1, <1>4, ConfereKeeps
  <1>5. CASE X!PedeTroca
    <2>1. UNCHANGED <<cadastro, eu, cookie, aba, aprovado>>
      BY <1>5 DEF X!PedeTroca, X!UpdateUserRole
    <2>2. QED
      BY <1>1, <2>1, ContaMudaKeeps
  <1>6. CASE X!GravaTroca
    <2>1. PICK t \in troca : X!GravaPapel(t)
      BY <1>6 DEF X!GravaTroca
    <2>2. t.alvo \in Pessoas /\ t.papel \in X!Papeis
      BY <1>1 DEF FormaTroca
    <2>3. QED
      BY <1>1, <2>1, <2>2, GravaPapelKeeps
  <1>7. CASE X!MudaAcesso
    BY <1>1, <1>7, SetActiveKeeps DEF X!MudaAcesso
  <1>8. CASE X!AprovaAfiliado
    BY <1>1, <1>8, ApproveAffiliateKeeps DEF X!AprovaAfiliado
  <1>9. QED
    BY <1>2, <1>3, <1>4, <1>5, <1>6, <1>7, <1>8 DEF X!Next

LEMMA EntradaStutter ==
  ASSUME ChefeInv, EntradaInv, UNCHANGED acessoVars
  PROVE  EntradaInv'
  <1>1. cadastro[eu] \in Cadastro
    BY DEF ChefeInv, EntradaInv
  <1>2. QED
    BY <1>1, ContaMudaKeeps DEF acessoVars

LEMMA InitEntrada ==
  ASSUME X!Init, ChefeInv
  PROVE  EntradaInv
  <1>1. eu \in Pessoas /\ cadastro[eu].versao \in Nat
    BY RetaguardaAssumption DEF X!Init, ChefeInv, Cadastro
  <1>2. aba = [lugar |-> "fora", papel |-> X!NaoSabe, entrou |-> FALSE] /\ cookie = -1
    BY DEF X!Init, X!SemSessao
  <1>3. aba \in FormaAba /\ aba.lugar = "fora" /\ aba.papel = X!NaoSabe
    BY <1>2 DEF FormaAba, X!Lugares
  <1>4. QED
    BY <1>1, <1>2, <1>3 DEF EntradaInv, X!LandsInside, X!StaleTabIsOut

-----------------------------------------------------------------------------
(* The table of routes (module Rotas): what the screens ask for, and whom the API admits *)

Controladores ==
    {X!AuthController, X!AccountController, X!AdminUsersController, X!AdminListasController, X!AdminPessoasController,
      X!AdminAfiliadosController, X!AttachmentsStaffController, X!AttachmentsDownloadController, X!CrmController,
      X!NfseAdminController, X!UserAddressController, X!HealthController, X!HomeController, X!LegalController,
      X!LotteriesController, X!CommunicationsController, X!NotificationsController, X!PushController, X!NumbersController,
      X!OperationController, X!PaymentsController, X!PaymentsAdminController, X!PoolsController, X!PricingAdminController,
      X!ReportsController, X!PublicConfigController, X!ReceiptVerifyController, X!SharesController, X!StatisticsController,
      X!ConnectionsController}

LEMMA NaApi ==
  ASSUME NEW c \in Controladores
  PROVE  c \subseteq X!API
  BY DEF Controladores, X!API

LEMMA Admitidos ==
  ASSUME NEW c, NEW quem, NEW metodos, NEW m \in metodos, NEW perfil \in X!Perfis,
         X!Rotas(c, quem, metodos) \subseteq X!API, perfil.papel \in quem
  PROVE  <<c, m>> \in X!Abertas[perfil]
  <1> DEFINE r == [rota |-> <<c, m>>, quem |-> quem, principal |-> FALSE]
  <1>1. r \in X!Rotas(c, quem, metodos)
    BY DEF X!Rotas, X!De
  <1>2. r \in X!API /\ r.rota = <<c, m>> /\ X!Admite(r, perfil)
    BY <1>1 DEF X!Admite
  <1> HIDE DEF r
  <1>3. QED
    BY <1>2 DEF X!Abertas

LEMMA AdmitidoOPrincipal ==
  ASSUME NEW c, NEW metodos, NEW m \in metodos, NEW perfil \in X!Perfis,
         X!DoPrincipal(c, metodos) \subseteq X!API, perfil.papel = "admin", perfil.principal
  PROVE  <<c, m>> \in X!Abertas[perfil]
  <1> DEFINE r == [rota |-> <<c, m>>, quem |-> X!Admin, principal |-> TRUE]
  <1>1. r \in X!DoPrincipal(c, metodos)
    BY DEF X!DoPrincipal, X!De
  <1>2. r \in X!API /\ r.rota = <<c, m>> /\ X!Admite(r, perfil)
    BY <1>1 DEF X!Admite, X!Admin
  <1> HIDE DEF r
  <1>3. QED
    BY <1>2 DEF X!Abertas

\* What the site asks for is open to whoever has an account.
LEMMA SiteAberto ==
  ASSUME NEW perfil \in X!Perfis, perfil.papel \in X!Papeis
  PROVE  X!NoSite \subseteq X!Abertas[perfil]
  <1>1. \A m \in {"register", "inviteInfo", "login", "refresh", "logout"} : <<"auth", m>> \in X!Abertas[perfil]
    <2>1. X!Rotas("auth", X!Todos, {"register", "inviteInfo", "login", "refresh", "logout"}) \subseteq X!API
      BY NaApi DEF Controladores, X!AuthController
    <2>2. QED
      BY <2>1, Admitidos DEF X!Todos, X!Papeis
  <1>2. \A m \in {"me", "logoutAll", "startTwoFactor", "enableTwoFactor", "disableTwoFactor"} : <<"auth", m>> \in
    X!Abertas[perfil]
    <2>1. X!Rotas("auth", X!Papeis, {"me", "logoutAll", "startTwoFactor", "enableTwoFactor", "disableTwoFactor"})
      \subseteq X!API
      BY NaApi DEF Controladores, X!AuthController
    <2>2. QED
      BY <2>1, Admitidos DEF X!Papeis
  <1>3. \A m \in {"profile", "updateProfile", "savePhoto", "photo", "deletePhoto", "change", "exportData",
    "requestDeletion", "responsibleStatus", "pause", "setLimit"} : <<"account", m>> \in X!Abertas[perfil]
    <2>1. X!Rotas("account", X!Papeis, {"profile", "updateProfile", "savePhoto", "photo", "deletePhoto", "change",
      "exportData", "requestDeletion", "responsibleStatus", "pause", "setLimit"}) \subseteq X!API
      BY NaApi DEF Controladores, X!AccountController
    <2>2. QED
      BY <2>1, Admitidos DEF X!Papeis
  <1>4. \A m \in {"mine", "file"} : <<"files", m>> \in X!Abertas[perfil]
    <2>1. X!Rotas("files", X!Papeis, {"mine", "file"}) \subseteq X!API
      BY NaApi DEF Controladores, X!AttachmentsDownloadController
    <2>2. QED
      BY <2>1, Admitidos DEF X!Papeis
  <1>5. \A m \in {"get", "save"} : <<"address", m>> \in X!Abertas[perfil]
    <2>1. X!Rotas("address", X!Papeis, {"get", "save"}) \subseteq X!API
      BY NaApi DEF Controladores, X!UserAddressController
    <2>2. QED
      BY <2>1, Admitidos DEF X!Papeis
  <1>6. \A m \in {"mine"} : <<"legal", m>> \in X!Abertas[perfil]
    <2>1. X!Rotas("legal", X!Papeis, {"mine"}) \subseteq X!API
      BY NaApi DEF Controladores, X!LegalController
    <2>2. QED
      BY <2>1, Admitidos DEF X!Papeis
  <1>7. \A m \in {"list", "markAll", "markOne", "subscribe", "unsubscribe"} : <<"notifications", m>> \in
    X!Abertas[perfil]
    <2>1. X!Rotas("notifications", X!Papeis, {"list", "markAll", "markOne", "subscribe", "unsubscribe"}) \subseteq X!API
      BY NaApi DEF Controladores, X!NotificationsController
    <2>2. QED
      BY <2>1, Admitidos DEF X!Papeis
  <1>8. \A m \in {"status"} : <<"notifications", m>> \in X!Abertas[perfil]
    <2>1. X!Rotas("notifications", X!Todos, {"status"}) \subseteq X!API
      BY NaApi DEF Controladores, X!NotificationsController
    <2>2. QED
      BY <2>1, Admitidos DEF X!Todos, X!Papeis
  <1>9. \A m \in {"key", "status", "test", "subscribe", "unsubscribe"} : <<"push", m>> \in X!Abertas[perfil]
    <2>1. X!Rotas("push", X!Papeis, {"key", "status", "test", "subscribe", "unsubscribe"}) \subseteq X!API
      BY NaApi DEF Controladores, X!PushController
    <2>2. QED
      BY <2>1, Admitidos DEF X!Papeis
  <1>10. \A m \in {"create", "current"} : <<"payments", m>> \in X!Abertas[perfil]
    <2>1. X!Rotas("payments", X!Papeis, {"create", "current"}) \subseteq X!API
      BY NaApi DEF Controladores, X!PaymentsController
    <2>2. QED
      BY <2>1, Admitidos DEF X!Papeis
  <1>11. \A m \in {"methods", "webhook"} : <<"payments", m>> \in X!Abertas[perfil]
    <2>1. X!Rotas("payments", X!Todos, {"methods", "webhook"}) \subseteq X!API
      BY NaApi DEF Controladores, X!PaymentsController
    <2>2. QED
      BY <2>1, Admitidos DEF X!Todos, X!Papeis
  <1>12. \A m \in {"groupMembership", "joinGroup", "leaveGroup"} : <<"pools", m>> \in X!Abertas[perfil]
    <2>1. X!Rotas("pools", X!Papeis, {"groupMembership", "joinGroup", "leaveGroup"}) \subseteq X!API
      BY NaApi DEF Controladores, X!PoolsController
    <2>2. QED
      BY <2>1, Admitidos DEF X!Papeis
  <1>13. \A m \in {"mandate", "document"} : <<"config", m>> \in X!Abertas[perfil]
    <2>1. X!Rotas("config", X!Todos, {"mandate", "document"}) \subseteq X!API
      BY NaApi DEF Controladores, X!PublicConfigController
    <2>2. QED
      BY <2>1, Admitidos DEF X!Todos, X!Papeis
  <1>14. \A m \in {"reserve", "mine", "receipt", "receiptDetail", "prize"} : <<"shares", m>> \in X!Abertas[perfil]
    <2>1. X!Rotas("shares", X!Papeis, {"reserve", "mine", "receipt", "receiptDetail", "prize"}) \subseteq X!API
      BY NaApi DEF Controladores, X!SharesController
    <2>2. QED
      BY <2>1, Admitidos DEF X!Papeis
  <1>15. X!Compra \subseteq X!Abertas[perfil]
    BY <1>1, <1>2, <1>10, <1>11, <1>13, <1>14 DEF X!Compra, X!De
  <1>16. X!NoGrupo \subseteq X!Abertas[perfil]
    BY <1>12 DEF X!NoGrupo, X!De
  <1>17. X!AviseMe \subseteq X!Abertas[perfil]
    BY <1>7, <1>8 DEF X!AviseMe, X!De
  <1>18. X!Perfil \subseteq X!Abertas[perfil]
    BY <1>3 DEF X!Perfil, X!De
  <1>19. X!AvisosDoAparelho \subseteq X!Abertas[perfil]
    BY <1>9 DEF X!AvisosDoAparelho, X!De
  <1>20. X!MinhaConta \subseteq X!Abertas[perfil]
    BY <1>1, <1>2, <1>3, <1>4, <1>5, <1>6, <1>7, <1>14, <1>18, <1>19 DEF X!MinhaConta, X!De
  <1>21. X!NoSite \subseteq X!Abertas[perfil]
    BY <1>15, <1>16, <1>17, <1>20 DEF X!NoSite
  <1>22. QED
    BY <1>21

\* What the area of affiliates asks for is open to an affiliate.
LEMMA AreaAberta ==
  ASSUME NEW perfil \in X!Perfis, perfil.papel = "afiliado"
  PROVE  X!AreaDoAfiliado \subseteq X!Abertas[perfil]
  <1>1. \A m \in {"register", "inviteInfo", "login", "refresh", "logout"} : <<"auth", m>> \in X!Abertas[perfil]
    <2>1. X!Rotas("auth", X!Todos, {"register", "inviteInfo", "login", "refresh", "logout"}) \subseteq X!API
      BY NaApi DEF Controladores, X!AuthController
    <2>2. QED
      BY <2>1, Admitidos DEF X!Todos, X!Papeis
  <1>2. \A m \in {"profile", "updateProfile", "savePhoto", "photo", "deletePhoto", "change", "exportData",
    "requestDeletion", "responsibleStatus", "pause", "setLimit"} : <<"account", m>> \in X!Abertas[perfil]
    <2>1. X!Rotas("account", X!Papeis, {"profile", "updateProfile", "savePhoto", "photo", "deletePhoto", "change",
      "exportData", "requestDeletion", "responsibleStatus", "pause", "setLimit"}) \subseteq X!API
      BY NaApi DEF Controladores, X!AccountController
    <2>2. QED
      BY <2>1, Admitidos DEF X!Papeis
  <1>3. \A m \in {"createAffiliateInvite", "affiliateInvites", "createAffiliateGroup", "affiliateGroups",
    "affiliateGroupMembers", "affiliateNetwork", "affiliateWorkspace", "affiliateDashboard", "affiliateSales",
    "affiliateQuotas", "affiliateCommissions"} : <<"admin", m>> \in X!Abertas[perfil]
    <2>1. X!Rotas("admin", X!SoAfiliado, {"createAffiliateInvite", "affiliateInvites", "createAffiliateGroup",
      "affiliateGroups", "affiliateGroupMembers", "affiliateNetwork", "affiliateWorkspace", "affiliateDashboard",
      "affiliateSales", "affiliateQuotas", "affiliateCommissions"}) \subseteq X!API
      BY NaApi DEF Controladores, X!AdminAfiliadosController
    <2>2. QED
      BY <2>1, Admitidos DEF X!SoAfiliado
  <1>4. \A m \in {"affiliate", "accept"} : <<"legal", m>> \in X!Abertas[perfil]
    <2>1. X!Rotas("legal", X!SoAfiliado, {"affiliate", "accept"}) \subseteq X!API
      BY NaApi DEF Controladores, X!LegalController
    <2>2. QED
      BY <2>1, Admitidos DEF X!SoAfiliado
  <1>5. \A m \in {"list", "getById", "getResult"} : <<"lotteries", m>> \in X!Abertas[perfil]
    <2>1. X!Rotas("lotteries", X!Todos, {"list", "getById", "getResult"}) \subseteq X!API
      BY NaApi DEF Controladores, X!LotteriesController
    <2>2. QED
      BY <2>1, Admitidos DEF X!Todos, X!Papeis
  <1>6. \A m \in {"key", "status", "test", "subscribe", "unsubscribe"} : <<"push", m>> \in X!Abertas[perfil]
    <2>1. X!Rotas("push", X!Papeis, {"key", "status", "test", "subscribe", "unsubscribe"}) \subseteq X!API
      BY NaApi DEF Controladores, X!PushController
    <2>2. QED
      BY <2>1, Admitidos DEF X!Papeis
  <1>7. \A m \in {"prices", "list", "group", "available", "drawn", "history", "get"} : <<"pools", m>> \in
    X!Abertas[perfil]
    <2>1. X!Rotas("pools", X!Todos, {"prices", "list", "group", "available", "drawn", "history", "get"}) \subseteq X!API
      BY NaApi DEF Controladores, X!PoolsController
    <2>2. QED
      BY <2>1, Admitidos DEF X!Todos, X!Papeis
  <1>8. \A m \in {"quote", "generateGames"} : <<"pools", m>> \in X!Abertas[perfil]
    <2>1. X!Rotas("pools", {"admin", "afiliado"}, {"quote", "generateGames"}) \subseteq X!API
      BY NaApi DEF Controladores, X!PoolsController
    <2>2. QED
      BY <2>1, Admitidos
  <1>9. \A m \in {"createAffiliatePool", "updateAffiliatePool", "publishAffiliatePool", "closeAffiliatePool",
    "duplicateAffiliatePool", "cancelAffiliatePool"} : <<"pools", m>> \in X!Abertas[perfil]
    <2>1. X!Rotas("pools", X!SoAfiliado, {"createAffiliatePool", "updateAffiliatePool", "publishAffiliatePool",
      "closeAffiliatePool", "duplicateAffiliatePool", "cancelAffiliatePool"}) \subseteq X!API
      BY NaApi DEF Controladores, X!PoolsController
    <2>2. QED
      BY <2>1, Admitidos DEF X!SoAfiliado
  <1>10. \A m \in {"overview", "modality", "probabilities", "analyze", "suggest"} : <<"statistics", m>> \in
    X!Abertas[perfil]
    <2>1. X!Rotas("statistics", X!Todos, {"overview", "modality", "probabilities", "analyze", "suggest"}) \subseteq X!API
      BY NaApi DEF Controladores, X!StatisticsController
    <2>2. QED
      BY <2>1, Admitidos DEF X!Todos, X!Papeis
  <1>11. X!AssistenteComum \subseteq X!Abertas[perfil]
    BY <1>7, <1>8, <1>10 DEF X!AssistenteComum, X!De
  <1>12. X!AssistenteDoAfiliado \subseteq X!Abertas[perfil]
    BY <1>9, <1>11 DEF X!AssistenteDoAfiliado, X!De
  <1>13. X!ContratoDoAfiliado \subseteq X!Abertas[perfil]
    BY <1>4 DEF X!ContratoDoAfiliado, X!De
  <1>14. X!Perfil \subseteq X!Abertas[perfil]
    BY <1>2 DEF X!Perfil, X!De
  <1>15. X!AvisosDoAparelho \subseteq X!Abertas[perfil]
    BY <1>6 DEF X!AvisosDoAparelho, X!De
  <1>16. X!AreaDoAfiliado \subseteq X!Abertas[perfil]
    BY <1>1, <1>3, <1>5, <1>9, <1>12, <1>13, <1>14, <1>15 DEF X!AreaDoAfiliado, X!De
  <1>17. QED
    BY <1>16

\* What each screen of the panel asks for is open to an administrator, and to the main account only where it is kept for it.
LEMMA PainelAberto ==
  ASSUME NEW perfil \in X!Perfis, perfil.papel = "admin"
  PROVE  \A v \in X!TelasDoPainel :
           perfil.principal \/ v \notin {"conexoes", "auditoria", "configuracoes"} =>
               X!NaTela(v, perfil.principal) \subseteq X!Abertas[perfil]
  <1>1. \A m \in {"adminLink", "adminResetTwoFactor"} : <<"account", m>> \in X!Abertas[perfil]
    <2>1. X!Rotas("account", X!Admin, {"adminLink", "adminResetTwoFactor"}) \subseteq X!API
      BY NaApi DEF Controladores, X!AccountController
    <2>2. QED
      BY <2>1, Admitidos DEF X!Admin
  <1>2. \A m \in {"detail", "edit", "removeAccess", "deleteEmpty", "reactivate", "sendReset"} : <<"users", m>> \in
    X!Abertas[perfil]
    <2>1. X!Rotas("users", X!Admin, {"detail", "edit", "removeAccess", "deleteEmpty", "reactivate", "sendReset"})
      \subseteq X!API
      BY NaApi DEF Controladores, X!AdminUsersController
    <2>2. QED
      BY <2>1, Admitidos DEF X!Admin
  <1>3. \A m \in {"dashboard", "contests", "pools", "shares", "payments", "affiliates", "commissions", "remittances",
    "createRemittance", "payRemittance", "users", "createUser", "createAffiliate", "createAdminInvite",
    "revokeInvite", "invites"} : <<"admin", m>> \in X!Abertas[perfil]
    <2>1. X!Rotas("admin", X!Admin, {"dashboard", "contests", "pools", "shares", "payments", "affiliates", "commissions",
      "remittances", "createRemittance", "payRemittance", "users", "createUser", "createAffiliate",
      "createAdminInvite", "revokeInvite", "invites"}) \subseteq X!API
      BY NaApi DEF Controladores, X!AdminListasController
    <2>2. QED
      BY <2>1, Admitidos DEF X!Admin
  <1>4. \A m \in {"createAdminGroup", "groups", "adminGroupMembers", "updateGroupCapacity", "removeGroupMember",
    "updateUserRole", "updateUserKyc", "partners", "createPartner"} : <<"admin", m>> \in X!Abertas[perfil]
    <2>1. X!Rotas("admin", X!Admin, {"createAdminGroup", "groups", "adminGroupMembers", "updateGroupCapacity",
      "removeGroupMember", "updateUserRole", "updateUserKyc", "partners", "createPartner"}) \subseteq X!API
      BY NaApi DEF Controladores, X!AdminPessoasController
    <2>2. QED
      BY <2>1, Admitidos DEF X!Admin
  <1>5. \A m \in {"operation", "operationReceipt"} : <<"admin", m>> \in X!Abertas[perfil]
    <2>1. X!Rotas("admin", X!Equipe, {"operation", "operationReceipt"}) \subseteq X!API
      BY NaApi DEF Controladores, X!AdminPessoasController
    <2>2. QED
      BY <2>1, Admitidos DEF X!Equipe
  <1>6. perfil.principal => \A m \in {"audits", "deleteGroup"} : <<"admin", m>> \in X!Abertas[perfil]
    <2>1. X!DoPrincipal("admin", {"audits", "deleteGroup"}) \subseteq X!API
      BY NaApi DEF Controladores, X!AdminPessoasController
    <2>2. QED
      BY <2>1, AdmitidoOPrincipal
  <1>7. \A m \in {"approve", "updateAffiliateNetwork", "updateAffiliateCommission", "reconciliation"} : <<"admin", m>>
    \in X!Abertas[perfil]
    <2>1. X!Rotas("admin", X!Admin, {"approve", "updateAffiliateNetwork", "updateAffiliateCommission", "reconciliation"})
      \subseteq X!API
      BY NaApi DEF Controladores, X!AdminAfiliadosController
    <2>2. QED
      BY <2>1, Admitidos DEF X!Admin
  <1>8. perfil.principal => \A m \in {"settings"} : <<"admin", m>> \in X!Abertas[perfil]
    <2>1. X!DoPrincipal("admin", {"settings"}) \subseteq X!API
      BY NaApi DEF Controladores, X!AdminAfiliadosController
    <2>2. QED
      BY <2>1, AdmitidoOPrincipal
  <1>9. \A m \in {"upload", "list", "shares", "update", "resend"} : <<"attachments", m>> \in X!Abertas[perfil]
    <2>1. X!Rotas("attachments", X!Equipe, {"upload", "list", "shares", "update", "resend"}) \subseteq X!API
      BY NaApi DEF Controladores, X!AttachmentsStaffController
    <2>2. QED
      BY <2>1, Admitidos DEF X!Equipe
  <1>10. \A m \in {"remove"} : <<"attachments", m>> \in X!Abertas[perfil]
    <2>1. X!Rotas("attachments", X!Admin, {"remove"}) \subseteq X!API
      BY NaApi DEF Controladores, X!AttachmentsStaffController
    <2>2. QED
      BY <2>1, Admitidos DEF X!Admin
  <1>11. \A m \in {"mine", "file"} : <<"files", m>> \in X!Abertas[perfil]
    <2>1. X!Rotas("files", X!Papeis, {"mine", "file"}) \subseteq X!API
      BY NaApi DEF Controladores, X!AttachmentsDownloadController
    <2>2. QED
      BY <2>1, Admitidos DEF X!Papeis
  <1>12. \A m \in {"overview", "list", "detail", "note", "profile"} : <<"crm", m>> \in X!Abertas[perfil]
    <2>1. X!Rotas("crm", X!Admin, {"overview", "list", "detail", "note", "profile"}) \subseteq X!API
      BY NaApi DEF Controladores, X!CrmController
    <2>2. QED
      BY <2>1, Admitidos DEF X!Admin
  <1>13. \A m \in {"settings", "sync", "list", "emit", "manual", "refresh", "cancel"} : <<"nfse", m>> \in
    X!Abertas[perfil]
    <2>1. X!Rotas("nfse", X!Admin, {"settings", "sync", "list", "emit", "manual", "refresh", "cancel"}) \subseteq X!API
      BY NaApi DEF Controladores, X!NfseAdminController
    <2>2. QED
      BY <2>1, Admitidos DEF X!Admin
  <1>14. perfil.principal => \A m \in {"diagnostics", "registerIssuer"} : <<"nfse", m>> \in X!Abertas[perfil]
    <2>1. X!DoPrincipal("nfse", {"diagnostics", "registerIssuer"}) \subseteq X!API
      BY NaApi DEF Controladores, X!NfseAdminController
    <2>2. QED
      BY <2>1, AdmitidoOPrincipal
  <1>15. \A m \in {"adminView", "uploadImage", "save"} : <<"home", m>> \in X!Abertas[perfil]
    <2>1. X!Rotas("home", X!Admin, {"adminView", "uploadImage", "save"}) \subseteq X!API
      BY NaApi DEF Controladores, X!HomeController
    <2>2. QED
      BY <2>1, Admitidos DEF X!Admin
  <1>16. \A m \in {"sync", "diagnostics", "createManual", "situation", "festivals", "createFestival",
    "updateFestival", "deleteFestival"} : <<"lotteries", m>> \in X!Abertas[perfil]
    <2>1. X!Rotas("lotteries", X!Admin, {"sync", "diagnostics", "createManual", "situation", "festivals",
      "createFestival", "updateFestival", "deleteFestival"}) \subseteq X!API
      BY NaApi DEF Controladores, X!LotteriesController
    <2>2. QED
      BY <2>1, Admitidos DEF X!Admin
  <1>17. \A m \in {"list", "preview", "send"} : <<"communications", m>> \in X!Abertas[perfil]
    <2>1. X!Rotas("communications", X!Admin, {"list", "preview", "send"}) \subseteq X!API
      BY NaApi DEF Controladores, X!CommunicationsController
    <2>2. QED
      BY <2>1, Admitidos DEF X!Admin
  <1>18. \A m \in {"list", "rules", "generate", "add", "used", "remove"} : <<"numbers", m>> \in X!Abertas[perfil]
    <2>1. X!Rotas("numbers", X!Admin, {"list", "rules", "generate", "add", "used", "remove"}) \subseteq X!API
      BY NaApi DEF Controladores, X!NumbersController
    <2>2. QED
      BY <2>1, Admitidos DEF X!Admin
  <1>19. \A m \in {"health", "queue", "register"} : <<"operation", m>> \in X!Abertas[perfil]
    <2>1. X!Rotas("operation", X!Equipe, {"health", "queue", "register"}) \subseteq X!API
      BY NaApi DEF Controladores, X!OperationController
    <2>2. QED
      BY <2>1, Admitidos DEF X!Equipe
  <1>20. \A m \in {"manualSale", "markPaid", "cancel"} : <<"desk", m>> \in X!Abertas[perfil]
    <2>1. X!Rotas("desk", X!Admin, {"manualSale", "markPaid", "cancel"}) \subseteq X!API
      BY NaApi DEF Controladores, X!PaymentsAdminController
    <2>2. QED
      BY <2>1, Admitidos DEF X!Admin
  <1>21. perfil.principal => \A m \in {"settings", "registerWebhooks", "reconcile"} : <<"desk", m>> \in
    X!Abertas[perfil]
    <2>1. X!DoPrincipal("desk", {"settings", "registerWebhooks", "reconcile"}) \subseteq X!API
      BY NaApi DEF Controladores, X!PaymentsAdminController
    <2>2. QED
      BY <2>1, AdmitidoOPrincipal
  <1>22. \A m \in {"prices", "list", "group", "available", "drawn", "history", "get"} : <<"pools", m>> \in
    X!Abertas[perfil]
    <2>1. X!Rotas("pools", X!Todos, {"prices", "list", "group", "available", "drawn", "history", "get"}) \subseteq X!API
      BY NaApi DEF Controladores, X!PoolsController
    <2>2. QED
      BY <2>1, Admitidos DEF X!Todos, X!Papeis
  <1>23. \A m \in {"quote", "generateGames"} : <<"pools", m>> \in X!Abertas[perfil]
    <2>1. X!Rotas("pools", {"admin", "afiliado"}, {"quote", "generateGames"}) \subseteq X!API
      BY NaApi DEF Controladores, X!PoolsController
    <2>2. QED
      BY <2>1, Admitidos
  <1>24. \A m \in {"rejectApproval", "create", "update", "publish", "release", "close", "duplicate", "removeUnused",
    "cancel"} : <<"pools", m>> \in X!Abertas[perfil]
    <2>1. X!Rotas("pools", X!Admin, {"rejectApproval", "create", "update", "publish", "release", "close", "duplicate",
      "removeUnused", "cancel"}) \subseteq X!API
      BY NaApi DEF Controladores, X!PoolsController
    <2>2. QED
      BY <2>1, Admitidos DEF X!Admin
  <1>25. \A m \in {"history", "version"} : <<"pricing", m>> \in X!Abertas[perfil]
    <2>1. X!Rotas("pricing", X!Admin, {"history", "version"}) \subseteq X!API
      BY NaApi DEF Controladores, X!PricingAdminController
    <2>2. QED
      BY <2>1, Admitidos DEF X!Admin
  <1>26. \A m \in {"summary", "pools", "sales", "unpaid", "commissions", "payments", "invoices", "poolSheet"} :
    <<"reports", m>> \in X!Abertas[perfil]
    <2>1. X!Rotas("reports", X!Admin, {"summary", "pools", "sales", "unpaid", "commissions", "payments", "invoices",
      "poolSheet"}) \subseteq X!API
      BY NaApi DEF Controladores, X!ReportsController
    <2>2. QED
      BY <2>1, Admitidos DEF X!Admin
  <1>27. \A m \in {"overview", "modality", "probabilities", "analyze", "suggest"} : <<"statistics", m>> \in
    X!Abertas[perfil]
    <2>1. X!Rotas("statistics", X!Todos, {"overview", "modality", "probabilities", "analyze", "suggest"}) \subseteq X!API
      BY NaApi DEF Controladores, X!StatisticsController
    <2>2. QED
      BY <2>1, Admitidos DEF X!Todos, X!Papeis
  <1>28. \A m \in {"importHistory"} : <<"statistics", m>> \in X!Abertas[perfil]
    <2>1. X!Rotas("statistics", X!Admin, {"importHistory"}) \subseteq X!API
      BY NaApi DEF Controladores, X!StatisticsController
    <2>2. QED
      BY <2>1, Admitidos DEF X!Admin
  <1>29. perfil.principal => \A m \in {"overview", "testEmail", "testAlert"} : <<"connections", m>> \in
    X!Abertas[perfil]
    <2>1. X!DoPrincipal("connections", {"overview", "testEmail", "testAlert"}) \subseteq X!API
      BY NaApi DEF Controladores, X!ConnectionsController
    <2>2. QED
      BY <2>1, AdmitidoOPrincipal
  <1>30. X!EditorDeUsuario \subseteq X!Abertas[perfil]
    BY <1>1, <1>2, <1>4 DEF X!EditorDeUsuario, X!De
  <1>31. X!HealthPanel \subseteq X!Abertas[perfil]
    BY <1>19 DEF X!HealthPanel, X!De
  <1>32. X!DashboardView \subseteq X!Abertas[perfil]
    BY <1>16, <1>31 DEF X!DashboardView, X!De
  <1>33. X!ReportsView \subseteq X!Abertas[perfil]
    BY <1>26 DEF X!ReportsView, X!De
  <1>34. X!FinanceView \subseteq X!Abertas[perfil]
    BY <1>3, <1>13 DEF X!FinanceView, X!De
  <1>35. X!InvoicesView(perfil.principal) \subseteq X!Abertas[perfil]
    BY <1>13, <1>14 DEF X!InvoicesView, X!De
  <1>36. X!FormularioDeFesta \subseteq X!Abertas[perfil]
    BY <1>16 DEF X!FormularioDeFesta, X!De
  <1>37. X!AssistenteComum \subseteq X!Abertas[perfil]
    BY <1>22, <1>23, <1>27 DEF X!AssistenteComum, X!De
  <1>38. X!EscolheDoBanco \subseteq X!Abertas[perfil]
    BY <1>18 DEF X!EscolheDoBanco, X!De
  <1>39. X!TabelaDePrecos \subseteq X!Abertas[perfil]
    BY <1>22, <1>25 DEF X!TabelaDePrecos, X!De
  <1>40. X!AssistenteDoAdmin \subseteq X!Abertas[perfil]
    BY <1>18, <1>24, <1>37, <1>38, <1>36, <1>39 DEF X!AssistenteDoAdmin, X!De
  <1>41. X!ContestsView \subseteq X!Abertas[perfil]
    BY <1>16, <1>28, <1>36, <1>40 DEF X!ContestsView, X!De
  <1>42. X!ArquivosDoBolao \subseteq X!Abertas[perfil]
    BY <1>9, <1>10, <1>11 DEF X!ArquivosDoBolao, X!De
  <1>43. X!RegistraAposta \subseteq X!Abertas[perfil]
    BY <1>5, <1>24, <1>42 DEF X!RegistraAposta, X!De
  <1>44. X!PoolsView \subseteq X!Abertas[perfil]
    BY <1>24, <1>40, <1>43 DEF X!PoolsView, X!De
  <1>45. X!BancoDeNumeros \subseteq X!Abertas[perfil]
    BY <1>18, <1>22 DEF X!BancoDeNumeros, X!De
  <1>46. X!GamesView \subseteq X!Abertas[perfil]
    BY <1>45, <1>43 DEF X!GamesView
  <1>47. X!SharesView \subseteq X!Abertas[perfil]
    BY <1>3, <1>20, <1>43 DEF X!SharesView, X!De
  <1>48. X!CrmView \subseteq X!Abertas[perfil]
    BY <1>1, <1>12 DEF X!CrmView, X!De
  <1>49. X!ComunicadosView \subseteq X!Abertas[perfil]
    BY <1>3, <1>4, <1>17 DEF X!ComunicadosView, X!De
  <1>50. X!VitrineView \subseteq X!Abertas[perfil]
    BY <1>15 DEF X!VitrineView, X!De
  <1>51. X!PoolControlView \subseteq X!Abertas[perfil]
    BY <1>24, <1>26 DEF X!PoolControlView, X!De
  <1>52. X!PessoaNova \subseteq X!Abertas[perfil]
    BY <1>3 DEF X!PessoaNova, X!De
  <1>53. X!Convida \subseteq X!Abertas[perfil]
    BY <1>3 DEF X!Convida, X!De
  <1>54. X!AffiliatesView \subseteq X!Abertas[perfil]
    BY <1>7, <1>52, <1>53 DEF X!AffiliatesView, X!De
  <1>55. X!InvitesView \subseteq X!Abertas[perfil]
    BY <1>53 DEF X!InvitesView
  <1>56. X!GroupsView(perfil.principal) \subseteq X!Abertas[perfil]
    BY <1>4, <1>6 DEF X!GroupsView, X!De
  <1>57. X!CommissionsView \subseteq X!Abertas[perfil]
    BY <1>3 DEF X!CommissionsView, X!De
  <1>58. X!RemittancesView \subseteq X!Abertas[perfil]
    BY <1>3 DEF X!RemittancesView, X!De
  <1>59. X!ConviteDaEquipe \subseteq X!Abertas[perfil]
    BY <1>3 DEF X!ConviteDaEquipe, X!De
  <1>60. X!UsersView \subseteq X!Abertas[perfil]
    BY <1>52, <1>59, <1>30 DEF X!UsersView
  <1>61. X!OperationView \subseteq X!Abertas[perfil]
    BY <1>43 DEF X!OperationView
  <1>62. X!ReceiptsView \subseteq X!Abertas[perfil]
    BY <1>43 DEF X!ReceiptsView
  <1>63. perfil.principal => X!SettingsView \subseteq X!Abertas[perfil]
    BY <1>8, <1>21 DEF X!SettingsView, X!De
  <1>64. perfil.principal => X!ConnectionsView \subseteq X!Abertas[perfil]
    BY <1>29 DEF X!ConnectionsView, X!De
  <1>65. X!NaTela("visao-geral", perfil.principal) \subseteq X!Abertas[perfil]
    BY <1>32, <1>3, <1>22 DEF X!NaTela, X!Desenha, X!DoPainel, X!De
  <1>66. X!NaTela("relatorios", perfil.principal) \subseteq X!Abertas[perfil]
    BY <1>33 DEF X!NaTela, X!Desenha, X!DoPainel
  <1>67. X!NaTela("financeiro", perfil.principal) \subseteq X!Abertas[perfil]
    BY <1>34 DEF X!NaTela, X!Desenha, X!DoPainel
  <1>68. X!NaTela("notas-fiscais", perfil.principal) \subseteq X!Abertas[perfil]
    BY <1>35 DEF X!NaTela, X!Desenha, X!DoPainel
  <1>69. X!NaTela("concursos", perfil.principal) \subseteq X!Abertas[perfil]
    BY <1>41, <1>3, <1>22 DEF X!NaTela, X!Desenha, X!DoPainel, X!De
  <1>70. X!NaTela("boloes", perfil.principal) \subseteq X!Abertas[perfil]
    BY <1>44, <1>3, <1>22 DEF X!NaTela, X!Desenha, X!DoPainel, X!De
  <1>71. X!NaTela("jogos", perfil.principal) \subseteq X!Abertas[perfil]
    BY <1>46, <1>3 DEF X!NaTela, X!Desenha, X!DoPainel, X!De
  <1>72. X!NaTela("cotas", perfil.principal) \subseteq X!Abertas[perfil]
    BY <1>47, <1>3 DEF X!NaTela, X!Desenha, X!DoPainel, X!De
  <1>73. X!NaTela("crm", perfil.principal) \subseteq X!Abertas[perfil]
    BY <1>48, <1>30 DEF X!NaTela, X!Desenha, X!DoPainel
  <1>74. X!NaTela("comunicados", perfil.principal) \subseteq X!Abertas[perfil]
    BY <1>49 DEF X!NaTela, X!Desenha, X!DoPainel
  <1>75. X!NaTela("vitrine", perfil.principal) \subseteq X!Abertas[perfil]
    BY <1>50 DEF X!NaTela, X!Desenha, X!DoPainel
  <1>76. X!NaTela("controle", perfil.principal) \subseteq X!Abertas[perfil]
    BY <1>51 DEF X!NaTela, X!Desenha, X!DoPainel
  <1>77. X!NaTela("recebimentos", perfil.principal) \subseteq X!Abertas[perfil]
    BY <1>3 DEF X!NaTela, X!Desenha, X!DoPainel, X!De
  <1>78. X!NaTela("pagamentos", perfil.principal) \subseteq X!Abertas[perfil]
    BY <1>3 DEF X!NaTela, X!Desenha, X!DoPainel, X!De
  <1>79. X!NaTela("afiliados", perfil.principal) \subseteq X!Abertas[perfil]
    BY <1>54, <1>30, <1>3 DEF X!NaTela, X!Desenha, X!DoPainel, X!De
  <1>80. X!NaTela("convites", perfil.principal) \subseteq X!Abertas[perfil]
    BY <1>55, <1>3 DEF X!NaTela, X!Desenha, X!DoPainel, X!De
  <1>81. X!NaTela("grupos", perfil.principal) \subseteq X!Abertas[perfil]
    BY <1>56, <1>3, <1>4 DEF X!NaTela, X!Desenha, X!DoPainel, X!De
  <1>82. X!NaTela("comissoes", perfil.principal) \subseteq X!Abertas[perfil]
    BY <1>57, <1>3 DEF X!NaTela, X!Desenha, X!DoPainel, X!De
  <1>83. X!NaTela("repasses", perfil.principal) \subseteq X!Abertas[perfil]
    BY <1>58, <1>3 DEF X!NaTela, X!Desenha, X!DoPainel, X!De
  <1>84. X!NaTela("usuarios", perfil.principal) \subseteq X!Abertas[perfil]
    BY <1>60, <1>3 DEF X!NaTela, X!Desenha, X!DoPainel, X!De
  <1>85. X!NaTela("operacao", perfil.principal) \subseteq X!Abertas[perfil]
    BY <1>61, <1>5 DEF X!NaTela, X!Desenha, X!DoPainel, X!De
  <1>86. X!NaTela("comprovantes", perfil.principal) \subseteq X!Abertas[perfil]
    BY <1>62, <1>5 DEF X!NaTela, X!Desenha, X!DoPainel, X!De
  <1>87. X!NaTela("lotericas", perfil.principal) \subseteq X!Abertas[perfil]
    BY <1>4 DEF X!NaTela, X!Desenha, X!DoPainel, X!De
  <1>88. perfil.principal => X!NaTela("auditoria", perfil.principal) \subseteq X!Abertas[perfil]
    BY <1>6 DEF X!NaTela, X!Desenha, X!DoPainel, X!De
  <1>89. perfil.principal => X!NaTela("conexoes", perfil.principal) \subseteq X!Abertas[perfil]
    BY <1>64 DEF X!NaTela, X!Desenha, X!DoPainel
  <1>90. perfil.principal => X!NaTela("configuracoes", perfil.principal) \subseteq X!Abertas[perfil]
    BY <1>63 DEF X!NaTela, X!Desenha, X!DoPainel
  <1>91. QED
    BY <1>65, <1>66, <1>67, <1>68, <1>69, <1>70, <1>71, <1>72, <1>73, <1>74, <1>75, <1>76, <1>77, <1>78, <1>79, <1>80, <1>81, <1>82, <1>83, <1>84, <1>85, <1>86, <1>87, <1>88, <1>89, <1>90 DEF X!TelasDoPainel, X!Desenha

\* The only buttons of the operation team that the API refuses are the two listed.
LEMMA OperacaoAberta ==
  ASSUME NEW perfil \in X!Perfis, perfil.papel = "operacao"
  PROVE  X!NaTela("operacao", perfil.principal) \ X!Abertas[perfil] \subseteq X!BotoesRecusados
  <1>1. \A m \in {"operation", "operationReceipt"} : <<"admin", m>> \in X!Abertas[perfil]
    <2>1. X!Rotas("admin", X!Equipe, {"operation", "operationReceipt"}) \subseteq X!API
      BY NaApi DEF Controladores, X!AdminPessoasController
    <2>2. QED
      BY <2>1, Admitidos DEF X!Equipe
  <1>2. \A m \in {"upload", "list", "shares", "update", "resend"} : <<"attachments", m>> \in X!Abertas[perfil]
    <2>1. X!Rotas("attachments", X!Equipe, {"upload", "list", "shares", "update", "resend"}) \subseteq X!API
      BY NaApi DEF Controladores, X!AttachmentsStaffController
    <2>2. QED
      BY <2>1, Admitidos DEF X!Equipe
  <1>3. \A m \in {"mine", "file"} : <<"files", m>> \in X!Abertas[perfil]
    <2>1. X!Rotas("files", X!Papeis, {"mine", "file"}) \subseteq X!API
      BY NaApi DEF Controladores, X!AttachmentsDownloadController
    <2>2. QED
      BY <2>1, Admitidos DEF X!Papeis
  <1>4. QED
    BY <1>1, <1>2, <1>3
       DEF X!NaTela, X!Desenha, X!DoPainel, X!OperationView, X!RegistraAposta, X!ArquivosDoBolao, X!BotoesRecusados, X!De

-----------------------------------------------------------------------------
(* What a tab offers *)

LEMMA MenuOpens ==
  ASSUME EntradaInv, cadastro[eu] \in Cadastro
  PROVE  X!MenuLeads
  <1>1. SUFFICES ASSUME aba.lugar = "painel", aba.papel # X!NaoSabe, X!IsStaff(aba.papel)
                 PROVE  LET principal == X!IsSuperAdmin(eu, aba.papel)
                            menu == X!AdminShell(aba.papel, principal)
                        IN /\ menu # {}
                           /\ \A v \in menu \cup UNION {X!AdminHubTabs(aba.papel, principal, m) : m \in menu} :
                                v \in X!TelasDoPainel /\ X!Mostra(aba.papel, principal, v)
    BY DEF X!MenuLeads
  <1>2. PICK q \in BOOLEAN : q = X!IsSuperAdmin(eu, aba.papel)
    BY DEF X!IsSuperAdmin
  <1>3. aba.papel \in {"operacao", "admin"} /\ X!IsStaff(aba.papel)
    BY <1>1 DEF X!IsStaff, X!Equipe
  <1>4. aba.papel = "operacao" => ~q
    BY <1>2 DEF X!IsSuperAdmin
  <1>5. X!AdminShell(aba.papel, q) # {}
    <2>1. CASE aba.papel = "operacao"
      <3>1. "operacao" \in X!AdminShell(aba.papel, q)
        BY <2>1 DEF X!AdminShell, X!STAFF_VIEWS
      <3>2. QED
        BY <3>1
    <2>2. CASE aba.papel = "admin"
      <3>1. "crm" \in X!AdminShell(aba.papel, q)
        BY <2>2 DEF X!AdminShell, X!SUPERADMIN_VIEWS
      <3>2. QED
        BY <3>1
    <2>3. QED
      BY <1>3, <2>1, <2>2
  <1>6. ASSUME NEW v \in X!AdminShell(aba.papel, q)
        PROVE  v \in X!TelasDoPainel /\ X!Mostra(aba.papel, q, v)
    <2>1. v \in X!TelasDoPainel
      BY DEF X!AdminShell, X!TelasDoPainel, X!Desenha
    <2>2. X!Mostra(aba.papel, q, v)
      BY <1>3 DEF X!AdminShell, X!Mostra
    <2>3. QED
      BY <2>1, <2>2
  <1>7. ASSUME NEW m \in X!AdminShell(aba.papel, q), NEW v \in X!AdminHubTabs(aba.papel, q, m)
        PROVE  v \in X!TelasDoPainel /\ X!Mostra(aba.papel, q, v)
    <2>1. /\ v \in UNION X!AdminHubs
          /\ aba.papel = "operacao" => v \in X!STAFF_VIEWS
          /\ q \/ v \notin X!SUPERADMIN_VIEWS
      BY <1>7 DEF X!AdminHubTabs
    <2>2. v \in X!TelasDoPainel
      BY <2>1 DEF X!AdminHubs, X!TelasDoPainel, X!Desenha
    <2>3. X!Mostra(aba.papel, q, v)
      BY <1>3, <2>1 DEF X!Mostra
    <2>4. QED
      BY <2>2, <2>3
  <1>8. QED
    BY <1>2, <1>5, <1>6, <1>7

LEMMA AccessHolds ==
  ASSUME EntradaInv, cadastro[eu] \in Cadastro
  PROVE  X!AccessIsSound
  <1>1. PICK cargo \in X!Papeis : cargo = cadastro[eu].papel
    BY DEF Cadastro
  <1>2. PICK q \in BOOLEAN : q = X!IsSuperAdmin(eu, cargo)
    BY DEF X!IsSuperAdmin
  <1>3. PICK perfil : perfil = [papel |-> cargo, principal |-> q]
    OBVIOUS
  <1>4. perfil \in X!Perfis /\ perfil.papel = cargo /\ perfil.principal = q
    BY <1>3 DEF X!Perfis, X!Todos
  <1>5. X!Perfil0 = perfil
    BY <1>1, <1>2, <1>3 DEF X!Perfil0
  <1>6. X!SiteIsForAll
    BY <1>4, <1>5, SiteAberto DEF X!SiteIsForAll
  <1>7. ASSUME NEW v \in X!TelasDoPainel, X!Mostra(cargo, q, v)
        PROVE  X!NaTela(v, q) \ X!Abertas[perfil] \subseteq (IF cargo = "operacao" THEN X!BotoesRecusados ELSE {})
    <2>1. CASE cargo = "operacao"
      <3>1. v = "operacao"
        BY <1>7, <2>1 DEF X!Mostra, X!STAFF_VIEWS
      <3>2. QED
        BY <1>4, <2>1, <3>1, OperacaoAberta
    <2>2. CASE cargo = "admin"
      <3>1. q \/ v \notin {"conexoes", "auditoria", "configuracoes"}
        BY <1>7, <2>2 DEF X!Mostra, X!SUPERADMIN_VIEWS
      <3>2. X!NaTela(v, q) \subseteq X!Abertas[perfil]
        BY <1>4, <2>2, <3>1, PainelAberto
      <3>3. QED
        BY <2>2, <3>2
    <2>3. QED
      BY <1>7, <2>1, <2>2 DEF X!Mostra, X!IsStaff, X!Equipe
  <1>8. cargo = "afiliado" => X!AreaDoAfiliado \subseteq X!Abertas[perfil]
    BY <1>4, AreaAberta
  <1>9. X!OfferedIsAllowed
    BY <1>1, <1>4, <1>5, <1>7, <1>8 DEF X!OfferedIsAllowed
  <1>10. QED
    BY <1>6, <1>9, MenuOpens DEF X!AccessIsSound, EntradaInv

-----------------------------------------------------------------------------
(* The files of a pool (module Arquivos) *)

Fases == {"conferido", "salvo", "ativo", "removido", "recusado", "caiu"}
Ficha == [fase : Fases, cota : {"geral", "minha", "outra"}, visivel : BOOLEAN, conteudo : Conteudos, duvida : BOOLEAN]
DoDono(a) == Q!DoBolao(a) \/ Q!Minha(a)
Vivo(a) == arquivo[a].fase \in {"conferido", "salvo", "ativo"}

\* An upload past its checks has more than a phase.
FichaInv ==
    /\ cotaDona \in {"reservada", "paga", "cancelada", "estornada"}
    /\ arquivo \in [Arquivos -> {Q!Nenhum} \cup Ficha]
    /\ disco \subseteq Arquivos

\* The disk has what the rows say.
NoDisco(a) ==
    /\ arquivo[a].fase \in {"conferido", "salvo"} => ~arquivo[a].duvida
    /\ arquivo[a].fase = "salvo" => a \in disco
    /\ Q!Existe(a) /\ ~arquivo[a].duvida => a \in disco
    /\ a \in disco => arquivo[a].fase \in {"ativo", "removido", "salvo", "caiu"}
DiscoInv == \A a \in Arquivos : NoDisco(a)

\* Files of the same place and content, from the checks on.
GemeosInv ==
    \A a, b \in Arquivos :
        a # b /\ Vivo(a) /\ Vivo(b) /\ Q!Iguais(arquivo[a], arquivo[b]) => {a, b} \cap cruzadosArquivo # {}

\* What is announced, in the mail or received is of the pool or of the buyer, and the mail has what it is about.
DeQuemE(a) == a \in Arquivos /\ arquivo[a] # Q!Nenhum /\ DoDono(a)
CorreioInv ==
    /\ \A a \in avisos \ {"pagamento"} : DeQuemE(a)
    /\ \A a \in correio.anexos \cup recebeu : DeQuemE(a)
    /\ correio.sobre # "pagamento" => correio.anexos \subseteq {correio.sobre}
    /\ correio = Q!Vazio \/ correio.sobre = "pagamento" \/ DeQuemE(correio.sobre)

\* Whoever pays has every file on the way, or has it.
Avisado(a) == a \in recebeu \cup correio.anexos \cup avisos \/ "pagamento" \in avisos
ChegaInv == cotaDona = "paga" => \A a \in Arquivos : Q!Visivel(a) /\ a \in disco /\ DoDono(a) => Avisado(a)

FilesInv == FichaInv /\ DiscoInv /\ GemeosInv /\ CorreioInv /\ ChegaInv

LEMMA FichaNova ==
  ASSUME NEW x \in Ficha
  PROVE  x # Q!Nenhum /\ x.fase \in Fases /\ x.fase # "nenhum"
  BY DEF Ficha, Q!Nenhum, Fases

\* A file in a phase past the first has the rest.
LEMMA TemFicha ==
  ASSUME FichaInv, NEW a \in Arquivos, arquivo[a].fase # "nenhum"
  PROVE  arquivo[a] \in Ficha
  BY DEF FichaInv, Q!Nenhum

LEMMA ComFase ==
  ASSUME NEW f \in Ficha, NEW s \in Fases, NEW x, x = [f EXCEPT !.fase = s]
  PROVE  /\ x \in Ficha /\ x.fase = s
         /\ x.cota = f.cota /\ x.conteudo = f.conteudo /\ x.visivel = f.visivel /\ x.duvida = f.duvida
  <1>1. x \in Ficha
    BY DEF Ficha
  <1>2. x.fase = s /\ x.cota = f.cota /\ x.conteudo = f.conteudo /\ x.visivel = f.visivel /\ x.duvida = f.duvida
    BY DEF Ficha
  <1>3. QED
    BY <1>1, <1>2

\* A step that only changes what one file has.
LEMMA UmArquivo ==
  ASSUME FichaInv, NEW a \in Arquivos, NEW x \in Ficha, arquivo' = [arquivo EXCEPT ![a] = x]
  PROVE  /\ arquivo' \in [Arquivos -> {Q!Nenhum} \cup Ficha]
         /\ arquivo'[a] = x
         /\ \A b \in Arquivos \ {a} : arquivo'[b] = arquivo[b]
  BY DEF FichaInv

\* A file that stays in its place: no twins appear, and whose it is does not change.
LEMMA MesmoLugar ==
  ASSUME FichaInv, GemeosInv, CorreioInv, NEW a \in Arquivos, NEW x \in Ficha, arquivo' = [arquivo EXCEPT ![a] = x],
         x.cota = arquivo[a].cota, x.conteudo = arquivo[a].conteudo,
         x.fase \in {"conferido", "salvo", "ativo"} => Vivo(a), cruzadosArquivo' = cruzadosArquivo,
         UNCHANGED <<correio, recebeu>>, avisos' \subseteq avisos \cup {a}, a \in avisos' \ avisos => DoDono(a)
  PROVE  GemeosInv' /\ CorreioInv'
  <1>1. arquivo'[a] = x /\ \A b \in Arquivos \ {a} : arquivo'[b] = arquivo[b]
    BY UmArquivo
  <1>2. GemeosInv'
    BY <1>1 DEF GemeosInv, Vivo, Q!Iguais
  <1>3. \A b : DeQuemE(b) => DeQuemE(b)'
    BY <1>1, FichaNova DEF DeQuemE, DoDono, Q!DoBolao, Q!Minha
  <1>4. DoDono(a) => DeQuemE(a)'
    BY <1>1, FichaNova DEF DeQuemE, DoDono, Q!DoBolao, Q!Minha
  <1>5. QED
    BY <1>2, <1>3, <1>4 DEF CorreioInv

\* The disk has as much of the files that did not move as it had.
LEMMA OutrosNoDisco ==
  ASSUME DiscoInv, NEW b \in Arquivos, arquivo'[b] = arquivo[b], b \in disco' <=> b \in disco
  PROVE  NoDisco(b)'
  BY DEF DiscoInv, NoDisco, Q!Existe

\* The files that did not move are as well announced as they were.
LEMMA OutrosChegam ==
  ASSUME ChegaInv, cotaDona = "paga", NEW b \in Arquivos, arquivo'[b] = arquivo[b], b \in disco' => b \in disco,
         UNCHANGED <<correio, recebeu>>, avisos \subseteq avisos',
         Q!Visivel(b)', b \in disco', DoDono(b)'
  PROVE  Avisado(b)'
  BY DEF ChegaInv, Q!Visivel, Q!Ativo, DoDono, Q!DoBolao, Q!Minha, Avisado

LEMMA InitFiles ==
  ASSUME Q!Init
  PROVE  FilesInv
  BY DEF Q!Init, FilesInv, FichaInv, DiscoInv, NoDisco, GemeosInv, CorreioInv, ChegaInv, Q!Nenhum, Q!Vazio,
         Q!Existe, Vivo

LEMMA CotaFiles ==
  ASSUME FilesInv, Q!Paga \/ Q!Encerra
  PROVE  FilesInv'
  <1>1. UNCHANGED <<arquivo, disco, correio, recebeu, cruzadosArquivo>>
    BY DEF Q!Paga, Q!Encerra, Q!correioVars
  <1>2. FichaInv'
    BY <1>1 DEF FilesInv, FichaInv, Q!Paga, Q!Encerra
  <1>3. DiscoInv' /\ GemeosInv'
    BY <1>1 DEF FilesInv, DiscoInv, NoDisco, GemeosInv, Q!Existe, Vivo
  <1>4. CorreioInv'
    BY <1>1 DEF FilesInv, CorreioInv, DeQuemE, DoDono, Q!DoBolao, Q!Minha, Q!Paga, Q!Encerra
  <1>5. ChegaInv'
    <2>1. CASE Q!Paga
      BY <2>1 DEF Q!Paga, ChegaInv, Avisado
    <2>2. CASE Q!Encerra
      BY <2>2 DEF Q!Encerra, ChegaInv
    <2>3. QED
      BY <2>1, <2>2
  <1>6. QED
    BY <1>2, <1>3, <1>4, <1>5 DEF FilesInv

LEMMA ConfereFiles ==
  ASSUME FilesInv, NEW a \in Arquivos, Q!Confere(a)
  PROVE  FilesInv'
  <1>1. PICK dono \in {"geral", "minha", "outra"}, visivel \in BOOLEAN, conteudo \in Conteudos :
          LET x == [fase |-> "conferido", cota |-> dono, visivel |-> visivel, conteudo |-> conteudo, duvida |-> FALSE]
          IN  /\ Q!Gemeos(x) = {}
              /\ arquivo' = [arquivo EXCEPT ![a] = x]
              /\ cruzadosArquivo' = IF Q!ACaminho(x) = {} THEN cruzadosArquivo ELSE cruzadosArquivo \cup {a}
    BY DEF Q!Confere
  <1>2. PICK x : x = [fase |-> "conferido", cota |-> dono, visivel |-> visivel,
                      conteudo |-> conteudo, duvida |-> FALSE]
    OBVIOUS
  <1>3. x \in Ficha /\ x.fase = "conferido"
    BY <1>2 DEF Ficha, Fases
  <1>4. /\ Q!Gemeos(x) = {} /\ arquivo' = [arquivo EXCEPT ![a] = x]
        /\ cruzadosArquivo' = IF Q!ACaminho(x) = {} THEN cruzadosArquivo ELSE cruzadosArquivo \cup {a}
    BY <1>1, <1>2
  <1>5. /\ arquivo' \in [Arquivos -> {Q!Nenhum} \cup Ficha] /\ arquivo'[a] = x
        /\ \A b \in Arquivos \ {a} : arquivo'[b] = arquivo[b]
    BY <1>3, <1>4, UmArquivo DEF FilesInv
  <1>6. arquivo[a] = Q!Nenhum /\ UNCHANGED <<cotaDona, disco, avisos, correio, recebeu>>
    BY DEF Q!Confere, Q!correioVars
  <1>7. FichaInv'
    BY <1>5, <1>6 DEF FilesInv, FichaInv
  <1>8. DiscoInv'
    <2>1. NoDisco(a)'
      BY <1>2, <1>3, <1>5, <1>6 DEF FilesInv, DiscoInv, NoDisco, Q!Existe, Q!Nenhum
    <2>2. QED
      BY <2>1, <1>5, <1>6, OutrosNoDisco DEF FilesInv, DiscoInv
  <1>9. GemeosInv'
    <2>1. \A b \in Arquivos \ {a} : Vivo(b)' /\ Q!Iguais(arquivo'[b], x) => a \in cruzadosArquivo'
      <3> SUFFICES ASSUME NEW b \in Arquivos \ {a}, Vivo(b)', Q!Iguais(arquivo'[b], x) PROVE a \in cruzadosArquivo'
        OBVIOUS
      <3>1. Vivo(b) /\ Q!Iguais(arquivo[b], x)
        BY <1>5 DEF Vivo
      <3>2. b \notin Q!Gemeos(x)
        BY <1>4
      <3>3. b \in Q!ACaminho(x)
        BY <3>1, <3>2 DEF Vivo, Q!Gemeos, Q!ACaminho, Q!Ativo
      <3>4. QED
        BY <3>3, <1>4
    <2>2. \A b \in Arquivos \ {a} : Q!Iguais(x, arquivo'[b]) <=> Q!Iguais(arquivo'[b], x)
      BY DEF Q!Iguais
    <2>3. cruzadosArquivo \subseteq cruzadosArquivo'
      BY <1>4
    <2>4. QED
      BY <2>1, <2>2, <2>3, <1>5 DEF FilesInv, GemeosInv, Vivo
  <1>10. CorreioInv'
    <2>1. \A b : DeQuemE(b) => DeQuemE(b)'
      BY <1>5, <1>6 DEF DeQuemE, DoDono, Q!DoBolao, Q!Minha
    <2>2. QED
      BY <2>1, <1>6 DEF FilesInv, CorreioInv
  <1>11. ChegaInv'
    <2>1. ~Q!Visivel(a)'
      BY <1>3, <1>5 DEF Q!Visivel, Q!Ativo
    <2>2. QED
      BY <2>1, <1>5, <1>6, OutrosChegam DEF FilesInv, ChegaInv
  <1>12. QED
    BY <1>7, <1>8, <1>9, <1>10, <1>11 DEF FilesInv

LEMMA SalvaFiles ==
  ASSUME FilesInv, NEW a \in Arquivos, Q!Salva(a)
  PROVE  FilesInv'
  <1>1. arquivo[a].fase = "conferido" /\ arquivo[a] \in Ficha
    BY TemFicha DEF Q!Salva, FilesInv
  <1>2. PICK s \in {"salvo", "recusado"} :
          arquivo' = [arquivo EXCEPT ![a].fase = s] /\ disco' = IF s = "salvo" THEN disco \cup {a} ELSE disco
    BY DEF Q!Salva
  <1>3. PICK x : x = [arquivo[a] EXCEPT !.fase = s]
    OBVIOUS
  <1>4. /\ x \in Ficha /\ x.fase = s
        /\ x.cota = arquivo[a].cota /\ x.conteudo = arquivo[a].conteudo /\ x.duvida = arquivo[a].duvida
    BY <1>1, <1>3, ComFase DEF Fases
  <1>5. arquivo' = [arquivo EXCEPT ![a] = x]
    BY <1>2, <1>3
  <1>6. /\ arquivo' \in [Arquivos -> {Q!Nenhum} \cup Ficha] /\ arquivo'[a] = x
        /\ \A b \in Arquivos \ {a} : arquivo'[b] = arquivo[b]
    BY <1>4, <1>5, UmArquivo DEF FilesInv
  <1>7. UNCHANGED <<cotaDona, avisos, correio, recebeu, cruzadosArquivo>>
    BY DEF Q!Salva, Q!correioVars
  <1>8. FichaInv'
    BY <1>2, <1>6, <1>7 DEF FilesInv, FichaInv
  <1>9. GemeosInv' /\ CorreioInv'
    BY <1>1, <1>4, <1>5, <1>7, MesmoLugar DEF FilesInv, Vivo
  <1>10. DiscoInv'
    <2>1. ~arquivo[a].duvida /\ a \notin disco
      BY <1>1 DEF FilesInv, DiscoInv, NoDisco
    <2>2. NoDisco(a)'
      BY <2>1, <1>2, <1>4, <1>6 DEF NoDisco, Q!Existe
    <2>3. \A b \in Arquivos \ {a} : b \in disco' <=> b \in disco
      BY <1>2
    <2>4. QED
      BY <2>2, <2>3, <1>6, OutrosNoDisco DEF FilesInv, DiscoInv
  <1>11. ChegaInv'
    <2>1. ~Q!Visivel(a)'
      BY <1>4, <1>6 DEF Q!Visivel, Q!Ativo
    <2>2. \A b \in Arquivos \ {a} : b \in disco' <=> b \in disco
      BY <1>2
    <2>3. QED
      BY <2>1, <2>2, <1>6, <1>7, OutrosChegam DEF FilesInv, ChegaInv
  <1>12. QED
    BY <1>8, <1>9, <1>10, <1>11 DEF FilesInv

\* What an announcement adds: nothing, or the file, which is of the buyer's pool or share.
LEMMA AnunciaDe ==
  ASSUME NEW a \in Arquivos, Q!Anuncia(a)
  PROVE  /\ avisos \subseteq avisos' /\ avisos' \subseteq avisos \cup {a}
         /\ a \in avisos' \ avisos => DoDono(a)
         /\ cotaDona = "paga" /\ arquivo[a].visivel /\ DoDono(a) => a \in avisos'
  BY DEF Q!Anuncia, Q!Participa, DoDono

LEMMA InsereFiles ==
  ASSUME FilesInv, NEW a \in Arquivos, Q!Insere(a)
  PROVE  FilesInv'
  <1>1. arquivo[a].fase = "salvo" /\ arquivo[a] \in Ficha
    BY TemFicha DEF Q!Insere, FilesInv
  <1>2. PICK x : x = [arquivo[a] EXCEPT !.fase = "ativo"]
    OBVIOUS
  <1>3. /\ x \in Ficha /\ x.fase = "ativo" /\ x.cota = arquivo[a].cota /\ x.conteudo = arquivo[a].conteudo
        /\ x.visivel = arquivo[a].visivel /\ x.duvida = arquivo[a].duvida
    BY <1>1, <1>2, ComFase DEF Fases
  <1>4. arquivo' = [arquivo EXCEPT ![a] = x]
    BY <1>2 DEF Q!Insere
  <1>5. /\ arquivo' \in [Arquivos -> {Q!Nenhum} \cup Ficha] /\ arquivo'[a] = x
        /\ \A b \in Arquivos \ {a} : arquivo'[b] = arquivo[b]
    BY <1>3, <1>4, UmArquivo DEF FilesInv
  <1>6. Q!Anuncia(a) /\ UNCHANGED <<cotaDona, disco, correio, recebeu, cruzadosArquivo>>
    BY DEF Q!Insere, Q!correioVars
  <1>7. FichaInv'
    BY <1>5, <1>6 DEF FilesInv, FichaInv
  <1>8. GemeosInv' /\ CorreioInv'
    BY <1>1, <1>3, <1>4, <1>6, AnunciaDe, MesmoLugar DEF FilesInv, Vivo
  <1>9. DiscoInv'
    <2>1. NoDisco(a)'
      BY <1>1, <1>3, <1>5, <1>6 DEF FilesInv, DiscoInv, NoDisco, Q!Existe
    <2>2. QED
      BY <2>1, <1>5, <1>6, OutrosNoDisco DEF FilesInv, DiscoInv
  <1>10. ChegaInv'
    <2>1. cotaDona = "paga" /\ Q!Visivel(a)' /\ DoDono(a)' => Avisado(a)'
      BY <1>3, <1>5, <1>6, AnunciaDe DEF Q!Visivel, DoDono, Q!DoBolao, Q!Minha, Avisado
    <2>2. QED
      BY <2>1, <1>5, <1>6, AnunciaDe, OutrosChegam DEF FilesInv, ChegaInv
  <1>11. QED
    BY <1>7, <1>8, <1>9, <1>10 DEF FilesInv

LEMMA NaoInsereFiles ==
  ASSUME FilesInv, NEW a \in Arquivos, Q!NaoInsere(a)
  PROVE  FilesInv'
  <1>1. arquivo[a].fase = "salvo" /\ arquivo[a] \in Ficha
    BY TemFicha DEF Q!NaoInsere, FilesInv
  <1>2. disco' = disco \ {a} /\ UNCHANGED <<cotaDona, correio, recebeu, cruzadosArquivo>>
    BY DEF Q!NaoInsere, Q!correioVars
  <1>3. PICK x : /\ arquivo' = [arquivo EXCEPT ![a] = x] /\ x \in Ficha
                 /\ x.cota = arquivo[a].cota /\ x.conteudo = arquivo[a].conteudo
                 /\ x.fase = "recusado" \/ (x.fase = "ativo" /\ x.duvida)
    <2>1. CASE arquivo' = [arquivo EXCEPT ![a].fase = "recusado"]
      <3>1. PICK x : x = [arquivo[a] EXCEPT !.fase = "recusado"]
        OBVIOUS
      <3>2. x \in Ficha /\ x.fase = "recusado" /\ x.cota = arquivo[a].cota /\ x.conteudo = arquivo[a].conteudo
        BY <3>1, <1>1, ComFase DEF Fases
      <3>3. arquivo' = [arquivo EXCEPT ![a] = x]
        BY <2>1, <3>1
      <3>4. QED
        BY <3>2, <3>3
    <2>2. CASE arquivo' = [arquivo EXCEPT ![a].fase = "ativo", ![a].duvida = TRUE]
      <3>1. PICK y : y = [arquivo[a] EXCEPT !.fase = "ativo"]
        OBVIOUS
      <3>2. y \in Ficha /\ y.fase = "ativo" /\ y.cota = arquivo[a].cota /\ y.conteudo = arquivo[a].conteudo
        BY <3>1, <1>1, ComFase DEF Fases
      <3>3. PICK x : x = [y EXCEPT !.duvida = TRUE]
        OBVIOUS
      <3>4. x \in Ficha /\ x.fase = y.fase /\ x.cota = y.cota /\ x.conteudo = y.conteudo
        BY <3>2, <3>3 DEF Ficha
      <3>5. x.duvida
        <4>1. x.duvida = TRUE
          BY <3>2, <3>3 DEF Ficha
        <4>2. QED
          BY <4>1
      <3>6. arquivo' = [arquivo EXCEPT ![a] = x]
        BY <2>2, <3>1, <3>3 DEF FilesInv, FichaInv
      <3>7. QED
        BY <3>2, <3>4, <3>5, <3>6
    <2>3. QED
      BY <2>1, <2>2 DEF Q!NaoInsere
  <1>4. /\ avisos \subseteq avisos' /\ avisos' \subseteq avisos \cup {a}
        /\ a \in avisos' \ avisos => DoDono(a)
    BY AnunciaDe DEF Q!NaoInsere
  <1>5. /\ arquivo' \in [Arquivos -> {Q!Nenhum} \cup Ficha] /\ arquivo'[a] = x
        /\ \A b \in Arquivos \ {a} : arquivo'[b] = arquivo[b]
    BY <1>3, UmArquivo DEF FilesInv
  <1>6. FichaInv'
    BY <1>2, <1>5 DEF FilesInv, FichaInv
  <1>7. GemeosInv' /\ CorreioInv'
    BY <1>1, <1>2, <1>3, <1>4, MesmoLugar DEF FilesInv, Vivo
  <1>8. DiscoInv'
    <2>1. NoDisco(a)'
      BY <1>2, <1>3, <1>5 DEF NoDisco, Q!Existe
    <2>2. \A b \in Arquivos \ {a} : b \in disco' <=> b \in disco
      BY <1>2
    <2>3. QED
      BY <2>1, <2>2, <1>5, OutrosNoDisco DEF FilesInv, DiscoInv
  <1>9. ChegaInv'
    <2>1. a \notin disco' /\ disco' \subseteq disco
      BY <1>2
    <2>2. QED
      BY <2>1, <1>2, <1>4, <1>5, OutrosChegam DEF FilesInv, ChegaInv
  <1>10. QED
    BY <1>6, <1>7, <1>8, <1>9 DEF FilesInv

LEMMA CaiFiles ==
  ASSUME FilesInv, NEW a \in Arquivos, Q!Cai(a)
  PROVE  FilesInv'
  <1>1. arquivo[a].fase \in {"conferido", "salvo"} /\ arquivo[a] \in Ficha
    BY TemFicha DEF Q!Cai, FilesInv
  <1>2. PICK x : x = [arquivo[a] EXCEPT !.fase = "caiu"]
    OBVIOUS
  <1>3. x \in Ficha /\ x.fase = "caiu" /\ x.cota = arquivo[a].cota /\ x.conteudo = arquivo[a].conteudo
    BY <1>1, <1>2, ComFase DEF Fases
  <1>4. arquivo' = [arquivo EXCEPT ![a] = x]
    BY <1>2 DEF Q!Cai
  <1>5. /\ arquivo' \in [Arquivos -> {Q!Nenhum} \cup Ficha] /\ arquivo'[a] = x
        /\ \A b \in Arquivos \ {a} : arquivo'[b] = arquivo[b]
    BY <1>3, <1>4, UmArquivo DEF FilesInv
  <1>6. UNCHANGED <<cotaDona, disco, avisos, correio, recebeu, cruzadosArquivo>>
    BY DEF Q!Cai, Q!correioVars
  <1>7. FichaInv'
    BY <1>5, <1>6 DEF FilesInv, FichaInv
  <1>8. GemeosInv' /\ CorreioInv'
    BY <1>3, <1>4, <1>6, MesmoLugar DEF FilesInv
  <1>9. DiscoInv'
    <2>1. NoDisco(a)'
      BY <1>3, <1>5 DEF NoDisco, Q!Existe
    <2>2. QED
      BY <2>1, <1>5, <1>6, OutrosNoDisco DEF FilesInv, DiscoInv
  <1>10. ChegaInv'
    <2>1. ~Q!Visivel(a)'
      BY <1>3, <1>5 DEF Q!Visivel, Q!Ativo
    <2>2. QED
      BY <2>1, <1>5, <1>6, OutrosChegam DEF FilesInv, ChegaInv
  <1>11. QED
    BY <1>7, <1>8, <1>9, <1>10 DEF FilesInv

LEMMA AlteraFiles ==
  ASSUME FilesInv, NEW a \in Arquivos, Q!Altera(a)
  PROVE  FilesInv'
  <1>1. arquivo[a].fase = "ativo" /\ arquivo[a] \in Ficha
    BY TemFicha DEF Q!Altera, FilesInv, Q!Ativo
  <1>2. PICK x : x = [arquivo[a] EXCEPT !.visivel = ~arquivo[a].visivel]
    OBVIOUS
  <1>3. x \in Ficha
    BY <1>1, <1>2 DEF Ficha
  <1>4. /\ x.fase = "ativo" /\ x.cota = arquivo[a].cota
        /\ x.conteudo = arquivo[a].conteudo /\ x.duvida = arquivo[a].duvida
    BY <1>1, <1>2 DEF Ficha
  <1>5. x.visivel => ~arquivo[a].visivel
    BY <1>1, <1>2 DEF Ficha
  <1>6. arquivo' = [arquivo EXCEPT ![a] = x]
    BY <1>2 DEF Q!Altera, FilesInv, FichaInv
  <1>7. /\ arquivo' \in [Arquivos -> {Q!Nenhum} \cup Ficha] /\ arquivo'[a] = x
        /\ \A b \in Arquivos \ {a} : arquivo'[b] = arquivo[b]
    BY <1>3, <1>6, UmArquivo DEF FilesInv
  <1>8. UNCHANGED <<cotaDona, disco, correio, recebeu, cruzadosArquivo>>
    BY DEF Q!Altera, Q!correioVars
  <1>9. /\ avisos \subseteq avisos' /\ avisos' \subseteq avisos \cup {a}
        /\ a \in avisos' \ avisos => DoDono(a)
        /\ ~arquivo[a].visivel /\ Q!Participa(a) => a \in avisos'
    BY DEF Q!Altera, Q!Participa, DoDono
  <1>10. FichaInv'
    BY <1>7, <1>8 DEF FilesInv, FichaInv
  <1>11. GemeosInv' /\ CorreioInv'
    BY <1>1, <1>3, <1>4, <1>6, <1>8, <1>9, MesmoLugar DEF FilesInv, Vivo
  <1>12. DiscoInv'
    <2>1. NoDisco(a)'
      BY <1>1, <1>4, <1>7, <1>8 DEF FilesInv, DiscoInv, NoDisco, Q!Existe
    <2>2. QED
      BY <2>1, <1>7, <1>8, OutrosNoDisco DEF FilesInv, DiscoInv
  <1>13. ChegaInv'
    <2>1. cotaDona = "paga" /\ Q!Visivel(a)' /\ DoDono(a)' => Avisado(a)'
      BY <1>4, <1>5, <1>7, <1>8, <1>9 DEF Q!Visivel, DoDono, Q!DoBolao, Q!Minha, Avisado, Q!Participa
    <2>2. QED
      BY <2>1, <1>7, <1>8, <1>9, OutrosChegam DEF FilesInv, ChegaInv
  <1>14. QED
    BY <1>10, <1>11, <1>12, <1>13 DEF FilesInv

LEMMA RemoveFiles ==
  ASSUME FilesInv, NEW a \in Arquivos, Q!Remove(a)
  PROVE  FilesInv'
  <1>1. arquivo[a].fase = "ativo" /\ arquivo[a] \in Ficha
    BY TemFicha DEF Q!Remove, FilesInv, Q!Ativo
  <1>2. PICK x : x = [arquivo[a] EXCEPT !.fase = "removido"]
    OBVIOUS
  <1>3. /\ x \in Ficha /\ x.fase = "removido" /\ x.cota = arquivo[a].cota /\ x.conteudo = arquivo[a].conteudo
        /\ x.duvida = arquivo[a].duvida
    BY <1>1, <1>2, ComFase DEF Fases
  <1>4. arquivo' = [arquivo EXCEPT ![a] = x]
    BY <1>2 DEF Q!Remove
  <1>5. /\ arquivo' \in [Arquivos -> {Q!Nenhum} \cup Ficha] /\ arquivo'[a] = x
        /\ \A b \in Arquivos \ {a} : arquivo'[b] = arquivo[b]
    BY <1>3, <1>4, UmArquivo DEF FilesInv
  <1>6. UNCHANGED <<cotaDona, disco, avisos, correio, recebeu, cruzadosArquivo>>
    BY DEF Q!Remove, Q!Guarda, Q!correioVars
  <1>7. FichaInv'
    BY <1>5, <1>6 DEF FilesInv, FichaInv
  <1>8. GemeosInv' /\ CorreioInv'
    BY <1>3, <1>4, <1>6, MesmoLugar DEF FilesInv
  <1>9. DiscoInv'
    <2>1. NoDisco(a)'
      BY <1>1, <1>3, <1>5, <1>6 DEF FilesInv, DiscoInv, NoDisco, Q!Existe
    <2>2. QED
      BY <2>1, <1>5, <1>6, OutrosNoDisco DEF FilesInv, DiscoInv
  <1>10. ChegaInv'
    <2>1. ~Q!Visivel(a)'
      BY <1>3, <1>5 DEF Q!Visivel, Q!Ativo
    <2>2. QED
      BY <2>1, <1>5, <1>6, OutrosChegam DEF FilesInv, ChegaInv
  <1>11. QED
    BY <1>7, <1>8, <1>9, <1>10 DEF FilesInv

\* A step of the notices and of the mail: only who gets what is left to see.
LEMMA SoOCorreio ==
  ASSUME FilesInv, UNCHANGED <<cotaDona, arquivo, disco, cruzadosArquivo>>, CorreioInv', ChegaInv'
  PROVE  FilesInv'
  <1>1. FichaInv'
    BY DEF FilesInv, FichaInv
  <1>2. DiscoInv' /\ GemeosInv'
    BY DEF FilesInv, DiscoInv, NoDisco, GemeosInv, Q!Existe, Vivo
  <1>3. QED
    BY <1>1, <1>2 DEF FilesInv

LEMMA MesmosDonos ==
  ASSUME arquivo' = arquivo
  PROVE  /\ \A b : DeQuemE(b)' <=> DeQuemE(b)
         /\ \A b : Q!Visivel(b)' <=> Q!Visivel(b)
         /\ \A b : DoDono(b)' <=> DoDono(b)
  BY DEF DeQuemE, DoDono, Q!DoBolao, Q!Minha, Q!Visivel, Q!Ativo

LEMMA ReenviaFiles ==
  ASSUME FilesInv, NEW a \in Arquivos, Q!Reenvia(a)
  PROVE  FilesInv'
  <1>1. UNCHANGED <<cotaDona, arquivo, disco, correio, recebeu, cruzadosArquivo>> /\ avisos' = avisos \cup {a}
    BY DEF Q!Reenvia, Q!correioVars
  <1>2. DeQuemE(a)
    BY DEF Q!Reenvia, Q!Visivel, Q!Ativo, Q!Participa, DeQuemE, DoDono, Q!Nenhum
  <1>3. CorreioInv'
    BY <1>1, <1>2, MesmosDonos DEF FilesInv, CorreioInv
  <1>4. ChegaInv'
    BY <1>1, MesmosDonos DEF FilesInv, ChegaInv, Avisado
  <1>5. QED
    BY <1>1, <1>3, <1>4, SoOCorreio

LEMMA MontaFiles ==
  ASSUME FilesInv, "pagamento" \notin Arquivos, NEW sobre \in avisos, Q!Monta(sobre)
  PROVE  FilesInv'
  <1>1. /\ UNCHANGED <<cotaDona, arquivo, disco, recebeu, cruzadosArquivo>>
        /\ avisos' = avisos \ {sobre} /\ correio = Q!Vazio
    BY DEF Q!Monta
  <1>2. correio'.sobre = sobre /\ correio'.anexos = Q!Anexados(sobre) \cap disco
    BY DEF Q!Monta
  <1>3. \A b \in Q!Anexados(sobre) : b \in Arquivos /\ Q!Visivel(b) /\ DoDono(b)
    BY DEF Q!Anexados, Q!DaConfirmacao, DoDono, FilesInv, CorreioInv, DeQuemE
  <1>4. \A b \in Q!Anexados(sobre) : DeQuemE(b)
    BY <1>3 DEF DeQuemE, Q!Visivel, Q!Ativo, Q!Nenhum
  <1>5. CorreioInv'
    <2>1. sobre = "pagamento" \/ DeQuemE(sobre)
      BY DEF FilesInv, CorreioInv
    <2>2. sobre # "pagamento" => correio'.anexos \subseteq {sobre}
      BY <1>2 DEF Q!Anexados
    <2>3. QED
      BY <2>1, <2>2, <1>1, <1>2, <1>4, MesmosDonos DEF FilesInv, CorreioInv
  <1>6. ChegaInv'
    <2> SUFFICES ASSUME cotaDona = "paga", NEW b \in Arquivos, Q!Visivel(b), b \in disco, DoDono(b)
                 PROVE  Avisado(b)'
      BY <1>1, MesmosDonos DEF ChegaInv
    <2>1. b \in recebeu \cup correio.anexos \cup avisos \/ "pagamento" \in avisos
      BY DEF FilesInv, ChegaInv, Avisado
    <2>2. b \notin correio.anexos
      BY <1>1 DEF Q!Vazio
    <2>3. sobre = "pagamento" => b \in correio'.anexos
      BY <1>2 DEF Q!Anexados, Q!DaConfirmacao, DoDono
    <2>4. sobre = b => b \in correio'.anexos
      BY <1>2 DEF Q!Anexados
    <2>5. QED
      BY <2>1, <2>2, <2>3, <2>4, <1>1 DEF Avisado
  <1>7. QED
    BY <1>1, <1>5, <1>6, SoOCorreio

LEMMA EnviaFiles ==
  ASSUME FilesInv, Q!Envia
  PROVE  FilesInv'
  <1>1. UNCHANGED <<cotaDona, arquivo, disco, cruzadosArquivo>> /\ correio # Q!Vazio /\ correio' = Q!Vazio
    BY DEF Q!Envia
  <1>2. correio'.anexos = {}
    BY <1>1 DEF Q!Vazio
  <1>3. \/ recebeu' = recebeu \cup correio.anexos /\ avisos' = avisos
        \/ avisos' = avisos \cup {correio.sobre} /\ recebeu' = recebeu
    BY DEF Q!Envia
  <1>4. CorreioInv'
    BY <1>1, <1>2, <1>3, MesmosDonos DEF FilesInv, CorreioInv
  <1>5. ChegaInv'
    <2>1. \A b \in correio.anexos : correio.sobre \in {b, "pagamento"}
      BY DEF FilesInv, CorreioInv
    <2>2. QED
      BY <2>1, <1>1, <1>3, MesmosDonos DEF FilesInv, ChegaInv, Avisado
  <1>6. QED
    BY <1>1, <1>4, <1>5, SoOCorreio

LEMMA FilesStep ==
  ASSUME FilesInv, Q!Next
  PROVE  FilesInv'
  BY RetaguardaAssumption, CotaFiles, ConfereFiles, SalvaFiles, InsereFiles, NaoInsereFiles, CaiFiles, AlteraFiles,
     ReenviaFiles, RemoveFiles, MontaFiles, EnviaFiles
  DEF Q!Next

LEMMA FilesStutter ==
  ASSUME FilesInv, UNCHANGED arquivosVars
  PROVE  FilesInv'
  <1>1. UNCHANGED <<cotaDona, arquivo, disco, cruzadosArquivo, avisos, correio, recebeu>>
    BY DEF arquivosVars
  <1>2. CorreioInv' /\ ChegaInv'
    BY <1>1, MesmosDonos DEF FilesInv, CorreioInv, ChegaInv, Avisado
  <1>3. QED
    BY <1>1, <1>2, SoOCorreio

LEMMA FilesInvIsEnough ==
  ASSUME FilesInv
  PROVE  Q!FilesAreKept
  <1>1. Q!ProofReachesAll
    <2> SUFFICES ASSUME cotaDona = "paga", NEW a \in Arquivos, Q!Visivel(a), a \in disco, DoDono(a) PROVE Q!Levara(a)
      BY DEF Q!ProofReachesAll, DoDono
    <2>1. a \in recebeu \cup correio.anexos \cup avisos \/ "pagamento" \in avisos
      BY DEF FilesInv, ChegaInv, Avisado
    <2>2. "pagamento" \in avisos => \E sobre \in avisos : a \in Q!Anexados(sobre)
      BY DEF Q!Anexados, Q!DaConfirmacao, DoDono
    <2>3. a \in avisos => \E sobre \in avisos : a \in Q!Anexados(sobre)
      BY RetaguardaAssumption DEF Q!Anexados
    <2>4. QED
      BY <2>1, <2>2, <2>3 DEF Q!Levara
  <1>2. Q!NobodyElsesReceipt
    BY DEF Q!NobodyElsesReceipt, FilesInv, CorreioInv, DeQuemE, DoDono
  <1>3. Q!RowHasItsFile
    BY DEF Q!RowHasItsFile, FilesInv, DiscoInv, NoDisco, Q!Existe
  <1>4. Q!NoTwins
    BY DEF Q!NoTwins, FilesInv, GemeosInv, Vivo, Q!Ativo
  <1>5. QED
    BY <1>1, <1>2, <1>3, <1>4 DEF Q!FilesAreKept

-----------------------------------------------------------------------------
(* The network of affiliates (module Rede) *)

\* The affiliates above p when f gives the parent of each: Ancestrais, of any network.
Acima(f, p) ==
    {q \in Pessoas : \A S \in SUBSET Pessoas : f[p] \subseteq S /\ (\A z \in S : f[z] \subseteq S) => q \in S}
Pais == [p \in Pessoas |-> afiliado[p].pai]
SemCiclo(f) == \A p \in Pessoas : p \notin Acima(f, p)

Afiliacao == [status : {"nenhum", "pendente", "aprovado", "inativo"}, pai : D!AlguemOuNinguem]
Convidado == [status : {"nenhum", "ativo", "usado", "revogado"},
              tipo : {"usuario", "afiliado", "operacao"}, origem : D!AlguemOuNinguem]
UmOuNenhum == {{}} \cup {{v} : v \in Convites}
PedidoDaRede ==
    {D!SemPedido}
        \cup [op : {"cadastro"}, quem : Pessoas, convite : UmOuNenhum, origem : D!AlguemOuNinguem]
        \cup [op : {"revoga"}, convite : Convites]
        \cup [op : {"rede"}, alvo : Pessoas, pai : D!AlguemOuNinguem]
RedeTipo ==
    /\ papel \in [Pessoas -> {"nenhum", "apagado", "cotista", "afiliado", "operacao"}]
    /\ afiliado \in [Pessoas -> Afiliacao]
    /\ grupo \in [Pessoas -> {"nenhum", "existe", "apagado"}]
    /\ convite \in [Convites -> Convidado]
    /\ veioDe \in [Pessoas -> UmOuNenhum]
    /\ pedidoRede \in [Pedidos -> PedidoDaRede]
    /\ cruzadosRede \in BOOLEAN

\* The row follows the role, and only affiliates have a row or are parents.
Combina(p) ==
    /\ papel[p] = "afiliado" <=> afiliado[p].status = "aprovado"
    /\ afiliado[p].status = "aprovado" => grupo[p] # "nenhum"
    /\ papel[p] \in {"nenhum", "apagado"} => afiliado[p].status = "nenhum"
RedeCadastro == \A p \in Pessoas : Combina(p) /\ afiliado[p].pai \subseteq D!ComCadastro

RedeConvites ==
    \A v \in Convites :
        /\ \A p, q \in Pessoas : veioDe[p] = {v} /\ veioDe[q] = {v} => p = q
        /\ convite[v].status \in {"nenhum", "ativo"} => \A p \in Pessoas : veioDe[p] # {v}

\* A parent asked for has had an account, and only an overlap may make a request in flight close a cycle.
RedePedidos == \A r \in Pedidos : pedidoRede[r].op = "rede" => \A q \in pedidoRede[r].pai : papel[q] # "nenhum"
Segura(f, t) == t.pai # {t.alvo} /\ \A q \in t.pai : t.alvo \notin Acima(f, q)
RedeArvore ==
    ~cruzadosRede =>
        /\ SemCiclo(Pais)
        /\ \A r \in Pedidos : pedidoRede[r].op = "rede" => Segura(Pais, pedidoRede[r])
        /\ \A r, s \in Pedidos : pedidoRede[r].op = "rede" /\ pedidoRede[s].op = "rede" => r = s

RedeInv == RedeTipo /\ RedeCadastro /\ RedeConvites /\ RedePedidos /\ RedeArvore

(* Networks *)

Redes == [Pessoas -> SUBSET Pessoas]
Fechado(f, p, S) == f[p] \subseteq S /\ \A z \in S : f[z] \subseteq S

\* The affiliates above someone are closed, and are in whatever is closed.
LEMMA AcimaFecha ==
  ASSUME NEW f \in Redes, NEW p \in Pessoas
  PROVE  Acima(f, p) \in SUBSET Pessoas /\ Fechado(f, p, Acima(f, p))
  <1>1. Acima(f, p) \in SUBSET Pessoas
    BY DEF Acima
  <1>2. f[p] \subseteq Acima(f, p)
    BY DEF Acima, Redes
  <1>3. ASSUME NEW z \in Acima(f, p), NEW q \in f[z] PROVE q \in Acima(f, p)
    <2>1. q \in Pessoas
      BY <1>1 DEF Redes
    <2>2. ASSUME NEW S \in SUBSET Pessoas, f[p] \subseteq S, \A y \in S : f[y] \subseteq S PROVE q \in S
      <3>1. z \in S
        BY <2>2 DEF Acima
      <3>2. QED
        BY <3>1, <2>2
    <2>3. QED
      BY <2>1, <2>2 DEF Acima
  <1>4. QED
    BY <1>1, <1>2, <1>3 DEF Fechado

LEMMA AcimaMenor ==
  ASSUME NEW f, NEW p, NEW S \in SUBSET Pessoas, Fechado(f, p, S)
  PROVE  Acima(f, p) \subseteq S
  BY DEF Acima, Fechado

LEMMA AcimaTransitiva ==
  ASSUME NEW f \in Redes, NEW p \in Pessoas, NEW q \in Acima(f, p)
  PROVE  Acima(f, q) \subseteq Acima(f, p)
  <1>1. Acima(f, p) \in SUBSET Pessoas /\ Fechado(f, p, Acima(f, p))
    BY AcimaFecha
  <1>2. Fechado(f, q, Acima(f, p))
    BY <1>1 DEF Fechado
  <1>3. QED
    BY <1>1, <1>2, AcimaMenor

\* Who loses parents has nobody new above.
LEMMA AcimaEncolhe ==
  ASSUME NEW f \in Redes, NEW g \in Redes, \A z \in Pessoas : g[z] \subseteq f[z], NEW p \in Pessoas
  PROVE  Acima(g, p) \subseteq Acima(f, p)
  <1>1. Acima(f, p) \in SUBSET Pessoas /\ Fechado(f, p, Acima(f, p))
    BY AcimaFecha
  <1>2. Fechado(g, p, Acima(f, p))
    BY <1>1 DEF Fechado
  <1>3. QED
    BY <1>1, <1>2, AcimaMenor

\* Someone who is nobody's parent takes a place: for the others nothing changes.
LEMMA AcimaDosOutros ==
  ASSUME NEW f \in Redes, NEW g \in Redes, NEW x \in Pessoas,
         \A z \in Pessoas : x \notin f[z], \A z \in Pessoas \ {x} : g[z] = f[z], x \notin g[x]
  PROVE  /\ x \notin Acima(g, x)
         /\ \A y \in Pessoas \ {x} : Acima(g, y) \subseteq Acima(f, y)
  <1>1. x \notin Acima(g, x)
    <2>1. Fechado(g, x, Pessoas \ {x})
      BY DEF Fechado, Redes
    <2>2. QED
      BY <2>1, AcimaMenor
  <1>2. ASSUME NEW y \in Pessoas \ {x} PROVE Acima(g, y) \subseteq Acima(f, y)
    <2>1. Fechado(f, y, Pessoas \ {x})
      BY DEF Fechado, Redes
    <2>2. x \notin Acima(f, y)
      BY <2>1, AcimaMenor
    <2>3. Acima(f, y) \in SUBSET Pessoas /\ Fechado(f, y, Acima(f, y))
      BY AcimaFecha
    <2>4. Fechado(g, y, Acima(f, y))
      BY <2>2, <2>3 DEF Fechado
    <2>5. QED
      BY <2>3, <2>4, AcimaMenor
  <1>3. QED
    BY <1>1, <1>2

\* A new parent who is not below closes no cycle.
LEMMA TrocaDePai ==
  ASSUME NEW f \in Redes, SemCiclo(f), NEW p \in Pessoas, NEW P \in SUBSET Pessoas,
         p \notin P, \A q \in P : p \notin Acima(f, q),
         NEW g \in Redes, g[p] = P, \A z \in Pessoas \ {p} : g[z] = f[z]
  PROVE  SemCiclo(g)
  <1>1. PICK N : N = P \cup {z \in Pessoas : \E q \in P : z \in Acima(f, q)}
    OBVIOUS
  <1>2. N \in SUBSET Pessoas /\ p \notin N
    BY <1>1
  <1>3. \A z \in N : g[z] \subseteq N
    <2> SUFFICES ASSUME NEW z \in N PROVE f[z] \subseteq N
      BY <1>2
    <2>1. CASE z \in P
      <3>1. f[z] \subseteq Acima(f, z)
        BY <2>1, AcimaFecha DEF Fechado
      <3>2. QED
        BY <2>1, <3>1, <1>1 DEF Redes
    <2>2. CASE z \notin P
      <3>1. PICK q \in P : z \in Acima(f, q)
        BY <2>2, <1>1
      <3>2. f[z] \subseteq Acima(f, q)
        BY <3>1, AcimaFecha DEF Fechado
      <3>3. f[z] \subseteq Pessoas
        BY <1>2 DEF Redes
      <3>4. QED
        BY <3>1, <3>2, <3>3, <1>1
    <2>3. QED
      BY <2>1, <2>2
  <1>4. ASSUME NEW y \in Pessoas PROVE y \notin Acima(g, y)
    <2>1. CASE y = p
      <3>1. Fechado(g, p, N)
        BY <1>1, <1>3 DEF Fechado
      <3>2. QED
        BY <2>1, <3>1, <1>2, AcimaMenor
    <2>2. CASE y # p /\ p \notin Acima(f, y)
      <3>1. Acima(f, y) \in SUBSET Pessoas /\ Fechado(f, y, Acima(f, y))
        BY AcimaFecha
      <3>2. Fechado(g, y, Acima(f, y))
        BY <2>2, <3>1 DEF Fechado
      <3>3. QED
        BY <3>1, <3>2, AcimaMenor DEF SemCiclo
    <2>3. CASE y # p /\ p \in Acima(f, y)
      <3>1. PICK S : S = Acima(f, y) \cup N
        OBVIOUS
      <3>2. Acima(f, y) \in SUBSET Pessoas /\ Fechado(f, y, Acima(f, y))
        BY AcimaFecha
      <3>3. g[p] \subseteq N
        BY <1>1
      <3>4. \A z \in Acima(f, y) : g[z] \subseteq S
        BY <3>1, <3>2, <3>3 DEF Fechado
      <3>5. Fechado(g, y, S)
        BY <2>3, <3>1, <3>2, <3>4, <1>3 DEF Fechado
      <3>6. y \notin N
        <4>1. y \notin P
          BY <2>3
        <4>2. ASSUME NEW q \in P, y \in Acima(f, q) PROVE FALSE
          <5>1. Acima(f, y) \subseteq Acima(f, q)
            BY <4>2, AcimaTransitiva
          <5>2. QED
            BY <5>1, <2>3
        <4>3. QED
          BY <4>1, <4>2, <1>1
      <3>7. y \notin S
        BY <3>1, <3>6 DEF SemCiclo
      <3>8. QED
        BY <3>1, <3>2, <3>5, <3>7, <1>2, AcimaMenor
    <2>4. QED
      BY <2>1, <2>2, <2>3
  <1>5. QED
    BY <1>4 DEF SemCiclo

(* Parts of a state of the network *)

LEMMA Conjuntos ==
  /\ D!Ninguem \in D!AlguemOuNinguem
  /\ D!AlguemOuNinguem \subseteq SUBSET Pessoas
  /\ \A P \in D!AlguemOuNinguem : \A p : P \ {p} \in D!AlguemOuNinguem
  <1>1. ASSUME NEW P \in D!AlguemOuNinguem, NEW p PROVE P \ {p} \in D!AlguemOuNinguem
    BY DEF D!AlguemOuNinguem, D!Ninguem
  <1>2. QED
    BY <1>1 DEF D!AlguemOuNinguem, D!Ninguem

LEMMA AsFichas ==
  ASSUME RedeTipo, NEW p \in Pessoas
  PROVE  /\ afiliado[p] \in Afiliacao
         /\ afiliado[p].status \in {"nenhum", "pendente", "aprovado", "inativo"}
         /\ afiliado[p].pai \in D!AlguemOuNinguem
         /\ Pais \in Redes /\ Pais[p] = afiliado[p].pai
  <1>1. \A q \in Pessoas : afiliado[q] \in Afiliacao /\ afiliado[q].pai \in SUBSET Pessoas
    BY Conjuntos DEF RedeTipo, Afiliacao
  <1>2. QED
    BY <1>1 DEF Pais, Redes, Afiliacao

\* The walk up the network, as the code of the module writes it.
LEMMA AncestraisDe ==
  ASSUME RedeTipo, NEW p \in Pessoas
  PROVE  D!Ancestrais(p) = Acima(Pais, p)
  <1>1. \A q \in Pessoas : Pais[q] = afiliado[q].pai
    BY DEF Pais
  <1>2. ASSUME NEW S \in SUBSET Pessoas
        PROVE  D!ComOsDeCima(S) <=> \A z \in S : Pais[z] \subseteq S
    BY <1>1 DEF D!ComOsDeCima
  <1>3. QED
    BY <1>1, <1>2 DEF D!Ancestrais, Acima

LEMMA OsPedidos ==
  ASSUME RedeTipo, NEW r \in Pedidos
  PROVE  /\ pedidoRede[r] \in PedidoDaRede
         /\ pedidoRede[r].op = "cadastro" => pedidoRede[r].quem \in Pessoas /\ pedidoRede[r].convite \in UmOuNenhum
                                         /\ pedidoRede[r].origem \in D!AlguemOuNinguem
         /\ pedidoRede[r].op = "revoga" => pedidoRede[r].convite \in Convites
         /\ pedidoRede[r].op = "rede" => pedidoRede[r].alvo \in Pessoas /\ pedidoRede[r].pai \in D!AlguemOuNinguem
  BY DEF RedeTipo, PedidoDaRede, D!SemPedido

LEMMA AfiliacaoTrocada ==
  ASSUME RedeTipo, NEW p \in Pessoas, NEW x \in Afiliacao, afiliado' = [afiliado EXCEPT ![p] = x]
  PROVE  /\ afiliado' \in [Pessoas -> Afiliacao]
         /\ afiliado'[p] = x
         /\ \A q \in Pessoas \ {p} : afiliado'[q] = afiliado[q]
  BY DEF RedeTipo

LEMMA ComStatus ==
  ASSUME NEW f \in Afiliacao, NEW s \in {"nenhum", "pendente", "aprovado", "inativo"}, NEW x, x = [f EXCEPT !.status = s]
  PROVE  x \in Afiliacao /\ x.status = s /\ x.pai = f.pai
  <1>1. x \in Afiliacao
    BY DEF Afiliacao
  <1>2. x.status = s /\ x.pai = f.pai
    BY DEF Afiliacao
  <1>3. QED
    BY <1>1, <1>2

LEMMA ComPai ==
  ASSUME NEW f \in Afiliacao, NEW P \in D!AlguemOuNinguem, NEW x, x = [f EXCEPT !.pai = P]
  PROVE  x \in Afiliacao /\ x.status = f.status /\ x.pai = P
  <1>1. x \in Afiliacao
    BY DEF Afiliacao
  <1>2. x.status = f.status /\ x.pai = P
    BY DEF Afiliacao
  <1>3. QED
    BY <1>1, <1>2

LEMMA AfiliacaoNova ==
  ASSUME NEW s \in {"nenhum", "pendente", "aprovado", "inativo"}, NEW P \in D!AlguemOuNinguem
  PROVE  [status |-> s, pai |-> P] \in Afiliacao
  BY DEF Afiliacao

\* A request that ends, and one that begins.
LEMMA PedidoAcaba ==
  ASSUME RedeTipo, NEW r \in Pedidos, pedidoRede' = [pedidoRede EXCEPT ![r] = D!SemPedido]
  PROVE  /\ pedidoRede' \in [Pedidos -> PedidoDaRede]
         /\ \A s \in Pedidos : pedidoRede'[s].op = "rede" => s # r /\ pedidoRede[s].op = "rede" /\ pedidoRede'[s] = pedidoRede[s]
  BY DEF RedeTipo, PedidoDaRede, D!SemPedido

LEMMA PedidoComeca ==
  ASSUME RedeTipo, NEW r \in Pedidos, NEW t \in PedidoDaRede, pedidoRede' = [pedidoRede EXCEPT ![r] = t]
  PROVE  /\ pedidoRede' \in [Pedidos -> PedidoDaRede]
         /\ pedidoRede'[r] = t
         /\ \A s \in Pedidos \ {r} : pedidoRede'[s] = pedidoRede[s]
  BY DEF RedeTipo

\* The invites stay as they were, or are used by someone new.
LEMMA MesmosConvites ==
  ASSUME RedeConvites, UNCHANGED <<convite, veioDe>>
  PROVE  RedeConvites'
  BY DEF RedeConvites

\* The network does not gain parents, and no request of it begins.
LEMMA ArvoreEncolhe ==
  ASSUME RedeTipo, RedeTipo', RedeArvore, cruzadosRede' = cruzadosRede,
         \A q \in Pessoas : afiliado'[q].pai \subseteq afiliado[q].pai,
         \A s \in Pedidos : pedidoRede'[s].op = "rede" => pedidoRede[s].op = "rede" /\ pedidoRede'[s] = pedidoRede[s]
  PROVE  RedeArvore'
  <1> SUFFICES ASSUME ~cruzadosRede PROVE RedeArvore'
    BY DEF RedeArvore
  <1>1. /\ SemCiclo(Pais)
        /\ \A r \in Pedidos : pedidoRede[r].op = "rede" => Segura(Pais, pedidoRede[r])
        /\ \A r, s \in Pedidos : pedidoRede[r].op = "rede" /\ pedidoRede[s].op = "rede" => r = s
    BY DEF RedeArvore
  <1>2. PICK g : g = Pais'
    OBVIOUS
  <1>3. g \in Redes /\ Pais \in Redes /\ \A z \in Pessoas : g[z] \subseteq Pais[z]
    <2>1. \A q \in Pessoas : afiliado'[q].pai \in SUBSET Pessoas /\ afiliado[q].pai \in SUBSET Pessoas
      BY Conjuntos DEF RedeTipo, Afiliacao
    <2>2. QED
      BY <1>2, <2>1 DEF Pais, Redes
  <1>4. \A p \in Pessoas : Acima(g, p) \subseteq Acima(Pais, p)
    BY <1>3, AcimaEncolhe
  <1>5. SemCiclo(g)
    BY <1>1, <1>4 DEF SemCiclo
  <1>6. \A r \in Pedidos : pedidoRede[r].op = "rede" => Segura(g, pedidoRede[r])
    <2> SUFFICES ASSUME NEW r \in Pedidos, pedidoRede[r].op = "rede" PROVE Segura(g, pedidoRede[r])
      OBVIOUS
    <2>1. pedidoRede[r].pai \subseteq Pessoas
      BY OsPedidos, Conjuntos
    <2>2. QED
      BY <2>1, <1>1, <1>4 DEF Segura
  <1>7. \A r \in Pedidos : pedidoRede'[r].op = "rede" => Segura(g, pedidoRede'[r])
    BY <1>6
  <1>8. \A r, s \in Pedidos : pedidoRede'[r].op = "rede" /\ pedidoRede'[s].op = "rede" => r = s
    BY <1>1
  <1>9. QED
    BY <1>2, <1>5, <1>7, <1>8 DEF RedeArvore

\* Someone without a row, who is nobody's parent, gets one with a parent who has one.
LEMMA ArvoreCresce ==
  ASSUME RedeInv, RedeTipo', cruzadosRede' = cruzadosRede, NEW x \in Pessoas, papel[x] = "nenhum",
         afiliado'[x].pai \subseteq D!ComCadastro, \A q \in Pessoas \ {x} : afiliado'[q] = afiliado[q],
         \A s \in Pedidos : pedidoRede'[s].op = "rede" => pedidoRede[s].op = "rede" /\ pedidoRede'[s] = pedidoRede[s]
  PROVE  RedeArvore'
  <1> SUFFICES ASSUME ~cruzadosRede PROVE RedeArvore'
    BY DEF RedeArvore
  <1>1. /\ SemCiclo(Pais)
        /\ \A r \in Pedidos : pedidoRede[r].op = "rede" => Segura(Pais, pedidoRede[r])
        /\ \A r, s \in Pedidos : pedidoRede[r].op = "rede" /\ pedidoRede[s].op = "rede" => r = s
    BY DEF RedeArvore, RedeInv
  <1>2. PICK g : g = Pais'
    OBVIOUS
  <1>3. x \notin D!ComCadastro
    BY DEF RedeInv, RedeCadastro, Combina, D!ComCadastro
  <1>4. /\ g \in Redes /\ Pais \in Redes /\ x \notin g[x]
        /\ \A z \in Pessoas \ {x} : g[z] = Pais[z]
        /\ \A z \in Pessoas : x \notin Pais[z]
    <2>1. \A q \in Pessoas : afiliado'[q].pai \in SUBSET Pessoas /\ afiliado[q].pai \in SUBSET Pessoas
      BY Conjuntos DEF RedeTipo, Afiliacao, RedeInv
    <2>2. \A q \in Pessoas : x \notin afiliado[q].pai
      BY <1>3 DEF RedeInv, RedeCadastro
    <2>3. QED
      BY <1>2, <1>3, <2>1, <2>2 DEF Pais, Redes
  <1>5. x \notin Acima(g, x) /\ \A y \in Pessoas \ {x} : Acima(g, y) \subseteq Acima(Pais, y)
    BY <1>4, AcimaDosOutros
  <1>6. SemCiclo(g)
    BY <1>1, <1>5 DEF SemCiclo
  <1>7. ASSUME NEW r \in Pedidos, pedidoRede[r].op = "rede" PROVE Segura(g, pedidoRede[r])
    <2>1. pedidoRede[r].pai \subseteq Pessoas
      BY <1>7, OsPedidos, Conjuntos DEF RedeInv
    <2>2. x \notin pedidoRede[r].pai
      BY <1>7 DEF RedeInv, RedePedidos
    <2>3. QED
      BY <1>7, <2>1, <2>2, <1>1, <1>5 DEF Segura
  <1>8. \A r \in Pedidos : pedidoRede'[r].op = "rede" => Segura(g, pedidoRede'[r])
    BY <1>7
  <1>9. \A r, s \in Pedidos : pedidoRede'[r].op = "rede" /\ pedidoRede'[s].op = "rede" => r = s
    BY <1>1
  <1>10. QED
    BY <1>2, <1>6, <1>8, <1>9 DEF RedeArvore

(* Steps *)

LEMMA InitRede ==
  ASSUME D!Init
  PROVE  RedeInv
  <1>1. \A p \in Pessoas : papel[p] = "nenhum" /\ afiliado[p].status = "nenhum" /\ afiliado[p].pai = {}
    BY DEF D!Init, D!SemAfiliado, D!Ninguem
  <1>2. D!SemAfiliado \in Afiliacao
    BY Conjuntos, AfiliacaoNova DEF D!SemAfiliado
  <1>3. D!SemConvite \in Convidado
    BY Conjuntos DEF D!SemConvite, Convidado
  <1>4. D!SemPedido \in PedidoDaRede /\ {} \in UmOuNenhum
    BY DEF PedidoDaRede, UmOuNenhum
  <1>5. RedeTipo
    BY <1>2, <1>3, <1>4 DEF D!Init, RedeTipo
  <1>6. RedeCadastro /\ RedeConvites
    BY <1>1 DEF D!Init, RedeCadastro, Combina, RedeConvites
  <1>7. \A r \in Pedidos : pedidoRede[r].op # "rede"
    BY DEF D!Init, D!SemPedido
  <1>8. SemCiclo(Pais)
    <2>1. Pais \in Redes
      BY <1>1 DEF Pais, Redes
    <2>2. ASSUME NEW p \in Pessoas PROVE p \notin Acima(Pais, p)
      <3>1. Fechado(Pais, p, {})
        BY <1>1 DEF Fechado, Pais
      <3>2. QED
        BY <3>1, AcimaMenor
    <2>3. QED
      BY <2>2 DEF SemCiclo
  <1>9. QED
    BY <1>5, <1>6, <1>7, <1>8 DEF RedeInv, RedePedidos, RedeArvore

\* A step that leaves accounts, affiliates and what they were invited with alone, and begins no request of the network.
LEMMA SoConvitesEPedidos ==
  ASSUME RedeInv, UNCHANGED <<papel, afiliado, grupo, veioDe, cruzadosRede>>,
         convite' \in [Convites -> Convidado], pedidoRede' \in [Pedidos -> PedidoDaRede],
         \A v \in Convites : convite'[v].status \in {"nenhum", "ativo"} => convite[v].status \in {"nenhum", "ativo"},
         \A s \in Pedidos : pedidoRede'[s].op = "rede" => pedidoRede[s].op = "rede" /\ pedidoRede'[s] = pedidoRede[s]
  PROVE  RedeInv'
  <1>1. RedeTipo'
    BY DEF RedeInv, RedeTipo
  <1>2. RedeCadastro'
    BY DEF RedeInv, RedeCadastro, Combina, D!ComCadastro
  <1>3. RedeConvites'
    BY DEF RedeInv, RedeConvites
  <1>4. RedePedidos'
    BY DEF RedeInv, RedePedidos
  <1>5. RedeArvore'
    BY <1>1, ArvoreEncolhe DEF RedeInv
  <1>6. QED
    BY <1>1, <1>2, <1>3, <1>4, <1>5 DEF RedeInv

LEMMA CreateInviteRede ==
  ASSUME RedeInv, NEW v \in Convites, NEW tipo \in {"usuario", "afiliado", "operacao"}, NEW origem \in D!AlguemOuNinguem,
         D!CreateInvite(v, tipo, origem)
  PROVE  RedeInv'
  <1>1. PICK x : x = [status |-> "ativo", tipo |-> tipo, origem |-> origem]
    OBVIOUS
  <1>2. x \in Convidado /\ x.status = "ativo"
    BY <1>1 DEF Convidado
  <1>3. convite' = [convite EXCEPT ![v] = x] /\ convite[v].status = "nenhum"
    BY <1>1 DEF D!CreateInvite
  <1>4. convite' \in [Convites -> Convidado]
    BY <1>2, <1>3 DEF RedeInv, RedeTipo
  <1>5. \A w \in Convites : convite'[w].status \in {"nenhum", "ativo"} => convite[w].status \in {"nenhum", "ativo"}
    BY <1>3 DEF RedeInv, RedeTipo
  <1>6. UNCHANGED <<papel, afiliado, grupo, veioDe, pedidoRede, cruzadosRede>>
    BY DEF D!CreateInvite
  <1>7. pedidoRede' \in [Pedidos -> PedidoDaRede]
    BY <1>6 DEF RedeInv, RedeTipo
  <1>8. QED
    BY <1>4, <1>5, <1>6, <1>7, SoConvitesEPedidos

LEMMA RevokeInviteRede ==
  ASSUME RedeInv, NEW r \in Pedidos, D!RevokeInviteGrava(r) \/ \E v \in Convites : D!RevokeInviteLe(r, v)
  PROVE  RedeInv'
  <1>1. CASE D!RevokeInviteGrava(r)
    <2>1. PICK v : v = pedidoRede[r].convite
      OBVIOUS
    <2>2. v \in Convites
      BY <1>1, <2>1, OsPedidos DEF D!RevokeInviteGrava, RedeInv
    <2>3. PICK x : x = [convite[v] EXCEPT !.status = "revogado"]
      OBVIOUS
    <2>4. convite[v] \in Convidado
      BY <2>2 DEF RedeInv, RedeTipo
    <2>5. x \in Convidado
      BY <2>3, <2>4 DEF Convidado
    <2>6. x.status = "revogado"
      BY <2>3, <2>4 DEF Convidado
    <2>7. convite' = [convite EXCEPT ![v] = x]
      BY <1>1, <2>1, <2>3 DEF D!RevokeInviteGrava
    <2>8. convite' \in [Convites -> Convidado]
      BY <2>2, <2>5, <2>7 DEF RedeInv, RedeTipo
    <2>9. \A w \in Convites : convite'[w].status \in {"nenhum", "ativo"} => convite[w].status \in {"nenhum", "ativo"}
      BY <2>2, <2>6, <2>7 DEF RedeInv, RedeTipo
    <2>10. UNCHANGED <<papel, afiliado, grupo, veioDe, cruzadosRede>> /\ pedidoRede' = [pedidoRede EXCEPT ![r] = D!SemPedido]
      BY <1>1 DEF D!RevokeInviteGrava
    <2>11. /\ pedidoRede' \in [Pedidos -> PedidoDaRede]
           /\ \A s \in Pedidos : pedidoRede'[s].op = "rede" => pedidoRede[s].op = "rede" /\ pedidoRede'[s] = pedidoRede[s]
      BY <2>10, PedidoAcaba DEF RedeInv
    <2>12. QED
      BY <2>8, <2>9, <2>10, <2>11, SoConvitesEPedidos
  <1>2. CASE \E v \in Convites : D!RevokeInviteLe(r, v)
    <2>1. PICK v \in Convites : D!RevokeInviteLe(r, v)
      BY <1>2
    <2>2. PICK t : t = [op |-> "revoga", convite |-> v]
      OBVIOUS
    <2>3. t \in PedidoDaRede /\ t.op = "revoga"
      BY <2>2 DEF PedidoDaRede
    <2>4. pedidoRede' = [pedidoRede EXCEPT ![r] = t] /\ UNCHANGED <<papel, afiliado, grupo, convite, veioDe, cruzadosRede>>
      BY <2>1, <2>2 DEF D!RevokeInviteLe
    <2>5. /\ pedidoRede' \in [Pedidos -> PedidoDaRede]
          /\ \A s \in Pedidos : pedidoRede'[s].op = "rede" => pedidoRede[s].op = "rede" /\ pedidoRede'[s] = pedidoRede[s]
      BY <2>3, <2>4, PedidoComeca DEF RedeInv
    <2>6. convite' \in [Convites -> Convidado]
      BY <2>4 DEF RedeInv, RedeTipo
    <2>7. QED
      BY <2>4, <2>5, <2>6, SoConvitesEPedidos
  <1>3. QED
    BY <1>1, <1>2

LEMMA RegisterLeRede ==
  ASSUME RedeInv, NEW r \in Pedidos, NEW p \in Pessoas, D!RegisterLe(r, p)
  PROVE  RedeInv'
  <1>1. PICK t : t \in PedidoDaRede /\ t.op = "cadastro" /\ pedidoRede' = [pedidoRede EXCEPT ![r] = t]
    <2>1. CASE \E v \in Convites : pedidoRede' = [pedidoRede EXCEPT ![r] = [op |-> "cadastro", quem |-> p, convite |-> {v},
                                                                   origem |-> convite[v].origem]]
      <3>1. PICK v \in Convites : pedidoRede' = [pedidoRede EXCEPT ![r] = [op |-> "cadastro", quem |-> p, convite |-> {v},
                                                                   origem |-> convite[v].origem]]
        BY <2>1
      <3>2. PICK t : t = [op |-> "cadastro", quem |-> p, convite |-> {v}, origem |-> convite[v].origem]
        OBVIOUS
      <3>3. convite[v].origem \in D!AlguemOuNinguem /\ {v} \in UmOuNenhum
        BY DEF RedeInv, RedeTipo, Convidado, UmOuNenhum
      <3>4. t \in PedidoDaRede /\ t.op = "cadastro"
        BY <3>2, <3>3 DEF PedidoDaRede
      <3>5. QED
        BY <3>1, <3>2, <3>4
    <2>2. CASE \E P \in {D!Ninguem} \cup {{q} : q \in D!Aprovados} :
                 pedidoRede' = [pedidoRede EXCEPT ![r] = [op |-> "cadastro", quem |-> p, convite |-> {}, origem |-> P]]
      <3>1. PICK P \in {D!Ninguem} \cup {{q} : q \in D!Aprovados} :
                 pedidoRede' = [pedidoRede EXCEPT ![r] = [op |-> "cadastro", quem |-> p, convite |-> {}, origem |-> P]]
        BY <2>2
      <3>2. PICK t : t = [op |-> "cadastro", quem |-> p, convite |-> {}, origem |-> P]
        OBVIOUS
      <3>3. P \in D!AlguemOuNinguem /\ {} \in UmOuNenhum
        BY DEF D!AlguemOuNinguem, UmOuNenhum, D!Aprovados
      <3>4. t \in PedidoDaRede /\ t.op = "cadastro"
        BY <3>2, <3>3 DEF PedidoDaRede
      <3>5. QED
        BY <3>1, <3>2, <3>4
    <2>3. QED
      BY <2>1, <2>2 DEF D!RegisterLe
  <1>2. UNCHANGED <<papel, afiliado, grupo, convite, veioDe, cruzadosRede>>
    BY DEF D!RegisterLe
  <1>3. /\ pedidoRede' \in [Pedidos -> PedidoDaRede]
        /\ \A s \in Pedidos : pedidoRede'[s].op = "rede" => pedidoRede[s].op = "rede" /\ pedidoRede'[s] = pedidoRede[s]
    BY <1>1, PedidoComeca DEF RedeInv
  <1>4. convite' \in [Convites -> Convidado]
    BY <1>2 DEF RedeInv, RedeTipo
  <1>5. QED
    BY <1>2, <1>3, <1>4, SoConvitesEPedidos

\* An account is born: with a role, and as an affiliate with a row, a group and maybe a parent.
LEMMA ContaNasce ==
  ASSUME RedeInv, NEW p \in Pessoas, papel[p] = "nenhum", NEW novo \in D!Papeis, NEW pai \in D!AlguemOuNinguem,
         pai \subseteq D!ComCadastro, papel' = [papel EXCEPT ![p] = novo],
         \/ /\ novo = "afiliado" /\ grupo' = D!ComGrupo(p)
            /\ afiliado' = [afiliado EXCEPT ![p] = [status |-> "aprovado", pai |-> pai]]
         \/ novo # "afiliado" /\ grupo' = grupo /\ afiliado' = afiliado,
         convite' \in [Convites -> Convidado], veioDe' \in [Pessoas -> UmOuNenhum], RedeConvites',
         pedidoRede' \in [Pedidos -> PedidoDaRede], cruzadosRede' = cruzadosRede,
         \A s \in Pedidos : pedidoRede'[s].op = "rede" => pedidoRede[s].op = "rede" /\ pedidoRede'[s] = pedidoRede[s]
  PROVE  RedeInv'
  <1>1. afiliado[p].status = "nenhum"
    BY DEF RedeInv, RedeCadastro, Combina
  <1>2. papel' \in [Pessoas -> {"nenhum", "apagado", "cotista", "afiliado", "operacao"}] /\ papel'[p] = novo
        /\ \A q \in Pessoas \ {p} : papel'[q] = papel[q]
    BY DEF RedeInv, RedeTipo, D!Papeis
  <1>3. /\ afiliado' \in [Pessoas -> Afiliacao] /\ grupo' \in [Pessoas -> {"nenhum", "existe", "apagado"}]
        /\ \A q \in Pessoas \ {p} : afiliado'[q] = afiliado[q] /\ grupo'[q] = grupo[q]
        /\ novo = "afiliado" => afiliado'[p].status = "aprovado" /\ afiliado'[p].pai = pai /\ grupo'[p] = "existe"
        /\ novo # "afiliado" => afiliado'[p] = afiliado[p]
    <2>1. CASE novo = "afiliado"
      <3>1. PICK x : x = [status |-> "aprovado", pai |-> pai]
        OBVIOUS
      <3>2. x \in Afiliacao /\ x.status = "aprovado" /\ x.pai = pai
        BY <3>1, AfiliacaoNova
      <3>3. afiliado' = [afiliado EXCEPT ![p] = x]
        BY <2>1, <3>1
      <3>4. QED
        BY <2>1, <3>2, <3>3, AfiliacaoTrocada DEF D!ComGrupo, RedeInv, RedeTipo
    <2>2. CASE novo # "afiliado"
      BY <2>2 DEF RedeInv, RedeTipo
    <2>3. QED
      BY <2>1, <2>2
  <1>4. RedeTipo'
    BY <1>2, <1>3 DEF RedeInv, RedeTipo
  <1>5. D!ComCadastro \subseteq D!ComCadastro' /\ afiliado'[p].pai \subseteq D!ComCadastro
    BY <1>1, <1>3 DEF D!ComCadastro, RedeInv, RedeCadastro
  <1>6. RedeCadastro'
    <2>1. Combina(p)'
      BY <1>1, <1>2, <1>3 DEF Combina, D!Papeis
    <2>2. \A q \in Pessoas \ {p} : Combina(q)'
      BY <1>2, <1>3 DEF Combina, RedeInv, RedeCadastro
    <2>3. \A q \in Pessoas : afiliado'[q].pai \subseteq D!ComCadastro'
      BY <1>3, <1>5 DEF RedeInv, RedeCadastro
    <2>4. QED
      BY <2>1, <2>2, <2>3 DEF RedeCadastro
  <1>7. RedePedidos'
    BY <1>2 DEF RedeInv, RedePedidos, D!Papeis
  <1>8. RedeArvore'
    BY <1>3, <1>4, <1>5, ArvoreCresce
  <1>9. QED
    BY <1>4, <1>6, <1>7, <1>8 DEF RedeInv

LEMMA UmSo ==
  ASSUME NEW v
  PROVE  (CHOOSE w \in {v} : TRUE) = v
  OBVIOUS

LEMMA RegisterGravaRede ==
  ASSUME RedeInv, NEW r \in Pedidos, D!RegisterGrava(r)
  PROVE  RedeInv'
  <1>1. pedidoRede[r].quem \in Pessoas /\ pedidoRede[r].convite \in UmOuNenhum /\ pedidoRede[r].origem \in D!AlguemOuNinguem
    BY OsPedidos DEF D!RegisterGrava, RedeInv
  <1>2. PICK p, tipo : /\ p = pedidoRede[r].quem
                       /\ tipo = IF pedidoRede[r].convite = {} THEN "usuario"
                                 ELSE convite[CHOOSE v \in pedidoRede[r].convite : TRUE].tipo
    OBVIOUS
  <1>3. tipo \in {"usuario", "afiliado", "operacao"}
    <2>1. CASE pedidoRede[r].convite = {}
      BY <2>1, <1>2
    <2>2. CASE pedidoRede[r].convite # {}
      <3>1. PICK v \in Convites : pedidoRede[r].convite = {v}
        BY <2>2, <1>1 DEF UmOuNenhum
      <3>2. tipo = convite[v].tipo
        BY <3>1, <2>2, <1>2, UmSo
      <3>3. QED
        BY <3>1, <3>2 DEF RedeInv, RedeTipo, Convidado
    <2>3. QED
      BY <2>1, <2>2
  <1>4. pedidoRede' = [pedidoRede EXCEPT ![r] = D!SemPedido] /\ cruzadosRede' = cruzadosRede
    BY DEF D!RegisterGrava
  <1>5. /\ pedidoRede' \in [Pedidos -> PedidoDaRede]
        /\ \A s \in Pedidos : pedidoRede'[s].op = "rede" => pedidoRede[s].op = "rede" /\ pedidoRede'[s] = pedidoRede[s]
    BY <1>4, PedidoAcaba DEF RedeInv
  <1>6. CASE papel[p] = "nenhum" /\ D!ExistemTodos(pedidoRede[r].origem) /\ D!AindaServe(pedidoRede[r].convite)
    <2>1. PICK novo : novo = IF tipo = "usuario" THEN "cotista" ELSE tipo
      OBVIOUS
    <2>2. novo \in D!Papeis /\ (novo = "afiliado" <=> tipo = "afiliado")
      BY <2>1, <1>3 DEF D!Papeis
    <2>3. /\ papel' = [papel EXCEPT ![p] = novo]
          /\ afiliado' = [afiliado EXCEPT ![p] =
                IF tipo = "afiliado" THEN [status |-> "aprovado", pai |-> pedidoRede[r].origem] ELSE @]
          /\ grupo' = IF tipo = "afiliado" THEN D!ComGrupo(p) ELSE grupo
          /\ convite' = [v \in Convites |-> IF v \in pedidoRede[r].convite
                                            THEN [convite[v] EXCEPT !.status = "usado"] ELSE convite[v]]
          /\ veioDe' = [veioDe EXCEPT ![p] = pedidoRede[r].convite]
      BY <1>2, <1>6, <2>1 DEF D!RegisterGrava
    <2>4. \/ /\ novo = "afiliado" /\ grupo' = D!ComGrupo(p)
             /\ afiliado' = [afiliado EXCEPT ![p] = [status |-> "aprovado", pai |-> pedidoRede[r].origem]]
          \/ novo # "afiliado" /\ grupo' = grupo /\ afiliado' = afiliado
      <3>1. CASE tipo = "afiliado"
        BY <3>1, <2>2, <2>3
      <3>2. CASE tipo # "afiliado"
        <4>1. afiliado' = [afiliado EXCEPT ![p] = afiliado[p]] /\ grupo' = grupo
          BY <3>2, <2>3
        <4>2. QED
          BY <4>1, <3>2, <2>2 DEF RedeInv, RedeTipo
      <3>3. QED
        BY <3>1, <3>2
    <2>5. /\ \A v \in Convites : convite'[v] \in Convidado
          /\ \A v \in pedidoRede[r].convite \cap Convites : convite'[v].status = "usado"
          /\ \A v \in Convites \ pedidoRede[r].convite : convite'[v] = convite[v]
      <3>1. ASSUME NEW v \in Convites, v \in pedidoRede[r].convite
            PROVE  convite'[v] \in Convidado /\ convite'[v].status = "usado"
        <4>1. PICK x : x = [convite[v] EXCEPT !.status = "usado"]
          OBVIOUS
        <4>2. convite[v] \in Convidado
          BY DEF RedeInv, RedeTipo
        <4>3. x \in Convidado
          BY <4>1, <4>2 DEF Convidado
        <4>4. x.status = "usado"
          BY <4>1, <4>2 DEF Convidado
        <4>5. convite'[v] = x
          BY <4>1, <2>3, <3>1
        <4>6. QED
          BY <4>3, <4>4, <4>5
      <3>2. \A v \in Convites \ pedidoRede[r].convite : convite'[v] = convite[v]
        BY <2>3
      <3>3. QED
        BY <3>1, <3>2 DEF RedeInv, RedeTipo
    <2>6. convite' \in [Convites -> Convidado]
      BY <2>3, <2>5
    <2>7. /\ veioDe' \in [Pessoas -> UmOuNenhum]
          /\ veioDe'[p] = pedidoRede[r].convite
          /\ \A q \in Pessoas \ {p} : veioDe'[q] = veioDe[q]
      BY <1>1, <1>2, <2>3 DEF RedeInv, RedeTipo
    <2>8. RedeConvites'
      <3> SUFFICES ASSUME NEW v \in Convites
                   PROVE  /\ \A q, s \in Pessoas : veioDe'[q] = {v} /\ veioDe'[s] = {v} => q = s
                          /\ convite'[v].status \in {"nenhum", "ativo"} => \A q \in Pessoas : veioDe'[q] # {v}
        BY DEF RedeConvites
      <3>1. CASE v \in pedidoRede[r].convite
        <4>1. convite[v].status = "ativo"
          BY <3>1, <1>6 DEF D!AindaServe
        <4>2. \A q \in Pessoas : veioDe[q] # {v}
          BY <4>1 DEF RedeInv, RedeConvites
        <4>3. convite'[v].status = "usado"
          BY <3>1, <2>5
        <4>4. QED
          BY <4>2, <4>3, <2>7
      <3>2. CASE v \notin pedidoRede[r].convite
        <4>1. veioDe'[p] # {v} /\ convite'[v] = convite[v]
          BY <3>2, <2>5, <2>7
        <4>2. \A q \in Pessoas : veioDe'[q] = {v} => veioDe[q] = {v}
          BY <4>1, <2>7
        <4>3. QED
          BY <4>1, <4>2 DEF RedeInv, RedeConvites
      <3>3. QED
        BY <3>1, <3>2
    <2>9. p \in Pessoas /\ pedidoRede[r].origem \subseteq D!ComCadastro /\ papel[p] = "nenhum"
      BY <1>1, <1>2, <1>6 DEF D!ExistemTodos
    <2>10. PICK pai : pai = pedidoRede[r].origem
      OBVIOUS
    <2>11. papel' = [papel EXCEPT ![p] = novo]
      BY <2>3
    <2>12. QED
      BY <2>2, <2>4, <2>6, <2>7, <2>8, <2>9, <2>10, <2>11, <1>1, <1>4, <1>5, ContaNasce
  <1>7. CASE ~(papel[p] = "nenhum" /\ D!ExistemTodos(pedidoRede[r].origem) /\ D!AindaServe(pedidoRede[r].convite))
    <2>1. UNCHANGED <<papel, afiliado, grupo, convite, veioDe>>
      BY <1>2, <1>7 DEF D!RegisterGrava
    <2>2. convite' \in [Convites -> Convidado]
      BY <2>1 DEF RedeInv, RedeTipo
    <2>3. QED
      BY <2>1, <2>2, <1>4, <1>5, SoConvitesEPedidos
  <1>8. QED
    BY <1>6, <1>7

LEMMA CreateManagedUserRede ==
  ASSUME RedeInv, NEW p \in Pessoas, NEW novo \in D!Papeis, NEW pai \in D!AlguemOuNinguem, D!CreateManagedUser(p, novo, pai)
  PROVE  RedeInv'
  <1>1. papel[p] = "nenhum" /\ pai \subseteq D!ComCadastro /\ papel' = [papel EXCEPT ![p] = novo]
    BY DEF D!CreateManagedUser, D!Aprovados, D!ComCadastro
  <1>2. \/ /\ novo = "afiliado" /\ grupo' = D!ComGrupo(p)
           /\ afiliado' = [afiliado EXCEPT ![p] = [status |-> "aprovado", pai |-> pai]]
        \/ novo # "afiliado" /\ grupo' = grupo /\ afiliado' = afiliado
    BY DEF D!CreateManagedUser
  <1>3. UNCHANGED <<convite, veioDe, pedidoRede, cruzadosRede>>
    BY DEF D!CreateManagedUser
  <1>4. convite' \in [Convites -> Convidado] /\ veioDe' \in [Pessoas -> UmOuNenhum] /\ pedidoRede' \in [Pedidos -> PedidoDaRede]
    BY <1>3 DEF RedeInv, RedeTipo
  <1>5. RedeConvites'
    BY <1>3, MesmosConvites DEF RedeInv
  <1>6. QED
    BY <1>1, <1>2, <1>3, <1>4, <1>5, ContaNasce

\* The role, the approval and the group of one account change together; its parent stays.
LEMMA ContaMuda ==
  ASSUME RedeInv, NEW p \in Pessoas, NEW x \in Afiliacao, x.pai = afiliado[p].pai,
         afiliado' = [afiliado EXCEPT ![p] = x],
         papel' \in [Pessoas -> {"nenhum", "apagado", "cotista", "afiliado", "operacao"}],
         grupo' \in [Pessoas -> {"nenhum", "existe", "apagado"}],
         \A q \in Pessoas \ {p} : papel'[q] = papel[q] /\ grupo'[q] = grupo[q],
         papel'[p] \notin {"nenhum", "apagado"}, papel'[p] = "afiliado" <=> x.status = "aprovado",
         x.status = "aprovado" => grupo'[p] # "nenhum", afiliado[p].status # "nenhum" => x.status # "nenhum",
         UNCHANGED <<convite, veioDe, pedidoRede, cruzadosRede>>
  PROVE  RedeInv'
  <1>1. /\ afiliado' \in [Pessoas -> Afiliacao] /\ afiliado'[p] = x
        /\ \A q \in Pessoas \ {p} : afiliado'[q] = afiliado[q]
    BY AfiliacaoTrocada DEF RedeInv
  <1>2. RedeTipo'
    BY <1>1 DEF RedeInv, RedeTipo
  <1>3. D!ComCadastro \subseteq D!ComCadastro'
    BY <1>1 DEF D!ComCadastro
  <1>4. RedeCadastro'
    <2>1. Combina(p)'
      BY <1>1 DEF Combina
    <2>2. \A q \in Pessoas \ {p} : Combina(q)'
      BY <1>1 DEF Combina, RedeInv, RedeCadastro
    <2>3. \A q \in Pessoas : afiliado'[q].pai \subseteq D!ComCadastro'
      BY <1>1, <1>3 DEF RedeInv, RedeCadastro
    <2>4. QED
      BY <2>1, <2>2, <2>3 DEF RedeCadastro
  <1>5. RedeConvites' /\ RedePedidos'
    <2>1. RedeConvites'
      BY MesmosConvites DEF RedeInv
    <2>2. RedePedidos'
      <3>1. \A q \in Pessoas : papel[q] # "nenhum" => papel'[q] # "nenhum"
        OBVIOUS
      <3>2. \A s \in Pedidos : pedidoRede[s].op = "rede" => pedidoRede[s].pai \subseteq Pessoas
        BY OsPedidos, Conjuntos DEF RedeInv
      <3>3. QED
        BY <3>1, <3>2 DEF RedeInv, RedePedidos
    <2>3. QED
      BY <2>1, <2>2
  <1>6. RedeArvore'
    <2>1. \A q \in Pessoas : afiliado'[q].pai \subseteq afiliado[q].pai
      BY <1>1
    <2>2. QED
      BY <2>1, <1>2, ArvoreEncolhe DEF RedeInv
  <1>7. QED
    BY <1>2, <1>4, <1>5, <1>6 DEF RedeInv

LEMMA UpdateUserRoleRede ==
  ASSUME RedeInv, NEW p \in Pessoas, NEW novo \in D!Papeis, D!UpdateUserRole(p, novo)
  PROVE  RedeInv'
  <1>1. PICK x : x = D!SegueOPapel(p, novo)
    OBVIOUS
  <1>2. afiliado[p] \in Afiliacao /\ Combina(p) /\ p \in D!ComConta
    BY DEF RedeInv, RedeTipo, RedeCadastro, D!UpdateUserRole
  <1>3. /\ x \in Afiliacao /\ x.pai = afiliado[p].pai
        /\ novo = "afiliado" <=> x.status = "aprovado"
        /\ afiliado[p].status # "nenhum" => x.status # "nenhum"
    <2>1. CASE novo = "afiliado"
      BY <2>1, <1>1, <1>2, ComStatus DEF D!SegueOPapel
    <2>2. CASE novo # "afiliado" /\ afiliado[p].status = "nenhum"
      BY <2>2, <1>1, <1>2 DEF D!SegueOPapel
    <2>3. CASE novo # "afiliado" /\ afiliado[p].status # "nenhum"
      <3>1. x = [afiliado[p] EXCEPT !.status = "inativo"]
        BY <2>3, <1>1 DEF D!SegueOPapel
      <3>2. x \in Afiliacao /\ x.pai = afiliado[p].pai /\ x.status = "inativo"
        BY <3>1, <1>2, ComStatus
      <3>3. QED
        BY <2>3, <3>2
    <2>4. QED
      BY <2>1, <2>2, <2>3
  <1>4. afiliado' = [afiliado EXCEPT ![p] = x] /\ papel' = [papel EXCEPT ![p] = novo]
        /\ UNCHANGED <<convite, veioDe, pedidoRede, cruzadosRede>>
    BY <1>1 DEF D!UpdateUserRole
  <1>5. /\ papel' \in [Pessoas -> {"nenhum", "apagado", "cotista", "afiliado", "operacao"}]
        /\ papel'[p] = novo /\ \A q \in Pessoas \ {p} : papel'[q] = papel[q]
    BY <1>4 DEF D!Papeis, RedeInv, RedeTipo
  <1>6. /\ grupo' \in [Pessoas -> {"nenhum", "existe", "apagado"}]
        /\ \A q \in Pessoas \ {p} : grupo'[q] = grupo[q]
        /\ novo = "afiliado" => grupo'[p] # "nenhum"
    <2>1. grupo' = IF novo = "afiliado" /\ afiliado[p].status # "aprovado" THEN D!ComGrupo(p) ELSE grupo
      BY DEF D!UpdateUserRole
    <2>2. QED
      BY <2>1, <1>2 DEF D!ComGrupo, Combina, RedeInv, RedeTipo
  <1>7. novo \notin {"nenhum", "apagado"}
    BY DEF D!Papeis
  <1>8. QED
    BY <1>3, <1>4, <1>5, <1>6, <1>7, ContaMuda

LEMMA RequestAffiliateRede ==
  ASSUME RedeInv, NEW p \in Pessoas, D!RequestAffiliate(p)
  PROVE  RedeInv'
  <1>1. PICK x : x = [afiliado[p] EXCEPT !.status = "pendente"]
    OBVIOUS
  <1>2. afiliado[p] \in Afiliacao /\ Combina(p) /\ p \in D!ComConta /\ afiliado[p].status = "nenhum"
    BY DEF RedeInv, RedeTipo, RedeCadastro, D!RequestAffiliate
  <1>3. x \in Afiliacao /\ x.pai = afiliado[p].pai /\ x.status = "pendente"
    BY <1>1, <1>2, ComStatus
  <1>4. afiliado' = [afiliado EXCEPT ![p] = x] /\ UNCHANGED <<papel, grupo, convite, veioDe, pedidoRede, cruzadosRede>>
    BY <1>1 DEF D!RequestAffiliate
  <1>5. papel[p] # "afiliado" /\ papel[p] \notin {"nenhum", "apagado"}
    BY <1>2 DEF Combina, D!ComConta
  <1>6. /\ papel' \in [Pessoas -> {"nenhum", "apagado", "cotista", "afiliado", "operacao"}]
        /\ grupo' \in [Pessoas -> {"nenhum", "existe", "apagado"}]
    BY <1>4 DEF RedeInv, RedeTipo
  <1>7. QED
    BY <1>3, <1>4, <1>5, <1>6, ContaMuda

LEMMA ApproveAffiliateRede ==
  ASSUME RedeInv, NEW p \in Pessoas, D!ApproveAffiliate(p)
  PROVE  RedeInv'
  <1>1. PICK x : x = [afiliado[p] EXCEPT !.status = "aprovado"]
    OBVIOUS
  <1>2. afiliado[p] \in Afiliacao
    BY DEF RedeInv, RedeTipo
  <1>3. x \in Afiliacao /\ x.pai = afiliado[p].pai /\ x.status = "aprovado"
    BY <1>1, <1>2, ComStatus
  <1>4. /\ afiliado' = [afiliado EXCEPT ![p] = x] /\ papel' = [papel EXCEPT ![p] = "afiliado"] /\ grupo' = D!ComGrupo(p)
        /\ UNCHANGED <<convite, veioDe, pedidoRede, cruzadosRede>>
    BY <1>1 DEF D!ApproveAffiliate
  <1>5. /\ papel' \in [Pessoas -> {"nenhum", "apagado", "cotista", "afiliado", "operacao"}]
        /\ grupo' \in [Pessoas -> {"nenhum", "existe", "apagado"}]
        /\ papel'[p] = "afiliado" /\ grupo'[p] = "existe"
        /\ \A q \in Pessoas \ {p} : papel'[q] = papel[q] /\ grupo'[q] = grupo[q]
    BY <1>4 DEF RedeInv, RedeTipo, D!ComGrupo
  <1>6. QED
    BY <1>3, <1>4, <1>5, ContaMuda

LEMMA GrupoRede ==
  ASSUME RedeInv, NEW p \in Pessoas, D!AffiliateWorkspace(p) \/ D!DeleteGroup(p)
  PROVE  RedeInv'
  <1>1. PICK s \in {"existe", "apagado"} : grupo' = [grupo EXCEPT ![p] = s]
    BY DEF D!AffiliateWorkspace, D!DeleteGroup, D!ComGrupo
  <1>2. UNCHANGED <<papel, afiliado, convite, veioDe, pedidoRede, cruzadosRede>>
    BY DEF D!AffiliateWorkspace, D!DeleteGroup
  <1>3. RedeTipo' /\ \A q \in Pessoas : grupo[q] # "nenhum" => grupo'[q] # "nenhum"
    BY <1>1, <1>2 DEF RedeInv, RedeTipo
  <1>4. RedeCadastro'
    BY <1>2, <1>3 DEF RedeInv, RedeCadastro, Combina, D!ComCadastro
  <1>5. RedeConvites' /\ RedePedidos'
    BY <1>2 DEF RedeInv, RedeConvites, RedePedidos
  <1>6. RedeArvore'
    BY <1>2, <1>3, ArvoreEncolhe DEF RedeInv
  <1>7. QED
    BY <1>3, <1>4, <1>5, <1>6 DEF RedeInv

LEMMA NetworkLeRede ==
  ASSUME RedeInv, NEW r \in Pedidos, NEW p \in Pessoas, NEW pai \in D!AlguemOuNinguem, D!UpdateAffiliateNetworkLe(r, p, pai)
  PROVE  RedeInv'
  <1>1. PICK t : t = [op |-> "rede", alvo |-> p, pai |-> pai]
    OBVIOUS
  <1>2. t \in PedidoDaRede /\ t.op = "rede" /\ t.alvo = p /\ t.pai = pai
    BY <1>1 DEF PedidoDaRede
  <1>3. /\ pedidoRede' = [pedidoRede EXCEPT ![r] = t] /\ UNCHANGED <<papel, afiliado, grupo, convite, veioDe>>
        /\ cruzadosRede' = (cruzadosRede \/ \E s \in Pedidos : pedidoRede[s].op = "rede")
        /\ pai \subseteq D!Aprovados /\ D!NaoFechaCiclo(p, pai)
    BY <1>1 DEF D!UpdateAffiliateNetworkLe
  <1>4. /\ pedidoRede' \in [Pedidos -> PedidoDaRede] /\ pedidoRede'[r] = t
        /\ \A s \in Pedidos \ {r} : pedidoRede'[s] = pedidoRede[s]
    BY <1>2, <1>3, PedidoComeca DEF RedeInv
  <1>5. RedeTipo'
    BY <1>3, <1>4 DEF RedeInv, RedeTipo
  <1>6. RedeCadastro'
    BY <1>3 DEF RedeInv, RedeCadastro, Combina, D!ComCadastro
  <1>7. RedeConvites'
    BY <1>3, MesmosConvites DEF RedeInv
  <1>8. RedePedidos'
    <2>1. \A q \in pai : papel[q] # "nenhum"
      BY <1>3 DEF D!Aprovados, RedeInv, RedeCadastro, Combina
    <2>2. QED
      BY <2>1, <1>2, <1>3, <1>4 DEF RedeInv, RedePedidos
  <1>9. RedeArvore'
    <2> SUFFICES ASSUME ~cruzadosRede' PROVE RedeArvore'
      BY DEF RedeArvore
    <2>1. ~cruzadosRede /\ \A s \in Pedidos : pedidoRede[s].op # "rede"
      BY <1>3 DEF RedeInv, RedeTipo
    <2>2. Segura(Pais, t)
      <3>1. \A q \in pai : p \notin D!Ancestrais(q)
        BY <1>3 DEF D!NaoFechaCiclo
      <3>2. \A q \in pai : D!Ancestrais(q) = Acima(Pais, q)
        BY <1>3, AncestraisDe DEF D!Aprovados, RedeInv
      <3>3. QED
        BY <3>1, <3>2, <1>2, <1>3 DEF Segura, D!NaoFechaCiclo
    <2>3. SemCiclo(Pais)
      BY <2>1 DEF RedeInv, RedeArvore
    <2>4. Pais' = Pais
      BY <1>3 DEF Pais
    <2>5. \A s \in Pedidos : pedidoRede'[s].op = "rede" => s = r
      BY <2>1, <1>4
    <2>6. QED
      BY <2>2, <2>3, <2>4, <2>5, <1>4 DEF RedeArvore
  <1>10. QED
    BY <1>5, <1>6, <1>7, <1>8, <1>9 DEF RedeInv

LEMMA NetworkGravaRede ==
  ASSUME RedeInv, NEW r \in Pedidos, D!UpdateAffiliateNetworkGrava(r)
  PROVE  RedeInv'
  <1>1. pedidoRede[r].op = "rede" /\ pedidoRede[r].alvo \in Pessoas /\ pedidoRede[r].pai \in D!AlguemOuNinguem
    BY OsPedidos DEF D!UpdateAffiliateNetworkGrava, RedeInv
  <1>2. PICK p, P : p = pedidoRede[r].alvo /\ P = pedidoRede[r].pai
    OBVIOUS
  <1>3. /\ pedidoRede' = [pedidoRede EXCEPT ![r] = D!SemPedido]
        /\ UNCHANGED <<papel, grupo, convite, veioDe, cruzadosRede>>
        /\ afiliado' = IF p \in D!ComCadastro /\ D!ExistemTodos(P) THEN [afiliado EXCEPT ![p].pai = P] ELSE afiliado
    BY <1>2 DEF D!UpdateAffiliateNetworkGrava
  <1>4. /\ pedidoRede' \in [Pedidos -> PedidoDaRede]
        /\ \A s \in Pedidos : pedidoRede'[s].op = "rede" => s # r /\ pedidoRede[s].op = "rede" /\ pedidoRede'[s] = pedidoRede[s]
    BY <1>3, PedidoAcaba DEF RedeInv
  <1>5. CASE p \in D!ComCadastro /\ D!ExistemTodos(P)
    <2>1. PICK x : x = [afiliado[p] EXCEPT !.pai = P]
      OBVIOUS
    <2>2. afiliado[p] \in Afiliacao
      BY <1>1, <1>2 DEF RedeInv, RedeTipo
    <2>3. x \in Afiliacao /\ x.status = afiliado[p].status /\ x.pai = P
      BY <2>1, <2>2, <1>1, <1>2, ComPai
    <2>4. /\ afiliado' \in [Pessoas -> Afiliacao] /\ afiliado'[p] = x
          /\ \A q \in Pessoas \ {p} : afiliado'[q] = afiliado[q]
      <3>1. afiliado' = [afiliado EXCEPT ![p] = x]
        BY <1>3, <1>5, <2>1
      <3>2. QED
        BY <3>1, <2>3, <1>1, <1>2, AfiliacaoTrocada DEF RedeInv
    <2>5. RedeTipo'
      BY <2>4, <1>3, <1>4 DEF RedeInv, RedeTipo
    <2>6. \A q \in Pessoas : afiliado'[q].status = afiliado[q].status
      BY <2>3, <2>4
    <2>7. RedeCadastro'
      <3>1. D!ComCadastro' = D!ComCadastro
        BY <2>6 DEF D!ComCadastro
      <3>2. \A q \in Pessoas : Combina(q)'
        BY <2>6, <1>3 DEF Combina, RedeInv, RedeCadastro
      <3>3. \A q \in Pessoas : afiliado'[q].pai \subseteq D!ComCadastro
        BY <2>3, <2>4, <1>5 DEF D!ExistemTodos, RedeInv, RedeCadastro
      <3>4. QED
        BY <3>1, <3>2, <3>3 DEF RedeCadastro
    <2>8. RedeConvites' /\ RedePedidos'
      BY <1>3, <1>4, MesmosConvites DEF RedeInv, RedePedidos
    <2>9. RedeArvore'
      <3> SUFFICES ASSUME ~cruzadosRede PROVE RedeArvore'
        BY <1>3 DEF RedeArvore
      <3>1. SemCiclo(Pais) /\ Segura(Pais, pedidoRede[r])
        BY <1>1 DEF RedeInv, RedeArvore
      <3>2. \A s \in Pedidos : pedidoRede'[s].op # "rede"
        BY <1>1, <1>4 DEF RedeInv, RedeArvore
      <3>3. PICK g : g = Pais'
        OBVIOUS
      <3>4. \A q \in Pessoas : afiliado'[q].pai \in SUBSET Pessoas /\ afiliado[q].pai \in SUBSET Pessoas
        BY <2>4, Conjuntos DEF RedeInv, RedeTipo, Afiliacao
      <3>5. g \in Redes /\ Pais \in Redes /\ g[p] = P /\ \A z \in Pessoas \ {p} : g[z] = Pais[z]
        BY <3>3, <3>4, <2>3, <2>4, <1>1, <1>2 DEF Pais, Redes
      <3>6. p \notin P /\ \A q \in P : p \notin Acima(Pais, q)
        BY <3>1, <1>1, <1>2 DEF Segura, D!AlguemOuNinguem, D!Ninguem
      <3>7. P \in SUBSET Pessoas /\ p \in Pessoas
        BY <1>1, <1>2, Conjuntos
      <3>8. SemCiclo(g)
        BY <3>1, <3>5, <3>6, <3>7, TrocaDePai
      <3>9. QED
        BY <3>2, <3>3, <3>8 DEF RedeArvore
    <2>10. QED
      BY <2>5, <2>7, <2>8, <2>9 DEF RedeInv
  <1>6. CASE ~(p \in D!ComCadastro /\ D!ExistemTodos(P))
    <2>1. UNCHANGED <<papel, afiliado, grupo, convite, veioDe, cruzadosRede>>
      BY <1>3, <1>6
    <2>2. convite' \in [Convites -> Convidado]
      BY <2>1 DEF RedeInv, RedeTipo
    <2>3. QED
      BY <2>1, <2>2, <1>4, SoConvitesEPedidos
  <1>7. QED
    BY <1>5, <1>6

LEMMA DeleteEmptyRede ==
  ASSUME RedeInv, NEW p \in Pessoas, D!DeleteEmpty(p)
  PROVE  RedeInv'
  <1>1. /\ papel' = [papel EXCEPT ![p] = "apagado"] /\ grupo' = [grupo EXCEPT ![p] = "nenhum"]
        /\ veioDe' = [veioDe EXCEPT ![p] = {}] /\ UNCHANGED <<pedidoRede, cruzadosRede>> /\ papel[p] # "nenhum"
    BY DEF D!DeleteEmpty, D!ComConta
  <1>2. /\ afiliado' \in [Pessoas -> Afiliacao]
        /\ afiliado'[p].status = "nenhum" /\ afiliado'[p].pai = {}
        /\ \A q \in Pessoas \ {p} : afiliado'[q].status = afiliado[q].status /\ afiliado'[q].pai = afiliado[q].pai \ {p}
    <2>1. afiliado' = [q \in Pessoas |-> IF q = p THEN D!SemAfiliado ELSE [afiliado[q] EXCEPT !.pai = @ \ {p}]]
      BY DEF D!DeleteEmpty
    <2>2. afiliado'[p] = D!SemAfiliado /\ D!SemAfiliado \in Afiliacao
      BY <2>1, Conjuntos, AfiliacaoNova DEF D!SemAfiliado
    <2>3. ASSUME NEW q \in Pessoas \ {p}
          PROVE  /\ afiliado'[q] \in Afiliacao /\ afiliado'[q].status = afiliado[q].status
                 /\ afiliado'[q].pai = afiliado[q].pai \ {p}
      <3>1. PICK P, x : P = afiliado[q].pai \ {p} /\ x = [afiliado[q] EXCEPT !.pai = P]
        OBVIOUS
      <3>2. P \in D!AlguemOuNinguem /\ afiliado[q] \in Afiliacao
        BY <3>1, AsFichas, Conjuntos DEF RedeInv
      <3>3. afiliado'[q] = x
        BY <2>1, <3>1
      <3>4. QED
        BY <3>1, <3>2, <3>3, ComPai
    <2>4. \A q \in Pessoas : afiliado'[q] \in Afiliacao
      BY <2>2, <2>3
    <2>5. afiliado' \in [Pessoas -> Afiliacao]
      BY <2>1, <2>4
    <2>6. D!SemAfiliado.status = "nenhum" /\ D!SemAfiliado.pai = {}
      BY DEF D!SemAfiliado, D!Ninguem
    <2>7. QED
      BY <2>2, <2>3, <2>5, <2>6
  <1>3. /\ convite' \in [Convites -> Convidado]
        /\ \A v \in Convites : convite'[v].status = convite[v].status
    <2>1. convite' = [v \in Convites |-> [convite[v] EXCEPT !.origem = @ \ {p}]]
      BY DEF D!DeleteEmpty
    <2>2. ASSUME NEW v \in Convites PROVE convite'[v] \in Convidado /\ convite'[v].status = convite[v].status
      <3>1. PICK P, x : P = convite[v].origem \ {p} /\ x = [convite[v] EXCEPT !.origem = P]
        OBVIOUS
      <3>2. convite[v] \in Convidado /\ convite[v].origem \in D!AlguemOuNinguem
        BY DEF RedeInv, RedeTipo, Convidado
      <3>3. P \in D!AlguemOuNinguem
        BY <3>1, <3>2, Conjuntos
      <3>4. x \in Convidado
        BY <3>1, <3>2, <3>3 DEF Convidado
      <3>5. x.status = convite[v].status
        BY <3>1, <3>2 DEF Convidado
      <3>6. convite'[v] = x
        BY <2>1, <3>1
      <3>7. QED
        BY <3>4, <3>5, <3>6
    <2>3. QED
      BY <2>1, <2>2
  <1>4. /\ papel' \in [Pessoas -> {"nenhum", "apagado", "cotista", "afiliado", "operacao"}]
        /\ grupo' \in [Pessoas -> {"nenhum", "existe", "apagado"}]
        /\ papel'[p] = "apagado" /\ \A q \in Pessoas \ {p} : papel'[q] = papel[q] /\ grupo'[q] = grupo[q]
    BY <1>1 DEF RedeInv, RedeTipo
  <1>5. /\ veioDe' \in [Pessoas -> UmOuNenhum] /\ veioDe'[p] = {}
        /\ \A q \in Pessoas \ {p} : veioDe'[q] = veioDe[q]
    BY <1>1 DEF RedeInv, RedeTipo, UmOuNenhum
  <1>6. RedeTipo'
    BY <1>1, <1>2, <1>3, <1>4, <1>5 DEF RedeInv, RedeTipo
  <1>7. RedeCadastro'
    <2>1. Combina(p)'
      BY <1>2, <1>4 DEF Combina
    <2>2. \A q \in Pessoas \ {p} : Combina(q)'
      BY <1>2, <1>4 DEF Combina, RedeInv, RedeCadastro
    <2>3. D!ComCadastro \ {p} \subseteq D!ComCadastro'
      BY <1>2 DEF D!ComCadastro
    <2>4. \A q \in Pessoas : afiliado'[q].pai \subseteq D!ComCadastro \ {p}
      BY <1>2 DEF RedeInv, RedeCadastro
    <2>5. QED
      BY <2>1, <2>2, <2>3, <2>4 DEF RedeCadastro
  <1>8. RedeConvites'
    <2>1. \A v : \A q \in Pessoas : veioDe'[q] = {v} => veioDe[q] = {v}
      BY <1>5
    <2>2. QED
      BY <2>1, <1>3 DEF RedeInv, RedeConvites
  <1>9. RedePedidos'
    <2>1. \A q : papel[q] # "nenhum" /\ q \in Pessoas => papel'[q] # "nenhum"
      BY <1>4
    <2>2. \A s \in Pedidos : pedidoRede[s].op = "rede" => pedidoRede[s].pai \subseteq Pessoas
      BY OsPedidos, Conjuntos DEF RedeInv
    <2>3. QED
      BY <2>1, <2>2, <1>1 DEF RedeInv, RedePedidos
  <1>10. RedeArvore'
    <2>1. \A q \in Pessoas : afiliado'[q].pai \subseteq afiliado[q].pai
      BY <1>2
    <2>2. QED
      BY <2>1, <1>1, <1>6, ArvoreEncolhe DEF RedeInv
  <1>11. QED
    BY <1>6, <1>7, <1>8, <1>9, <1>10 DEF RedeInv

LEMMA RedeStutter ==
  ASSUME RedeInv, UNCHANGED <<papel, afiliado, grupo, convite, veioDe, pedidoRede, cruzadosRede>>
  PROVE  RedeInv'
  <1>1. convite' \in [Convites -> Convidado] /\ pedidoRede' \in [Pedidos -> PedidoDaRede]
    BY DEF RedeInv, RedeTipo
  <1>2. QED
    BY <1>1, SoConvitesEPedidos

LEMMA RedeStep ==
  ASSUME RedeInv, D!Next
  PROVE  RedeInv'
  BY CreateInviteRede, RevokeInviteRede, RegisterLeRede, RegisterGravaRede, CreateManagedUserRede, UpdateUserRoleRede,
     RequestAffiliateRede, ApproveAffiliateRede, GrupoRede, NetworkLeRede, NetworkGravaRede, DeleteEmptyRede
  DEF D!Next

LEMMA RedeInvIsEnough ==
  ASSUME RedeInv
  PROVE  D!NetworkIsSound /\ D!OneAccountPerInvite
  <1>1. D!NetworkIsATree
    <2>1. \A p \in Pessoas : D!Ancestrais(p) = Acima(Pais, p)
      BY AncestraisDe DEF RedeInv
    <2>2. ~cruzadosRede => SemCiclo(Pais)
      BY DEF RedeInv, RedeArvore
    <2>3. QED
      BY <2>1, <2>2 DEF SemCiclo, D!NetworkIsATree
  <1>2. D!RoleFollowsApproval
    BY DEF D!RoleFollowsApproval, RedeInv, RedeCadastro, Combina
  <1>3. ASSUME NEW v \in Convites
        PROVE  /\ Cardinality({p \in Pessoas : veioDe[p] = {v}}) <= 1
               /\ convite[v].status \in {"nenhum", "ativo"} => {p \in Pessoas : veioDe[p] = {v}} = {}
    <2>1. PICK N : N = {p \in Pessoas : veioDe[p] = {v}}
      OBVIOUS
    <2>2. \A p, q \in N : p = q
      BY <2>1 DEF RedeInv, RedeConvites
    <2>3. CASE N = {}
      BY <2>1, <2>3, FS_EmptySet
    <2>4. CASE N # {}
      <3>1. PICK p \in N : TRUE
        BY <2>4
      <3>2. N = {p}
        BY <3>1, <2>2
      <3>3. Cardinality(N) = 1
        BY <3>2, FS_Singleton
      <3>4. ~(convite[v].status \in {"nenhum", "ativo"})
        BY <3>1, <2>1 DEF RedeInv, RedeConvites
      <3>5. QED
        BY <3>3, <3>4, <2>1
    <2>5. QED
      BY <2>3, <2>4
  <1>4. D!OneAccountPerInvite
    BY <1>3 DEF D!OneAccountPerInvite, D!Cardinality, D!IsFiniteSet, Cardinality, IsFiniteSet
  <1>5. QED
    BY <1>1, <1>2, <1>4 DEF D!NetworkIsSound

-----------------------------------------------------------------------------
(* Invoices (module NotaFiscal)                                             *)
(*                                                                         *)
(* What "until someone gives the reference up" buys: until then everything *)
(* is about reference 1.  The row has it or none, every request in flight  *)
(* carries it, the issuer has heard of no other, and nothing has been      *)
(* cancelled anywhere.  A row without the reference is new or, at Cora,    *)
(* refused: emission at Focus starts again with the same one, and at Cora  *)
(* only by giving it up.  A query in flight was about the reference of the *)
(* row, which a row never loses.                                           *)

DaNota ==
    /\ nota.ref \in {0, 1}
    /\ nota.status # "cancelada" /\ nota.origem # "manual"
    /\ nota.ref = 0 => nota.status = "nenhuma" \/ (provedor = "cora" /\ nota.status = "erro")

DoEmissor == emissor[1] # "cancelada" /\ \A k \in F!Refs \ {1} : emissor[k] = "ausente"

DaUm(q, ref) ==
    /\ q.op \in {"nenhuma", "rele", "envia", "consulta", "grava_nota", "grava_recusa", "grava_consulta"}
    /\ q.op \in {"envia", "consulta", "grava_nota", "grava_recusa", "grava_consulta"} => q.ref = 1
    /\ q.op \in {"grava_nota", "grava_consulta"} => q.status # "cancelada"
    /\ q.op \in {"consulta", "grava_consulta"} => ref = 1
DosPedidos == \A r \in Pedidos : DaUm(pedidoNota[r], nota.ref)

RefUnica == ~liberada => usadas = 1 /\ DaNota /\ DoEmissor /\ DosPedidos
NotaInv == F!TypeOK /\ RefUnica

-----------------------------------------------------------------------------
(* What the steps of an invoice write *)

LEMMA NotaSegui ==
  ASSUME F!TypeOK, NEW r \in Pedidos, NEW p \in F!Pedido, F!Segue(r, p)
  PROVE  /\ pedidoNota' \in [Pedidos -> F!Pedido]
         /\ pedidoNota'[r] = p
         /\ \A s \in Pedidos \ {r} : pedidoNota'[s] = pedidoNota[s]
  BY DEF F!TypeOK, F!Segue

LEMMA NotaOps ==
  ASSUME NEW q \in F!Pedido
  PROVE  /\ q.op \in {"envia", "consulta", "cancela", "grava_recusa"} => q.ref \in F!Refs
         /\ q.op \in {"grava_nota", "grava_consulta"} => q.ref \in F!Refs /\ q.status \in F!Resposta
  BY DEF F!Pedido, F!Ocioso

\* What the steps send are messages.
LEMMA NotaMensagens ==
  /\ F!Ocioso \in F!Pedido /\ [op |-> "rele"] \in F!Pedido
  /\ [op |-> "manual"] \in F!Pedido /\ [op |-> "grava_cancelada"] \in F!Pedido
  /\ \A o \in {"envia", "consulta", "cancela", "grava_recusa"}, k \in F!Refs : [op |-> o, ref |-> k] \in F!Pedido
  /\ \A o \in {"grava_nota", "grava_consulta"}, k \in F!Refs, s \in F!Resposta :
        [op |-> o, ref |-> k, status |-> s] \in F!Pedido
  BY DEF F!Pedido

LEMMA NotaLidos ==
  ASSUME NEW k
  PROVE  /\ F!Lido(k) \in F!Resposta
         /\ emissor[k] # "cancelada" => F!Lido(k) # "cancelada"
  BY DEF F!Lido, F!Resposta

Nota == [status : F!Resposta \cup {"nenhuma"}, origem : {"focus", "cora", "manual"}, ref : 0..MaxRefs]
Emissor == [F!Refs -> {"ausente", "processando", "autorizada", "recusada", "cancelada"}]

\* What a step leaves of the types, by what it writes.
LEMMA NotaTypesKept ==
  ASSUME F!TypeOK, provedor' = provedor, nota' \in Nota, emissor' \in Emissor,
         pedidoNota' \in [Pedidos -> F!Pedido], usadas' \in 1..MaxRefs, liberada' \in BOOLEAN
  PROVE  F!TypeOK'
  BY DEF F!TypeOK, Nota, Emissor

\* A step after which a request is at p, and which may have changed what the issuer has.
LEMMA NotaSoOPedido ==
  ASSUME F!TypeOK, NEW r \in Pedidos, NEW p \in F!Pedido, F!Segue(r, p), emissor' \in Emissor,
         UNCHANGED <<provedor, nota, usadas, liberada>>
  PROVE  F!TypeOK'
  <1>1. pedidoNota' \in [Pedidos -> F!Pedido]
    BY NotaSegui
  <1>2. QED
    BY <1>1 DEF F!TypeOK, Emissor

LEMMA NotaFalhou ==
  ASSUME F!TypeOK, NEW r \in Pedidos, F!Falha(r), emissor' \in Emissor
  PROVE  F!TypeOK'
  BY NotaSoOPedido, NotaMensagens DEF F!Falha

-----------------------------------------------------------------------------
(* Types of an invoice *)

LEMMA NotaInitTypeOK ==
  ASSUME MaxRefs \in Nat \ {0}, F!Init
  PROVE  F!TypeOK
  <1>1. 0 \in 0..MaxRefs /\ 1 \in 1..MaxRefs
    OBVIOUS
  <1>2. F!Ocioso \in F!Pedido
    BY NotaMensagens
  <1>3. QED
    BY <1>1, <1>2 DEF F!Init, F!TypeOK, F!Refs

LEMMA LeParaEmitirType ==
  ASSUME MaxRefs \in Nat \ {0}, F!TypeOK, NEW r \in Pedidos, F!LeParaEmitir(r)
  PROVE  F!TypeOK'
  <1>1. usadas' \in 1..MaxRefs
    BY DEF F!LeParaEmitir, F!TypeOK
  <1>2. PICK k \in F!Refs : F!Segue(r, [op |-> "envia", ref |-> k])
    <2>1. CASE F!Recomeca
      <3>1. usadas + 1 \in F!Refs
        BY <2>1 DEF F!LeParaEmitir, F!TypeOK, F!Refs
      <3>2. QED
        BY <2>1, <3>1 DEF F!LeParaEmitir
    <2>2. CASE ~F!Recomeca
      <3>1. (IF nota.ref = 0 THEN 1 ELSE nota.ref) \in F!Refs
        BY DEF F!TypeOK, F!Refs
      <3>2. QED
        BY <2>2, <3>1 DEF F!LeParaEmitir
    <2>3. QED
      BY <2>1, <2>2
  <1>3. pedidoNota' \in [Pedidos -> F!Pedido]
    BY <1>2, NotaMensagens, NotaSegui
  <1>4. liberada' \in BOOLEAN
    BY DEF F!LeParaEmitir, F!TypeOK
  <1>5. UNCHANGED <<provedor, nota, emissor>>
    BY DEF F!LeParaEmitir
  <1>6. QED
    BY <1>1, <1>3, <1>4, <1>5 DEF F!TypeOK

LEMMA AceitaType ==
  ASSUME F!TypeOK, NEW r \in Pedidos, F!Aceita(r)
  PROVE  F!TypeOK'
  <1>1. pedidoNota[r].ref \in F!Refs
    BY NotaOps DEF F!Aceita, F!TypeOK
  <1>2. PICK k \in F!Refs : k = pedidoNota[r].ref
    BY <1>1
  <1>3. emissor' \in Emissor
    BY <1>2 DEF F!Aceita, F!TypeOK, Emissor
  <1>4. CASE F!Falha(r)
    BY <1>3, <1>4, NotaFalhou
  <1>5. CASE /\ F!Segue(r, [op |-> "grava_nota", ref |-> k, status |-> "aguardando"])
             /\ UNCHANGED <<provedor, nota, usadas, liberada>>
    <2>1. [op |-> "grava_nota", ref |-> k, status |-> "aguardando"] \in F!Pedido
      BY NotaMensagens DEF F!Resposta
    <2>2. QED
      BY <1>3, <1>5, <2>1, NotaSoOPedido
  <1>6. QED
    BY <1>2, <1>4, <1>5 DEF F!Aceita

LEMMA RepeteType ==
  ASSUME F!TypeOK, NEW r \in Pedidos, F!Repete(r)
  PROVE  F!TypeOK'
  <1>1. PICK k \in F!Refs : k = pedidoNota[r].ref
    BY DEF F!Repete, F!Vivas
  <1>2. [op |-> "grava_nota", ref |-> k, status |-> F!Lido(k)] \in F!Pedido
    BY NotaLidos, NotaMensagens
  <1>3. emissor' \in Emissor
    BY DEF F!Repete, F!TypeOK, Emissor
  <1>4. QED
    BY <1>1, <1>2, <1>3, NotaSoOPedido DEF F!Repete

LEMMA RecusaType ==
  ASSUME F!TypeOK, NEW r \in Pedidos, F!Recusa(r)
  PROVE  F!TypeOK'
  <1>1. pedidoNota[r].ref \in F!Refs
    BY NotaOps DEF F!Recusa, F!TypeOK
  <1>2. [op |-> "grava_recusa", ref |-> pedidoNota[r].ref] \in F!Pedido
    BY <1>1, NotaMensagens
  <1>3. emissor' \in Emissor
    BY DEF F!Recusa, F!TypeOK, Emissor
  <1>4. CASE F!Falha(r)
    BY <1>3, <1>4, NotaFalhou
  <1>5. CASE F!Segue(r, [op |-> "grava_recusa", ref |-> pedidoNota[r].ref]) /\ UNCHANGED <<provedor, nota, usadas, liberada>>
    BY <1>2, <1>3, <1>5, NotaSoOPedido
  <1>6. QED
    BY <1>4, <1>5 DEF F!Recusa

LEMMA GravaNotaType ==
  ASSUME F!TypeOK, NEW r \in Pedidos, F!GravaNota(r)
  PROVE  F!TypeOK'
  <1>1. pedidoNota[r].status \in F!Resposta /\ pedidoNota[r].ref \in 0..MaxRefs
    BY NotaOps DEF F!GravaNota, F!TypeOK, F!Refs
  <1>2. nota' \in Nota
    BY <1>1 DEF F!GravaNota, F!TypeOK, Nota
  <1>3. pedidoNota' \in [Pedidos -> F!Pedido]
    BY NotaMensagens, NotaSegui DEF F!GravaNota
  <1>4. QED
    BY <1>2, <1>3 DEF F!GravaNota, F!TypeOK, Nota

LEMMA GravaRecusaType ==
  ASSUME F!TypeOK, NEW r \in Pedidos, F!GravaRecusa(r)
  PROVE  F!TypeOK'
  <1>1. pedidoNota[r].ref \in 0..MaxRefs
    BY NotaOps DEF F!GravaRecusa, F!TypeOK, F!Refs
  <1>2. nota' \in Nota
    BY <1>1 DEF F!GravaRecusa, F!TypeOK, Nota, F!Resposta
  <1>3. pedidoNota' \in [Pedidos -> F!Pedido]
    BY NotaMensagens, NotaSegui DEF F!GravaRecusa
  <1>4. QED
    BY <1>2, <1>3 DEF F!GravaRecusa, F!TypeOK, Nota

LEMMA LeParaConsultarType ==
  ASSUME F!TypeOK, NEW r \in Pedidos, F!LeParaConsultar(r)
  PROVE  F!TypeOK'
  <1>1. F!Consultavel => nota.ref \in F!Refs
    BY DEF F!Consultavel, F!TypeOK, F!Refs
  <1>2. (IF F!Consultavel THEN [op |-> "consulta", ref |-> nota.ref] ELSE F!Ocioso) \in F!Pedido
    BY <1>1, NotaMensagens
  <1>3. emissor' \in Emissor
    BY DEF F!LeParaConsultar, F!TypeOK, Emissor
  <1>4. QED
    BY <1>2, <1>3, NotaSoOPedido DEF F!LeParaConsultar

LEMMA ConsultaType ==
  ASSUME F!TypeOK, NEW r \in Pedidos, F!Consulta(r)
  PROVE  F!TypeOK'
  <1>1. PICK k \in F!Refs : k = pedidoNota[r].ref
    BY NotaOps DEF F!Consulta, F!TypeOK
  <1>2. [op |-> "grava_consulta", ref |-> k, status |-> F!Lido(k)] \in F!Pedido
    BY NotaLidos, NotaMensagens
  <1>3. emissor' \in Emissor
    BY DEF F!Consulta, F!TypeOK, Emissor
  <1>4. CASE F!Falha(r)
    BY <1>3, <1>4, NotaFalhou
  <1>5. CASE ~F!Falha(r)
    BY <1>1, <1>2, <1>3, <1>5, NotaSoOPedido DEF F!Consulta
  <1>6. QED
    BY <1>4, <1>5

LEMMA GravaConsultaType ==
  ASSUME F!TypeOK, NEW r \in Pedidos, F!GravaConsulta(r)
  PROVE  F!TypeOK'
  <1>1. pedidoNota[r].status \in F!Resposta
    BY NotaOps DEF F!GravaConsulta, F!TypeOK
  <1>2. nota' \in Nota
    BY <1>1 DEF F!GravaConsulta, F!TypeOK, Nota
  <1>3. pedidoNota' \in [Pedidos -> F!Pedido]
    BY NotaMensagens, NotaSegui DEF F!GravaConsulta
  <1>4. QED
    BY <1>2, <1>3 DEF F!GravaConsulta, F!TypeOK, Nota

LEMMA LeParaCancelarType ==
  ASSUME F!TypeOK, NEW r \in Pedidos, F!LeParaCancelar(r)
  PROVE  F!TypeOK'
  <1>1. nota.ref # 0 => nota.ref \in F!Refs
    BY DEF F!TypeOK, F!Refs
  <1>2. PICK p \in F!Pedido : F!Segue(r, p)
    BY <1>1, NotaMensagens DEF F!LeParaCancelar
  <1>3. pedidoNota' \in [Pedidos -> F!Pedido]
    BY <1>2, NotaSegui
  <1>4. QED
    BY <1>3 DEF F!LeParaCancelar, F!TypeOK

LEMMA CancelaType ==
  ASSUME F!TypeOK, NEW r \in Pedidos, F!Cancela(r)
  PROVE  F!TypeOK'
  <1>1. emissor' \in Emissor
    BY DEF F!Cancela, F!TypeOK, Emissor
  <1>2. CASE F!Falha(r)
    BY <1>1, <1>2, NotaFalhou
  <1>3. CASE ~F!Falha(r)
    <2>1. F!Segue(r, [op |-> "grava_cancelada"]) /\ UNCHANGED <<provedor, nota, usadas, liberada>>
      BY <1>3 DEF F!Cancela
    <2>2. QED
      BY <1>1, <2>1, NotaSoOPedido, NotaMensagens
  <1>4. QED
    BY <1>2, <1>3

LEMMA GravaCanceladaType ==
  ASSUME F!TypeOK, NEW r \in Pedidos, F!GravaCancelada(r)
  PROVE  F!TypeOK'
  <1>1. nota' \in Nota
    BY DEF F!GravaCancelada, F!TypeOK, Nota, F!Resposta
  <1>2. pedidoNota' \in [Pedidos -> F!Pedido]
    BY NotaMensagens, NotaSegui DEF F!GravaCancelada
  <1>3. QED
    BY <1>1, <1>2 DEF F!GravaCancelada, F!TypeOK, Nota

LEMMA ManualType ==
  ASSUME MaxRefs \in Nat \ {0}, F!TypeOK, NEW r \in Pedidos, F!LeParaRegistrar(r) \/ F!RegistraManual(r)
  PROVE  F!TypeOK'
  <1>1. CASE F!LeParaRegistrar(r)
    <2>1. pedidoNota' \in [Pedidos -> F!Pedido]
      BY <1>1, NotaMensagens, NotaSegui DEF F!LeParaRegistrar
    <2>2. QED
      BY <1>1, <2>1 DEF F!LeParaRegistrar, F!TypeOK
  <1>2. CASE F!RegistraManual(r)
    <2>1. nota' \in Nota
      BY <1>2 DEF F!RegistraManual, Nota, F!Resposta
    <2>2. pedidoNota' \in [Pedidos -> F!Pedido]
      BY <1>2, NotaMensagens, NotaSegui DEF F!RegistraManual
    <2>3. QED
      BY <1>2, <2>1, <2>2 DEF F!RegistraManual, F!TypeOK, Nota
  <1>3. QED
    BY <1>1, <1>2

LEMMA PrefeituraType ==
  ASSUME F!TypeOK, NEW k \in F!Refs, F!Prefeitura(k)
  PROVE  F!TypeOK'
  BY DEF F!Prefeitura, F!TypeOK

LEMMA NotaNextTypeOK ==
  ASSUME MaxRefs \in Nat \ {0}, F!TypeOK, [F!Next]_fiscalVars
  PROVE  F!TypeOK'
  <1>1. CASE UNCHANGED fiscalVars
    BY <1>1 DEF fiscalVars, F!TypeOK
  <1>2. CASE F!Next
    BY <1>2, LeParaEmitirType, AceitaType, RepeteType, RecusaType, GravaNotaType, GravaRecusaType,
       LeParaConsultarType, ConsultaType, GravaConsultaType, LeParaCancelarType, CancelaType,
       GravaCanceladaType, ManualType, PrefeituraType
    DEF F!Next
  <1>3. QED
    BY <1>1, <1>2

-----------------------------------------------------------------------------
(* One reference *)

\* A request at a message about reference 1, with the row as it was.
LEMMA NotaPedidosKept ==
  ASSUME F!TypeOK, DosPedidos, NEW r \in Pedidos, NEW p \in F!Pedido, F!Segue(r, p),
         DaUm(p, nota'.ref), nota'.ref = nota.ref
  PROVE  DosPedidos'
  <1> SUFFICES ASSUME NEW s \in Pedidos PROVE DaUm(pedidoNota[s], nota.ref)'
    BY DEF DosPedidos
  <1>1. CASE s = r
    BY <1>1, NotaSegui DEF DaUm
  <1>2. CASE s # r
    BY <1>2, NotaSegui DEF DosPedidos, DaUm
  <1>3. QED
    BY <1>1, <1>2

\* A row that gets reference 1 is one a request asked about.
LEMMA NotaPedidosKeptWithRef ==
  ASSUME F!TypeOK, DosPedidos, NEW r \in Pedidos, NEW p \in F!Pedido, F!Segue(r, p),
         DaUm(p, nota'.ref), nota'.ref = 1
  PROVE  DosPedidos'
  <1> SUFFICES ASSUME NEW s \in Pedidos PROVE DaUm(pedidoNota[s], nota.ref)'
    BY DEF DosPedidos
  <1>1. CASE s = r
    BY <1>1, NotaSegui DEF DaUm
  <1>2. CASE s # r
    BY <1>2, NotaSegui DEF DosPedidos, DaUm
  <1>3. QED
    BY <1>1, <1>2

LEMMA InitRefUnica ==
  ASSUME MaxRefs \in Nat \ {0}, F!Init
  PROVE  RefUnica
  <1>1. DosPedidos
    BY DEF F!Init, DosPedidos, DaUm, F!Ocioso
  <1>2. DoEmissor
    BY DEF F!Init, DoEmissor, F!Refs
  <1>3. DaNota
    BY DEF F!Init, DaNota
  <1>4. QED
    BY <1>1, <1>2, <1>3 DEF F!Init, RefUnica

\* Nothing but the request of a step changes.
LEMMA NotaSoMensagem ==
  ASSUME F!TypeOK, RefUnica, ~liberada, NEW r \in Pedidos, NEW p \in F!Pedido, F!Segue(r, p), DaUm(p, nota.ref),
         UNCHANGED <<provedor, nota, emissor, usadas, liberada>>
  PROVE  RefUnica'
  <1>1. DosPedidos'
    BY NotaPedidosKept DEF RefUnica
  <1>2. QED
    BY <1>1 DEF RefUnica, DaNota, DoEmissor

\* The issuer answers, or does not: reference 1 is the only one it may have learned.
LEMMA NotaSoEmissor ==
  ASSUME F!TypeOK, RefUnica, ~liberada, NEW r \in Pedidos, NEW p \in F!Pedido, F!Segue(r, p), DaUm(p, nota.ref),
         DoEmissor', UNCHANGED <<provedor, nota, usadas, liberada>>
  PROVE  RefUnica'
  <1>1. DosPedidos'
    BY NotaPedidosKept DEF RefUnica
  <1>2. QED
    BY <1>1 DEF RefUnica, DaNota

LEMMA EmitirUma ==
  ASSUME MaxRefs \in Nat \ {0}, F!TypeOK, RefUnica, NEW r \in Pedidos, F!LeParaEmitir(r)
  PROVE  RefUnica'
  <1> SUFFICES ASSUME ~liberada, ~liberada' PROVE RefUnica'
    BY DEF RefUnica, F!LeParaEmitir
  <1>1. ~F!Recomeca
    BY DEF F!LeParaEmitir, RefUnica, DaNota, F!Recomeca, F!EmAberto, F!TypeOK, F!Resposta
  <1>2. F!Segue(r, [op |-> "envia", ref |-> 1])
    BY <1>1 DEF F!LeParaEmitir, RefUnica, DaNota
  <1>3. [op |-> "envia", ref |-> 1] \in F!Pedido
    BY NotaMensagens DEF F!Refs
  <1>4. UNCHANGED <<provedor, nota, emissor, usadas, liberada>>
    BY <1>1 DEF F!LeParaEmitir, F!TypeOK
  <1>5. QED
    BY <1>2, <1>3, <1>4, NotaSoMensagem DEF DaUm

LEMMA PedidoEUm ==
  ASSUME RefUnica, ~liberada, NEW r \in Pedidos
  PROVE  DaUm(pedidoNota[r], nota.ref)
  BY DEF RefUnica, DosPedidos

LEMMA NotaParou == ASSUME NEW ref PROVE DaUm(F!Ocioso, ref)
  BY DEF DaUm, F!Ocioso

LEMMA AceitaUma ==
  ASSUME MaxRefs \in Nat \ {0}, F!TypeOK, RefUnica, NEW r \in Pedidos, F!Aceita(r)
  PROVE  RefUnica'
  <1> SUFFICES ASSUME ~liberada PROVE RefUnica'
    BY DEF RefUnica, F!Aceita, F!Falha
  <1>1. pedidoNota[r].ref = 1
    BY PedidoEUm DEF DaUm, F!Aceita
  <1>2. DoEmissor'
    BY <1>1 DEF F!Aceita, DoEmissor, RefUnica, F!TypeOK, F!Refs
  <1>3. CASE F!Falha(r)
    BY <1>2, <1>3, NotaSoEmissor, NotaMensagens, NotaParou DEF F!Falha
  <1>4. CASE /\ F!Segue(r, [op |-> "grava_nota", ref |-> 1, status |-> "aguardando"])
             /\ UNCHANGED <<provedor, nota, usadas, liberada>>
    <2>1. [op |-> "grava_nota", ref |-> 1, status |-> "aguardando"] \in F!Pedido
      <3>1. 1 \in F!Refs /\ "aguardando" \in F!Resposta
        BY DEF F!Resposta, F!Refs
      <3>2. QED
        BY <3>1, NotaMensagens
    <2>2. QED
      BY <1>2, <1>4, <2>1, NotaSoEmissor DEF DaUm
  <1>5. QED
    BY <1>1, <1>3, <1>4 DEF F!Aceita

LEMMA RepeteUma ==
  ASSUME MaxRefs \in Nat \ {0}, F!TypeOK, RefUnica, NEW r \in Pedidos, F!Repete(r)
  PROVE  RefUnica'
  <1> SUFFICES ASSUME ~liberada PROVE RefUnica'
    BY DEF RefUnica, F!Repete
  <1>1. pedidoNota[r].ref = 1
    BY PedidoEUm DEF DaUm, F!Repete
  <1>2. F!Lido(1) \in F!Resposta /\ F!Lido(1) # "cancelada"
    BY NotaLidos DEF RefUnica, DoEmissor
  <1>3. [op |-> "grava_nota", ref |-> 1, status |-> F!Lido(1)] \in F!Pedido
    BY <1>2, NotaMensagens DEF F!Refs
  <1>4. QED
    BY <1>1, <1>2, <1>3, NotaSoMensagem DEF F!Repete, DaUm

LEMMA RecusaUma ==
  ASSUME MaxRefs \in Nat \ {0}, F!TypeOK, RefUnica, NEW r \in Pedidos, F!Recusa(r)
  PROVE  RefUnica'
  <1> SUFFICES ASSUME ~liberada PROVE RefUnica'
    BY DEF RefUnica, F!Recusa, F!Falha
  <1>1. pedidoNota[r].ref = 1
    BY PedidoEUm DEF DaUm, F!Recusa
  <1>2. [op |-> "grava_recusa", ref |-> 1] \in F!Pedido
    BY NotaMensagens DEF F!Refs
  <1>3. CASE F!Falha(r)
    BY <1>3, NotaSoMensagem, NotaMensagens, NotaParou DEF F!Falha, F!Recusa
  <1>4. CASE ~F!Falha(r)
    BY <1>1, <1>2, <1>4, NotaSoMensagem DEF F!Recusa, DaUm
  <1>5. QED
    BY <1>3, <1>4

LEMMA GravaNotaUma ==
  ASSUME F!TypeOK, RefUnica, NEW r \in Pedidos, F!GravaNota(r)
  PROVE  RefUnica'
  <1> SUFFICES ASSUME ~liberada PROVE RefUnica'
    BY DEF RefUnica, F!GravaNota
  <1>1. pedidoNota[r].ref = 1 /\ pedidoNota[r].status # "cancelada"
    BY PedidoEUm DEF DaUm, F!GravaNota
  <1>2. nota'.ref = 1 /\ DaNota'
    BY <1>1 DEF F!GravaNota, DaNota, F!TypeOK
  <1>3. PICK p \in F!Pedido : F!Segue(r, p) /\ DaUm(p, 1)
    BY NotaMensagens DEF F!GravaNota, DaUm, F!Ocioso
  <1>4. DosPedidos'
    BY <1>2, <1>3, NotaPedidosKeptWithRef DEF RefUnica
  <1>5. QED
    BY <1>2, <1>4 DEF F!GravaNota, RefUnica, DoEmissor

LEMMA GravaRecusaUma ==
  ASSUME F!TypeOK, RefUnica, NEW r \in Pedidos, F!GravaRecusa(r)
  PROVE  RefUnica'
  <1> SUFFICES ASSUME ~liberada PROVE RefUnica'
    BY DEF RefUnica, F!GravaRecusa
  <1>1. pedidoNota[r].ref = 1
    BY PedidoEUm DEF DaUm, F!GravaRecusa
  <1>2. CASE provedor = "focus"
    <2>1. nota'.ref = 1 /\ DaNota'
      BY <1>1, <1>2 DEF F!GravaRecusa, DaNota
    <2>2. DosPedidos'
      BY <2>1, NotaPedidosKeptWithRef, NotaMensagens, NotaParou DEF RefUnica, F!GravaRecusa
    <2>3. QED
      BY <2>1, <2>2 DEF F!GravaRecusa, RefUnica, DoEmissor
  <1>3. CASE provedor # "focus"
    <2>1. nota'.ref = nota.ref /\ DaNota'
      BY <1>3 DEF F!GravaRecusa, DaNota, F!TypeOK, RefUnica
    <2>2. DosPedidos'
      BY <2>1, NotaPedidosKept, NotaMensagens, NotaParou DEF RefUnica, F!GravaRecusa
    <2>3. QED
      BY <2>1, <2>2 DEF F!GravaRecusa, RefUnica, DoEmissor
  <1>4. QED
    BY <1>2, <1>3

LEMMA LeParaConsultarUma ==
  ASSUME F!TypeOK, RefUnica, NEW r \in Pedidos, F!LeParaConsultar(r)
  PROVE  RefUnica'
  <1> SUFFICES ASSUME ~liberada PROVE RefUnica'
    BY DEF RefUnica, F!LeParaConsultar
  <1>1. CASE F!Consultavel
    <2>1. nota.ref = 1 /\ 1 \in F!Refs
      BY <1>1 DEF F!Consultavel, RefUnica, DaNota, F!TypeOK, F!Refs
    <2>2. [op |-> "consulta", ref |-> 1] \in F!Pedido
      BY <2>1, NotaMensagens
    <2>3. QED
      BY <1>1, <2>1, <2>2, NotaSoMensagem DEF F!LeParaConsultar, DaUm
  <1>2. CASE ~F!Consultavel
    BY <1>2, NotaSoMensagem, NotaMensagens, NotaParou DEF F!LeParaConsultar
  <1>3. QED
    BY <1>1, <1>2

LEMMA ConsultaUma ==
  ASSUME F!TypeOK, RefUnica, NEW r \in Pedidos, F!Consulta(r)
  PROVE  RefUnica'
  <1> SUFFICES ASSUME ~liberada PROVE RefUnica'
    BY DEF RefUnica, F!Consulta, F!Falha
  <1>1. pedidoNota[r].ref = 1 /\ nota.ref = 1 /\ 1 \in F!Refs
    <2>1. pedidoNota[r].ref = 1 /\ nota.ref = 1
      BY PedidoEUm DEF DaUm, F!Consulta
    <2>2. pedidoNota[r].ref \in F!Refs
      BY NotaOps DEF F!Consulta, F!TypeOK
    <2>3. QED
      BY <2>1, <2>2
  <1>2. F!Lido(1) \in F!Resposta /\ F!Lido(1) # "cancelada"
    BY NotaLidos DEF RefUnica, DoEmissor
  <1>3. [op |-> "grava_consulta", ref |-> 1, status |-> F!Lido(1)] \in F!Pedido
    BY <1>1, <1>2, NotaMensagens
  <1>4. CASE F!Falha(r)
    BY <1>4, NotaSoMensagem, NotaMensagens, NotaParou DEF F!Falha, F!Consulta
  <1>5. CASE ~F!Falha(r)
    BY <1>1, <1>2, <1>3, <1>5, NotaSoMensagem DEF F!Consulta, DaUm
  <1>6. QED
    BY <1>4, <1>5

LEMMA GravaConsultaUma ==
  ASSUME F!TypeOK, RefUnica, NEW r \in Pedidos, F!GravaConsulta(r)
  PROVE  RefUnica'
  <1> SUFFICES ASSUME ~liberada PROVE RefUnica'
    BY DEF RefUnica, F!GravaConsulta
  <1>1. nota.ref = 1 /\ pedidoNota[r].status # "cancelada"
    BY PedidoEUm DEF DaUm, F!GravaConsulta
  <1>2. nota'.ref = nota.ref /\ DaNota'
    BY <1>1 DEF F!GravaConsulta, DaNota, F!TypeOK, RefUnica
  <1>3. DosPedidos'
    BY <1>2, NotaPedidosKept, NotaMensagens, NotaParou DEF RefUnica, F!GravaConsulta
  <1>4. QED
    BY <1>2, <1>3 DEF F!GravaConsulta, RefUnica, DoEmissor

\* Who cancels or registers by hand gives the reference up, and what they send is not in flight before.
LEMMA NotaLiberadas ==
  ASSUME RefUnica, NEW r \in Pedidos,
         \/ F!LeParaCancelar(r) \/ F!Cancela(r) \/ F!GravaCancelada(r) \/ F!LeParaRegistrar(r) \/ F!RegistraManual(r)
  PROVE  RefUnica'
  <1>1. CASE F!LeParaCancelar(r) \/ F!LeParaRegistrar(r)
    BY <1>1 DEF RefUnica, F!LeParaCancelar, F!LeParaRegistrar
  <1>2. CASE F!Cancela(r) \/ F!GravaCancelada(r) \/ F!RegistraManual(r)
    <2>1. pedidoNota[r].op \in {"cancela", "grava_cancelada", "manual"} /\ liberada' = liberada
      BY <1>2 DEF F!Cancela, F!GravaCancelada, F!RegistraManual, F!Falha
    <2>2. liberada
      BY <2>1, PedidoEUm DEF DaUm
    <2>3. QED
      BY <2>1, <2>2 DEF RefUnica
  <1>3. QED
    BY <1>1, <1>2

LEMMA PrefeituraUma ==
  ASSUME F!TypeOK, RefUnica, NEW k \in F!Refs, F!Prefeitura(k)
  PROVE  RefUnica'
  <1> SUFFICES ASSUME ~liberada PROVE RefUnica'
    BY DEF RefUnica, F!Prefeitura
  <1>1. DoEmissor'
    BY DEF F!Prefeitura, DoEmissor, RefUnica, F!TypeOK
  <1>2. QED
    BY <1>1 DEF F!Prefeitura, RefUnica, DaNota, DosPedidos, DaUm

LEMMA NextRefUnica ==
  ASSUME MaxRefs \in Nat \ {0}, F!TypeOK, RefUnica, [F!Next]_fiscalVars
  PROVE  RefUnica'
  <1>1. CASE UNCHANGED fiscalVars
    BY <1>1 DEF fiscalVars, RefUnica, DaNota, DoEmissor, DosPedidos, DaUm
  <1>2. CASE F!Next
    BY <1>2, EmitirUma, AceitaUma, RepeteUma, RecusaUma, GravaNotaUma, GravaRecusaUma,
       LeParaConsultarUma, ConsultaUma, GravaConsultaUma, NotaLiberadas, PrefeituraUma
    DEF F!Next
  <1>3. QED
    BY <1>1, <1>2

LEMMA UmaVivaNoMaximo ==
  ASSUME NotaInv
  PROVE  F!OneInvoice
  <1> SUFFICES ASSUME ~liberada PROVE Cardinality(F!Vivas) <= 1
    BY DEF F!OneInvoice, F!Cardinality, Cardinality
  <1>1. F!Vivas \subseteq {1}
    BY DEF NotaInv, RefUnica, DoEmissor, F!Vivas
  <1>2. IsFiniteSet({1}) /\ Cardinality({1}) = 1
    BY FS_Singleton
  <1>3. Cardinality(F!Vivas) <= Cardinality({1})
    BY <1>1, <1>2, FS_Subset
  <1>4. QED
    BY <1>2, <1>3

-----------------------------------------------------------------------------
(* Payment providers (module Provedores)                                    *)
(*                                                                         *)
(* Whoever may be asked again for a charge answers with the one there is    *)
(* (the key is that of the payment), and whoever has no key is asked once   *)
(* (UmaInv).  A charge has an identifier only when its creation is over     *)
(* (IdInv).  What is read of the provider is true of it from then on        *)
(* (SabeInv), since an event tells of something that is not undone          *)
(* (EventosInv).                                                            *)

\* What is kept of a payment, of any size.
CobrancaTipo ==
    /\ psp \in {"cora", "mercadopago", "asaas", "mock"}
    /\ pagamento \in [status : {"nenhum", "pendente", "confirmado", "falhou", "estornado"}, id : Nat]
    /\ criacao \in [fase : {"nada", "envia", "repete", "espera", "grava"}, confirmada : BOOLEAN]
    /\ postagens \in Nat
    /\ cobrancas \in Seq(V!Estados)
    /\ lidas \subseteq {"confirmed", "failed", "refunded"}

\* A payment has one charge, except by page, and nothing on its way makes another.
UmaInv ==
    /\ psp # "mercadopago" => Len(cobrancas) <= 1 /\ paginas = 0
    /\ psp \in {"asaas", "mock"} =>
         /\ postagens + Len(cobrancas) <= 1
         /\ pagamento.status = "nenhum" \/ criacao.fase = "envia" => postagens = 0 /\ Len(cobrancas) = 0
         /\ criacao.fase # "repete"

\* While a charge is being created it has no identifier, and nothing is read of a payment without one.
IdInv ==
    /\ psp # "mercadopago" => pagamento.id <= Len(cobrancas)
    /\ criacao.fase # "nada" => pagamento.id = 0 /\ pagamento.status # "nenhum"
    /\ criacao.fase = "grava" /\ criacao.confirmada => psp = "cora" /\ V!Algum("paga")
    /\ lidas # {} => pagamento.id > 0

\* An event is of a charge that was so once.
EventosInv ==
    \A ev \in eventos :
        /\ ev[1] \in V!Ids
        /\ ev[2] = "paga" => cobrancas[ev[1]] \in {"paga", "devolvida"}
        /\ ev[2] = "devolvida" => cobrancas[ev[1]] = "devolvida"

\* Nothing read or written is ahead of the provider, which does not go back.
Pagou == V!Algum("paga") \/ V!Algum("devolvida")
SabeInv ==
    /\ psp = "cora" => ~V!Algum("devolvida")
    /\ "confirmed" \in lidas \/ pagamento.status = "confirmado" => Pagou
    /\ "refunded" \in lidas \/ pagamento.status = "estornado" => V!Algum("devolvida")
    /\ psp = "cora" /\ pagamento.id > 0 /\ ("failed" \in lidas \/ pagamento.status = "falhou") =>
         cobrancas[pagamento.id] = "cancelada"

ChargesInv == CobrancaTipo /\ UmaInv /\ IdInv /\ EventosInv /\ SabeInv

\* The provider goes on: charges are added, opened ones are paid or cancelled, paid ones returned.
Adiante ==
    /\ cobrancas' \in Seq(V!Estados) /\ Len(cobrancas) <= Len(cobrancas')
    /\ \A i \in V!Ids :
          \/ cobrancas'[i] = cobrancas[i]
          \/ cobrancas[i] = "aberta" /\ cobrancas'[i] \in {"paga", "cancelada"}
          \/ cobrancas[i] = "paga" /\ cobrancas'[i] = "devolvida"

LEMMA NaoVolta ==
  ASSUME CobrancaTipo, Adiante
  PROVE  /\ \A i \in V!Ids : i \in V!Ids'
         /\ Pagou => Pagou'
         /\ V!Algum("devolvida") => V!Algum("devolvida")'
         /\ \A i \in V!Ids : cobrancas[i] = "cancelada" => cobrancas'[i] = "cancelada"
  <1>1. ASSUME NEW i \in V!Ids PROVE i \in V!Ids'
    <2>1. Len(cobrancas) \in Nat /\ Len(cobrancas') \in Nat /\ Len(cobrancas) <= Len(cobrancas')
      BY DEF CobrancaTipo, Adiante
    <2>2. V!Ids = 1..Len(cobrancas) /\ V!Ids' = 1..Len(cobrancas')
      BY DEF CobrancaTipo, Adiante, V!Ids
    <2>3. QED
      BY <2>1, <2>2
  <1>2. \A i \in V!Ids : cobrancas[i] \in {"paga", "devolvida"} => cobrancas'[i] \in {"paga", "devolvida"}
    BY DEF Adiante
  <1>3. \A i \in V!Ids : cobrancas[i] \in {"cancelada", "devolvida"} => cobrancas'[i] = cobrancas[i]
    BY DEF Adiante
  <1>4. Pagou => Pagou'
    BY <1>1, <1>2 DEF Pagou, V!Algum
  <1>5. V!Algum("devolvida") => V!Algum("devolvida")'
    BY <1>1, <1>3 DEF V!Algum
  <1>6. QED
    BY <1>1, <1>3, <1>4, <1>5

LEMMA EventosFicam ==
  ASSUME CobrancaTipo, EventosInv, Adiante
  PROVE  \A ev \in eventos :
            /\ ev[1] \in V!Ids'
            /\ ev[2] = "paga" => cobrancas'[ev[1]] \in {"paga", "devolvida"}
            /\ ev[2] = "devolvida" => cobrancas'[ev[1]] = "devolvida"
  <1>1. ASSUME NEW ev \in eventos
        PROVE  /\ ev[1] \in V!Ids'
               /\ ev[2] = "paga" => cobrancas'[ev[1]] \in {"paga", "devolvida"}
               /\ ev[2] = "devolvida" => cobrancas'[ev[1]] = "devolvida"
    <2>1. PICK i \in V!Ids : i = ev[1]
      BY DEF EventosInv
    <2>2. i \in V!Ids'
      BY NaoVolta
    <2>3. QED
      BY <2>1, <2>2 DEF EventosInv, Adiante
  <1>2. QED
    BY <1>1

\* One charge changes, and an event tells of it.
LEMMA Mudou ==
  ASSUME CobrancaTipo, EventosInv, NEW i \in V!Ids, NEW e, V!Muda(i, e),
         \/ cobrancas[i] = "aberta" /\ e \in {"paga", "cancelada"}
         \/ cobrancas[i] = "paga" /\ e = "devolvida"
  PROVE  Adiante /\ EventosInv' /\ Len(cobrancas') = Len(cobrancas) /\ cobrancas'[i] = e
         /\ (V!Algum("devolvida")' => V!Algum("devolvida") \/ e = "devolvida")
  <1>1. V!Ids = 1..Len(cobrancas) /\ Len(cobrancas) \in Nat /\ cobrancas \in [1..Len(cobrancas) -> V!Estados]
    BY DEF CobrancaTipo, V!Ids
  <1>2. e \in V!Estados
    BY DEF V!Estados
  <1>3. cobrancas' = [cobrancas EXCEPT ![i] = e] /\ eventos' = eventos \cup {<<i, e>>}
    BY DEF V!Muda
  <1>4. cobrancas' \in Seq(V!Estados) /\ Len(cobrancas') = Len(cobrancas) /\ V!Ids' = V!Ids
    BY <1>1, <1>2, <1>3, ExceptSeq DEF CobrancaTipo, V!Ids
  <1>5. cobrancas'[i] = e /\ \A j \in V!Ids : j # i => cobrancas'[j] = cobrancas[j]
    BY <1>1, <1>3
  <1>6. Adiante
    BY <1>1, <1>4, <1>5 DEF Adiante
  <1>7. EventosInv'
    <2>1. ASSUME NEW ev \in eventos'
          PROVE  /\ ev[1] \in V!Ids'
                 /\ ev[2] = "paga" => cobrancas'[ev[1]] \in {"paga", "devolvida"}
                 /\ ev[2] = "devolvida" => cobrancas'[ev[1]] = "devolvida"
      <3>1. CASE ev \in eventos
        BY <1>6, <3>1, EventosFicam
      <3>2. CASE ev = <<i, e>>
        BY <1>4, <1>5, <3>2
      <3>3. QED
        BY <1>3, <3>1, <3>2
    <2>2. QED
      BY <2>1 DEF EventosInv
  <1>8. V!Algum("devolvida")' => V!Algum("devolvida") \/ e = "devolvida"
    BY <1>4, <1>5 DEF V!Algum
  <1>9. QED
    BY <1>4, <1>5, <1>6, <1>7, <1>8

\* One charge is added.
LEMMA Somou ==
  ASSUME CobrancaTipo, NEW e \in V!Estados, cobrancas' = Append(cobrancas, e)
  PROVE  /\ Adiante /\ Len(cobrancas') = Len(cobrancas) + 1 /\ cobrancas'[Len(cobrancas) + 1] = e
         /\ Len(cobrancas) + 1 \in V!Ids'
         /\ V!Algum("devolvida")' => V!Algum("devolvida") \/ e = "devolvida"
  <1>1. V!Ids = 1..Len(cobrancas) /\ Len(cobrancas) \in Nat
    BY DEF CobrancaTipo, V!Ids
  <1>2. cobrancas' \in Seq(V!Estados) /\ Len(cobrancas') = Len(cobrancas) + 1
    BY DEF CobrancaTipo
  <1>3. V!Ids' = 1..(Len(cobrancas) + 1)
    BY <1>2 DEF V!Ids
  <1>4. cobrancas'[Len(cobrancas) + 1] = e /\ \A j \in V!Ids : cobrancas'[j] = cobrancas[j]
    BY <1>1 DEF CobrancaTipo
  <1>5. Adiante
    BY <1>1, <1>2, <1>4 DEF Adiante
  <1>6. V!Algum("devolvida")' => V!Algum("devolvida") \/ e = "devolvida"
    <2>1. \A j \in V!Ids' : j \in V!Ids \/ j = Len(cobrancas) + 1
      BY <1>1, <1>3
    <2>2. QED
      BY <1>4, <2>1 DEF V!Algum
  <1>7. Len(cobrancas) + 1 \in V!Ids'
    BY <1>1, <1>3
  <1>8. QED
    BY <1>2, <1>4, <1>5, <1>6, <1>7

\* The site moves, the provider does not.
LEMMA ProvedorQuieto ==
  ASSUME ChargesInv, UNCHANGED <<psp, cobrancas, eventos>>
  PROVE  /\ EventosInv' /\ Pagou' = Pagou /\ V!Ids' = V!Ids
         /\ \A e : V!Algum(e)' = V!Algum(e)
  BY DEF ChargesInv, EventosInv, Pagou, V!Algum, V!Ids

LEMMA ReivindicaKeeps ==
  ASSUME ChargesInv, V!Reivindica
  PROVE  ChargesInv'
  <1>1. /\ pagamento'.status = "pendente" /\ pagamento'.id = 0 /\ criacao'.fase = "envia" /\ lidas = {}
        /\ UNCHANGED <<psp, lidas, postagens, cobrancas, paginas, eventos>>
    BY DEF V!Reivindica, ChargesInv, CobrancaTipo, IdInv
  <1>2. CobrancaTipo'
    BY <1>1 DEF V!Reivindica, ChargesInv, CobrancaTipo
  <1>3. UmaInv'
    BY <1>1 DEF V!Reivindica, V!TentaDeNovo, V!ComChave, ChargesInv, UmaInv
  <1>4. IdInv'
    <2>1. Len(cobrancas) \in Nat
      BY DEF ChargesInv, CobrancaTipo
    <2>2. QED
      BY <1>1, <2>1 DEF IdInv
  <1>5. SabeInv'
    BY <1>1, ProvedorQuieto DEF ChargesInv, SabeInv
  <1>6. QED
    BY <1>1, <1>2, <1>3, <1>4, <1>5, ProvedorQuieto DEF ChargesInv

LEMMA EnviaKeeps ==
  ASSUME ChargesInv, V!Envia
  PROVE  ChargesInv'
  <1>1. /\ criacao.fase \in {"envia", "repete"} /\ criacao'.fase \in {"repete", "espera"}
        /\ criacao'.fase = "repete" => psp = "cora"
        /\ criacao' = [criacao EXCEPT !.fase = criacao'.fase]
        /\ postagens' \in {postagens, postagens + 1}
        /\ UNCHANGED <<psp, pagamento, lidas, cobrancas, paginas, eventos>>
    BY DEF V!Envia, ChargesInv, CobrancaTipo
  <1>2. CobrancaTipo'
    BY <1>1 DEF ChargesInv, CobrancaTipo
  <1>3. UmaInv'
    <2>1. postagens \in Nat /\ Len(cobrancas) \in Nat
      BY DEF ChargesInv, CobrancaTipo
    <2>2. QED
      BY <1>1, <2>1 DEF ChargesInv, UmaInv, IdInv
  <1>4. IdInv'
    BY <1>1 DEF ChargesInv, IdInv
  <1>5. SabeInv'
    BY <1>1, ProvedorQuieto DEF ChargesInv, SabeInv
  <1>6. QED
    BY <1>1, <1>2, <1>3, <1>4, <1>5, ProvedorQuieto DEF ChargesInv

LEMMA ChegaKeeps ==
  ASSUME ChargesInv, V!Chega
  PROVE  ChargesInv'
  <1>1. /\ postagens > 0 /\ postagens' = postagens - 1
        /\ UNCHANGED <<psp, pagamento, criacao, lidas, eventos>>
    BY DEF V!Chega, V!localVars
  <1>2. postagens \in Nat /\ postagens' \in Nat /\ Len(cobrancas) \in Nat
    BY <1>1 DEF ChargesInv, CobrancaTipo
  <1>3. CASE cobrancas' = cobrancas
    <2>1. CobrancaTipo'
      BY <1>1, <1>2, <1>3 DEF ChargesInv, CobrancaTipo
    <2>2. psp # "mercadopago" => paginas' = paginas
      BY DEF V!Chega
    <2>3. UmaInv'
      BY <1>1, <1>2, <1>3, <2>2 DEF ChargesInv, UmaInv
    <2>4. IdInv' /\ SabeInv'
      BY <1>1, <1>3, ProvedorQuieto DEF ChargesInv, IdInv, SabeInv
    <2>5. QED
      BY <1>1, <1>3, <2>1, <2>3, <2>4, ProvedorQuieto DEF ChargesInv
  <1>4. CASE cobrancas' # cobrancas
    <2>1. psp # "mercadopago" /\ cobrancas' = Append(cobrancas, "aberta") /\ paginas' = paginas
          /\ (psp = "cora" => cobrancas = <<>>)
      BY <1>4 DEF V!Chega
    <2>2. /\ Adiante /\ Len(cobrancas') = Len(cobrancas) + 1
          /\ V!Algum("devolvida")' => V!Algum("devolvida")
      BY <2>1, Somou DEF ChargesInv, V!Estados
    <2>3. CobrancaTipo'
      BY <1>1, <1>2, <2>2 DEF ChargesInv, CobrancaTipo, Adiante
    <2>4. UmaInv'
      <3>1. psp = "cora" => Len(cobrancas) = 0
        BY <2>1
      <3>2. psp \in {"cora", "asaas", "mock"}
        BY <2>1 DEF ChargesInv, CobrancaTipo
      <3>3. psp # "cora" => Len(cobrancas) = 0 /\ postagens = 1 /\ pagamento.status # "nenhum"
                            /\ criacao.fase # "envia"
        BY <1>1, <1>2, <3>2 DEF ChargesInv, UmaInv
      <3>4. Len(cobrancas') = 1 /\ (psp # "cora" => postagens' = 0)
        BY <1>1, <2>2, <3>1, <3>3
      <3>5. QED
        BY <1>1, <2>1, <3>3, <3>4 DEF ChargesInv, UmaInv
    <2>5. pagamento.id > 0 => psp # "cora"
      BY <2>1 DEF ChargesInv, IdInv, CobrancaTipo
    <2>6. Pagou => Pagou'
      BY <2>2, NaoVolta DEF ChargesInv
    <2>7. V!Algum("devolvida")' <=> V!Algum("devolvida")
      BY <2>2, NaoVolta DEF ChargesInv
    <2>8. IdInv'
      <3>1. pagamento.id \in Nat
        BY DEF ChargesInv, CobrancaTipo
      <3>2. ~(criacao.fase = "grava" /\ criacao.confirmada)
        BY <2>1 DEF ChargesInv, IdInv, V!Algum, V!Ids
      <3>3. QED
        BY <1>1, <1>2, <2>2, <3>1, <3>2 DEF ChargesInv, IdInv
    <2>9. SabeInv'
      BY <1>1, <2>5, <2>6, <2>7 DEF ChargesInv, SabeInv
    <2>10. EventosInv'
      BY <1>1, <2>2, EventosFicam DEF ChargesInv, EventosInv
    <2>11. QED
      BY <2>3, <2>4, <2>8, <2>9, <2>10 DEF ChargesInv
  <1>5. QED
    BY <1>3, <1>4

LEMMA RespondeKeeps ==
  ASSUME ChargesInv, V!Responde
  PROVE  ChargesInv'
  <1>1. /\ criacao.fase = "espera" /\ criacao'.fase = "grava"
        /\ criacao'.confirmada = (psp = "cora" /\ cobrancas[1] = "paga")
        /\ UNCHANGED <<psp, pagamento, lidas, postagens, cobrancas, paginas, eventos>>
    BY DEF V!Responde
  <1>2. CobrancaTipo'
    BY <1>1 DEF V!Responde, ChargesInv, CobrancaTipo
  <1>3. UmaInv'
    BY <1>1 DEF ChargesInv, UmaInv
  <1>4. psp = "cora" => cobrancas # <<>>
    BY DEF V!Responde, ChargesInv, UmaInv
  <1>5. psp = "cora" => 1 \in V!Ids
    BY <1>4 DEF ChargesInv, CobrancaTipo, V!Ids
  <1>6. IdInv'
    BY <1>1, <1>5, ProvedorQuieto DEF ChargesInv, IdInv, V!Algum
  <1>7. SabeInv'
    BY <1>1, ProvedorQuieto DEF ChargesInv, SabeInv
  <1>8. QED
    BY <1>1, <1>2, <1>3, <1>6, <1>7, ProvedorQuieto DEF ChargesInv

LEMMA GravaKeeps ==
  ASSUME ChargesInv, V!Grava
  PROVE  ChargesInv'
  <1>1. /\ criacao.fase = "grava" /\ criacao'.fase = "nada" /\ criacao'.confirmada = FALSE
        /\ pagamento'.status = IF criacao.confirmada THEN "confirmado" ELSE "pendente"
        /\ pagamento'.id = IF psp = "mercadopago" THEN 1 ELSE Len(cobrancas)
        /\ UNCHANGED <<psp, lidas, postagens, cobrancas, paginas, eventos>>
    BY DEF V!Grava, V!Parada
  <1>2. Len(cobrancas) \in Nat
    BY DEF ChargesInv, CobrancaTipo
  <1>3. CobrancaTipo'
    BY <1>1, <1>2 DEF V!Grava, V!Parada, ChargesInv, CobrancaTipo
  <1>4. UmaInv'
    BY <1>1 DEF ChargesInv, UmaInv
  <1>5. lidas = {} /\ (criacao.confirmada => V!Algum("paga"))
    BY <1>1 DEF ChargesInv, IdInv, CobrancaTipo
  <1>6. IdInv'
    BY <1>1, <1>2, <1>5 DEF IdInv
  <1>7. SabeInv'
    <2>1. criacao.confirmada => Pagou
      BY <1>5 DEF Pagou
    <2>2. QED
      BY <1>1, <1>5, <2>1, ProvedorQuieto DEF ChargesInv, SabeInv, CobrancaTipo
  <1>8. QED
    BY <1>1, <1>3, <1>4, <1>6, <1>7, ProvedorQuieto DEF ChargesInv

LEMMA SemRespostaKeeps ==
  ASSUME ChargesInv, V!SemResposta
  PROVE  ChargesInv'
  <1>1. /\ criacao.fase \in {"envia", "repete", "espera"} /\ criacao' = V!Parada
        /\ pagamento'.status = (IF pagamento.status = "pendente" THEN "falhou" ELSE pagamento.status)
        /\ pagamento'.id = 0 /\ pagamento.id = 0 /\ lidas = {}
        /\ UNCHANGED <<psp, lidas, postagens, cobrancas, paginas, eventos>>
    BY DEF V!SemResposta, ChargesInv, CobrancaTipo, IdInv
  <1>2. CobrancaTipo'
    BY <1>1 DEF V!SemResposta, V!Parada, ChargesInv, CobrancaTipo
  <1>3. UmaInv'
    BY <1>1 DEF V!Parada, ChargesInv, UmaInv, IdInv
  <1>4. IdInv'
    BY <1>1 DEF V!Parada, ChargesInv, IdInv
  <1>5. SabeInv'
    BY <1>1, ProvedorQuieto DEF ChargesInv, SabeInv
  <1>6. QED
    BY <1>1, <1>2, <1>3, <1>4, <1>5, ProvedorQuieto DEF ChargesInv

LEMMA ParaKeeps ==
  ASSUME ChargesInv, V!Para
  PROVE  ChargesInv'
  <1>1. criacao' = V!Parada /\ lidas' = {} /\ UNCHANGED <<psp, pagamento, postagens, cobrancas, paginas, eventos>>
    BY DEF V!Para
  <1>2. CobrancaTipo'
    BY <1>1 DEF V!Parada, ChargesInv, CobrancaTipo
  <1>3. UmaInv' /\ IdInv'
    BY <1>1 DEF V!Parada, ChargesInv, UmaInv, IdInv
  <1>4. SabeInv'
    BY <1>1, ProvedorQuieto DEF ChargesInv, SabeInv
  <1>5. QED
    BY <1>1, <1>2, <1>3, <1>4, ProvedorQuieto DEF ChargesInv

LEMMA NadaDePagamento ==
  ASSUME ChargesInv, UNCHANGED <<psp, pagamento, criacao, lidas, postagens, cobrancas, paginas, eventos>>
  PROVE  ChargesInv'
  BY DEF ChargesInv, CobrancaTipo, UmaInv, IdInv, EventosInv, SabeInv, V!Algum, V!Ids, Pagou

LEMMA NoProvedorKeeps ==
  ASSUME ChargesInv, V!NoProvedor
  PROVE  ChargesInv'
  <1> PICK n : n = Len(cobrancas)
    OBVIOUS
  <1>1. UNCHANGED <<psp, pagamento, criacao, lidas, postagens, paginas>> /\ n \in Nat
    BY DEF V!NoProvedor, V!localVars, ChargesInv, CobrancaTipo
  <1>2. ASSUME Adiante, EventosInv', psp # "mercadopago" => Len(cobrancas') = n,
               V!Algum("devolvida")' => V!Algum("devolvida") \/ psp # "cora",
               psp = "cora" /\ criacao.fase = "grava" /\ criacao.confirmada => V!Algum("paga")'
        PROVE  ChargesInv'
    <2>1. CobrancaTipo'
      BY <1>1, <1>2 DEF Adiante, ChargesInv, CobrancaTipo
    <2>2. UmaInv'
      BY <1>1, <1>2 DEF ChargesInv, UmaInv
    <2>3. IdInv'
      BY <1>1, <1>2 DEF ChargesInv, IdInv
    <2>4. psp = "cora" /\ pagamento.id > 0 => pagamento.id \in V!Ids
      BY <1>1 DEF ChargesInv, IdInv, CobrancaTipo, V!Ids
    <2>5. SabeInv'
      BY <1>1, <1>2, <2>4, NaoVolta DEF ChargesInv, SabeInv
    <2>6. QED
      BY <1>2, <2>1, <2>2, <2>3, <2>5 DEF ChargesInv
  <1>3. ASSUME NEW i \in V!Ids, NEW e, V!Muda(i, e),
               \/ cobrancas[i] = "aberta" /\ e \in {"paga", "cancelada"}
               \/ cobrancas[i] = "paga" /\ e = "devolvida" /\ psp # "cora"
        PROVE  ChargesInv'
    <2>1. /\ Adiante /\ EventosInv' /\ Len(cobrancas') = n
          /\ V!Algum("devolvida")' => V!Algum("devolvida") \/ e = "devolvida"
      BY <1>3, Mudou DEF ChargesInv
    <2>2. psp = "cora" /\ V!Algum("paga") => V!Algum("paga")'
      <3>1. \A k \in V!Ids : k \in V!Ids' /\ (psp = "cora" /\ cobrancas[k] = "paga" => cobrancas'[k] = "paga")
        <4>1. V!Ids' = V!Ids
          BY <2>1 DEF Adiante, ChargesInv, CobrancaTipo, V!Ids
        <4>2. psp = "cora" => cobrancas[i] = "aberta"
          BY <1>3
        <4>3. \A k \in V!Ids : k # i => cobrancas'[k] = cobrancas[k]
          BY <1>3 DEF V!Muda, V!Ids, ChargesInv, CobrancaTipo
        <4>4. QED
          BY <4>1, <4>2, <4>3
      <3>2. QED
        BY <3>1 DEF V!Algum
    <2>3. QED
      BY <1>2, <1>3, <2>1, <2>2 DEF ChargesInv, IdInv
  <1>4. ASSUME paginas > 0, NEW e \in {"paga", "recusada", "cancelada"}, cobrancas' = Append(cobrancas, e),
               eventos' = eventos \cup {<<n + 1, e>>}
        PROVE  ChargesInv'
    <2>1. psp = "mercadopago"
      BY <1>4 DEF ChargesInv, UmaInv
    <2>2. e \in V!Estados
      BY DEF V!Estados
    <2>3. /\ Adiante /\ cobrancas'[n + 1] = e /\ n + 1 \in V!Ids'
      BY <1>4, <2>2, Somou DEF ChargesInv
    <2>4. EventosInv'
      <3>1. ASSUME NEW ev \in eventos'
            PROVE  /\ ev[1] \in V!Ids'
                   /\ ev[2] = "paga" => cobrancas'[ev[1]] \in {"paga", "devolvida"}
                   /\ ev[2] = "devolvida" => cobrancas'[ev[1]] = "devolvida"
        <4>1. CASE ev \in eventos
          BY <2>3, <4>1, EventosFicam DEF ChargesInv
        <4>2. CASE ev = <<n + 1, e>>
          BY <2>3, <4>2
        <4>3. QED
          BY <1>4, <4>1, <4>2
      <3>2. QED
        BY <3>1 DEF EventosInv
    <2>5. QED
      BY <1>2, <2>1, <2>3, <2>4
  <1>5. QED
    BY <1>3, <1>4 DEF V!NoProvedor

\* An answer of the provider is true when it is read.
LEMMA LeKeeps ==
  ASSUME ChargesInv, NEW r, V!Le(r), r \in {"confirmed", "failed", "refunded"}, pagamento.id > 0,
         UNCHANGED <<psp, pagamento, criacao, postagens, cobrancas, paginas, eventos>>,
         r = "confirmed" => Pagou, r = "refunded" => V!Algum("devolvida"),
         r = "failed" /\ psp = "cora" => cobrancas[pagamento.id] = "cancelada"
  PROVE  ChargesInv'
  <1>1. lidas' = lidas \cup {r}
    BY DEF V!Le
  <1>2. CobrancaTipo' /\ UmaInv'
    BY <1>1 DEF ChargesInv, CobrancaTipo, UmaInv
  <1>3. IdInv'
    BY <1>1, ProvedorQuieto DEF ChargesInv, IdInv
  <1>4. SabeInv'
    BY <1>1, ProvedorQuieto DEF ChargesInv, SabeInv
  <1>5. QED
    BY <1>2, <1>3, <1>4, ProvedorQuieto DEF ChargesInv

\* The identifier of a payment at Cora is that of its only charge.
LEMMA ADaCora ==
  ASSUME ChargesInv, psp # "mercadopago", pagamento.id > 0
  PROVE  pagamento.id = 1 /\ V!Ids = {1} /\ 1 \in V!Ids /\ Len(cobrancas) = 1
  <1> PICK n, k : n = Len(cobrancas) /\ k = pagamento.id
    OBVIOUS
  <1>1. n \in Nat /\ k \in Nat /\ V!Ids = 1..n
    BY DEF ChargesInv, CobrancaTipo, V!Ids
  <1>2. n <= 1
    BY DEF ChargesInv, UmaInv
  <1>3. k <= n
    BY DEF ChargesInv, IdInv
  <1>4. k > 0
    OBVIOUS
  <1>5. n = 1 /\ k = 1
    BY <1>1, <1>2, <1>3, <1>4
  <1>6. QED
    BY <1>1, <1>5

LEMMA AvisoKeeps ==
  ASSUME ChargesInv, V!Aviso
  PROVE  ChargesInv'
  <1>1. PICK ev \in eventos : /\ psp = "mercadopago" \/ ev[1] = pagamento.id
                              /\ V!Resolve(ev) # "pending" /\ V!Le(V!Resolve(ev))
    BY DEF V!Aviso
  <1>2. pagamento.id > 0 /\ UNCHANGED <<psp, pagamento, criacao, postagens, cobrancas, paginas, eventos>>
    BY DEF V!Aviso
  <1>3. ev[1] \in V!Ids
    BY <1>1 DEF ChargesInv, EventosInv
  <1>4. V!Resolve(ev) \in {"confirmed", "failed", "refunded"}
    BY <1>1 DEF V!Resolve, V!mapStatus
  <1>5. CASE psp \in V!ComChave
    <2>1. V!Resolve(ev) = V!mapStatus(cobrancas[ev[1]])
      BY <1>5 DEF V!Resolve
    <2>2. /\ V!Resolve(ev) = "confirmed" => cobrancas[ev[1]] = "paga"
          /\ V!Resolve(ev) = "refunded" => cobrancas[ev[1]] = "devolvida"
          /\ V!Resolve(ev) = "failed" => cobrancas[ev[1]] = "cancelada"
      BY <2>1 DEF V!mapStatus
    <2>3. /\ V!Resolve(ev) = "confirmed" => Pagou
          /\ V!Resolve(ev) = "refunded" => V!Algum("devolvida")
      BY <1>3, <2>2 DEF Pagou, V!Algum
    <2>4. V!Resolve(ev) = "failed" /\ psp = "cora" => cobrancas[pagamento.id] = "cancelada"
      BY <1>1, <2>2
    <2>5. QED
      BY <1>1, <1>2, <1>4, <2>3, <2>4, LeKeeps
  <1>6. CASE psp \notin V!ComChave
    <2>1. V!Resolve(ev) = V!mapStatus(ev[2])
      BY <1>6 DEF V!Resolve
    <2>2. /\ V!Resolve(ev) = "confirmed" => ev[2] = "paga"
          /\ V!Resolve(ev) = "refunded" => ev[2] = "devolvida"
      BY <2>1 DEF V!mapStatus
    <2>3. /\ V!Resolve(ev) = "confirmed" => Pagou
          /\ V!Resolve(ev) = "refunded" => V!Algum("devolvida")
      BY <1>3, <2>2 DEF ChargesInv, EventosInv, Pagou, V!Algum
    <2>4. psp # "cora"
      BY <1>6 DEF V!ComChave
    <2>5. QED
      BY <1>1, <1>2, <1>4, <2>3, <2>4, LeKeeps
  <1>7. QED
    BY <1>5, <1>6

LEMMA ConsultaKeeps ==
  ASSUME ChargesInv, V!Consulta
  PROVE  ChargesInv'
  <1> PICK r : r = V!fetchStatus(pagamento.id)
    OBVIOUS
  <1>1. /\ pagamento.id > 0 /\ psp \in V!ComChave /\ r # "pending" /\ V!Le(r)
        /\ UNCHANGED <<psp, pagamento, criacao, postagens, cobrancas, paginas, eventos>>
    BY DEF V!Consulta
  <1>2. r \in {"confirmed", "failed", "refunded"}
    BY <1>1 DEF V!fetchStatus, V!mapStatus
  <1>3. CASE psp = "mercadopago"
    BY <1>1, <1>2, <1>3, LeKeeps DEF V!fetchStatus, Pagou
  <1>4. CASE psp # "mercadopago"
    <2>1. r = V!mapStatus(cobrancas[pagamento.id]) /\ pagamento.id \in V!Ids
      BY <1>1, <1>4, ADaCora DEF V!fetchStatus
    <2>2. /\ r = "confirmed" => cobrancas[pagamento.id] = "paga"
          /\ r = "refunded" => cobrancas[pagamento.id] = "devolvida"
          /\ r = "failed" => cobrancas[pagamento.id] = "cancelada"
      BY <2>1 DEF V!mapStatus
    <2>3. /\ r = "confirmed" => Pagou
          /\ r = "refunded" => V!Algum("devolvida")
      BY <2>1, <2>2 DEF Pagou, V!Algum
    <2>4. QED
      BY <1>1, <1>2, <2>2, <2>3, LeKeeps
  <1>5. QED
    BY <1>3, <1>4

LEMMA AplicaKeeps ==
  ASSUME ChargesInv, V!Aplica
  PROVE  ChargesInv'
  <1>1. PICK r \in lidas :
          /\ lidas' = lidas \ {r}
          /\ pagamento' = [pagamento EXCEPT !.status =
                CASE @ = "estornado" -> @
                  [] r = "confirmed" -> "confirmado"
                  [] r = "refunded" -> "estornado"
                  [] r = "failed" /\ @ # "confirmado" -> "falhou"
                  [] OTHER -> @]
    BY DEF V!Aplica
  <1>2. UNCHANGED <<psp, criacao, postagens, cobrancas, paginas, eventos>>
    BY DEF V!Aplica
  <1>3. pagamento.id > 0 /\ criacao.fase = "nada" /\ r \in {"confirmed", "failed", "refunded"}
    BY DEF ChargesInv, CobrancaTipo, IdInv
  <1>4. /\ pagamento'.id = pagamento.id
        /\ pagamento'.status \in {"nenhum", "pendente", "confirmado", "falhou", "estornado"}
        /\ pagamento'.status = "confirmado" => r = "confirmed" \/ pagamento.status = "confirmado"
        /\ pagamento'.status = "estornado" => r = "refunded" \/ pagamento.status = "estornado"
        /\ pagamento'.status = "falhou" => r = "failed" \/ pagamento.status = "falhou"
        /\ pagamento'.status = "nenhum" => pagamento.status = "nenhum"
        /\ pagamento' = [pagamento EXCEPT !.status = pagamento'.status]
    BY <1>1, <1>3 DEF ChargesInv, CobrancaTipo
  <1>5. CobrancaTipo'
    BY <1>1, <1>2, <1>4 DEF ChargesInv, CobrancaTipo
  <1>6. UmaInv'
    BY <1>2, <1>3, <1>4 DEF ChargesInv, UmaInv
  <1>7. IdInv'
    BY <1>2, <1>3, <1>4 DEF ChargesInv, IdInv
  <1>8. SabeInv'
    BY <1>1, <1>2, <1>4, ProvedorQuieto DEF ChargesInv, SabeInv
  <1>9. QED
    BY <1>2, <1>5, <1>6, <1>7, <1>8, ProvedorQuieto DEF ChargesInv

LEMMA CancelaEncerradaKeeps ==
  ASSUME ChargesInv, V!CancelaEncerrada
  PROVE  ChargesInv'
  <1>1. /\ pagamento.id > 0 /\ psp \in V!ComChave /\ pagamento.status = "pendente"
        /\ pagamento' = [pagamento EXCEPT !.status = "falhou"]
        /\ UNCHANGED <<psp, criacao, lidas, postagens, paginas>>
    BY DEF V!CancelaEncerrada
  <1>2. criacao.fase = "nada" /\ pagamento'.id = pagamento.id /\ pagamento'.status = "falhou"
    BY <1>1 DEF ChargesInv, CobrancaTipo, IdInv
  <1>3. ASSUME Adiante, EventosInv', Len(cobrancas') = Len(cobrancas), V!Algum("devolvida")' => V!Algum("devolvida"),
               psp = "cora" => cobrancas'[pagamento.id] = "cancelada"
        PROVE  ChargesInv'
    <2>1. CobrancaTipo'
      BY <1>1, <1>3 DEF Adiante, ChargesInv, CobrancaTipo
    <2>2. UmaInv'
      BY <1>1, <1>2, <1>3 DEF ChargesInv, UmaInv
    <2>3. IdInv'
      BY <1>1, <1>2, <1>3 DEF ChargesInv, IdInv
    <2>4. SabeInv'
      BY <1>1, <1>2, <1>3, NaoVolta DEF ChargesInv, SabeInv
    <2>5. QED
      BY <1>3, <2>1, <2>2, <2>3, <2>4 DEF ChargesInv
  <1>4. CASE psp = "cora"
    <2>1. cobrancas[pagamento.id] = "aberta" /\ V!Muda(pagamento.id, "cancelada") /\ pagamento.id \in V!Ids
      BY <1>1, <1>4, ADaCora DEF V!CancelaEncerrada
    <2>2. QED
      BY <1>3, <2>1, Mudou DEF ChargesInv
  <1>5. CASE psp # "cora"
    <2>1. UNCHANGED <<cobrancas, eventos>>
      BY <1>5 DEF V!CancelaEncerrada
    <2>2. QED
      BY <1>1, <1>3, <1>5, <2>1, ProvedorQuieto DEF ChargesInv, Adiante, CobrancaTipo
  <1>6. QED
    BY <1>4, <1>5

LEMMA ChargesNext ==
  ASSUME ChargesInv, [V!Next]_V!vars
  PROVE  ChargesInv'
  <1>1. CASE V!TokenVence \/ V!Expira \/ UNCHANGED V!vars
    BY <1>1, NadaDePagamento DEF V!TokenVence, V!Expira, V!vars, V!localVars
  <1>2. QED
    BY <1>1, ReivindicaKeeps, EnviaKeeps, ChegaKeeps, RespondeKeeps, GravaKeeps, SemRespostaKeeps, ParaKeeps,
       NoProvedorKeeps, AvisoKeeps, ConsultaKeeps, AplicaKeeps, CancelaEncerradaKeeps DEF V!Next

LEMMA ChargesInit ==
  ASSUME V!Init
  PROVE  ChargesInv
  <1>1. Len(cobrancas) = 0 /\ V!Ids = {} /\ cobrancas \in Seq(V!Estados)
    BY DEF V!Init, V!Ids
  <1>2. CobrancaTipo
    BY <1>1 DEF V!Init, CobrancaTipo, V!Parada
  <1>3. UmaInv /\ IdInv /\ EventosInv /\ SabeInv
    BY <1>1 DEF V!Init, V!Parada, UmaInv, IdInv, EventosInv, SabeInv, V!Algum
  <1>4. QED
    BY <1>2, <1>3 DEF ChargesInv

LEMMA ChargesInvIsEnough ==
  ASSUME ChargesInv
  PROVE  V!ChargesAreSound
  <1>1. V!OneCharge
    BY DEF ChargesInv, UmaInv, V!OneCharge
  <1>2. V!FailedCannotBePaid
    BY DEF ChargesInv, SabeInv, V!FailedCannotBePaid
  <1>3. pagamento.id > 0 /\ V!Algum("paga") => V!fetchStatus(pagamento.id) = "confirmed"
    <2>1. psp # "mercadopago" /\ pagamento.id > 0 /\ V!Algum("paga") => cobrancas[pagamento.id] = "paga"
      BY ADaCora DEF V!Algum
    <2>2. QED
      BY <2>1 DEF V!fetchStatus, V!mapStatus
  <1>4. V!MoneyIsFound
    BY <1>3 DEF ChargesInv, SabeInv, Pagou, V!MoneyIsFound
  <1>5. QED
    BY <1>1, <1>2, <1>4 DEF V!ChargesAreSound

-----------------------------------------------------------------------------
(* Notices on a device (module Push)                                        *)
(*                                                                         *)
(* Whoever has a key has that of the database, the device included         *)
(* (ChaveInv, AparelhoInv), and every failure that was counted for the     *)
(* live address, in its row or in what a delivery read of it, was refused  *)
(* (FalhasInv).                                                            *)

\* The keys: an instance that has one has that of the database, and so do the device and what it is doing.
Chaves == Instancias \cup {"nenhum"}
ChaveInv ==
    /\ banco \in Chaves /\ memoria \in [Instancias -> Chaves]
    /\ geracao \in [Instancias -> {"parada", "gerou", "gravou"}]
    /\ \A i \in Instancias :
        /\ memoria[i] # "nenhum" => memoria[i] = banco
        /\ geracao[i] = "gravou" => banco # "nenhum"

\* The device: its live address is the last one, of the key of the database, and it is not on while it subscribes.
AparelhoInv ==
    /\ aparelho \in [conta : Donos, vivo : 0..MaxEnderecos, ultimo : 0..MaxEnderecos,
                     chave : [U!Enderecos -> Chaves], ligado : BOOLEAN]
    /\ cliente \in [fase : {"nada", "assina", "salva"}, chave : Chaves]
    /\ cliente.fase = "assina" => cliente.chave = banco /\ banco # "nenhum"
    /\ cliente.fase # "nada" => ~aparelho.ligado
    /\ aparelho.vivo \in {0, aparelho.ultimo}
    /\ aparelho.vivo > 0 => banco # "nenhum" /\ aparelho.chave[aparelho.vivo] = banco
    /\ aparelho.ligado => aparelho.vivo > 0

\* The rows: only addresses that were given have one.
LinhasInv ==
    /\ linhas \in [U!Enderecos -> [dono : Donos \cup {"ninguem"}, falhas : Nat]]
    /\ envio \in [Instancias -> [endereco : 0..MaxEnderecos, falhas : Nat]]
    /\ recusas \in Nat
    /\ \A e \in U!Enderecos : e > aparelho.ultimo => linhas[e] = U!Nenhuma
    /\ \A i \in Instancias : envio[i].endereco <= aparelho.ultimo

\* A row is of an account, and a delivery is of an address.
DonoInv ==
    /\ \A e \in U!Enderecos : linhas[e].dono = "ninguem" => linhas[e] = U!Nenhuma
    /\ \A i \in Instancias : envio[i] # U!Parado => envio[i].endereco \in U!Enderecos

\* The failures counted, in the row or in what was read of it, were refusals; a device that is on without a row was refused
\* as often as it takes.
FalhasInv ==
    aparelho.vivo > 0 =>
        /\ linhas[aparelho.vivo].falhas <= recusas
        /\ \A i \in Instancias : envio[i].endereco = aparelho.vivo => envio[i].falhas <= recusas
        /\ aparelho.ligado /\ linhas[aparelho.vivo] = U!Nenhuma => recusas >= MaxRecusas

PushInv == ChaveInv /\ AparelhoInv /\ LinhasInv /\ DonoInv /\ FalhasInv

\* Addresses and rows.
LEMMA EnderecoVivo ==
  ASSUME AparelhoInv, aparelho.vivo > 0
  PROVE  aparelho.vivo \in U!Enderecos /\ aparelho.vivo = aparelho.ultimo
  BY AparelhosAssumption DEF AparelhoInv, U!Enderecos

\* The keys change: the first pair written stays.
LEMMA LeChaveKeeps ==
  ASSUME PushInv, NEW i \in Instancias, U!Le(i)
  PROVE  PushInv'
  <1>1. ChaveInv'
    BY DEF U!Le, PushInv, ChaveInv
  <1>2. AparelhoInv' /\ LinhasInv' /\ DonoInv' /\ FalhasInv'
    BY DEF U!Le, U!aparelhoVars, PushInv, AparelhoInv, LinhasInv, DonoInv, FalhasInv
  <1>3. QED
    BY <1>1, <1>2 DEF PushInv

LEMMA GravaChavesKeeps ==
  ASSUME PushInv, NEW i \in Instancias, U!GravaChaves(i)
  PROVE  PushInv'
  <1>1. /\ banco # "nenhum" => banco' = banco
        /\ banco' # "nenhum" /\ banco' \in Chaves
    BY AparelhosAssumption DEF U!GravaChaves, PushInv, ChaveInv, Chaves
  <1>2. \A k \in Instancias : memoria[k] # "nenhum" => banco # "nenhum"
    BY DEF PushInv, ChaveInv
  <1>3. ChaveInv'
    BY <1>1, <1>2 DEF U!GravaChaves, PushInv, ChaveInv
  <1>4. AparelhoInv'
    BY <1>1 DEF U!GravaChaves, U!aparelhoVars, PushInv, AparelhoInv
  <1>5. LinhasInv' /\ DonoInv' /\ FalhasInv'
    BY DEF U!GravaChaves, U!aparelhoVars, PushInv, LinhasInv, DonoInv, FalhasInv
  <1>6. QED
    BY <1>3, <1>4, <1>5 DEF PushInv

LEMMA ReleKeeps ==
  ASSUME PushInv, NEW i \in Instancias, U!Rele(i)
  PROVE  PushInv'
  <1>1. U!Vale(i) = banco
    BY DEF U!Rele, U!Vale, PushInv, ChaveInv
  <1>2. ChaveInv'
    BY <1>1 DEF U!Rele, PushInv, ChaveInv
  <1>3. AparelhoInv' /\ LinhasInv' /\ DonoInv' /\ FalhasInv'
    BY DEF U!Rele, U!aparelhoVars, PushInv, AparelhoInv, LinhasInv, DonoInv, FalhasInv
  <1>4. QED
    BY <1>2, <1>3 DEF PushInv

\* The device, without a new address.
LEMMA BuscaChaveKeeps ==
  ASSUME PushInv, NEW i \in Instancias, U!BuscaChave(i)
  PROVE  PushInv'
  <1>1. ChaveInv' /\ LinhasInv' /\ DonoInv' /\ FalhasInv'
    BY DEF U!BuscaChave, U!chavesVars, PushInv, ChaveInv, LinhasInv, DonoInv, FalhasInv
  <1>2. memoria[i] = banco /\ banco # "nenhum" /\ banco \in Chaves
    BY DEF U!BuscaChave, PushInv, ChaveInv
  <1>3. AparelhoInv'
    BY <1>2 DEF U!BuscaChave, U!chavesVars, PushInv, AparelhoInv
  <1>4. QED
    BY <1>1, <1>3 DEF PushInv

\* A new address, of the key of the database: no row, no delivery and no refusal of it yet.
LEMMA Enderecado ==
  ASSUME PushInv, NEW k, k = banco, banco # "nenhum", aparelho.ultimo < MaxEnderecos
  PROVE  LET n == aparelho.ultimo + 1
             a == U!Assinado(k)
         IN  /\ n \in U!Enderecos /\ a.vivo = n /\ a.ultimo = n /\ a.ligado = aparelho.ligado /\ a.conta = aparelho.conta
             /\ a.chave[n] = banco /\ linhas[n] = U!Nenhuma
             /\ a \in [conta : Donos, vivo : 0..MaxEnderecos, ultimo : 0..MaxEnderecos,
                       chave : [U!Enderecos -> Chaves], ligado : BOOLEAN]
             /\ \A i \in Instancias : envio[i].endereco < n
  <1> PICK n : n = aparelho.ultimo + 1
    OBVIOUS
  <1>1. n \in U!Enderecos /\ n \in 0..MaxEnderecos /\ n > aparelho.ultimo
    BY AparelhosAssumption DEF PushInv, AparelhoInv, U!Enderecos
  <1>2. linhas[n] = U!Nenhuma
    BY <1>1 DEF PushInv, LinhasInv
  <1>3. k \in Chaves
    BY DEF PushInv, ChaveInv
  <1>4. [aparelho.chave EXCEPT ![n] = k] \in [U!Enderecos -> Chaves] /\ [aparelho.chave EXCEPT ![n] = k][n] = banco
    BY <1>1, <1>3 DEF PushInv, AparelhoInv
  <1>5. PICK f : f = [aparelho.chave EXCEPT ![n] = k]
    OBVIOUS
  <1>6. U!Assinado(k) = [aparelho EXCEPT !.vivo = n, !.ultimo = n, !.chave = f]
    BY <1>5 DEF U!Assinado
  <1>7. ASSUME NEW i \in Instancias PROVE envio[i].endereco < n
    BY <1>1 DEF PushInv, LinhasInv, AparelhoInv
  <1>8. QED
    BY <1>1, <1>2, <1>4, <1>5, <1>6, <1>7 DEF PushInv, AparelhoInv

\* What a new address needs to keep the invariant: its row is as it was, or was just written; no refusal counts for it.
LEMMA NovoEndereco ==
  ASSUME PushInv, NEW k, k = banco, banco # "nenhum", aparelho.ultimo < MaxEnderecos,
         NEW liga \in {FALSE, aparelho.ligado}, NEW p, cliente' = p,
         p \in [fase : {"nada", "salva"}, chave : Chaves], p.fase # "nada" => ~liga,
         aparelho' = [U!Assinado(k) EXCEPT !.ligado = liga], recusas' = 0, UNCHANGED <<U!chavesVars, envio>>,
         \/ linhas' = linhas /\ ~liga
         \/ linhas' = [linhas EXCEPT ![aparelho.ultimo + 1] = [dono |-> aparelho.conta, falhas |-> 0]]
  PROVE  PushInv'
  <1> PICK n : n = aparelho.ultimo + 1
    OBVIOUS
  <1> PICK a : a = U!Assinado(k)
    OBVIOUS
  <1>1. /\ n \in U!Enderecos /\ a.vivo = n /\ a.ultimo = n /\ a.chave[n] = banco /\ linhas[n] = U!Nenhuma
        /\ a \in [conta : Donos, vivo : 0..MaxEnderecos, ultimo : 0..MaxEnderecos,
                  chave : [U!Enderecos -> Chaves], ligado : BOOLEAN]
        /\ \A i \in Instancias : envio[i].endereco < n
    BY Enderecado
  <1>2. liga \in BOOLEAN
    BY DEF PushInv, AparelhoInv
  <1>3. /\ aparelho'.vivo = n /\ aparelho'.ultimo = n /\ aparelho'.chave = a.chave /\ aparelho'.ligado = liga
        /\ aparelho' \in [conta : Donos, vivo : 0..MaxEnderecos, ultimo : 0..MaxEnderecos,
                          chave : [U!Enderecos -> Chaves], ligado : BOOLEAN]
    BY <1>1, <1>2
  <1>4. ChaveInv'
    BY DEF PushInv, ChaveInv, U!chavesVars
  <1>5. banco' = banco /\ n > 0
    BY <1>1, AparelhosAssumption DEF U!chavesVars, U!Enderecos
  <1>6. AparelhoInv'
    BY <1>1, <1>3, <1>5 DEF AparelhoInv
  <1>7. aparelho.conta \in Donos /\ aparelho.conta # "ninguem"
    BY AparelhosAssumption DEF PushInv, AparelhoInv
  <1>8. /\ linhas' \in [U!Enderecos -> [dono : Donos \cup {"ninguem"}, falhas : Nat]]
        /\ linhas'[n].falhas = 0 /\ (liga => linhas'[n] # U!Nenhuma)
        /\ \A e \in U!Enderecos : e # n => linhas'[e] = linhas[e]
    <2>1. CASE linhas' = linhas /\ ~liga
      BY <1>1, <2>1 DEF PushInv, LinhasInv, U!Nenhuma
    <2>2. CASE linhas' = [linhas EXCEPT ![n] = [dono |-> aparelho.conta, falhas |-> 0]]
      BY <1>1, <1>7, <2>2 DEF PushInv, LinhasInv, U!Nenhuma
    <2>3. QED
      BY <2>1, <2>2
  <1>9. LinhasInv'
    <2>1. ASSUME NEW e \in U!Enderecos, e > n PROVE linhas'[e] = U!Nenhuma
      <3>1. e > aparelho.ultimo /\ e # n
        BY <2>1, AparelhosAssumption DEF PushInv, AparelhoInv, U!Enderecos
      <3>2. QED
        BY <1>8, <3>1 DEF PushInv, LinhasInv
    <2>2. ASSUME NEW i \in Instancias PROVE envio[i].endereco <= n
      BY <1>1, AparelhosAssumption DEF PushInv, LinhasInv, U!Enderecos
    <2>3. QED
      BY <1>3, <1>8, <2>1, <2>2 DEF PushInv, LinhasInv
  <1>10. FalhasInv'
    <2>1. ASSUME NEW i \in Instancias PROVE envio[i].endereco # n
      BY <1>1, AparelhosAssumption DEF PushInv, LinhasInv, U!Enderecos
    <2>2. QED
      BY <1>3, <1>8, <2>1 DEF FalhasInv
  <1>11. DonoInv'
    <2>1. ASSUME NEW e \in U!Enderecos, linhas'[e].dono = "ninguem" PROVE linhas'[e] = U!Nenhuma
      <3>1. CASE linhas' = linhas
        BY <2>1, <3>1 DEF PushInv, DonoInv
      <3>2. CASE linhas' = [linhas EXCEPT ![n] = [dono |-> aparelho.conta, falhas |-> 0]]
        BY <1>1, <1>7, <2>1, <3>2 DEF PushInv, DonoInv, LinhasInv
      <3>3. QED
        BY <3>1, <3>2
    <2>2. QED
      BY <2>1 DEF PushInv, DonoInv
  <1>12. QED
    BY <1>4, <1>6, <1>9, <1>10, <1>11 DEF PushInv

\* The row of the live address is written anew.
LEMMA InscreveKeeps ==
  ASSUME PushInv, aparelho.vivo > 0, U!Inscreve(aparelho.vivo), NEW p \in [fase : {"nada"}, chave : Chaves], cliente' = p,
         aparelho' = [aparelho EXCEPT !.ligado = TRUE], UNCHANGED <<U!chavesVars, envio, recusas>>
  PROVE  PushInv'
  <1> PICK v : v = aparelho.vivo
    OBVIOUS
  <1>1. v \in U!Enderecos /\ v > 0 /\ v = aparelho.ultimo
    BY EnderecoVivo DEF PushInv
  <1>2. aparelho.conta \in Donos /\ aparelho.conta # "ninguem"
    BY AparelhosAssumption DEF PushInv, AparelhoInv
  <1>3. /\ linhas' \in [U!Enderecos -> [dono : Donos \cup {"ninguem"}, falhas : Nat]]
        /\ linhas'[v].falhas = 0 /\ linhas'[v] # U!Nenhuma
        /\ \A e \in U!Enderecos : e # v => linhas'[e] = linhas[e]
    BY <1>1, <1>2 DEF U!Inscreve, PushInv, LinhasInv, U!Nenhuma
  <1>4. /\ aparelho'.vivo = v /\ aparelho'.ultimo = aparelho.ultimo /\ aparelho'.chave = aparelho.chave
        /\ aparelho' \in [conta : Donos, vivo : 0..MaxEnderecos, ultimo : 0..MaxEnderecos,
                          chave : [U!Enderecos -> Chaves], ligado : BOOLEAN]
    BY DEF PushInv, AparelhoInv
  <1>5. ChaveInv'
    BY DEF PushInv, ChaveInv, U!chavesVars
  <1>6. AparelhoInv'
    BY <1>1, <1>4 DEF PushInv, AparelhoInv, U!chavesVars
  <1>7. LinhasInv'
    <2>1. ASSUME NEW e \in U!Enderecos, e > aparelho.ultimo PROVE linhas'[e] = U!Nenhuma
      <3>1. e # v
        BY <1>1, <2>1, AparelhosAssumption DEF U!Enderecos
      <3>2. QED
        BY <1>3, <2>1, <3>1 DEF PushInv, LinhasInv
    <2>2. QED
      BY <1>3, <1>4, <2>1 DEF PushInv, LinhasInv
  <1>8. FalhasInv'
    BY <1>1, <1>3, <1>4 DEF PushInv, FalhasInv, LinhasInv
  <1>9. DonoInv'
    <2>1. linhas'[v].dono # "ninguem"
      BY <1>1, <1>2 DEF U!Inscreve, PushInv, LinhasInv
    <2>2. QED
      BY <1>3, <2>1 DEF PushInv, DonoInv
  <1>10. QED
    BY <1>5, <1>6, <1>7, <1>8, <1>9 DEF PushInv

LEMMA AssinaKeeps ==
  ASSUME PushInv, U!Assina
  PROVE  PushInv'
  <1>1. /\ cliente.chave = banco /\ banco # "nenhum" /\ ~aparelho.ligado /\ cliente.chave \in Chaves
        /\ UNCHANGED <<U!chavesVars, linhas, envio>> /\ cliente' = [cliente EXCEPT !.fase = "salva"]
    BY DEF U!Assina, PushInv, AparelhoInv
  <1>2. PICK p : p = cliente'
    OBVIOUS
  <1>3. p \in [fase : {"nada", "salva"}, chave : Chaves] /\ p.fase = "salva"
    BY <1>1, <1>2 DEF PushInv, AparelhoInv
  <1>4. CASE UNCHANGED <<aparelho, recusas>>
    <2>1. ChaveInv' /\ LinhasInv' /\ DonoInv' /\ FalhasInv'
      BY <1>1, <1>4 DEF U!chavesVars, PushInv, ChaveInv, LinhasInv, DonoInv, FalhasInv
    <2>2. AparelhoInv'
      BY <1>1, <1>2, <1>3, <1>4 DEF U!chavesVars, PushInv, AparelhoInv
    <2>3. QED
      BY <2>1, <2>2 DEF PushInv
  <1>5. CASE aparelho.ultimo < MaxEnderecos /\ aparelho' = U!Assinado(cliente.chave) /\ recusas' = 0
    <2>1. U!Assinado(cliente.chave).ligado = FALSE
      BY <1>1, <1>5, Enderecado DEF PushInv, AparelhoInv
    <2>2. U!Assinado(cliente.chave) = [U!Assinado(cliente.chave) EXCEPT !.ligado = FALSE]
      BY <1>1, <1>5, <2>1, Enderecado
    <2>3. QED
      BY <1>1, <1>2, <1>3, <1>5, <2>2, NovoEndereco
  <1>6. QED
    BY <1>4, <1>5 DEF U!Assina

LEMMA SalvaKeeps ==
  ASSUME PushInv, U!Salva
  PROVE  PushInv'
  <1>1. cliente' = U!Quieto /\ UNCHANGED <<U!chavesVars, envio, recusas>>
    BY DEF U!Salva
  <1>2. U!Quieto \in [fase : {"nada"}, chave : Chaves]
    BY DEF U!Quieto, Chaves
  <1>3. CASE UNCHANGED <<aparelho, linhas>>
    <2>1. ChaveInv' /\ LinhasInv' /\ DonoInv' /\ FalhasInv'
      BY <1>1, <1>3 DEF U!chavesVars, PushInv, ChaveInv, LinhasInv, DonoInv, FalhasInv
    <2>2. AparelhoInv'
      BY <1>1, <1>2, <1>3 DEF U!chavesVars, PushInv, AparelhoInv, U!Quieto
    <2>3. QED
      BY <2>1, <2>2 DEF PushInv
  <1>4. QED
    BY <1>1, <1>2, <1>3, InscreveKeeps DEF U!Salva

LEMMA AbreKeeps ==
  ASSUME PushInv, U!Abre
  PROVE  PushInv'
  <1>1. cliente \in [fase : {"nada"}, chave : Chaves]
    BY DEF U!Abre, PushInv, AparelhoInv
  <1>2. QED
    BY <1>1, InscreveKeeps DEF U!Abre

\* The device drops its address.
LEMMA SemEndereco ==
  ASSUME PushInv, cliente.fase = "nada", aparelho' = [aparelho EXCEPT !.vivo = 0, !.ligado = FALSE], recusas' = 0,
         \/ linhas' = linhas
         \/ linhas' = U!Esquece(aparelho.vivo) /\ aparelho.vivo \in U!Enderecos,
         UNCHANGED <<U!chavesVars, cliente, envio>>
  PROVE  PushInv'
  <1>1. /\ linhas' \in [U!Enderecos -> [dono : Donos \cup {"ninguem"}, falhas : Nat]]
        /\ \A e \in U!Enderecos : linhas'[e] \in {linhas[e], U!Nenhuma}
    BY DEF U!Esquece, PushInv, LinhasInv, U!Nenhuma
  <1>2. /\ aparelho'.vivo = 0 /\ aparelho'.ultimo = aparelho.ultimo /\ ~aparelho'.ligado
        /\ aparelho' \in [conta : Donos, vivo : 0..MaxEnderecos, ultimo : 0..MaxEnderecos,
                          chave : [U!Enderecos -> Chaves], ligado : BOOLEAN]
    <2>1. 0 \in 0..MaxEnderecos
      BY AparelhosAssumption
    <2>2. QED
      BY <2>1 DEF PushInv, AparelhoInv
  <1>3. ChaveInv' /\ AparelhoInv'
    BY <1>2 DEF U!chavesVars, PushInv, ChaveInv, AparelhoInv
  <1>4. LinhasInv' /\ FalhasInv'
    BY <1>1, <1>2 DEF PushInv, LinhasInv, FalhasInv
  <1>5. DonoInv'
    BY <1>1 DEF PushInv, DonoInv
  <1>6. QED
    BY <1>3, <1>4, <1>5 DEF PushInv

LEMMA DesligaKeeps ==
  ASSUME PushInv, U!Desliga
  PROVE  PushInv'
  BY SemEndereco, EnderecoVivo DEF U!Desliga, PushInv

LEMMA OutraContaKeeps ==
  ASSUME PushInv, U!OutraConta
  PROVE  PushInv'
  <1>1. PICK u \in Donos : aparelho' = [aparelho EXCEPT !.conta = u, !.ligado = FALSE]
    BY DEF U!OutraConta
  <1>2. /\ aparelho'.vivo = aparelho.vivo /\ aparelho'.ultimo = aparelho.ultimo /\ ~aparelho'.ligado
        /\ aparelho'.chave = aparelho.chave
        /\ aparelho' \in [conta : Donos, vivo : 0..MaxEnderecos, ultimo : 0..MaxEnderecos,
                          chave : [U!Enderecos -> Chaves], ligado : BOOLEAN]
    BY <1>1 DEF PushInv, AparelhoInv
  <1>3. UNCHANGED <<U!chavesVars, cliente, linhas, envio, recusas>>
    BY DEF U!OutraConta
  <1>4. ChaveInv' /\ AparelhoInv'
    BY <1>2, <1>3 DEF U!chavesVars, PushInv, ChaveInv, AparelhoInv
  <1>5. LinhasInv' /\ DonoInv' /\ FalhasInv'
    BY <1>2, <1>3 DEF PushInv, LinhasInv, DonoInv, FalhasInv
  <1>6. QED
    BY <1>4, <1>5 DEF PushInv

LEMMA NavegadorTrocaKeeps ==
  ASSUME PushInv, NEW i \in Instancias, U!NavegadorTroca(i)
  PROVE  PushInv'
  <1>1. cliente.fase = "nada" /\ aparelho.vivo > 0 /\ recusas' = 0 /\ UNCHANGED <<U!chavesVars, cliente, envio>>
    BY DEF U!NavegadorTroca
  <1>2. cliente \in [fase : {"nada", "salva"}, chave : Chaves]
    BY <1>1 DEF PushInv, AparelhoInv
  <1>3. CASE aparelho' = [aparelho EXCEPT !.vivo = 0, !.ligado = FALSE] /\ UNCHANGED linhas
    BY <1>1, <1>3, SemEndereco
  <1>4. CASE memoria[i] # "nenhum" /\ aparelho.ultimo < MaxEnderecos
    <2>1. memoria[i] = banco /\ banco # "nenhum"
      BY <1>4 DEF PushInv, ChaveInv
    <2>2. /\ U!Assinado(memoria[i]) = [U!Assinado(memoria[i]) EXCEPT !.ligado = aparelho.ligado]
          /\ U!Assinado(memoria[i]).vivo = aparelho.ultimo + 1
      BY <1>4, <2>1, Enderecado
    <2>3. CASE aparelho' = U!Assinado(memoria[i]) /\ U!Inscreve(aparelho'.vivo)
      <3>1. linhas' = [linhas EXCEPT ![aparelho.ultimo + 1] = [dono |-> aparelho.conta, falhas |-> 0]]
        BY <2>2, <2>3 DEF U!Inscreve
      <3>2. QED
        BY <1>1, <1>2, <1>4, <2>1, <2>2, <2>3, <3>1, NovoEndereco
    <2>4. CASE aparelho' = [U!Assinado(memoria[i]) EXCEPT !.ligado = FALSE] /\ UNCHANGED linhas
      BY <1>1, <1>2, <1>4, <2>1, <2>4, NovoEndereco
    <2>5. QED
      BY <1>3, <2>3, <2>4 DEF U!NavegadorTroca
  <1>5. QED
    BY <1>3, <1>4 DEF U!NavegadorTroca

\* Deliveries.
LEMMA LeInscricaoKeeps ==
  ASSUME PushInv, NEW i \in Instancias, U!LeInscricao(i)
  PROVE  PushInv'
  <1>1. PICK e \in U!Enderecos : /\ linhas[e] # U!Nenhuma
                               /\ envio' = [envio EXCEPT ![i] = [endereco |-> e, falhas |-> linhas[e].falhas]]
    BY DEF U!LeInscricao
  <1>2. UNCHANGED <<banco, memoria, geracao, aparelho, cliente, linhas, recusas>>
    BY DEF U!LeInscricao, U!chavesVars, U!aparelhoVars
  <1>3. e \in 0..MaxEnderecos /\ e <= aparelho.ultimo /\ linhas[e].falhas \in Nat
    BY <1>1, AparelhosAssumption DEF U!Enderecos, PushInv, LinhasInv, AparelhoInv
  <1>4. /\ envio' \in [Instancias -> [endereco : 0..MaxEnderecos, falhas : Nat]]
        /\ envio'[i].endereco = e /\ envio'[i].falhas = linhas[e].falhas
        /\ \A k \in Instancias : k # i => envio'[k] = envio[k]
    BY <1>1, <1>3 DEF PushInv, LinhasInv
  <1>5. ChaveInv' /\ AparelhoInv'
    BY <1>2 DEF PushInv, ChaveInv, AparelhoInv
  <1>6. LinhasInv'
    BY <1>2, <1>3, <1>4 DEF PushInv, LinhasInv
  <1>7. FalhasInv'
    BY <1>2, <1>4 DEF PushInv, FalhasInv
  <1>8. DonoInv'
    BY <1>2, <1>4 DEF PushInv, DonoInv
  <1>9. QED
    BY <1>5, <1>6, <1>7, <1>8 DEF PushInv

LEMMA EntregaKeeps ==
  ASSUME PushInv, NEW i \in Instancias, U!Entrega(i)
  PROVE  PushInv'
  <1> PICK e : e = envio[i].endereco
    OBVIOUS
  <1>1. /\ envio' = [envio EXCEPT ![i] = U!Parado] /\ UNCHANGED <<banco, memoria, geracao, aparelho, cliente>>
        /\ envio[i] # U!Parado
    BY DEF U!Entrega, U!chavesVars, U!aparelhoVars
  <1>2. /\ envio' \in [Instancias -> [endereco : 0..MaxEnderecos, falhas : Nat]]
        /\ \A k \in Instancias : envio'[k] = U!Parado \/ envio'[k] = envio[k]
    BY <1>1, AparelhosAssumption DEF PushInv, LinhasInv, U!Parado
  <1>3. ChaveInv' /\ AparelhoInv'
    BY <1>1 DEF PushInv, ChaveInv, AparelhoInv
  <1>4. aparelho.vivo \in Nat /\ recusas \in Nat /\ MaxRecusas \in Nat
    BY AparelhosAssumption DEF PushInv, AparelhoInv, LinhasInv
  <1>5. e \in U!Enderecos /\ envio[i].falhas \in Nat
    BY <1>1 DEF PushInv, LinhasInv, DonoInv
  <1>6. /\ U!Esquece(e) \in [U!Enderecos -> [dono : Donos \cup {"ninguem"}, falhas : Nat]] /\ U!Esquece(e)[e] = U!Nenhuma
        /\ \A d \in U!Enderecos : d # e => U!Esquece(e)[d] = linhas[d]
    BY <1>5 DEF U!Esquece, U!Nenhuma, PushInv, LinhasInv
  <1>7. ASSUME NEW n \in Nat
        PROVE  /\ U!Conta(e, n) \in [U!Enderecos -> [dono : Donos \cup {"ninguem"}, falhas : Nat]]
               /\ \A d \in U!Enderecos : d # e => U!Conta(e, n)[d] = linhas[d]
               /\ linhas[e] = U!Nenhuma => U!Conta(e, n)[e] = U!Nenhuma
               /\ linhas[e] # U!Nenhuma => U!Conta(e, n)[e].falhas = n /\ U!Conta(e, n)[e].dono # "ninguem"
    <2>1. CASE linhas[e] = U!Nenhuma
      BY <2>1 DEF U!Conta, PushInv, LinhasInv
    <2>2. CASE linhas[e] # U!Nenhuma
      <3>1. linhas[e].dono # "ninguem" /\ linhas[e] \in [dono : Donos \cup {"ninguem"}, falhas : Nat]
        BY <1>5, <2>2 DEF PushInv, LinhasInv, DonoInv
      <3>2. U!Conta(e, n) = [linhas EXCEPT ![e] = [linhas[e] EXCEPT !.falhas = n]]
        BY <2>2 DEF U!Conta
      <3>3. QED
        BY <1>5, <2>2, <3>1, <3>2 DEF PushInv, LinhasInv
    <2>3. QED
      BY <2>1, <2>2
  \* What the three outcomes have in common.
  <1>8. ASSUME recusas' \in Nat, linhas' \in [U!Enderecos -> [dono : Donos \cup {"ninguem"}, falhas : Nat]],
               \A d \in U!Enderecos : d # e => linhas'[d] = linhas[d],
               linhas[e] = U!Nenhuma => linhas'[e] = U!Nenhuma,
               linhas'[e].dono = "ninguem" => linhas'[e] = U!Nenhuma
        PROVE  LinhasInv' /\ DonoInv'
    <2>1. \A d \in U!Enderecos : linhas[d] = U!Nenhuma => linhas'[d] = U!Nenhuma
      BY <1>8
    <2>2. \A d \in U!Enderecos : linhas'[d].dono = "ninguem" => linhas'[d] = U!Nenhuma
      BY <1>8 DEF PushInv, DonoInv
    <2>3. ASSUME NEW k \in Instancias
          PROVE  envio'[k].endereco <= aparelho.ultimo /\ (envio'[k] # U!Parado => envio'[k].endereco \in U!Enderecos)
      <3>1. aparelho.ultimo \in Nat /\ U!Parado.endereco = 0
        BY AparelhosAssumption DEF PushInv, AparelhoInv, U!Parado
      <3>2. CASE envio'[k] = U!Parado
        BY <3>1, <3>2
      <3>3. CASE envio'[k] = envio[k]
        BY <3>3 DEF PushInv, LinhasInv, DonoInv
      <3>4. QED
        BY <1>2, <3>2, <3>3
    <2>4. QED
      BY <1>1, <1>2, <1>8, <2>1, <2>2, <2>3 DEF PushInv, LinhasInv, DonoInv
  <1>9. \A k \in Instancias : envio'[k].endereco = aparelho.vivo /\ aparelho.vivo > 0 => envio'[k].falhas <= recusas
    BY <1>2, <1>4 DEF PushInv, FalhasInv, U!Parado
  <1>10. CASE aparelho.vivo = e /\ linhas' = U!Conta(e, 0) /\ UNCHANGED recusas
    <2>1. LinhasInv' /\ DonoInv'
      BY <1>4, <1>7, <1>8, <1>10 DEF U!Nenhuma
    <2>2. linhas'[e].falhas = 0 /\ (linhas'[e] = U!Nenhuma => linhas[e] = U!Nenhuma)
      BY <1>7, <1>10 DEF U!Nenhuma
    <2>3. FalhasInv'
      BY <1>1, <1>4, <1>9, <1>10, <2>2 DEF PushInv, FalhasInv
    <2>4. QED
      BY <1>3, <2>1, <2>3 DEF PushInv
  <1>11. CASE aparelho.vivo # e /\ linhas' = U!Esquece(e) /\ UNCHANGED recusas
    <2>1. LinhasInv' /\ DonoInv'
      BY <1>4, <1>6, <1>8, <1>11
    <2>2. aparelho.vivo > 0 => linhas'[aparelho.vivo] = linhas[aparelho.vivo]
      BY <1>6, <1>11, EnderecoVivo DEF PushInv
    <2>3. FalhasInv'
      BY <1>1, <1>9, <1>11, <2>2 DEF PushInv, FalhasInv
    <2>4. QED
      BY <1>3, <2>1, <2>3 DEF PushInv
  <1>12. CASE /\ aparelho.vivo = e /\ recusas' = recusas + 1
              /\ linhas' = IF U!Basta(envio[i].falhas) THEN U!Esquece(e) ELSE U!Conta(e, linhas[e].falhas + 1)
    <2>1. /\ linhas[e].falhas \in Nat /\ linhas[e].falhas <= recusas /\ envio[i].falhas <= recusas /\ e > 0
          /\ linhas[e].falhas + 1 \in Nat /\ recusas' \in Nat
      BY <1>4, <1>5, <1>12 DEF PushInv, LinhasInv, FalhasInv, U!Enderecos
    <2>2. \A k \in Instancias : envio'[k].endereco = aparelho.vivo /\ aparelho.vivo > 0 => envio'[k].falhas <= recusas'
      <3>1. \A k \in Instancias : envio'[k].falhas \in Nat
        BY <1>2
      <3>2. QED
        BY <1>4, <1>9, <1>12, <3>1
    <2>3. CASE U!Basta(envio[i].falhas)
      <3>1. linhas' = U!Esquece(e) /\ recusas' >= MaxRecusas
        BY <1>4, <1>5, <1>12, <2>1, <2>3 DEF U!Basta
      <3>2. LinhasInv' /\ DonoInv'
        BY <1>6, <1>8, <2>1, <3>1
      <3>3. linhas'[e].falhas = 0
        BY <1>6, <3>1 DEF U!Nenhuma
      <3>4. FalhasInv'
        BY <1>1, <1>12, <2>1, <2>2, <3>1, <3>3 DEF FalhasInv
      <3>5. QED
        BY <1>3, <3>2, <3>4 DEF PushInv
    <2>4. CASE ~U!Basta(envio[i].falhas)
      <3> PICK n \in Nat : n = linhas[e].falhas + 1
        BY <2>1
      <3>1. linhas' = U!Conta(e, n)
        BY <1>12, <2>4
      <3>2. LinhasInv' /\ DonoInv'
        BY <1>7, <1>8, <2>1, <3>1 DEF U!Nenhuma
      <3>3. linhas'[e].falhas <= recusas' /\ (linhas'[e] = U!Nenhuma => linhas[e] = U!Nenhuma)
        BY <1>4, <1>7, <1>12, <2>1, <3>1 DEF U!Nenhuma
      <3>4. recusas >= MaxRecusas => recusas' >= MaxRecusas
        BY <1>4, <1>12
      <3>5. FalhasInv'
        BY <1>1, <1>12, <2>2, <3>3, <3>4 DEF PushInv, FalhasInv
      <3>6. QED
        BY <1>3, <3>2, <3>5 DEF PushInv
    <2>5. QED
      BY <2>3, <2>4
  <1>13. QED
    BY <1>10, <1>11, <1>12 DEF U!Entrega, U!Aceita

LEMMA PushInvHolds == U!Init => PushInv
  <1> SUFFICES ASSUME U!Init PROVE PushInv
    OBVIOUS
  <1>1. /\ 0 \in 0..MaxEnderecos /\ (CHOOSE u \in Donos : TRUE) \in Donos
        /\ \A e \in U!Enderecos : ~(e < 1) /\ e \in Nat
    BY AparelhosAssumption DEF U!Enderecos
  <1>2. aparelho.vivo = 0 /\ aparelho.ultimo = 0 /\ aparelho.ligado = FALSE
    BY DEF U!Init
  <1>3. ChaveInv
    BY DEF U!Init, ChaveInv, Chaves
  <1>4. AparelhoInv
    BY <1>1, <1>2 DEF U!Init, AparelhoInv, Chaves, U!Quieto
  <1>5. LinhasInv
    BY <1>1, <1>2 DEF U!Init, LinhasInv, U!Nenhuma, U!Parado
  <1>6. FalhasInv
    BY <1>2 DEF FalhasInv
  <1>7. DonoInv
    BY DEF U!Init, DonoInv
  <1>8. QED
    BY <1>3, <1>4, <1>5, <1>6, <1>7 DEF PushInv

LEMMA PushInvKept == PushInv /\ [U!Next]_U!vars => PushInv'
  <1> SUFFICES ASSUME PushInv, [U!Next]_U!vars PROVE PushInv'
    OBVIOUS
  <1>1. CASE UNCHANGED U!vars
    BY <1>1 DEF U!vars, U!chavesVars, U!aparelhoVars, PushInv, ChaveInv, AparelhoInv, LinhasInv, DonoInv, FalhasInv
  <1>2. CASE U!Next
    BY <1>2, LeChaveKeeps, GravaChavesKeeps, ReleKeeps, BuscaChaveKeeps, NavegadorTrocaKeeps, LeInscricaoKeeps, EntregaKeeps,
       AssinaKeeps, SalvaKeeps, AbreKeeps, DesligaKeeps, OutraContaKeeps DEF U!Next
  <1>3. QED
    BY <1>1, <1>2

LEMMA PushInvIsEnough == PushInv => U!PushReaches
  <1> SUFFICES ASSUME PushInv PROVE U!PushReaches
    OBVIOUS
  <1>1. U!DevicesUseTheSharedKey
    BY DEF U!DevicesUseTheSharedKey, PushInv, ChaveInv, AparelhoInv
  <1>2. U!KnownUntilRefused
    BY DEF U!KnownUntilRefused, PushInv, AparelhoInv, FalhasInv
  <1>3. QED
    BY <1>1, <1>2 DEF U!PushReaches

-----------------------------------------------------------------------------
(* Screens (module Paineis)                                                 *)
(*                                                                         *)
(* The last request is of what the person sees, and as new as what was     *)
(* written here (UltimaInv); a screen that drops late answers waits for    *)
(* the answer to it, and shows the newest it was given (GuardaInv), even   *)
(* where the answer of a form is the new state (CartaoInv).                *)

\* What the table of screens says, as far as the properties need it.
Devolve(t) == \E f \in t.formularios : f.recarrega = "devolve"
Cartao(t) == t.guarda # "nenhuma" /\ Devolve(t)
Tabela(t) ==
    /\ t.renova \in BOOLEAN /\ t.guarda \in {"nenhuma", "ordem", "cancela", "uma"}
    /\ t.avisa \/ t.botao \/ t.fecha => t.guarda = "nenhuma"
    /\ t.guarda = "uma" => ~t.filtra /\ t.paginas = "nao" /\ \A f \in t.formularios : f.recarrega # "sempre"
    /\ Devolve(t) => \A f \in t.formularios : f.recarrega = "devolve"
    /\ Cartao(t) => ~t.filtra /\ t.paginas = "nao" /\ ~t.renova

LEMMA TabelaHolds == \A t \in T!Telas : Tabela(t)
  <1> USE DEF Tabela, Cartao, Devolve, T!Simples, T!Com, T!Filtrada, T!Formulario
  <1>1. Tabela(T!Relatorios)
    BY DEF T!Relatorios, T!Exporta
  <1>2. Tabela(T!PainelGeral)
    BY DEF T!PainelGeral, T!Executa, T!SincronizaConcursos, T!ImportaHistorico, T!BaixaOuCancela, T!VendaDeBalcao, T!ConcursoManual, T!CriaFesta, T!NumeroDaFesta, T!RemoveFesta, T!AlteraUsuario, T!AcessoDoUsuario, T!PapelDoUsuario
  <1>3. Tabela(T!BuscaDeParticipante)
    BY DEF T!BuscaDeParticipante
  <1>4. Tabela(T!ConfiguracaoDePagamentos)
    BY DEF T!ConfiguracaoDePagamentos, T!AcaoDePagamento
  <1>5. Tabela(T!NotasFiscais)
    BY DEF T!NotasFiscais, T!AcaoDaNota
  <1>6. Tabela(T!Clientes)
    BY DEF T!Clientes
  <1>7. Tabela(T!FichaDoCliente)
    BY DEF T!FichaDoCliente, T!AnotaCliente, T!AcompanhaCliente, T!SenhaDoCliente
  <1>8. Tabela(T!FichaDoBolao)
    BY DEF T!FichaDoBolao, T!LiberaBolao
  <1>9. Tabela(T!ControleDeBoloes)
    BY DEF T!ControleDeBoloes
  <1>10. Tabela(T!BancoDeNumeros)
    BY DEF T!BancoDeNumeros, T!GeraNumeros, T!GuardaNumeros, T!TiraNumeros
  <1>11. Tabela(T!Comunicados)
    BY DEF T!Comunicados, T!EnviaComunicado
  <1>12. Tabela(T!PreviaDoPublico)
    BY DEF T!PreviaDoPublico
  <1>13. Tabela(T!ArquivosDoBolao)
    BY DEF T!ArquivosDoBolao, T!EnviaArquivos, T!AlternaArquivo, T!ReenviaArquivo, T!RemoveArquivo
  <1>14. Tabela(T!Vitrine)
    BY DEF T!Vitrine, T!SalvaVitrine
  <1>15. Tabela(T!Conexoes)
    BY DEF T!Conexoes, T!TestaConexao
  <1>16. Tabela(T!TabelaDePrecos)
    BY DEF T!TabelaDePrecos, T!NovoPreco
  <1>17. Tabela(T!EditorDeUsuario)
    BY DEF T!EditorDeUsuario
  <1>18. Tabela(T!Afiliado)
    BY DEF T!Afiliado, T!ConviteDoAfiliado, T!MudaAfiliado
  <1>19. Tabela(T!CotasDoAfiliado)
    BY DEF T!CotasDoAfiliado
  <1>20. Tabela(T!Equipe)
    BY DEF T!Equipe, T!ConviteDaEquipe, T!CancelaConvite
  <1>21. Tabela(T!MinhaConta)
    BY DEF T!MinhaConta, T!SalvaEndereco
  <1>22. Tabela(T!MeusAvisos)
    BY DEF T!MeusAvisos, T!LeAviso
  <1>23. Tabela(T!JogoResponsavel)
    BY DEF T!JogoResponsavel, T!LimiteOuPausa
  <1>24. Tabela(T!DuasEtapas)
    BY DEF T!DuasEtapas, T!LigaDuasEtapas
  <1>25. Tabela(T!MeuPerfil)
    BY DEF T!MeuPerfil, T!SalvaPerfil
  <1>26. Tabela(T!Probabilidades)
    BY DEF T!Probabilidades
  <1>27. Tabela(T!AnaliseDoJogo)
    BY DEF T!AnaliseDoJogo
  <1>28. Tabela(T!Sugestoes)
    BY DEF T!Sugestoes
  <1>29. QED
    BY <1>1, <1>2, <1>3, <1>4, <1>5, <1>6, <1>7, <1>8, <1>9, <1>10, <1>11, <1>12, <1>13, <1>14, <1>15, <1>16, <1>17, <1>18, <1>19, <1>20, <1>21, <1>22, <1>23, <1>24, <1>25, <1>26, <1>27, <1>28 DEF T!Telas

Lugares == Filtros \cup {Inicial, T!Fechada}
CargaT == [n : Nat, filtro : Lugares, pagina : T!Paginas, quieta : BOOLEAN, herdada : BOOLEAN, fase : {"vai", "volta"},
           versao : Nat, ok : BOOLEAN]
EscritaT == [n : Nat, f : tela.formularios, filtro : Lugares, pagina : T!Paginas, fase : {"vai", "gravou", "recusou"},
             versao : Nat]

\* The screen, its filter, and the requests and forms in flight, each request with a number of its own.
FormaInv ==
    /\ tela \in T!Telas /\ filtro \in Lugares /\ pagina \in T!Paginas
    /\ seq \in Nat /\ enviadas \in Nat /\ servidor \in Nat /\ minha \in 0..servidor /\ vista \in 0..servidor
    /\ mostrado.n \in 0..seq /\ mostrado.versao \in Nat
    /\ carregando \in BOOLEAN /\ erro \in BOOLEAN
    /\ cargas \subseteq CargaT /\ escritas \subseteq EscritaT
    /\ \A c \in cargas : 0 < c.n /\ c.n <= seq /\ (c.fase = "volta" => c.versao <= servidor)
    /\ \A c, d \in cargas : c.n = d.n => c = d
    /\ \A e \in escritas : e.versao <= servidor

\* The last request is of what the person sees, and as new as what was written here.
UltimaInv ==
    /\ \A c \in cargas : c.n = seq =>
          /\ tela.botao \/ c.herdada \/ (c.filtro = filtro /\ c.pagina = pagina)
          /\ c.fase = "volta" => minha <= c.versao
    /\ mostrado # T!Nada /\ mostrado.n = seq =>
          /\ tela.botao \/ mostrado.herdada \/ (mostrado.filtro = filtro /\ mostrado.pagina = pagina)
          /\ minha <= mostrado.versao
    /\ Devolve(tela) => minha = 0

\* A screen that drops late answers waits for that of the last request, until it comes, and shows the newest.
GuardaInv ==
    tela.guarda # "nenhuma" =>
        /\ erro \/ mostrado.n = seq \/ \E c \in cargas : c.n = seq
        /\ carregando => \E c \in cargas : c.n = seq
        /\ \A c \in cargas : c.fase = "volta" /\ c.n = seq => vista <= c.versao
        /\ mostrado # T!Nada => mostrado.versao = vista
        /\ tela.guarda = "uma" => \A c \in cargas : c.n = seq
        /\ tela.guarda = "ordem" => \A c \in cargas : c.n = seq /\ ~c.quieta => carregando

\* A card whose form answers with its new state asks once, and has one form at a time.
CartaoInv ==
    Cartao(tela) =>
        /\ seq = 1
        /\ mostrado # T!Nada => cargas = {}
        /\ escritas # {} => mostrado # T!Nada
        /\ \A e, d \in escritas : e = d
        /\ \A e \in escritas : e.fase = "gravou" => vista <= e.versao

\* What a screen of one button shows is of its choice; a spinner is of a request.
BotaoInv ==
    /\ tela.botao /\ tela.limpa /\ mostrado # T!Nada => mostrado.herdada \/ mostrado.filtro = filtro
    /\ carregando => cargas # {}

ScreensInv == FormaInv /\ UltimaInv /\ GuardaInv /\ CartaoInv /\ BotaoInv

LEMMA ScreensInvIsEnough == ScreensInv => T!ScreensAreCurrent
  <1> SUFFICES ASSUME ScreensInv PROVE T!ScreensAreCurrent
    OBVIOUS
  <1>1. ASSUME T!EmRepouso, ~T!Cruzou PROVE mostrado.n = seq /\ mostrado # T!Nada
    <2>1. CASE tela.guarda = "nenhuma"
      BY <1>1, <2>1 DEF T!EmRepouso, T!Cruzou, ScreensInv, FormaInv
    <2>2. CASE tela.guarda # "nenhuma"
      BY <1>1, <2>2 DEF T!EmRepouso, ScreensInv, GuardaInv
    <2>3. QED
      BY <2>1, <2>2
  <1>2. T!ShowsWhatWasAsked
    BY <1>1 DEF T!ShowsWhatWasAsked, ScreensInv, UltimaInv
  <1>3. T!ClearedResult
    BY DEF T!ClearedResult, ScreensInv, BotaoInv
  <1>4. T!NeverGoesBack
    BY DEF T!NeverGoesBack, ScreensInv, GuardaInv
  <1>5. T!WriteIsShown
    BY <1>1 DEF T!WriteIsShown, ScreensInv, UltimaInv, FormaInv
  <1>6. T!SpinnerIsTrue
    BY DEF T!SpinnerIsTrue, ScreensInv, GuardaInv, BotaoInv
  <1>7. QED
    BY <1>2, <1>3, <1>4, <1>5, <1>6 DEF T!ScreensAreCurrent

LEMMA TelaTabela ==
  ASSUME ScreensInv
  PROVE  Tabela(tela)
  BY TabelaHolds DEF ScreensInv, FormaInv

\* What is asked.
LEMMA Pedida ==
  ASSUME NEW n \in Nat, NEW f \in Lugares, NEW p \in T!Paginas, NEW q \in BOOLEAN, NEW h \in BOOLEAN
  PROVE  LET c == T!Carga(n, f, p, q, h)
         IN  c \in CargaT /\ c.n = n /\ c.filtro = f /\ c.pagina = p /\ c.quieta = q /\ c.herdada = h /\ c.fase = "vai"
  <1> PICK c : c = T!Carga(n, f, p, q, h)
    OBVIOUS
  <1> PICK v \in BOOLEAN : v = TRUE
    OBVIOUS
  <1>1. c = [n |-> n, filtro |-> f, pagina |-> p, quieta |-> q, herdada |-> h, fase |-> "vai", versao |-> 0, ok |-> v]
    BY DEF T!Carga
  <1>2. QED
    BY <1>1 DEF CargaT

LEMMA PedidaDoEfeito ==
  ASSUME NEW n \in Nat, NEW f \in Lugares, NEW p \in T!Paginas
  PROVE  LET c == T!DoEfeito(n, f, p)
         IN  c \in CargaT /\ c.n = n /\ c.filtro = f /\ c.pagina = p /\ c.fase = "vai" /\ c.quieta = (tela.gira = "nunca")
  <1>1. PICK q \in BOOLEAN : q = (tela.gira = "nunca")
    OBVIOUS
  <1>2. PICK h \in BOOLEAN : h = FALSE
    OBVIOUS
  <1>3. PICK c : c = T!DoEfeito(n, f, p)
    OBVIOUS
  <1>4. c = T!Carga(n, f, p, q, h)
    BY <1>1, <1>2, <1>3 DEF T!DoEfeito
  <1>5. c \in CargaT /\ c.n = n /\ c.filtro = f /\ c.pagina = p /\ c.fase = "vai" /\ c.quieta = q
    BY <1>4, Pedida
  <1>6. QED
    BY <1>1, <1>3, <1>5

LEMMA PedidaDaTela ==
  ASSUME NEW quieta \in BOOLEAN, ScreensInv
  PROVE  LET c == T!DaTela(quieta)
         IN  c \in CargaT /\ c.n = seq + 1 /\ c.filtro = filtro /\ c.pagina = pagina /\ c.fase = "vai"
  <1>1. PICK q \in BOOLEAN : q = (quieta \/ tela.gira = "nunca")
    OBVIOUS
  <1>2. PICK h \in BOOLEAN : h = FALSE
    OBVIOUS
  <1>3. PICK n \in Nat : n = seq + 1
    BY DEF ScreensInv, FormaInv
  <1>4. PICK c : c = T!DaTela(quieta)
    OBVIOUS
  <1>5. c = T!Carga(n, filtro, pagina, q, h)
    BY <1>1, <1>2, <1>3, <1>4 DEF T!DaTela
  <1>6. filtro \in Lugares /\ pagina \in T!Paginas
    BY DEF ScreensInv, FormaInv
  <1>7. c \in CargaT /\ c.n = n /\ c.filtro = filtro /\ c.pagina = pagina /\ c.fase = "vai"
    BY <1>5, <1>6, Pedida
  <1>8. QED
    BY <1>3, <1>4, <1>7

LEMMA InitScreens ==
  ASSUME T!Init
  PROVE  ScreensInv
  <1>1. Tabela(tela)
    BY TabelaHolds DEF T!Init
  <1>2. /\ filtro = Inicial /\ pagina = 1 /\ mostrado = T!Nada /\ erro = FALSE /\ escritas = {} /\ enviadas = 0 /\ servidor = 1
        /\ minha = 0 /\ vista = 0 /\ tela \in T!Telas
    BY DEF T!Init
  <1>3. /\ T!Nada.n = 0 /\ T!Nada.versao = 0 /\ 0 \in Nat /\ 1 \in Nat /\ 0 \in 0..1 /\ 0 \in 0..0
        /\ Inicial \in Lugares /\ 1 \in T!Paginas
    BY DEF T!Nada, Lugares, T!Paginas
  <1>4. CASE tela.botao
    <2>1. cargas = {} /\ seq = 0 /\ carregando = FALSE
      BY <1>4 DEF T!Init
    <2>2. tela.guarda = "nenhuma"
      BY <1>1, <1>4 DEF Tabela
    <2>3. FormaInv
      BY <1>2, <1>3, <2>1 DEF FormaInv
    <2>4. UltimaInv /\ GuardaInv /\ CartaoInv /\ BotaoInv
      BY <1>2, <2>1, <2>2 DEF UltimaInv, GuardaInv, CartaoInv, Cartao, BotaoInv
    <2>5. QED
      BY <2>3, <2>4 DEF ScreensInv
  <1>5. CASE ~tela.botao
    <2> PICK c : c = T!DoEfeito(1, filtro, 1)
      OBVIOUS
    <2>1. cargas = {c} /\ seq = 1 /\ carregando = (tela.gira # "nunca")
      BY <1>2, <1>5 DEF T!Init
    <2>2. 1 \in Nat /\ filtro \in Lugares /\ pagina \in T!Paginas
      BY <1>2, <1>3
    <2>3. carregando \in BOOLEAN /\ erro \in BOOLEAN
      BY <1>2, <2>1
    <2>4. /\ c \in CargaT /\ c.n = 1 /\ c.filtro = filtro /\ c.pagina = pagina /\ c.fase = "vai"
          /\ c.quieta = (tela.gira = "nunca")
      BY <1>2, <2>2, PedidaDoEfeito
    <2>5. FormaInv
      <3>1. cargas \subseteq CargaT /\ escritas \subseteq EscritaT /\ \A k \in cargas : k = c
        BY <1>2, <2>1, <2>4
      <3>2. QED
        BY <1>2, <1>3, <2>1, <2>3, <2>4, <3>1 DEF FormaInv
    <2>6. UltimaInv /\ CartaoInv /\ BotaoInv
      BY <1>2, <2>1, <2>4 DEF UltimaInv, CartaoInv, BotaoInv
    <2>7. GuardaInv
      BY <1>2, <2>1, <2>4 DEF GuardaInv
    <2>8. QED
      BY <2>5, <2>6, <2>7 DEF ScreensInv
  <1>6. QED
    BY <1>4, <1>5

\* Asking again: u is the last request of those sent (S); of the others, C are still in flight.
LEMMA AskKeeps ==
  ASSUME ScreensInv, NEW C, NEW S, NEW u \in S, C \subseteq cargas, cargas' = C \cup S, S \subseteq CargaT, seq' = u.n,
         \A c \in S : seq < c.n /\ c.n <= u.n /\ c.fase = "vai", \A c, d \in S : c.n = d.n => c = d,
         tela.botao \/ u.herdada \/ (u.filtro = filtro' /\ u.pagina = pagina'),
         tela.guarda = "uma" => C = {} /\ S = {u},
         tela.guarda = "ordem" /\ ~u.quieta => carregando',
         ~Cartao(tela), escritas' \subseteq escritas, mostrado' \in {mostrado, T!Nada}, UNCHANGED <<tela, enviadas, servidor, vista>>,
         carregando' \in BOOLEAN, erro' \in BOOLEAN, filtro' \in Lugares, pagina' \in T!Paginas,
         minha' \in 0..servidor, Devolve(tela) => minha' = 0,
         mostrado' = T!Nada \/ filtro' = filtro \/ ~(tela.botao /\ tela.limpa)
  PROVE  ScreensInv'
  <1>1. T!Nada.n = 0 /\ T!Nada.versao = 0
    BY DEF T!Nada
  <1>2. seq \in Nat /\ u.n \in Nat /\ seq < u.n /\ mostrado.n \in Nat /\ mostrado.n <= seq
    BY DEF ScreensInv, FormaInv, CargaT
  <1>3. mostrado'.n \in Nat /\ mostrado'.n <= seq /\ mostrado'.versao \in Nat
    BY <1>1, <1>2 DEF ScreensInv, FormaInv
  <1>4. \A c \in C : c.n \in Nat /\ 0 < c.n /\ c.n <= seq
    BY DEF ScreensInv, FormaInv, CargaT
  <1>5. \A c \in S : c.n \in Nat /\ 0 < c.n
    BY <1>2 DEF CargaT
  <1>6. FormaInv'
    <2>1. ASSUME NEW c \in C \cup S, NEW d \in C \cup S, c.n = d.n PROVE c = d
      BY <1>2, <1>4, <1>5, <2>1 DEF ScreensInv, FormaInv
    <2>2. \A c \in C \cup S : 0 < c.n /\ c.n <= u.n /\ (c.fase = "volta" => c.versao <= servidor)
      BY <1>2, <1>4, <1>5 DEF ScreensInv, FormaInv
    <2>3. mostrado'.n \in 0..u.n
      BY <1>2, <1>3
    <2>4. EscritaT' = EscritaT
      BY DEF EscritaT
    <2>5. QED
      BY <1>2, <1>3, <2>1, <2>2, <2>3, <2>4 DEF ScreensInv, FormaInv
  <1>7. \A c \in cargas' : c.n = u.n => c = u
    BY <1>2, <1>4
  <1>8. UltimaInv'
    BY <1>2, <1>3, <1>7 DEF UltimaInv
  <1>9. GuardaInv'
    BY <1>7 DEF ScreensInv, GuardaInv
  <1>10. CartaoInv' /\ BotaoInv'
    BY DEF ScreensInv, CartaoInv, BotaoInv
  <1>11. QED
    BY <1>6, <1>8, <1>9, <1>10 DEF ScreensInv

\* load(), once, and twice in a row.
LEMMA PedeUma ==
  ASSUME ScreensInv, NEW u \in CargaT, u.n = seq + 1, u.fase = "vai", T!Pede({u}),
         tela.botao \/ u.herdada \/ (u.filtro = filtro' /\ u.pagina = pagina'),
         tela.guarda = "uma" => cargas = {},
         ~Cartao(tela), escritas' \subseteq escritas, mostrado' \in {mostrado, T!Nada}, UNCHANGED <<tela, enviadas, servidor, vista>>,
         erro' \in BOOLEAN, filtro' \in Lugares, pagina' \in T!Paginas, minha' \in 0..servidor, Devolve(tela) => minha' = 0,
         mostrado' = T!Nada \/ filtro' = filtro \/ ~(tela.botao /\ tela.limpa)
  PROVE  ScreensInv'
  <1>1. PICK S : S = {u}
    OBVIOUS
  <1>2. Cardinality({u}) = 1
    BY FS_Singleton
  <1>3. /\ cargas' = cargas \cup S /\ seq' = u.n
        /\ carregando' = (carregando \/ \E c \in S : ~c.quieta)
    BY <1>1, <1>2 DEF T!Pede, T!Cardinality, T!IsFiniteSet, Cardinality, IsFiniteSet
  <1>4. carregando' \in BOOLEAN /\ (~u.quieta => carregando')
    BY <1>1, <1>3
  <1>5. /\ u \in S /\ S \subseteq CargaT /\ \A c \in S : seq < c.n /\ c.n <= u.n /\ c.fase = "vai"
        /\ \A c, d \in S : c.n = d.n => c = d
    BY <1>1 DEF CargaT, ScreensInv, FormaInv
  <1>6. QED
    BY <1>1, <1>3, <1>4, <1>5, AskKeeps

LEMMA PedeDuas ==
  ASSUME ScreensInv, NEW a \in CargaT, a.n = seq + 1, a.fase = "vai", NEW u \in CargaT, u.n = seq + 2, u.fase = "vai", T!Pede({a, u}),
         tela.botao \/ u.herdada \/ (u.filtro = filtro' /\ u.pagina = pagina'),
         tela.guarda # "uma",
         ~Cartao(tela), escritas' \subseteq escritas, mostrado' \in {mostrado, T!Nada}, UNCHANGED <<tela, enviadas, servidor, vista>>,
         erro' \in BOOLEAN, filtro' \in Lugares, pagina' \in T!Paginas, minha' \in 0..servidor, Devolve(tela) => minha' = 0,
         mostrado' = T!Nada \/ filtro' = filtro \/ ~(tela.botao /\ tela.limpa)
  PROVE  ScreensInv'
  <1>1. PICK S : S = {a, u}
    OBVIOUS
  <1>2. seq \in Nat /\ a # u
    BY DEF ScreensInv, FormaInv
  <1>3. Cardinality({a, u}) = 2
    <2>1. IsFiniteSet({a}) /\ Cardinality({a}) = 1 /\ u \notin {a} /\ {a} \cup {u} = {a, u}
      BY <1>2, FS_Singleton
    <2>2. Cardinality({a} \cup {u}) = Cardinality({a}) + 1
      BY <2>1, FS_AddElement
    <2>3. QED
      BY <2>1, <2>2
  <1>4. /\ cargas' = cargas \cup S /\ seq' = u.n
        /\ carregando' = (carregando \/ \E c \in S : ~c.quieta)
    BY <1>1, <1>3 DEF T!Pede, T!Cardinality, T!IsFiniteSet, Cardinality, IsFiniteSet
  <1>5. carregando' \in BOOLEAN /\ (~u.quieta => carregando')
    BY <1>1, <1>4
  <1>6. /\ u \in S /\ S \subseteq CargaT /\ \A c \in S : seq < c.n /\ c.n <= u.n /\ c.fase = "vai"
        /\ \A c, d \in S : c.n = d.n => c = d
    BY <1>1, <1>2 DEF CargaT
  <1>7. QED
    BY <1>4, <1>5, <1>6, AskKeeps

LEMMA FiltraKeeps ==
  ASSUME ScreensInv, NEW f \in Filtros, T!Filtra(f)
  PROVE  ScreensInv'
  <1>1. Tabela(tela)
    BY TelaTabela
  <1>2. /\ tela.guarda # "uma" /\ ~Cartao(tela) /\ filtro' = f /\ pagina' = 1 /\ f \in Lugares
        /\ UNCHANGED <<tela, erro, escritas, enviadas, minha, servidor, vista>> /\ mostrado' \in {mostrado, T!Nada}
        /\ mostrado' = T!Nada \/ ~tela.limpa
    BY <1>1 DEF T!Filtra, T!escritaVars, Tabela, Lugares
  <1>3. /\ 1 \in T!Paginas /\ erro' \in BOOLEAN /\ minha \in 0..servidor /\ pagina \in T!Paginas /\ seq \in Nat
        /\ Devolve(tela) => minha = 0
    BY <1>2 DEF ScreensInv, FormaInv, UltimaInv, T!Paginas
  <1>4. CASE tela.botao
    <2>1. UNCHANGED <<seq, cargas, carregando>>
      BY <1>4 DEF T!Filtra, T!NaoPede, T!cargaVars
    <2>2. tela.guarda = "nenhuma"
      BY <1>1, <1>4 DEF Tabela
    <2>3. T!Nada.n = 0 /\ T!Nada.versao = 0
      BY DEF T!Nada
    <2>4. mostrado'.n \in 0..seq /\ mostrado'.versao \in Nat /\ EscritaT' = EscritaT
      BY <1>2, <1>3, <2>3 DEF ScreensInv, FormaInv, EscritaT
    <2>5. FormaInv'
      BY <1>2, <1>3, <2>1, <2>4 DEF ScreensInv, FormaInv
    <2>6. UltimaInv' /\ GuardaInv' /\ CartaoInv'
      BY <1>2, <1>4, <2>1, <2>2, <2>3 DEF ScreensInv, UltimaInv, GuardaInv, CartaoInv
    <2>7. BotaoInv'
      BY <1>2, <2>1 DEF ScreensInv, BotaoInv
    <2>8. QED
      BY <2>5, <2>6, <2>7 DEF ScreensInv
  <1>5. CASE ~tela.botao /\ tela.paginas = "efeito" /\ pagina # 1
    <2>1. PICK a : a = T!DoEfeito(seq + 1, f, pagina)
      OBVIOUS
    <2>2. PICK u : u = T!DoEfeito(seq + 2, f, 1)
      OBVIOUS
    <2>3. T!Pede({a, u})
      BY <1>5, <2>1, <2>2 DEF T!Filtra, T!ComOFiltro
    <2>4. /\ a \in CargaT /\ a.n = seq + 1 /\ a.fase = "vai"
          /\ u \in CargaT /\ u.n = seq + 2 /\ u.fase = "vai" /\ u.filtro = f /\ u.pagina = 1
      BY <1>2, <1>3, <2>1, <2>2, PedidaDoEfeito
    <2>5. QED
      BY <1>2, <1>3, <1>5, <2>3, <2>4, PedeDuas
  <1>6. CASE ~tela.botao /\ ~(tela.paginas = "efeito" /\ pagina # 1)
    <2>1. PICK u : u = T!DoEfeito(seq + 1, f, 1)
      OBVIOUS
    <2>2. T!Pede({u})
      BY <1>6, <2>1 DEF T!Filtra, T!ComOFiltro
    <2>3. u \in CargaT /\ u.n = seq + 1 /\ u.fase = "vai" /\ u.filtro = f /\ u.pagina = 1
      BY <1>2, <1>3, <2>1, PedidaDoEfeito
    <2>4. QED
      BY <1>2, <1>3, <1>6, <2>2, <2>3, PedeUma
  <1>7. QED
    BY <1>4, <1>5, <1>6

LEMMA ViraKeeps ==
  ASSUME ScreensInv, NEW p \in T!Paginas, T!Vira(p)
  PROVE  ScreensInv'
  <1>1. Tabela(tela)
    BY TelaTabela
  <1>2. /\ tela.guarda # "uma" /\ ~Cartao(tela) /\ pagina' = p
        /\ UNCHANGED <<tela, filtro, mostrado, erro, escritas, enviadas, minha, servidor, vista>>
    BY <1>1 DEF T!Vira, T!escritaVars, Tabela
  <1>3. /\ erro' \in BOOLEAN /\ minha \in 0..servidor /\ filtro \in Lugares /\ seq \in Nat
        /\ Devolve(tela) => minha = 0
    BY <1>2 DEF ScreensInv, FormaInv, UltimaInv
  <1>4. PICK u : u = T!DoEfeito(seq + 1, filtro, p)
    OBVIOUS
  <1>5. T!Pede({u})
    BY <1>4 DEF T!Vira
  <1>6. u \in CargaT /\ u.n = seq + 1 /\ u.fase = "vai" /\ u.filtro = filtro /\ u.pagina = p
    BY <1>3, <1>4, PedidaDoEfeito
  <1>7. QED
    BY <1>2, <1>3, <1>5, <1>6, PedeUma

\* The screen asks for what the person sees, outside of a choice.
LEMMA PedeDaTela ==
  ASSUME ScreensInv, NEW quieta \in BOOLEAN, T!Pede({T!DaTela(quieta)}), tela.guarda = "uma" => cargas = {}, ~Cartao(tela),
         escritas' \subseteq escritas, UNCHANGED <<tela, filtro, pagina, mostrado, erro, enviadas, servidor, vista>>,
         minha' = minha
  PROVE  ScreensInv'
  <1>1. PICK u : u = T!DaTela(quieta)
    OBVIOUS
  <1>2. u \in CargaT /\ u.n = seq + 1 /\ u.fase = "vai" /\ u.filtro = filtro /\ u.pagina = pagina
    BY <1>1, PedidaDaTela
  <1>3. /\ erro' \in BOOLEAN /\ minha \in 0..servidor /\ filtro \in Lugares /\ pagina \in T!Paginas
        /\ Devolve(tela) => minha = 0
    BY DEF ScreensInv, FormaInv, UltimaInv
  <1>4. QED
    BY <1>1, <1>2, <1>3, PedeUma

LEMMA RenovaKeeps ==
  ASSUME ScreensInv, T!Renova
  PROVE  ScreensInv'
  <1>1. Tabela(tela)
    BY TelaTabela
  <1>2. ~Cartao(tela) /\ (tela.guarda = "uma" => cargas = {})
    BY <1>1 DEF T!Renova, T!Ocupada, Tabela, Cartao
  <1>3. PICK q \in BOOLEAN : q = tela.renova
    BY <1>1 DEF Tabela
  <1>4. QED
    BY <1>2, <1>3, PedeDaTela DEF T!Renova, T!escritaVars

LEMMA ApertaKeeps ==
  ASSUME ScreensInv, T!Aperta
  PROVE  ScreensInv'
  <1>1. tela.guarda = "nenhuma"
    BY TelaTabela DEF T!Aperta, Tabela
  <1>2. PICK q \in BOOLEAN : q = FALSE
    OBVIOUS
  <1>3. QED
    BY <1>1, <1>2, PedeDaTela DEF T!Aperta, T!escritaVars, Cartao

\* Answers.
LEMMA RespondeCargaKeeps ==
  ASSUME ScreensInv, NEW c \in cargas, T!Responde(c)
  PROVE  ScreensInv'
  <1>1. PICK ok \in BOOLEAN : cargas' = (cargas \ {c}) \cup {[c EXCEPT !.fase = "volta", !.ok = ok, !.versao = servidor]}
    BY DEF T!Responde
  <1>2. PICK d : d = [c EXCEPT !.fase = "volta", !.ok = ok, !.versao = servidor]
    OBVIOUS
  <1>3. UNCHANGED <<tela, filtro, pagina, seq, carregando, mostrado, erro, escritas, enviadas, minha, servidor, vista>>
    BY DEF T!Responde, T!escritaVars
  <1>4. c \in CargaT /\ servidor \in Nat
    BY DEF ScreensInv, FormaInv
  <1>5. /\ d \in CargaT /\ d.n = c.n /\ d.filtro = c.filtro /\ d.pagina = c.pagina /\ d.quieta = c.quieta
        /\ d.herdada = c.herdada /\ d.fase = "volta" /\ d.versao = servidor
    BY <1>2, <1>4 DEF CargaT
  <1>6. cargas' = (cargas \ {c}) \cup {d}
    BY <1>1, <1>2
  <1>7. FormaInv'
    <2>1. EscritaT' = EscritaT
      BY <1>3 DEF EscritaT
    <2>2. \A a, b \in cargas' : a.n = b.n => a = b
      BY <1>5, <1>6 DEF ScreensInv, FormaInv
    <2>3. \A a \in cargas' : 0 < a.n /\ a.n <= seq /\ (a.fase = "volta" => a.versao <= servidor)
      BY <1>4, <1>5, <1>6 DEF ScreensInv, FormaInv
    <2>4. cargas' \subseteq CargaT
      BY <1>5, <1>6 DEF ScreensInv, FormaInv
    <2>5. QED
      BY <1>3, <2>1, <2>2, <2>3, <2>4 DEF ScreensInv, FormaInv
  <1>8. minha <= servidor /\ vista <= servidor
    BY DEF ScreensInv, FormaInv
  <1>9. UltimaInv'
    BY <1>3, <1>5, <1>6, <1>8 DEF ScreensInv, UltimaInv
  <1>10. GuardaInv'
    BY <1>3, <1>5, <1>6, <1>8 DEF ScreensInv, GuardaInv
  <1>11. CartaoInv' /\ BotaoInv'
    BY <1>3, <1>6 DEF ScreensInv, CartaoInv, BotaoInv
  <1>12. QED
    BY <1>7, <1>9, <1>10, <1>11 DEF ScreensInv

\* An answer that is taken is that of the last request, where the screen drops late ones.
LEMMA DaUltima ==
  ASSUME ScreensInv, NEW c \in cargas, T!Aceita(c), tela.guarda # "nenhuma"
  PROVE  c.n = seq /\ \A d \in cargas : d.n = seq => d = c
  <1>1. c.n = seq
    BY TelaTabela DEF T!Aceita, Tabela, ScreensInv, GuardaInv
  <1>2. QED
    BY <1>1 DEF ScreensInv, FormaInv

\* A request less.
LEMMA FormaSem ==
  ASSUME ScreensInv, NEW c \in cargas, cargas' = cargas \ {c}, erro' \in BOOLEAN, carregando' \in BOOLEAN,
         UNCHANGED <<tela, filtro, pagina, seq, escritas, enviadas, minha, servidor>>,
         vista' \in 0..servidor, mostrado'.n \in 0..seq, mostrado'.versao \in Nat
  PROVE  FormaInv'
  <1>1. EscritaT' = EscritaT
    BY DEF EscritaT
  <1>2. QED
    BY <1>1 DEF ScreensInv, FormaInv

LEMMA AceitaKeeps ==
  ASSUME ScreensInv, NEW c \in cargas, c.fase = "volta", T!Aceita(c), cargas' = cargas \ {c}, T!Mostra(c), erro' = FALSE,
         carregando' = FALSE, UNCHANGED <<tela, filtro, pagina, seq, escritas, enviadas, minha, servidor>>
  PROVE  ScreensInv'
  <1>1. /\ c \in CargaT /\ c.n \in Nat /\ 0 < c.n /\ c.n <= seq /\ seq \in Nat /\ c.versao \in Nat /\ c.versao <= servidor
        /\ servidor \in Nat /\ vista \in Nat /\ vista <= servidor
    BY DEF ScreensInv, FormaInv, CargaT
  <1>2. /\ mostrado'.n = c.n /\ mostrado'.filtro = c.filtro /\ mostrado'.pagina = c.pagina /\ mostrado'.versao = c.versao
        /\ c.herdada => mostrado'.herdada
        /\ tela.botao /\ c.filtro # filtro => mostrado'.herdada
    BY DEF T!Mostra
  <1>3. mostrado' # T!Nada
    BY <1>1, <1>2 DEF T!Nada
  <1>4. vista' \in 0..servidor /\ (vista <= c.versao => vista' = c.versao)
    BY <1>1 DEF T!Mostra, T!Maior
  <1>5. FormaInv'
    <2>1. mostrado'.n \in 0..seq /\ mostrado'.versao \in Nat
      BY <1>1, <1>2
    <2>2. erro' \in BOOLEAN /\ carregando' \in BOOLEAN
      OBVIOUS
    <2>3. QED
      BY <1>4, <2>1, <2>2, FormaSem
  <1>6. UltimaInv'
    BY <1>2 DEF ScreensInv, UltimaInv
  <1>7. GuardaInv'
    BY <1>2, <1>4, DaUltima DEF ScreensInv, GuardaInv
  <1>8. CartaoInv'
    <2>1. SUFFICES ASSUME Cartao(tela) PROVE CartaoInv'
      BY DEF CartaoInv
    <2>2. seq = 1 /\ mostrado = T!Nada /\ escritas = {}
      BY <2>1 DEF ScreensInv, CartaoInv
    <2>3. cargas' = {}
      BY <1>1, <2>1, <2>2, DaUltima DEF Cartao, ScreensInv, FormaInv, CargaT
    <2>4. QED
      BY <2>2, <2>3 DEF CartaoInv
  <1>9. BotaoInv'
    BY <1>2 DEF BotaoInv
  <1>10. QED
    BY <1>5, <1>6, <1>7, <1>8, <1>9 DEF ScreensInv

LEMMA RecusaKeeps ==
  ASSUME ScreensInv, NEW c \in cargas, ~T!Aceita(c), cargas' = cargas \ {c},
         UNCHANGED <<tela, filtro, pagina, seq, carregando, mostrado, erro, escritas, enviadas, minha, servidor, vista>>
  PROVE  ScreensInv'
  <1>1. c.n # seq /\ tela.guarda # "nenhuma"
    BY DEF T!Aceita
  <1>2. FormaInv'
    <2>1. /\ vista' \in 0..servidor /\ mostrado'.n \in 0..seq /\ mostrado'.versao \in Nat
          /\ erro' \in BOOLEAN /\ carregando' \in BOOLEAN
      BY DEF ScreensInv, FormaInv
    <2>2. QED
      BY <2>1, FormaSem
  <1>3. UltimaInv' /\ CartaoInv'
    BY DEF ScreensInv, UltimaInv, CartaoInv
  <1>4. GuardaInv'
    BY <1>1 DEF ScreensInv, GuardaInv
  <1>5. BotaoInv'
    BY <1>1 DEF ScreensInv, BotaoInv, GuardaInv
  <1>6. QED
    BY <1>2, <1>3, <1>4, <1>5 DEF ScreensInv

LEMMA ChegaCargaKeeps ==
  ASSUME ScreensInv, NEW c \in cargas, T!Chega(c)
  PROVE  ScreensInv'
  BY AceitaKeeps, RecusaKeeps DEF T!Chega, T!escritaVars

LEMMA FechaFichaKeeps ==
  ASSUME ScreensInv, tela.fecha, T!FechaFicha, UNCHANGED <<tela, enviadas, minha, servidor, vista>>
  PROVE  ScreensInv'
  <1>1. tela.guarda = "nenhuma"
    BY TelaTabela DEF Tabela
  <1>2. /\ filtro' = T!Fechada /\ pagina' = 1 /\ cargas' = {} /\ escritas' = {} /\ mostrado' = T!Nada
        /\ carregando' = FALSE /\ erro' = FALSE /\ seq' = seq
    BY DEF T!FechaFicha
  <1>3. T!Fechada \in Lugares /\ 1 \in T!Paginas /\ T!Nada.n = 0 /\ T!Nada.versao = 0
    BY DEF Lugares, T!Paginas, T!Nada
  <1>4. erro' \in BOOLEAN /\ carregando' \in BOOLEAN
    BY <1>2
  <1>5. FormaInv'
    BY <1>2, <1>3, <1>4 DEF ScreensInv, FormaInv
  <1>6. UltimaInv' /\ GuardaInv' /\ CartaoInv' /\ BotaoInv'
    BY <1>1, <1>2 DEF ScreensInv, UltimaInv, GuardaInv, CartaoInv, Cartao, BotaoInv
  <1>7. QED
    BY <1>5, <1>6 DEF ScreensInv

LEMMA FechaKeeps ==
  ASSUME ScreensInv, T!Fecha
  PROVE  ScreensInv'
  BY FechaFichaKeeps DEF T!Fecha

LEMMA FalhaKeeps ==
  ASSUME ScreensInv, NEW c \in cargas, T!Falha(c)
  PROVE  ScreensInv'
  <1>1. UNCHANGED <<tela, enviadas, minha, servidor, vista>>
    BY DEF T!Falha
  <1>2. CASE ~T!Aceita(c)
    BY <1>2, RecusaKeeps DEF T!Falha
  <1>3. CASE T!Aceita(c) /\ tela.fecha
    BY <1>1, <1>3, FechaFichaKeeps DEF T!Falha
  <1>4. CASE T!Aceita(c) /\ ~tela.fecha /\ tela.avisa
    <2>1. tela.guarda = "nenhuma"
      BY <1>4, TelaTabela DEF Tabela
    <2>2. PICK q \in BOOLEAN : q = FALSE
      OBVIOUS
    <2>3. PICK u : u = T!DaTela(FALSE)
      OBVIOUS
    <2>4. u \in CargaT /\ u.n = seq + 1 /\ u.filtro = filtro /\ u.pagina = pagina /\ u.fase = "vai"
      BY <2>2, <2>3, PedidaDaTela
    <2>5. PICK S : S = {u}
      OBVIOUS
    <2>6. PICK C : C = cargas \ {c}
      OBVIOUS
    <2>7. /\ cargas' = C \cup S /\ seq' = u.n /\ UNCHANGED <<filtro, pagina, mostrado, escritas>>
          /\ erro' = TRUE /\ carregando' = (tela.gira # "nunca")
      BY <1>4, <2>3, <2>4, <2>5, <2>6 DEF T!Falha
    <2>8. /\ erro' \in BOOLEAN /\ carregando' \in BOOLEAN /\ minha \in 0..servidor /\ filtro \in Lugares /\ pagina \in T!Paginas
          /\ Devolve(tela) => minha = 0
      BY <2>7 DEF ScreensInv, FormaInv, UltimaInv
    <2>9. /\ u \in S /\ S \subseteq CargaT /\ \A d \in S : seq < d.n /\ d.n <= u.n /\ d.fase = "vai"
          /\ \A a, d \in S : a.n = d.n => a = d
      BY <2>4, <2>5 DEF ScreensInv, FormaInv
    <2>10. ~Cartao(tela) /\ C \subseteq cargas
      BY <2>1, <2>6 DEF Cartao
    <2>11. QED
      BY <1>1, <2>1, <2>4, <2>7, <2>8, <2>9, <2>10, AskKeeps
  <1>5. CASE T!Aceita(c) /\ ~tela.fecha /\ ~tela.avisa
    <2>1. /\ cargas' = cargas \ {c} /\ erro' = TRUE /\ carregando' = FALSE
          /\ UNCHANGED <<filtro, pagina, mostrado, escritas, seq>>
      BY <1>5 DEF T!Falha
    <2>2. FormaInv'
      <3>1. erro' \in BOOLEAN /\ carregando' \in BOOLEAN
        BY <2>1
      <3>2. vista' \in 0..servidor /\ mostrado'.n \in 0..seq /\ mostrado'.versao \in Nat
        BY <1>1, <2>1 DEF ScreensInv, FormaInv
      <3>3. QED
        BY <1>1, <2>1, <3>1, <3>2, FormaSem
    <2>3. UltimaInv' /\ CartaoInv' /\ BotaoInv'
      BY <1>1, <2>1 DEF ScreensInv, UltimaInv, CartaoInv, BotaoInv
    <2>4. GuardaInv'
      BY <1>1, <1>5, <2>1, DaUltima DEF ScreensInv, GuardaInv
    <2>5. QED
      BY <2>2, <2>3, <2>4 DEF ScreensInv
  <1>6. QED
    BY <1>2, <1>3, <1>4, <1>5

\* Forms.
LEMMA MudaKeeps ==
  ASSUME ScreensInv, T!Muda
  PROVE  ScreensInv'
  <1>1. /\ UNCHANGED <<tela, filtro, pagina, seq, cargas, carregando, mostrado, erro, escritas, enviadas, minha, vista>>
        /\ servidor' = servidor + 1
    BY DEF T!Muda, T!cargaVars, T!escritaVars
  <1>2. EscritaT' = EscritaT
    BY <1>1 DEF EscritaT
  <1>3. \A c \in cargas : c.versao \in Nat
    BY DEF ScreensInv, FormaInv, CargaT
  <1>4. \A e \in escritas : e.versao \in Nat
    BY DEF ScreensInv, FormaInv, EscritaT
  <1>5. FormaInv'
    BY <1>1, <1>2, <1>3, <1>4 DEF ScreensInv, FormaInv
  <1>6. UltimaInv' /\ GuardaInv' /\ CartaoInv' /\ BotaoInv'
    BY <1>1 DEF ScreensInv, UltimaInv, GuardaInv, CartaoInv, BotaoInv
  <1>7. QED
    BY <1>5, <1>6 DEF ScreensInv

LEMMA EnviaFormKeeps ==
  ASSUME ScreensInv, NEW f \in tela.formularios, T!Envia(f)
  PROVE  ScreensInv'
  <1>1. PICK e : e = [n |-> enviadas + 1, f |-> f, filtro |-> filtro, pagina |-> pagina, fase |-> "vai", versao |-> 0]
    OBVIOUS
  <1>2. /\ escritas' = escritas \cup {e} /\ enviadas' = enviadas + 1 /\ mostrado # T!Nada
        /\ f.recarrega = "devolve" => escritas = {}
        /\ UNCHANGED <<tela, filtro, pagina, seq, cargas, carregando, mostrado, erro, servidor, minha, vista>>
    BY <1>1 DEF T!Envia, T!cargaVars
  <1>3. enviadas + 1 \in Nat /\ servidor \in Nat /\ filtro \in Lugares /\ pagina \in T!Paginas
    BY DEF ScreensInv, FormaInv
  <1>4. e \in EscritaT /\ e.versao = 0 /\ e.fase = "vai"
    BY <1>1, <1>3 DEF EscritaT
  <1>5. EscritaT' = EscritaT
    BY <1>2 DEF EscritaT
  <1>6. FormaInv'
    BY <1>2, <1>3, <1>4, <1>5 DEF ScreensInv, FormaInv
  <1>7. Cartao(tela) => escritas = {}
    BY <1>2, TelaTabela DEF Tabela, Cartao
  <1>8. CartaoInv'
    BY <1>2, <1>4, <1>7 DEF ScreensInv, CartaoInv
  <1>9. UltimaInv' /\ GuardaInv' /\ BotaoInv'
    BY <1>2 DEF ScreensInv, UltimaInv, GuardaInv, BotaoInv
  <1>10. QED
    BY <1>6, <1>8, <1>9 DEF ScreensInv

LEMMA GravaFormKeeps ==
  ASSUME ScreensInv, NEW e \in escritas, T!Grava(e)
  PROVE  ScreensInv'
  <1>1. UNCHANGED <<tela, filtro, pagina, seq, cargas, carregando, mostrado, erro, enviadas, minha, vista>>
    BY DEF T!Grava, T!cargaVars
  <1>2. PICK s \in {"gravou", "recusou"}, v \in {0, servidor'} :
            /\ escritas' = (escritas \ {e}) \cup {[e EXCEPT !.fase = s, !.versao = v]}
            /\ \/ s = "gravou" /\ servidor' = servidor + 1 /\ v = servidor'
               \/ s = "recusou" /\ servidor' = servidor /\ v = 0
    BY DEF T!Grava, T!Passa
  <1>3. PICK d : d = [e EXCEPT !.fase = s, !.versao = v]
    OBVIOUS
  <1>4. /\ e \in EscritaT /\ servidor \in Nat /\ vista \in Nat /\ vista <= servidor
        /\ servidor' \in Nat /\ servidor <= servidor' /\ v \in Nat /\ v <= servidor' /\ (s = "gravou" => v = servidor')
    BY <1>2 DEF ScreensInv, FormaInv
  <1>5. d \in EscritaT /\ d.fase = s /\ d.versao = v
    BY <1>2, <1>3, <1>4 DEF EscritaT
  <1>6. escritas' = (escritas \ {e}) \cup {d}
    BY <1>2, <1>3
  <1>7. EscritaT' = EscritaT
    BY <1>1 DEF EscritaT
  <1>8. FormaInv'
    <2>1. \A c \in cargas : c.versao \in Nat
      BY DEF ScreensInv, FormaInv, CargaT
    <2>2. \A c \in cargas : 0 < c.n /\ c.n <= seq /\ (c.fase = "volta" => c.versao <= servidor')
      BY <1>4, <2>1 DEF ScreensInv, FormaInv
    <2>3. \A k \in escritas : k.versao \in Nat /\ k.versao <= servidor
      BY DEF ScreensInv, FormaInv, EscritaT
    <2>4. \A k \in escritas' : k.versao <= servidor'
      BY <1>4, <1>5, <1>6, <2>3
    <2>5. minha \in 0..servidor' /\ vista \in 0..servidor'
      BY <1>4 DEF ScreensInv, FormaInv
    <2>6. escritas' \subseteq EscritaT
      BY <1>5, <1>6 DEF ScreensInv, FormaInv
    <2>7. QED
      BY <1>1, <1>4, <1>7, <2>2, <2>4, <2>5, <2>6 DEF ScreensInv, FormaInv
  <1>9. CartaoInv'
    <2>1. s = "gravou" => vista <= v
      BY <1>4
    <2>2. QED
      BY <1>1, <1>5, <1>6, <2>1 DEF ScreensInv, CartaoInv
  <1>10. UltimaInv' /\ GuardaInv' /\ BotaoInv'
    BY <1>1 DEF ScreensInv, UltimaInv, GuardaInv, BotaoInv
  <1>11. QED
    BY <1>8, <1>9, <1>10 DEF ScreensInv

\* A form less.
LEMMA SemEscrita ==
  ASSUME ScreensInv, NEW e \in escritas, escritas' = escritas \ {e},
         UNCHANGED <<tela, filtro, pagina, seq, cargas, carregando, mostrado, erro, enviadas, servidor, minha, vista>>
  PROVE  ScreensInv'
  <1>1. EscritaT' = EscritaT
    BY DEF EscritaT
  <1>2. FormaInv'
    BY <1>1 DEF ScreensInv, FormaInv
  <1>3. UltimaInv' /\ GuardaInv' /\ BotaoInv'
    BY DEF ScreensInv, UltimaInv, GuardaInv, BotaoInv
  <1>4. CartaoInv'
    BY DEF ScreensInv, CartaoInv
  <1>5. QED
    BY <1>2, <1>3, <1>4 DEF ScreensInv

\* The screen asks again for what a form of it wrote.
LEMMA PedeDoEnvio ==
  ASSUME ScreensInv, NEW e \in escritas, e.f.recarrega # "devolve", tela.guarda = "uma" => cargas = {}, T!Pede(T!DoEnvio(e)),
         minha' = T!Maior(minha, e.versao), escritas' = escritas \ {e},
         UNCHANGED <<tela, filtro, pagina, mostrado, erro, enviadas, servidor, vista>>
  PROVE  ScreensInv'
  <1>1. /\ e \in EscritaT /\ e.f \in tela.formularios /\ e.filtro \in Lugares /\ e.pagina \in T!Paginas
        /\ e.versao \in Nat /\ e.versao <= servidor /\ seq \in Nat /\ minha \in 0..servidor /\ servidor \in Nat
        /\ filtro \in Lugares /\ pagina \in T!Paginas
    BY DEF ScreensInv, FormaInv, EscritaT
  <1>2. minha' \in 0..servidor
    BY <1>1 DEF T!Maior
  <1>3. ~Devolve(tela) /\ ~Cartao(tela) /\ (tela.avisa => tela.guarda = "nenhuma")
    BY <1>1, TelaTabela DEF Tabela, Cartao
  <1>4. erro' \in BOOLEAN /\ escritas' \subseteq escritas
    BY DEF ScreensInv, FormaInv
  <1>5. PICK q \in BOOLEAN : q = (tela.gira # "sempre")
    OBVIOUS
  <1>6. PICK h \in BOOLEAN : h = (<<e.filtro, e.pagina>> # <<filtro, pagina>>)
    OBVIOUS
  <1>7. PICK n \in Nat : n = seq + 1
    BY <1>1
  <1>8. PICK a : a = T!Carga(n, e.filtro, e.pagina, q, h)
    OBVIOUS
  <1>9. /\ a \in CargaT /\ a.n = n /\ a.filtro = e.filtro /\ a.pagina = e.pagina /\ a.herdada = h /\ a.fase = "vai"
    BY <1>1, <1>8, Pedida
  <1>10. a.herdada \/ (a.filtro = filtro /\ a.pagina = pagina)
    BY <1>6, <1>9
  <1>11. a = T!Carga(seq + 1, e.filtro, e.pagina, tela.gira # "sempre", <<e.filtro, e.pagina>> # <<filtro, pagina>>)
    BY <1>5, <1>6, <1>7, <1>8
  <1>12. CASE tela.avisa
    <2>1. PICK m \in Nat : m = seq + 2
      BY <1>1
    <2>2. PICK u : u = T!DoEfeito(seq + 2, filtro, pagina)
      OBVIOUS
    <2>3. u \in CargaT /\ u.n = m /\ u.filtro = filtro /\ u.pagina = pagina /\ u.fase = "vai"
      BY <1>1, <2>1, <2>2, PedidaDoEfeito
    <2>4. T!DoEnvio(e) = {a, u}
      BY <1>11, <1>12, <2>2 DEF T!DoEnvio
    <2>5. QED
      BY <1>2, <1>3, <1>4, <1>1, <1>7, <1>9, <1>12, <2>1, <2>3, <2>4, PedeDuas
  <1>13. CASE ~tela.avisa
    <2>1. T!DoEnvio(e) = {a}
      BY <1>11, <1>13 DEF T!DoEnvio
    <2>2. QED
      BY <1>1, <1>2, <1>3, <1>4, <1>7, <1>9, <1>10, <2>1, PedeUma
  <1>14. QED
    BY <1>12, <1>13

LEMMA DevolveKeeps ==
  ASSUME ScreensInv, NEW e \in escritas, e.fase = "gravou", e.f.recarrega = "devolve", escritas' = escritas \ {e},
         mostrado'.n = seq, mostrado'.filtro = filtro, mostrado'.pagina = pagina, mostrado'.versao = e.versao,
         vista' = T!Maior(vista, e.versao),
         UNCHANGED <<tela, filtro, pagina, seq, cargas, carregando, erro, enviadas, servidor, minha>>
  PROVE  ScreensInv'
  <1>1. /\ e \in EscritaT /\ e.f \in tela.formularios /\ e.versao \in Nat /\ e.versao <= servidor /\ servidor \in Nat
        /\ seq \in Nat /\ vista \in Nat /\ vista <= servidor
    BY DEF ScreensInv, FormaInv, EscritaT
  <1>2. vista' \in 0..servidor /\ (vista <= e.versao => vista' = e.versao)
    BY <1>1 DEF T!Maior
  <1>3. EscritaT' = EscritaT
    BY DEF EscritaT
  <1>4. FormaInv'
    BY <1>1, <1>2, <1>3 DEF ScreensInv, FormaInv
  <1>5. Devolve(tela) /\ (tela.guarda # "nenhuma" => Cartao(tela))
    BY <1>1 DEF Devolve, Cartao
  <1>6. UltimaInv'
    BY <1>1, <1>5 DEF ScreensInv, UltimaInv
  <1>7. Cartao(tela) => /\ seq = 1 /\ cargas = {} /\ escritas' = {} /\ vista <= e.versao
    BY DEF ScreensInv, CartaoInv
  <1>8. GuardaInv'
    BY <1>2, <1>5, <1>7 DEF ScreensInv, GuardaInv
  <1>9. CartaoInv'
    BY <1>7 DEF CartaoInv
  <1>10. BotaoInv'
    BY DEF ScreensInv, BotaoInv
  <1>11. QED
    BY <1>4, <1>6, <1>8, <1>9, <1>10 DEF ScreensInv

\* A form that is not followed by anything asked, but by what a notice brings.
LEMMA AvisaKeeps ==
  ASSUME ScreensInv, NEW e \in escritas, escritas' = escritas \ {e}, IF tela.avisa THEN T!Pede({T!DaTela(FALSE)}) ELSE T!NaoPede,
         UNCHANGED <<tela, filtro, pagina, mostrado, erro, enviadas, servidor, minha, vista>>
  PROVE  ScreensInv'
  <1>1. CASE tela.avisa
    <2>1. tela.guarda = "nenhuma"
      BY <1>1, TelaTabela DEF Tabela
    <2>2. PICK q \in BOOLEAN : q = FALSE
      OBVIOUS
    <2>3. QED
      BY <1>1, <2>1, <2>2, PedeDaTela DEF Cartao
  <1>2. CASE ~tela.avisa
    BY <1>2, SemEscrita DEF T!NaoPede, T!cargaVars
  <1>3. QED
    BY <1>1, <1>2

LEMMA VoltaKeeps ==
  ASSUME ScreensInv, NEW e \in escritas, T!Volta(e)
  PROVE  ScreensInv'
  <1>1. /\ e.fase = "gravou" /\ escritas' = escritas \ {e}
        /\ UNCHANGED <<tela, filtro, pagina, erro, enviadas, servidor>>
    BY DEF T!Volta
  <1>2. CASE /\ e.f.recarrega \in {"aceita", "sempre"} /\ ~T!Ocupada /\ T!Pede(T!DoEnvio(e)) /\ minha' = T!Maior(minha, e.versao)
             /\ UNCHANGED <<mostrado, vista>>
    BY <1>1, <1>2, PedeDoEnvio DEF T!Ocupada
  <1>3. CASE T!NaoPede /\ UNCHANGED <<mostrado, vista, minha>>
    BY <1>1, <1>3, SemEscrita DEF T!NaoPede, T!cargaVars
  <1>4. CASE /\ e.f.recarrega = "devolve" /\ T!NaoPede /\ UNCHANGED minha
             /\ T!Mostra([T!Carga(seq, filtro, pagina, FALSE, FALSE) EXCEPT !.versao = e.versao])
    <2>1. /\ mostrado'.n = seq /\ mostrado'.filtro = filtro /\ mostrado'.pagina = pagina /\ mostrado'.versao = e.versao
          /\ vista' = T!Maior(vista, e.versao)
      BY <1>4 DEF T!Mostra, T!Carga
    <2>2. QED
      BY <1>1, <1>4, <2>1, DevolveKeeps DEF T!NaoPede, T!cargaVars
  <1>5. CASE /\ IF tela.avisa THEN T!Pede({T!DaTela(FALSE)}) ELSE T!NaoPede
             /\ UNCHANGED <<mostrado, vista, minha>>
    BY <1>1, <1>5, AvisaKeeps
  <1>6. QED
    BY <1>2, <1>3, <1>4, <1>5 DEF T!Volta

LEMMA PerdeKeeps ==
  ASSUME ScreensInv, NEW e \in escritas, T!Perde(e)
  PROVE  ScreensInv'
  <1>1. /\ escritas' = escritas \ {e}
        /\ UNCHANGED <<tela, filtro, pagina, mostrado, erro, enviadas, servidor, vista>>
    BY DEF T!Perde
  <1>2. CASE e.f.recarrega = "sempre"
    <2>1. e.f \in tela.formularios
      BY DEF ScreensInv, FormaInv, EscritaT
    <2>2. tela.guarda # "uma"
      BY <1>2, <2>1, TelaTabela DEF Tabela
    <2>3. T!Pede(T!DoEnvio(e)) /\ minha' = T!Maior(minha, e.versao)
      BY <1>2 DEF T!Perde
    <2>4. QED
      BY <1>1, <1>2, <2>2, <2>3, PedeDoEnvio
  <1>3. CASE e.f.recarrega # "sempre"
    <2>1. (IF tela.avisa THEN T!Pede({T!DaTela(FALSE)}) ELSE T!NaoPede) /\ minha' = minha
      BY <1>3 DEF T!Perde
    <2>2. QED
      BY <1>1, <2>1, AvisaKeeps
  <1>4. QED
    BY <1>2, <1>3

LEMMA ScreensNext ==
  ASSUME ScreensInv, T!Next
  PROVE  ScreensInv'
  BY FiltraKeeps, ViraKeeps, RenovaKeeps, ApertaKeeps, FechaKeeps, MudaKeeps, RespondeCargaKeeps, ChegaCargaKeeps, FalhaKeeps,
     EnviaFormKeeps, GravaFormKeeps, VoltaKeeps, PerdeKeeps DEF T!Next

LEMMA ScreensStutter ==
  ASSUME ScreensInv, UNCHANGED T!vars
  PROVE  ScreensInv'
  <1>1. UNCHANGED <<tela, filtro, pagina, seq, cargas, carregando, mostrado, erro, escritas, enviadas, servidor, minha, vista>>
    BY DEF T!vars, T!cargaVars, T!escritaVars
  <1>2. EscritaT' = EscritaT
    BY <1>1 DEF EscritaT
  <1>3. QED
    BY <1>1, <1>2 DEF ScreensInv, FormaInv, UltimaInv, GuardaInv, CartaoInv, BotaoInv

-----------------------------------------------------------------------------
(* Types: what the bounds stop, beyond the invariants above *)

LEMMA InitAtos == D!Init => atos \in 0..MaxAtos
  BY LimitesDaRetaguarda DEF D!Init

\* Every operation that begins is counted.
LEMMA AtosStep ==
  ASSUME atos \in 0..MaxAtos, D!Next
  PROVE  atos' \in 0..MaxAtos
  <1>1. D!Comeca \/ atos' = atos
    BY DEF D!Next, D!CreateInvite, D!RevokeInviteLe, D!RevokeInviteGrava, D!RegisterLe, D!RegisterGrava,
      D!UpdateAffiliateNetworkLe, D!UpdateAffiliateNetworkGrava, D!CreateManagedUser, D!UpdateUserRole, D!RequestAffiliate,
      D!ApproveAffiliate, D!AffiliateWorkspace, D!DeleteGroup, D!DeleteEmpty
  <1>2. D!Comeca => atos < MaxAtos /\ atos' = atos + 1
    BY DEF D!Comeca
  <1>3. QED
    BY <1>1, <1>2, LimitesDaRetaguarda

LEMMA RedeTypeHolds ==
  ASSUME RedeInv, atos \in 0..MaxAtos
  PROVE  D!TypeOK
  BY DEF RedeInv, RedeTipo, D!TypeOK, Afiliacao, Convidado, UmOuNenhum, PedidoDaRede
-----------------------------------------------------------------------------
\* The rest of the files: what crossed and what failed.
ArquivosLimites == cruzadosArquivo \subseteq Arquivos /\ falhasArquivo \in 0..MaxFalhasDeArquivo

LEMMA InitArquivosLimites == Q!Init => ArquivosLimites
  BY LimitesDaRetaguarda DEF Q!Init, ArquivosLimites

LEMMA ArquivosLimitesStutter == ArquivosLimites /\ UNCHANGED arquivosVars => ArquivosLimites'
  BY DEF ArquivosLimites, arquivosVars

LEMMA LimitesDosArquivosStep ==
  ASSUME ArquivosLimites, Q!Next
  PROVE  ArquivosLimites'
  <1>1. falhasArquivo' = falhasArquivo \/ (falhasArquivo < MaxFalhasDeArquivo /\ falhasArquivo' = falhasArquivo + 1)
    BY DEF Q!Next, Q!Paga, Q!Encerra, Q!Confere, Q!Salva, Q!Insere, Q!NaoInsere, Q!Cai, Q!Altera, Q!Reenvia, Q!Remove,
      Q!Monta, Q!Envia
  <1>2. cruzadosArquivo' = cruzadosArquivo \/ \E a \in Arquivos : cruzadosArquivo' = cruzadosArquivo \cup {a}
    BY DEF Q!Next, Q!Paga, Q!Encerra, Q!Confere, Q!Salva, Q!Insere, Q!NaoInsere, Q!Cai, Q!Altera, Q!Reenvia, Q!Remove,
      Q!Monta, Q!Envia
  <1>3. falhasArquivo' \in 0..MaxFalhasDeArquivo
    BY <1>1, LimitesDaRetaguarda DEF ArquivosLimites
  <1>4. cruzadosArquivo' \subseteq Arquivos
    BY <1>2 DEF ArquivosLimites
  <1>5. QED
    BY <1>3, <1>4 DEF ArquivosLimites

LEMMA FilesTypeHolds ==
  ASSUME FilesInv, ArquivosLimites
  PROVE  Q!TypeOK
  <1>1. \A a \in Arquivos : arquivo[a].fase \in {"nenhum"} \cup Fases
    BY DEF FilesInv, FichaInv, Ficha, Q!Nenhum
  <1>2. avisos \subseteq Arquivos \cup {"pagamento"} /\ recebeu \subseteq Arquivos /\ correio.anexos \subseteq Arquivos
    BY DEF FilesInv, CorreioInv, DeQuemE
  <1>3. QED
    BY <1>1, <1>2 DEF FilesInv, FichaInv, ArquivosLimites, Q!TypeOK, Fases

-----------------------------------------------------------------------------
\* A version of an account was a change, or is one in flight; and each change is counted when it is asked for.
DeQuem(p) == {t \in troca : t.alvo = p}
MudancasInv ==
    /\ mudancas \in 0..MaxMudancas
    /\ X!IsFiniteSet(troca)
    /\ \A p \in Pessoas : cadastro[p].versao + X!Cardinality(DeQuem(p)) <= mudancas
AcessoLimites ==
    /\ MudancasInv
    /\ cookie \in X!SemSessao .. mudancas
    /\ aprovado \subseteq Pessoas

LEMMA TrocasDe ==
  ASSUME X!IsFiniteSet(troca), NEW p
  PROVE  X!IsFiniteSet(DeQuem(p)) /\ X!Cardinality(DeQuem(p)) \in Nat
  <1>1. IsFiniteSet(troca) /\ DeQuem(p) \in SUBSET troca
    BY DEF X!IsFiniteSet, IsFiniteSet, DeQuem
  <1>2. IsFiniteSet(DeQuem(p)) /\ Cardinality(DeQuem(p)) \in Nat
    BY <1>1, FS_Subset, FS_CardinalityType
  <1>3. QED
    BY <1>2 DEF X!IsFiniteSet, IsFiniteSet, X!Cardinality, Cardinality

LEMMA InitAcessoLimites ==
  ASSUME X!Init
  PROVE  AcessoLimites
  <1>1. \A p : DeQuem(p) = {}
    BY DEF DeQuem, X!Init
  <1>2. X!Cardinality({}) = 0 /\ X!IsFiniteSet({})
    BY FS_EmptySet DEF X!Cardinality, Cardinality, X!IsFiniteSet, IsFiniteSet
  <1>3. \A p \in Pessoas : cadastro[p].versao = 0
    BY DEF X!Init
  <1>4. mudancas = 0 /\ troca = {} /\ cookie = -1 /\ aprovado = {}
    BY DEF X!Init, X!SemSessao
  <1>5. \A p \in Pessoas : cadastro[p].versao + X!Cardinality(DeQuem(p)) <= mudancas
    <2>1. 0 + 0 <= 0
      OBVIOUS
    <2>2. QED
      BY <1>1, <1>2, <1>3, <1>4, <2>1
  <1>6. QED
    BY <1>2, <1>4, <1>5, LimitesDaRetaguarda DEF AcessoLimites, MudancasInv, X!SemSessao

\* One more change in flight.
LEMMA MaisUmaTroca ==
  ASSUME MudancasInv, NEW t, troca' = troca \cup {t}, cadastro' = cadastro,
         \A p \in Pessoas : cadastro[p].versao \in Nat,
         mudancas' = mudancas + 1, mudancas' <= MaxMudancas
  PROVE  MudancasInv'
  <1>1. IsFiniteSet(troca) /\ IsFiniteSet(troca')
    <2>1. IsFiniteSet(troca)
      BY DEF MudancasInv, X!IsFiniteSet, IsFiniteSet
    <2>2. QED
      BY <2>1, FS_AddElement
  <1>2. ASSUME NEW p \in Pessoas
        PROVE  Cardinality(DeQuem(p)') <= Cardinality(DeQuem(p)) + 1 /\ Cardinality(DeQuem(p)') \in Nat /\ Cardinality(DeQuem(p)) \in Nat
    <2>1. DeQuem(p) \in SUBSET troca /\ DeQuem(p)' \in SUBSET troca'
      BY DEF DeQuem
    <2>2. IsFiniteSet(DeQuem(p)) /\ IsFiniteSet(DeQuem(p)') /\ Cardinality(DeQuem(p)) \in Nat /\ Cardinality(DeQuem(p)') \in Nat
      BY <1>1, <2>1, FS_Subset, FS_CardinalityType
    <2>3. DeQuem(p)' \in SUBSET (DeQuem(p) \cup {t})
      BY DEF DeQuem
    <2>4. IsFiniteSet(DeQuem(p) \cup {t}) /\ Cardinality(DeQuem(p) \cup {t}) <= Cardinality(DeQuem(p)) + 1
      <3> HIDE DEF DeQuem
      <3>1. ASSUME NEW S, IsFiniteSet(S), Cardinality(S) \in Nat
            PROVE  IsFiniteSet(S \cup {t}) /\ Cardinality(S \cup {t}) <= Cardinality(S) + 1
        <4>1. CASE t \in S
          <5>1. S \cup {t} = S
            BY <4>1
          <5>2. QED
            BY <3>1, <5>1
        <4>2. CASE t \notin S
          <5>1. IsFiniteSet(S \cup {t}) /\ Cardinality(S \cup {t}) = Cardinality(S) + 1
            BY <3>1, <4>2, FS_AddElement
          <5>2. QED
            BY <3>1, <5>1
        <4>3. QED
          BY <4>1, <4>2
      <3>2. QED
        BY <2>2, <3>1
    <2>5. Cardinality(DeQuem(p)') <= Cardinality(DeQuem(p) \cup {t}) /\ Cardinality(DeQuem(p) \cup {t}) \in Nat
      BY <2>3, <2>4, FS_Subset, FS_CardinalityType
    <2> HIDE DEF DeQuem
    <2>6. QED
      BY <2>2, <2>4, <2>5
  <1>3. ASSUME NEW p \in Pessoas PROVE cadastro'[p].versao + Cardinality(DeQuem(p)') <= mudancas'
    <2> DEFINE v == cadastro[p].versao  k == Cardinality(DeQuem(p))  n == Cardinality(DeQuem(p)')
    <2>1. v \in Nat /\ k \in Nat /\ n \in Nat /\ n <= k + 1 /\ v + k <= mudancas /\ mudancas \in Nat /\ cadastro'[p].versao = v
      <3>1. v + k <= mudancas
        BY DEF MudancasInv, X!Cardinality, Cardinality
      <3>2. mudancas \in Nat
        BY DEF MudancasInv
      <3>3. QED
        BY <1>2, <3>1, <3>2
    <2> HIDE DEF v, k, n
    <2>2. v + n <= mudancas + 1
      BY <2>1
    <2>3. QED
      BY <2>1, <2>2 DEF n
  <1>4. mudancas' \in 0..MaxMudancas
    BY LimitesDaRetaguarda DEF MudancasInv
  <1>5. QED
    BY <1>1, <1>3, <1>4 DEF MudancasInv, X!IsFiniteSet, IsFiniteSet, X!Cardinality, Cardinality, DeQuem

\* One change that was in flight is written, or undone.
LEMMA MenosUmaTroca ==
  ASSUME MudancasInv, NEW t \in troca, t.alvo \in Pessoas, troca' = troca \ {t}, mudancas' = mudancas,
         \A p \in Pessoas : cadastro[p].versao \in Nat,
         \A p \in Pessoas : cadastro'[p].versao = cadastro[p].versao \/ (p = t.alvo /\ cadastro'[p].versao = cadastro[p].versao + 1)
  PROVE  MudancasInv'
  <1>1. IsFiniteSet(troca) /\ IsFiniteSet(troca')
    <2>1. IsFiniteSet(troca)
      BY DEF MudancasInv, X!IsFiniteSet, IsFiniteSet
    <2>2. QED
      BY <2>1, FS_RemoveElement
  <1>2. ASSUME NEW p \in Pessoas PROVE cadastro'[p].versao + Cardinality(DeQuem(p)') <= mudancas
    <2> DEFINE v == cadastro[p].versao  w == cadastro'[p].versao  k == Cardinality(DeQuem(p))  n == Cardinality(DeQuem(p)')
    <2>1. DeQuem(p) \in SUBSET troca
      BY DEF DeQuem
    <2>2. IsFiniteSet(DeQuem(p)) /\ k \in Nat
      BY <1>1, <2>1, FS_Subset, FS_CardinalityType
    <2>3. v \in Nat /\ v + k <= mudancas /\ mudancas \in Nat
      <3>1. v + k <= mudancas
        BY DEF MudancasInv, X!Cardinality, Cardinality
      <3>2. v \in Nat /\ mudancas \in Nat
        BY DEF MudancasInv
      <3>3. QED
        BY <3>1, <3>2
    <2>4. CASE p = t.alvo
      <3>1. DeQuem(p)' = DeQuem(p) \ {t} /\ t \in DeQuem(p)
        BY <2>4 DEF DeQuem
      <3>2. n = k - 1
        BY <2>2, <3>1, FS_RemoveElement
      <3>3. w = v \/ w = v + 1
        BY <2>4
      <3> HIDE DEF v, w, k, n
      <3>4. w + n <= mudancas
        BY <2>2, <2>3, <3>2, <3>3
      <3>5. QED
        BY <3>4 DEF w, n
    <2>5. CASE p # t.alvo
      <3>1. DeQuem(p)' = DeQuem(p)
        BY <2>5 DEF DeQuem
      <3>2. QED
        BY <2>3, <2>5, <3>1
    <2>6. QED
      BY <2>4, <2>5
  <1>3. QED
    BY <1>1, <1>2 DEF MudancasInv, X!IsFiniteSet, IsFiniteSet, X!Cardinality, Cardinality, DeQuem

\* A change that is made at once.
LEMMA MudaJa ==
  ASSUME MudancasInv, troca' = troca, mudancas' = mudancas + 1, mudancas' <= MaxMudancas,
         \A p \in Pessoas : cadastro[p].versao \in Nat,
         \A p \in Pessoas : cadastro'[p].versao \in {cadastro[p].versao, cadastro[p].versao + 1}
  PROVE  MudancasInv'
  <1>1. ASSUME NEW p \in Pessoas PROVE cadastro'[p].versao + X!Cardinality(DeQuem(p)') <= mudancas'
    <2> DEFINE v == cadastro[p].versao  w == cadastro'[p].versao  k == X!Cardinality(DeQuem(p))
    <2>1. k \in Nat /\ v + k <= mudancas /\ mudancas \in Nat /\ v \in Nat /\ (w = v \/ w = v + 1)
      BY TrocasDe DEF MudancasInv
    <2>2. X!Cardinality(DeQuem(p)') = k
      BY DEF DeQuem
    <2> HIDE DEF v, w, k
    <2>3. w + k <= mudancas + 1
      BY <2>1
    <2>4. QED
      BY <2>2, <2>3 DEF w
  <1>2. mudancas' \in 0..MaxMudancas
    BY LimitesDaRetaguarda DEF MudancasInv
  <1>3. QED
    BY <1>1, <1>2 DEF MudancasInv, DeQuem

LEMMA AcessoLimitesStep ==
  ASSUME ChefeInv, eu \in Pessoas, AcessoLimites, X!Next
  PROVE  AcessoLimites'
  <1>1. \A p \in Pessoas : cadastro[p].versao \in Nat
    BY DEF ChefeInv, Cadastro
  <1>2. \A p \in Pessoas : cadastro[p].versao <= mudancas
    <2>1. ASSUME NEW p \in Pessoas PROVE cadastro[p].versao <= mudancas
      <3>1. X!Cardinality(DeQuem(p)) \in Nat /\ cadastro[p].versao + X!Cardinality(DeQuem(p)) <= mudancas /\ mudancas \in Nat
        BY TrocasDe DEF AcessoLimites, MudancasInv
      <3>2. QED
        BY <1>1, <3>1
    <2>2. QED
      BY <2>1
  <1>3. X!PodeMudar => mudancas < MaxMudancas
    BY LimitesDaRetaguarda DEF X!PodeMudar, AcessoLimites, MudancasInv
  <1>4. mudancas \in Nat /\ cookie \in -1..mudancas
    BY DEF AcessoLimites, MudancasInv, X!SemSessao
  <1>5. CASE X!EntraPelaPagina \/ X!AbreEndereco \/ X!Confere
    <2>1. UNCHANGED <<cadastro, troca, aprovado, mudancas>>
      BY <1>5 DEF X!EntraPelaPagina, X!Entra, X!AbreEndereco, X!Abre, X!Confere
    <2>2. cookie' = cookie \/ cookie' = -1 \/ cookie' = cadastro[eu].versao
      BY <1>5 DEF X!EntraPelaPagina, X!Entra, X!AbreEndereco, X!Abre, X!Confere, X!SemSessao
    <2>3. cookie' \in -1..mudancas'
      BY <1>1, <1>2, <1>4, <2>1, <2>2
    <2>4. MudancasInv'
      BY <2>1 DEF AcessoLimites, MudancasInv, DeQuem
    <2>5. QED
      BY <2>1, <2>3, <2>4 DEF AcessoLimites, X!SemSessao
  <1>6. ASSUME cookie' = cookie, mudancas' \in {mudancas, mudancas + 1}, MudancasInv', aprovado' \subseteq Pessoas
        PROVE  AcessoLimites'
    BY <1>4, <1>6 DEF AcessoLimites, X!SemSessao
  <1>7. ASSUME NEW ator \in Pessoas, NEW p \in Pessoas, NEW cargo \in X!Papeis, X!UpdateUserRole(ator, p, cargo)
        PROVE  AcessoLimites'
    <2>1. MudancasInv'
      <3>1. \E t : troca' = troca \cup {t}
        BY <1>7 DEF X!UpdateUserRole
      <3>2. cadastro' = cadastro /\ mudancas' = mudancas + 1 /\ mudancas' <= MaxMudancas
        BY <1>3, <1>4, <1>7, LimitesDaRetaguarda DEF X!UpdateUserRole
      <3>3. QED
        BY <1>1, <3>1, <3>2, MaisUmaTroca DEF AcessoLimites
    <2>2. QED
      BY <1>6, <1>7, <2>1 DEF X!UpdateUserRole, AcessoLimites
  <1>8. ASSUME NEW t \in troca, X!GravaPapel(t)
        PROVE  AcessoLimites'
    <2>1. t.alvo \in Pessoas /\ troca' = troca \ {t} /\ mudancas' = mudancas /\ cookie' = cookie
      BY <1>8 DEF X!GravaPapel, ChefeInv, FormaTroca
    <2>2. cadastro' = cadastro \/ cadastro' = [cadastro EXCEPT ![t.alvo] = X!ComPapel(cadastro[t.alvo], t.papel)]
      BY <1>8 DEF X!GravaPapel
    <2>3. ASSUME NEW c \in Cadastro, NEW cargo PROVE X!ComPapel(c, cargo).versao = c.versao + 1
      BY DEF X!ComPapel, X!ProximaVersao, Cadastro
    <2>4. \A p \in Pessoas : cadastro[p] \in Cadastro
      BY DEF ChefeInv
    <2>5. \A p \in Pessoas : cadastro'[p].versao = cadastro[p].versao \/ (p = t.alvo /\ cadastro'[p].versao = cadastro[p].versao + 1)
      BY <2>1, <2>2, <2>3, <2>4 DEF ChefeInv
    <2>6. MudancasInv'
      BY <1>1, <2>1, <2>5, MenosUmaTroca DEF AcessoLimites
    <2>7. aprovado' \subseteq Pessoas
      BY <1>8 DEF X!GravaPapel, AcessoLimites
    <2>8. QED
      BY <1>6, <2>1, <2>6, <2>7
  <1>9. ASSUME NEW ator \in Pessoas, NEW p \in Pessoas, NEW ativa \in BOOLEAN, X!SetActive(ator, p, ativa)
        PROVE  AcessoLimites'
    <2>1. cadastro' = [cadastro EXCEPT ![p].ativa = ativa, ![p].versao = cadastro[p].versao + 1]
      BY <1>9 DEF X!SetActive, X!ProximaVersao
    <2>2. \A q \in Pessoas : cadastro[q] \in Cadastro
      BY DEF ChefeInv
    <2>3. \A q \in Pessoas : cadastro'[q].versao \in {cadastro[q].versao, cadastro[q].versao + 1}
      BY <2>1, <2>2 DEF ChefeInv, Cadastro
    <2>4. mudancas' = mudancas + 1 /\ mudancas' <= MaxMudancas /\ troca' = troca /\ cookie' = cookie /\ aprovado' \subseteq Pessoas
      BY <1>3, <1>4, <1>9, LimitesDaRetaguarda DEF X!SetActive, AcessoLimites
    <2>5. MudancasInv'
      BY <1>1, <2>3, <2>4, MudaJa DEF AcessoLimites
    <2>6. QED
      BY <1>6, <2>4, <2>5
  <1>10. ASSUME NEW ator \in Pessoas, NEW p \in Pessoas, X!ApproveAffiliate(ator, p)
        PROVE  AcessoLimites'
    <2>1. cadastro' = [cadastro EXCEPT ![p].papel = "afiliado"]
      BY <1>10 DEF X!ApproveAffiliate
    <2>2. \A q \in Pessoas : cadastro[q] \in Cadastro
      BY DEF ChefeInv
    <2>3. \A q \in Pessoas : cadastro'[q].versao \in {cadastro[q].versao, cadastro[q].versao + 1}
      BY <2>1, <2>2 DEF ChefeInv, Cadastro
    <2>4. mudancas' = mudancas + 1 /\ mudancas' <= MaxMudancas /\ troca' = troca /\ cookie' = cookie /\ aprovado' \subseteq Pessoas
      BY <1>3, <1>4, <1>10, LimitesDaRetaguarda DEF X!ApproveAffiliate, AcessoLimites
    <2>5. MudancasInv'
      BY <1>1, <2>3, <2>4, MudaJa DEF AcessoLimites
    <2>6. QED
      BY <1>6, <2>4, <2>5
  <1>11. QED
    BY <1>5, <1>7, <1>8, <1>9, <1>10 DEF X!Next, X!PedeTroca, X!GravaTroca, X!MudaAcesso, X!AprovaAfiliado

LEMMA AcessoLimitesStutter == AcessoLimites /\ UNCHANGED acessoVars => AcessoLimites'
  BY DEF AcessoLimites, MudancasInv, DeQuem, acessoVars

LEMMA AcessoTypeHolds ==
  ASSUME ChefeInv, EntradaInv, AcessoLimites
  PROVE  X!TypeOK
  <1>1. mudancas \in Nat /\ mudancas <= MaxMudancas
    BY LimitesDaRetaguarda DEF AcessoLimites, MudancasInv
  <1>2. ASSUME NEW p \in Pessoas PROVE cadastro[p] \in [papel : X!Papeis, versao : 0..MaxMudancas, ativa : BOOLEAN, ficha : BOOLEAN]
    <2>1. cadastro[p] \in Cadastro
      BY DEF ChefeInv
    <2>2. X!Cardinality(DeQuem(p)) \in Nat /\ cadastro[p].versao + X!Cardinality(DeQuem(p)) <= mudancas
      BY TrocasDe DEF AcessoLimites, MudancasInv
    <2>3. cadastro[p].versao \in Nat
      BY <2>1 DEF Cadastro
    <2>4. cadastro[p].versao \in 0..MaxMudancas
      BY <1>1, <2>2, <2>3, LimitesDaRetaguarda
    <2>5. QED
      BY <2>1, <2>4 DEF Cadastro
  <1>3. cadastro \in [Pessoas -> [papel : X!Papeis, versao : 0..MaxMudancas, ativa : BOOLEAN, ficha : BOOLEAN]]
    BY <1>2 DEF ChefeInv
  <1>4. cookie \in {X!SemSessao} \cup 0..MaxMudancas
    BY <1>1, LimitesDaRetaguarda DEF AcessoLimites, X!SemSessao
  <1>5. QED
    BY <1>3, <1>4 DEF ChefeInv, EntradaInv, AcessoLimites, MudancasInv, X!TypeOK, FormaTroca, FormaAba

-----------------------------------------------------------------------------
\* What the bounds of Provedores stop, and the page of Mercado Pago, whose payments have the identifier 1.
CobrancaLimites ==
    /\ token \in {"nenhum", "bom", "vencido"} /\ reservada \in BOOLEAN
    /\ postadas \in 0..MaxPostagens /\ postagens <= postadas
    /\ Len(cobrancas) <= MaxCobrancas
    /\ paginas \in 0..1
    /\ eventos \subseteq (1..MaxCobrancas) \X V!Estados
    /\ falhasPsp \in 0..MaxFalhas
    /\ psp = "mercadopago" => pagamento.id \in 0..1

LEMMA InitCobrancaLimites ==
  ASSUME V!Init
  PROVE  CobrancaLimites
  <1>1. Len(cobrancas) = 0 /\ postadas = 0 /\ postagens = 0 /\ paginas = 0 /\ falhasPsp = 0 /\ eventos = {}
    BY DEF V!Init
  <1>2. pagamento.id = 0 /\ token = "nenhum" /\ reservada = TRUE
    BY DEF V!Init
  <1>3. QED
    BY <1>1, <1>2, LimitesDaRetaguarda DEF CobrancaLimites

LEMMA CobrancaLimitesStutter == CobrancaLimites /\ UNCHANGED provedoresVars => CobrancaLimites'
  BY DEF CobrancaLimites, provedoresVars

\* The row, the token and the bounds of requests and failures.
LEMMA LinhaLimites ==
  ASSUME ChargesInv, CobrancaLimites, V!Next
  PROVE  /\ token' \in {"nenhum", "bom", "vencido"} /\ reservada' \in BOOLEAN
         /\ psp = "mercadopago" => pagamento'.id \in 0..1
         /\ falhasPsp' \in 0..MaxFalhas
         /\ psp' = psp
  <1>1. token' \in {token, "nenhum", "bom", "vencido"} /\ reservada' \in {reservada, FALSE} /\ psp' = psp
    BY DEF V!Next, V!Reivindica, V!Envia, V!Chega, V!Responde, V!Grava, V!SemResposta, V!Para, V!TokenVence, V!NoProvedor,
      V!Aviso, V!Consulta, V!Aplica, V!Expira, V!CancelaEncerrada, V!localVars
  <1>2. falhasPsp' = falhasPsp \/ (falhasPsp < MaxFalhas /\ falhasPsp' = falhasPsp + 1)
    BY DEF V!Next, V!Reivindica, V!Envia, V!Chega, V!Responde, V!Grava, V!SemResposta, V!Para, V!TokenVence, V!NoProvedor,
      V!Aviso, V!Consulta, V!Aplica, V!Expira, V!CancelaEncerrada, V!localVars
  <1>3. pagamento'.id = pagamento.id \/ (psp = "mercadopago" => pagamento'.id = 1)
    <2>1. ASSUME NEW s PROVE [pagamento EXCEPT !.status = s].id = pagamento.id
      BY DEF ChargesInv, CobrancaTipo
    <2>2. CASE V!Grava
      BY <2>2 DEF V!Grava
    <2>3. CASE V!Aplica
      <3>1. \E s : pagamento' = [pagamento EXCEPT !.status = s]
        BY <2>3 DEF V!Aplica
      <3>2. QED
        BY <2>1, <3>1
    <2>4. CASE V!Reivindica \/ V!SemResposta \/ V!CancelaEncerrada
      <3>1. \E s : pagamento' = [pagamento EXCEPT !.status = s]
        BY <2>4 DEF V!Reivindica, V!SemResposta, V!CancelaEncerrada
      <3>2. QED
        BY <2>1, <3>1
    <2>5. CASE pagamento' = pagamento
      BY <2>5
    <2>6. QED
      BY <2>2, <2>3, <2>4, <2>5 DEF V!Next, V!Envia, V!Chega, V!Responde, V!Para, V!TokenVence, V!NoProvedor, V!Aviso,
        V!Consulta, V!Aplica, V!Expira, V!localVars
  <1>4. falhasPsp' \in 0..MaxFalhas
    BY <1>2, LimitesDaRetaguarda DEF CobrancaLimites
  <1>5. psp = "mercadopago" => pagamento'.id \in 0..1
    BY <1>3 DEF CobrancaLimites
  <1>6. token' \in {"nenhum", "bom", "vencido"} /\ reservada' \in BOOLEAN
    BY <1>1 DEF CobrancaLimites
  <1>7. QED
    BY <1>1, <1>4, <1>5, <1>6

\* What is at the provider.
LEMMA ProvedorLimites ==
  ASSUME ChargesInv, CobrancaLimites, V!Next
  PROVE  /\ postadas' \in 0..MaxPostagens /\ postagens' <= postadas'
         /\ Len(cobrancas') <= MaxCobrancas
         /\ paginas' \in 0..1
         /\ eventos' \subseteq (1..MaxCobrancas) \X V!Estados
  <1> DEFINE Iguais == Len(cobrancas') = Len(cobrancas) /\ paginas' = paginas /\ eventos' = eventos
             Mandados == postadas' = postadas /\ postagens' = postagens
  <1>1. postagens \in Nat /\ postadas \in 0..MaxPostagens /\ postagens <= postadas /\ cobrancas \in Seq(V!Estados)
        /\ Len(cobrancas) \in Nat /\ Len(cobrancas) <= MaxCobrancas /\ V!Ids = 1..Len(cobrancas)
    BY DEF ChargesInv, CobrancaTipo, CobrancaLimites, V!Ids
  <1>2. \A x \in V!Ids : \A e \in V!Estados : V!Muda(x, e) => Len(cobrancas') = Len(cobrancas)
                                               /\ eventos' \subseteq (1..MaxCobrancas) \X V!Estados
    <2> SUFFICES ASSUME NEW x \in V!Ids, NEW e \in V!Estados, V!Muda(x, e)
                 PROVE  Len(cobrancas') = Len(cobrancas) /\ eventos' \subseteq (1..MaxCobrancas) \X V!Estados
      OBVIOUS
    <2>1. Len(cobrancas') = Len(cobrancas)
      BY <1>1 DEF V!Muda
    <2>2. x \in 1..MaxCobrancas
      BY <1>1, LimitesDaRetaguarda
    <2>3. eventos' = eventos \cup {<<x, e>>}
      BY DEF V!Muda
    <2>4. QED
      BY <2>1, <2>2, <2>3 DEF CobrancaLimites
  <1>3. CASE Iguais /\ Mandados
    BY <1>3 DEF CobrancaLimites
  <1>4. CASE V!Envia
    <2>1. Iguais
      BY <1>4 DEF V!Envia
    <2>2. postadas < MaxPostagens /\ (Mandados \/ (postagens' = postagens + 1 /\ postadas' = postadas + 1))
      BY <1>4 DEF V!Envia
    <2>3. postadas' \in 0..MaxPostagens /\ postagens' <= postadas'
      BY <1>1, <2>2, LimitesDaRetaguarda
    <2>4. QED
      BY <2>1, <2>3 DEF CobrancaLimites
  <1>5. CASE V!Chega
    <2>1. postadas' = postadas /\ postagens' = postagens - 1 /\ eventos' = eventos
      BY <1>5 DEF V!Chega
    <2>2. postagens' <= postadas'
      BY <1>1, <2>1
    <2>3. Iguais \/ (Len(cobrancas') = Len(cobrancas) /\ paginas' = 1)
          \/ (Len(cobrancas) < MaxCobrancas /\ cobrancas' = Append(cobrancas, "aberta") /\ paginas' = paginas)
      BY <1>5, <2>1 DEF V!Chega
    <2>4. Len(cobrancas') <= MaxCobrancas /\ paginas' \in 0..1
      <3>1. cobrancas' = Append(cobrancas, "aberta") => Len(cobrancas') = Len(cobrancas) + 1
        BY <1>1 DEF V!Estados
      <3>2. QED
        BY <1>1, <2>3, <3>1, LimitesDaRetaguarda DEF CobrancaLimites
    <2>5. QED
      BY <1>1, <2>1, <2>2, <2>4 DEF CobrancaLimites
  <1>6. CASE V!NoProvedor
    <2>1. Mandados /\ paginas' = paginas
      BY <1>6 DEF V!NoProvedor
    <2>2. CASE \E x \in V!Ids : V!Muda(x, "paga") \/ V!Muda(x, "cancelada") \/ V!Muda(x, "devolvida")
      BY <1>1, <1>2, <2>1, <2>2 DEF CobrancaLimites, V!Estados
    <2>3. CASE Len(cobrancas) < MaxCobrancas /\ \E e \in {"paga", "recusada", "cancelada"} :
                 cobrancas' = Append(cobrancas, e) /\ eventos' = eventos \cup {<<Len(cobrancas) + 1, e>>}
      <3>1. PICK e \in V!Estados : cobrancas' = Append(cobrancas, e) /\ eventos' = eventos \cup {<<Len(cobrancas) + 1, e>>}
        BY <2>3 DEF V!Estados
      <3>2. Len(cobrancas') = Len(cobrancas) + 1
        BY <1>1, <3>1
      <3>3. Len(cobrancas) + 1 \in 1..MaxCobrancas /\ Len(cobrancas') <= MaxCobrancas
        BY <1>1, <2>3, <3>2, LimitesDaRetaguarda
      <3>4. QED
        BY <1>1, <2>1, <3>1, <3>3 DEF CobrancaLimites
    <2>4. QED
      BY <1>6, <2>2, <2>3 DEF V!NoProvedor
  <1>7. CASE V!CancelaEncerrada
    <2>1. Mandados /\ paginas' = paginas
      BY <1>7 DEF V!CancelaEncerrada
    <2>2. CASE psp = "cora"
      <3>1. pagamento.id \in V!Ids
        BY <1>1, <1>7, <2>2 DEF V!CancelaEncerrada, ChargesInv, CobrancaTipo, IdInv
      <3>2. V!Muda(pagamento.id, "cancelada")
        BY <1>7, <2>2 DEF V!CancelaEncerrada
      <3>3. QED
        BY <1>1, <1>2, <2>1, <3>1, <3>2 DEF CobrancaLimites, V!Estados
    <2>3. CASE psp # "cora"
      BY <1>3, <1>7, <2>1, <2>3 DEF V!CancelaEncerrada
    <2>4. QED
      BY <2>2, <2>3
  <1>8. CASE V!Reivindica \/ V!Responde \/ V!Grava \/ V!SemResposta \/ V!Para \/ V!TokenVence \/ V!Aviso \/ V!Consulta
             \/ V!Aplica \/ V!Expira
    BY <1>3, <1>8 DEF V!Reivindica, V!Responde, V!Grava, V!SemResposta, V!Para, V!TokenVence, V!Aviso, V!Consulta, V!Aplica,
      V!Expira
  <1>9. QED
    BY <1>4, <1>5, <1>6, <1>7, <1>8 DEF V!Next

LEMMA CobrancaLimitesStep ==
  ASSUME ChargesInv, CobrancaLimites, V!Next
  PROVE  CobrancaLimites'
  BY LinhaLimites, ProvedorLimites DEF CobrancaLimites

LEMMA ChargesTypeHolds ==
  ASSUME ChargesInv, CobrancaLimites
  PROVE  V!TypeOK
  <1>1. pagamento.id \in 0..MaxCobrancas
    <2>1. pagamento.id \in Nat /\ Len(cobrancas) \in Nat /\ Len(cobrancas) <= MaxCobrancas
      BY DEF ChargesInv, CobrancaTipo, CobrancaLimites
    <2>2. pagamento.id <= Len(cobrancas) \/ pagamento.id \in 0..1
      BY DEF ChargesInv, IdInv, CobrancaLimites
    <2>3. QED
      BY <2>1, <2>2, LimitesDaRetaguarda
  <1>2. pagamento \in [status : {"nenhum", "pendente", "confirmado", "falhou", "estornado"}, id : 0..MaxCobrancas]
    BY <1>1 DEF ChargesInv, CobrancaTipo
  <1>3. postagens \in 0..MaxPostagens
    <2>1. postagens \in Nat /\ postadas \in 0..MaxPostagens /\ postagens <= postadas
      BY DEF ChargesInv, CobrancaTipo, CobrancaLimites
    <2>2. QED
      BY <2>1, LimitesDaRetaguarda
  <1>4. QED
    BY <1>2, <1>3 DEF ChargesInv, CobrancaTipo, CobrancaLimites, V!TypeOK

-----------------------------------------------------------------------------
\* What the bounds of Paineis stop; and no answer, on its way or on the screen, is newer than what the server has.
TelaLimites ==
    /\ seq \in 0..MaxCargas /\ enviadas \in 0..MaxEscritas /\ servidor \in 1..MaxVersaoDoDado
    /\ \A c \in cargas : c.versao <= servidor
    /\ mostrado.versao <= servidor

LEMMA InitTelaLimites ==
  ASSUME T!Init
  PROVE  TelaLimites
  <1>1. seq \in {0, 1} /\ enviadas = 0 /\ servidor = 1 /\ mostrado.versao = 0
    BY DEF T!Init, T!Nada
  <1>2. \A c \in cargas : c.versao = 0
    BY DEF T!Init, T!DoEfeito, T!Carga
  <1>3. QED
    BY <1>1, <1>2, LimitesDaRetaguarda DEF TelaLimites

LEMMA TelaLimitesStutter == TelaLimites /\ UNCHANGED paineisVars => TelaLimites'
  BY DEF TelaLimites, paineisVars

\* The numbers.
LEMMA ContadoresLimites ==
  ASSUME ScreensInv, TelaLimites, T!Next
  PROVE  seq' \in 0..MaxCargas /\ enviadas' \in 0..MaxEscritas /\ servidor' \in servidor..MaxVersaoDoDado
  <1>1. enviadas' = enviadas \/ (enviadas < MaxEscritas /\ enviadas' = enviadas + 1)
    BY DEF T!Next, T!Filtra, T!Vira, T!Renova, T!Aperta, T!Fecha, T!Muda, T!Responde, T!Chega, T!Falha, T!Envia, T!Grava,
      T!Volta, T!Perde, T!escritaVars
  <1>2. servidor' = servidor \/ (servidor < MaxVersaoDoDado /\ servidor' = servidor + 1)
    BY DEF T!Next, T!Filtra, T!Vira, T!Renova, T!Aperta, T!Fecha, T!Muda, T!Responde, T!Chega, T!Falha, T!Envia, T!Grava,
      T!Volta, T!Perde
  <1>3. enviadas' \in 0..MaxEscritas /\ servidor' \in servidor..MaxVersaoDoDado
    BY <1>1, <1>2, LimitesDaRetaguarda DEF TelaLimites
  <1>4. seq' = seq \/ seq' <= MaxCargas \/ (seq < MaxCargas /\ seq' = seq + 1)
    BY DEF T!Next, T!Filtra, T!Vira, T!Renova, T!Aperta, T!Fecha, T!FechaFicha, T!Muda, T!Responde, T!Chega, T!Falha, T!Envia,
      T!Grava, T!Volta, T!Perde, T!cargaVars, T!NaoPede, T!Pede
  <1>5. seq' \in Nat
    BY ScreensNext DEF ScreensInv, FormaInv
  <1>6. seq' \in 0..MaxCargas
    BY <1>4, <1>5, LimitesDaRetaguarda DEF TelaLimites
  <1>7. QED
    BY <1>3, <1>6

\* A request that is asked has no answer yet, and the server answers with what it has.
LEMMA RespostasLimites ==
  ASSUME ScreensInv, TelaLimites, T!Next, NEW c \in cargas'
  PROVE  c \in cargas \/ c.versao \in {0, servidor}
  <1> DEFINE Certa == c \in cargas \/ c.versao \in {0, servidor}
  <1>1. \A f, p : T!DoEfeito(seq + 1, f, p).versao = 0 /\ T!DoEfeito(seq + 2, f, p).versao = 0
    BY DEF T!Carga, T!DoEfeito
  <1>2. \A quieta \in BOOLEAN : T!DaTela(quieta).versao = 0
    BY DEF T!Carga, T!DaTela
  <1>3. CASE \E f \in Filtros : T!Filtra(f)
    <2>1. PICK f \in Filtros : T!Filtra(f)
      BY <1>3
    <2>2. cargas' = cargas \/ cargas' = cargas \cup T!ComOFiltro(f)
      BY <2>1 DEF T!Filtra, T!NaoPede, T!cargaVars, T!Pede
    <2>3. \A d \in T!ComOFiltro(f) : d.versao = 0
      BY DEF T!ComOFiltro, T!Carga, T!DoEfeito
    <2>4. QED
      BY <2>2, <2>3
  <1>4. CASE (\E p \in T!Paginas : T!Vira(p)) \/ T!Renova \/ T!Aperta
    <2>1. (\E p : cargas' = cargas \cup {T!DoEfeito(seq + 1, filtro, p)}) \/ (\E quieta \in BOOLEAN : cargas' = cargas \cup {T!DaTela(quieta)})
      <3>1. CASE \E p \in T!Paginas : T!Vira(p)
        BY <3>1 DEF T!Vira, T!Pede
      <3>2. CASE T!Renova
        <4>1. tela.renova \in BOOLEAN
          BY TabelaHolds DEF ScreensInv, FormaInv, Tabela
        <4>2. QED
          BY <3>2, <4>1 DEF T!Renova, T!Pede
      <3>3. CASE T!Aperta
        BY <3>3 DEF T!Aperta, T!Pede
      <3>4. QED
        BY <1>4, <3>1, <3>2, <3>3
    <2>2. QED
      BY <1>1, <1>2, <2>1
  <1>5. CASE T!Fecha \/ T!Muda
    BY <1>5 DEF T!Fecha, T!FechaFicha, T!Muda, T!cargaVars
  <1>6. ASSUME NEW d \in cargas, T!Responde(d) PROVE Certa
    <2>1. d \in CargaT
      BY DEF ScreensInv, FormaInv
    <2>2. \A ok : [d EXCEPT !.fase = "volta", !.ok = ok, !.versao = servidor].versao = servidor
      BY <2>1 DEF CargaT
    <2>3. QED
      BY <1>6, <2>2 DEF T!Responde
  <1>7. ASSUME NEW d \in cargas, T!Chega(d) \/ T!Falha(d) PROVE Certa
    <2>1. cargas' = cargas \ {d} \/ cargas' = {} \/ cargas' = (cargas \ {d}) \cup {T!DaTela(FALSE)}
      BY <1>7 DEF T!Chega, T!Falha, T!FechaFicha
    <2>2. QED
      BY <1>2, <2>1
  <1>8. ASSUME NEW e \in escritas, T!Grava(e) \/ T!Volta(e) \/ T!Perde(e) PROVE Certa
    <2>1. \A d \in T!DoEnvio(e) : d.versao = 0
      BY DEF T!DoEnvio, T!DoEfeito, T!Carga
    <2>2. cargas' = cargas \cup T!DoEnvio(e) \/ cargas' = cargas \cup {T!DaTela(FALSE)} \/ cargas' = cargas
      BY <1>8 DEF T!Grava, T!Volta, T!Perde, T!NaoPede, T!cargaVars, T!Pede
    <2>3. QED
      BY <1>2, <2>1, <2>2
  <1>9. ASSUME NEW f \in tela.formularios, T!Envia(f) PROVE Certa
    BY <1>9 DEF T!Envia, T!cargaVars
  <1>10. QED
    BY <1>3, <1>4, <1>5, <1>6, <1>7, <1>8, <1>9 DEF T!Next

\* What a screen comes to show is an answer it had in flight, or that of a form.
LEMMA MostradoLimites ==
  ASSUME ScreensInv, TelaLimites, T!Next
  PROVE  mostrado'.versao <= servidor
  <1>1. servidor \in Nat /\ mostrado.versao <= servidor /\ T!Nada.versao = 0
    BY DEF ScreensInv, FormaInv, TelaLimites, T!Nada
  <1>2. \/ mostrado' \in {mostrado, T!Nada}
        \/ \E c \in cargas : T!Mostra(c)
        \/ \E e \in escritas : T!Mostra([T!Carga(seq, filtro, pagina, FALSE, FALSE) EXCEPT !.versao = e.versao])
    BY DEF T!Next, T!Filtra, T!Vira, T!Renova, T!Aperta, T!Fecha, T!FechaFicha, T!Muda, T!Responde, T!Chega, T!Falha, T!Envia,
      T!Grava, T!Volta, T!Perde
  <1>3. ASSUME NEW c \in cargas, T!Mostra(c) PROVE mostrado'.versao = c.versao
    BY <1>3 DEF T!Mostra
  <1>4. ASSUME NEW e \in escritas, T!Mostra([T!Carga(seq, filtro, pagina, FALSE, FALSE) EXCEPT !.versao = e.versao])
        PROVE  mostrado'.versao = e.versao
    <2>1. [T!Carga(seq, filtro, pagina, FALSE, FALSE) EXCEPT !.versao = e.versao].versao = e.versao
      BY DEF T!Carga
    <2>2. QED
      BY <1>4, <2>1 DEF T!Mostra
  <1>5. (\A c \in cargas : c.versao <= servidor) /\ (\A e \in escritas : e.versao <= servidor)
    BY DEF ScreensInv, FormaInv, TelaLimites
  <1>6. CASE mostrado' \in {mostrado, T!Nada}
    BY <1>1, <1>6
  <1>7. CASE \E c \in cargas : T!Mostra(c)
    BY <1>3, <1>5, <1>7
  <1>8. CASE \E e \in escritas : T!Mostra([T!Carga(seq, filtro, pagina, FALSE, FALSE) EXCEPT !.versao = e.versao])
    BY <1>4, <1>5, <1>8
  <1>9. QED
    BY <1>2, <1>6, <1>7, <1>8

LEMMA TelaLimitesStep ==
  ASSUME ScreensInv, TelaLimites, T!Next
  PROVE  TelaLimites'
  <1>1. seq' \in 0..MaxCargas /\ enviadas' \in 0..MaxEscritas /\ servidor' \in servidor..MaxVersaoDoDado
    BY ContadoresLimites
  <1>2. servidor \in Nat /\ 1 <= servidor
    BY LimitesDaRetaguarda DEF TelaLimites
  <1>3. servidor' \in 1..MaxVersaoDoDado /\ servidor <= servidor' /\ servidor' \in Nat
    BY <1>1, <1>2, LimitesDaRetaguarda
  <1>4. ASSUME NEW c \in cargas' PROVE c.versao <= servidor'
    <2>1. c \in cargas => c.versao \in Nat /\ c.versao <= servidor
      BY DEF TelaLimites, ScreensInv, FormaInv, CargaT
    <2>2. c \in cargas \/ c.versao \in {0, servidor}
      BY RespostasLimites
    <2>3. QED
      BY <1>2, <1>3, <2>1, <2>2
  <1>5. mostrado'.versao <= servidor'
    <2>1. mostrado'.versao <= servidor
      BY MostradoLimites
    <2>2. mostrado'.versao \in Nat
      BY ScreensNext DEF ScreensInv, FormaInv
    <2>3. QED
      BY <1>2, <1>3, <2>1, <2>2
  <1>6. QED
    BY <1>1, <1>3, <1>4, <1>5 DEF TelaLimites

LEMMA ScreensTypeHolds ==
  ASSUME ScreensInv, TelaLimites
  PROVE  T!TypeOK
  <1>1. tela \in T!Telas /\ filtro \in Filtros \cup {T!Fechada} /\ pagina \in T!Paginas
    BY LimitesDaRetaguarda DEF ScreensInv, FormaInv, Lugares
  <1>2. ASSUME NEW c \in cargas PROVE c.n \in 1..seq /\ c.pagina \in T!Paginas /\ c.versao <= servidor
    <2>1. c \in CargaT /\ 0 < c.n /\ c.n <= seq /\ c.versao <= servidor /\ seq \in Nat
      BY DEF ScreensInv, FormaInv, TelaLimites
    <2>2. c.n \in Nat /\ c.pagina \in T!Paginas
      BY <2>1 DEF CargaT
    <2>3. c.n \in 1..seq
      BY <2>1, <2>2
    <2>4. QED
      BY <2>1, <2>2, <2>3
  <1>3. QED
    BY <1>1, <1>2 DEF ScreensInv, FormaInv, TelaLimites, T!TypeOK
=============================================================================
