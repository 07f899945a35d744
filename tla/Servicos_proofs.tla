--------------------------- MODULE Servicos_proofs ---------------------------
(***************************************************************************)
(* The properties of the composition, for every value of the constants.    *)
(*                                                                         *)
(* Of the services of Retaguarda, "...Moves" says that a step of the       *)
(* composition is one of the service or leaves it alone, so the invariant  *)
(* of Retaguarda_proofs holds.  The proofs of accounts and of responsible  *)
(* play are instantiated with the variables of the composition: "...Agree" *)
(* says that the initial states and the steps of that instance are those   *)
(* the composition takes it through, "...Moves" that a behaviour of the    *)
(* composition is, for its variables, one of the service.  So the theorems *)
(* of the service hold of the composition.  Pools, the form of a new pool, *)
(* the sources and the bank of numbers are proved here, of the instance.   *)
(***************************************************************************)
EXTENDS Servicos, Retaguarda_proofs, Estatisticas_proofs

-----------------------------------------------------------------------------
(* The form of a new pool (Assistente) *)

Versoes == [valor : Precos, oficial : BOOLEAN, vigente : BOOLEAN]

\* Only one version is in force, and the first one is CAIXA's: who loads the table of CAIXA into a loaded one adds nothing.
TabelaInv ==
    /\ tabela \in Seq(Versoes) /\ Len(tabela) <= MaxVersoes
    /\ tabela # <<>> => tabela[1].oficial /\ \E k \in DOMAIN tabela : A!Vigentes = {k}

\* Quotes on their way, and the one on the screen, are of the form, and were made from a loaded table.
Buscas == [de : {A!De(form)}, f : {f \in A!Forms : A!De(f) = A!De(form)}, custo : Nat]
CotacoesInv ==
    /\ form \in A!Forms /\ precoPagina \in Precos \cup {0} /\ carga \subseteq Instancias
    /\ buscas = {} \/ \E b \in Buscas : buscas = {b} /\ (b.custo > 0 => tabela # <<>>)
    /\ cotacao = A!SemCotacao \/ /\ cotacao \in [de : {A!De(form)}, custo : Nat, total : Int]
                                 /\ tabela # <<>>

\* A creation knows the prices in force since it was sent; once checked, what it says adds up.
Criacoes == [fase : {"confere", "cria"}, f : A!Forms, total : Int, custo : Nat, cota : Int, taxa : Int, vigor : SUBSET Nat]
Cobra(c) ==
    IF c.f.modo = "afiliado" THEN c.total = c.f.cotas * A!CotaDe(c.f, c.custo)
    ELSE A!Cobre(c.f, c.cota, c.taxa, c.custo) /\ c.total = c.f.cotas * c.cota
CriacaoInv ==
    criacaoBolao = A!Nada \/
        /\ criacaoBolao \in Criacoes
        /\ criacaoBolao.f.modo # "manual" => tabela # <<>> /\ A!Preco \in criacaoBolao.vigor
        /\ criacaoBolao.fase = "cria" =>
              /\ Cobra(criacaoBolao)
              /\ criacaoBolao.f.modo # "manual" =>
                    \E p \in criacaoBolao.vigor : criacaoBolao.custo = criacaoBolao.f.jogos * p
RascunhoInv == /\ rascunho.fase \in {"nada", "criado"}
               /\ A!PoolIsAsShown
AssistenteInv == TabelaInv /\ CotacoesInv /\ CriacaoInv /\ RascunhoInv

-----------------------------------------------------------------------------

\* What the parts of the bets pay covers the bets.
LEMMA TetoCobre ==
  ASSUME NEW a \in Nat, NEW b \in 2..3
  PROVE  A!Teto(a, b) \in Nat /\ A!Teto(a, b) * b >= a
  <1>1. CASE b = 2
    BY <1>1 DEF A!Teto
  <1>2. CASE b = 3
    BY <1>2 DEF A!Teto
  <1>3. QED
    BY <1>1, <1>2

LEMMA Quantias ==
  ASSUME NEW f \in A!Forms, NEW custo \in Nat
  PROVE  /\ A!Registro(f, custo) \in Nat /\ A!TaxaDe(f, custo) \in Int /\ A!CotaDe(f, custo) \in Int
         /\ A!Registro(f, custo) * f.cotas >= custo
         /\ f.modo = "afiliado" => A!CotaDe(f, custo) - A!TaxaDe(f, custo) = A!Registro(f, custo)
  <1>1. f.cotas \in 2..3 /\ f.valor \in Nat /\ f.modo \in A!Modos
    BY PrecosAssumption, BoundsAssumption DEF A!Forms
  <1>2. A!Registro(f, custo) \in Nat /\ A!Registro(f, custo) * f.cotas >= custo
    BY <1>1, TetoCobre DEF A!Registro
  <1>3. A!TaxaDe(f, custo) \in Int
    <2> DEFINE r == A!Registro(f, custo)
    <2>1. \A x \in Nat, y \in Nat : (2 * x * y + 100) \div 200 \in Int
      <3>1. \A x \in Nat, y \in Nat : 2 * x * y + 100 \in Int
        OBVIOUS
      <3>2. \A z \in Int : z \div 200 \in Int
        OBVIOUS
      <3>3. QED
        BY <3>1, <3>2
    <2>2. (2 * r * f.valor + 100) \div 200 \in Int
      BY <1>1, <1>2, <2>1
    <2>3. QED
      BY <1>1, <2>2 DEF A!TaxaDe
  <1>4. QED
    BY <1>1, <1>2, <1>3 DEF A!CotaDe

LEMMA Produtos == \A x \in Int, y \in Int : x * y \in Int
  OBVIOUS
LEMMA ProdutosNat == \A x \in Nat, y \in Nat : x * y \in Nat
  OBVIOUS

\* The price of a loaded table is the one in force; of an empty one, 0.
LEMMA PrecoVale ==
  ASSUME TabelaInv
  PROVE  /\ tabela = <<>> => A!Preco = 0
         /\ tabela # <<>> => A!Preco \in Precos
         /\ A!Preco \in Nat
         /\ A!Preco > 0 => tabela # <<>>
  <1>1. CASE tabela = <<>>
    BY <1>1 DEF A!Preco, A!Vigentes
  <1>2. CASE tabela # <<>>
    <2>1. PICK k \in DOMAIN tabela : A!Vigentes = {k}
      BY <1>2 DEF TabelaInv
    <2>2. A!Preco = tabela[k].valor
      BY <2>1 DEF A!Preco
    <2>3. tabela[k] \in Versoes
      BY DEF TabelaInv
    <2>4. A!Preco \in Precos
      BY <2>2, <2>3 DEF Versoes
    <2>5. QED
      BY <1>2, <2>4, PrecosAssumption, BoundsAssumption
  <1>3. QED
    BY <1>1, <1>2

LEMMA InitAssistente == A!Init => AssistenteInv
  <1> SUFFICES ASSUME A!Init PROVE AssistenteInv
    OBVIOUS
  <1>1. TabelaInv
    BY PrecosAssumption, BoundsAssumption DEF A!Init, TabelaInv
  <1>2. form \in A!Forms
    <2>1. (CHOOSE v \in Valores : TRUE) \in Valores
      BY PrecosAssumption, BoundsAssumption
    <2>2. QED
      BY <2>1 DEF A!Init, A!Forms, A!Modos
  <1>3. CotacoesInv
    BY <1>2 DEF A!Init, CotacoesInv
  <1>4. CriacaoInv /\ RascunhoInv
    BY DEF A!Init, CriacaoInv, RascunhoInv, A!PoolIsAsShown, A!Nada
  <1>5. QED
    BY <1>1, <1>3, <1>4 DEF AssistenteInv

\* What does not touch the table leaves the price.
LEMMA MesmaTabela ==
  ASSUME tabela' = tabela
  PROVE  (TabelaInv => TabelaInv') /\ A!Preco' = A!Preco
  BY DEF TabelaInv, A!Vigentes, A!Preco

\* The first row of the table.
LEMMA CarregaTabela ==
  ASSUME TabelaInv, NEW v \in Precos, A!Oficial(v), Len(tabela) < MaxVersoes
  PROVE  /\ TabelaInv' /\ tabela' # <<>>
         /\ tabela # <<>> => tabela' = tabela
  <1>1. CASE tabela # <<>>
    <2>1. 1 \in DOMAIN tabela
      BY <1>1 DEF TabelaInv
    <2>2. tabela' = tabela
      BY <1>1, <2>1 DEF A!Oficial, TabelaInv
    <2>3. QED
      BY <1>1, <2>2, MesmaTabela
  <1>2. CASE tabela = <<>>
    <2> DEFINE r == [valor |-> v, oficial |-> TRUE, vigente |-> TRUE]
    <2>1. tabela' = <<r>>
      BY <1>2 DEF A!Oficial
    <2>2. r \in Versoes /\ r.vigente /\ r.oficial
      BY DEF Versoes
    <2> HIDE DEF r
    <2>3. tabela' \in Seq(Versoes) /\ Len(tabela') = 1 /\ tabela'[1] = r /\ DOMAIN tabela' = {1}
      BY <2>1, <2>2
    <2>4. A!Vigentes' = {1}
      BY <2>2, <2>3 DEF A!Vigentes
    <2>5. 1 <= MaxVersoes
      BY <1>2, PrecosAssumption, BoundsAssumption
    <2>6. QED
      BY <1>2, <2>2, <2>3, <2>4, <2>5 DEF TabelaInv
  <1>3. QED
    BY <1>1, <1>2

\* A new version takes the place of the one in force.
LEMMA VersionaTabela ==
  ASSUME TabelaInv, NEW v \in Precos, A!Versiona(v)
  PROVE  TabelaInv' /\ tabela' # <<>> /\ A!Preco' = v
  <1> DEFINE s == [k \in DOMAIN tabela |-> [tabela[k] EXCEPT !.vigente = FALSE]]
             r == [valor |-> v, oficial |-> FALSE, vigente |-> TRUE]
             n == Len(tabela)
  <1>1. tabela # <<>> /\ n < MaxVersoes /\ tabela' = Append(s, r) /\ tabela \in Seq(Versoes)
    BY DEF A!Versiona, TabelaInv
  <1>2. n \in Nat \ {0} /\ DOMAIN tabela = 1..n
    BY <1>1
  <1>3. \A k \in 1..n : tabela[k] \in Versoes
    BY <1>1, <1>2
  <1>4. \A k \in 1..n : s[k] \in Versoes /\ ~s[k].vigente /\ s[k].oficial = tabela[k].oficial
    BY <1>2, <1>3 DEF Versoes
  <1>5. r \in Versoes /\ r.vigente /\ r.valor = v
    BY DEF Versoes
  <1>6. s \in Seq(Versoes) /\ Len(s) = n
    BY <1>2, <1>4
  <1> HIDE DEF s, r
  <1>7. tabela' \in Seq(Versoes) /\ Len(tabela') = n + 1 /\ tabela'[n + 1] = r /\ \A k \in 1..n : tabela'[k] = s[k]
    BY <1>1, <1>2, <1>5, <1>6
  <1>8. DOMAIN tabela' = 1..(n + 1)
    BY <1>7
  <1>9. A!Vigentes' = {n + 1}
    BY <1>2, <1>4, <1>5, <1>7, <1>8 DEF A!Vigentes
  <1>10. A!Preco' = v
    BY <1>5, <1>7, <1>9 DEF A!Preco
  <1>11. tabela'[1].oficial
    BY <1>1, <1>2, <1>4, <1>7 DEF TabelaInv
  <1>12. n + 1 <= MaxVersoes
    BY <1>1, <1>2, PrecosAssumption, BoundsAssumption
  <1>13. QED
    BY <1>2, <1>7, <1>8, <1>9, <1>10, <1>11, <1>12 DEF TabelaInv

-----------------------------------------------------------------------------

\* A creation in progress does not see more of the table than its price.
LEMMA CriacaoFica ==
  ASSUME CriacaoInv, criacaoBolao' = criacaoBolao, tabela # <<>> => tabela' = tabela
  PROVE  CriacaoInv'
  <1>1. CASE tabela' = tabela
    BY <1>1, MesmaTabela DEF CriacaoInv
  <1>2. CASE tabela = <<>>
    BY <1>2 DEF CriacaoInv
  <1>3. QED
    BY <1>1, <1>2

LEMMA RascunhoFica ==
  ASSUME RascunhoInv, rascunho' = rascunho
  PROVE  RascunhoInv'
  BY DEF RascunhoInv, A!PoolIsAsShown

\* The table only grows, so what was made from a loaded one still is.
LEMMA CotacoesFicam ==
  ASSUME CotacoesInv, tabela # <<>> => tabela' # <<>>, carga' \subseteq Instancias, precoPagina' \in Precos \cup {0},
         UNCHANGED <<form, cotacao, buscas>>
  PROVE  CotacoesInv'
  BY DEF CotacoesInv, Buscas

LEMMA FaltaStep ==
  ASSUME AssistenteInv, NEW i \in Instancias, A!Falta(i)
  PROVE  AssistenteInv'
  <1>1. carga' \subseteq Instancias /\ UNCHANGED <<tabela, form, precoPagina, cotacao, buscas, criacaoBolao, rascunho>>
    BY DEF A!Falta, AssistenteInv, CotacoesInv
  <1>2. QED
    BY <1>1, MesmaTabela, CotacoesFicam, CriacaoFica, RascunhoFica DEF AssistenteInv, CotacoesInv

LEMMA CarregaStep ==
  ASSUME AssistenteInv, NEW i \in Instancias, A!Carrega(i)
  PROVE  AssistenteInv'
  <1>1. PICK v \in Precos : A!Oficial(v)
    BY PrecosAssumption, BoundsAssumption DEF A!Carrega
  <1>2. carga' \subseteq Instancias /\ UNCHANGED <<form, precoPagina, cotacao, buscas, criacaoBolao, rascunho>> /\ Len(tabela) < MaxVersoes
    BY DEF A!Carrega, AssistenteInv, CotacoesInv
  <1>3. TabelaInv' /\ tabela' # <<>> /\ (tabela # <<>> => tabela' = tabela)
    BY <1>1, <1>2, CarregaTabela DEF AssistenteInv
  <1>4. QED
    BY <1>2, <1>3, CotacoesFicam, CriacaoFica, RascunhoFica DEF AssistenteInv, CotacoesInv

LEMMA VersionaStep ==
  ASSUME AssistenteInv, NEW v \in Precos, A!Versiona(v)
  PROVE  AssistenteInv'
  <1>1. TabelaInv' /\ tabela' # <<>> /\ A!Preco' = v
    BY VersionaTabela DEF AssistenteInv
  <1>2. /\ UNCHANGED <<carga, form, precoPagina, cotacao, buscas, rascunho>>
        /\ criacaoBolao' = IF criacaoBolao = A!Nada THEN A!Nada ELSE [criacaoBolao EXCEPT !.vigor = @ \cup {v}]
    BY DEF A!Versiona
  <1>3. CriacaoInv'
    <2>1. CASE criacaoBolao = A!Nada
      BY <1>2, <2>1 DEF CriacaoInv
    <2>2. CASE criacaoBolao # A!Nada
      <3> DEFINE c == criacaoBolao
                 d == [c EXCEPT !.vigor = @ \cup {v}]
      <3>1. c \in Criacoes /\ criacaoBolao' = d
        BY <1>2, <2>2 DEF CriacaoInv, AssistenteInv
      <3>2. d \in Criacoes /\ d.fase = c.fase /\ d.f = c.f /\ d.total = c.total /\ d.custo = c.custo /\ d.cota = c.cota
            /\ d.taxa = c.taxa /\ d.vigor = c.vigor \cup {v}
        BY <3>1, PrecosAssumption, BoundsAssumption DEF Criacoes
      <3> HIDE DEF d
      <3>3. d.fase = "cria" => Cobra(d)
        BY <2>2, <3>2 DEF CriacaoInv, AssistenteInv, Cobra
      <3>4. d.fase = "cria" /\ d.f.modo # "manual" => \E p \in d.vigor : d.custo = d.f.jogos * p
        BY <2>2, <3>2 DEF CriacaoInv, AssistenteInv
      <3>5. QED
        BY <1>1, <3>1, <3>2, <3>3, <3>4 DEF CriacaoInv
    <2>3. QED
      BY <2>1, <2>2
  <1>4. CotacoesInv'
    BY <1>1, <1>2, CotacoesFicam DEF AssistenteInv, CotacoesInv
  <1>5. QED
    BY <1>1, <1>2, <1>3, <1>4, RascunhoFica DEF AssistenteInv

LEMMA LeTabelaStep ==
  ASSUME AssistenteInv, A!LeTabela
  PROVE  AssistenteInv'
  <1>1. A!Preco \in Precos
    BY PrecoVale DEF AssistenteInv, A!LeTabela
  <1>2. precoPagina' \in Precos \cup {0} /\ UNCHANGED <<tabela, carga, form, cotacao, buscas, criacaoBolao, rascunho>>
    BY <1>1 DEF A!LeTabela
  <1>3. QED
    BY <1>2, MesmaTabela, CotacoesFicam, CriacaoFica, RascunhoFica DEF AssistenteInv, CotacoesInv

\* What is quoted is forgotten when it is no longer what the form says.
LEMMA EditaStep ==
  ASSUME AssistenteInv, A!Edita
  PROVE  AssistenteInv'
  <1>1. PICK f \in A!Forms : /\ form' = f
                             /\ IF A!De(f) = A!De(form) THEN UNCHANGED <<cotacao, buscas>>
                                ELSE cotacao' = A!SemCotacao /\ buscas' = {}
    BY DEF A!Edita, A!Aborta
  <1>2. UNCHANGED <<tabela, carga, precoPagina, criacaoBolao, rascunho>>
    BY DEF A!Edita
  <1>3. CotacoesInv'
    <2>1. CASE A!De(f) = A!De(form)
      <3>1. Buscas' = Buscas
        BY <1>1, <2>1 DEF Buscas
      <3>2. QED
        BY <1>1, <1>2, <2>1, <3>1 DEF AssistenteInv, CotacoesInv
    <2>2. CASE A!De(f) # A!De(form)
      BY <1>1, <1>2, <2>2 DEF AssistenteInv, CotacoesInv
    <2>3. QED
      BY <2>1, <2>2
  <1>4. QED
    BY <1>2, <1>3, MesmaTabela, CriacaoFica, RascunhoFica DEF AssistenteInv

LEMMA PedeStep ==
  ASSUME AssistenteInv, A!Pede
  PROVE  AssistenteInv'
  <1> DEFINE b == [de |-> A!De(form), f |-> form, custo |-> 0]
  <1>1. buscas' = {b} /\ UNCHANGED <<tabela, carga, form, precoPagina, cotacao, criacaoBolao, rascunho>>
    BY DEF A!Pede
  <1>2. b \in Buscas /\ ~(b.custo > 0)
    BY DEF Buscas, AssistenteInv, CotacoesInv
  <1> HIDE DEF b
  <1>3. CotacoesInv'
    BY <1>1, <1>2 DEF AssistenteInv, CotacoesInv, Buscas
  <1>4. QED
    BY <1>1, <1>3, MesmaTabela, CriacaoFica, RascunhoFica DEF AssistenteInv

LEMMA CotaStep ==
  ASSUME AssistenteInv, A!Cota
  PROVE  AssistenteInv'
  <1>1. PICK b \in buscas : buscas' = (buscas \ {b}) \cup {[b EXCEPT !.custo = b.f.jogos * A!Preco]}
    BY DEF A!Cota
  <1>2. A!Preco > 0 /\ UNCHANGED <<tabela, carga, form, precoPagina, cotacao, criacaoBolao, rascunho>>
    BY DEF A!Cota
  <1>3. tabela # <<>> /\ A!Preco \in Nat
    BY <1>2, PrecoVale DEF AssistenteInv
  <1>4. buscas = {b} /\ b \in Buscas
    BY DEF AssistenteInv, CotacoesInv
  <1>5. b.f.jogos * A!Preco \in Nat
    BY <1>3, <1>4, ProdutosNat DEF Buscas, A!Forms
  <1> DEFINE d == [b EXCEPT !.custo = b.f.jogos * A!Preco]
  <1>6. d \in Buscas /\ buscas' = {d}
    BY <1>1, <1>4, <1>5 DEF Buscas
  <1> HIDE DEF d
  <1>7. CotacoesInv'
    BY <1>2, <1>3, <1>6 DEF AssistenteInv, CotacoesInv, Buscas
  <1>8. QED
    BY <1>2, <1>7, MesmaTabela, CriacaoFica, RascunhoFica DEF AssistenteInv

LEMMA ChegaStep ==
  ASSUME AssistenteInv, A!ChegaCotacao
  PROVE  AssistenteInv'
  <1>1. PICK b \in buscas : /\ b.custo > 0 /\ buscas' = buscas \ {b}
                            /\ cotacao' = [de |-> b.de, custo |-> b.custo,
                                           total |-> b.f.cotas * A!CotaDe([b.f EXCEPT !.modo = "afiliado"], b.custo)]
    BY DEF A!ChegaCotacao
  <1>2. UNCHANGED <<tabela, carga, form, precoPagina, criacaoBolao, rascunho>>
    BY DEF A!ChegaCotacao
  <1>3. buscas = {b} /\ b \in Buscas /\ tabela # <<>>
    BY <1>1 DEF AssistenteInv, CotacoesInv
  <1> DEFINE f == [b.f EXCEPT !.modo = "afiliado"]
  <1>4. f \in A!Forms /\ b.f.cotas \in Int /\ b.custo \in Nat /\ b.de = A!De(form)
    BY <1>3 DEF Buscas, A!Forms, A!Modos
  <1> HIDE DEF f
  <1>5. A!CotaDe(f, b.custo) \in Int
    BY <1>4, Quantias
  <1>6. b.f.cotas * A!CotaDe(f, b.custo) \in Int
    BY <1>4, <1>5, Produtos
  <1>7. cotacao' \in [de : {A!De(form)}, custo : Nat, total : Int]
    BY <1>1, <1>4, <1>6 DEF f
  <1>8. CotacoesInv'
    BY <1>1, <1>2, <1>3, <1>7 DEF AssistenteInv, CotacoesInv
  <1>9. QED
    BY <1>2, <1>8, MesmaTabela, CriacaoFica, RascunhoFica DEF AssistenteInv

LEMMA EnviaStep ==
  ASSUME AssistenteInv, A!Envia
  PROVE  AssistenteInv'
  <1> DEFINE custo == A!CustoNaTela
             c == [fase |-> "confere", f |-> form, total |-> A!Mostrado, custo |-> custo,
                   cota |-> A!CotaDe(form, custo), taxa |-> A!TaxaDe(form, custo), vigor |-> {A!Preco}]
  <1>1. /\ criacaoBolao' = c /\ (form.modo # "manual" => cotacao # A!SemCotacao)
        /\ UNCHANGED <<tabela, carga, form, precoPagina, cotacao, buscas, rascunho>>
    BY DEF A!Envia
  <1>2. form \in A!Forms /\ form.jogos \in Nat /\ form.cotas \in Int /\ form.valor \in Nat /\ precoPagina \in Nat
    <2>1. form \in A!Forms /\ precoPagina \in Precos \cup {0}
      BY DEF AssistenteInv, CotacoesInv
    <2>2. form.jogos \in 1..2 /\ form.cotas \in 2..3 /\ form.valor \in Valores
      BY <2>1 DEF A!Forms
    <2>3. form.jogos \in Nat /\ form.cotas \in Int
      BY <2>2
    <2>4. form.valor \in Nat /\ precoPagina \in Nat
      <3>1. Valores \subseteq Nat /\ Precos \subseteq Nat /\ 0 \in Nat
        BY PrecosAssumption, BoundsAssumption
      <3>2. QED
        BY <2>1, <2>2, <3>1
    <2>5. QED
      BY <2>1, <2>3, <2>4
  <1>3. custo \in Nat
    BY <1>2, ProdutosNat DEF A!CustoNaTela, AssistenteInv, CotacoesInv
  <1>4. A!Preco \in Nat
    BY PrecoVale DEF AssistenteInv
  <1>5. A!CotaDe(form, custo) \in Int /\ A!TaxaDe(form, custo) \in Int
    BY <1>2, <1>3, Quantias
  <1>6. A!Mostrado \in Int
    <2>1. form.cotas * A!CotaDe(form, custo) \in Int
      BY <1>2, <1>5, Produtos
    <2>2. form.modo = "afiliado" => cotacao.total \in Int
      BY <1>1 DEF AssistenteInv, CotacoesInv
    <2>3. QED
      BY <2>1, <2>2 DEF A!Mostrado
  <1> HIDE DEF custo
  <1>7. c \in Criacoes /\ c.fase = "confere" /\ A!Preco \in c.vigor /\ c.f = form
    BY <1>2, <1>3, <1>4, <1>5, <1>6 DEF Criacoes
  <1> HIDE DEF c
  <1>8. form.modo # "manual" => tabela # <<>>
    BY <1>1 DEF AssistenteInv, CotacoesInv
  <1>9. CriacaoInv'
    BY <1>1, <1>7, <1>8, MesmaTabela DEF CriacaoInv
  <1>10. CotacoesInv'
    BY <1>1, CotacoesFicam DEF AssistenteInv, CotacoesInv
  <1>11. QED
    BY <1>1, <1>9, <1>10, MesmaTabela, RascunhoFica DEF AssistenteInv

\* The price that is checked is one in force while the creation is in progress.
LEMMA ConfereStep ==
  ASSUME AssistenteInv, A!Confere
  PROVE  AssistenteInv'
  <1> DEFINE c == criacaoBolao
             custo == A!CustoNoServidor(c)
             d == [c EXCEPT !.fase = "cria", !.custo = custo]
  <1>1. /\ c.fase = "confere" /\ criacaoBolao' = IF A!Aceita(c, custo) THEN d ELSE A!Nada
        /\ UNCHANGED <<tabela, carga, form, precoPagina, cotacao, buscas, rascunho>>
    BY DEF A!Confere
  <1>2. c \in Criacoes /\ (c.f.modo # "manual" => tabela # <<>> /\ A!Preco \in c.vigor)
    BY <1>1 DEF AssistenteInv, CriacaoInv, A!Nada
  <1>3. A!Preco \in Nat
    BY PrecoVale DEF AssistenteInv
  <1>4. custo \in Nat /\ (c.f.modo # "manual" => custo = c.f.jogos * A!Preco)
    <2>1. c.f.jogos \in Nat /\ c.custo \in Nat
      BY <1>2 DEF Criacoes, A!Forms
    <2>2. QED
      BY <1>3, <2>1, ProdutosNat DEF A!CustoNoServidor
  <1>5. A!Aceita(c, custo) => c.total = IF c.f.modo = "afiliado" THEN c.f.cotas * A!CotaDe(c.f, custo) ELSE c.f.cotas * c.cota
    BY DEF A!Aceita
  <1>6. A!Aceita(c, custo) /\ c.f.modo # "afiliado" => A!Cobre(c.f, c.cota, c.taxa, custo)
    BY DEF A!Aceita
  <1> HIDE DEF custo
  <1>7. d \in Criacoes /\ d.fase = "cria" /\ d.f = c.f /\ d.total = c.total /\ d.custo = custo /\ d.cota = c.cota
        /\ d.taxa = c.taxa /\ d.vigor = c.vigor
    BY <1>2, <1>4 DEF Criacoes
  <1> HIDE DEF d
  <1>8. A!Aceita(c, custo) => Cobra(d)
    BY <1>5, <1>6, <1>7 DEF Cobra
  <1>9. CriacaoInv'
    BY <1>1, <1>2, <1>4, <1>7, <1>8, MesmaTabela DEF CriacaoInv
  <1>10. CotacoesInv'
    BY <1>1, CotacoesFicam DEF AssistenteInv, CotacoesInv
  <1>11. QED
    BY <1>1, <1>9, <1>10, MesmaTabela, RascunhoFica DEF AssistenteInv

\* The pool that is written has the price that was checked.
LEMMA CriaStep ==
  ASSUME AssistenteInv, A!Cria
  PROVE  AssistenteInv'
  <1> DEFINE c == criacaoBolao
             livre == c.f.modo # "afiliado"
             taxa == IF livre THEN c.taxa ELSE A!TaxaDe(c.f, c.custo)
             valor == IF livre THEN c.cota ELSE A!CotaDe(c.f, c.custo)
             b == [fase |-> "criado", modo |-> c.f.modo, jogos |-> c.f.jogos,
                   cotas |-> c.f.cotas, cota |-> valor, taxa |-> taxa, custo |-> c.custo,
                   mostrado |-> c.total, vigor |-> c.vigor]
  <1>1. /\ c.fase = "cria" /\ rascunho' = b
        /\ criacaoBolao' = A!Nada /\ cotacao' = A!SemCotacao /\ buscas' = {}
        /\ UNCHANGED <<tabela, carga, form, precoPagina>>
    BY DEF A!Cria
  <1>2. c \in Criacoes /\ Cobra(c)
        /\ (c.f.modo # "manual" => \E p \in c.vigor : c.custo = c.f.jogos * p)
    BY <1>1 DEF AssistenteInv, CriacaoInv, A!Nada
  <1>3. c.f \in A!Forms /\ c.custo \in Nat /\ c.cota \in Int /\ c.taxa \in Int /\ c.f.cotas \in 2..3
    BY <1>2 DEF Criacoes, A!Forms
  <1> DEFINE r == A!Registro(c.f, c.custo)
  <1>4. r \in Nat /\ A!TaxaDe(c.f, c.custo) \in Int /\ A!CotaDe(c.f, c.custo) \in Int /\ r * c.f.cotas >= c.custo
        /\ (~livre => A!CotaDe(c.f, c.custo) - A!TaxaDe(c.f, c.custo) = r)
    BY <1>3, Quantias
  <1>5. livre => c.cota - c.taxa >= r
    BY <1>2 DEF Cobra, A!Cobre
  <1>6. valor \in Int /\ taxa \in Int /\ valor - taxa >= r
    <2> HIDE DEF r
    <2>1. QED
      BY <1>3, <1>4, <1>5
  <1>7. c.total = c.f.cotas * valor
    BY <1>2 DEF Cobra
  <1> HIDE DEF valor, taxa, r
  <1>8. (valor - taxa) * c.f.cotas >= c.custo
    <2>1. CASE c.f.cotas = 2
      BY <1>3, <1>4, <1>6, <2>1
    <2>2. CASE c.f.cotas = 3
      BY <1>3, <1>4, <1>6, <2>2
    <2>3. QED
      BY <1>3, <2>1, <2>2
  <1>9. valor * c.f.cotas = c.total
    <2>1. \A x \in Int, y \in Int : x * y = y * x
      OBVIOUS
    <2>2. QED
      BY <1>3, <1>6, <1>7, <2>1
  <1>10. /\ b.fase = "criado" /\ b.modo = c.f.modo /\ b.jogos = c.f.jogos /\ b.cotas = c.f.cotas /\ b.cota = valor
         /\ b.taxa = taxa /\ b.custo = c.custo /\ b.mostrado = c.total /\ b.vigor = c.vigor
    OBVIOUS
  <1> HIDE DEF b
  <1>11. RascunhoInv'
    BY <1>1, <1>2, <1>8, <1>9, <1>10 DEF RascunhoInv, A!PoolIsAsShown
  <1>12. CotacoesInv' /\ CriacaoInv'
    BY <1>1 DEF AssistenteInv, CotacoesInv, CriacaoInv
  <1>13. QED
    BY <1>1, <1>11, <1>12, MesmaTabela DEF AssistenteInv

LEMMA PerdeStep ==
  ASSUME AssistenteInv, A!Perde
  PROVE  AssistenteInv'
  <1>1. /\ criacaoBolao' = A!Nada \/ criacaoBolao' = criacaoBolao
        /\ buscas' = {} \/ buscas' = buscas
        /\ UNCHANGED <<tabela, carga, form, precoPagina, cotacao, rascunho>>
    BY DEF A!Perde
  <1>2. CriacaoInv'
    <2>1. criacaoBolao' = A!Nada => CriacaoInv'
      BY DEF CriacaoInv
    <2>2. QED
      BY <1>1, <2>1, CriacaoFica DEF AssistenteInv
  <1>3. CotacoesInv'
    BY <1>1 DEF AssistenteInv, CotacoesInv, Buscas
  <1>4. QED
    BY <1>1, <1>2, <1>3, MesmaTabela, RascunhoFica DEF AssistenteInv

LEMMA AssistenteStep == AssistenteInv /\ A!Next => AssistenteInv'
  BY FaltaStep, CarregaStep, VersionaStep, LeTabelaStep, EditaStep, PedeStep, CotaStep, ChegaStep, EnviaStep, ConfereStep,
     CriaStep, PerdeStep DEF A!Next

LEMMA AssistenteStutter == AssistenteInv /\ UNCHANGED assistenteVars => AssistenteInv'
  <1> SUFFICES ASSUME AssistenteInv, UNCHANGED assistenteVars PROVE AssistenteInv'
    OBVIOUS
  <1>1. UNCHANGED <<tabela, carga, form, precoPagina, cotacao, buscas, criacaoBolao, rascunho>>
    BY DEF assistenteVars
  <1>2. QED
    BY <1>1, MesmaTabela, CotacoesFicam, CriacaoFica, RascunhoFica DEF AssistenteInv, CotacoesInv

LEMMA AssistenteInvIsEnough == AssistenteInv => A!DraftsAreAsShown /\ A!TypeOK
  <1> SUFFICES ASSUME AssistenteInv PROVE A!DraftsAreAsShown /\ A!TypeOK
    OBVIOUS
  <1>1. A!OnePriceInForce
    <2>1. \A k : A!Cardinality({k}) = 1
      BY FS_Singleton DEF A!Cardinality, Cardinality
    <2>2. tabela # <<>> => \E k \in DOMAIN tabela : A!Vigentes = {k}
      BY DEF AssistenteInv, TabelaInv
    <2>3. QED
      BY <2>1, <2>2 DEF A!OnePriceInForce
  <1>2. A!QuoteIsOfTheForm
    BY DEF AssistenteInv, CotacoesInv, A!QuoteIsOfTheForm
  <1>3. A!PoolIsAsShown
    BY DEF AssistenteInv, RascunhoInv
  <1>4. \A k \in DOMAIN tabela : tabela[k].valor \in Precos
    <2>1. tabela \in Seq(Versoes)
      BY DEF AssistenteInv, TabelaInv
    <2>2. \A k \in DOMAIN tabela : tabela[k] \in Versoes
      BY <2>1
    <2>3. QED
      BY <2>2 DEF Versoes
  <1>5. A!Cardinality(buscas) <= 1
    <2>1. A!Cardinality({}) = 0 /\ \A b : A!Cardinality({b}) = 1
      BY FS_EmptySet, FS_Singleton DEF A!Cardinality, Cardinality
    <2>2. buscas = {} \/ \E b : buscas = {b}
      BY DEF AssistenteInv, CotacoesInv
    <2>3. A!Cardinality(buscas) = 0 \/ A!Cardinality(buscas) = 1
      BY <2>1, <2>2
    <2>4. 0 <= 1 /\ 1 <= 1
      OBVIOUS
    <2>5. QED
      BY <2>3, <2>4
  <1>6. criacaoBolao.fase \in {"nada", "confere", "cria"}
    BY DEF AssistenteInv, CriacaoInv, Criacoes, A!Nada
  <1>7. QED
    BY <1>1, <1>2, <1>3, <1>4, <1>5, <1>6 DEF A!DraftsAreAsShown, A!TypeOK, AssistenteInv, TabelaInv, CotacoesInv, RascunhoInv

-----------------------------------------------------------------------------
(* The sources of results (Fontes) *)

\* A call: how far it has come in the list, and what it may rely on.  All sources before the one it is at were asked or
\* skipped; as long as it asked nobody and nobody else sent a source to rest, one that does not rest is still ahead.
Chamadas == [fase : {"busca", "espera", "respondida", "falhou"}, fonte : 1..UltimaFonte, tentativa : Nat, repete : 0..1,
             memoria : BOOLEAN, todas : BOOLEAN, perguntadas : SUBSET O!Fontes, puladas : SUBSET O!Fontes, cruzada : BOOLEAN]
Percorreu(p) == /\ p.fase = "busca" => p.perguntadas \cup p.puladas = 1..(p.fonte - 1)
                /\ p.fase = "espera" => /\ p.perguntadas \cup p.puladas = 1..p.fonte
                                        /\ p.fonte \in p.perguntadas
SobraFonte(p, d) ==
    p.fase = "busca" /\ p.perguntadas = {} /\ ~p.cruzada =>
        \/ p.todas
        \/ \E f \in O!Fontes : f >= p.fonte /\ d[f] = 0
FimDaBusca(p) == /\ p.fase = "falhou" => /\ p.perguntadas # {} \/ p.cruzada
                                         /\ p.perguntadas \cup p.puladas = O!Fontes
                 /\ p.fase = "respondida" => p.perguntadas \cup p.puladas = 1..p.fonte
ChamadaInv(p, d) ==
    /\ p \in Chamadas
    /\ Percorreu(p)
    /\ SobraFonte(p, d)
    /\ FimDaBusca(p)
    /\ ~p.memoria => p.puladas = {}
FontesInv ==
    /\ descanso \in [O!Fontes -> 0..Descanso]
    /\ chamadas \in 0..MaxConsultas
    /\ DOMAIN chamada = Consultas
    /\ \A c \in Consultas : chamada[c] = O!Parada \/ ChamadaInv(chamada[c], descanso)

LEMMA InitFontes == O!Init => FontesInv
  BY FontesAssumption, BoundsAssumption DEF O!Init, FontesInv

\* A call that begins: nothing asked, and if not all rest, one does not.
LEMMA NovaInv ==
  ASSUME NEW repete \in 0..1, NEW lembra \in BOOLEAN, descanso \in [O!Fontes -> 0..Descanso]
  PROVE  ChamadaInv(O!Nova(repete, lembra), descanso)
  <1> DEFINE p == O!Nova(repete, lembra)
  <1>1. p \in Chamadas /\ p.fase = "busca" /\ p.fonte = 1 /\ p.tentativa = 0 /\ p.perguntadas = {} /\ p.puladas = {}
    BY FontesAssumption, BoundsAssumption DEF O!Nova, Chamadas, O!Fontes
  <1>2. Percorreu(p)
    BY <1>1 DEF Percorreu
  <1>3. p.todas <=> \A f \in O!Fontes : O!Descansa(f)
    BY DEF O!Nova
  <1>4. SobraFonte(p, descanso)
    BY <1>1, <1>3, FontesAssumption, BoundsAssumption, SMTT(30) DEF SobraFonte, O!Descansa, O!Fontes
  <1>5. QED
    BY <1>1, <1>2, <1>4 DEF ChamadaInv, FimDaBusca

\* Rests that only get shorter leave a call what it relies on.
LEMMA DescansoMenor ==
  ASSUME NEW p, NEW d, NEW e, ChamadaInv(p, d), \A f \in O!Fontes : d[f] = 0 => e[f] = 0
  PROVE  ChamadaInv(p, e)
  BY DEF ChamadaInv, SobraFonte

\* A call some source went to rest under relies on nothing.
LEMMA ChamadaCruzada ==
  ASSUME NEW p, NEW d, NEW e, ChamadaInv(p, d)
  PROVE  ChamadaInv(IF p.fase = "busca" THEN [p EXCEPT !.cruzada = TRUE] ELSE p, e)
  <1>1. CASE p.fase # "busca"
    BY <1>1 DEF ChamadaInv, SobraFonte
  <1>2. CASE p.fase = "busca"
    <2> DEFINE q == [p EXCEPT !.cruzada = TRUE]
    <2>1. q \in Chamadas /\ q.fase = "busca" /\ q.cruzada /\ q.tentativa = p.tentativa /\ q.fonte = p.fonte /\ q.memoria = p.memoria
          /\ q.perguntadas = p.perguntadas /\ q.puladas = p.puladas
      BY <1>2 DEF ChamadaInv, Chamadas
    <2>2. Percorreu(q) /\ SobraFonte(q, e) /\ FimDaBusca(q)
      BY <1>2, <2>1 DEF ChamadaInv, Percorreu, SobraFonte, FimDaBusca
    <2> HIDE DEF q
    <2>3. ChamadaInv(q, e)
      BY <1>2, <2>1, <2>2 DEF ChamadaInv
    <2>4. QED
      BY <1>2, <2>3 DEF q
  <1>3. QED
    BY <1>1, <1>2

\* The next source, or the end of the list.
LEMMA PassaInv ==
  ASSUME NEW p \in Chamadas, NEW d, p.perguntadas \cup p.puladas = 1..p.fonte,
         ~p.memoria => p.puladas = {}, 
         p.perguntadas # {} \/ p.cruzada \/ \E f \in O!Fontes : f > p.fonte /\ d[f] = 0
  PROVE  ChamadaInv(O!Passa(p), d)
  <1>1. CASE p.fonte < UltimaFonte
    <2> DEFINE q == [p EXCEPT !.fase = "busca", !.fonte = @ + 1, !.tentativa = 0]
    <2>1. q \in Chamadas /\ q.fase = "busca" /\ q.cruzada = p.cruzada /\ q.tentativa = 0 /\ q.fonte = p.fonte + 1 /\ q.memoria = p.memoria
          /\ q.perguntadas = p.perguntadas /\ q.puladas = p.puladas
      <3>1. p.fonte + 1 \in 1..UltimaFonte
        BY <1>1, FontesAssumption, BoundsAssumption DEF Chamadas
      <3>2. QED
        BY <3>1 DEF Chamadas
    <2> HIDE DEF q
    <2>2. p.fonte \in Nat /\ \A f \in O!Fontes : f \in Nat
      BY FontesAssumption, BoundsAssumption DEF Chamadas, O!Fontes
    <2>3. Percorreu(q) /\ FimDaBusca(q)
      BY <2>1, <2>2 DEF Percorreu, FimDaBusca
    <2>4. SobraFonte(q, d)
      BY <2>1, <2>2 DEF SobraFonte
    <2>5. ChamadaInv(q, d)
      BY <2>1, <2>3, <2>4 DEF ChamadaInv
    <2>6. QED
      BY <1>1, <2>5 DEF O!Passa, q
  <1>2. CASE ~(p.fonte < UltimaFonte)
    <2> DEFINE q == [p EXCEPT !.fase = "falhou"]
    <2>1. q \in Chamadas /\ q.fase = "falhou" /\ q.cruzada = p.cruzada /\ q.memoria = p.memoria
          /\ q.perguntadas = p.perguntadas /\ q.puladas = p.puladas
      BY <1>2 DEF Chamadas
    <2> HIDE DEF q
    <2>2. p.fonte = UltimaFonte /\ \A f \in O!Fontes : ~(f > UltimaFonte)
      BY <1>2, FontesAssumption, BoundsAssumption DEF Chamadas, O!Fontes
    <2>3. FimDaBusca(q)
      BY <2>1, <2>2 DEF FimDaBusca, O!Fontes
    <2>4. ChamadaInv(q, d)
      BY <2>1, <2>3 DEF ChamadaInv, Percorreu, SobraFonte
    <2>5. QED
      BY <1>2, <2>4 DEF O!Passa, q
  <1>3. QED
    BY <1>1, <1>2

LEMMA PulaStep ==
  ASSUME NEW p, NEW d \in [O!Fontes -> 0..Descanso], ChamadaInv(p, d), p.fase = "busca",
         p.memoria, ~p.todas, d[p.fonte] > 0
  PROVE  ChamadaInv(O!Passa([p EXCEPT !.puladas = @ \cup {p.fonte}]), d)
  <1> DEFINE q == [p EXCEPT !.puladas = @ \cup {p.fonte}]
  <1>1. p \in Chamadas /\ p.fonte \in O!Fontes /\ p.fonte \in Nat /\ \A f \in O!Fontes : f \in Nat /\ d[f] \in Nat
    BY FontesAssumption, BoundsAssumption, SMTT(30) DEF ChamadaInv, Chamadas, O!Fontes
  <1>2. q \in Chamadas /\ q.fase = "busca" /\ q.cruzada = p.cruzada /\ q.memoria = p.memoria /\ q.fonte = p.fonte
        /\ q.perguntadas = p.perguntadas /\ q.puladas = p.puladas \cup {p.fonte}
    BY <1>1 DEF Chamadas
  <1> HIDE DEF q
  <1>3. p.perguntadas \cup p.puladas = 1..(p.fonte - 1)
    BY DEF ChamadaInv, Percorreu
  <1>4. q.perguntadas \cup q.puladas = 1..q.fonte
    <2>1. \A n \in Nat \ {0} : 1..(n - 1) \cup {n} = 1..n
      OBVIOUS
    <2>2. p.fonte \in Nat \ {0}
      BY <1>1 DEF O!Fontes
    <2>3. QED
      BY <1>2, <1>3, <2>1, <2>2
  <1>5. q.perguntadas # {} \/ q.cruzada \/ \E f \in O!Fontes : f > q.fonte /\ d[f] = 0
    <2> SUFFICES ASSUME p.perguntadas = {}, ~p.cruzada PROVE \E f \in O!Fontes : f > p.fonte /\ d[f] = 0
      BY <1>2
    <2>1. PICK f \in O!Fontes : f >= p.fonte /\ d[f] = 0
      BY DEF ChamadaInv, SobraFonte
    <2>2. f # p.fonte
      BY <1>1, <2>1
    <2>3. QED
      BY <1>1, <2>1, <2>2
  <1>6. QED
    BY <1>2, <1>4, <1>5, PassaInv DEF q

\* The question counts from when it is sent.
LEMMA PerguntaStep ==
  ASSUME NEW p, NEW d, ChamadaInv(p, d), p.fase = "busca"
  PROVE  ChamadaInv([p EXCEPT !.fase = "espera", !.perguntadas = @ \cup {p.fonte}], d)
  <1> DEFINE q == [p EXCEPT !.fase = "espera", !.perguntadas = @ \cup {p.fonte}]
  <1>1. p \in Chamadas /\ p.fonte \in O!Fontes /\ p.fonte \in Nat \ {0}
    BY FontesAssumption, BoundsAssumption DEF ChamadaInv, Chamadas, O!Fontes
  <1>2. q \in Chamadas /\ q.fase = "espera" /\ q.fonte = p.fonte
        /\ q.memoria = p.memoria /\ q.puladas = p.puladas /\ q.perguntadas = p.perguntadas \cup {p.fonte}
    BY <1>1 DEF Chamadas
  <1> HIDE DEF q
  <1>3. \A n \in Nat \ {0} : 1..(n - 1) \cup {n} = 1..n
    OBVIOUS
  <1>4. p.perguntadas \cup p.puladas = 1..(p.fonte - 1)
    BY DEF ChamadaInv, Percorreu
  <1>5. q.perguntadas \cup q.puladas = 1..q.fonte
    BY <1>1, <1>2, <1>3, <1>4
  <1>6. Percorreu(q) /\ SobraFonte(q, d) /\ FimDaBusca(q)
    BY <1>2, <1>5 DEF Percorreu, SobraFonte, FimDaBusca
  <1>7. QED
    BY <1>2, <1>6 DEF ChamadaInv, q

\* The answers that end the search, and those that may come better.
LEMMA RespondeStep ==
  ASSUME NEW p, NEW d, NEW e, ChamadaInv(p, d), p.fase = "espera"
  PROVE  /\ ChamadaInv([p EXCEPT !.fase = "respondida"], e)
         /\ ChamadaInv([p EXCEPT !.tentativa = @ + 1], e)
         /\ ChamadaInv(O!Passa(p), e)
  <1>1. p \in Chamadas /\ p.perguntadas # {} /\ p.perguntadas \cup p.puladas = 1..p.fonte /\ p.fonte \in p.perguntadas
        /\ (~p.memoria => p.puladas = {})
    BY DEF ChamadaInv, Percorreu
  <1>2. ChamadaInv([p EXCEPT !.fase = "respondida"], e)
    BY <1>1 DEF ChamadaInv, Percorreu, SobraFonte, FimDaBusca, Chamadas
  <1>3. ChamadaInv([p EXCEPT !.tentativa = @ + 1], e)
    <2>1. p.tentativa + 1 \in Nat
      BY <1>1 DEF Chamadas
    <2>2. QED
      BY <1>1, <2>1 DEF ChamadaInv, Percorreu, SobraFonte, FimDaBusca, Chamadas
  <1>4. ChamadaInv(O!Passa(p), e)
    BY <1>1, PassaInv
  <1>5. QED
    BY <1>2, <1>3, <1>4

LEMMA ComecaStep ==
  ASSUME FontesInv, NEW c \in Consultas, O!Comeca(c)
  PROVE  FontesInv'
  <1>1. PICK repete \in 0..1, lembra \in BOOLEAN : chamada' = [chamada EXCEPT ![c] = O!Nova(repete, lembra)]
    BY DEF O!Comeca
  <1>2. descanso' = descanso /\ chamadas' = chamadas + 1 /\ chamadas < MaxConsultas
    BY DEF O!Comeca
  <1>3. ChamadaInv(O!Nova(repete, lembra), descanso)
    BY NovaInv DEF FontesInv
  <1>4. chamadas' \in 0..MaxConsultas
    BY <1>2, FontesAssumption, BoundsAssumption DEF FontesInv
  <1>5. \A d \in Consultas : chamada'[d] = IF d = c THEN O!Nova(repete, lembra) ELSE chamada[d]
    BY <1>1 DEF FontesInv
  <1>6. DOMAIN chamada' = Consultas
    BY <1>1 DEF FontesInv
  <1> HIDE DEF O!Nova
  <1>7. QED
    BY <1>2, <1>3, <1>4, <1>5, <1>6 DEF FontesInv

\* One call moves and the memory does not.
LEMMA UmaAnda ==
  ASSUME FontesInv, NEW c \in Consultas, NEW p, chamada' = [chamada EXCEPT ![c] = p], ChamadaInv(p, descanso),
         descanso' = descanso, chamadas' = chamadas
  PROVE  FontesInv'
  <1>1. DOMAIN chamada' = Consultas /\ \A d \in Consultas : chamada'[d] = IF d = c THEN p ELSE chamada[d]
    BY DEF FontesInv
  <1>2. QED
    BY <1>1 DEF FontesInv

LEMMA PulaFontes ==
  ASSUME FontesInv, NEW c \in Consultas, O!Pula(c)
  PROVE  FontesInv'
  <1> DEFINE p == chamada[c]
  <1>1. p.fase = "busca" /\ p.memoria /\ ~p.todas /\ O!Descansa(p.fonte)
        /\ chamada' = [chamada EXCEPT ![c] = O!Passa([p EXCEPT !.puladas = @ \cup {p.fonte}])]
        /\ descanso' = descanso /\ chamadas' = chamadas
    BY DEF O!Pula, O!Evita, O!Segue
  <1>2. ChamadaInv(p, descanso)
    BY <1>1 DEF FontesInv, O!Parada
  <1>3. QED
    <2>1. descanso \in [O!Fontes -> 0..Descanso] /\ p.fonte \in O!Fontes
      BY <1>2 DEF FontesInv, ChamadaInv, Chamadas, O!Fontes
    <2>2. descanso[p.fonte] > 0
      BY <1>1 DEF O!Descansa
    <2>3. QED
      BY <1>1, <1>2, <2>1, <2>2, PulaStep, UmaAnda

LEMMA PerguntaFontes ==
  ASSUME FontesInv, NEW c \in Consultas, O!Pergunta(c)
  PROVE  FontesInv'
  <1> DEFINE p == chamada[c]
  <1>1. p.fase = "busca" /\ descanso' = descanso /\ chamadas' = chamadas
        /\ chamada' = [chamada EXCEPT ![c] = [p EXCEPT !.fase = "espera", !.perguntadas = @ \cup {p.fonte}]]
    BY DEF O!Pergunta, O!Segue
  <1>2. ChamadaInv(p, descanso)
    BY <1>1 DEF FontesInv, O!Parada
  <1>3. ChamadaInv([p EXCEPT !.fase = "espera", !.perguntadas = @ \cup {p.fonte}], descanso)
    BY <1>1, <1>2, PerguntaStep
  <1>4. QED
    BY <1>1, <1>3, UmaAnda

\* An answer wakes its source, or sends it to rest and crosses the others.
LEMMA RespondeFontes ==
  ASSUME FontesInv, NEW c \in Consultas, O!Responde(c)
  PROVE  FontesInv'
  <1> DEFINE p == chamada[c]
  <1>1. p.fase = "espera" /\ chamadas' = chamadas
    BY DEF O!Responde
  <1>2. ChamadaInv(p, descanso) /\ p.fonte \in O!Fontes
    BY <1>1 DEF FontesInv, O!Parada, ChamadaInv, Chamadas, O!Fontes
  <1>3. \A e : /\ ChamadaInv([p EXCEPT !.fase = "respondida"], e)
               /\ ChamadaInv([p EXCEPT !.tentativa = @ + 1], e)
               /\ ChamadaInv(O!Passa(p), e)
    BY <1>1, <1>2, RespondeStep
  <1> DEFINE respondida == [p EXCEPT !.fase = "respondida"]
             repetida == [p EXCEPT !.tentativa = @ + 1]
  <1>4. CASE chamada' = [chamada EXCEPT ![c] = respondida] /\ descanso' = [descanso EXCEPT ![p.fonte] = 0]
    <2>1. descanso' \in [O!Fontes -> 0..Descanso] /\ \A f \in O!Fontes : descanso[f] = 0 => descanso'[f] = 0
      BY <1>2, <1>4, FontesAssumption, BoundsAssumption DEF FontesInv
    <2>2. DOMAIN chamada' = Consultas /\ \A d \in Consultas : chamada'[d] = IF d = c THEN respondida ELSE chamada[d]
      BY <1>4 DEF FontesInv
    <2>3. ASSUME NEW d \in Consultas PROVE chamada'[d] = O!Parada \/ ChamadaInv(chamada'[d], descanso')
      <3> HIDE DEF respondida
      <3>1. CASE d = c
        BY <1>3, <2>2, <3>1 DEF respondida
      <3>2. CASE d # c
        BY <2>1, <2>2, <3>2, DescansoMenor DEF FontesInv
      <3>3. QED
        BY <3>1, <3>2
    <2>4. QED
      BY <1>1, <2>1, <2>2, <2>3 DEF FontesInv
  <1>5. CASE chamada' = [chamada EXCEPT ![c] = respondida] /\ descanso' = descanso
    BY <1>1, <1>3, <1>5, UmaAnda
  <1>6. CASE chamada' = [chamada EXCEPT ![c] = repetida] /\ descanso' = descanso
    BY <1>1, <1>3, <1>6, UmaAnda
  <1>7. CASE chamada' = [chamada EXCEPT ![c] = O!Passa(p)] /\ descanso' = descanso
    BY <1>1, <1>3, <1>7, UmaAnda
  <1>8. CASE /\ descanso' = [descanso EXCEPT ![p.fonte] = Descanso]
             /\ chamada' = [d \in Consultas |->
                   IF d = c THEN O!Passa(p)
                   ELSE IF chamada[d].fase = "busca" THEN [chamada[d] EXCEPT !.cruzada = TRUE]
                   ELSE chamada[d]]
    <2>1. descanso' \in [O!Fontes -> 0..Descanso]
      BY <1>2, <1>8, FontesAssumption, BoundsAssumption DEF FontesInv
    <2>2. DOMAIN chamada' = Consultas
      BY <1>8
    <2>3. ASSUME NEW d \in Consultas PROVE chamada'[d] = O!Parada \/ ChamadaInv(chamada'[d], descanso')
      <3>1. CASE d = c
        BY <1>3, <1>8, <3>1
      <3>2. CASE d # c /\ chamada[d] = O!Parada
        BY <1>8, <3>2 DEF O!Parada
      <3>3. CASE d # c /\ ChamadaInv(chamada[d], descanso)
        <4>1. chamada'[d] = IF chamada[d].fase = "busca" THEN [chamada[d] EXCEPT !.cruzada = TRUE] ELSE chamada[d]
          BY <1>8, <3>3
        <4>2. QED
          BY <3>3, <4>1, ChamadaCruzada
      <3>4. QED
        BY <3>1, <3>2, <3>3 DEF FontesInv
    <2>4. QED
      BY <1>1, <2>1, <2>2, <2>3 DEF FontesInv
  <1>9. QED
    BY <1>4, <1>5, <1>6, <1>7, <1>8 DEF O!Responde, O!Segue

LEMMA TempoFontes ==
  ASSUME FontesInv, O!Tempo
  PROVE  FontesInv'
  <1>1. descanso' = [f \in O!Fontes |-> IF O!Descansa(f) THEN descanso[f] - 1 ELSE 0] /\ chamada' = chamada /\ chamadas' = chamadas
    BY DEF O!Tempo
  <1>2. descanso' \in [O!Fontes -> 0..Descanso]
    BY <1>1, FontesAssumption, BoundsAssumption DEF FontesInv, O!Descansa
  <1>3. \A f \in O!Fontes : descanso[f] = 0 => descanso'[f] = 0
    BY <1>1, FontesAssumption, BoundsAssumption DEF FontesInv, O!Descansa
  <1>4. QED
    BY <1>1, <1>2, <1>3, DescansoMenor DEF FontesInv

LEMMA FontesStep == FontesInv /\ O!Next => FontesInv'
  BY ComecaStep, PulaFontes, PerguntaFontes, RespondeFontes, TempoFontes DEF O!Next

LEMMA FontesStutter == FontesInv /\ UNCHANGED fontesVars => FontesInv'
  BY DEF FontesInv, fontesVars

LEMMA FontesInvIsEnough == FontesInv => O!SourcesAreAsked /\ O!TypeOK
  <1>1. FontesInv => O!SourcesAreAsked
    BY DEF FontesInv, ChamadaInv, FimDaBusca, O!SourcesAreAsked, O!Parada
  <1>2. FontesInv => O!TypeOK
    BY DEF FontesInv, ChamadaInv, Chamadas, O!TypeOK, O!Parada
  <1>3. QED
    BY <1>1, <1>2

-----------------------------------------------------------------------------
(* The bank of numbers (Banco) *)

Marcadas == [n : 0..MaxMarcas, jogos : SUBSET Cartoes, novos : SUBSET Cartoes, passo : {"insere", "conta"},
             tirados : SUBSET Cartoes]

\* The calls that are still to count a game.
DevemContar(ms, j) == {m \in ms : j \in m.jogos}

\* A game of a call that nobody removed since is there, or about to be inserted by it; a game has a row for what was
\* counted of it; and no more was, or is to be, counted than calls began.
BancoInv ==
    /\ guardados \in [Cartoes -> {G!Ausente} \cup Nat]
    /\ vezes \in [Cartoes -> Nat]
    /\ marcas \in 0..MaxMarcas
    /\ marcando \subseteq Marcadas /\ G!IsFiniteSet(marcando)
    /\ \A m \in marcando : \A j \in m.jogos \ m.tirados :
          G!Presente(j) \/ (m.passo = "insere" /\ j \in m.novos)
    /\ \A j \in Cartoes :
          /\ IF G!Presente(j) THEN vezes[j] <= guardados[j] ELSE vezes[j] = 0
          /\ G!Cardinality(DevemContar(marcando, j)) <= marcas
          /\ guardados[j] + G!Cardinality(DevemContar(marcando, j)) <= marcas

LEMMA InitBanco == G!Init => BancoInv
  <1> SUFFICES ASSUME G!Init PROVE BancoInv
    OBVIOUS
  <1>1. \A j : DevemContar(marcando, j) = {}
    BY DEF G!Init, DevemContar
  <1>2. G!Cardinality({}) = 0 /\ G!IsFiniteSet({})
    BY FS_EmptySet DEF G!Cardinality, Cardinality, G!IsFiniteSet, IsFiniteSet
  <1>3. \A j \in Cartoes : ~G!Presente(j) /\ guardados[j] = -1 /\ vezes[j] = 0
    BY DEF G!Init, G!Presente, G!Ausente
  <1>4. marcando = {} /\ marcas = 0 /\ guardados \in [Cartoes -> {G!Ausente} \cup Nat] /\ vezes \in [Cartoes -> Nat]
    BY DEF G!Init
  <1>5. \A j \in Cartoes : G!Cardinality(DevemContar(marcando, j)) = 0
    BY <1>1, <1>2
  <1>6. 0 <= 0 /\ -1 + 0 <= 0 /\ 0 \in 0..MaxMarcas
    BY BoundsAssumption
  <1>7. QED
    BY <1>2, <1>3, <1>4, <1>5, <1>6 DEF BancoInv

LEMMA ContamNat ==
  ASSUME BancoInv, NEW j
  PROVE  G!IsFiniteSet(DevemContar(marcando, j)) /\ G!Cardinality(DevemContar(marcando, j)) \in Nat
  <1>1. IsFiniteSet(marcando) /\ DevemContar(marcando, j) \in SUBSET marcando
    BY DEF BancoInv, DevemContar, G!IsFiniteSet, IsFiniteSet
  <1>2. IsFiniteSet(DevemContar(marcando, j)) /\ Cardinality(DevemContar(marcando, j)) \in Nat
    BY <1>1, FS_Subset, FS_CardinalityType
  <1>3. QED
    BY <1>2 DEF G!IsFiniteSet, IsFiniteSet, G!Cardinality, Cardinality

\* What is inserted makes rows of what is not there, and takes none away.
LEMMA InsereStep ==
  ASSUME BancoInv, NEW js \in SUBSET Cartoes, guardados' = G!InsertMany(js), UNCHANGED vezes
  PROVE  /\ guardados' \in [Cartoes -> {G!Ausente} \cup Nat]
         /\ \A j \in Cartoes : /\ G!Presente(j)' <=> G!Presente(j) \/ j \in js
                               /\ IF G!Presente(j)' THEN vezes'[j] <= guardados'[j] ELSE vezes'[j] = 0
                               /\ guardados'[j] = guardados[j] \/ guardados'[j] = 0
  <1>1. \A j \in Cartoes : guardados'[j] = IF j \in js /\ guardados[j] # -1 THEN guardados[j] ELSE IF j \in js THEN 0 ELSE guardados[j]
    BY DEF G!InsertMany, G!Presente, G!Ausente
  <1>2. guardados \in [Cartoes -> {-1} \cup Nat] /\ guardados' = [j \in Cartoes |-> guardados'[j]]
    BY DEF BancoInv, G!Ausente, G!InsertMany
  <1>3. guardados' \in [Cartoes -> {-1} \cup Nat]
    BY <1>1, <1>2
  <1>4. ASSUME NEW j \in Cartoes PROVE /\ guardados'[j] # -1 <=> guardados[j] # -1 \/ j \in js
                                       /\ guardados'[j] = guardados[j] \/ guardados'[j] = 0
                                       /\ IF guardados'[j] # -1 THEN vezes[j] <= guardados'[j] ELSE vezes[j] = 0
    BY <1>1, <1>2 DEF BancoInv, G!Presente, G!Ausente
  <1>5. QED
    BY <1>3, <1>4 DEF G!Presente, G!Ausente

LEMMA GuardaStep ==
  ASSUME BancoInv, NEW js \in SUBSET Cartoes, guardados' = G!InsertMany(js), UNCHANGED <<marcando, marcas, vezes>>
  PROVE  BancoInv'
  <1>1. \A j : DevemContar(marcando', j) = DevemContar(marcando, j)
    BY DEF DevemContar
  <1>2. ASSUME NEW j \in Cartoes
        PROVE  /\ G!Cardinality(DevemContar(marcando, j)) <= marcas
               /\ guardados'[j] + G!Cardinality(DevemContar(marcando, j)) <= marcas
    <2>1. guardados'[j] = guardados[j] \/ guardados'[j] = 0
      BY InsereStep
    <2>2. G!Cardinality(DevemContar(marcando, j)) \in Nat
      BY ContamNat
    <2>3. QED
      BY <2>1, <2>2 DEF BancoInv
  <1>3. ASSUME NEW m \in marcando, NEW j \in m.jogos \ m.tirados PROVE G!Presente(j)' \/ (m.passo = "insere" /\ j \in m.novos)
    <2>1. j \in Cartoes
      BY DEF BancoInv, Marcadas
    <2>2. QED
      BY <2>1, InsereStep DEF BancoInv
  <1>4. \A j \in Cartoes : IF G!Presente(j)' THEN vezes'[j] <= guardados'[j] ELSE vezes'[j] = 0
    BY InsereStep
  <1>5. guardados' \in [Cartoes -> {G!Ausente} \cup Nat]
    BY InsereStep
  <1>6. QED
    BY <1>1, <1>2, <1>3, <1>4, <1>5 DEF BancoInv

LEMMA TiraStep ==
  ASSUME BancoInv, NEW j \in Cartoes, G!Remove(j)
  PROVE  BancoInv'
  <1> DEFINE Sem(m) == [m EXCEPT !.tirados = @ \cup {j}]
  <1>1. guardados' = [guardados EXCEPT ![j] = G!Ausente] /\ vezes' = [vezes EXCEPT ![j] = 0] /\ marcas' = marcas
        /\ marcando' = {Sem(m) : m \in marcando}
    BY DEF G!Remove
  <1>2. guardados' \in [Cartoes -> {G!Ausente} \cup Nat] /\ vezes' \in [Cartoes -> Nat]
    BY <1>1 DEF BancoInv
  <1>3. \A i \in Cartoes : guardados'[i] = (IF i = j THEN -1 ELSE guardados[i]) /\ vezes'[i] = IF i = j THEN 0 ELSE vezes[i]
    BY <1>1 DEF BancoInv, G!Ausente
  <1>4. \A m \in marcando : Sem(m) \in Marcadas /\ Sem(m).jogos = m.jogos /\ Sem(m).novos = m.novos /\ Sem(m).passo = m.passo
                            /\ Sem(m).tirados = m.tirados \cup {j}
    BY DEF BancoInv, Marcadas
  <1> HIDE DEF Sem
  <1>5. marcando' \subseteq Marcadas
    BY <1>1, <1>4
  <1>6. ASSUME NEW i PROVE /\ IsFiniteSet(DevemContar(marcando', i))
                           /\ Cardinality(DevemContar(marcando', i)) <= Cardinality(DevemContar(marcando, i))
    <2> DEFINE S == DevemContar(marcando, i)
               Depois == DevemContar(marcando', i)
               f == [m \in S |-> Sem(m)]
    <2>1. IsFiniteSet(S)
      BY ContamNat DEF G!IsFiniteSet, IsFiniteSet
    <2>2. Depois = {Sem(m) : m \in S}
      BY <1>1, <1>4 DEF DevemContar
    <2>3. f \in Surjection(S, Depois)
      BY <2>2 DEF Surjection
    <2>4. QED
      BY <2>1, <2>3, FS_Surjection
  <1>7. IsFiniteSet(marcando')
    <2>1. [m \in marcando |-> Sem(m)] \in Surjection(marcando, marcando')
      BY <1>1 DEF Surjection
    <2>2. IsFiniteSet(marcando)
      BY DEF BancoInv, G!IsFiniteSet, IsFiniteSet
    <2>3. QED
      BY <2>1, <2>2, FS_Surjection
  <1>8. ASSUME NEW i \in Cartoes
        PROVE  /\ IF G!Presente(i)' THEN vezes'[i] <= guardados'[i] ELSE vezes'[i] = 0
               /\ G!Cardinality(DevemContar(marcando', i)) <= marcas'
               /\ guardados'[i] + G!Cardinality(DevemContar(marcando', i)) <= marcas'
    <2> DEFINE n == Cardinality(DevemContar(marcando', i))
               k == Cardinality(DevemContar(marcando, i))
    <2>1. n \in Nat /\ k \in Nat /\ n <= k
      BY <1>6, ContamNat, FS_CardinalityType DEF G!Cardinality, Cardinality
    <2>2. k <= marcas /\ guardados[i] + k <= marcas
      BY DEF BancoInv, G!Cardinality, Cardinality
    <2>3. guardados[i] \in {-1} \cup Nat /\ marcas \in Nat
      BY BoundsAssumption DEF BancoInv, G!Ausente
    <2>4. n <= marcas' /\ guardados'[i] + n <= marcas'
      <3> HIDE DEF n, k
      <3>1. QED
        BY <1>1, <1>3, <2>1, <2>2, <2>3
    <2>5. IF G!Presente(i)' THEN vezes'[i] <= guardados'[i] ELSE vezes'[i] = 0
      BY <1>3 DEF BancoInv, G!Presente, G!Ausente
    <2>6. QED
      BY <2>4, <2>5 DEF G!Cardinality, Cardinality
  <1>9. ASSUME NEW q \in marcando', NEW i \in q.jogos \ q.tirados PROVE G!Presente(i)' \/ (q.passo = "insere" /\ i \in q.novos)
    <2>1. PICK m \in marcando : q = Sem(m)
      BY <1>1
    <2>2. i \in m.jogos \ m.tirados /\ i # j /\ i \in Cartoes
      BY <1>4, <2>1 DEF BancoInv, Marcadas
    <2>3. G!Presente(i)' <=> G!Presente(i)
      BY <1>3, <2>2 DEF G!Presente, G!Ausente
    <2>4. QED
      BY <1>4, <2>1, <2>2, <2>3 DEF BancoInv
  <1>10. G!IsFiniteSet(marcando') /\ marcas' \in 0..MaxMarcas
    BY <1>1, <1>7 DEF BancoInv, G!IsFiniteSet, IsFiniteSet
  <1>11. QED
    BY <1>2, <1>5, <1>8, <1>9, <1>10 DEF BancoInv

\* A call that begins counts later, once for each of its games.
LEMMA UsaStep ==
  ASSUME BancoInv, NEW js \in SUBSET Cartoes, G!MarkUsed(js)
  PROVE  BancoInv'
  <1> DEFINE validos == {j \in js : G!NaFaixa(j)}
             nova == [n |-> marcas, jogos |-> validos, novos |-> {j \in validos : ~G!Presente(j)},
                      passo |-> "insere", tirados |-> {}]
  <1>1. /\ marcas < MaxMarcas /\ marcas' = marcas + 1 /\ guardados' = guardados /\ vezes' = vezes
        /\ marcando' = IF validos = {} THEN marcando ELSE marcando \cup {nova}
    BY DEF G!MarkUsed
  <1>2. marcas \in Nat /\ marcas' \in 0..MaxMarcas
    BY <1>1, BoundsAssumption DEF BancoInv
  <1>3. nova \in Marcadas /\ nova.jogos = validos /\ nova.novos = {j \in validos : ~G!Presente(j)} /\ nova.passo = "insere"
    BY <1>1, <1>2, BoundsAssumption DEF Marcadas
  <1> HIDE DEF nova
  <1>4. IsFiniteSet(marcando)
    BY DEF BancoInv, G!IsFiniteSet, IsFiniteSet
  <1>5. marcando' \subseteq Marcadas /\ IsFiniteSet(marcando')
    BY <1>1, <1>3, <1>4, FS_AddElement DEF BancoInv
  <1>6. ASSUME NEW j \in Cartoes
        PROVE  /\ Cardinality(DevemContar(marcando', j)) \in Nat
               /\ Cardinality(DevemContar(marcando', j)) <= Cardinality(DevemContar(marcando, j)) + 1
    <2> DEFINE S == DevemContar(marcando, j)
    <2>1. IsFiniteSet(S) /\ Cardinality(S) \in Nat
      BY ContamNat DEF G!IsFiniteSet, IsFiniteSet, G!Cardinality, Cardinality
    <2>2. DevemContar(marcando', j) = S \/ DevemContar(marcando', j) = S \cup {nova}
      BY <1>1 DEF DevemContar
    <2>3. Cardinality(S \cup {nova}) \in Nat /\ Cardinality(S \cup {nova}) <= Cardinality(S) + 1
      BY <2>1, FS_AddElement, FS_CardinalityType
    <2>4. QED
      BY <2>1, <2>2, <2>3
  <1>7. ASSUME NEW j \in Cartoes
        PROVE  /\ G!Cardinality(DevemContar(marcando', j)) <= marcas'
               /\ guardados'[j] + G!Cardinality(DevemContar(marcando', j)) <= marcas'
    <2> DEFINE n == Cardinality(DevemContar(marcando', j))
               k == Cardinality(DevemContar(marcando, j))
    <2>1. n \in Nat /\ n <= k + 1 /\ k \in Nat
      BY <1>6, ContamNat DEF G!Cardinality, Cardinality
    <2>2. k <= marcas /\ guardados[j] + k <= marcas
      BY DEF BancoInv, G!Cardinality, Cardinality
    <2>3. guardados[j] \in {-1} \cup Nat
      BY DEF BancoInv, G!Ausente
    <2>4. n <= marcas' /\ guardados'[j] + n <= marcas'
      <3> HIDE DEF n, k
      <3>1. QED
        BY <1>1, <1>2, <2>1, <2>2, <2>3
    <2>5. QED
      BY <2>4 DEF G!Cardinality, Cardinality
  <1>8. \A j : G!Presente(j)' <=> G!Presente(j)
    BY <1>1 DEF G!Presente
  <1>9. ASSUME NEW m \in marcando', NEW j \in m.jogos \ m.tirados PROVE G!Presente(j)' \/ (m.passo = "insere" /\ j \in m.novos)
    BY <1>1, <1>3, <1>8 DEF BancoInv
  <1>10. \A j \in Cartoes : IF G!Presente(j)' THEN vezes'[j] <= guardados'[j] ELSE vezes'[j] = 0
    BY <1>1, <1>8 DEF BancoInv
  <1>11. G!IsFiniteSet(marcando')
    BY <1>5 DEF G!IsFiniteSet, IsFiniteSet
  <1>12. guardados' \in [Cartoes -> {G!Ausente} \cup Nat] /\ vezes' \in [Cartoes -> Nat]
    BY <1>1 DEF BancoInv
  <1>13. QED
    BY <1>2, <1>5, <1>7, <1>9, <1>10, <1>11, <1>12 DEF BancoInv

\* Between its statements a call changes nothing but its step.
LEMMA InsereNovosStep ==
  ASSUME BancoInv, NEW m \in marcando, G!Insere(m)
  PROVE  BancoInv'
  <1> DEFINE q == [m EXCEPT !.passo = "conta"]
  <1>1. /\ m.passo = "insere" /\ guardados' = G!InsertMany(m.novos) /\ marcas' = marcas /\ vezes' = vezes
        /\ marcando' = (marcando \ {m}) \cup {q}
    BY DEF G!Insere, G!Troca
  <1>2. m \in Marcadas /\ m.novos \in SUBSET Cartoes
    BY DEF BancoInv, Marcadas
  <1>3. q \in Marcadas /\ q.jogos = m.jogos /\ q.tirados = m.tirados /\ q.passo = "conta"
    BY <1>2 DEF Marcadas
  <1> HIDE DEF q
  <1>4. IsFiniteSet(marcando)
    BY DEF BancoInv, G!IsFiniteSet, IsFiniteSet
  <1>5. marcando' \subseteq Marcadas /\ IsFiniteSet(marcando')
    BY <1>1, <1>3, <1>4, FS_AddElement, FS_RemoveElement DEF BancoInv
  <1>6. ASSUME NEW j \in Cartoes
        PROVE  /\ Cardinality(DevemContar(marcando', j)) \in Nat
               /\ Cardinality(DevemContar(marcando', j)) <= Cardinality(DevemContar(marcando, j))
    <2> DEFINE S == DevemContar(marcando, j)
    <2>1. IsFiniteSet(S) /\ Cardinality(S) \in Nat
      BY ContamNat DEF G!IsFiniteSet, IsFiniteSet, G!Cardinality, Cardinality
    <2>2. CASE m \in S
      <3>1. DevemContar(marcando', j) = (S \ {m}) \cup {q}
        BY <1>1, <1>3, <2>2 DEF DevemContar
      <3>2. IsFiniteSet(S \ {m}) /\ Cardinality(S \ {m}) = Cardinality(S) - 1 /\ Cardinality(S \ {m}) \in Nat
        BY <2>1, <2>2, FS_RemoveElement, FS_CardinalityType
      <3>3. Cardinality((S \ {m}) \cup {q}) = IF q \in S \ {m} THEN Cardinality(S \ {m}) ELSE Cardinality(S \ {m}) + 1
        BY <3>2, FS_AddElement
      <3>4. QED
        BY <2>1, <3>1, <3>2, <3>3
    <2>3. CASE m \notin S
      <3>1. DevemContar(marcando', j) = S
        BY <1>1, <1>3, <2>3 DEF DevemContar
      <3>2. QED
        BY <2>1, <3>1
    <2>4. QED
      BY <2>2, <2>3
  <1>0. marcas \in Nat /\ guardados \in [Cartoes -> {-1} \cup Nat]
    BY BoundsAssumption DEF BancoInv, G!Ausente
  <1>7. ASSUME NEW j \in Cartoes
        PROVE  /\ G!Cardinality(DevemContar(marcando', j)) <= marcas'
               /\ guardados'[j] + G!Cardinality(DevemContar(marcando', j)) <= marcas'
    <2> DEFINE n == Cardinality(DevemContar(marcando', j))
               k == Cardinality(DevemContar(marcando, j))
    <2>1. n \in Nat /\ n <= k /\ k \in Nat
      BY <1>6, ContamNat DEF G!Cardinality, Cardinality
    <2>2. k <= marcas /\ guardados[j] + k <= marcas
      BY DEF BancoInv, G!Cardinality, Cardinality
    <2>3. guardados[j] \in {-1} \cup Nat /\ (guardados'[j] = guardados[j] \/ guardados'[j] = 0)
      BY <1>0, <1>1, <1>2, InsereStep
    <2>4. n <= marcas' /\ guardados'[j] + n <= marcas'
      <3> HIDE DEF n, k
      <3>1. QED
        BY <1>0, <1>1, <2>1, <2>2, <2>3
    <2>5. QED
      BY <2>4 DEF G!Cardinality, Cardinality
  <1>8. \A j \in Cartoes : G!Presente(j)' <=> G!Presente(j) \/ j \in m.novos
    BY <1>1, <1>2, InsereStep
  <1>9. ASSUME NEW p \in marcando', NEW j \in p.jogos \ p.tirados PROVE G!Presente(j)' \/ (p.passo = "insere" /\ j \in p.novos)
    <2>1. j \in Cartoes
      BY <1>5 DEF Marcadas
    <2>2. QED
      BY <1>1, <1>3, <1>8, <2>1 DEF BancoInv
  <1>10. \A j \in Cartoes : IF G!Presente(j)' THEN vezes'[j] <= guardados'[j] ELSE vezes'[j] = 0
    BY <1>1, <1>2, InsereStep
  <1>11. G!IsFiniteSet(marcando')
    BY <1>5 DEF G!IsFiniteSet, IsFiniteSet
  <1>12. guardados' \in [Cartoes -> {G!Ausente} \cup Nat] /\ vezes' \in [Cartoes -> Nat] /\ marcas' \in 0..MaxMarcas
    BY <1>1, <1>2, InsereStep DEF BancoInv
  <1>13. QED
    BY <1>5, <1>7, <1>9, <1>10, <1>11, <1>12 DEF BancoInv

\* A call that counts counts each game that nobody removed, since such a game has its row, and owes nothing any more.
LEMMA ContaStep ==
  ASSUME BancoInv, NEW m \in marcando, G!Conta(m)
  PROVE  BancoInv'
  <1>1. /\ m.passo = "conta" /\ marcas' = marcas /\ marcando' = marcando \ {m}
        /\ guardados' = [j \in Cartoes |-> IF j \in m.jogos /\ G!Presente(j) THEN guardados[j] + 1 ELSE guardados[j]]
        /\ vezes' = [j \in Cartoes |-> IF j \in m.jogos \ m.tirados THEN vezes[j] + 1 ELSE vezes[j]]
    BY DEF G!Conta, G!Contados
  <1>2. guardados \in [Cartoes -> {-1} \cup Nat] /\ vezes \in [Cartoes -> Nat]
    BY DEF BancoInv, G!Ausente
  <1>3. guardados' \in [Cartoes -> {-1} \cup Nat] /\ vezes' \in [Cartoes -> Nat]
    BY <1>1, <1>2
  <1>4. \A j \in Cartoes : guardados'[j] # -1 <=> guardados[j] # -1
    BY <1>1, <1>2 DEF G!Presente, G!Ausente
  <1>5. ASSUME NEW j \in Cartoes PROVE IF guardados'[j] # -1 THEN vezes'[j] <= guardados'[j] ELSE vezes'[j] = 0
    <2>1. IF guardados[j] # -1 THEN vezes[j] <= guardados[j] ELSE vezes[j] = 0
      BY DEF BancoInv, G!Presente, G!Ausente
    <2>2. j \in m.jogos \ m.tirados => guardados[j] # -1
      BY <1>1 DEF BancoInv, G!Presente, G!Ausente
    <2>3. /\ guardados'[j] = IF j \in m.jogos /\ guardados[j] # -1 THEN guardados[j] + 1 ELSE guardados[j]
          /\ vezes'[j] = IF j \in m.jogos \ m.tirados THEN vezes[j] + 1 ELSE vezes[j]
      BY <1>1 DEF G!Presente, G!Ausente
    <2>4. guardados[j] \in {-1} \cup Nat /\ vezes[j] \in Nat
      BY <1>2
    <2>5. QED
      BY <2>1, <2>2, <2>3, <2>4
  <1>6. IsFiniteSet(marcando)
    BY DEF BancoInv, G!IsFiniteSet, IsFiniteSet
  <1>7. marcando' \subseteq Marcadas /\ IsFiniteSet(marcando')
    BY <1>1, <1>6, FS_RemoveElement DEF BancoInv
  <1>0. marcas \in Nat
    BY BoundsAssumption DEF BancoInv
  <1>8. ASSUME NEW j \in Cartoes
        PROVE  /\ G!Cardinality(DevemContar(marcando', j)) <= marcas'
               /\ guardados'[j] + G!Cardinality(DevemContar(marcando', j)) <= marcas'
    <2> DEFINE S == DevemContar(marcando, j)
               n == Cardinality(DevemContar(marcando', j))
               k == Cardinality(S)
    <2>1. IsFiniteSet(S) /\ k \in Nat
      BY ContamNat DEF G!IsFiniteSet, IsFiniteSet, G!Cardinality, Cardinality
    <2>2. DevemContar(marcando', j) = S \ {m} /\ (m \in S <=> j \in m.jogos)
      BY <1>1 DEF DevemContar
    <2>3. n \in Nat /\ n = IF j \in m.jogos THEN k - 1 ELSE k
      BY <2>1, <2>2, FS_RemoveElement, FS_CardinalityType
    <2>4. k <= marcas /\ guardados[j] + k <= marcas
      BY DEF BancoInv, G!Cardinality, Cardinality
    <2>5. guardados[j] \in {-1} \cup Nat /\ guardados'[j] = IF j \in m.jogos /\ guardados[j] # -1 THEN guardados[j] + 1 ELSE guardados[j]
      BY <1>1, <1>2 DEF G!Presente, G!Ausente
    <2>6. n <= marcas' /\ guardados'[j] + n <= marcas'
      <3> HIDE DEF n, k
      <3>1. QED
        BY <1>0, <1>1, <2>1, <2>3, <2>4, <2>5
    <2>7. QED
      BY <2>6 DEF G!Cardinality, Cardinality
  <1>9. ASSUME NEW p \in marcando', NEW j \in p.jogos \ p.tirados PROVE guardados'[j] # -1 \/ (p.passo = "insere" /\ j \in p.novos)
    <2>1. p \in marcando /\ j \in Cartoes
      BY <1>1, <1>7 DEF Marcadas
    <2>2. QED
      BY <1>4, <2>1 DEF BancoInv, G!Presente, G!Ausente
  <1>10. G!IsFiniteSet(marcando')
    BY <1>7 DEF G!IsFiniteSet, IsFiniteSet
  <1>11. marcas' \in 0..MaxMarcas
    BY <1>1 DEF BancoInv
  <1>12. QED
    BY <1>3, <1>5, <1>7, <1>8, <1>9, <1>10, <1>11 DEF BancoInv, G!Presente, G!Ausente

LEMMA BancoStep == BancoInv /\ G!Next => BancoInv'
  <1> SUFFICES ASSUME BancoInv, G!Next PROVE BancoInv'
    OBVIOUS
  <1>1. CASE G!Guarda
    <2>1. PICK js \in SUBSET Cartoes : guardados' = G!InsertMany(js) /\ UNCHANGED <<marcando, marcas, vezes>>
      BY <1>1 DEF G!Guarda, G!Generate, G!Add
    <2>2. QED
      BY <2>1, GuardaStep
  <1>2. CASE G!TiraDoBanco
    BY <1>2, TiraStep DEF G!TiraDoBanco
  <1>3. CASE G!Usa
    BY <1>3, UsaStep DEF G!Usa
  <1>4. CASE G!InsereNovos
    BY <1>4, InsereNovosStep DEF G!InsereNovos
  <1>5. CASE G!ContaUsos
    BY <1>5, ContaStep DEF G!ContaUsos
  <1>6. QED
    BY <1>1, <1>2, <1>3, <1>4, <1>5 DEF G!Next

LEMMA BancoStutter == BancoInv /\ UNCHANGED bancoVars => BancoInv'
  BY DEF BancoInv, bancoVars, G!Presente, DevemContar

LEMMA BancoInvIsEnough == BancoInv => G!UsesAreCounted /\ G!TypeOK
  <1> SUFFICES ASSUME BancoInv PROVE G!UsesAreCounted /\ G!TypeOK
    OBVIOUS
  <1>1. guardados \in [Cartoes -> {-1} \cup Nat] /\ vezes \in [Cartoes -> Nat] /\ marcas \in 0..MaxMarcas
    BY DEF BancoInv, G!Ausente
  <1>2. ASSUME NEW j \in Cartoes
        PROVE  /\ vezes[j] > 0 => guardados[j] >= vezes[j]
               /\ guardados[j] <= marcas - G!Cardinality({m \in marcando : j \in m.jogos})
               /\ guardados[j] <= MaxMarcas /\ vezes[j] <= MaxMarcas
    <2> DEFINE k == G!Cardinality(DevemContar(marcando, j))
    <2>1. k \in Nat /\ DevemContar(marcando, j) = {m \in marcando : j \in m.jogos}
      BY ContamNat DEF DevemContar
    <2>2. (IF guardados[j] # -1 THEN vezes[j] <= guardados[j] ELSE vezes[j] = 0) /\ guardados[j] + k <= marcas
      BY DEF BancoInv, G!Presente, G!Ausente
    <2>3. guardados[j] \in {-1} \cup Nat /\ vezes[j] \in Nat /\ marcas \in Nat /\ marcas <= MaxMarcas
      BY <1>1, BoundsAssumption
    <2>4. /\ vezes[j] > 0 => guardados[j] >= vezes[j]
          /\ guardados[j] <= marcas - k
          /\ guardados[j] <= MaxMarcas /\ vezes[j] <= MaxMarcas
      <3> HIDE DEF k
      <3>1. QED
        BY <2>1, <2>2, <2>3, BoundsAssumption
    <2>5. QED
      BY <2>1, <2>4
  <1>3. guardados \in [Cartoes -> G!Ausente .. MaxMarcas] /\ vezes \in [Cartoes -> 0..MaxMarcas]
    <2>1. \A x \in {-1} \cup Nat : x <= MaxMarcas => x \in -1..MaxMarcas
      BY BoundsAssumption
    <2>2. \A x \in Nat : x <= MaxMarcas => x \in 0..MaxMarcas
      BY BoundsAssumption
    <2>3. QED
      BY <1>1, <1>2, <2>1, <2>2 DEF G!Ausente
  <1>4. QED
    BY <1>2, <1>3 DEF G!UsesAreCounted, G!TypeOK, BancoInv, Marcadas

-----------------------------------------------------------------------------
(* The form of a new pool, the sources and the bank in the composition *)

LEMMA AssistenteMoves ==
  ASSUME [Next]_vars
  PROVE  A!Next \/ UNCHANGED assistenteVars
  BY DEF Next, Parados, vars, RepassesAnda, JogoAnda, FiscalAnda, ContasAnda, RedeAnda, BolaoAnda, CalculosAnda, EstatisticasAnda,
    ProvedoresAnda, PushAnda, AssistenteAnda, FontesAnda, ArquivosAnda, PaineisAnda, AcessoAnda, BancoAnda

\* The form of a new pool: however prices change, quotes cross and the table is loaded or lost, what is created has the
\* total its author was shown, pays for its bets from the parts of them, and follows a price of CAIXA that was in force
\* since it was sent (pool-create-wizard.tsx, poolQuote, and create of pools.service.ts).
THEOREM DraftsKept == Spec => []A!DraftsAreAsShown
  <1>1. Init => AssistenteInv
    BY InitAssistente DEF Init
  <1>2. AssistenteInv /\ [Next]_vars => AssistenteInv'
    BY AssistenteMoves, AssistenteStep, AssistenteStutter
  <1>3. QED
    BY <1>1, <1>2, AssistenteInvIsEnough, PTL DEF Spec

LEMMA FontesMoves ==
  ASSUME [Next]_vars
  PROVE  O!Next \/ UNCHANGED fontesVars
  BY DEF Next, Parados, vars, RepassesAnda, JogoAnda, FiscalAnda, ContasAnda, RedeAnda, BolaoAnda, CalculosAnda, EstatisticasAnda,
    ProvedoresAnda, PushAnda, AssistenteAnda, FontesAnda, ArquivosAnda, PaineisAnda, AcessoAnda, BancoAnda

\* The sources of results: with any number of calls that share the rests, a call that fails has asked somebody or was
\* crossed, and went through the whole list; a mirror answers only after those before it were asked or rested; and who asks
\* without the memory of rests skips nobody (caixa-client.ts).
THEOREM SourcesKept == Spec => []O!SourcesAreAsked
  <1>1. Init => FontesInv
    BY InitFontes DEF Init
  <1>2. FontesInv /\ [Next]_vars => FontesInv'
    BY FontesMoves, FontesStep, FontesStutter
  <1>3. QED
    BY <1>1, <1>2, FontesInvIsEnough, PTL DEF Spec

LEMMA BancoMoves ==
  ASSUME [Next]_vars
  PROVE  G!Next \/ UNCHANGED bancoVars
  BY DEF Next, Parados, vars, RepassesAnda, JogoAnda, FiscalAnda, ContasAnda, RedeAnda, BolaoAnda, CalculosAnda, EstatisticasAnda,
    ProvedoresAnda, PushAnda, AssistenteAnda, FontesAnda, ArquivosAnda, PaineisAnda, AcessoAnda, BancoAnda

\* The bank of numbers: however marks of the same games, imports and removals cross, a game in the bank was counted for
\* every bet made with it since it came, and never more than bets were (markUsed, which inserts and then counts).
THEOREM UsesKept == Spec => []G!UsesAreCounted
  <1>1. Init => BancoInv
    BY InitBanco DEF Init
  <1>2. BancoInv /\ [Next]_vars => BancoInv'
    BY BancoMoves, BancoStep, BancoStutter
  <1>3. QED
    BY <1>1, <1>2, BancoInvIsEnough, PTL DEF Spec

-----------------------------------------------------------------------------
(* Pools (module CicloBolao).  What buyers contracted is inductive with the  *)
(* types.  A placed bet keeps its proof by what a request in flight relies   *)
(* on when it writes (ProvaInv): alone, a registration has its link or a     *)
(* proof in the file, and a removal leaves another proof behind.             *)

TipoDoBolao == [valores : 0..MaxEdicoes,
              status : {"rascunho", "aberto", "fechado", "registrado", "apurado", "cancelado"},
              gatilho : 0..MaxPremio, liberado : BOOLEAN, link : BOOLEAN]
TipoDaCota == [status : {"livre", "reservada", "paga", "registrada", "apurada"},
               valores : 0..MaxEdicoes, via : {"site", "balcao", "cancelada"}]
              \cup [status : {"cancelada"}, valores : 0..MaxEdicoes, via : {"cancelada"}]
TipoDoPedido == {B!Ocioso, [op |-> "edita"], [op |-> "libera"]}
              \cup [op : {"registra", "comprovante"}, link : BOOLEAN]
              \cup [op : {"remove"}, anexo : Anexos]

SozinhoInv == \A q, r \in Pedidos : B!NoRegistro(pedidoBolao[q]) /\ B!NoRegistro(pedidoBolao[r]) => q = r

EmVooInv == \A r \in Pedidos :
    /\ pedidoBolao[r].op = "registra" => pedidoBolao[r].link \/ B!Provas # {}
    /\ pedidoBolao[r].op = "comprovante" => pedidoBolao[r].link \/ bolao.link \/ B!Provas # {}
    /\ pedidoBolao[r].op = "remove" /\ B!Apostado /\ ~bolao.link => \E b \in B!Provas : b # pedidoBolao[r].anexo

ProvaInv == ~cruzadosBolao => SozinhoInv /\ EmVooInv /\ (B!Apostado => bolao.link \/ B!Provas # {})

-----------------------------------------------------------------------------
(* Pools (module CicloBolao): types *)

LEMMA PoolTypeParts ==
  B!TypeOK <=> /\ bolao \in TipoDoBolao /\ premio \in 0..MaxPremio /\ aberto \in BOOLEAN
             /\ cota \in [Cotas -> TipoDaCota] /\ anexo \in [Anexos -> {"nenhum", "arquivo"}]
             /\ pedidoBolao \in [Pedidos -> TipoDoPedido] /\ cruzadosBolao \in BOOLEAN
  BY DEF B!TypeOK, TipoDoBolao, TipoDaCota, TipoDoPedido

LEMMA PoolFollowType ==
  ASSUME pedidoBolao \in [Pedidos -> TipoDoPedido], NEW r \in Pedidos, NEW p \in TipoDoPedido, B!Segue(r, p)
  PROVE  pedidoBolao' \in [Pedidos -> TipoDoPedido] /\ pedidoBolao'[r] = p /\ \A q \in Pedidos \ {r} : pedidoBolao'[q] = pedidoBolao[q]
  BY DEF B!Segue

LEMMA PoolInitType == MaxPremio \in Nat /\ MaxEdicoes \in Nat /\ B!Init => B!TypeOK
  <1> SUFFICES ASSUME MaxPremio \in Nat, MaxEdicoes \in Nat, B!Init PROVE B!TypeOK
    OBVIOUS
  <1> DEFINE S == [valores : {0}, status : {"rascunho"}, gatilho : {0, MaxPremio}, liberado : {FALSE}, link : {FALSE}]
  <1>1. bolao \in TipoDoBolao
    <2>1. {0} \subseteq 0..MaxEdicoes /\ {0, MaxPremio} \subseteq 0..MaxPremio
      OBVIOUS
    <2>2. S \subseteq TipoDoBolao
      BY <2>1 DEF TipoDoBolao
    <2>3. QED
      BY <2>2 DEF B!Init
  <1>2. cota \in [Cotas -> TipoDaCota]
    BY DEF B!Init, TipoDaCota, B!Livre
  <1>3. pedidoBolao \in [Pedidos -> TipoDoPedido]
    BY DEF B!Init, TipoDoPedido
  <1>4. premio \in 0..MaxPremio
    BY DEF B!Init
  <1>5. anexo \in [Anexos -> {"nenhum", "arquivo"}]
    BY DEF B!Init
  <1>6. aberto \in BOOLEAN /\ cruzadosBolao \in BOOLEAN
    BY DEF B!Init
  <1>7. QED
    BY <1>1, <1>2, <1>3, <1>4, <1>5, <1>6, PoolTypeParts

\* A write of a request, whatever its kind.
LEMMA PoolWriteType ==
  ASSUME B!TypeOK, NEW r \in Pedidos, NEW op, NEW b \in TipoDoBolao, B!Grava(r, op, b), cota' \in [Cotas -> TipoDaCota]
  PROVE  B!TypeOK'
  <1>1. B!Ocioso \in TipoDoPedido
    BY DEF TipoDoPedido
  <1>2. pedidoBolao' \in [Pedidos -> TipoDoPedido]
    BY <1>1, PoolTypeParts, PoolFollowType DEF B!Grava
  <1>3. bolao' \in TipoDoBolao
    BY DEF B!Grava
  <1>4. QED
    BY <1>2, <1>3, PoolTypeParts DEF B!Grava, B!TypeOK, TipoDoBolao, TipoDaCota, TipoDoPedido

LEMMA PoolEditType ==
  ASSUME B!TypeOK, NEW r \in Pedidos, B!Edita(r), MaxEdicoes \in Nat
  PROVE  B!TypeOK'
  <1>1. bolao \in TipoDoBolao /\ cota' \in [Cotas -> TipoDaCota]
    BY PoolTypeParts DEF B!Edita
  <1>2. B!Reajustado \in TipoDoBolao
    BY <1>1 DEF TipoDoBolao, B!Edita, B!Reajustado
  <1>3. ASSUME NEW g \in 0..MaxPremio PROVE B!ComGatilho(g) \in TipoDoBolao
    BY <1>2 DEF TipoDoBolao, B!ComGatilho
  <1>4. CASE B!Grava(r, "edita", IF B!Permite THEN B!Reajustado ELSE bolao)
    BY <1>1, <1>2, <1>4, PoolWriteType
  <1>5. ASSUME NEW g \in 0..MaxPremio, B!Grava(r, "edita", IF B!Permite THEN B!ComGatilho(g) ELSE bolao) PROVE B!TypeOK'
    BY <1>1, <1>3, <1>5, PoolWriteType
  <1>6. QED
    BY <1>4, <1>5 DEF B!Edita

\* The other steps: what a request has read, and the changes of the environment.
LEMMA PoolReadType ==
  ASSUME B!TypeOK, NEW r \in Pedidos, NEW p \in TipoDoPedido, B!Comeca(r, p), cruzadosBolao' \in BOOLEAN,
         UNCHANGED <<bolao, premio, aberto, cota, anexo>>
  PROVE  B!TypeOK'
  <1>1. pedidoBolao' \in [Pedidos -> TipoDoPedido]
    BY PoolTypeParts, PoolFollowType DEF B!Comeca
  <1>2. QED
    BY <1>1, PoolTypeParts DEF B!TypeOK, TipoDoBolao, TipoDaCota, TipoDoPedido

LEMMA PoolStateType ==
  ASSUME B!TypeOK, bolao' \in TipoDoBolao, cota' \in [Cotas -> TipoDaCota], premio' \in 0..MaxPremio,
         aberto' \in BOOLEAN, anexo' \in [Anexos -> {"nenhum", "arquivo"}], UNCHANGED <<pedidoBolao, cruzadosBolao>>
  PROVE  B!TypeOK'
  BY PoolTypeParts DEF B!TypeOK, TipoDoBolao, TipoDaCota, TipoDoPedido

LEMMA PoolRegisteredType ==
  ASSUME B!TypeOK PROVE B!Registradas \in [Cotas -> TipoDaCota]
  <1> SUFFICES ASSUME NEW c \in Cotas
               PROVE  (IF cota[c].status = "paga" THEN [cota[c] EXCEPT !.status = "registrada"] ELSE cota[c]) \in TipoDaCota
    BY DEF B!Registradas
  <1>1. cota[c] \in TipoDaCota
    BY PoolTypeParts
  <1>2. QED
    BY <1>1 DEF TipoDaCota

LEMMA PoolNextType == MaxEdicoes \in Nat /\ B!TypeOK /\ [B!Next]_B!vars => B!TypeOK'
  <1> SUFFICES ASSUME MaxEdicoes \in Nat, B!TypeOK, [B!Next]_B!vars PROVE B!TypeOK'
    OBVIOUS
  <1>0. bolao \in TipoDoBolao /\ cota \in [Cotas -> TipoDaCota]
    BY PoolTypeParts
  <1>1. ASSUME NEW s \in {"aberto", "fechado", "cancelado", "apurado"}, B!Estado(s), cota' \in [Cotas -> TipoDaCota]
        PROVE  B!TypeOK'
    <2>1. bolao' \in TipoDoBolao
      BY <1>0, <1>1 DEF B!Estado, TipoDoBolao
    <2>2. QED
      BY <1>1, <2>1, PoolStateType, PoolTypeParts DEF B!Estado
  <1>2. CASE B!Publica \/ B!Fecha \/ B!Cancela
    BY <1>0, <1>1, <1>2 DEF B!Publica, B!Fecha, B!Cancela
  <1>3. CASE B!Apura
    <2>1. cota' \in [Cotas -> TipoDaCota]
      BY <1>0, <1>3 DEF B!Apura, TipoDaCota
    <2>2. QED
      BY <1>1, <1>3, <2>1 DEF B!Apura
  <1>4. CASE B!MudaPremio \/ B!Encerra
    BY <1>0, <1>4, PoolStateType, PoolTypeParts DEF B!MudaPremio, B!Encerra
  <1>5. ASSUME NEW r \in Pedidos, B!LeEdicao(r) PROVE B!TypeOK'
    <2>1. ASSUME NEW p \in TipoDoPedido, B!Le(r, p) PROVE B!TypeOK'
      BY <2>1, PoolReadType, PoolTypeParts DEF B!Le
    <2>2. [op |-> "edita"] \in TipoDoPedido
      BY DEF TipoDoPedido
    <2>3. QED
      BY <1>5, <2>1, <2>2 DEF B!LeEdicao
  <1>6. ASSUME NEW r \in Pedidos, B!LeLiberacao(r) \/ B!LeVigia(r) PROVE B!TypeOK'
    <2>1. ASSUME NEW p \in TipoDoPedido, B!Le(r, p) PROVE B!TypeOK'
      BY <2>1, PoolReadType, PoolTypeParts DEF B!Le
    <2>2. [op |-> "libera"] \in TipoDoPedido
      BY DEF TipoDoPedido
    <2>3. QED
      BY <1>6, <2>1, <2>2 DEF B!LeLiberacao, B!LeVigia
  <1>7. ASSUME NEW r \in Pedidos, B!Edita(r) PROVE B!TypeOK'
    BY <1>7, PoolEditType
  <1>8. ASSUME NEW r \in Pedidos, B!Libera(r) PROVE B!TypeOK'
    <2>1. [bolao EXCEPT !.liberado = TRUE] \in TipoDoBolao
      BY <1>0 DEF TipoDoBolao
    <2>2. QED
      BY <1>0, <1>8, <2>1, PoolWriteType DEF B!Libera
  <1>9. ASSUME NEW r \in Pedidos, NEW b \in BOOLEAN, B!LeRegistro(r, b) \/ B!LeComprovante(r, b) PROVE B!TypeOK'
    <2>1. [op |-> "registra", link |-> b] \in TipoDoPedido /\ [op |-> "comprovante", link |-> b] \in TipoDoPedido
      BY DEF TipoDoPedido
    <2>2. cruzadosBolao' \in BOOLEAN
      BY <1>9, PoolTypeParts DEF B!LeRegistro, B!LeComprovante, B!LeProvas
    <2>3. QED
      BY <1>9, <2>1, <2>2, PoolReadType DEF B!LeRegistro, B!LeComprovante, B!LeProvas
  <1>10. ASSUME NEW r \in Pedidos, NEW a \in Anexos, B!LeRemocao(r, a) PROVE B!TypeOK'
    <2>1. [op |-> "remove", anexo |-> a] \in TipoDoPedido
      BY DEF TipoDoPedido
    <2>2. cruzadosBolao' \in BOOLEAN
      BY <1>10, PoolTypeParts DEF B!LeRemocao, B!LeProvas
    <2>3. QED
      BY <1>10, <2>1, <2>2, PoolReadType DEF B!LeRemocao, B!LeProvas
  <1>11. ASSUME NEW r \in Pedidos, B!Registra(r) \/ B!Comprovante(r) PROVE B!TypeOK'
    <2>1. pedidoBolao[r] \in TipoDoPedido /\ pedidoBolao[r].op \in {"registra", "comprovante"}
      BY <1>11, PoolTypeParts DEF B!Registra, B!Comprovante
    <2>2. pedidoBolao[r].link \in BOOLEAN
      BY <2>1 DEF TipoDoPedido, B!Ocioso
    <2>3. [bolao EXCEPT !.status = "registrado", !.link = @ \/ pedidoBolao[r].link] \in TipoDoBolao
      BY <1>0, <2>2 DEF TipoDoBolao
    <2>4. cota' \in [Cotas -> TipoDaCota]
      BY <1>0, <1>11, PoolRegisteredType DEF B!Registra, B!Comprovante
    <2>5. QED
      BY <1>0, <1>11, <2>3, <2>4, PoolWriteType DEF B!Registra, B!Comprovante
  <1>12. ASSUME NEW r \in Pedidos, B!Remove(r) PROVE B!TypeOK'
    <2>1. B!Ocioso \in TipoDoPedido
      BY DEF TipoDoPedido
    <2>2. pedidoBolao' \in [Pedidos -> TipoDoPedido]
      BY <1>12, <2>1, PoolTypeParts, PoolFollowType DEF B!Remove
    <2>3. anexo' \in [Anexos -> {"nenhum", "arquivo"}]
      BY <1>12, PoolTypeParts DEF B!Remove
    <2>4. QED
      BY <1>12, <2>2, <2>3, PoolTypeParts DEF B!Remove, B!TypeOK, TipoDoBolao, TipoDaCota, TipoDoPedido
  <1>13. ASSUME NEW c \in Cotas, B!Reserva(c) \/ B!VendaNoBalcao(c) PROVE B!TypeOK'
    <2>1. PICK v \in {"site", "balcao"} : B!Contrata(c, v)
      BY <1>13 DEF B!Reserva, B!VendaNoBalcao
    <2>2. bolao' \in TipoDoBolao
      BY <1>0, <1>13 DEF B!Reserva, B!VendaNoBalcao, B!Liberta, TipoDoBolao
    <2>3. [status |-> "reservada", valores |-> bolao.valores, via |-> v] \in TipoDaCota
      BY <1>0, <2>1 DEF TipoDoBolao, TipoDaCota
    <2>4. cota' \in [Cotas -> TipoDaCota]
      BY <1>0, <2>1, <2>3 DEF B!Contrata
    <2>5. QED
      BY <2>1, <2>2, <2>4, PoolStateType, PoolTypeParts DEF B!Contrata
  <1>14. ASSUME NEW c \in Cotas, B!Paga(c) \/ B!Desfaz(c) PROVE B!TypeOK'
    <2>1. ASSUME NEW d \in Cotas PROVE cota'[d] \in TipoDaCota
      <3>1. cota[d] \in TipoDaCota
        BY <1>0
      <3>2. QED
        BY <1>0, <1>14, <3>1 DEF B!Paga, B!Desfaz, B!Livre, TipoDaCota
    <2>2. cota' = [d \in Cotas |-> cota'[d]]
      BY <1>0, <1>14 DEF B!Paga, B!Desfaz
    <2>3. cota' \in [Cotas -> TipoDaCota]
      BY <2>1, <2>2
    <2>4. QED
      BY <1>14, <2>3, PoolStateType, PoolTypeParts DEF B!Paga, B!Desfaz
  <1>15. ASSUME NEW a \in Anexos, B!Anexa(a) PROVE B!TypeOK'
    BY <1>15, PoolStateType, PoolTypeParts DEF B!Anexa
  <1>16. CASE UNCHANGED B!vars
    BY <1>16 DEF B!TypeOK, B!vars
  <1>17. QED
    BY <1>2, <1>3, <1>4, <1>5, <1>6, <1>7, <1>8, <1>9, <1>10, <1>11, <1>12, <1>13, <1>14, <1>15, <1>16 DEF B!Next

\* Every variable keeps its type, for any shares, proofs and requests.
THEOREM PoolTypeCorrect == ASSUME MaxPremio \in Nat, MaxEdicoes \in Nat PROVE B!Spec => []B!TypeOK
  <1>1. B!Init => B!TypeOK
    BY PoolInitType
  <1>2. B!TypeOK /\ [B!Next]_B!vars => B!TypeOK'
    BY PoolNextType
  <1>3. QED
    BY <1>1, <1>2, PTL DEF B!Spec

-----------------------------------------------------------------------------
(* Pools: what buyers contracted *)

\* A step that brings no share to life keeps the terms when it keeps those of the pool.
Iguais(c) == /\ cota'[c].valores = cota[c].valores
             /\ cota'[c].via = cota[c].via
             /\ cota'[c].status \notin {"livre", "cancelada"} => cota[c].status \notin {"livre", "cancelada"}

LEMMA PoolTermsKept ==
  ASSUME B!TypeOK, B!BuyersKeepTheirTerms, \A c \in Cotas : Iguais(c),
         bolao'.valores = bolao.valores, bolao'.gatilho = bolao.gatilho, bolao.liberado => bolao'.liberado
  PROVE  B!BuyersKeepTheirTerms'
  BY DEF B!BuyersKeepTheirTerms, B!Vivas, Iguais

LEMMA PoolNextTerms == B!TypeOK /\ B!BuyersKeepTheirTerms /\ [B!Next]_B!vars => B!BuyersKeepTheirTerms'
  <1> SUFFICES ASSUME B!TypeOK, B!BuyersKeepTheirTerms, [B!Next]_B!vars PROVE B!BuyersKeepTheirTerms'
    OBVIOUS
  <1>0. bolao \in TipoDoBolao /\ cota \in [Cotas -> TipoDaCota]
    BY PoolTypeParts
  <1>1. ASSUME UNCHANGED <<bolao, cota>> PROVE B!BuyersKeepTheirTerms'
    BY <1>1, PoolTermsKept DEF Iguais
  <1>2. ASSUME NEW s, B!Estado(s), \A c \in Cotas : Iguais(c) PROVE B!BuyersKeepTheirTerms'
    <2>1. bolao'.valores = bolao.valores /\ bolao'.gatilho = bolao.gatilho /\ bolao'.liberado = bolao.liberado
      BY <1>0, <1>2 DEF B!Estado, TipoDoBolao
    <2>2. QED
      BY <1>2, <2>1, PoolTermsKept
  <1>3. CASE B!Publica \/ B!Fecha \/ B!Cancela
    BY <1>2, <1>3 DEF B!Publica, B!Fecha, B!Cancela, Iguais
  <1>4. CASE B!Apura
    <2>1. ASSUME NEW c \in Cotas PROVE Iguais(c)
      BY <1>0, <1>4 DEF B!Apura, TipoDaCota, Iguais
    <2>2. QED
      BY <1>2, <1>4, <2>1 DEF B!Apura
  <1>5. ASSUME NEW r \in Pedidos, B!Edita(r) PROVE B!BuyersKeepTheirTerms'
    <2>1. cota' = cota
      BY <1>5 DEF B!Edita
    <2>2. CASE B!Permite
      BY <2>1, <2>2 DEF B!Permite, B!Vivas, B!BuyersKeepTheirTerms
    <2>3. CASE ~B!Permite
      <3>1. bolao' = bolao
        BY <1>5, <2>3 DEF B!Edita, B!Grava
      <3>2. QED
        BY <1>1, <2>1, <3>1
    <2>4. QED
      BY <2>2, <2>3
  <1>6. ASSUME NEW r \in Pedidos, B!Libera(r) PROVE B!BuyersKeepTheirTerms'
    <2>1. cota' = cota /\ bolao' = [bolao EXCEPT !.liberado = TRUE]
      BY <1>6 DEF B!Libera, B!Grava
    <2>2. bolao'.valores = bolao.valores /\ bolao'.gatilho = bolao.gatilho /\ bolao'.liberado
      BY <1>0, <2>1 DEF TipoDoBolao
    <2>3. QED
      BY <2>1, <2>2, PoolTermsKept DEF Iguais
  <1>7. ASSUME NEW r \in Pedidos, B!Registra(r) \/ B!Comprovante(r) PROVE B!BuyersKeepTheirTerms'
    <2>1. ASSUME NEW c \in Cotas PROVE Iguais(c)
      <3>1. CASE cota' = cota
        BY <3>1 DEF Iguais
      <3>2. CASE cota' = B!Registradas
        BY <1>0, <3>2 DEF B!Registradas, TipoDaCota, Iguais
      <3>3. QED
        BY <1>7, <3>1, <3>2 DEF B!Registra, B!Comprovante
    <2>2. bolao' = bolao \/ bolao' = [bolao EXCEPT !.status = "registrado", !.link = @ \/ pedidoBolao[r].link]
      BY <1>7 DEF B!Registra, B!Comprovante, B!Grava
    <2>3. bolao'.valores = bolao.valores /\ bolao'.gatilho = bolao.gatilho /\ bolao'.liberado = bolao.liberado
      BY <1>0, <2>2 DEF TipoDoBolao
    <2>4. QED
      BY <2>1, <2>3, PoolTermsKept
  <1>8. ASSUME NEW c \in Cotas, NEW v \in {"site", "balcao"}, B!Contrata(c, v),
               bolao'.valores = bolao.valores, bolao'.gatilho = bolao.gatilho, bolao.liberado => bolao'.liberado,
               v = "site" /\ bolao.gatilho # 0 => bolao'.liberado
        PROVE  B!BuyersKeepTheirTerms'
    <2>1. cota' = [cota EXCEPT ![c] = [status |-> "reservada", valores |-> bolao.valores, via |-> v]]
      BY <1>8 DEF B!Contrata
    <2>2. \A d \in Cotas : d # c => cota'[d] = cota[d]
      BY <1>0, <2>1
    <2>3. cota'[c].valores = bolao.valores /\ cota'[c].via = v
      BY <1>0, <2>1
    <2>4. QED
      BY <1>8, <2>2, <2>3 DEF B!BuyersKeepTheirTerms, B!Vivas
  <1>9. ASSUME NEW c \in Cotas, B!Reserva(c) \/ B!VendaNoBalcao(c) PROVE B!BuyersKeepTheirTerms'
    <2>1. CASE B!Reserva(c)
      <3>1. /\ bolao'.valores = bolao.valores /\ bolao'.gatilho = bolao.gatilho
            /\ bolao.liberado \/ bolao.gatilho # 0 => bolao'.liberado
        BY <1>0, <2>1 DEF B!Reserva, B!Liberta, TipoDoBolao
      <3>2. QED
        BY <1>8, <2>1, <3>1 DEF B!Reserva
    <2>2. CASE B!VendaNoBalcao(c)
      BY <1>8, <2>2 DEF B!VendaNoBalcao
    <2>3. QED
      BY <1>9, <2>1, <2>2
  <1>10. ASSUME NEW c \in Cotas, B!Paga(c) \/ B!Desfaz(c) PROVE B!BuyersKeepTheirTerms'
    <2>1. bolao' = bolao
      BY <1>10 DEF B!Paga, B!Desfaz
    <2>2. \A d \in Cotas : d # c => cota'[d] = cota[d]
      BY <1>0, <1>10 DEF B!Paga, B!Desfaz
    <2>3. \/ Iguais(c)
          \/ cota'[c].status \in {"livre", "cancelada"}
          \/ cota'[c].via = "cancelada"
      BY <1>0, <1>10 DEF B!Paga, B!Desfaz, B!Livre, TipoDaCota, Iguais
    <2>4. QED
      BY <2>1, <2>2, <2>3 DEF B!BuyersKeepTheirTerms, B!Vivas, Iguais
  <1>11. QED
    BY <1>1, <1>3, <1>4, <1>5, <1>6, <1>7, <1>8, <1>9, <1>10
    DEF B!Next, B!vars, B!MudaPremio, B!Encerra, B!LeEdicao, B!Le, B!LeLiberacao, B!LeVigia, B!LeRegistro, B!LeComprovante, B!LeRemocao,
        B!LeProvas, B!Remove, B!Anexa

\* While a share lives nobody changes the prices, games or trigger of its pool, nor takes its release back
\* (update counts the shares again under the lock), for any shares, prizes and requests at the same time: every
\* share stands at the values of its pool but one that a late payment revived, and a pool where the site sold,
\* if conditional, is released.
THEOREM PoolKeepsTerms == ASSUME MaxPremio \in Nat, MaxEdicoes \in Nat PROVE B!Spec => []B!BuyersKeepTheirTerms
  <1>1. B!Init => B!BuyersKeepTheirTerms
    <2>1. B!Init => B!Vivas = {}
      BY DEF B!Init, B!Vivas, B!Livre
    <2>2. QED
      BY <2>1 DEF B!BuyersKeepTheirTerms
  <1>2. B!TypeOK /\ B!BuyersKeepTheirTerms /\ [B!Next]_B!vars => B!BuyersKeepTheirTerms'
    BY PoolNextTerms
  <1>3. QED
    BY <1>1, <1>2, PoolTypeCorrect, PTL DEF B!Spec

-----------------------------------------------------------------------------
(* Pools: the proof of a placed bet *)

\* A step that starts nothing on the proofs, takes no proof away and places no bet.
LEMMA ProofsUndisturbed ==
  ASSUME B!TypeOK, ProvaInv, cruzadosBolao' = cruzadosBolao,
         \A r \in Pedidos : pedidoBolao'[r] = pedidoBolao[r] \/ ~B!NoRegistro(pedidoBolao'[r]),
         B!Provas \subseteq B!Provas', bolao.link => bolao'.link, B!Apostado' => B!Apostado
  PROVE  ProvaInv'
  <1> SUFFICES ASSUME ~cruzadosBolao PROVE SozinhoInv' /\ EmVooInv' /\ (B!Apostado' => bolao'.link \/ B!Provas' # {})
    BY DEF ProvaInv
  <1>1. SozinhoInv'
    BY DEF ProvaInv, SozinhoInv
  <1>2. EmVooInv'
    <2> SUFFICES ASSUME NEW r \in Pedidos, B!NoRegistro(pedidoBolao'[r])
                 PROVE  /\ pedidoBolao'[r].op = "registra" => pedidoBolao'[r].link \/ B!Provas' # {}
                        /\ pedidoBolao'[r].op = "comprovante" => pedidoBolao'[r].link \/ bolao'.link \/ B!Provas' # {}
                        /\ pedidoBolao'[r].op = "remove" /\ B!Apostado' /\ ~bolao'.link => \E b \in B!Provas' : b # pedidoBolao'[r].anexo
      BY DEF EmVooInv, B!NoRegistro
    <2>1. pedidoBolao'[r] = pedidoBolao[r]
      OBVIOUS
    <2>2. QED
      BY <2>1 DEF ProvaInv, EmVooInv
  <1>3. B!Apostado' => bolao'.link \/ B!Provas' # {}
    BY DEF ProvaInv
  <1>4. QED
    BY <1>1, <1>2, <1>3

\* A request that reads the proofs: alone, as long as nothing has overlapped.
LEMMA ReadProofs ==
  ASSUME B!TypeOK, ProvaInv, NEW r \in Pedidos, NEW p \in TipoDoPedido, B!LeProvas(r, p),
         p.op = "registra" => p.link \/ B!Provas # {},
         p.op = "comprovante" => p.link \/ bolao.link \/ B!Provas # {},
         p.op = "remove" /\ B!Apostado /\ ~bolao.link => \E b \in B!Provas : b # p.anexo
  PROVE  ProvaInv'
  <1>1. pedidoBolao'[r] = p /\ \A q \in Pedidos \ {r} : pedidoBolao'[q] = pedidoBolao[q]
    BY PoolFollowType, PoolTypeParts DEF B!LeProvas, B!Comeca
  <1>2. bolao' = bolao /\ B!Provas' = B!Provas /\ B!Apostado' = B!Apostado
    BY DEF B!LeProvas, B!Provas, B!Apostado
  <1>3. ASSUME ~cruzadosBolao' PROVE \A q \in Pedidos : ~B!NoRegistro(pedidoBolao[q])
    BY <1>3 DEF B!LeProvas
  <1>4. ASSUME ~cruzadosBolao' PROVE SozinhoInv'
    BY <1>1, <1>3, <1>4 DEF SozinhoInv
  <1>5. ASSUME ~cruzadosBolao' PROVE EmVooInv'
    <2> SUFFICES ASSUME NEW q \in Pedidos
                 PROVE  /\ pedidoBolao'[q].op = "registra" => pedidoBolao'[q].link \/ B!Provas' # {}
                        /\ pedidoBolao'[q].op = "comprovante" => pedidoBolao'[q].link \/ bolao'.link \/ B!Provas' # {}
                        /\ pedidoBolao'[q].op = "remove" /\ B!Apostado' /\ ~bolao'.link => \E b \in B!Provas' : b # pedidoBolao'[q].anexo
      BY DEF EmVooInv
    <2>1. CASE q = r
      BY <1>1, <1>2, <2>1
    <2>2. CASE q # r
      BY <1>1, <1>3, <1>5, <2>2 DEF B!NoRegistro
    <2>3. QED
      BY <2>1, <2>2
  <1>6. ASSUME ~cruzadosBolao' PROVE B!Apostado' => bolao'.link \/ B!Provas' # {}
    BY <1>2, <1>6 DEF B!LeProvas, ProvaInv
  <1>7. QED
    BY <1>4, <1>5, <1>6 DEF ProvaInv

\* The write of a registration: the only request on the proofs, so what it read still holds.
LEMMA RegisterProofs ==
  ASSUME B!TypeOK, ProvaInv, NEW r \in Pedidos, B!Registra(r) \/ B!Comprovante(r)
  PROVE  ProvaInv'
  <1> DEFINE b == [bolao EXCEPT !.status = "registrado", !.link = @ \/ pedidoBolao[r].link]
  <1>1. bolao \in TipoDoBolao /\ pedidoBolao[r] \in TipoDoPedido /\ B!Ocioso \in TipoDoPedido
    BY PoolTypeParts DEF TipoDoPedido
  <1>2. pedidoBolao'[r] = B!Ocioso /\ \A q \in Pedidos \ {r} : pedidoBolao'[q] = pedidoBolao[q]
    BY <1>1, PoolFollowType, PoolTypeParts DEF B!Registra, B!Comprovante, B!Grava
  <1>3. B!Provas' = B!Provas /\ cruzadosBolao' = cruzadosBolao
    BY DEF B!Registra, B!Comprovante, B!Grava, B!Provas
  <1>4. ~B!NoRegistro(B!Ocioso) /\ pedidoBolao[r].op \in {"registra", "comprovante"} /\ B!NoRegistro(pedidoBolao[r])
    BY DEF B!NoRegistro, B!Ocioso, B!Registra, B!Comprovante
  <1>5. CASE bolao' = bolao
    BY <1>2, <1>3, <1>4, <1>5, ProofsUndisturbed DEF B!Apostado
  <1>6. CASE bolao' = b
    <2> SUFFICES ASSUME ~cruzadosBolao PROVE SozinhoInv' /\ EmVooInv' /\ (B!Apostado' => bolao'.link \/ B!Provas' # {})
      BY <1>3 DEF ProvaInv
    <2>1. \A q \in Pedidos : ~B!NoRegistro(pedidoBolao'[q])
      BY <1>2, <1>4 DEF ProvaInv, SozinhoInv
    <2>2. SozinhoInv' /\ EmVooInv'
      BY <2>1 DEF SozinhoInv, EmVooInv, B!NoRegistro
    <2>3. bolao'.link = (bolao.link \/ pedidoBolao[r].link)
      BY <1>1, <1>6 DEF TipoDoBolao
    <2>4. pedidoBolao[r].link \/ bolao.link \/ B!Provas # {}
      BY <1>4 DEF ProvaInv, EmVooInv
    <2>5. QED
      BY <1>3, <2>2, <2>3, <2>4
  <1>7. QED
    BY <1>5, <1>6 DEF B!Registra, B!Comprovante, B!Grava

\* The removal of a proof leaves the other one that it had read.
LEMMA RemoveProofs ==
  ASSUME B!TypeOK, ProvaInv, NEW r \in Pedidos, B!Remove(r)
  PROVE  ProvaInv'
  <1>1. B!Ocioso \in TipoDoPedido
    BY DEF TipoDoPedido
  <1>2. pedidoBolao'[r] = B!Ocioso /\ \A q \in Pedidos \ {r} : pedidoBolao'[q] = pedidoBolao[q]
    BY <1>1, PoolFollowType, PoolTypeParts DEF B!Remove
  <1>3. bolao' = bolao /\ B!Apostado' = B!Apostado /\ cruzadosBolao' = cruzadosBolao
    BY DEF B!Remove, B!Apostado
  <1>4. \A x \in B!Provas : x # pedidoBolao[r].anexo => x \in B!Provas'
    BY PoolTypeParts DEF B!Remove, B!Provas
  <1>5. ~B!NoRegistro(B!Ocioso) /\ B!NoRegistro(pedidoBolao[r]) /\ pedidoBolao[r].op = "remove"
    BY DEF B!NoRegistro, B!Ocioso, B!Remove
  <1> SUFFICES ASSUME ~cruzadosBolao PROVE SozinhoInv' /\ EmVooInv' /\ (B!Apostado' => bolao'.link \/ B!Provas' # {})
    BY <1>3 DEF ProvaInv
  <1>6. \A q \in Pedidos : ~B!NoRegistro(pedidoBolao'[q])
    BY <1>2, <1>5 DEF ProvaInv, SozinhoInv
  <1>7. SozinhoInv' /\ EmVooInv'
    BY <1>6 DEF SozinhoInv, EmVooInv, B!NoRegistro
  <1>8. B!Apostado /\ ~bolao.link => \E x \in B!Provas : x # pedidoBolao[r].anexo
    BY <1>5 DEF ProvaInv, EmVooInv
  <1>9. QED
    BY <1>3, <1>4, <1>7, <1>8

LEMMA PoolNextProofs == B!TypeOK /\ ProvaInv /\ [B!Next]_B!vars => ProvaInv'
  <1> SUFFICES ASSUME B!TypeOK, ProvaInv, [B!Next]_B!vars PROVE ProvaInv'
    OBVIOUS
  <1>0. bolao \in TipoDoBolao /\ pedidoBolao \in [Pedidos -> TipoDoPedido]
    BY PoolTypeParts
  <1>1. ASSUME bolao'.status = bolao.status, bolao'.link = bolao.link, UNCHANGED <<anexo, pedidoBolao, cruzadosBolao>>
        PROVE  ProvaInv'
    BY <1>1, ProofsUndisturbed DEF B!Provas, B!Apostado
  <1>2. ASSUME NEW s, B!Estado(s), s \in {"registrado", "apurado"} => B!Apostado PROVE ProvaInv'
    <2>1. bolao'.status = s /\ bolao'.link = bolao.link
      BY <1>0, <1>2 DEF B!Estado, TipoDoBolao
    <2>2. QED
      BY <1>2, <2>1, ProofsUndisturbed DEF B!Estado, B!Provas, B!Apostado
  <1>3. CASE B!Publica \/ B!Fecha \/ B!Cancela \/ B!Apura
    BY <1>2, <1>3 DEF B!Publica, B!Fecha, B!Cancela, B!Apura, B!Apostado
  <1>4. ASSUME NEW r \in Pedidos, NEW p \in TipoDoPedido, B!Le(r, p), ~B!NoRegistro(p) PROVE ProvaInv'
    <2>1. \A q \in Pedidos : pedidoBolao'[q] = pedidoBolao[q] \/ ~B!NoRegistro(pedidoBolao'[q])
      BY <1>0, <1>4, PoolFollowType DEF B!Le, B!Comeca
    <2>2. QED
      BY <1>4, <2>1, ProofsUndisturbed DEF B!Le, B!Provas, B!Apostado
  <1>5. ASSUME NEW r \in Pedidos, B!LeEdicao(r) \/ B!LeLiberacao(r) \/ B!LeVigia(r) PROVE ProvaInv'
    <2>1. /\ [op |-> "edita"] \in TipoDoPedido /\ ~B!NoRegistro([op |-> "edita"])
          /\ [op |-> "libera"] \in TipoDoPedido /\ ~B!NoRegistro([op |-> "libera"])
      BY DEF TipoDoPedido, B!NoRegistro
    <2>2. QED
      BY <1>4, <1>5, <2>1 DEF B!LeEdicao, B!LeLiberacao, B!LeVigia
  <1>6. ASSUME NEW r \in Pedidos, B!Edita(r) \/ B!Libera(r) PROVE ProvaInv'
    <2>1. bolao'.status = bolao.status /\ bolao'.link = bolao.link
      <3>1. /\ B!Reajustado.status = bolao.status /\ B!Reajustado.link = bolao.link
            /\ \A g \in 0..MaxPremio : B!ComGatilho(g).status = bolao.status /\ B!ComGatilho(g).link = bolao.link
        BY <1>0 DEF B!Reajustado, B!ComGatilho, TipoDoBolao
      <3>2. QED
        BY <1>0, <1>6, <3>1 DEF B!Edita, B!Libera, B!Grava, TipoDoBolao
    <2>2. B!Segue(r, B!Ocioso) /\ anexo' = anexo /\ cruzadosBolao' = cruzadosBolao
      BY <1>6 DEF B!Edita, B!Libera, B!Grava
    <2>3. B!Ocioso \in TipoDoPedido /\ ~B!NoRegistro(B!Ocioso)
      BY DEF TipoDoPedido, B!NoRegistro, B!Ocioso
    <2>4. \A q \in Pedidos : pedidoBolao'[q] = pedidoBolao[q] \/ ~B!NoRegistro(pedidoBolao'[q])
      BY <1>0, <2>2, <2>3, PoolFollowType
    <2>5. QED
      BY <2>1, <2>2, <2>4, ProofsUndisturbed DEF B!Provas, B!Apostado
  <1>7. ASSUME NEW r \in Pedidos, NEW b \in BOOLEAN, B!LeRegistro(r, b) PROVE ProvaInv'
    <2> DEFINE p == [op |-> "registra", link |-> b]
    <2>1. p \in TipoDoPedido /\ p.op = "registra" /\ p.link = b
      BY DEF TipoDoPedido
    <2>2. B!LeProvas(r, p) /\ (b \/ B!Provas # {})
      BY <1>7 DEF B!LeRegistro
    <2>3. QED
      BY <2>1, <2>2, ReadProofs
  <1>8. ASSUME NEW r \in Pedidos, NEW b \in BOOLEAN, B!LeComprovante(r, b) PROVE ProvaInv'
    <2> DEFINE p == [op |-> "comprovante", link |-> b]
    <2>1. p \in TipoDoPedido /\ p.op = "comprovante" /\ p.link = b
      BY DEF TipoDoPedido
    <2>2. B!LeProvas(r, p) /\ (b \/ bolao.link \/ B!Provas # {})
      BY <1>8 DEF B!LeComprovante
    <2>3. QED
      BY <2>1, <2>2, ReadProofs
  <1>9. ASSUME NEW r \in Pedidos, NEW a \in Anexos, B!LeRemocao(r, a) PROVE ProvaInv'
    <2> DEFINE p == [op |-> "remove", anexo |-> a]
    <2>1. p \in TipoDoPedido /\ p.op = "remove" /\ p.anexo = a
      BY DEF TipoDoPedido
    <2>2. B!LeProvas(r, p) /\ a \in B!Provas /\ (B!Apostado /\ ~bolao.link => B!Provas # {a})
      BY <1>9 DEF B!LeRemocao, B!Dispensavel
    <2>3. B!Apostado /\ ~bolao.link => \E x \in B!Provas : x # a
      BY <2>2
    <2>4. QED
      BY <2>1, <2>2, <2>3, ReadProofs
  <1>10. ASSUME NEW r \in Pedidos, B!Registra(r) \/ B!Comprovante(r) PROVE ProvaInv'
    BY <1>10, RegisterProofs
  <1>11. ASSUME NEW r \in Pedidos, B!Remove(r) PROVE ProvaInv'
    BY <1>11, RemoveProofs
  <1>12. ASSUME NEW c \in Cotas, B!Reserva(c) \/ B!VendaNoBalcao(c) PROVE ProvaInv'
    <2>1. bolao'.status = bolao.status /\ bolao'.link = bolao.link
      BY <1>0, <1>12 DEF B!Reserva, B!VendaNoBalcao, B!Liberta, TipoDoBolao
    <2>2. QED
      BY <1>1, <1>12, <2>1 DEF B!Reserva, B!VendaNoBalcao, B!Contrata
  <1>13. ASSUME NEW a \in Anexos, B!Anexa(a) PROVE ProvaInv'
    <2>1. B!Provas \subseteq B!Provas'
      BY <1>13, PoolTypeParts DEF B!Anexa, B!Provas
    <2>2. QED
      BY <1>13, <2>1, ProofsUndisturbed DEF B!Anexa, B!Apostado
  <1>14. QED
    BY <1>1, <1>3, <1>5, <1>6, <1>7, <1>8, <1>9, <1>10, <1>11, <1>12, <1>13
    DEF B!Next, B!vars, B!MudaPremio, B!Encerra, B!Paga, B!Desfaz

\* What the requests in flight rely on holds until they write, unless two of them have overlapped.
THEOREM PoolProvaInv == ASSUME MaxPremio \in Nat, MaxEdicoes \in Nat PROVE B!Spec => []ProvaInv
  <1>1. B!Init => ProvaInv
    <2> SUFFICES ASSUME B!Init PROVE SozinhoInv /\ EmVooInv /\ ~B!Apostado
      BY DEF ProvaInv
    <2>1. \A r \in Pedidos : pedidoBolao[r].op = "nenhuma"
      BY DEF B!Init, B!Ocioso
    <2>2. SozinhoInv /\ EmVooInv
      BY <2>1 DEF SozinhoInv, EmVooInv, B!NoRegistro
    <2>3. bolao.status = "rascunho"
      BY DEF B!Init
    <2>4. QED
      BY <2>2, <2>3 DEF B!Apostado
  <1>2. B!TypeOK /\ ProvaInv /\ [B!Next]_B!vars => ProvaInv'
    BY PoolNextProofs
  <1>3. QED
    BY <1>1, <1>2, PoolTypeCorrect, PTL DEF B!Spec

\* A placed bet keeps a proof in the file, or its link, unless two requests that depend on the proofs have
\* overlapped (attachments.remove, operation.register), for any proofs and requests.
THEOREM PoolKeepsProofs == ASSUME MaxPremio \in Nat, MaxEdicoes \in Nat PROVE B!Spec => []B!ProofIsKept
  <1>1. ProvaInv => B!ProofIsKept
    BY DEF ProvaInv, B!ProofIsKept
  <1>2. QED
    BY <1>1, PoolProvaInv, PTL

LEMMA CicloBolaoMoves == Spec => B!Spec
  <1>1. Init => B!Init
    BY DEF Init
  <1>2. [Next]_vars => [B!Next]_B!vars
    <2>1. UNCHANGED vars => UNCHANGED B!vars
      BY DEF vars, bolaoVars, B!vars
    <2>2. Next => B!Next \/ UNCHANGED B!vars
      BY DEF Next, Parados, RepassesAnda, JogoAnda, FiscalAnda, ContasAnda, RedeAnda, BolaoAnda, CalculosAnda, EstatisticasAnda,
      ProvedoresAnda, PushAnda, AssistenteAnda, FontesAnda, ArquivosAnda, PaineisAnda, AcessoAnda, BancoAnda, bolaoVars, B!vars
    <2>3. QED
      BY <2>1, <2>2
  <1>3. QED
    BY <1>1, <1>2, PTL DEF Spec, B!Spec

-----------------------------------------------------------------------------
(* The services with proofs of their own *)

JP == INSTANCE JogoResponsavel_proofs WITH conta <- pessoa, pedido <- pedidoJogo
CP == INSTANCE Contas_proofs WITH pedido <- pedidoConta

LEMMA JogoResponsavelAgree ==
  /\ J!Init <=> JP!Init
  /\ J!Next <=> JP!Next
  <1>1. J!Init <=> JP!Init
    BY DEF J!Nunca, JP!Nunca, J!Ocioso, JP!Ocioso, J!Init, JP!Init
  <1>2. J!Next <=> JP!Next
    BY DEF J!Nunca, JP!Nunca, J!Ocioso, JP!Ocioso, J!Pausada, JP!Pausada, J!Carregado, JP!Carregado, J!Pede, JP!Pede,
      J!Recarrega, JP!Recarrega, J!Escreve, JP!Escreve, J!SemPendencia, JP!SemPendencia, J!Devida, JP!Devida,
      J!Pronto, JP!Pronto, J!Ultrapassa, JP!Ultrapassa, J!Consolidado, JP!Consolidado, J!Consolida,
      JP!Consolida, J!Encerra, JP!Encerra, J!Ate, JP!Ate, J!Pausa, JP!Pausa, J!Gravado, JP!Gravado,
      J!DefineLimite, JP!DefineLimite, J!Cabe, JP!Cabe, J!Aprova, JP!Aprova, J!Reserva, JP!Reserva, J!Libera,
      JP!Libera, J!Passa, JP!Passa, J!Next, JP!Next
  <1>3. QED
    BY <1>1, <1>2

LEMMA JogoResponsavelMoves == Spec => JP!Spec
  <1>1. Init => JP!Init
    BY JogoResponsavelAgree DEF Init
  <1>2. [Next]_vars => [JP!Next]_JP!vars
    <2>1. UNCHANGED vars => UNCHANGED JP!vars
      BY DEF vars, jogoVars, JP!vars
    <2>2. Next => JP!Next \/ UNCHANGED JP!vars
      BY JogoResponsavelAgree DEF Next, Parados, RepassesAnda, JogoAnda, FiscalAnda, ContasAnda, RedeAnda, BolaoAnda, CalculosAnda, EstatisticasAnda,
      ProvedoresAnda, PushAnda, AssistenteAnda, FontesAnda, ArquivosAnda, PaineisAnda, AcessoAnda, BancoAnda, jogoVars, JP!vars
    <2>3. QED
      BY <2>1, <2>2
  <1>3. QED
    BY <1>1, <1>2, PTL DEF Spec, JP!Spec

LEMMA ContasAgree ==
  /\ C!Init <=> CP!Init
  /\ C!Next <=> CP!Next
  <1>1. C!Init <=> CP!Init
    BY DEF C!Links, CP!Links, C!Ocioso, CP!Ocioso, C!Nenhuma, CP!Nenhuma, C!Init, CP!Init
  <1>2. C!Next <=> CP!Next
    BY DEF C!Links, CP!Links, C!Ocioso, CP!Ocioso, C!Segue, CP!Segue, C!Comeca, CP!Comeca, C!VersaoLida, CP!VersaoLida,
      C!EntraCom, CP!EntraCom, C!Erra, CP!Erra, C!Zera, CP!Zera, C!Entra, CP!Entra, C!Atingiu, CP!Atingiu,
      C!ContaErro, CP!ContaErro, C!Bloqueia, CP!Bloqueia, C!VenceBloqueio, CP!VenceBloqueio, C!LinksGastos,
      CP!LinksGastos, C!GravaSenha, CP!GravaSenha, C!PedeLink, CP!PedeLink, C!GastaLinks, CP!GastaLinks,
      C!Novo, CP!Novo, C!CriaLink, CP!CriaLink, C!LinkDoAdmin, CP!LinkDoAdmin, C!VenceLink, CP!VenceLink,
      C!LeLink, CP!LeLink, C!Tomavel, CP!Tomavel, C!Redefine, CP!Redefine, C!LeTroca, CP!LeTroca, C!Troca,
      CP!Troca, C!Reemite, CP!Reemite, C!Recupera, CP!Recupera, C!Revoga, CP!Revoga, C!Ativa, CP!Ativa,
      C!Next, CP!Next
  <1>3. QED
    BY <1>1, <1>2

LEMMA ContasMoves == Spec => CP!Spec
  <1>1. Init => CP!Init
    BY ContasAgree DEF Init
  <1>2. [Next]_vars => [CP!Next]_CP!vars
    <2>1. UNCHANGED vars => UNCHANGED CP!vars
      BY DEF vars, contasVars, CP!vars
    <2>2. Next => CP!Next \/ UNCHANGED CP!vars
      BY ContasAgree DEF Next, Parados, RepassesAnda, JogoAnda, FiscalAnda, ContasAnda, RedeAnda, BolaoAnda, CalculosAnda, EstatisticasAnda,
      ProvedoresAnda, PushAnda, AssistenteAnda, FontesAnda, ArquivosAnda, PaineisAnda, AcessoAnda, BancoAnda, contasVars, CP!vars
    <2>3. QED
      BY <2>1, <2>2
  <1>3. QED
    BY <1>1, <1>2, PTL DEF Spec, CP!Spec

-----------------------------------------------------------------------------
(* The services of Retaguarda *)

LEMMA RepassesMoves ==
  ASSUME [Next]_vars
  PROVE  R!Next \/ UNCHANGED repassesVars
  BY DEF Next, Parados, vars, RepassesAnda, JogoAnda, FiscalAnda, ContasAnda, RedeAnda, BolaoAnda, CalculosAnda, EstatisticasAnda,
    ProvedoresAnda, PushAnda, AssistenteAnda, FontesAnda, ArquivosAnda, PaineisAnda, AcessoAnda, BancoAnda

\* Payouts: whatever requests cross, a paid commission stays paid in its batch, a batch pays only what its total counts,
\* and while no two creations overlap a commission is in one total at most (createRemittance, payRemittance).
THEOREM PayoutsCorrect == Spec => PayoutsAddUp
  <1>1. Init => PayoutsInv
    BY PayoutsInit DEF Init
  <1>2. [Next]_vars => [R!Next]_R!vars
    BY RepassesMoves DEF repassesVars, R!vars
  <1>3. PayoutsInv /\ [Next]_vars => PayoutsInv'
    BY <1>2, PayoutsNext
  <1>4. PayoutsInv /\ PayoutsInv' /\ [Next]_vars => [R!PaidCommissionIsFinal /\ R!OneBatchPerCommission']_R!vars
    <2> SUFFICES ASSUME PayoutsInv, PayoutsInv', [R!Next]_R!vars PROVE R!PaidCommissionIsFinal /\ R!OneBatchPerCommission'
      BY <1>2
    <2>1. R!PaidCommissionIsFinal
      BY PaidStays DEF PayoutsInv
    <2>2. R!OneBatchPerCommission'
      BY DEF PayoutsInv, SomaInv, ListaInv, R!OneBatchPerCommission
    <2>3. QED
      BY <2>1, <2>2
  <1>5. QED
    BY <1>1, <1>3, <1>4, PTL DEF Spec, PayoutsAddUp, R!PayoutsAddUp

LEMMA AcessoMoves ==
  ASSUME [Next]_vars
  PROVE  X!Next \/ UNCHANGED acessoVars
  BY DEF Next, Parados, vars, RepassesAnda, JogoAnda, FiscalAnda, ContasAnda, RedeAnda, BolaoAnda, CalculosAnda, EstatisticasAnda,
    ProvedoresAnda, PushAnda, AssistenteAnda, FontesAnda, ArquivosAnda, PaineisAnda, AcessoAnda, BancoAnda

\* The hierarchy: whatever was in flight, only the main account makes an administrator; one stops being an administrator by
\* it, by approveAffiliate, or by a request that had read a lower role; and the main account stays (updateUserRole).
THEOREM HierarchyKept == Spec => X!HierarchyHolds
  <1>1. Init => ChefeInv
    BY InitChefeInv DEF Init
  <1>2. ASSUME ChefeInv, [Next]_vars PROVE ChefeInv' /\ Hierarquia
    BY <1>2, AcessoMoves, HierarchyStep, MesmaHierarquia DEF acessoVars
  <1>3. ChefeInv /\ [Next]_vars => ChefeInv'
    BY <1>2
  <1>4. ChefeInv /\ [Next]_vars =>
          [/\ \A p \in Pessoas :
                /\ cadastro[p].papel # "admin" /\ cadastro'[p].papel = "admin" =>
                     \E t \in troca \ troca' : t.ator = Chefe /\ t.alvo = p
                /\ cadastro[p].papel = "admin" /\ cadastro'[p].papel # "admin" =>
                     p \in aprovado' \/ \E t \in troca \ troca' : t.alvo = p /\ (t.ator = Chefe \/ t.visto < X!Rank.admin)
           /\ X!AdminAgora(Chefe)']_X!acessoVars
    <2>1. X!Rank.admin = 3
      BY DEF X!Rank
    <2>2. QED
      BY <1>2, <2>1 DEF Hierarquia, Feito, Desfeito, ChefeInv
  <1>5. QED
    BY <1>1, <1>3, <1>4, PTL DEF Spec, X!HierarchyHolds

LEMMA AccessSound == Spec => []X!AccessIsSound
  <1>1. Init => ChefeInv /\ EntradaInv
    BY InitChefeInv, InitEntrada DEF Init
  <1>2. ASSUME ChefeInv /\ EntradaInv, [Next]_vars PROVE (ChefeInv /\ EntradaInv)'
    <2>1. ChefeInv'
      BY <1>2, AcessoMoves, HierarchyStep, MesmaHierarquia DEF acessoVars
    <2>2. QED
      BY <1>2, <2>1, AcessoMoves, EntradaStep, EntradaStutter
  <1>3. ChefeInv /\ EntradaInv => X!AccessIsSound
    <2>1. ChefeInv /\ EntradaInv => cadastro[eu] \in Cadastro
      BY DEF ChefeInv, EntradaInv
    <2>2. QED
      BY <2>1, AccessHolds
  <1>4. QED
    BY <1>1, <1>2, <1>3, PTL DEF Spec

LEMMA ArquivosMoves ==
  ASSUME [Next]_vars
  PROVE  Q!Next \/ UNCHANGED arquivosVars
  BY DEF Next, Parados, vars, RepassesAnda, JogoAnda, FiscalAnda, ContasAnda, RedeAnda, BolaoAnda, CalculosAnda, EstatisticasAnda,
    ProvedoresAnda, PushAnda, AssistenteAnda, FontesAnda, ArquivosAnda, PaineisAnda, AcessoAnda, BancoAnda

LEMMA FilesKept == Spec => []Q!FilesAreKept
  <1>1. Init => FilesInv
    BY InitFiles DEF Init
  <1>2. FilesInv /\ [Next]_vars => FilesInv'
    BY ArquivosMoves, FilesStep, FilesStutter
  <1>3. FilesInv => Q!FilesAreKept
    BY FilesInvIsEnough
  <1>4. QED
    BY <1>1, <1>2, <1>3, PTL DEF Spec

LEMMA RedeMoves ==
  ASSUME [Next]_vars
  PROVE  D!Next \/ UNCHANGED redeVars
  BY DEF Next, Parados, vars, RepassesAnda, JogoAnda, FiscalAnda, ContasAnda, RedeAnda, BolaoAnda, CalculosAnda, EstatisticasAnda,
    ProvedoresAnda, PushAnda, AssistenteAnda, FontesAnda, ArquivosAnda, PaineisAnda, AcessoAnda, BancoAnda

\* The network: unless two requests that move affiliates overlapped it has no cycle, so the walk up of
\* updateAffiliateNetwork ends; the role, the approval and the group of an account agree by whatever way they changed; and
\* an invite makes one account at most, and none after it was revoked first (register looks at it again when it writes).
THEOREM NetworkKept == Spec => []NetworkIsSound
  <1>1. Init => RedeInv
    BY InitRede DEF Init
  <1>2. RedeInv /\ [Next]_vars => RedeInv'
    BY RedeMoves, RedeStep, RedeStutter DEF redeVars
  <1>3. RedeInv => NetworkIsSound
    BY RedeInvIsEnough DEF NetworkIsSound
  <1>4. QED
    BY <1>1, <1>2, <1>3, PTL DEF Spec

LEMMA NotaMoves ==
  ASSUME [Next]_vars
  PROVE  F!Next \/ UNCHANGED fiscalVars
  BY DEF Next, Parados, vars, RepassesAnda, JogoAnda, FiscalAnda, ContasAnda, RedeAnda, BolaoAnda, CalculosAnda, EstatisticasAnda,
    ProvedoresAnda, PushAnda, AssistenteAnda, FontesAnda, ArquivosAnda, PaineisAnda, AcessoAnda, BancoAnda

\* Invoices: lost answers, refusals of what the issuer has, late queries and an operator who emits together with the job
\* leave one live invoice of a sale at most, until someone cancels it, registers one by hand, or emits at Cora again after
\* an error (emit, refresh and cancel, which keep the reference of the last attempt until its fate is known).
THEOREM OneInvoicePerSale == Spec => []OneInvoice
  <1>1. MaxRefs \in Nat \ {0}
    BY TentativasAssumption
  <1>2. Init => NotaInv
    BY <1>1, NotaInitTypeOK, InitRefUnica DEF NotaInv, Init
  <1>3. NotaInv /\ [Next]_vars => NotaInv'
    BY <1>1, NotaMoves, NotaNextTypeOK, NextRefUnica DEF NotaInv
  <1>4. NotaInv => OneInvoice
    BY UmaVivaNoMaximo DEF OneInvoice
  <1>5. QED
    BY <1>2, <1>3, <1>4, PTL DEF Spec

LEMMA ProvedoresMoves ==
  ASSUME [Next]_vars
  PROVE  V!Next \/ UNCHANGED provedoresVars
  BY DEF Next, Parados, vars, RepassesAnda, JogoAnda, FiscalAnda, ContasAnda, RedeAnda, BolaoAnda, CalculosAnda, EstatisticasAnda,
    ProvedoresAnda, PushAnda, AssistenteAnda, FontesAnda, ArquivosAnda, PaineisAnda, AcessoAnda, BancoAnda

\* Payments at the providers: however creations are tried again, answers are lost and events come late or twice, the
\* customer has one charge; one the site gave up at Cora cannot be paid; approved money is found, and no row says more
\* than the provider knows (payment.provider.ts).
THEOREM ChargesCorrect == Spec => []ChargesAreSound
  <1>1. Init => ChargesInv
    BY ChargesInit DEF Init
  <1>2. ChargesInv /\ [Next]_vars => ChargesInv'
    BY ProvedoresMoves, ChargesNext DEF provedoresVars, V!vars, V!localVars
  <1>3. ChargesInv => ChargesAreSound
    BY ChargesInvIsEnough DEF ChargesAreSound
  <1>4. QED
    BY <1>1, <1>2, <1>3, PTL DEF Spec

LEMMA PushMoves ==
  ASSUME [Next]_vars
  PROVE  U!Next \/ UNCHANGED pushVars
  BY DEF Next, Parados, vars, RepassesAnda, JogoAnda, FiscalAnda, ContasAnda, RedeAnda, BolaoAnda, CalculosAnda, EstatisticasAnda,
    ProvedoresAnda, PushAnda, AssistenteAnda, FontesAnda, ArquivosAnda, PaineisAnda, AcessoAnda, BancoAnda

LEMMA DevicesInformed == Spec => []U!PushReaches
  <1>1. Init => PushInv
    BY PushInvHolds DEF Init
  <1>2. PushInv /\ [Next]_vars => PushInv'
    BY PushMoves, PushInvKept DEF pushVars, U!vars, U!chavesVars, U!aparelhoVars
  <1>3. QED
    BY <1>1, <1>2, PushInvIsEnough, PTL DEF Spec

LEMMA PaineisMoves ==
  ASSUME [Next]_vars
  PROVE  T!Next \/ UNCHANGED paineisVars
  BY DEF Next, Parados, vars, RepassesAnda, JogoAnda, FiscalAnda, ContasAnda, RedeAnda, BolaoAnda, CalculosAnda, EstatisticasAnda,
    ProvedoresAnda, PushAnda, AssistenteAnda, FontesAnda, ArquivosAnda, PaineisAnda, AcessoAnda, BancoAnda

LEMMA ScreensInformed == Spec => []T!ScreensAreCurrent
  <1>1. Init => ScreensInv
    BY InitScreens DEF Init
  <1>2. ScreensInv /\ [Next]_vars => ScreensInv'
    BY PaineisMoves, ScreensNext, ScreensStutter DEF paineisVars, T!vars, T!cargaVars, T!escritaVars
  <1>3. QED
    BY <1>1, <1>2, ScreensInvIsEnough, PTL DEF Spec

\* What people see: a device that is on uses the key every instance sends with, and is forgotten only when it was refused
\* as often as it takes (push.service.ts); and a screen at rest shows what was asked of it, as new as what was written
\* there, however answers, timers and forms cross (load() of the screens of the site).
THEOREM PeopleInformed == Spec => []PeopleAreInformed
  <1>1. U!PushReaches /\ T!ScreensAreCurrent => PeopleAreInformed
    BY DEF PeopleAreInformed
  <1>2. QED
    BY <1>1, DevicesInformed, ScreensInformed, PTL

-----------------------------------------------------------------------------
(* What holds of the composition *)

\* Pools: with any number of edits and releases in flight, a share that lives has the prices its buyer saw unless a late
\* payment revived it, and the conditional pool of a share sold by the site was released (update counts the shares again
\* under the lock).
THEOREM TermsAreKept == Spec => []BuyersKeepTheirTerms
  <1>1. MaxPremio \in Nat /\ MaxEdicoes \in Nat
    BY BoundsAssumption
  <1>2. B!Spec => []B!BuyersKeepTheirTerms
    BY <1>1, PoolKeepsTerms
  <1>3. B!BuyersKeepTheirTerms => BuyersKeepTheirTerms
    BY DEF BuyersKeepTheirTerms
  <1>4. QED
    BY <1>2, <1>3, CicloBolaoMoves, PTL

\* Responsible play, from its own theorems.
LEMMA RulesOfPlay == Spec => J!LoosensLate /\ J!BuysWithinTheRules
  <1>1. JP!Parametros
    BY LimitesAssumption, BoundsAssumption DEF JP!Parametros
  <1>2. JP!Spec => JP!LoosensLate
    BY <1>1, JP!LimitsLoosenLate
  <1>3. JP!Spec => JP!BuysWithinTheRules
    BY <1>1, JP!BuysAreWithinTheRules
  <1>4. JP!LoosensLate => J!LoosensLate
    BY DEF J!Vigente, JP!Vigente, J!LoosensLate, JP!LoosensLate, J!vars, JP!vars
  <1>5. JP!BuysWithinTheRules => J!BuysWithinTheRules
    BY DEF J!Vigente, JP!Vigente, J!Pausada, JP!Pausada, J!BuysWithinTheRules, JP!BuysWithinTheRules, J!vars, JP!vars
  <1>6. QED
    BY <1>2, <1>3, <1>4, <1>5, JogoResponsavelMoves, PTL

\* Proofs: unless two requests that count the proofs overlapped, a placed bet keeps one or its link; whoever pays gets, or
\* has on the way, every file of theirs that is on disk; nobody is mailed the receipt of another's share; a row has its
\* file; and the same file is not filed twice, unless two uploads crossed.
THEOREM ProofsAreKept == Spec => []ProofIsKept
  <1>1. MaxPremio \in Nat /\ MaxEdicoes \in Nat
    BY BoundsAssumption
  <1>2. B!Spec => []B!ProofIsKept
    BY <1>1, PoolKeepsProofs
  <1>3. B!ProofIsKept /\ Q!FilesAreKept => ProofIsKept
    BY DEF ProofIsKept
  <1>4. QED
    BY <1>2, <1>3, FilesKept, CicloBolaoMoves, PTL

\* Rules nobody bends: no limit is loosened before its term, nobody buys while paused or above a limit, and only the main
\* account makes an administrator; with any number of requests of any of the three in flight.
THEOREM NobodyBendsTheRules == Spec => PlaysByTheRules
  <1>1. PlaysByTheRules <=> (J!LoosensLate /\ J!BuysWithinTheRules /\ X!HierarchyHolds)
    BY DEF PlaysByTheRules
  <1>2. QED
    BY <1>1, RulesOfPlay, HierarchyKept, PTL

\* The half of AccountsAreSafe that is about passwords, sessions and guesses.
LEMMA AccountsHold == Spec => [](C!OldSessionsDie /\ C!GuessesAreBounded)
  <1>1. MaxErros \in Nat \ {0} /\ CP!IsFiniteSet(Pedidos)
    BY TentativasAssumption, BoundsAssumption DEF IsFiniteSet, CP!IsFiniteSet
  <1>2. CP!Spec => []CP!GuessesAreBounded
    BY <1>1, CP!GuessesBounded
  <1>3. CP!GuessesAreBounded => C!GuessesAreBounded
    BY DEF C!Cardinality, CP!Cardinality, C!GuessesAreBounded, CP!GuessesAreBounded
  <1>4. CP!OldSessionsDie => C!OldSessionsDie
    BY DEF C!Aceita, CP!Aceita, C!OldSessionsDie, CP!OldSessionsDie
  <1>5. CP!Spec => []CP!OldSessionsDie
    BY CP!SessionsDie
  <1>6. QED
    BY <1>2, <1>3, <1>4, <1>5, ContasMoves, PTL

\* Accounts: a session is worth the password it was opened with and wrong guesses are counted (auth.service.ts); a tab
\* offers only what the API admits its person to, a sign-in lands where the gate lets its person in, every entry of the
\* menu opens, and who lost a role has lost the session, but for approveAffiliate (staff-gate, roles.ts, the guards).
THEOREM AccountsSafe == Spec => []AccountsAreSafe
  <1>1. C!OldSessionsDie /\ C!GuessesAreBounded /\ X!AccessIsSound => AccountsAreSafe
    BY DEF AccountsAreSafe
  <1>2. QED
    BY <1>1, AccountsHold, AccessSound, PTL

-----------------------------------------------------------------------------
(* Money *)

\* Money: the parts of a prize add up to it, a bet is paid for, the form and the server make the same sums, the table
\* of prices counts simple bets, a ticket is the pool's, and a new pool sells for what its author saw.
THEOREM MoneyIsCorrect == Spec => []MoneyAddsUp
  <1>1. K!PartesSomam /\ (K!PremioDoSorteio /\ K!PrecoFecha /\ K!PlanoConfere) /\ (K!TabelaConta /\ K!BilheteConfere)
        /\ A!DraftsAreAsShown => MoneyAddsUp
    BY DEF MoneyAddsUp, K!MoneyAddsUp
  <1>2. QED
    BY <1>1, PrizesAreDivided, PricesAndPrizesAgree, TicketsAndTables, DraftsKept, PTL

-----------------------------------------------------------------------------
(* Statistics, sources and uses of the bank *)

\* Statistics: the history, the analysis of a game, the odds, the games suggested and promised, the rules and the
\* import agree with the draws they come from; the sources are asked as they should be, and the uses of the bank counted.
THEOREM StatisticsHold == Spec => []StatisticsAgree
  <1>1. (E!HistoricoBate /\ E!AnaliseBate) /\ (E!ChancesExatas /\ E!GeradosServem)
        /\ (E!SugestaoSemAvisos /\ E!RegrasServem /\ E!ImportacaoConta) /\ O!SourcesAreAsked /\ G!UsesAreCounted
        => StatisticsAgree
    BY DEF StatisticsAgree, E!StatisticsAgree
  <1>2. QED
    BY <1>1, HistoryAndAnalysis, OddsAndPromises, SuggestionsAndImports, SourcesKept, UsesKept, PTL

-----------------------------------------------------------------------------
(* Types *)

LEMMA AccessTyped == Spec => []X!TypeOK
  <1>1. Init => ChefeInv /\ EntradaInv /\ AcessoLimites
    BY InitChefeInv, InitEntrada, InitAcessoLimites DEF Init
  <1>2. ASSUME ChefeInv /\ EntradaInv /\ AcessoLimites, [Next]_vars PROVE (ChefeInv /\ EntradaInv /\ AcessoLimites)'
    <2>1. ChefeInv'
      BY <1>2, AcessoMoves, HierarchyStep, MesmaHierarquia DEF acessoVars
    <2>2. EntradaInv'
      BY <1>2, <2>1, AcessoMoves, EntradaStep, EntradaStutter
    <2>3. AcessoLimites'
      BY <1>2, AcessoMoves, AcessoLimitesStep, AcessoLimitesStutter DEF EntradaInv
    <2>4. QED
      BY <2>1, <2>2, <2>3
  <1>3. QED
    BY <1>1, <1>2, AcessoTypeHolds, PTL DEF Spec

LEMMA FilesTyped == Spec => []Q!TypeOK
  <1>1. Init => FilesInv /\ ArquivosLimites
    BY InitFiles, InitArquivosLimites DEF Init
  <1>2. FilesInv /\ ArquivosLimites /\ [Next]_vars => (FilesInv /\ ArquivosLimites)'
    BY ArquivosMoves, FilesStep, FilesStutter, LimitesDosArquivosStep, ArquivosLimitesStutter
  <1>3. QED
    BY <1>1, <1>2, FilesTypeHolds, PTL DEF Spec

LEMMA NetworkTyped == Spec => []D!TypeOK
  <1>1. Init => RedeInv /\ atos \in 0..MaxAtos
    BY InitRede, InitAtos DEF Init
  <1>2. RedeInv /\ atos \in 0..MaxAtos /\ [Next]_vars => (RedeInv /\ atos \in 0..MaxAtos)'
    BY RedeMoves, RedeStep, RedeStutter, AtosStep DEF redeVars
  <1>3. QED
    BY <1>1, <1>2, RedeTypeHolds, PTL DEF Spec

LEMMA ChargesTyped == Spec => []V!TypeOK
  <1>1. Init => ChargesInv /\ CobrancaLimites
    BY ChargesInit, InitCobrancaLimites DEF Init
  <1>2. ChargesInv /\ CobrancaLimites /\ [Next]_vars => (ChargesInv /\ CobrancaLimites)'
    <2> SUFFICES ASSUME ChargesInv, CobrancaLimites, [Next]_vars PROVE ChargesInv' /\ CobrancaLimites'
      OBVIOUS
    <2>1. ChargesInv'
      BY ProvedoresMoves, ChargesNext DEF provedoresVars, V!vars, V!localVars
    <2>2. CobrancaLimites'
      BY ProvedoresMoves, CobrancaLimitesStep, CobrancaLimitesStutter
    <2>3. QED
      BY <2>1, <2>2
  <1>3. QED
    BY <1>1, <1>2, ChargesTypeHolds, PTL DEF Spec

LEMMA ScreensTyped == Spec => []T!TypeOK
  <1>1. Init => ScreensInv /\ TelaLimites
    BY InitScreens, InitTelaLimites DEF Init
  <1>2. ScreensInv /\ TelaLimites /\ [Next]_vars => (ScreensInv /\ TelaLimites)'
    <2> SUFFICES ASSUME ScreensInv, TelaLimites, [Next]_vars PROVE ScreensInv' /\ TelaLimites'
      OBVIOUS
    <2>1. ScreensInv'
      BY PaineisMoves, ScreensNext, ScreensStutter DEF paineisVars, T!vars, T!cargaVars, T!escritaVars
    <2>2. TelaLimites'
      BY PaineisMoves, TelaLimitesStep, TelaLimitesStutter
    <2>3. QED
      BY <2>1, <2>2
  <1>3. QED
    BY <1>1, <1>2, ScreensTypeHolds, PTL DEF Spec

\* The services whose invariant has the types.
LEMMA InvariantsTyped == Spec => [](R!TypeOK /\ F!TypeOK /\ U!TypeOK /\ A!TypeOK /\ O!TypeOK /\ G!TypeOK)
  <1> DEFINE Todos == PayoutsInv /\ NotaInv /\ PushInv /\ AssistenteInv /\ FontesInv /\ BancoInv
  <1>1. MaxRefs \in Nat \ {0}
    BY TentativasAssumption
  <1>2. Init => Todos
    BY <1>1, PayoutsInit, NotaInitTypeOK, InitRefUnica, PushInvHolds, InitAssistente, InitFontes, InitBanco DEF Init, NotaInv
  <1>3. ASSUME Todos, [Next]_vars PROVE Todos'
    <2>1. PayoutsInv'
      BY <1>3, RepassesMoves, PayoutsNext DEF repassesVars, R!vars
    <2>2. NotaInv'
      BY <1>1, <1>3, NotaMoves, NotaNextTypeOK, NextRefUnica DEF NotaInv
    <2>3. PushInv'
      BY <1>3, PushMoves, PushInvKept DEF pushVars, U!vars, U!chavesVars, U!aparelhoVars
    <2>4. AssistenteInv'
      BY <1>3, AssistenteMoves, AssistenteStep, AssistenteStutter
    <2>5. FontesInv'
      BY <1>3, FontesMoves, FontesStep, FontesStutter
    <2>6. BancoInv'
      BY <1>3, BancoMoves, BancoStep, BancoStutter
    <2>7. QED
      BY <2>1, <2>2, <2>3, <2>4, <2>5, <2>6
  <1>4. Todos => R!TypeOK /\ F!TypeOK /\ A!TypeOK /\ O!TypeOK /\ G!TypeOK
    BY AssistenteInvIsEnough, FontesInvIsEnough, BancoInvIsEnough DEF PayoutsInv, NotaInv
  <1>5. Todos => U!TypeOK
    BY DEF PushInv, ChaveInv, AparelhoInv, LinhasInv, Chaves, U!TypeOK
  <1>6. QED
    BY <1>2, <1>3, <1>4, <1>5, PTL DEF Spec

\* The services with proofs of their own.
LEMMA InstancesTyped == Spec => [](J!TypeOK /\ C!TypeOK /\ B!TypeOK)
  <1>1. JP!Parametros
    BY LimitesAssumption, BoundsAssumption DEF JP!Parametros
  <1>2. JP!Spec => []JP!IInv
    BY <1>1, JP!SpecIInv
  <1>3. JP!IInv => J!TypeOK
    BY DEF JP!IInv, JP!Forma, J!TypeOK, JP!TypeOK, J!Conta, JP!Conta, J!Pedido, JP!Pedido, J!Ocioso, JP!Ocioso, J!Nunca, JP!Nunca
  <1>4. MaxErros \in Nat \ {0} /\ CP!IsFiniteSet(Pedidos) /\ MaxSenhas \in Nat \ {0} /\ MaxVersao \in Nat
    BY TentativasAssumption, BoundsAssumption DEF IsFiniteSet, CP!IsFiniteSet
  <1>5. CP!Spec => []CP!TypeOK
    BY <1>4, CP!AccountsTyped
  <1>6. CP!TypeOK => C!TypeOK
    BY DEF C!TypeOK, CP!TypeOK, C!Links, CP!Links, C!Ocioso, CP!Ocioso, C!Nenhuma, CP!Nenhuma, C!Sessao, CP!Sessao,
      C!Cardinality, CP!Cardinality
  <1>7. MaxPremio \in Nat /\ MaxEdicoes \in Nat
    BY BoundsAssumption
  <1>8. B!Spec => []B!TypeOK
    BY <1>7, PoolTypeCorrect
  <1>9. QED
    BY <1>2, <1>3, <1>5, <1>6, <1>8, JogoResponsavelMoves, ContasMoves, CicloBolaoMoves, PTL

\* Types: the state of each service is what its module says, bounds included; the counters of failures and of requests in
\* flight are where the code stops them (registerLoginFailure, one request of CAIXA at a time).
THEOREM ServicesTyped == Spec => []TypeOK
  <1>1. R!TypeOK /\ F!TypeOK /\ U!TypeOK /\ A!TypeOK /\ O!TypeOK /\ G!TypeOK /\ K!TypeOK /\ E!TypeOK /\ J!TypeOK /\ C!TypeOK
        /\ B!TypeOK /\ X!TypeOK /\ Q!TypeOK /\ D!TypeOK /\ V!TypeOK /\ T!TypeOK => TypeOK
    BY DEF TypeOK
  <1>2. QED
    BY <1>1, InvariantsTyped, ComputationsTyped, AnswersTyped, InstancesTyped, AccessTyped, FilesTyped, NetworkTyped,
      ChargesTyped, ScreensTyped, PTL
=============================================================================
