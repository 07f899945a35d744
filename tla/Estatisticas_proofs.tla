------------------------ MODULE Estatisticas_proofs -------------------------
(***************************************************************************)
(* The statistics of the lotteries (module Estatisticas), as the           *)
(* composition makes them: the history, the analysis of a game, the odds,  *)
(* the games suggested and promised, the rules of the real lotteries and   *)
(* one run of the import, for any draws, games, windows and limits.        *)
(*                                                                         *)
(* A pass over a sequence is a recursion on the sets 1..n (FoldExists of   *)
(* Calculos_proofs), of which an invariant says what it has counted after  *)
(* n elements: Corrido for runs of neighbours, Observadas for the history  *)
(* of a number, PedidosAte for the contests asked.  The sums of the        *)
(* history are exchanged sums (TotalsExchange): what is added draw by draw *)
(* is what is added number by number.  A sort is EmSequencia, an order in  *)
(* which the place of an element is how many go before it.                 *)
(***************************************************************************)
EXTENDS Servicos, Calculos_proofs, Sequences, FiniteSetTheorems, FunctionTheorems, WellFoundedInduction, TLAPS

-----------------------------------------------------------------------------
(* A step of the composition gives one answer or none *)

LEMMA EstatisticasMoves == [Next]_vars => E!Next \/ UNCHANGED consulta
  BY DEF Next, Parados, vars, RepassesAnda, JogoAnda, FiscalAnda, ContasAnda, RedeAnda, BolaoAnda, CalculosAnda, EstatisticasAnda,
    ProvedoresAnda, PushAnda, AssistenteAnda, FontesAnda, ArquivosAnda, PaineisAnda, AcessoAnda, BancoAnda, estatisticasVars

-----------------------------------------------------------------------------
(* The games suggested and promised: size and content *)

\* The smaller of two numbers is one of them, and above none.
LEMMA SmallerOfTwo ==
    ASSUME NEW a \in Int, NEW b \in Int
    PROVE  E!Min({a, b}) = IF a <= b THEN a ELSE b
  <1> DEFINE m == IF a <= b THEN a ELSE b
  <1>1. m \in {a, b} /\ \A y \in {a, b} : m <= y
    OBVIOUS
  <1>2. \A x \in {a, b} : (\A y \in {a, b} : x <= y) => x = m
    OBVIOUS
  <1> HIDE DEF m
  <1>3. (CHOOSE x \in {a, b} : \A y \in {a, b} : x <= y) = m
    BY <1>1, <1>2
  <1>4. QED
    BY <1>3 DEF E!Min, m

\* What suggestGames may answer: the fixed numbers with a sample of the others, as large as is missing and there is.
Amostras(dezenas, fixos, excluir, size) ==
    {fixos \cup s : s \in E!kSubset(E!Min({size - Cardinality(fixos), Cardinality(dezenas \ (excluir \cup fixos))}),
                                    dezenas \ (excluir \cup fixos))}

\* A game made of the fixed numbers and a sample of the others has the size asked for, when there are others enough.
LEMMA SampleCompletes ==
    ASSUME NEW dezenas, IsFiniteSet(dezenas), NEW fixos \in SUBSET dezenas, NEW excluir \in SUBSET dezenas, NEW size \in Nat,
           fixos \cap excluir = {}, Cardinality(fixos) <= size,
           size - Cardinality(fixos) <= Cardinality(dezenas) - Cardinality(excluir) - Cardinality(fixos),
           NEW jogo \in Amostras(dezenas, fixos, excluir, size)
    PROVE  jogo \in SUBSET dezenas /\ Cardinality(jogo) = size /\ fixos \subseteq jogo /\ jogo \cap excluir = {}
  <1> DEFINE pool == dezenas \ (excluir \cup fixos)
  <1>1. IsFiniteSet(fixos) /\ IsFiniteSet(excluir) /\ IsFiniteSet(pool)
    BY FS_Subset
  <1>2. IsFiniteSet(excluir \cup fixos) /\ Cardinality(excluir \cup fixos) = Cardinality(excluir) + Cardinality(fixos)
    <2>1. excluir \cap fixos = {}
      OBVIOUS
    <2>2. IsFiniteSet(excluir \cup fixos)
          /\ Cardinality(excluir \cup fixos) = Cardinality(excluir) + Cardinality(fixos) - Cardinality(excluir \cap fixos)
      BY <1>1, FS_Union
    <2>3. Cardinality(excluir) \in Nat /\ Cardinality(fixos) \in Nat /\ Cardinality(excluir \cap fixos) = 0
      BY <1>1, <2>1, FS_EmptySet, FS_CardinalityType
    <2>4. QED
      BY <2>2, <2>3
  <1>3. Cardinality(pool) = Cardinality(dezenas) - Cardinality(excluir) - Cardinality(fixos)
    <2>1. dezenas \cap (excluir \cup fixos) = excluir \cup fixos
      OBVIOUS
    <2>2. Cardinality(pool) = Cardinality(dezenas) - Cardinality(dezenas \cap (excluir \cup fixos))
      BY FS_Difference
    <2>3. Cardinality(dezenas) \in Nat /\ Cardinality(excluir) \in Nat /\ Cardinality(fixos) \in Nat
      BY <1>1, FS_CardinalityType
    <2>4. Cardinality(dezenas \cap (excluir \cup fixos)) = Cardinality(excluir) + Cardinality(fixos)
      BY <1>2, <2>1
    <2> HIDE DEF pool
    <2>5. QED
      BY <2>2, <2>3, <2>4
  <1>4. Cardinality(fixos) \in Nat /\ Cardinality(pool) \in Nat
    BY <1>1, FS_CardinalityType
  <1>5. E!Min({size - Cardinality(fixos), Cardinality(pool)}) = size - Cardinality(fixos)
    <2>1. size - Cardinality(fixos) \in Int /\ size - Cardinality(fixos) <= Cardinality(pool)
      BY <1>3, <1>4
    <2>2. Cardinality(pool) \in Int
      BY <1>4
    <2>3. E!Min({size - Cardinality(fixos), Cardinality(pool)})
            = IF size - Cardinality(fixos) <= Cardinality(pool) THEN size - Cardinality(fixos) ELSE Cardinality(pool)
      BY <2>1, <2>2, SmallerOfTwo
    <2>4. QED
      BY <2>1, <2>3
  <1>6. PICK s \in SUBSET pool : jogo = fixos \cup s /\ Cardinality(s) = size - Cardinality(fixos)
    BY <1>5 DEF Amostras, E!kSubset, E!Cardinality, Cardinality
  <1>7. IsFiniteSet(s) /\ fixos \cap s = {}
    BY <1>1, <1>6, FS_Subset
  <1>8. Cardinality(jogo) = Cardinality(fixos) + Cardinality(s)
    <2>1. Cardinality(jogo) = Cardinality(fixos) + Cardinality(s) - Cardinality(fixos \cap s)
      BY <1>1, <1>6, <1>7, FS_Union
    <2>2. Cardinality(fixos \cap s) = 0 /\ Cardinality(s) \in Nat
      BY <1>7, FS_EmptySet, FS_CardinalityType
    <2>3. QED
      BY <1>4, <2>1, <2>2
  <1>9. Cardinality(jogo) = size
    BY <1>4, <1>6, <1>8
  <1>10. QED
    BY <1>6, <1>9

\* The numbers of a lottery, counted by universeSize.
LEMMA UniverseCounted ==
    ASSUME NEW r \in Loterias \cup Cartelas
    PROVE  /\ IsFiniteSet(E!Universo(r)) /\ Cardinality(E!Universo(r)) = E!universeSize(r)
           /\ r.apostaMin \in Nat \ {0} /\ r.apostaMax \in Nat /\ r.apostaMax <= E!universeSize(r)
  <1>1. /\ r.menor \in Int /\ r.maior \in Int /\ r.menor <= r.maior
        /\ r.apostaMin \in Nat \ {0} /\ r.apostaMax \in Nat /\ r.apostaMax <= r.maior - r.menor + 1
    BY DEF Loterias, Cartelas
  <1>2. IsFiniteSet(r.menor..r.maior) /\ Cardinality(r.menor..r.maior) = r.maior - r.menor + 1
    <2>1. PICK a \in Int, b \in Int : a = r.menor /\ b = r.maior /\ a <= b
      BY <1>1
    <2>2. IsFiniteSet(a..b) /\ Cardinality(a..b) = IF a > b THEN 0 ELSE b - a + 1
      BY FS_Interval
    <2>3. ~(a > b)
      BY <2>1
    <2>4. QED
      BY <2>1, <2>2, <2>3
  <1>3. QED
    BY <1>1, <1>2 DEF E!Universo, E!universeSize

\* A game is what was asked for: of its size, with the fixed numbers and without the excluded ones.
GeradoComoPedido ==
    consulta.op = "gera" /\ consulta.aceito /\ consulta.fixos \cap consulta.excluir = {} =>
        consulta.jogo \in {s \in E!kSubset(consulta.size, E!Universo(consulta.r)) :
                              consulta.fixos \subseteq s /\ s \cap consulta.excluir = {}}
SugeridoComoPedido ==
    consulta.op = "sugere" =>
        consulta.jogo \in {s \in E!kSubset(consulta.size, E!Universo(consulta.r)) : consulta.fixos \subseteq s}

\* A request that is accepted finds numbers enough, so no game of the answer is short.
LEMMA GeneratedAsAsked == ASSUME E!Gera PROVE GeradoComoPedido'
  <1>1. PICK r \in Loterias : \E size \in r.apostaMin..r.apostaMax : \E wanted \in Quantidades :
          \E fixos, excluir \in SUBSET E!Universo(r) :
              /\ Cardinality(fixos) <= size
              /\ \E jogo \in E!Sugeridos(r, size, fixos, excluir) :
                consulta' = [op |-> "gera", r |-> r, size |-> size, wanted |-> wanted,
                             fixos |-> fixos, excluir |-> excluir, jogo |-> jogo,
                             aceito |-> E!generateMany(r, size, fixos, excluir, wanted)]
    BY DEF E!Gera, E!Cardinality, Cardinality
  <1>2. PICK size \in r.apostaMin..r.apostaMax, wanted \in Quantidades, fixos \in SUBSET E!Universo(r),
             excluir \in SUBSET E!Universo(r) :
              /\ Cardinality(fixos) <= size
              /\ \E jogo \in E!Sugeridos(r, size, fixos, excluir) :
                consulta' = [op |-> "gera", r |-> r, size |-> size, wanted |-> wanted,
                             fixos |-> fixos, excluir |-> excluir, jogo |-> jogo,
                             aceito |-> E!generateMany(r, size, fixos, excluir, wanted)]
    BY <1>1
  <1>3. PICK jogo \in E!Sugeridos(r, size, fixos, excluir) :
                consulta' = [op |-> "gera", r |-> r, size |-> size, wanted |-> wanted,
                             fixos |-> fixos, excluir |-> excluir, jogo |-> jogo,
                             aceito |-> E!generateMany(r, size, fixos, excluir, wanted)]
    BY <1>2
  <1>4. SUFFICES ASSUME E!generateMany(r, size, fixos, excluir, wanted), fixos \cap excluir = {}
                 PROVE  jogo \in {s \in E!kSubset(size, E!Universo(r)) : fixos \subseteq s /\ s \cap excluir = {}}
    <2>1. consulta'.jogo = jogo /\ consulta'.r = r /\ consulta'.size = size /\ consulta'.fixos = fixos
          /\ consulta'.excluir = excluir /\ consulta'.aceito = E!generateMany(r, size, fixos, excluir, wanted)
      BY <1>3
    <2>2. QED
      BY <2>1 DEF GeradoComoPedido
  <1> DEFINE dezenas == E!Universo(r)
  <1>5. IsFiniteSet(dezenas) /\ Cardinality(dezenas) = E!universeSize(r)
    BY UniverseCounted
  <1>6. size \in Nat
    BY <1>2, UniverseCounted
  <1>7. fixos \ excluir = fixos /\ excluir \ fixos = excluir
    BY <1>4
  <1>8. size - Cardinality(fixos) <= Cardinality(dezenas) - Cardinality(excluir) - Cardinality(fixos)
    BY <1>4, <1>5, <1>7 DEF E!generateMany, E!Cardinality, Cardinality
  <1>9. jogo \in Amostras(dezenas, fixos, excluir, size)
    BY <1>3, <1>7 DEF Amostras, E!Sugeridos, E!Cardinality, Cardinality
  <1> HIDE DEF dezenas
  <1>10. jogo \in SUBSET dezenas /\ Cardinality(jogo) = size /\ fixos \subseteq jogo /\ jogo \cap excluir = {}
    <2>1. fixos \in SUBSET dezenas /\ excluir \in SUBSET dezenas
      BY <1>2 DEF dezenas
    <2>2. QED
      BY <1>2, <1>4, <1>5, <1>6, <1>8, <1>9, <2>1, SampleCompletes
  <1>11. QED
    BY <1>10 DEF dezenas, E!kSubset, E!Cardinality, Cardinality

\* A suggestion may always be completed: at most one number is fixed, and a bet is no larger than the universe.
LEMMA SuggestedAsAsked == ASSUME E!Sugere PROVE SugeridoComoPedido'
  <1>1. PICK r \in Loterias \cup Cartelas : \E size \in r.apostaMin..r.apostaMax :
          \E fixos \in {{}} \cup E!kSubset(1, E!Universo(r)) : \E relaxed \in BOOLEAN :
          \E jogo \in E!Sugeridos(r, size, fixos, {}) :
              consulta' = [op |-> "sugere", r |-> r, size |-> size, fixos |-> fixos,
                           jogo |-> jogo, relaxed |-> relaxed, avisos |-> E!notes(r, jogo)]
    BY DEF E!Sugere
  <1>2. PICK size \in r.apostaMin..r.apostaMax, fixos \in {{}} \cup E!kSubset(1, E!Universo(r)), relaxed \in BOOLEAN :
          \E jogo \in E!Sugeridos(r, size, fixos, {}) :
              consulta' = [op |-> "sugere", r |-> r, size |-> size, fixos |-> fixos,
                           jogo |-> jogo, relaxed |-> relaxed, avisos |-> E!notes(r, jogo)]
    BY <1>1
  <1>3. PICK jogo \in E!Sugeridos(r, size, fixos, {}) :
              consulta' = [op |-> "sugere", r |-> r, size |-> size, fixos |-> fixos,
                           jogo |-> jogo, relaxed |-> relaxed, avisos |-> E!notes(r, jogo)]
    BY <1>2
  <1> DEFINE dezenas == E!Universo(r)
  <1>4. IsFiniteSet(dezenas) /\ Cardinality(dezenas) = E!universeSize(r) /\ r.apostaMin \in Nat \ {0} /\ r.apostaMax \in Nat
        /\ r.apostaMax <= E!universeSize(r)
    BY UniverseCounted
  <1>5. size \in Nat \ {0} /\ size <= Cardinality(dezenas)
    <2>1. Cardinality(dezenas) \in Nat
      BY <1>4, FS_CardinalityType
    <2> HIDE DEF dezenas
    <2>2. QED
      BY <1>2, <1>4, <2>1
  <1>6. fixos \in SUBSET dezenas /\ Cardinality(fixos) \in 0..1
    <2>1. CASE fixos = {}
      BY <2>1, FS_EmptySet
    <2>2. CASE fixos # {}
      BY <1>2, <2>2 DEF E!kSubset, E!Cardinality, Cardinality
    <2>3. QED
      BY <2>1, <2>2
  <1>7. jogo \in Amostras(dezenas, fixos, {}, size)
    <2>1. fixos \ {} = fixos
      OBVIOUS
    <2>2. QED
      BY <1>3, <2>1 DEF Amostras, E!Sugeridos, E!Cardinality, Cardinality
  <1> HIDE DEF dezenas
  <1>8. jogo \in SUBSET dezenas /\ Cardinality(jogo) = size /\ fixos \subseteq jogo
    <2>1. Cardinality(dezenas) \in Nat /\ Cardinality({}) = 0
      BY <1>4, FS_CardinalityType, FS_EmptySet
    <2>2. size \in Nat /\ Cardinality(fixos) <= size
          /\ size - Cardinality(fixos) <= Cardinality(dezenas) - Cardinality({}) - Cardinality(fixos)
      BY <1>5, <1>6, <2>1
    <2>3. {} \in SUBSET dezenas /\ fixos \cap {} = {}
      OBVIOUS
    <2>4. QED
      BY <1>4, <1>6, <1>7, <2>2, <2>3, SampleCompletes
  <1>9. jogo \in E!kSubset(size, dezenas) /\ fixos \subseteq jogo
    BY <1>8 DEF E!kSubset, E!Cardinality, Cardinality
  <1>10. consulta'.jogo = jogo /\ consulta'.r = r /\ consulta'.size = size /\ consulta'.fixos = fixos
    BY <1>3
  <1>11. QED
    BY <1>9, <1>10 DEF SugeridoComoPedido, dezenas

\* A generated or suggested game is the bet that was asked for: as many numbers as asked, all of the lottery, with the
\* fixed ones and without the excluded ones.
THEOREM GamesAsAsked == Spec => [](GeradoComoPedido /\ SugeridoComoPedido)
  <1> DEFINE Certo == GeradoComoPedido /\ SugeridoComoPedido
  <1>1. Init => Certo
    BY DEF Init, E!Init, E!Nenhuma, GeradoComoPedido, SugeridoComoPedido
  <1>2. E!Next => Certo'
    <2> SUFFICES ASSUME E!Next PROVE Certo'
      OBVIOUS
    <2>1. CASE E!Gera
      <3>1. consulta'.op = "gera"
        BY <2>1 DEF E!Gera
      <3>2. QED
        BY <2>1, <3>1, GeneratedAsAsked DEF SugeridoComoPedido
    <2>2. CASE E!Sugere
      <3>1. consulta'.op = "sugere"
        BY <2>2 DEF E!Sugere
      <3>2. QED
        BY <2>2, <3>1, SuggestedAsAsked DEF GeradoComoPedido
    <2>3. CASE E!Estatistica \/ E!Analisa \/ E!Probabilidades \/ E!Regra \/ E!Importa
      <3>1. consulta'.op \in {"estatistica", "analise", "probabilidade", "regra", "importa"}
        BY <2>3 DEF E!Estatistica, E!Analisa, E!Probabilidades, E!Regra, E!Importa
      <3>2. QED
        BY <3>1 DEF GeradoComoPedido, SugeridoComoPedido
    <2>4. QED
      BY <2>1, <2>2, <2>3 DEF E!Next
  <1>3. Certo /\ UNCHANGED consulta => Certo'
    BY DEF GeradoComoPedido, SugeridoComoPedido
  <1> HIDE DEF Certo
  <1>4. Spec => []Certo
    BY <1>1, <1>2, <1>3, EstatisticasMoves, PTL DEF Spec
  <1>5. QED
    BY <1>4 DEF Certo

-----------------------------------------------------------------------------
(* The odds (tierProbabilities, theoreticalParity) and the games promised (generateMany) *)

\* No more can be chosen than there are.
LEMMA TooMany ==
    ASSUME NEW S, IsFiniteSet(S), NEW k \in Int, k < 0 \/ k > Cardinality(S)
    PROVE  Quantas(k, S) = 0
  <1>1. \A s \in SUBSET S : Cardinality(s) \in Nat /\ Cardinality(s) <= Cardinality(S)
    BY FS_Subset, FS_CardinalityType
  <1>2. Cardinality(S) \in Nat
    BY FS_CardinalityType
  <1>3. Escolhas(k, S) = {}
    BY <1>1, <1>2 DEF Escolhas
  <1>4. QED
    BY <1>3, FS_EmptySet DEF Quantas

\* The same loop in the statistics, with its guard.
LEMMA ChooseOf ==
    ASSUME NEW S, IsFiniteSet(S), NEW n \in Nat, n = Cardinality(S), NEW k \in Int
    PROVE  E!choose(n, k) = Quantas(k, S)
  <1>1. CASE k < 0 \/ k > n
    BY <1>1, TooMany DEF E!choose
  <1>2. CASE ~(k < 0 \/ k > n)
    <2>1. k \in Nat
      BY <1>2
    <2>2. E!choose(n, k) = (CHOOSE it : Produto(it, n, k))[1..k]
      <3>1. DOMAIN [i \in 1..k |-> i] = 1..k
        OBVIOUS
      <3>2. \A s \in SUBSET (1..k) : s # {} => [i \in 1..k |-> i][Maior(s)] = Maior(s)
        BY <2>1, LargestIs
      <3>3. ASSUME NEW it
            PROVE  it = [s \in SUBSET (DOMAIN [i \in 1..k |-> i]) |->
                           IF s = {} THEN 1
                           ELSE (it[s \ {E!Max(s)}] * (n - [i \in 1..k |-> i][E!Max(s)] + 1)) \div [i \in 1..k |-> i][E!Max(s)]]
                   <=> Produto(it, n, k)
        <4>1. \A s : E!Max(s) = Maior(s)
          BY DEF E!Max, Maior
        <4>2. QED
          BY <3>1, <3>2, <4>1, ZenonT(40) DEF Produto
      <3>4. E!choose(n, k) = E!FoldLeft(LAMBDA c, i : (c * (n - i + 1)) \div i, 1, [i \in 1..k |-> i])
        BY <1>2 DEF E!choose
      <3>5. QED
        BY <3>1, <3>3, <3>4 DEF E!FoldLeft, E!MapThenFoldSet
    <2>3. Produto(CHOOSE it : Produto(it, n, k), n, k)
      BY <2>1, ProductExists
    <2>4. QED
      BY <2>1, <2>2, <2>3, ProductIs
  <1>3. QED
    BY <1>1, <1>2

Divididas(k, S, Y, h) == {s \in Escolhas(k, S) : Cardinality(s \cap Y) = h}

\* Of the choices of so many, those with so many in a part.
LEMMA HitsCounted ==
    ASSUME NEW S, IsFiniteSet(S), NEW Y \in SUBSET S, NEW k \in Nat, NEW h \in 0..k
    PROVE  E!choose(Cardinality(Y), h) * E!choose(Cardinality(S) - Cardinality(Y), k - h)
              = Cardinality(Divididas(k, S, Y, h))
  <1>1. IsFiniteSet(Y) /\ IsFiniteSet(S \ Y) /\ Cardinality(Y) \in Nat /\ Cardinality(S) \in Nat
    BY FS_Subset, FS_CardinalityType
  <1>2. Cardinality(S \ Y) = Cardinality(S) - Cardinality(Y) /\ Cardinality(S \ Y) \in Nat
    <2>1. S \cap Y = Y
      OBVIOUS
    <2>2. QED
      BY <1>1, <2>1, FS_Difference, FS_CardinalityType
  <1>3. PICK m \in Nat : m = k - h /\ h + m = k /\ h \in Nat
    OBVIOUS
  <1>4. E!choose(Cardinality(Y), h) = Quantas(h, Y)
    BY <1>1, <1>3, ChooseOf
  <1>5. E!choose(Cardinality(S) - Cardinality(Y), m) = Quantas(m, S \ Y)
    BY <1>1, <1>2, <1>3, ChooseOf
  <1>6. Cardinality({s \in Escolhas(h + m, S) : Cardinality(s \cap Y) = h}) = Quantas(h, Y) * Quantas(m, S \ Y)
    BY <1>3, ChoicesOfParts
  <1>7. QED
    BY <1>3, <1>4, <1>5, <1>6 DEF Divididas

\* The first k numbers of a lottery stand for any bet of k.
LEMMA FirstNumbers ==
    ASSUME NEW r \in Loterias, NEW k \in r.apostaMin..r.apostaMax
    PROVE  /\ r.menor..(r.menor + k - 1) \in SUBSET E!Universo(r) /\ k \in Nat
           /\ IsFiniteSet(r.menor..(r.menor + k - 1)) /\ Cardinality(r.menor..(r.menor + k - 1)) = k
  <1>1. PICK a \in Int, b \in Int : a = r.menor /\ b = r.maior
    BY DEF Loterias
  <1>2. k \in Nat \ {0} /\ k <= b - a + 1
    <2>1. r.apostaMin \in Nat \ {0} /\ r.apostaMax \in Nat /\ r.apostaMax <= b - a + 1
      BY <1>1, UniverseCounted DEF E!universeSize
    <2>2. QED
      BY <2>1
  <1>3. a..(a + k - 1) \in SUBSET (a..b)
    BY <1>2
  <1>4. IsFiniteSet(a..(a + k - 1)) /\ Cardinality(a..(a + k - 1)) = k
    <2>1. a + k - 1 \in Int /\ ~(a > a + k - 1) /\ (a + k - 1) - a + 1 = k
      BY <1>2
    <2>2. QED
      BY <2>1, FS_Interval
  <1>5. QED
    BY <1>1, <1>2, <1>3, <1>4 DEF E!Universo

LEMMA OddsCounted == ASSUME E!Probabilidades PROVE E!ChancesExatas'
  <1>1. PICK r \in Loterias : \E k \in r.apostaMin..r.apostaMax :
        consulta' = [op |-> "probabilidade", r |-> r, k |-> k,
            faixas |-> E!tierProbabilities(r, k), paridade |-> E!theoreticalParity(r, k),
            simples |-> E!equivalentSimpleGames(r, k)]
    BY DEF E!Probabilidades
  <1>2. PICK k \in r.apostaMin..r.apostaMax :
        consulta' = [op |-> "probabilidade", r |-> r, k |-> k,
            faixas |-> E!tierProbabilities(r, k), paridade |-> E!theoreticalParity(r, k),
            simples |-> E!equivalentSimpleGames(r, k)]
    BY <1>1
  <1>3. /\ consulta'.r = r /\ consulta'.k = k /\ consulta'.faixas = E!tierProbabilities(r, k)
        /\ consulta'.paridade = E!theoreticalParity(r, k) /\ consulta'.simples = E!equivalentSimpleGames(r, k)
    BY <1>2
  <1> DEFINE marcadas_ == r.menor..(r.menor + k - 1)
             dezenas == E!Universo(r)
             impares_ == E!Impares(dezenas)
  <1>4. marcadas_ \in SUBSET dezenas /\ k \in Nat /\ IsFiniteSet(marcadas_) /\ Cardinality(marcadas_) = k
    BY FirstNumbers
  <1>5. /\ IsFiniteSet(dezenas) /\ Cardinality(dezenas) = E!universeSize(r)
        /\ r.apostaMin \in Nat \ {0} /\ r.sorteia \in Nat
    BY UniverseCounted DEF Loterias
  <1>6. impares_ \in SUBSET dezenas /\ \A s \in SUBSET dezenas : E!Impares(s) = s \cap impares_
    BY DEF E!Impares
  <1>7. \A q, s : E!kSubset(q, s) = Escolhas(q, s)
    BY DEF E!kSubset, Escolhas, E!Cardinality, Cardinality
  <1>8. \A s : E!Cardinality(s) = Cardinality(s)
    BY DEF E!Cardinality, Cardinality
  <1>c. \A Y \in SUBSET dezenas : \A q \in Nat : \A h \in 0..q :
          E!choose(Cardinality(Y), h) * E!choose(E!universeSize(r) - Cardinality(Y), q - h)
              = Cardinality(Divididas(q, dezenas, Y, h))
    <2> HIDE DEF dezenas
    <2>1. ASSUME NEW Y \in SUBSET dezenas, NEW q \in Nat, NEW h \in 0..q
          PROVE  E!choose(Cardinality(Y), h) * E!choose(Cardinality(dezenas) - Cardinality(Y), q - h)
                    = Cardinality(Divididas(q, dezenas, Y, h))
      BY <1>5, HitsCounted
    <2>2. QED
      BY <1>5, <2>1
  <1>9. ASSUME NEW h \in 0..r.sorteia
        PROVE  E!tierProbabilities(r, k)[h] = Cardinality({s \in Escolhas(r.sorteia, dezenas) : Cardinality(s \cap marcadas_) = h})
    <2>1. E!tierProbabilities(r, k)[h] = E!choose(k, h) * E!choose(E!universeSize(r) - k, r.sorteia - h)
      BY DEF E!tierProbabilities, E!Favoraveis
    <2> HIDE DEF marcadas_, dezenas
    <2>2. QED
      BY <1>4, <1>5, <1>c, <2>1 DEF Divididas
  <1>10. ASSUME NEW j \in 0..k
         PROVE  E!theoreticalParity(r, k)[j] = Cardinality({s \in Escolhas(k, dezenas) : Cardinality(E!Impares(s)) = j})
    <2>1. E!theoreticalParity(r, k)[j]
             = E!choose(Cardinality(impares_), j) * E!choose(E!universeSize(r) - Cardinality(impares_), k - j)
      BY <1>8 DEF E!theoreticalParity, E!Favoraveis
    <2> HIDE DEF marcadas_, dezenas, impares_
    <2>2. {s \in Escolhas(k, dezenas) : Cardinality(E!Impares(s)) = j} = {s \in Escolhas(k, dezenas) : Cardinality(s \cap impares_) = j}
      BY <1>6 DEF Escolhas
    <2>3. QED
      BY <1>4, <1>6, <1>c, <2>1, <2>2 DEF Divididas
  <1>11. E!equivalentSimpleGames(r, k) = Quantas(r.apostaMin, marcadas_)
    <2>1. E!Min({k, r.apostaMin}) = r.apostaMin
      BY <1>4, <1>5 DEF E!Min
    <2> HIDE DEF marcadas_
    <2>2. QED
      BY <1>4, <1>5, <2>1, ChooseOf DEF E!equivalentSimpleGames
  <1>12. QED
    BY <1>3, <1>7, <1>8, <1>9, <1>10, <1>11 DEF E!ChancesExatas, E!Sorteios, Quantas

Possiveis(size, S, fixos, excluir) == {s \in Escolhas(size, S) : fixos \subseteq s /\ s \cap excluir = {}}

\* The games with some numbers fixed and others out: one for each choice of the numbers that are left.
LEMMA GamesLeft ==
    ASSUME NEW S, IsFiniteSet(S), NEW fixos \in SUBSET S, NEW excluir \in SUBSET S, fixos \cap excluir = {},
           NEW size \in Nat, Cardinality(fixos) <= size
    PROVE  Cardinality(Possiveis(size, S, fixos, excluir))
              = Quantas(size - Cardinality(fixos), S \ (fixos \cup excluir))
  <1> DEFINE livres_ == S \ (fixos \cup excluir)
             pick == size - Cardinality(fixos)
             f == [s \in Escolhas(pick, livres_) |-> s \cup fixos]
             Z == Possiveis(size, S, fixos, excluir)
  <1>1. /\ IsFiniteSet(fixos) /\ IsFiniteSet(livres_) /\ Cardinality(fixos) \in Nat
        /\ \A s \in SUBSET S : IsFiniteSet(s) /\ Cardinality(s) \in Nat
    <2>1. livres_ \in SUBSET S
      OBVIOUS
    <2>2. QED
      BY <2>1, FS_Subset, FS_CardinalityType
  <1>2. IsFiniteSet(Escolhas(pick, livres_))
    BY <1>1, ChoicesFinite
  <1>3. ASSUME NEW s \in Escolhas(pick, livres_) PROVE f[s] = s \cup fixos /\ f[s] \in Z
    <2>1. s \in SUBSET livres_ /\ Cardinality(s) = pick
      BY DEF Escolhas
    <2>2. s \in SUBSET S /\ s \cap fixos = {} /\ s \cup fixos \in SUBSET S /\ (s \cup fixos) \cap excluir = {}
      BY <2>1
    <2>3. Cardinality(s \cup fixos) = Cardinality(s) + Cardinality(fixos) - Cardinality(s \cap fixos)
      BY <1>1, <2>2, FS_Union
    <2>4. Cardinality(s \cup fixos) = size
      BY <1>1, <2>1, <2>2, <2>3, FS_EmptySet
    <2>5. QED
      BY <2>2, <2>4 DEF Possiveis, Escolhas
  <1>4. ASSUME NEW s \in Escolhas(pick, livres_), NEW t \in Escolhas(pick, livres_), f[s] = f[t] PROVE s = t
    <2>1. s \cap fixos = {} /\ t \cap fixos = {}
      BY DEF Escolhas
    <2>2. s \cup fixos = t \cup fixos
      BY <1>3, <1>4
    <2>3. QED
      BY <2>1, <2>2
  <1>5. ASSUME NEW z \in Z PROVE \E s \in Escolhas(pick, livres_) : f[s] = z
    <2>1. z \in SUBSET S /\ Cardinality(z) = size /\ fixos \subseteq z /\ z \cap excluir = {}
      BY DEF Possiveis, Escolhas
    <2>2. z \ fixos \in SUBSET livres_ /\ (z \ fixos) \cup fixos = z /\ z \cap fixos = fixos
      BY <2>1
    <2>3. Cardinality(z \ fixos) = Cardinality(z) - Cardinality(z \cap fixos)
      BY <1>1, <2>1, FS_Difference
    <2>4. z \ fixos \in Escolhas(pick, livres_)
      BY <2>1, <2>2, <2>3 DEF Escolhas
    <2>5. QED
      BY <1>3, <2>2, <2>4
  <1>6. DOMAIN f = Escolhas(pick, livres_) /\ f = [s \in DOMAIN f |-> f[s]]
    OBVIOUS
  <1> HIDE DEF f, Z
  <1>7. f \in Bijection(Escolhas(pick, livres_), Z)
    <2>1. f \in [Escolhas(pick, livres_) -> Z]
      BY <1>3, <1>6
    <2>2. QED
      BY <1>4, <1>5, <2>1 DEF Bijection, Injection, Surjection, IsInjective
  <1>8. Cardinality(Z) = Cardinality(Escolhas(pick, livres_))
    BY <1>2, <1>7, PairsCounted
  <1>9. QED
    BY <1>8 DEF Z, Quantas

LEMMA PromisesCounted ==
    ASSUME NEW r \in Loterias, NEW size \in r.apostaMin..r.apostaMax, NEW wanted \in Quantidades,
           NEW fixos \in SUBSET E!Universo(r), NEW excluir \in SUBSET E!Universo(r), Cardinality(fixos) <= size,
           fixos \cap excluir = {}
    PROVE  E!generateMany(r, size, fixos, excluir, wanted)
              <=> Cardinality(Possiveis(size, E!Universo(r), fixos, excluir)) >= wanted
  <1> DEFINE dezenas == E!Universo(r)
             livres_ == dezenas \ (fixos \cup excluir)
             n == Cardinality(dezenas) - Cardinality(excluir) - Cardinality(fixos)
             pick == size - Cardinality(fixos)
  <1>1. IsFiniteSet(dezenas) /\ Cardinality(dezenas) = E!universeSize(r)
    BY UniverseCounted
  <1>2. size \in Nat /\ wanted \in Nat \ {0}
    BY FirstNumbers, JogosAssumption
  <1>3. /\ IsFiniteSet(fixos) /\ IsFiniteSet(excluir) /\ IsFiniteSet(livres_)
        /\ Cardinality(fixos) \in Nat /\ Cardinality(excluir) \in Nat /\ Cardinality(livres_) \in Nat /\ Cardinality(dezenas) \in Nat
    <2>1. livres_ \in SUBSET dezenas
      OBVIOUS
    <2>2. QED
      BY <1>1, <2>1, FS_Subset, FS_CardinalityType
  <1>4. Cardinality(livres_) = n
    <2>1. Cardinality(fixos \cup excluir) = Cardinality(fixos) + Cardinality(excluir) - Cardinality(fixos \cap excluir)
      BY <1>3, FS_Union
    <2>2. dezenas \cap (fixos \cup excluir) = fixos \cup excluir
      OBVIOUS
    <2>3. Cardinality(livres_) = Cardinality(dezenas) - Cardinality(fixos \cup excluir)
      BY <1>1, <2>2, FS_Difference
    <2>4. Cardinality(fixos \cap excluir) = 0
      BY FS_EmptySet
    <2>5. QED
      BY <1>3, <2>1, <2>3, <2>4
  <1>5. excluir \ fixos = excluir
    OBVIOUS
  <1>6. E!generateMany(r, size, fixos, excluir, wanted) <=> pick <= n /\ E!choose(n, pick) >= wanted
    BY <1>1, <1>5 DEF E!generateMany, E!Cardinality, Cardinality
  <1>7. n \in Nat /\ pick \in Nat
    BY <1>2, <1>3, <1>4
  <1>8. Cardinality(Possiveis(size, dezenas, fixos, excluir)) = Quantas(pick, livres_)
    BY <1>1, <1>2, GamesLeft
  <1> HIDE DEF n, pick, livres_, dezenas
  <1>9. E!choose(n, pick) = Quantas(pick, livres_)
    BY <1>3, <1>4, <1>7, ChooseOf
  <1>10. pick > n => Quantas(pick, livres_) = 0
    BY <1>3, <1>4, <1>7, TooMany
  <1>11. QED
    BY <1>2, <1>6, <1>7, <1>8, <1>9, <1>10 DEF dezenas

\* The properties, of an answer.
ComChances(x) ==
    x.op = "probabilidade" =>
        /\ \A h \in 0..x.r.sorteia :
              x.faixas[h] = E!Cardinality({s \in E!Sorteios(x.r) : E!Cardinality(s \cap (x.r.menor..(x.r.menor + x.k - 1))) = h})
        /\ \A j \in 0..x.k :
              x.paridade[j] = E!Cardinality({s \in E!kSubset(x.k, E!Universo(x.r)) : E!Cardinality(E!Impares(s)) = j})
        /\ x.simples = E!Cardinality(E!kSubset(x.r.apostaMin, x.r.menor..(x.r.menor + x.k - 1)))
ComJogos(x) ==
    x.op = "gera" /\ x.fixos \cap x.excluir = {} =>
        /\ x.aceito <=> E!Cardinality({s \in E!kSubset(x.size, E!Universo(x.r)) : x.fixos \subseteq s /\ s \cap x.excluir = {}}) >= x.wanted
        /\ x.aceito => x.jogo \in {s \in E!kSubset(x.size, E!Universo(x.r)) : x.fixos \subseteq s /\ s \cap x.excluir = {}}

LEMMA OddsAre == ComChances(consulta) <=> E!ChancesExatas
  BY Zenon DEF ComChances, E!ChancesExatas

LEMMA PromisesAre == ComJogos(consulta) <=> E!GeradosServem
  BY Zenon DEF ComJogos, E!GeradosServem

\* Games are promised exactly when there are so many, and each of them is as asked.
LEMMA PromisesKept == ASSUME E!Gera PROVE E!GeradosServem'
  <1>1. PICK r \in Loterias : \E size \in r.apostaMin..r.apostaMax : \E wanted \in Quantidades :
          \E fixos, excluir \in SUBSET E!Universo(r) :
              /\ Cardinality(fixos) <= size
              /\ \E jogo \in E!Sugeridos(r, size, fixos, excluir) :
                consulta' = [op |-> "gera", r |-> r, size |-> size, wanted |-> wanted,
                             fixos |-> fixos, excluir |-> excluir, jogo |-> jogo,
                             aceito |-> E!generateMany(r, size, fixos, excluir, wanted)]
    BY DEF E!Gera, E!Cardinality, Cardinality
  <1>2. PICK size \in r.apostaMin..r.apostaMax, wanted \in Quantidades, fixos \in SUBSET E!Universo(r),
             excluir \in SUBSET E!Universo(r) :
              /\ Cardinality(fixos) <= size
              /\ \E jogo \in E!Sugeridos(r, size, fixos, excluir) :
                consulta' = [op |-> "gera", r |-> r, size |-> size, wanted |-> wanted,
                             fixos |-> fixos, excluir |-> excluir, jogo |-> jogo,
                             aceito |-> E!generateMany(r, size, fixos, excluir, wanted)]
    BY <1>1
  <1>3. /\ consulta'.r = r /\ consulta'.size = size /\ consulta'.wanted = wanted /\ consulta'.fixos = fixos
        /\ consulta'.excluir = excluir /\ consulta'.aceito = E!generateMany(r, size, fixos, excluir, wanted)
        /\ consulta'.op = "gera"
    BY <1>2
  <1>4. SUFFICES ASSUME fixos \cap excluir = {}
                 PROVE  /\ E!generateMany(r, size, fixos, excluir, wanted)
                             <=> E!Cardinality({s \in E!kSubset(size, E!Universo(r)) : fixos \subseteq s /\ s \cap excluir = {}}) >= wanted
                        /\ E!generateMany(r, size, fixos, excluir, wanted)
                             => consulta'.jogo \in {s \in E!kSubset(size, E!Universo(r)) : fixos \subseteq s /\ s \cap excluir = {}}
    BY <1>3 DEF E!GeradosServem
  <1>5. E!Cardinality({s \in E!kSubset(size, E!Universo(r)) : fixos \subseteq s /\ s \cap excluir = {}})
          = Cardinality(Possiveis(size, E!Universo(r), fixos, excluir))
    BY DEF Possiveis, Escolhas, E!kSubset, E!Cardinality, Cardinality
  <1>6. E!generateMany(r, size, fixos, excluir, wanted)
          <=> Cardinality(Possiveis(size, E!Universo(r), fixos, excluir)) >= wanted
    BY <1>2, <1>4, PromisesCounted
  <1>7. E!generateMany(r, size, fixos, excluir, wanted)
          => consulta'.jogo \in {s \in E!kSubset(size, E!Universo(r)) : fixos \subseteq s /\ s \cap excluir = {}}
    BY <1>3, <1>4, GeneratedAsAsked DEF GeradoComoPedido
  <1>8. QED
    BY <1>5, <1>6, <1>7

\* The odds shown are exact (tierProbabilities, theoreticalParity): each is the number of draws, or of games, it speaks
\* of; games are promised exactly when so many different ones exist under the rules, and each is as asked (generateMany).
THEOREM OddsAndPromises == Spec => [](E!ChancesExatas /\ E!GeradosServem)
  <1> DEFINE Certo == E!ChancesExatas /\ E!GeradosServem
  <1>1. Init => Certo
    BY DEF Init, E!Init, E!Nenhuma, E!ChancesExatas, E!GeradosServem
  <1>2. ASSUME E!Next PROVE Certo'
    <2>1. CASE E!Probabilidades
      <3>1. consulta'.op = "probabilidade"
        BY <2>1 DEF E!Probabilidades
      <3>2. QED
        BY <2>1, <3>1, OddsCounted DEF E!GeradosServem
    <2>2. CASE E!Gera
      <3>1. consulta'.op = "gera"
        BY <2>2 DEF E!Gera
      <3>2. QED
        BY <2>2, <3>1, PromisesKept DEF E!ChancesExatas
    <2>3. CASE E!Estatistica \/ E!Analisa \/ E!Sugere \/ E!Regra \/ E!Importa
      <3>1. consulta'.op \in {"estatistica", "analise", "sugere", "regra", "importa"}
        BY <2>3 DEF E!Estatistica, E!Analisa, E!Sugere, E!Regra, E!Importa
      <3>2. QED
        BY <3>1 DEF E!ChancesExatas, E!GeradosServem
    <2>4. QED
      BY <1>2, <2>1, <2>2, <2>3 DEF E!Next
  <1>3. ComChances(consulta) /\ ComJogos(consulta) /\ UNCHANGED consulta => ComChances(consulta)' /\ ComJogos(consulta)'
    BY Zenon
  <1>4. Certo /\ UNCHANGED consulta => Certo'
    BY <1>3, OddsAre, PromisesAre, PTL
  <1> HIDE DEF Certo
  <1>5. Spec => []Certo
    BY <1>1, <1>2, <1>4, EstatisticasMoves, PTL DEF Spec
  <1>6. QED
    BY <1>5, PTL DEF Certo

-----------------------------------------------------------------------------
(* Sums, counts and orders *)

\* A sum over a part is a sum of what is left of the terms there.
LEMMA TotalOfPart ==
    ASSUME NEW S, IsFiniteSet(S), NEW parte \in SUBSET S, NEW w \in [S -> Nat], NEW u \in [S -> Nat],
           \A c \in S : u[c] = IF c \in parte THEN w[c] ELSE 0
    PROVE  Total(u, S) = Total(w, parte)
  <1> DEFINE M == {s \in SUBSET S : Total(u, s) = Total(w, s \cap parte)}
  <1>1. {} \in M
    <2>1. {} \cap parte = {} /\ Total(u, {}) = 0 /\ Total(w, {}) = 0
      BY TotalOf
    <2>2. QED
      BY <2>1
  <1>2. ASSUME NEW s \in SUBSET S, NEW c \in s, s \ {c} \in M PROVE s \in M
    <2>1. Total(u, s) = u[c] + Total(u, s \ {c})
      BY TotalStep
    <2>2. Total(u, s \ {c}) = Total(w, (s \ {c}) \cap parte)
      BY <1>2
    <2>3. CASE c \in parte
      <3>1. s \cap parte \in SUBSET S /\ c \in s \cap parte /\ (s \cap parte) \ {c} = (s \ {c}) \cap parte
        BY <2>3
      <3>2. Total(w, s \cap parte) = w[c] + Total(w, (s \ {c}) \cap parte)
        BY <3>1, TotalStep
      <3>3. u[c] = w[c]
        BY <2>3
      <3>4. QED
        BY <2>1, <2>2, <3>2, <3>3
    <2>4. CASE c \notin parte
      <3>1. s \cap parte = (s \ {c}) \cap parte
        BY <2>4
      <3>2. u[c] = 0
        BY <2>4
      <3>3. Total(w, (s \ {c}) \cap parte) \in Nat
        <4>1. (s \ {c}) \cap parte \in SUBSET S
          OBVIOUS
        <4>2. QED
          BY <4>1, TotalOf
      <3>4. Total(u, s) = Total(w, s \cap parte)
        <4>1. PICK n \in Nat : n = Total(w, (s \ {c}) \cap parte)
          BY <3>3
        <4>2. Total(u, s) = 0 + n
          BY <2>1, <2>2, <3>2, <4>1
        <4>3. QED
          BY <3>1, <4>1, <4>2
      <3>5. QED
        BY <3>4
    <2>5. QED
      BY <2>3, <2>4
  <1> HIDE DEF M
  <1>3. \A s \in SUBSET S : (\A c \in s : s \ {c} \in M) => s \in M
    BY <1>1, <1>2
  <1>4. \A s \in SUBSET S : s \in M
    BY <1>3, SubsetInduction, Zenon
  <1>5. S \in SUBSET S /\ S \cap parte = parte
    OBVIOUS
  <1>6. S \in M
    BY <1>4, <1>5
  <1>7. QED
    BY <1>5, <1>6 DEF M

LEMMA TotalRestricted ==
    ASSUME NEW S, NEW w \in [S -> Nat], NEW parte \in SUBSET S, NEW u \in [parte -> Nat], \A c \in parte : u[c] = w[c]
    PROVE  Total(u, parte) = Total(w, parte)
  <1>1. \A c \in parte : {c} \X (1..u[c]) = {c} \X (1..w[c])
    OBVIOUS
  <1>2. Marcas(u, parte) = Marcas(w, parte)
    BY <1>1, Zenon DEF Marcas
  <1>3. QED
    BY <1>2 DEF Total

\* The terms of a column, and the sums of the columns and of the rows.
Coluna(a, S, t) == [c \in S |-> a[c][t]]
PorColuna(a, S, Y) == [t \in Y |-> Total(Coluna(a, S, t), S)]
PorLinha(a, S, Y) == [c \in S |-> Total(a[c], Y)]

LEMMA TotalsExchange ==
    ASSUME NEW S, IsFiniteSet(S), NEW Y, IsFiniteSet(Y), NEW a \in [S -> [Y -> Nat]]
    PROVE  Total(PorLinha(a, S, Y), S) = Total(PorColuna(a, S, Y), Y)
  <1> DEFINE Ate(s) == [t \in Y |-> Total(Coluna(a, S, t), s)]
             M == {s \in SUBSET S : Total(PorLinha(a, S, Y), s) = Total(Ate(s), Y)}
  <1>0. /\ PorLinha(a, S, Y) \in [S -> Nat]
        /\ \A t \in Y : Coluna(a, S, t) \in [S -> Nat]
        /\ \A c \in S : a[c] \in [Y -> Nat] /\ PorLinha(a, S, Y)[c] = Total(a[c], Y)
        /\ \A t \in Y, c \in S : Coluna(a, S, t)[c] = a[c][t]
    <2>1. \A c \in S : Total(a[c], Y) \in Nat
      <3>1. Y \in SUBSET Y
        OBVIOUS
      <3>2. QED
        BY <3>1, TotalOf
    <2>2. QED
      BY <2>1 DEF PorLinha, Coluna
  <1>1. \A s \in SUBSET S : Ate(s) \in [Y -> Nat] /\ \A t \in Y : Ate(s)[t] = Total(Coluna(a, S, t), s)
    BY <1>0, TotalOf
  <1>2. {} \in M
    <2>1. Total(PorLinha(a, S, Y), {}) = 0
      BY <1>0, TotalOf
    <2>3. Ate({}) \in [Y -> Nat] /\ {} \in SUBSET S
      BY <1>1
    <2>2. ASSUME NEW t \in Y PROVE Ate({})[t] = 0 * Ate({})[t]
      <3>1. Coluna(a, S, t) \in [S -> Nat]
        BY <1>0
      <3>2. Total(Coluna(a, S, t), {}) = 0
        BY <3>1, TotalOf
      <3>3. Ate({})[t] = 0
        BY <1>1, <2>3, <3>2
      <3>4. QED
        BY <3>3
    <2> HIDE DEF Ate
    <2>4. Total(Ate({}), Y) = 0 * Total(Ate({}), Y)
      BY <2>2, <2>3, TotalsScale
    <2>5. Total(Ate({}), Y) \in Nat
      BY <2>3, TotalOf
    <2>6. Total(Ate({}), Y) = 0
      BY <2>4, <2>5
    <2>7. QED
      BY <2>1, <2>3, <2>6
  <1>3. ASSUME NEW s \in SUBSET S, NEW c \in s, s \ {c} \in M PROVE s \in M
    <2>2. s \ {c} \in SUBSET S /\ c \in S
      OBVIOUS
    <2>1. Total(PorLinha(a, S, Y), s) = Total(a[c], Y) + Total(PorLinha(a, S, Y), s \ {c})
      <3>1. PICK w \in [S -> Nat] : w = PorLinha(a, S, Y) /\ w[c] = Total(a[c], Y)
        BY <1>0, <2>2
      <3>2. Total(w, s) = w[c] + Total(w, s \ {c})
        BY TotalStep
      <3>3. QED
        BY <3>1, <3>2
    <2>3. ASSUME NEW t \in Y PROVE Ate(s)[t] = a[c][t] + Ate(s \ {c})[t]
      <3>1. Total(Coluna(a, S, t), s) = Coluna(a, S, t)[c] + Total(Coluna(a, S, t), s \ {c})
        <4>1. PICK w \in [S -> Nat] : w = Coluna(a, S, t)
          BY <1>0
        <4>2. Total(w, s) = w[c] + Total(w, s \ {c})
          BY TotalStep
        <4>3. QED
          BY <4>1, <4>2
      <3>2. QED
        BY <1>0, <1>1, <2>2, <3>1
    <2>4. Ate(s) \in [Y -> Nat] /\ Ate(s \ {c}) \in [Y -> Nat] /\ a[c] \in [Y -> Nat]
      BY <1>0, <1>1, <2>2
    <2>5. Total(PorLinha(a, S, Y), s \ {c}) = Total(Ate(s \ {c}), Y)
      BY <1>3
    <2> HIDE DEF Ate
    <2>6. Total(Ate(s), Y) = Total(a[c], Y) + Total(Ate(s \ {c}), Y)
      <3>1. PICK u \in [Y -> Nat] : u = Ate(s)
        BY <2>4, Zenon
      <3>2. PICK v \in [Y -> Nat] : v = a[c]
        BY <2>4, Zenon
      <3>3. PICK w \in [Y -> Nat] : w = Ate(s \ {c})
        BY <2>4, Zenon
      <3>4. \A t \in Y : u[t] = v[t] + w[t]
        BY <2>3, <3>1, <3>2, <3>3
      <3>5. Total(u, Y) = Total(v, Y) + Total(w, Y)
        BY <3>4, TotalsAdd
      <3>6. QED
        BY <3>1, <3>2, <3>3, <3>5, Zenon
    <2>7. QED
      BY <2>1, <2>5, <2>6
  <1>4. S \in M
    <2> HIDE DEF M
    <2>1. \A s \in SUBSET S : (\A c \in s : s \ {c} \in M) => s \in M
      BY <1>2, <1>3
    <2>2. \A s \in SUBSET S : s \in M
      BY <2>1, SubsetInduction, Zenon
    <2>3. QED
      BY <2>2
  <1>5. Ate(S) = PorColuna(a, S, Y)
    BY DEF PorColuna
  <1>6. QED
    BY <1>4, <1>5

\* Who has t, and what each of those it is in adds.
Quem(P, S, t) == {i \in S : t \in P[i]}
Vezes(P, S, Y, g) == [t \in Y |-> g[t] * Cardinality(Quem(P, S, t))]
Parcelas(P, S, g) == [i \in S |-> Total(g, P[i])]

LEMMA WhoIsFinite ==
    ASSUME NEW S, IsFiniteSet(S), NEW P, NEW t
    PROVE  Quem(P, S, t) \in SUBSET S /\ IsFiniteSet(Quem(P, S, t)) /\ Cardinality(Quem(P, S, t)) \in Nat
  <1>1. Quem(P, S, t) \in SUBSET S
    BY DEF Quem
  <1>2. QED
    BY <1>1, FS_Subset, FS_CardinalityType

\* Counted by what there is in each, or by where each is, the sum is the same.
LEMMA CountedTwice ==
    ASSUME NEW S, IsFiniteSet(S), NEW Y, IsFiniteSet(Y), NEW P \in [S -> SUBSET Y], NEW g \in [Y -> Nat]
    PROVE  Total(Vezes(P, S, Y, g), Y) = Total(Parcelas(P, S, g), S)
  <1> DEFINE a == [i \in S |-> [t \in Y |-> IF t \in P[i] THEN g[t] ELSE 0]]
             um(t) == [i \in S |-> IF i \in Quem(P, S, t) THEN 1 ELSE 0]
  <1>1. a \in [S -> [Y -> Nat]] /\ \A i \in S, t \in Y : a[i][t] = IF t \in P[i] THEN g[t] ELSE 0
    OBVIOUS
  <1>2. \A t \in Y : um(t) \in [S -> Nat] /\ \A i \in S : um(t)[i] = IF i \in Quem(P, S, t) THEN 1 ELSE 0
    OBVIOUS
  <1> HIDE DEF a, um
  <1>3. ASSUME NEW i \in S PROVE Total(a[i], Y) = Total(g, P[i])
    <2>1. a[i] \in [Y -> Nat] /\ P[i] \in SUBSET Y /\ \A t \in Y : a[i][t] = IF t \in P[i] THEN g[t] ELSE 0
      BY <1>1
    <2>2. QED
      BY <2>1, TotalOfPart
  <1>4. PorLinha(a, S, Y) = Parcelas(P, S, g)
    BY <1>3, Zenon DEF PorLinha, Parcelas
  <1>5. ASSUME NEW t \in Y PROVE Total(Coluna(a, S, t), S) = g[t] * Cardinality(Quem(P, S, t))
    <2>1. Coluna(a, S, t) \in [S -> Nat] /\ \A i \in S : Coluna(a, S, t)[i] = IF t \in P[i] THEN g[t] ELSE 0
      BY <1>1 DEF Coluna
    <2>2. \A i \in S : i \in Quem(P, S, t) <=> t \in P[i]
      BY DEF Quem
    <2>3. g[t] \in Nat /\ um(t) \in [S -> Nat] /\ \A i \in S : um(t)[i] = IF i \in Quem(P, S, t) THEN 1 ELSE 0
      BY <1>2
    <2>4. \A i \in S : Coluna(a, S, t)[i] = g[t] * um(t)[i]
      BY <2>1, <2>2, <2>3
    <2>5. Total(Coluna(a, S, t), S) = g[t] * Total(um(t), S)
      BY <2>1, <2>3, <2>4, TotalsScale, ZenonT(60)
    <2>6. Total(um(t), S) = Cardinality(Quem(P, S, t))
      BY <2>3, WhoIsFinite, TotalOfChosen
    <2>7. QED
      BY <2>5, <2>6
  <1>6. PorColuna(a, S, Y) = Vezes(P, S, Y, g)
    BY <1>5, Zenon DEF PorColuna, Vezes
  <1>7. QED
    BY <1>1, <1>4, <1>6, TotalsExchange

\* A sum of ones, and of the same.
LEMMA TotalOfOnes ==
    ASSUME NEW S, IsFiniteSet(S), NEW parte \in SUBSET S, NEW g \in [S -> Nat], \A c \in S : g[c] = 1
    PROVE  Total(g, parte) = Cardinality(parte)
  <1> DEFINE u == [c \in S |-> IF c \in parte THEN g[c] ELSE 0]
  <1>1. u \in [S -> Nat] /\ (\A c \in S : u[c] = IF c \in parte THEN g[c] ELSE 0) /\ \A c \in S : u[c] = IF c \in parte THEN 1 ELSE 0
    OBVIOUS
  <1> HIDE DEF u
  <1>2. Total(u, S) = Total(g, parte)
    BY <1>1, TotalOfPart
  <1>3. Total(u, S) = Cardinality(parte)
    BY <1>1, TotalOfChosen
  <1>4. QED
    BY <1>2, <1>3

LEMMA TotalOfEqual ==
    ASSUME NEW S, IsFiniteSet(S), NEW k \in Nat, NEW w \in [S -> Nat], \A c \in S : w[c] = k
    PROVE  Total(w, S) = k * Cardinality(S)
  <1> DEFINE g == [c \in S |-> 1]
  <1>1. g \in [S -> Nat] /\ (\A c \in S : g[c] = 1) /\ S \in SUBSET S
    OBVIOUS
  <1> HIDE DEF g
  <1>2. Total(g, S) = Cardinality(S)
    BY <1>1, TotalOfOnes
  <1>3. \A c \in S : w[c] = k * g[c]
    BY <1>1
  <1>4. Total(w, S) = k * Total(g, S)
    BY <1>1, <1>3, TotalsScale
  <1>5. QED
    BY <1>2, <1>4

\* Those before each element, in a total order, and the elements in that order.
Ordena(S, antes) ==
    /\ antes \in [S -> SUBSET S]
    /\ \A v \in S : v \notin antes[v]
    /\ \A u, v \in S : u \in antes[v] => antes[u] \subseteq antes[v]
    /\ \A u, v \in S : u # v => u \in antes[v] \/ v \in antes[u]
Posta(S, antes) == [i \in 1..Cardinality(S) |-> CHOOSE v \in S : Cardinality(antes[v]) = i - 1]
EmSequencia(S, antes, ordem) ==
    /\ ordem \in [1..Cardinality(S) -> S]
    /\ \A v \in S : \E i \in 1..Cardinality(S) : ordem[i] = v
    /\ \A i, j \in 1..Cardinality(S) : ordem[i] \in antes[ordem[j]] <=> i < j

LEMMA OrderIs ==
    ASSUME NEW S, IsFiniteSet(S), NEW antes, Ordena(S, antes)
    PROVE  EmSequencia(S, antes, Posta(S, antes))
  <1> DEFINE n == Cardinality(S)
             lugar == [v \in S |-> Cardinality(antes[v]) + 1]
             ordem == Posta(S, antes)
  <1>1. n \in Nat
    BY FS_CardinalityType
  <1>2. ASSUME NEW v \in S PROVE IsFiniteSet(antes[v]) /\ Cardinality(antes[v]) \in 0..(n - 1)
    <2>1. antes[v] \in SUBSET S /\ antes[v] # S
      BY DEF Ordena
    <2>2. IsFiniteSet(antes[v]) /\ Cardinality(antes[v]) \in Nat /\ Cardinality(antes[v]) <= n /\ Cardinality(antes[v]) # n
      <3>1. IsFiniteSet(antes[v]) /\ Cardinality(antes[v]) <= n /\ Cardinality(antes[v]) # n
        BY <2>1, FS_Subset
      <3>2. QED
        BY <3>1, FS_CardinalityType
    <2>3. QED
      BY <1>1, <2>2
  <1>3. ASSUME NEW u \in S, NEW v \in S, u \in antes[v] PROVE Cardinality(antes[u]) < Cardinality(antes[v])
    <2>1. antes[u] \in SUBSET antes[v] /\ antes[u] # antes[v]
      BY <1>3 DEF Ordena
    <2>2. IsFiniteSet(antes[v]) /\ Cardinality(antes[v]) \in Nat /\ Cardinality(antes[u]) \in Nat
      BY <1>2
    <2>3. Cardinality(antes[u]) <= Cardinality(antes[v]) /\ Cardinality(antes[u]) # Cardinality(antes[v])
      BY <2>1, <2>2, FS_Subset
    <2>4. QED
      BY <2>2, <2>3
  <1>4. ASSUME NEW u \in S, NEW v \in S PROVE Cardinality(antes[u]) = Cardinality(antes[v]) => u = v
    <2>1. u # v => u \in antes[v] \/ v \in antes[u]
      BY DEF Ordena
    <2>2. Cardinality(antes[u]) \in Int /\ Cardinality(antes[v]) \in Int
      BY <1>2
    <2>3. QED
      BY <1>3, <2>1, <2>2
  <1>5. \A v \in S : lugar[v] = Cardinality(antes[v]) + 1 /\ lugar[v] \in 1..n
    BY <1>1, <1>2
  <1>6. lugar \in Injection(S, 1..n)
    <2>1. lugar \in [S -> 1..n]
      BY <1>5
    <2>2. \A u, v \in S : lugar[u] = lugar[v] => u = v
      BY <1>2, <1>4, <1>5
    <2> HIDE DEF lugar, n
    <2>3. QED
      BY <2>1, <2>2 DEF Injection, IsInjective
  <1>7. lugar \in Surjection(S, 1..n)
    <2>1. IsFiniteSet(1..n) /\ Cardinality(1..n) = n
      <3>1. IsFiniteSet(1..n) /\ Cardinality(1..n) = IF 1 > n THEN 0 ELSE n - 1 + 1
        BY <1>1, FS_Interval
      <3>2. QED
        BY <1>1, <3>1
    <2> HIDE DEF lugar
    <2>2. QED
      BY <1>6, <2>1, FS_Injection
  <1>8. \A i \in 1..n : \E v \in S : lugar[v] = i
    <2> HIDE DEF lugar
    <2>1. QED
      BY <1>7 DEF Surjection
  <1>9. ASSUME NEW i \in 1..n PROVE ordem[i] \in S /\ Cardinality(antes[ordem[i]]) = i - 1
    <2>1. PICK v \in S : lugar[v] = i
      BY <1>8
    <2>2. Cardinality(antes[v]) = i - 1
      BY <1>2, <1>5, <2>1
    <2>3. ordem[i] = CHOOSE x \in S : Cardinality(antes[x]) = i - 1
      BY DEF Posta
    <2>4. QED
      BY <2>2, <2>3, Zenon
  <1>10. DOMAIN ordem = 1..n /\ ordem = [i \in 1..n |-> ordem[i]]
    BY DEF Posta
  <1> HIDE DEF ordem, lugar
  <1>11. ordem \in [1..n -> S]
    BY <1>9, <1>10
  <1>12. ASSUME NEW v \in S PROVE \E i \in 1..n : ordem[i] = v
    <2>1. PICK i \in 1..n : lugar[v] = i
      BY <1>5
    <2>2. Cardinality(antes[v]) = i - 1
      BY <1>2, <1>5, <2>1
    <2>3. ordem[i] = v
      BY <1>4, <1>9, <2>2
    <2>4. QED
      BY <2>3
  <1>13. ASSUME NEW i \in 1..n, NEW j \in 1..n PROVE ordem[i] \in antes[ordem[j]] <=> i < j
    <2>1. ordem[i] \in S /\ ordem[j] \in S /\ Cardinality(antes[ordem[i]]) = i - 1 /\ Cardinality(antes[ordem[j]]) = j - 1
      BY <1>9
    <2>2. CASE ordem[i] \in antes[ordem[j]]
      BY <1>3, <2>1, <2>2
    <2>3. CASE ordem[j] \in antes[ordem[i]]
      <3>1. j < i
        BY <1>3, <2>1, <2>3
      <3>2. ordem[i] \notin antes[ordem[j]]
        <4>1. ordem[i] \in antes[ordem[j]] => i - 1 < j - 1
          BY <1>3, <2>1
        <4>2. QED
          BY <3>1, <4>1
      <3>3. QED
        BY <3>1, <3>2
    <2>4. CASE ordem[i] = ordem[j]
      <3>1. i = j
        BY <2>1, <2>4
      <3>2. QED
        BY <2>1, <3>1 DEF Ordena
    <2>5. QED
      BY <2>1, <2>2, <2>3, <2>4 DEF Ordena
  <1>14. QED
    BY <1>11, <1>12, <1>13 DEF EmSequencia, ordem

\* Numbers in increasing or decreasing order.
LEMMA Increasing ==
    ASSUME NEW S \in SUBSET Int
    PROVE  Ordena(S, [v \in S |-> {u \in S : u < v}])
  <1> DEFINE antes == [v \in S |-> {u \in S : u < v}]
  <1>1. antes \in [S -> SUBSET S] /\ \A u, v \in S : u \in antes[v] <=> u < v
    OBVIOUS
  <1>2. \A v \in S : v \in Int
    OBVIOUS
  <1> HIDE DEF antes
  <1>3. \A u, v \in S : u \in antes[v] => antes[u] \subseteq antes[v]
    <2>1. ASSUME NEW u \in S, NEW v \in S, u \in antes[v], NEW w \in antes[u] PROVE w \in antes[v]
      <3>1. w \in S
        BY <1>1
      <3>2. QED
        BY <1>1, <1>2, <2>1, <3>1
    <2>2. QED
      BY <2>1
  <1>4. QED
    BY <1>1, <1>2, <1>3 DEF Ordena, antes

LEMMA Decreasing ==
    ASSUME NEW S \in SUBSET Int
    PROVE  Ordena(S, [v \in S |-> {u \in S : u > v}])
  <1> DEFINE antes == [v \in S |-> {u \in S : u > v}]
  <1>1. antes \in [S -> SUBSET S] /\ \A u, v \in S : u \in antes[v] <=> u > v
    OBVIOUS
  <1>2. \A v \in S : v \in Int
    OBVIOUS
  <1> HIDE DEF antes
  <1>3. \A u, v \in S : u \in antes[v] => antes[u] \subseteq antes[v]
    <2>1. ASSUME NEW u \in S, NEW v \in S, u \in antes[v], NEW w \in antes[u] PROVE w \in antes[v]
      <3>1. w \in S
        BY <1>1
      <3>2. QED
        BY <1>1, <1>2, <2>1, <3>1
    <2>2. QED
      BY <2>1
  <1>4. QED
    BY <1>1, <1>2, <1>3 DEF Ordena, antes

\* A finite set of integers has a largest and a smallest one.
LEMMA ExtremesExist ==
    ASSUME NEW S \in SUBSET Int, IsFiniteSet(S), S # {}
    PROVE  (\E x \in S : \A y \in S : x >= y) /\ (\E x \in S : \A y \in S : x <= y)
  <1> DEFINE M == {s \in SUBSET S : s # {} => (\E x \in s : \A y \in s : x >= y) /\ (\E x \in s : \A y \in s : x <= y)}
  <1>1. ASSUME NEW s \in SUBSET S, NEW c \in s, s \ {c} \in M PROVE s \in M
    <2>1. CASE s \ {c} = {}
      <3>1. \A y \in s : y = c
        BY <2>1
      <3>2. c \in Int
        OBVIOUS
      <3>3. QED
        BY <3>1, <3>2
    <2>2. CASE s \ {c} # {}
      <3>1. PICK a \in s \ {c} : \A y \in s \ {c} : a >= y
        BY <1>1, <2>2
      <3>2. PICK b \in s \ {c} : \A y \in s \ {c} : b <= y
        BY <1>1, <2>2
      <3>3. a \in Int /\ b \in Int /\ c \in Int /\ \A y \in s : y \in Int
        OBVIOUS
      <3>4. \E x \in s : \A y \in s : x >= y
        <4>1. CASE a >= c
          BY <3>1, <3>3, <4>1
        <4>2. CASE c >= a
          BY <3>1, <3>3, <4>2
        <4>3. QED
          BY <3>3, <4>1, <4>2
      <3>5. \E x \in s : \A y \in s : x <= y
        <4>1. CASE b <= c
          BY <3>2, <3>3, <4>1
        <4>2. CASE c <= b
          BY <3>2, <3>3, <4>2
        <4>3. QED
          BY <3>3, <4>1, <4>2
      <3>6. QED
        BY <3>4, <3>5
    <2>3. QED
      BY <2>1, <2>2
  <1>2. S \in M
    <2>1. \A s \in SUBSET S : (\A c \in s : s \ {c} \in M) => s \in M
      <3>1. {} \in M
        OBVIOUS
      <3> HIDE DEF M
      <3>2. QED
        BY <1>1, <3>1
    <2> HIDE DEF M
    <2>2. \A s \in SUBSET S : s \in M
      BY <2>1, SubsetInduction, Zenon
    <2>3. QED
      BY <2>2
  <1>3. QED
    BY <1>2

\* A sum where no term is smaller and one is larger is larger.
LEMMA TotalsStrict ==
    ASSUME NEW S, IsFiniteSet(S), NEW u \in [S -> Nat], NEW v \in [S -> Nat],
           \A c \in S : u[c] <= v[c], NEW x \in S, u[x] < v[x]
    PROVE  Total(u, S) < Total(v, S)
  <1> DEFINE d == [c \in S |-> v[c] - u[c]]
  <1>1. d \in [S -> Nat] /\ (\A c \in S : v[c] = u[c] + d[c]) /\ d[x] > 0 /\ S \in SUBSET S
    OBVIOUS
  <1> HIDE DEF d
  <1>2. Total(v, S) = Total(u, S) + Total(d, S)
    BY <1>1, TotalsAdd
  <1>3. Total(d, S) = d[x] + Total(d, S \ {x})
    BY <1>1, TotalStep
  <1>4. S \ {x} \in SUBSET S /\ d[x] \in Nat
    BY <1>1
  <1>5. Total(u, S) \in Nat /\ Total(d, S \ {x}) \in Nat
    BY <1>1, <1>4, TotalOf
  <1>6. QED
    BY <1>1, <1>2, <1>3, <1>4, <1>5

\* Where a loop over a sequence arrives, if each step keeps what is said of it.
LEMMA FoldReaches ==
    ASSUME NEW k \in Nat, NEW W, NEW base, NEW H, NEW it, NEW Inv \in SUBSET (Nat \X W),
           it[{}] = base,
           \A s \in SUBSET (1..k) : s # {} /\ it[s \ {Maior(s)}] \in W => it[s] = H[<<Maior(s), it[s \ {Maior(s)}]>>],
           <<0, base>> \in Inv,
           \A n \in 0..(k - 1), v \in W : <<n, v>> \in Inv => <<n + 1, H[<<n + 1, v>>]>> \in Inv
    PROVE  <<k, it[1..k]>> \in Inv
  <1> DEFINE M == {n \in Nat : n <= k => <<n, it[1..n]>> \in Inv}
  <1>1. 0 \in M
    <2>1. 1..0 = {}
      OBVIOUS
    <2>2. QED
      BY <2>1
  <1>2. ASSUME NEW n \in Nat, n \in M PROVE n + 1 \in M
    <2>1. ASSUME n + 1 <= k PROVE <<n + 1, it[1..(n + 1)]>> \in Inv
      <3>1. PICK i \in Nat : i = n + 1 /\ i \in 1..k /\ i - 1 = n /\ n \in 0..(k - 1)
        BY <2>1
      <3>2. 1..i \in SUBSET (1..k) /\ 1..i # {} /\ Maior(1..i) = i /\ (1..i) \ {i} = 1..(i - 1)
        BY <3>1, LargestOfFirst
      <3>3. <<n, it[1..n]>> \in Inv
        BY <1>2, <3>1
      <3>4. it[1..n] \in W
        BY <3>3
      <3>5. it[1..i] = H[<<i, it[1..n]>>]
        <4>1. (1..i) \ {Maior(1..i)} = 1..n
          BY <3>1, <3>2
        <4>2. QED
          BY <3>2, <3>4, <4>1
      <3>6. QED
        BY <3>1, <3>3, <3>4, <3>5
    <2>2. QED
      BY <2>1
  <1>3. k \in M
    <2> HIDE DEF M
    <2>1. QED
      BY <1>1, <1>2, NumberInduction
  <1>4. QED
    BY <1>3

LEMMA SumOf ==
    ASSUME NEW S, IsFiniteSet(S), NEW f \in [S -> Nat]
    PROVE  E!Soma(f) = Total(f, S)
  <1>1. DOMAIN f = S
    OBVIOUS
  <1>2. E!Soma(f) = (CHOOSE it : Soma(it, f, DOMAIN f))[DOMAIN f]
    BY Zenon DEF E!Soma, E!MapThenSumSet, E!MapThenFoldSet, Soma
  <1>3. Soma(CHOOSE it : Soma(it, f, S), f, S)
    BY SumExists, Zenon
  <1>4. (CHOOSE it : Soma(it, f, S))[S] = Total(f, S)
    BY <1>3, SumUnique, Zenon
  <1>5. QED
    BY <1>1, <1>2, <1>4

LEMMA LargerOfTwo ==
    ASSUME NEW a \in Int, NEW b \in Int
    PROVE  E!Max({a, b}) = (IF a >= b THEN a ELSE b) /\ E!Min({a, b}) = (IF a <= b THEN a ELSE b)
  <1>1. E!Max({a, b}) \in {a, b} /\ E!Max({a, b}) >= a /\ E!Max({a, b}) >= b
    <2>1. \E x \in {a, b} : \A y \in {a, b} : x >= y
      BY SMT
    <2>2. QED
      BY <2>1, Zenon DEF E!Max
  <1>2. E!Min({a, b}) \in {a, b} /\ E!Min({a, b}) <= a /\ E!Min({a, b}) <= b
    <2>1. \E x \in {a, b} : \A y \in {a, b} : x =< y
      BY SMT
    <2>2. QED
      BY <2>1, Zenon DEF E!Min
  <1>3. QED
    BY <1>1, <1>2

LEMMA LargestOf ==
    ASSUME NEW S \in SUBSET Int, NEW m \in S, \A y \in S : m >= y
    PROVE  E!Max(S) = m
  <1>1. E!Max(S) \in S /\ \A y \in S : E!Max(S) >= y
    BY Zenon DEF E!Max
  <1>2. PICK x \in Int : x = E!Max(S)
    BY <1>1
  <1>3. x >= m /\ m >= x /\ m \in Int
    BY <1>1, <1>2
  <1>4. QED
    BY <1>2, <1>3

LEMMA SmallestOf ==
    ASSUME NEW S \in SUBSET Int, IsFiniteSet(S), S # {}
    PROVE  /\ E!Min(S) \in S /\ \A y \in S : E!Min(S) <= y
           /\ E!Max(S) \in S /\ \A y \in S : E!Max(S) >= y
  <1>1. (\E x \in S : \A y \in S : x >= y) /\ \E x \in S : \A y \in S : x =< y
    BY ExtremesExist
  <1>2. QED
    BY <1>1, Zenon DEF E!Min, E!Max

\* The lotteries of the computations.
LEMMA LotteryIs ==
    ASSUME NEW r \in Loterias \cup Cartelas
    PROVE  /\ r.menor \in Nat /\ r.maior \in Nat /\ r.menor <= r.maior
           /\ r.sorteia \in Nat \ {0} /\ r.sorteia <= r.maior - r.menor + 1
           /\ r.apostaMin \in Nat \ {0} /\ r.apostaMax \in Nat /\ r.apostaMax <= r.maior - r.menor + 1
           /\ r.apostaMin >= r.sorteia
           /\ E!Universo(r) = r.menor..r.maior /\ E!universeSize(r) = r.maior - r.menor + 1
           /\ E!Universo(r) \in SUBSET Nat /\ IsFiniteSet(E!Universo(r)) /\ Cardinality(E!Universo(r)) = r.maior - r.menor + 1
  <1>1. /\ r.menor \in Nat /\ r.maior \in Nat /\ r.menor <= r.maior
        /\ r.sorteia \in Nat \ {0} /\ r.sorteia <= r.maior - r.menor + 1
        /\ r.apostaMin \in Nat \ {0} /\ r.apostaMax \in Nat /\ r.apostaMax <= r.maior - r.menor + 1
        /\ r.apostaMin >= r.sorteia
    BY DEF Loterias, Cartelas
  <1>2. E!Universo(r) = r.menor..r.maior /\ E!universeSize(r) = r.maior - r.menor + 1
    BY DEF E!Universo, E!universeSize
  <1>3. IsFiniteSet(E!Universo(r)) /\ Cardinality(E!Universo(r)) = E!universeSize(r)
    BY UniverseCounted
  <1>4. E!Universo(r) \in SUBSET Nat
    BY <1>1, <1>2
  <1>5. QED
    BY <1>1, <1>2, <1>3, <1>4

\* A history is a sequence of draws.
Historico(r, draws) ==
    /\ Len(draws) \in Nat /\ DOMAIN draws = 1..Len(draws)
    /\ \A i \in 1..Len(draws) : draws[i].dezenas \in E!Sorteios(r)
Dezenas(draws) == [i \in 1..Len(draws) |-> draws[i].dezenas]

LEMMA DrawIs ==
    ASSUME NEW r \in Loterias, NEW draws, Historico(r, draws), NEW i \in 1..Len(draws)
    PROVE  /\ draws[i].dezenas \in SUBSET E!Universo(r) /\ Cardinality(draws[i].dezenas) = r.sorteia
           /\ draws[i].dezenas \in SUBSET Nat /\ IsFiniteSet(draws[i].dezenas)
           /\ Dezenas(draws)[i] = draws[i].dezenas
  <1>1. draws[i].dezenas \in E!Sorteios(r) /\ Dezenas(draws)[i] = draws[i].dezenas
    BY DEF Historico, Dezenas
  <1>2. draws[i].dezenas \in SUBSET E!Universo(r) /\ Cardinality(draws[i].dezenas) = r.sorteia
    BY <1>1 DEF E!Sorteios, E!kSubset, E!Cardinality, Cardinality
  <1>3. IsFiniteSet(E!Universo(r)) /\ E!Universo(r) \in SUBSET Nat
    BY LotteryIs
  <1>4. IsFiniteSet(draws[i].dezenas)
    BY <1>2, <1>3, FS_Subset
  <1>5. QED
    BY <1>1, <1>2, <1>3, <1>4

LEMMA DrawsAre ==
    ASSUME NEW r \in Loterias, NEW draws, Historico(r, draws)
    PROVE  /\ Len(draws) \in Nat /\ IsFiniteSet(1..Len(draws)) /\ Cardinality(1..Len(draws)) = Len(draws)
           /\ DOMAIN draws = 1..Len(draws)
           /\ Dezenas(draws) \in [1..Len(draws) -> SUBSET E!Universo(r)]
  <1>1. Len(draws) \in Nat /\ DOMAIN draws = 1..Len(draws)
    BY DEF Historico
  <1>2. IsFiniteSet(1..Len(draws)) /\ Cardinality(1..Len(draws)) = IF 1 > Len(draws) THEN 0 ELSE Len(draws) - 1 + 1
    BY <1>1, FS_Interval
  <1>3. \A i \in 1..Len(draws) : draws[i].dezenas \in SUBSET E!Universo(r)
    BY DrawIs
  <1>4. QED
    BY <1>1, <1>2, <1>3 DEF Dezenas

-----------------------------------------------------------------------------
(* Neighbours and runs (consecutiveInfo) *)

Crescem(S) == [v \in S |-> {u \in S : u < v}]
Corrida == [antes : SUBSET Int, run : Nat, maxRun : Nat, pairs : Nat]
SemCorrida == [antes |-> {}, run |-> 0, maxRun |-> 0, pairs |-> 0]
Corre(it, ordem, k) ==
    it = [s \in SUBSET (1..k) |-> IF s = {} THEN SemCorrida ELSE E!Emenda(it[s \ {Maior(s)}], ordem[Maior(s)])]

LEMMA RunGrows ==
    ASSUME NEW a \in Corrida, NEW v \in Int
    PROVE  LET segue == v - 1 \in a.antes
               run == IF segue THEN a.run + 1 ELSE 1
           IN  /\ E!Emenda(a, v) \in Corrida
               /\ E!Emenda(a, v).antes = {v} /\ E!Emenda(a, v).run = run
               /\ E!Emenda(a, v).maxRun = (IF a.maxRun >= run THEN a.maxRun ELSE run)
               /\ E!Emenda(a, v).pairs = a.pairs + (IF segue THEN 1 ELSE 0)
  <1> DEFINE segue == v - 1 \in a.antes
             run == IF segue THEN a.run + 1 ELSE 1
  <1>1. a.run \in Nat /\ a.maxRun \in Nat /\ a.pairs \in Nat
    BY DEF Corrida
  <1>2. run \in Nat
    BY <1>1
  <1>3. E!Emenda(a, v) = [antes |-> {v}, run |-> run, maxRun |-> E!Max({a.maxRun, run}),
                          pairs |-> a.pairs + (IF segue THEN 1 ELSE 0)]
    <2>1. (a.antes # {} /\ v - 1 \in a.antes) <=> segue
      OBVIOUS
    <2>2. QED
      BY <2>1 DEF E!Emenda
  <1>4. E!Max({a.maxRun, run}) = IF a.maxRun >= run THEN a.maxRun ELSE run
    <2> HIDE DEF run
    <2>1. QED
      BY <1>1, <1>2, LargerOfTwo
  <1> HIDE DEF run
  <1>5. QED
    BY <1>1, <1>2, <1>3, <1>4 DEF Corrida, run

LEMMA RunExists ==
    ASSUME NEW k \in Nat, NEW ordem \in [1..k -> Int]
    PROVE  \E it : Corre(it, ordem, k)
  <1> DEFINE H == [p \in (1..k) \X Corrida |-> E!Emenda(p[2], ordem[p[1]])]
  <1>1. ASSUME NEW x \in 1..k, NEW a \in Corrida PROVE H[<<x, a>>] = E!Emenda(a, ordem[x]) /\ H[<<x, a>>] \in Corrida
    <2>1. <<x, a>> \in (1..k) \X Corrida /\ ordem[x] \in Int
      OBVIOUS
    <2>2. H[<<x, a>>] = E!Emenda(a, ordem[x])
      BY <2>1
    <2> HIDE DEF H
    <2>3. QED
      BY <2>1, <2>2, RunGrows
  <1>2. SemCorrida \in Corrida
    BY DEF Corrida, SemCorrida
  <1> HIDE DEF H
  <1>3. Leva(k, Corrida, H)
    BY <1>1, Zenon DEF Leva
  <1>4. PICK it \in [SUBSET (1..k) -> Corrida] : Dobra(it, k, SemCorrida, H)
    BY <1>2, <1>3, FoldExists
  <1>5. \A s \in SUBSET (1..k) : it[s] = IF s = {} THEN SemCorrida ELSE H[<<Maior(s), it[s \ {Maior(s)}]>>]
    BY <1>4, Zenon DEF Dobra
  <1>6. ASSUME NEW s \in SUBSET (1..k)
        PROVE  it[s] = IF s = {} THEN SemCorrida ELSE E!Emenda(it[s \ {Maior(s)}], ordem[Maior(s)])
    <2>1. CASE s = {}
      BY <1>5, <2>1
    <2>2. CASE s # {}
      <3>1. Maior(s) \in 1..k /\ s \ {Maior(s)} \in SUBSET (1..k)
        BY <2>2, LargestIs
      <3>2. it[s \ {Maior(s)}] \in Corrida
        BY <3>1
      <3>3. H[<<Maior(s), it[s \ {Maior(s)}]>>] = E!Emenda(it[s \ {Maior(s)}], ordem[Maior(s)])
        BY <1>1, <3>1, <3>2
      <3>4. QED
        BY <1>5, <2>2, <3>3
    <2>3. QED
      BY <2>1, <2>2
  <1>7. it = [s \in SUBSET (1..k) |-> it[s]]
    OBVIOUS
  <1>8. QED
    BY <1>6, <1>7, Zenon DEF Corre

\* After the first n numbers, in order.
Corrido(S, ordem, n, a) ==
    /\ a \in Corrida
    /\ a.antes = IF n = 0 THEN {} ELSE {ordem[n]}
    /\ a.pairs = Cardinality({i \in 1..n : ordem[i] - 1 \in S})
    /\ n = 0 => a.run = 0 /\ a.maxRun = 0
    /\ n > 0 => /\ a.run >= 1 /\ ordem[n] - a.run \notin S /\ (ordem[n] - a.run + 1)..ordem[n] \subseteq S
                /\ \E x, y \in S : x..y \subseteq S /\ a.maxRun = y - x + 1
    /\ \A i \in 1..n, x \in S : x..ordem[i] \subseteq S => ordem[i] - x + 1 <= a.maxRun

LEMMA RunKeeps ==
    ASSUME NEW S \in SUBSET Int, IsFiniteSet(S), NEW ordem, EmSequencia(S, Crescem(S), ordem),
           NEW n \in Nat, n + 1 <= Cardinality(S), NEW a, Corrido(S, ordem, n, a)
    PROVE  Corrido(S, ordem, n + 1, E!Emenda(a, ordem[n + 1]))
  <1> DEFINE k == Cardinality(S)
             v == ordem[n + 1]
             b == E!Emenda(a, v)
             segue == v - 1 \in a.antes
             run == IF segue THEN a.run + 1 ELSE 1
  <1>1. k \in Nat /\ n + 1 \in 1..k /\ (n # 0 => n \in 1..k)
    BY FS_CardinalityType
  <1>2. /\ ordem \in [1..k -> S]
        /\ \A i, j \in 1..k : ordem[i] < ordem[j] <=> i < j
        /\ \A u \in S : \E i \in 1..k : ordem[i] = u
    <2>1. ordem \in [1..k -> S] /\ (\A u \in S : \E i \in 1..k : ordem[i] = u)
          /\ \A i, j \in 1..k : ordem[i] \in Crescem(S)[ordem[j]] <=> i < j
      BY DEF EmSequencia
    <2>2. \A i, j \in 1..k : ordem[i] \in Crescem(S)[ordem[j]] <=> ordem[i] < ordem[j]
      BY <2>1 DEF Crescem
    <2>3. QED
      BY <2>1, <2>2
  <1>3. v \in S /\ v \in Int /\ \A i \in 1..k : ordem[i] \in Int
    BY <1>1, <1>2
  <1>4. a \in Corrida /\ a.run \in Nat /\ a.maxRun \in Nat /\ a.pairs \in Nat
    BY DEF Corrido, Corrida
  <1> HIDE DEF v
  <1>5. /\ b \in Corrida /\ b.antes = {v} /\ b.run = run /\ b.maxRun = (IF a.maxRun >= run THEN a.maxRun ELSE run)
        /\ b.pairs = a.pairs + (IF segue THEN 1 ELSE 0)
    BY <1>3, <1>4, RunGrows
  <1> HIDE DEF b
  <1>6. segue <=> v - 1 \in S
    <2>1. CASE n = 0
      <3>1. a.antes = {}
        BY <2>1 DEF Corrido
      <3>2. v - 1 \notin S
        <4>1. ASSUME v - 1 \in S PROVE FALSE
          <5>1. PICK i \in 1..k : ordem[i] = v - 1
            BY <1>2, <4>1
          <5>2. ordem[i] < v
            BY <1>3, <5>1
          <5>3. i < n + 1
            BY <1>1, <1>2, <5>2 DEF v
          <5>4. QED
            BY <2>1, <5>3
        <4>2. QED
          BY <4>1
      <3>3. QED
        BY <3>1, <3>2
    <2>2. CASE n # 0
      <3>1. a.antes = {ordem[n]} /\ n \in 1..k /\ ordem[n] \in S /\ ordem[n] \in Int
        BY <1>1, <1>2, <1>3, <2>2 DEF Corrido
      <3>2. ASSUME v - 1 \in S PROVE ordem[n] = v - 1
        <4>1. PICK i \in 1..k : ordem[i] = v - 1
          BY <1>2, <3>2
        <4>2. ordem[i] < v
          BY <1>3, <4>1
        <4>3. i < n + 1
          BY <1>1, <1>2, <4>2 DEF v
        <4>4. ordem[n] < v
          BY <1>1, <1>2, <3>1 DEF v
        <4>5. i = n
          <5>1. ASSUME i < n PROVE FALSE
            <6>1. ordem[i] < ordem[n]
              BY <1>2, <3>1, <5>1
            <6>2. QED
              BY <1>3, <3>1, <4>1, <4>4, <6>1
          <5>2. QED
            BY <4>3, <5>1
        <4>6. QED
          BY <4>1, <4>5
      <3>3. QED
        BY <3>1, <3>2
    <2>3. QED
      BY <2>1, <2>2
  <1>7. n + 1 > 0 /\ n + 1 # 0 /\ n + 1 \in Nat /\ ordem[n + 1] = v
    BY DEF v
  <1>8. b.pairs = Cardinality({i \in 1..(n + 1) : ordem[i] - 1 \in S})
    <2> DEFINE I == {i \in 1..n : ordem[i] - 1 \in S}
    <2>1. IsFiniteSet(I) /\ Cardinality(I) = a.pairs
      <3>1. IsFiniteSet(1..n) /\ I \in SUBSET (1..n)
        BY FS_Interval
      <3>2. QED
        BY <3>1, FS_Subset DEF Corrido
    <2>2. CASE segue
      <3>1. {i \in 1..(n + 1) : ordem[i] - 1 \in S} = I \cup {n + 1} /\ n + 1 \notin I
        BY <1>6, <2>2 DEF v
      <3>2. b.pairs = a.pairs + 1
        BY <1>5, <2>2
      <3> HIDE DEF I
      <3>3. Cardinality(I \cup {n + 1}) = Cardinality(I) + 1
        BY <2>1, <3>1, FS_AddElement
      <3>4. QED
        BY <2>1, <3>1, <3>2, <3>3
    <2>3. CASE ~segue
      <3>1. {i \in 1..(n + 1) : ordem[i] - 1 \in S} = I
        BY <1>6, <2>3 DEF v
      <3>2. b.pairs = a.pairs
        BY <1>4, <1>5, <2>3
      <3>3. QED
        BY <2>1, <3>1, <3>2
    <2>4. QED
      BY <2>2, <2>3
  <1>9. run >= 1 /\ run \in Nat /\ v - run \notin S /\ (v - run + 1)..v \subseteq S
    <2>1. CASE segue
      <3>1. n # 0 /\ ordem[n] = v - 1 /\ n > 0
        BY <2>1 DEF Corrido
      <3>2. a.run >= 1 /\ (v - 1) - a.run \notin S /\ ((v - 1) - a.run + 1)..(v - 1) \subseteq S
        BY <3>1 DEF Corrido
      <3>3. run = a.run + 1
        BY <2>1
      <3>4. v - run = (v - 1) - a.run /\ v - run + 1 = (v - 1) - a.run + 1
        BY <1>3, <1>4, <3>3
      <3>5. (v - run + 1)..v \subseteq S
        <4>1. ASSUME NEW z \in (v - run + 1)..v PROVE z \in S
          <5>1. z \in Int /\ (z = v \/ z <= v - 1)
            BY <1>3, <1>4, <3>3
          <5>2. z # v => z \in ((v - 1) - a.run + 1)..(v - 1)
            BY <1>3, <1>4, <3>4, <5>1
          <5>3. QED
            BY <1>3, <3>2, <5>2
        <4>2. QED
          BY <4>1
      <3>6. QED
        BY <1>4, <3>2, <3>3, <3>4, <3>5
    <2>2. CASE ~segue
      <3>1. run = 1 /\ v - run + 1 = v
        BY <1>3, <2>2
      <3>2. v..v = {v}
        BY <1>3
      <3>3. QED
        BY <1>3, <1>6, <2>2, <3>1, <3>2
    <2>3. QED
      BY <2>1, <2>2
  <1> HIDE DEF run, segue
  <1>10. \E x, y \in S : x..y \subseteq S /\ b.maxRun = y - x + 1
    <2>1. CASE a.maxRun >= run
      <3>1. n > 0
        BY <1>9, <2>1 DEF Corrido
      <3>2. b.maxRun = a.maxRun
        BY <1>5, <2>1
      <3>3. QED
        BY <3>1, <3>2 DEF Corrido
    <2>2. CASE ~(a.maxRun >= run)
      <3>1. PICK x \in Int : x = v - run + 1
        BY <1>3, <1>9
      <3>2. b.maxRun = v - x + 1 /\ x \in x..v
        BY <1>3, <1>5, <1>9, <2>2, <3>1
      <3>3. x \in S /\ x..v \subseteq S
        BY <1>9, <3>1, <3>2
      <3>4. QED
        BY <1>3, <3>2, <3>3
    <2>3. QED
      BY <2>1, <2>2
  <1>11. ASSUME NEW i \in 1..(n + 1), NEW x \in S, x..ordem[i] \subseteq S PROVE ordem[i] - x + 1 <= b.maxRun
    <2>1. b.maxRun >= a.maxRun /\ b.maxRun >= run /\ b.maxRun \in Nat
      BY <1>4, <1>5, <1>9
    <2>2. CASE i = n + 1
      <3>1. x..v \subseteq S /\ x \in Int
        BY <1>11, <2>2 DEF v
      <3>2. ~(v - run \in x..v)
        BY <1>9, <3>1
      <3>3. v - run < x
        BY <1>3, <1>9, <3>1, <3>2
      <3>4. v - x + 1 <= run
        BY <1>3, <1>9, <3>1, <3>3
      <3>5. QED
        BY <1>3, <1>9, <2>1, <2>2, <3>1, <3>4 DEF v
    <2>3. CASE i # n + 1
      <3>1. i \in 1..n /\ i \in 1..k
        BY <1>1, <2>3
      <3>2. ordem[i] - x + 1 <= a.maxRun
        BY <1>11, <3>1 DEF Corrido
      <3>3. ordem[i] \in Int /\ x \in Int
        BY <1>3, <3>1
      <3>4. QED
        BY <1>4, <2>1, <3>2, <3>3
    <2>4. QED
      BY <2>2, <2>3
  <1>12. QED
    BY <1>5, <1>7, <1>8, <1>9, <1>10, <1>11 DEF Corrido, b, v

\* The numbers that follow another, and the longest run.
LEMMA RunsAre ==
    ASSUME NEW S \in SUBSET Int, IsFiniteSet(S)
    PROVE  LET c == E!consecutiveInfo(S)
           IN  /\ c.pairs \in Nat /\ c.maxRun \in Nat
               /\ c.pairs = Cardinality({v \in S : v - 1 \in S})
               /\ S # {} => \E x, y \in S : x..y \subseteq S /\ c.maxRun = y - x + 1
               /\ \A x, y \in S : x..y \subseteq S => y - x + 1 <= c.maxRun
  <1> DEFINE k == Cardinality(S)
             ordem == E!Crescente(S)
             fim == (CHOOSE it : Corre(it, ordem, k))[1..k]
  <1>1. k \in Nat
    BY FS_CardinalityType
  <1>2. EmSequencia(S, Crescem(S), ordem)
    <2>1. ordem = Posta(S, Crescem(S))
      BY DEF E!Crescente, E!EmOrdem, Posta, Crescem, E!Cardinality, Cardinality
    <2>2. Ordena(S, Crescem(S))
      BY Increasing DEF Crescem
    <2> HIDE DEF ordem
    <2>3. QED
      BY <2>1, <2>2, OrderIs
  <1> HIDE DEF ordem
  <1>3. ordem \in [1..k -> S] /\ DOMAIN ordem = 1..k /\ ordem \in [1..k -> Int] /\ (\A u \in S : \E i \in 1..k : ordem[i] = u)
        /\ \A i, j \in 1..k : ordem[i] < ordem[j] <=> i < j
    <2>1. ordem \in [1..k -> S] /\ (\A u \in S : \E i \in 1..k : ordem[i] = u)
          /\ \A i, j \in 1..k : ordem[i] \in Crescem(S)[ordem[j]] <=> i < j
      BY <1>2 DEF EmSequencia
    <2>2. \A i, j \in 1..k : ordem[i] \in Crescem(S)[ordem[j]] <=> ordem[i] < ordem[j]
      BY <2>1 DEF Crescem
    <2> HIDE DEF k
    <2>3. QED
      BY <2>1, <2>2
  <1>4. E!consecutiveInfo(S) = [pairs |-> fim.pairs, maxRun |-> fim.maxRun]
    <2>1. ASSUME NEW it
          PROVE  it = [s \in SUBSET (DOMAIN ordem) |-> IF s = {} THEN SemCorrida ELSE E!Emenda(it[s \ {E!Max(s)}], ordem[E!Max(s)])]
                   <=> Corre(it, ordem, k)
      <3>1. \A s : E!Max(s) = Maior(s)
        BY DEF E!Max, Maior
      <3> HIDE DEF k
      <3>2. QED
        BY <1>3, <3>1 DEF Corre
    <2>2. (CHOOSE it : it = [s \in SUBSET (DOMAIN ordem) |-> IF s = {} THEN SemCorrida ELSE E!Emenda(it[s \ {E!Max(s)}], ordem[E!Max(s)])])
             = (CHOOSE it : Corre(it, ordem, k))
      BY <2>1
    <2>3. fim = E!FoldLeft(E!Emenda, SemCorrida, ordem)
      BY <1>3, <2>2 DEF E!FoldLeft, E!MapThenFoldSet
    <2> HIDE DEF fim
    <2>4. QED
      BY <2>3 DEF E!consecutiveInfo, SemCorrida, ordem
  <1> DEFINE it == CHOOSE it : Corre(it, ordem, k)
  <1>5. Corre(it, ordem, k)
    <2> HIDE DEF k
    <2>1. QED
      BY <1>1, <1>3, RunExists
  <1> HIDE DEF it
  <1>6. Corrido(S, ordem, k, it[1..k])
    <2> DEFINE M == {n \in Nat : n <= k => Corrido(S, ordem, n, it[1..n])}
    <2>1. \A s \in SUBSET (1..k) : it[s] = IF s = {} THEN SemCorrida ELSE E!Emenda(it[s \ {Maior(s)}], ordem[Maior(s)])
      BY <1>5, Zenon DEF Corre
    <2>2. 0 \in M
      <3>1. {} \in SUBSET (1..k) /\ 1..0 = {}
        OBVIOUS
      <3>2. it[1..0] = SemCorrida
        BY <2>1, <3>1
      <3>3. {i \in 1..0 : ordem[i] - 1 \in S} = {}
        BY <3>1
      <3>4. Corrido(S, ordem, 0, SemCorrida)
        BY <3>3, FS_EmptySet DEF Corrido, Corrida, SemCorrida
      <3>5. QED
        BY <3>2, <3>4
    <2>3. ASSUME NEW n \in Nat, n \in M PROVE n + 1 \in M
      <3>1. ASSUME n + 1 <= k PROVE Corrido(S, ordem, n + 1, it[1..(n + 1)])
        <4>1. PICK i \in Nat : i = n + 1 /\ i \in 1..k /\ i - 1 = n
          BY <3>1
        <4>2. 1..i \in SUBSET (1..k) /\ 1..i # {} /\ Maior(1..i) = i /\ (1..i) \ {i} = 1..(i - 1)
          BY <1>1, <4>1, LargestOfFirst
        <4>3. it[1..i] = E!Emenda(it[(1..i) \ {Maior(1..i)}], ordem[Maior(1..i)])
          BY <2>1, <4>2
        <4>4. it[1..i] = E!Emenda(it[1..n], ordem[n + 1])
          BY <4>1, <4>2, <4>3
        <4>5. Corrido(S, ordem, n, it[1..n])
          <5>1. n <= k
            BY <1>1, <3>1
          <5> HIDE DEF k, it, ordem
          <5>2. QED
            BY <2>3, <5>1
        <4>6. QED
          BY <1>2, <3>1, <4>1, <4>4, <4>5, RunKeeps
      <3>2. QED
        BY <3>1
    <2>4. k \in M
      <3> HIDE DEF M, k
      <3>1. QED
        BY <1>1, <2>2, <2>3, NumberInduction
    <2>5. QED
      BY <1>1, <2>4
  <1>7. fim = it[1..k]
    BY DEF it
  <1> HIDE DEF fim
  <1>8. fim \in Corrida /\ fim.pairs = Cardinality({i \in 1..k : ordem[i] - 1 \in S})
    BY <1>6, <1>7 DEF Corrido
  <1>9. Cardinality({i \in 1..k : ordem[i] - 1 \in S}) = Cardinality({v \in S : v - 1 \in S})
    <2> DEFINE I == {i \in 1..k : ordem[i] - 1 \in S}
               L == {v \in S : v - 1 \in S}
               f == [i \in I |-> ordem[i]]
    <2>1. IsFiniteSet(I)
      <3>1. I \in SUBSET (1..k) /\ IsFiniteSet(1..k)
        BY <1>1, FS_Interval
      <3>2. QED
        BY <3>1, FS_Subset
    <2>2. f \in [I -> L] /\ (\A v \in L : \E i \in I : f[i] = v)
      BY <1>3
    <2>3. \A i, j \in I : f[i] = f[j] => i = j
      <3>1. ASSUME NEW i \in I, NEW j \in I, f[i] = f[j] PROVE i = j
        <4>1. i \in 1..k /\ j \in 1..k /\ ordem[i] = ordem[j] /\ ordem[i] \in Int
          BY <1>3, <3>1
        <4>2. ~(i < j) /\ ~(j < i)
          BY <1>3, <4>1
        <4>3. QED
          BY <1>1, <4>1, <4>2
      <3>2. QED
        BY <3>1
    <2> HIDE DEF f, I, L
    <2>4. ExistsBijection(I, L)
      <3>1. f \in Bijection(I, L)
        BY <2>2, <2>3 DEF Bijection, Injection, Surjection, IsInjective
      <3>2. QED
        BY <3>1 DEF ExistsBijection
    <2>5. QED
      BY <2>1, <2>4, FS_Bijection DEF I, L
  <1>10. fim.pairs \in Nat /\ fim.maxRun \in Nat
    BY <1>8 DEF Corrida
  <1>11. ASSUME S # {} PROVE \E x, y \in S : x..y \subseteq S /\ fim.maxRun = y - x + 1
    <2>1. k > 0
      BY <1>1, <1>11, FS_EmptySet
    <2>2. QED
      BY <1>6, <1>7, <2>1 DEF Corrido
  <1>12. ASSUME NEW x \in S, NEW y \in S, x..y \subseteq S PROVE y - x + 1 <= fim.maxRun
    <2>1. PICK i \in 1..k : ordem[i] = y
      BY <1>3
    <2>2. QED
      BY <1>6, <1>7, <1>12, <2>1 DEF Corrido
  <1>13. E!consecutiveInfo(S).pairs = fim.pairs /\ E!consecutiveInfo(S).maxRun = fim.maxRun
    BY <1>4
  <1>14. QED
    BY <1>8, <1>9, <1>10, <1>11, <1>12, <1>13

-----------------------------------------------------------------------------
(* The history, number by number (computeStats) *)

Observado == [i : Nat, vezes : Nat, ultimo : Int, intervalo : Nat, recentes : Nat]
SemObservar == [i |-> 0, vezes |-> 0, ultimo |-> -1, intervalo |-> 0, recentes |-> 0]
Observam(it, draws, v, desde, k) ==
    it = [s \in SUBSET (1..k) |-> IF s = {} THEN SemObservar ELSE E!Observa(it[s \ {Maior(s)}], draws[Maior(s)], v, desde)]

LEMMA ObservationIs ==
    ASSUME NEW a \in Observado, NEW d, NEW v, NEW desde \in Int
    PROVE  LET b == E!Observa(a, d, v, desde)
               atraso == a.i - a.ultimo - 1
           IN  /\ b \in Observado /\ b.i = a.i + 1
               /\ v \notin d.dezenas => /\ b.vezes = a.vezes /\ b.ultimo = a.ultimo
                                        /\ b.intervalo = a.intervalo /\ b.recentes = a.recentes
               /\ v \in d.dezenas => /\ b.vezes = a.vezes + 1 /\ b.ultimo = a.i
                                     /\ b.intervalo = (IF a.intervalo >= atraso THEN a.intervalo ELSE atraso)
                                     /\ b.recentes = a.recentes + (IF a.i >= desde THEN 1 ELSE 0)
  <1>1. a.i \in Nat /\ a.vezes \in Nat /\ a.ultimo \in Int /\ a.intervalo \in Nat /\ a.recentes \in Nat
    BY DEF Observado
  <1>2. CASE v \notin d.dezenas
    <2>1. E!Observa(a, d, v, desde) = [a EXCEPT !.i = @ + 1]
      BY <1>2 DEF E!Observa
    <2>2. QED
      BY <1>1, <1>2, <2>1 DEF Observado
  <1>3. CASE v \in d.dezenas
    <2>1. PICK t \in Int : t = a.i - a.ultimo - 1
      BY <1>1
    <2>2. E!Max({a.intervalo, t}) = IF a.intervalo >= t THEN a.intervalo ELSE t
      BY <1>1, LargerOfTwo
    <2>3. E!Observa(a, d, v, desde) =
            [i |-> a.i + 1, vezes |-> a.vezes + 1, ultimo |-> a.i, intervalo |-> IF a.intervalo >= t THEN a.intervalo ELSE t,
             recentes |-> a.recentes + (IF a.i >= desde THEN 1 ELSE 0)]
      BY <1>3, <2>1, <2>2 DEF E!Observa
    <2>4. (IF a.intervalo >= t THEN a.intervalo ELSE t) \in Nat /\ a.recentes + (IF a.i >= desde THEN 1 ELSE 0) \in Nat
      BY <1>1
    <2>5. QED
      BY <1>1, <1>3, <2>1, <2>3, <2>4 DEF Observado
  <1>4. QED
    BY <1>2, <1>3

LEMMA ObservationsExist ==
    ASSUME NEW k \in Nat, NEW draws, NEW v, NEW desde \in Int
    PROVE  \E it : Observam(it, draws, v, desde, k)
  <1> DEFINE H == [p \in (1..k) \X Observado |-> E!Observa(p[2], draws[p[1]], v, desde)]
  <1>1. ASSUME NEW x \in 1..k, NEW a \in Observado PROVE H[<<x, a>>] = E!Observa(a, draws[x], v, desde) /\ H[<<x, a>>] \in Observado
    <2>1. <<x, a>> \in (1..k) \X Observado
      OBVIOUS
    <2>2. H[<<x, a>>] = E!Observa(a, draws[x], v, desde)
      BY <2>1
    <2> HIDE DEF H
    <2>3. QED
      BY <2>2, ObservationIs
  <1>2. SemObservar \in Observado
    BY DEF Observado, SemObservar
  <1> HIDE DEF H
  <1>3. Leva(k, Observado, H)
    BY <1>1, Zenon DEF Leva
  <1>4. PICK it \in [SUBSET (1..k) -> Observado] : Dobra(it, k, SemObservar, H)
    BY <1>2, <1>3, FoldExists
  <1>5. \A s \in SUBSET (1..k) : it[s] = IF s = {} THEN SemObservar ELSE H[<<Maior(s), it[s \ {Maior(s)}]>>]
    BY <1>4, Zenon DEF Dobra
  <1>6. ASSUME NEW s \in SUBSET (1..k)
        PROVE  it[s] = IF s = {} THEN SemObservar ELSE E!Observa(it[s \ {Maior(s)}], draws[Maior(s)], v, desde)
    <2>1. CASE s = {}
      BY <1>5, <2>1
    <2>2. CASE s # {}
      <3>1. Maior(s) \in 1..k /\ s \ {Maior(s)} \in SUBSET (1..k)
        BY <2>2, LargestIs
      <3>2. it[s \ {Maior(s)}] \in Observado
        BY <3>1
      <3>3. H[<<Maior(s), it[s \ {Maior(s)}]>>] = E!Observa(it[s \ {Maior(s)}], draws[Maior(s)], v, desde)
        BY <1>1, <3>1, <3>2
      <3>4. QED
        BY <1>5, <2>2, <3>3
    <2>3. QED
      BY <2>1, <2>2
  <1>7. it = [s \in SUBSET (1..k) |-> it[s]]
    OBVIOUS
  <1>8. QED
    BY <1>6, <1>7, Zenon DEF Observam

\* After the first n draws.
Observadas(draws, v, desde, n, a) ==
    /\ a \in Observado /\ a.i = n
    /\ a.vezes = Cardinality({i \in 1..n : v \in draws[i].dezenas})
    /\ a.recentes = Cardinality({i \in 1..n : v \in draws[i].dezenas /\ i - 1 >= desde})
    /\ a.ultimo \in -1..(n - 1) /\ E!SemEla(draws, v, a.ultimo + 2, n)
    /\ a.ultimo >= 0 => v \in draws[a.ultimo + 1].dezenas
    /\ a.intervalo = 0 \/ \E x \in 1..n, y \in 0..n : y >= x - 1 /\ E!SemEla(draws, v, x, y) /\ a.intervalo = y - x + 1
    /\ \A x \in 1..n, y \in 0..n : E!SemEla(draws, v, x, y) /\ y <= a.ultimo => y - x + 1 <= a.intervalo

\* How many of the first n are in a set.
LEMMA CountStep ==
    ASSUME NEW n \in Nat, NEW L
    PROVE  /\ Cardinality({i \in 1..n : i \in L}) \in Nat
           /\ Cardinality({i \in 1..(n + 1) : i \in L}) = Cardinality({i \in 1..n : i \in L}) + (IF n + 1 \in L THEN 1 ELSE 0)
  <1> DEFINE I == {i \in 1..n : i \in L}
             Z == {i \in 1..(n + 1) : i \in L}
  <1>1. IsFiniteSet(I) /\ Cardinality(I) \in Nat
    <2>1. I \in SUBSET (1..n) /\ IsFiniteSet(1..n)
      BY FS_Interval
    <2>2. QED
      BY <2>1, FS_Subset, FS_CardinalityType
  <1>2. CASE n + 1 \in L
    <2>1. Z = I \cup {n + 1} /\ n + 1 \notin I
      BY <1>2
    <2> HIDE DEF I, Z
    <2>2. Cardinality(Z) = Cardinality(I) + 1
      BY <1>1, <2>1, FS_AddElement
    <2>3. QED
      BY <1>1, <1>2, <2>2 DEF I, Z
  <1>3. CASE n + 1 \notin L
    <2>1. Z = I
      BY <1>3
    <2>2. QED
      BY <1>1, <1>3, <2>1
  <1>4. QED
    BY <1>2, <1>3

LEMMA ObservationKeeps ==
    ASSUME NEW draws, NEW v, NEW desde \in Int, NEW n \in Nat, NEW a, Observadas(draws, v, desde, n, a)
    PROVE  Observadas(draws, v, desde, n + 1, E!Observa(a, draws[n + 1], v, desde))
  <1> DEFINE b == E!Observa(a, draws[n + 1], v, desde)
             atraso == n - a.ultimo - 1
             Tem == {i \in Nat : v \in draws[i].dezenas}
             Recente == {i \in Nat : v \in draws[i].dezenas /\ i - 1 >= desde}
  <1>1. a \in Observado /\ a.i = n /\ a.ultimo \in Int /\ a.ultimo >= -1 /\ a.ultimo <= n - 1 /\ a.intervalo \in Nat
        /\ a.vezes \in Nat /\ a.recentes \in Nat
    BY DEF Observadas, Observado
  <1>2. /\ b \in Observado /\ b.i = n + 1
        /\ v \notin draws[n + 1].dezenas => /\ b.vezes = a.vezes /\ b.ultimo = a.ultimo
                                            /\ b.intervalo = a.intervalo /\ b.recentes = a.recentes
        /\ v \in draws[n + 1].dezenas => /\ b.vezes = a.vezes + 1 /\ b.ultimo = n
                                         /\ b.intervalo = (IF a.intervalo >= atraso THEN a.intervalo ELSE atraso)
                                         /\ b.recentes = a.recentes + (IF n >= desde THEN 1 ELSE 0)
    BY <1>1, ObservationIs
  <1> HIDE DEF b
  <1>3. /\ \A m \in Nat : {i \in 1..m : v \in draws[i].dezenas} = {i \in 1..m : i \in Tem}
        /\ \A m \in Nat : {i \in 1..m : v \in draws[i].dezenas /\ i - 1 >= desde} = {i \in 1..m : i \in Recente}
        /\ n + 1 \in Nat
    OBVIOUS
  <1>4. (n + 1 \in Tem <=> v \in draws[n + 1].dezenas) /\ (n + 1 \in Recente <=> v \in draws[n + 1].dezenas /\ n >= desde)
    <2>1. n + 1 - 1 = n
      OBVIOUS
    <2>2. QED
      BY <2>1
  <1> HIDE DEF Tem, Recente
  <1>5. b.vezes = Cardinality({i \in 1..(n + 1) : v \in draws[i].dezenas})
    <2>1. Cardinality({i \in 1..(n + 1) : i \in Tem}) = Cardinality({i \in 1..n : i \in Tem}) + (IF n + 1 \in Tem THEN 1 ELSE 0)
      BY CountStep
    <2>2. a.vezes = Cardinality({i \in 1..n : i \in Tem})
      BY <1>3 DEF Observadas
    <2>3. Cardinality({i \in 1..(n + 1) : v \in draws[i].dezenas}) = Cardinality({i \in 1..(n + 1) : i \in Tem})
      BY <1>3
    <2>4. QED
      BY <1>1, <1>2, <1>4, <2>1, <2>2, <2>3
  <1>6. b.recentes = Cardinality({i \in 1..(n + 1) : v \in draws[i].dezenas /\ i - 1 >= desde})
    <2>1. Cardinality({i \in 1..(n + 1) : i \in Recente}) = Cardinality({i \in 1..n : i \in Recente}) + (IF n + 1 \in Recente THEN 1 ELSE 0)
      BY CountStep
    <2>2. a.recentes = Cardinality({i \in 1..n : i \in Recente})
      BY <1>3 DEF Observadas
    <2>3. Cardinality({i \in 1..(n + 1) : v \in draws[i].dezenas /\ i - 1 >= desde}) = Cardinality({i \in 1..(n + 1) : i \in Recente})
      BY <1>3
    <2>4. QED
      BY <1>1, <1>2, <1>4, <2>1, <2>2, <2>3
  <1>7. \A x, y : E!SemEla(draws, v, x, y) <=> \A i \in x..y : v \notin draws[i].dezenas
    BY DEF E!SemEla
  <1>8. /\ \A i \in (a.ultimo + 2)..n : v \notin draws[i].dezenas
        /\ a.ultimo >= 0 => v \in draws[a.ultimo + 1].dezenas
        /\ a.intervalo = 0 \/ \E x \in 1..n, y \in 0..n : y >= x - 1 /\ E!SemEla(draws, v, x, y) /\ a.intervalo = y - x + 1
        /\ \A x \in 1..n, y \in 0..n : E!SemEla(draws, v, x, y) /\ y <= a.ultimo => y - x + 1 <= a.intervalo
    BY <1>7 DEF Observadas
  <1>9. a.intervalo = 0 \/ \E x \in 1..(n + 1), y \in 0..(n + 1) : y >= x - 1 /\ E!SemEla(draws, v, x, y) /\ a.intervalo = y - x + 1
    <2>1. \A x \in 1..n : x \in 1..(n + 1)
      OBVIOUS
    <2>2. \A y \in 0..n : y \in 0..(n + 1)
      OBVIOUS
    <2>3. QED
      BY <1>8, <2>1, <2>2
  <1>10. CASE v \notin draws[n + 1].dezenas
    <2>1. b.ultimo = a.ultimo /\ b.intervalo = a.intervalo
      BY <1>2, <1>10
    <2>2. E!SemEla(draws, v, a.ultimo + 2, n + 1)
      <3>1. ASSUME NEW i \in (a.ultimo + 2)..(n + 1) PROVE v \notin draws[i].dezenas
        <4>1. i = n + 1 \/ i \in (a.ultimo + 2)..n
          BY <1>1
        <4>2. QED
          BY <1>8, <1>10, <4>1
      <3>2. QED
        BY <1>7, <3>1
    <2>3. ASSUME NEW x \in 1..(n + 1), NEW y \in 0..(n + 1), E!SemEla(draws, v, x, y), y <= a.ultimo
          PROVE  y - x + 1 <= a.intervalo
      <3>1. y \in 0..n
        BY <1>1, <2>3
      <3>2. CASE x \in 1..n
        BY <1>8, <2>3, <3>1, <3>2
      <3>3. CASE x \notin 1..n
        <4>1. x = n + 1
          BY <3>3
        <4>2. QED
          BY <1>1, <3>1, <4>1
      <3>4. QED
        BY <3>2, <3>3
    <2>4. a.ultimo \in -1..((n + 1) - 1)
      BY <1>1
    <2>5. QED
      BY <1>2, <1>5, <1>6, <1>8, <1>9, <2>1, <2>2, <2>3, <2>4 DEF Observadas, b
  <1>11. CASE v \in draws[n + 1].dezenas
    <2>1. b.ultimo = n /\ b.intervalo = IF a.intervalo >= atraso THEN a.intervalo ELSE atraso
      BY <1>2, <1>11
    <2>2. atraso \in Nat
      BY <1>1
    <2>3. E!SemEla(draws, v, n + 2, n + 1)
      BY <1>7
    <2>4. ASSUME NEW x \in 1..(n + 1), NEW y \in 0..(n + 1), E!SemEla(draws, v, x, y), y <= n
          PROVE  y - x + 1 <= b.intervalo
      <3>1. CASE x = n + 1
        BY <1>1, <2>1, <2>2, <2>4, <3>1
      <3>2. CASE x # n + 1 /\ y <= a.ultimo
        <4>1. x \in 1..n /\ y \in 0..n
          BY <2>4, <3>2
        <4>2. y - x + 1 <= a.intervalo
          BY <1>8, <2>4, <3>2, <4>1
        <4>3. QED
          BY <1>1, <2>1, <2>2, <4>1, <4>2
      <3>3. CASE y > a.ultimo
        <4>1. x > a.ultimo + 1
          <5>1. CASE a.ultimo < 0
            BY <1>1, <5>1
          <5>2. CASE a.ultimo >= 0
            <6>1. ASSUME ~(x > a.ultimo + 1) PROVE FALSE
              <7>1. a.ultimo + 1 \in x..y
                BY <1>1, <3>3, <6>1
              <7>2. QED
                BY <1>7, <1>8, <2>4, <5>2, <7>1
            <6>2. QED
              BY <6>1
          <5>3. QED
            BY <1>1, <5>1, <5>2
        <4>2. y - x + 1 <= atraso
          BY <1>1, <2>4, <4>1
        <4>3. QED
          BY <1>1, <2>1, <2>2, <4>2
      <3>4. QED
        BY <1>1, <3>1, <3>2, <3>3
    <2>5. b.intervalo = 0 \/ \E x \in 1..(n + 1), y \in 0..(n + 1) : y >= x - 1 /\ E!SemEla(draws, v, x, y) /\ b.intervalo = y - x + 1
      <3>1. CASE a.intervalo >= atraso
        BY <1>9, <2>1, <3>1
      <3>2. CASE ~(a.intervalo >= atraso)
        <4>1. PICK x \in 1..(n + 1) : x = a.ultimo + 2
          BY <1>1, <2>2, <3>2
        <4>2. n \in 0..(n + 1) /\ n >= x - 1 /\ atraso = n - x + 1
          BY <1>1, <4>1
        <4>3. E!SemEla(draws, v, x, n)
          BY <1>7, <1>8, <4>1
        <4>4. b.intervalo = n - x + 1
          BY <2>1, <3>2, <4>2
        <4>5. QED
          BY <4>2, <4>3, <4>4
      <3>3. QED
        BY <3>1, <3>2
    <2>6. b.ultimo \in -1..((n + 1) - 1) /\ b.ultimo + 2 = n + 2 /\ b.ultimo + 1 = n + 1
      BY <2>1
    <2>7. b.ultimo >= 0 => v \in draws[b.ultimo + 1].dezenas
      BY <1>11, <2>6
    <2>8. \A x \in 1..(n + 1), y \in 0..(n + 1) : E!SemEla(draws, v, x, y) /\ y <= b.ultimo => y - x + 1 <= b.intervalo
      BY <2>1, <2>4
    <2>9. E!SemEla(draws, v, b.ultimo + 2, n + 1)
      BY <2>3, <2>6
    <2> HIDE DEF atraso
    <2>10. QED
      BY <1>2, <1>5, <1>6, <2>5, <2>6, <2>7, <2>8, <2>9 DEF Observadas, b
  <1>12. QED
    BY <1>10, <1>11

LEMMA ObservedIs ==
    ASSUME NEW draws, NEW n \in Nat, Len(draws) = n, DOMAIN draws = 1..n, NEW v, NEW janela \in Int
    PROVE  Observadas(draws, v, n - janela, n, E!Percorre(draws, v, janela))
  <1> DEFINE desde == n - janela
             it == CHOOSE it : Observam(it, draws, v, desde, n)
  <1>1. desde \in Int
    OBVIOUS
  <1> HIDE DEF desde
  <1>2. E!Percorre(draws, v, janela) = it[1..n]
    <2>1. ASSUME NEW h
          PROVE  h = [s \in SUBSET (DOMAIN draws) |-> IF s = {} THEN [i |-> 0, vezes |-> 0, ultimo |-> -1, intervalo |-> 0, recentes |-> 0]
                                                      ELSE E!Observa(h[s \ {E!Max(s)}], draws[E!Max(s)], v, Len(draws) - janela)]
                   <=> Observam(h, draws, v, desde, n)
      <3>1. \A s : E!Max(s) = Maior(s)
        BY DEF E!Max, Maior
      <3>2. Len(draws) - janela = desde
        BY DEF desde
      <3>3. QED
        BY <3>1, <3>2 DEF Observam, SemObservar
    <2>2. (CHOOSE h : h = [s \in SUBSET (DOMAIN draws) |-> IF s = {} THEN [i |-> 0, vezes |-> 0, ultimo |-> -1, intervalo |-> 0, recentes |-> 0]
                                                      ELSE E!Observa(h[s \ {E!Max(s)}], draws[E!Max(s)], v, Len(draws) - janela)])
             = it
      BY <2>1
    <2> HIDE DEF it
    <2>3. QED
      BY <2>2 DEF E!Percorre, E!FoldLeft, E!MapThenFoldSet
  <1>3. Observam(it, draws, v, desde, n)
    BY <1>1, ObservationsExist
  <1> HIDE DEF it
  <1>4. Observadas(draws, v, desde, n, it[1..n])
    <2> DEFINE M == {m \in Nat : m <= n => Observadas(draws, v, desde, m, it[1..m])}
    <2>1. \A s \in SUBSET (1..n) : it[s] = IF s = {} THEN SemObservar ELSE E!Observa(it[s \ {Maior(s)}], draws[Maior(s)], v, desde)
      BY <1>3, Zenon DEF Observam
    <2>2. 0 \in M
      <3>1. {} \in SUBSET (1..n) /\ 1..0 = {}
        OBVIOUS
      <3>2. it[1..0] = SemObservar
        BY <2>1, <3>1
      <3>3. {i \in 1..0 : v \in draws[i].dezenas} = {} /\ {i \in 1..0 : v \in draws[i].dezenas /\ i - 1 >= desde} = {}
        BY <3>1
      <3>4. E!SemEla(draws, v, 1, 0)
        BY <3>1 DEF E!SemEla
      <3>5. SemObservar \in Observado /\ SemObservar.i = 0 /\ SemObservar.vezes = 0 /\ SemObservar.recentes = 0
            /\ SemObservar.ultimo = -1 /\ SemObservar.intervalo = 0 /\ SemObservar.ultimo + 2 = 1 /\ SemObservar.ultimo \in -1..(0 - 1)
        BY DEF SemObservar, Observado
      <3>6. Observadas(draws, v, desde, 0, SemObservar)
        BY <3>3, <3>4, <3>5, FS_EmptySet DEF Observadas
      <3>7. QED
        BY <3>2, <3>6
    <2>3. ASSUME NEW m \in Nat, m \in M PROVE m + 1 \in M
      <3>1. ASSUME m + 1 <= n PROVE Observadas(draws, v, desde, m + 1, it[1..(m + 1)])
        <4>1. PICK i \in Nat : i = m + 1 /\ i \in 1..n /\ i - 1 = m
          BY <3>1
        <4>2. 1..i \in SUBSET (1..n) /\ 1..i # {} /\ Maior(1..i) = i /\ (1..i) \ {i} = 1..(i - 1)
          BY <4>1, LargestOfFirst
        <4>3. it[1..i] = E!Observa(it[(1..i) \ {Maior(1..i)}], draws[Maior(1..i)], v, desde)
          BY <2>1, <4>2
        <4>4. it[1..i] = E!Observa(it[1..m], draws[m + 1], v, desde)
          BY <4>1, <4>2, <4>3
        <4>5. Observadas(draws, v, desde, m, it[1..m])
          BY <2>3, <4>1
        <4>6. QED
          BY <1>1, <4>1, <4>4, <4>5, ObservationKeeps
      <3>2. QED
        BY <3>1
    <2>4. n \in M
      <3> HIDE DEF M
      <3>1. QED
        BY <2>2, <2>3, NumberInduction
    <2>5. QED
      BY <2>4
  <1>5. QED
    BY <1>2, <1>4 DEF desde

\* The window: the last draws, all of them if there are no more.
Recentes(n, janela) == {i \in 1..n : i - 1 >= n - janela}

LEMMA WindowIs ==
    ASSUME NEW n \in Nat, NEW janela \in Nat
    PROVE  /\ IsFiniteSet(Recentes(n, janela)) /\ Recentes(n, janela) \in SUBSET (1..n)
           /\ Cardinality(Recentes(n, janela)) = IF n <= janela THEN n ELSE janela
  <1>1. CASE n <= janela
    <2>1. Recentes(n, janela) = 1..n
      BY <1>1 DEF Recentes
    <2>2. IsFiniteSet(1..n) /\ Cardinality(1..n) = IF 1 > n THEN 0 ELSE n - 1 + 1
      BY FS_Interval
    <2>3. QED
      BY <1>1, <2>1, <2>2
  <1>2. CASE ~(n <= janela)
    <2>1. PICK a \in Int : a = n - janela + 1
      OBVIOUS
    <2>2. Recentes(n, janela) = a..n /\ a..n \in SUBSET (1..n)
      BY <1>2, <2>1 DEF Recentes
    <2>3. IsFiniteSet(a..n) /\ Cardinality(a..n) = IF a > n THEN 0 ELSE n - a + 1
      BY FS_Interval
    <2>4. (IF a > n THEN 0 ELSE n - a + 1) = janela
      BY <1>2, <2>1
    <2>5. QED
      BY <1>2, <2>2, <2>3, <2>4
  <1>3. QED
    BY <1>1, <1>2

Ausencias(draws, v, n) ==
    {x[2] - x[1] + 1 : x \in {y \in (1..n) \X (0..n) : y[2] >= y[1] - 1 /\ E!SemEla(draws, v, y[1], y[2])}}

\* What is kept of each number of the lottery.
LEMMA NumberIs ==
    ASSUME NEW r \in Loterias, NEW draws, Historico(r, draws), NEW v, NEW janela \in Nat
    PROVE  LET e == E!Dezena(r, draws, v, janela)
               n == Len(draws)
           IN  /\ e.vezes = Cardinality(Quem(Dezenas(draws), 1..n, v))
               /\ e.recentes = Cardinality(Quem(Dezenas(draws), Recentes(n, janela), v))
               /\ e.atraso \in 0..n /\ E!SemEla(draws, v, n - e.atraso + 1, n)
               /\ e.atraso < n => v \in draws[n - e.atraso].dezenas
               /\ e.maior = E!Max({0} \cup Ausencias(draws, v, n))
               /\ e.quente => n >= janela /\ e.recentes * E!universeSize(r) > janela * r.sorteia
  <1> DEFINE n == Len(draws)
             e == E!Dezena(r, draws, v, janela)
             a == E!Percorre(draws, v, janela)
  <1>1. n \in Nat /\ DOMAIN draws = 1..n
    BY DrawsAre
  <1>2. Observadas(draws, v, n - janela, n, a)
    BY <1>1, ObservedIs
  <1>3. a \in Observado /\ a.i = n /\ a.ultimo \in Int /\ a.ultimo >= -1 /\ a.ultimo <= n - 1 /\ a.intervalo \in Nat
        /\ a.vezes \in Nat /\ a.recentes \in Nat
    BY <1>1, <1>2 DEF Observadas, Observado
  <1>4. /\ e.vezes = a.vezes /\ e.recentes = a.recentes /\ e.atraso = n - 1 - a.ultimo
        /\ e.maior = E!Max({a.intervalo, n - 1 - a.ultimo})
        /\ e.quente <=> /\ n >= janela
                        /\ (a.recentes * E!universeSize(r) - janela * r.sorteia) * (a.recentes * E!universeSize(r) - janela * r.sorteia)
                              >= janela * r.sorteia * (E!universeSize(r) - r.sorteia)
                        /\ a.recentes * E!universeSize(r) - janela * r.sorteia > 0
    BY DEF E!Dezena, E!MaiorAtraso
  <1> HIDE DEF a, e
  <1>5. Quem(Dezenas(draws), 1..n, v) = {i \in 1..n : v \in draws[i].dezenas}
    <2>1. \A i \in 1..n : Dezenas(draws)[i] = draws[i].dezenas
      BY DrawIs
    <2>2. QED
      BY <2>1 DEF Quem
  <1>6. Quem(Dezenas(draws), Recentes(n, janela), v) = {i \in 1..n : v \in draws[i].dezenas /\ i - 1 >= n - janela}
    <2>1. \A i \in 1..n : Dezenas(draws)[i] = draws[i].dezenas
      BY DrawIs
    <2>2. QED
      BY <2>1 DEF Quem, Recentes
  <1>7. e.vezes = Cardinality(Quem(Dezenas(draws), 1..n, v)) /\ e.recentes = Cardinality(Quem(Dezenas(draws), Recentes(n, janela), v))
    BY <1>2, <1>4, <1>5, <1>6 DEF Observadas
  <1>8. PICK d \in 0..n : d = e.atraso /\ d = n - 1 - a.ultimo /\ n - d + 1 = a.ultimo + 2 /\ n - d = a.ultimo + 1
    BY <1>1, <1>3, <1>4, SMTT(30)
  <1>9. E!SemEla(draws, v, n - d + 1, n) /\ (d < n => v \in draws[n - d].dezenas)
    <2>1. d < n => a.ultimo >= 0
      BY <1>1, <1>3, <1>8
    <2>2. QED
      BY <1>2, <1>8, <2>1 DEF Observadas
  <1>10. e.maior = E!Max({0} \cup Ausencias(draws, v, n))
    <2> DEFINE Z == {0} \cup Ausencias(draws, v, n)
    <2>1. PICK m \in Nat : m = e.maior /\ m = IF a.intervalo >= d THEN a.intervalo ELSE d
      <3>1. e.maior = E!Max({a.intervalo, d})
        BY <1>4, <1>8
      <3>2. E!Max({a.intervalo, d}) = IF a.intervalo >= d THEN a.intervalo ELSE d
        BY <1>3, LargerOfTwo
      <3>3. QED
        BY <1>3, <3>1, <3>2
    <2>2. \A t : t \in Z <=> t = 0 \/ \E x \in 1..n, y \in 0..n : y >= x - 1 /\ E!SemEla(draws, v, x, y) /\ t = y - x + 1
      <3>1. ASSUME NEW t, t \in Ausencias(draws, v, n)
            PROVE  \E x \in 1..n, y \in 0..n : y >= x - 1 /\ E!SemEla(draws, v, x, y) /\ t = y - x + 1
        <4>1. PICK p \in (1..n) \X (0..n) : p[2] >= p[1] - 1 /\ E!SemEla(draws, v, p[1], p[2]) /\ t = p[2] - p[1] + 1
          BY <3>1 DEF Ausencias
        <4>2. p[1] \in 1..n /\ p[2] \in 0..n
          OBVIOUS
        <4>3. QED
          BY <4>1, <4>2
      <3>2. ASSUME NEW x \in 1..n, NEW y \in 0..n, y >= x - 1, E!SemEla(draws, v, x, y) PROVE y - x + 1 \in Ausencias(draws, v, n)
        <4>1. <<x, y>> \in (1..n) \X (0..n) /\ <<x, y>>[1] = x /\ <<x, y>>[2] = y
          OBVIOUS
        <4>2. QED
          BY <3>2, <4>1 DEF Ausencias
      <3>3. QED
        BY <3>1, <3>2
    <2> HIDE DEF Z
    <2>3. Z \in SUBSET Int
      <3>1. ASSUME NEW t \in Z PROVE t \in Int
        BY <1>1, <2>2
      <3>2. QED
        BY <3>1
    <2>4. m \in Z
      <3>1. CASE a.intervalo >= d
        <4>1. m = a.intervalo
          BY <2>1, <3>1
        <4>2. a.intervalo = 0 \/ \E x \in 1..n, y \in 0..n : y >= x - 1 /\ E!SemEla(draws, v, x, y) /\ a.intervalo = y - x + 1
          BY <1>2 DEF Observadas
        <4>3. QED
          BY <2>2, <4>1, <4>2
      <3>2. CASE ~(a.intervalo >= d)
        <4>1. m = d /\ d > 0
          BY <1>3, <2>1, <3>2
        <4>2. PICK x \in 1..n : x = n - d + 1
          BY <1>1, <4>1
        <4>3. n \in 0..n /\ n >= x - 1 /\ m = n - x + 1 /\ E!SemEla(draws, v, x, n)
          BY <1>1, <1>9, <4>1, <4>2
        <4>4. QED
          BY <2>2, <4>3
      <3>3. QED
        BY <3>1, <3>2
    <2>5. ASSUME NEW t \in Z PROVE m >= t
      <3>1. CASE t = 0
        BY <3>1
      <3>2. CASE t # 0
        <4>1. PICK x \in 1..n, y \in 0..n : y >= x - 1 /\ E!SemEla(draws, v, x, y) /\ t = y - x + 1
          BY <2>2, <3>2
        <4>2. CASE y <= a.ultimo
          <5>1. y - x + 1 <= a.intervalo
            BY <1>2, <4>1, <4>2 DEF Observadas
          <5>2. QED
            BY <1>1, <1>3, <2>1, <4>1, <5>1
        <4>3. CASE y > a.ultimo
          <5>1. x > a.ultimo + 1
            <6>1. CASE a.ultimo < 0
              BY <1>3, <6>1
            <6>2. CASE a.ultimo >= 0
              <7>1. ASSUME ~(x > a.ultimo + 1) PROVE FALSE
                <8>1. a.ultimo + 1 \in x..y
                  BY <1>3, <4>3, <7>1
                <8>2. v \in draws[a.ultimo + 1].dezenas
                  BY <1>2, <6>2 DEF Observadas
                <8>3. QED
                  BY <4>1, <8>1, <8>2 DEF E!SemEla
              <7>2. QED
                BY <7>1
            <6>3. QED
              BY <1>3, <6>1, <6>2
          <5>2. t <= d
            BY <1>1, <1>3, <1>8, <4>1, <5>1
          <5>3. QED
            BY <1>3, <2>1, <2>3, <5>2
        <4>4. QED
          BY <1>3, <4>2, <4>3
      <3>3. QED
        BY <3>1, <3>2
    <2>6. E!Max(Z) = m
      BY <2>3, <2>4, <2>5, LargestOf
    <2>7. QED
      BY <2>1, <2>6 DEF Z
  <1>11. e.quente => n >= janela /\ e.recentes * E!universeSize(r) > janela * r.sorteia
    <2>1. PICK p \in Nat : p = a.recentes * E!universeSize(r)
      <3>1. E!universeSize(r) \in Nat
        BY LotteryIs
      <3>2. QED
        BY <1>3, <3>1
    <2>2. PICK q \in Nat : q = janela * r.sorteia
      <3>1. r.sorteia \in Nat
        BY LotteryIs
      <3>2. QED
        BY <3>1
    <2>3. e.quente => n >= janela /\ p - q > 0
      BY <1>4, <2>1, <2>2
    <2>4. QED
      BY <1>4, <2>1, <2>2, <2>3
  <1>12. QED
    BY <1>7, <1>8, <1>9, <1>10, <1>11 DEF e

Achatada(f, seqs, k) == f = [i \in 1..k |-> IF i = 1 THEN seqs[i] ELSE f[i - 1] \o seqs[i]]

LEMMA FlatExists ==
    ASSUME NEW Y, NEW k \in Nat, NEW seqs \in [1..k -> Seq(Y)]
    PROVE  \E f : Achatada(f, seqs, k)
  <1> DEFINE H == [p \in (1..k) \X Seq(Y) |-> p[2] \o seqs[p[1]]]
  <1>1. ASSUME NEW x \in 1..k, NEW a \in Seq(Y) PROVE H[<<x, a>>] = a \o seqs[x] /\ H[<<x, a>>] \in Seq(Y)
    <2>1. <<x, a>> \in (1..k) \X Seq(Y) /\ seqs[x] \in Seq(Y)
      OBVIOUS
    <2>2. H[<<x, a>>] = a \o seqs[x]
      BY <2>1
    <2> HIDE DEF H
    <2>3. QED
      BY <2>1, <2>2
  <1>2. <<>> \in Seq(Y)
    OBVIOUS
  <1> HIDE DEF H
  <1>3. Leva(k, Seq(Y), H)
    BY <1>1, Zenon DEF Leva
  <1>4. PICK it \in [SUBSET (1..k) -> Seq(Y)] : Dobra(it, k, <<>>, H)
    BY <1>2, <1>3, FoldExists
  <1>5. \A s \in SUBSET (1..k) : it[s] = IF s = {} THEN <<>> ELSE H[<<Maior(s), it[s \ {Maior(s)}]>>]
    BY <1>4, Zenon DEF Dobra
  <1>6. ASSUME NEW i \in 1..k PROVE it[1..i] = it[1..(i - 1)] \o seqs[i]
    <2>1. 1..i \in SUBSET (1..k) /\ 1..i # {} /\ Maior(1..i) = i /\ (1..i) \ {i} = 1..(i - 1)
      BY LargestOfFirst
    <2>2. 1..(i - 1) \in SUBSET (1..k)
      BY <2>1
    <2>3. it[1..(i - 1)] \in Seq(Y)
      BY <2>2
    <2>4. it[1..i] = H[<<i, it[1..(i - 1)]>>]
      BY <1>5, <2>1
    <2>5. QED
      BY <1>1, <2>3, <2>4
  <1>7. it[{}] = <<>>
    BY <1>5
  <1> DEFINE f == [i \in 1..k |-> it[1..i]]
  <1>8. ASSUME NEW i \in 1..k PROVE f[i] = IF i = 1 THEN seqs[i] ELSE f[i - 1] \o seqs[i]
    <2>1. CASE i = 1
      <3>1. 1..(i - 1) = {} /\ seqs[i] \in Seq(Y)
        BY <2>1
      <3>2. <<>> \o seqs[i] = seqs[i]
        BY <3>1
      <3>3. f[i] = seqs[i]
        BY <1>6, <1>7, <3>1, <3>2
      <3>4. QED
        BY <2>1, <3>3
    <2>2. CASE i # 1
      <3>1. i - 1 \in 1..k
        BY <2>2
      <3>2. f[i] = it[1..i] /\ f[i - 1] = it[1..(i - 1)]
        BY <3>1
      <3>3. QED
        BY <1>6, <2>2, <3>2
    <2>3. QED
      BY <2>1, <2>2
  <1>9. f = [i \in 1..k |-> f[i]]
    OBVIOUS
  <1> HIDE DEF f
  <1>10. f = [i \in 1..k |-> IF i = 1 THEN seqs[i] ELSE f[i - 1] \o seqs[i]]
    BY <1>8, <1>9
  <1>11. QED
    BY <1>10 DEF Achatada

\* Flattening sequences of elements of Y gives such a sequence.
LEMMA FlatIs ==
    ASSUME NEW Y, NEW k \in Nat, NEW seqs \in [1..k -> Seq(Y)]
    PROVE  E!FlattenSeq(seqs) \in Seq(Y)
  <1>1. Len(seqs) = k /\ seqs \in Seq(Seq(Y))
    OBVIOUS
  <1>2. CASE k = 0
    <2>1. seqs = <<>>
      BY <1>2
    <2>2. E!FlattenSeq(seqs) = seqs
      BY <1>1, <1>2 DEF E!FlattenSeq
    <2>3. <<>> \in Seq(Y)
      OBVIOUS
    <2>4. QED
      BY <2>1, <2>2, <2>3
  <1>3. CASE k # 0
    <2> DEFINE f == CHOOSE q : Achatada(q, seqs, k)
    <2>1. (CHOOSE q : q = [i \in 1..k |-> IF i = 1 THEN seqs[i] ELSE q[i - 1] \o seqs[i]]) = f
      BY DEF Achatada
    <2>2. Achatada(f, seqs, k)
      BY FlatExists
    <2> HIDE DEF f
    <2>3. E!FlattenSeq(seqs) = f[k]
      BY <1>1, <1>3, <2>1 DEF E!FlattenSeq
    <2>4. \A i \in 1..k : f[i] = IF i = 1 THEN seqs[i] ELSE f[i - 1] \o seqs[i]
      BY <2>2, Zenon DEF Achatada
    <2> DEFINE M == {m \in Nat : m \in 1..k => f[m] \in Seq(Y)}
    <2>5. 0 \in M
      OBVIOUS
    <2>6. ASSUME NEW m \in Nat, m \in M PROVE m + 1 \in M
      <3>1. ASSUME m + 1 \in 1..k PROVE f[m + 1] \in Seq(Y)
        <4>1. PICK i \in 1..k : i = m + 1
          BY <3>1
        <4>2. CASE m = 0
          <5>1. f[i] = seqs[i]
            BY <2>4, <4>1, <4>2
          <5>2. QED
            BY <4>1, <5>1
        <4>3. CASE m # 0
          <5>1. m \in 1..k /\ i # 1 /\ i - 1 = m
            BY <4>1, <4>3
          <5>2. f[i] = f[m] \o seqs[i]
            BY <2>4, <5>1
          <5>3. f[m] \in Seq(Y) /\ seqs[i] \in Seq(Y)
            BY <2>6, <5>1
          <5>4. QED
            BY <4>1, <5>2, <5>3
        <4>4. QED
          BY <4>2, <4>3
      <3>2. QED
        BY <3>1
    <2>7. k \in M
      <3> HIDE DEF M
      <3>1. QED
        BY <2>5, <2>6, NumberInduction
    <2>8. QED
      BY <1>3, <2>3, <2>7
  <1>4. QED
    BY <1>2, <1>3

\* What is read of the base is a history.
LEMMA DatasetIs ==
    ASSUME NEW r \in Loterias, NEW base \in E!Bases(r)
    PROVE  Historico(r, E!dataset(base))
  <1> DEFINE Y == [concurso : Nat, dezenas : E!Sorteios(r)]
             Lidos(i) == [k \in DOMAIN base[i] |-> [concurso |-> i, dezenas |-> base[i][k]]]
  <1>1. PICK m \in Nat : base \in [1..m -> E!Linhas(r)]
    <2>1. PICK m \in 0..MaxConcursos : base \in [1..m -> E!Linhas(r)]
      BY DEF E!Bases, E!BoundedSeq, E!SeqOf
    <2>2. m \in Nat
      BY BasesAssumption
    <2>3. QED
      BY <2>1, <2>2
  <1>2. Len(base) = m
    <2>1. base \in Seq(E!Linhas(r))
      BY <1>1
    <2>2. QED
      BY <1>1, <2>1
  <1>3. PICK desde \in Nat : desde = E!Max({0, Len(base) - LimiteHistorico}) /\ desde <= m
    <2>1. PICK x \in Int : x = m - LimiteHistorico /\ x <= m
      BY BasesAssumption
    <2>2. E!Max({0, x}) = IF 0 >= x THEN 0 ELSE x
      BY LargerOfTwo
    <2>3. (IF 0 >= x THEN 0 ELSE x) \in Nat /\ (IF 0 >= x THEN 0 ELSE x) <= m
      BY <2>1
    <2>4. QED
      BY <1>2, <2>1, <2>2, <2>3
  <1>4. PICK k \in Nat : k = m - desde
    BY <1>3
  <1>5. ASSUME NEW l \in E!Linhas(r)
        PROVE  l \in Seq(E!Sorteios(r))
    <2>1. CASE l \in {<<s>> : s \in E!Sorteios(r)}
      <3>1. PICK s \in E!Sorteios(r) : l = <<s>>
        BY <2>1
      <3>2. <<s>> \in Seq(E!Sorteios(r))
        OBVIOUS
      <3>3. QED
        BY <3>1, <3>2
    <2>2. CASE l \in E!Sorteios(r) \X E!Sorteios(r)
      <3>1. PICK s \in E!Sorteios(r), t \in E!Sorteios(r) : l = <<s, t>>
        BY <2>2
      <3>2. <<s, t>> \in Seq(E!Sorteios(r))
        OBVIOUS
      <3>3. QED
        BY <3>1, <3>2
    <2>3. QED
      BY <1>5, <2>1, <2>2 DEF E!Linhas
  <1>6. ASSUME NEW i \in 1..m PROVE Lidos(i) \in Seq(Y)
    <2>1. PICK l \in Seq(E!Sorteios(r)) : l = base[i]
      BY <1>1, <1>5
    <2>2. Lidos(i) = [x \in 1..Len(l) |-> [concurso |-> i, dezenas |-> l[x]]]
      BY <2>1
    <2>3. Len(l) \in Nat /\ \A x \in 1..Len(l) : l[x] \in E!Sorteios(r)
      OBVIOUS
    <2>4. \A x \in 1..Len(l) : [concurso |-> i, dezenas |-> l[x]] \in Y
      BY <2>3
    <2> HIDE DEF Y
    <2>5. [x \in 1..Len(l) |-> [concurso |-> i, dezenas |-> l[x]]] \in [1..Len(l) -> Y]
      BY <2>4
    <2>6. \A n \in Nat : \A g \in [1..n -> Y] : g \in Seq(Y)
      OBVIOUS
    <2>7. QED
      BY <2>2, <2>3, <2>5, <2>6
  <1> DEFINE seqs == [i \in 1..k |-> Lidos(desde + i)]
  <1>7. seqs \in [1..k -> Seq(Y)]
    <2> HIDE DEF Lidos, Y
    <2>1. \A i \in 1..k : desde + i \in 1..m
      BY <1>3, <1>4
    <2>2. \A i \in 1..k : Lidos(desde + i) \in Seq(Y)
      BY <1>6, <2>1
    <2>3. QED
      BY <2>2
  <1>8. E!dataset(base) = E!FlattenSeq(seqs)
    BY <1>2, <1>3, <1>4 DEF E!dataset
  <1> HIDE DEF seqs
  <1>9. E!dataset(base) \in Seq(Y)
    BY <1>7, <1>8, FlatIs
  <1>10. PICK h : h = E!dataset(base)
    OBVIOUS
  <1>11. h \in Seq(Y)
    BY <1>9, <1>10
  <1>12. \A i \in 1..Len(h) : h[i] \in Y
    <2> HIDE DEF Y
    <2>1. QED
      BY <1>11
  <1>13. Len(h) \in Nat /\ DOMAIN h = 1..Len(h) /\ \A i \in 1..Len(h) : h[i].dezenas \in E!Sorteios(r)
    BY <1>11, <1>12
  <1>14. QED
    BY <1>10, <1>13 DEF Historico

-----------------------------------------------------------------------------
(* The sums of the history (computeStats) *)

LEMMA OnesCounted ==
    ASSUME NEW S, IsFiniteSet(S), NEW parte \in SUBSET S
    PROVE  Total([t \in S |-> 1], parte) = Cardinality(parte)
  BY TotalOfOnes

\* What is added over the numbers is what is added over the sets that hold them.
Somados(S, Y, P, g, f, h) ==
    /\ IsFiniteSet(S) /\ IsFiniteSet(Y) /\ P \in [S -> SUBSET Y] /\ g \in [Y -> Nat] /\ f \in [Y -> Nat] /\ h \in [S -> Nat]
    /\ \A t \in Y : f[t] = g[t] * Cardinality(Quem(P, S, t))
    /\ \A i \in S : h[i] = Total(g, P[i])

LEMMA CountedBySum ==
    ASSUME NEW S, NEW Y, NEW P, NEW g, NEW f, NEW h, Somados(S, Y, P, g, f, h)
    PROVE  E!Soma(f) = Total(h, S) /\ E!Soma(f) = E!Soma(h)
  <1>1. f = Vezes(P, S, Y, g)
    BY DEF Vezes, Somados
  <1>2. h = Parcelas(P, S, g)
    BY DEF Parcelas, Somados
  <1>3. E!Soma(f) = Total(f, Y) /\ E!Soma(h) = Total(h, S)
    BY SumOf DEF Somados
  <1>4. QED
    BY <1>1, <1>2, <1>3, CountedTwice DEF Somados

\* The parts of a set, by a value each element has.
Divididos(S, Y, h, g, f, w) ==
    /\ IsFiniteSet(S) /\ IsFiniteSet(Y) /\ h \in [S -> Y] /\ g \in [Y -> Nat] /\ f \in [Y -> Nat] /\ w \in [S -> Nat]
    /\ \A t \in Y : f[t] = g[t] * Cardinality({i \in S : h[i] = t})
    /\ \A i \in S : w[i] = g[h[i]]

LEMMA CountedByValue ==
    ASSUME NEW S, NEW Y, NEW h, NEW g, NEW f, NEW w, Divididos(S, Y, h, g, f, w)
    PROVE  E!Soma(f) = Total(w, S)
  <1>0. /\ IsFiniteSet(S) /\ IsFiniteSet(Y) /\ h \in [S -> Y] /\ g \in [Y -> Nat] /\ f \in [Y -> Nat] /\ w \in [S -> Nat]
        /\ \A t \in Y : f[t] = g[t] * Cardinality({i \in S : h[i] = t})
        /\ \A i \in S : w[i] = g[h[i]]
    BY DEF Divididos
  <1> DEFINE P == [i \in S |-> {h[i]}]
  <1>1. P \in [S -> SUBSET Y]
    BY <1>0
  <1>2. ASSUME NEW t \in Y PROVE Quem(P, S, t) = {i \in S : h[i] = t}
    BY DEF Quem
  <1>3. ASSUME NEW i \in S PROVE Total(g, P[i]) = g[h[i]]
    <2>1. P[i] \in SUBSET Y /\ h[i] \in P[i] /\ P[i] \ {h[i]} = {}
      BY <1>0
    <2>2. g[h[i]] \in Nat
      BY <1>0
    <2> HIDE DEF P
    <2>3. Total(g, P[i]) = g[h[i]] + Total(g, P[i] \ {h[i]})
      BY <1>0, <2>1, TotalStep
    <2>4. Total(g, P[i] \ {h[i]}) = 0
      BY <1>0, <2>1, TotalOf
    <2>5. QED
      BY <2>2, <2>3, <2>4
  <1>4. \A t \in Y : f[t] = g[t] * Cardinality(Quem(P, S, t))
    BY <1>0, <1>2
  <1>5. \A i \in S : w[i] = Total(g, P[i])
    BY <1>0, <1>3
  <1> HIDE DEF P
  <1>6. Somados(S, Y, P, g, f, w)
    BY <1>0, <1>1, <1>4, <1>5 DEF Somados
  <1>7. QED
    BY <1>6, CountedBySum

LEMMA CountedOnce ==
    ASSUME NEW S, IsFiniteSet(S), NEW Y, IsFiniteSet(Y), NEW h \in [S -> Y],
           NEW f, DOMAIN f = Y, f = [t \in Y |-> f[t]], \A t \in Y : f[t] = Cardinality({i \in S : h[i] = t})
    PROVE  E!Soma(f) = Cardinality(S)
  <1> DEFINE g == [t \in Y |-> 1]
             w == [i \in S |-> 1]
  <1>1. \A t \in Y : Cardinality({i \in S : h[i] = t}) \in Nat
    <2>1. ASSUME NEW t \in Y PROVE Cardinality({i \in S : h[i] = t}) \in Nat
      BY FS_Subset, FS_CardinalityType
    <2>2. QED
      BY <2>1
  <1>2. f \in [Y -> Nat]
    BY <1>1
  <1>3. \A t \in Y : f[t] = g[t] * Cardinality({i \in S : h[i] = t})
    BY <1>1
  <1>4. g \in [Y -> Nat] /\ w \in [S -> Nat] /\ \A i \in S : w[i] = g[h[i]]
    OBVIOUS
  <1>5. S \in SUBSET S
    OBVIOUS
  <1>6. Total(w, S) = Cardinality(S)
    BY <1>5, OnesCounted
  <1> HIDE DEF g, w
  <1>7. E!Soma(f) = Total(w, S)
    <2>1. Divididos(S, Y, h, g, f, w)
      BY <1>2, <1>3, <1>4 DEF Divididos
    <2>2. QED
      BY <2>1, CountedByValue
  <1>8. QED
    BY <1>6, <1>7

\* In so many draws, each with as many numbers.
LEMMA DrawnInAll ==
    ASSUME NEW r \in Loterias, NEW draws, Historico(r, draws), NEW S \in SUBSET (1..Len(draws)),
           NEW f \in [E!Universo(r) -> Nat], \A v \in E!Universo(r) : f[v] = Cardinality(Quem(Dezenas(draws), S, v))
    PROVE  E!Soma(f) = Cardinality(S) * r.sorteia
  <1> DEFINE Y == E!Universo(r)
             P == [i \in S |-> draws[i].dezenas]
             g == [t \in Y |-> 1]
             h == [i \in S |-> r.sorteia]
  <1>1. IsFiniteSet(S) /\ IsFiniteSet(Y) /\ r.sorteia \in Nat
    BY DrawsAre, FS_Subset, LotteryIs
  <1>2. ASSUME NEW i \in S PROVE P[i] \in SUBSET Y /\ Cardinality(P[i]) = r.sorteia /\ P[i] = Dezenas(draws)[i]
    BY DrawIs
  <1>3. P \in [S -> SUBSET Y]
    <2> HIDE DEF Y
    <2>1. QED
      BY <1>2
  <1>4. ASSUME NEW t \in Y PROVE Quem(P, S, t) = Quem(Dezenas(draws), S, t) /\ Cardinality(Quem(P, S, t)) \in Nat
    <2>1. \A i \in S : P[i] = Dezenas(draws)[i]
      BY <1>2
    <2> HIDE DEF P
    <2>2. Quem(P, S, t) = Quem(Dezenas(draws), S, t)
      BY <2>1 DEF Quem
    <2>3. QED
      BY <1>1, <2>2, WhoIsFinite
  <1>5. \A t \in Y : f[t] = g[t] * Cardinality(Quem(P, S, t))
    BY <1>4
  <1>6. ASSUME NEW i \in S PROVE h[i] = Total(g, P[i])
    BY <1>1, <1>2, OnesCounted
  <1>7. g \in [Y -> Nat] /\ h \in [S -> Nat] /\ \A i \in S : h[i] = r.sorteia
    BY <1>1
  <1>8. Cardinality(S) \in Nat
    BY <1>1, FS_CardinalityType
  <1> HIDE DEF Y, P, g, h
  <1>9. f \in [Y -> Nat]
    BY DEF Y
  <1>10. E!Soma(f) = Total(h, S)
    <2>1. Somados(S, Y, P, g, f, h)
      BY <1>1, <1>3, <1>5, <1>6, <1>7, <1>9 DEF Somados
    <2>2. QED
      BY <2>1, CountedBySum
  <1>11. Total(h, S) = r.sorteia * Cardinality(S)
    BY <1>1, <1>7, TotalOfEqual
  <1>12. QED
    BY <1>1, <1>8, <1>10, <1>11

LEMMA PairsAdd ==
    ASSUME NEW r \in Loterias, NEW draws, Historico(r, draws)
    PROVE  /\ E!Soma(E!Pares(r, draws)) = Len(draws) * E!choose(r.sorteia, 2)
           /\ \A p \in Escolhas(2, E!Universo(r)) :
                 E!Pares(r, draws)[p] = Cardinality({i \in 1..Len(draws) : p \subseteq draws[i].dezenas})
  <1> DEFINE n == Len(draws)
             S == 1..n
             Y == Escolhas(2, E!Universo(r))
             P == [i \in S |-> Escolhas(2, draws[i].dezenas)]
             g == [t \in Y |-> 1]
             f == [p \in Y |-> Cardinality({i \in S : p \subseteq draws[i].dezenas})]
             k == E!choose(r.sorteia, 2)
             h == [i \in S |-> k]
  <1>1. n \in Nat /\ IsFiniteSet(S) /\ Cardinality(S) = n /\ DOMAIN draws = S
    BY DrawsAre
  <1>2. IsFiniteSet(Y)
    BY LotteryIs, ChoicesFinite
  <1>3. E!Pares(r, draws) = f
    <2>1. E!kSubset(2, E!Universo(r)) = Y
      BY DEF E!kSubset, Escolhas, E!Cardinality, Cardinality
    <2>2. \A p : {i \in DOMAIN draws : p \subseteq draws[i].dezenas} = {i \in S : p \subseteq draws[i].dezenas}
      BY <1>1
    <2>3. E!Pares(r, draws) = [p \in Y |-> Cardinality({i \in DOMAIN draws : p \subseteq draws[i].dezenas})]
      BY <2>1 DEF E!Pares, E!ContaSe, E!Cardinality, Cardinality
    <2> HIDE DEF S, Y
    <2>4. QED
      BY <2>2, <2>3
  <1>4. ASSUME NEW i \in S
        PROVE  P[i] \in SUBSET Y /\ IsFiniteSet(P[i]) /\ Cardinality(P[i]) = k /\ k \in Nat
    <2>1. draws[i].dezenas \in SUBSET E!Universo(r) /\ Cardinality(draws[i].dezenas) = r.sorteia /\ IsFiniteSet(draws[i].dezenas)
      BY DrawIs
    <2>2. r.sorteia \in Nat /\ 2 \in Int
      BY LotteryIs
    <2>3. k = Quantas(2, draws[i].dezenas)
      BY <2>1, <2>2, ChooseOf
    <2>4. IsFiniteSet(Escolhas(2, draws[i].dezenas)) /\ Quantas(2, draws[i].dezenas) \in Nat
      BY <2>1, ChoicesFinite
    <2>5. P[i] = Escolhas(2, draws[i].dezenas)
      OBVIOUS
    <2>6. P[i] \in SUBSET Y
      BY <2>1, <2>5 DEF Escolhas
    <2> HIDE DEF k, P
    <2>7. QED
      BY <2>3, <2>4, <2>5, <2>6 DEF Quantas
  <1>5. P \in [S -> SUBSET Y]
    <2> HIDE DEF Y, S
    <2>1. QED
      BY <1>4
  <1>6. ASSUME NEW p \in Y
        PROVE  f[p] = Cardinality(Quem(P, S, p)) /\ Cardinality(Quem(P, S, p)) \in Nat /\ g[p] = 1
    <2>1. \A i \in S : p \in P[i] <=> p \subseteq draws[i].dezenas
      BY DEF Escolhas
    <2>2. f[p] = Cardinality({i \in S : p \subseteq draws[i].dezenas}) /\ g[p] = 1
      OBVIOUS
    <2> HIDE DEF P, f, S
    <2>3. Quem(P, S, p) = {i \in S : p \subseteq draws[i].dezenas}
      BY <2>1 DEF Quem
    <2>4. QED
      BY <1>1, <2>2, <2>3, WhoIsFinite
  <1>7. ASSUME NEW i \in S PROVE h[i] = Total(g, P[i]) /\ h[i] \in Nat /\ h[i] = k
    <2>1. Total(g, P[i]) = Cardinality(P[i])
      BY <1>2, <1>4, OnesCounted
    <2>2. QED
      BY <1>4, <2>1
  <1>8. g \in [Y -> Nat] /\ f = [p \in Y |-> f[p]] /\ h = [i \in S |-> h[i]]
    OBVIOUS
  <1>9. n = 0 \/ k \in Nat
    <2>1. n # 0 => 1 \in S
      BY <1>1
    <2>2. QED
      BY <1>4, <2>1
  <1> HIDE DEF S, Y, P, g, f, h, k
  <1>10. f \in [Y -> Nat] /\ h \in [S -> Nat]
    BY <1>6, <1>7, <1>8
  <1>11. \A t \in Y : f[t] = g[t] * Cardinality(Quem(P, S, t))
    BY <1>6
  <1>12. Somados(S, Y, P, g, f, h)
    BY <1>1, <1>2, <1>5, <1>7, <1>8, <1>10, <1>11 DEF Somados
  <1>13. E!Soma(f) = Total(h, S)
    BY <1>12, CountedBySum
  <1>14. Total(h, S) = n * k
    <2>1. CASE n = 0
      <3>1. S = {}
        BY <2>1 DEF S
      <3>2. S \in SUBSET S
        OBVIOUS
      <3>3. Total(h, S) = 0
        BY <1>1, <1>10, <3>1, <3>2, TotalOf
      <3>4. k \in Nat
        <4>1. IsFiniteSet(E!Universo(r)) /\ Cardinality(E!Universo(r)) \in Nat /\ r.sorteia \in Nat /\ r.sorteia <= Cardinality(E!Universo(r))
          BY LotteryIs
        <4>2. PICK s \in SUBSET E!Universo(r) : Cardinality(s) = r.sorteia
          <5>1. PICK d \in Nat : d = r.sorteia /\ d <= r.maior - r.menor + 1
            BY LotteryIs
          <5>2. r.menor \in Nat /\ r.maior \in Nat
            BY LotteryIs
          <5>3. PICK b \in Int : b = r.menor + d - 1
            BY <5>1, <5>2
          <5>7. r.menor \in Int
            BY <5>2
          <5>4. IsFiniteSet(r.menor..b) /\ Cardinality(r.menor..b) = IF r.menor > b THEN 0 ELSE b - r.menor + 1
            BY <5>7, <5>3, FS_Interval
          <5>5. (IF r.menor > b THEN 0 ELSE b - r.menor + 1) = d
            BY <5>1, <5>2, <5>3
          <5>6. r.menor..b \in SUBSET (r.menor..r.maior)
            BY <5>1, <5>2, <5>3
          <5>8. QED
            BY <5>1, <5>4, <5>5, <5>6, LotteryIs
        <4>3. IsFiniteSet(s)
          BY <4>1, FS_Subset
        <4>4. k = Quantas(2, s) /\ Quantas(2, s) \in Nat
          <5>1. 2 \in Int
            OBVIOUS
          <5>2. QED
            BY <4>1, <4>2, <4>3, <5>1, ChooseOf, ChoicesFinite DEF k
        <4>5. QED
          BY <4>4
      <3>5. QED
        BY <2>1, <3>3, <3>4
    <2>2. CASE n # 0
      <3>1. k \in Nat
        BY <1>9, <2>2
      <3>2. Total(h, S) = k * Cardinality(S)
        BY <1>1, <1>7, <1>10, <3>1, TotalOfEqual
      <3>3. QED
        BY <1>1, <3>1, <3>2
    <2>3. QED
      BY <2>1, <2>2
  <1>15. \A p \in Y : E!Pares(r, draws)[p] = Cardinality({i \in S : p \subseteq draws[i].dezenas})
    BY <1>3 DEF f
  <1>16. QED
    BY <1>3, <1>13, <1>14, <1>15 DEF S, Y, k

\* How many numbers a draw shares with a set.
LEMMA SharedIs ==
    ASSUME NEW r \in Loterias, NEW draws, Historico(r, draws), NEW i \in 1..Len(draws), NEW S
    PROVE  Cardinality(draws[i].dezenas \cap S) \in 0..r.sorteia
  <1>1. draws[i].dezenas \cap S \in SUBSET draws[i].dezenas /\ IsFiniteSet(draws[i].dezenas) /\ Cardinality(draws[i].dezenas) = r.sorteia
    BY DrawIs
  <1>2. IsFiniteSet(draws[i].dezenas \cap S) /\ Cardinality(draws[i].dezenas \cap S) <= r.sorteia
    BY <1>1, FS_Subset
  <1>3. Cardinality(draws[i].dezenas \cap S) \in Nat
    BY <1>2, FS_CardinalityType
  <1>4. r.sorteia \in Nat
    BY LotteryIs
  <1>5. QED
    BY <1>2, <1>3, <1>4

LEMMA ParityAdds ==
    ASSUME NEW r \in Loterias, NEW draws, Historico(r, draws)
    PROVE  E!Soma(E!Paridade(r, draws)) = Len(draws)
  <1> DEFINE n == Len(draws)
             S == 1..n
             Y == 0..r.sorteia
             h == [i \in S |-> Cardinality(E!Impares(draws[i].dezenas))]
             f == E!Paridade(r, draws)
  <1>1. n \in Nat /\ IsFiniteSet(S) /\ Cardinality(S) = n /\ DOMAIN draws = S
    BY DrawsAre
  <1>2. IsFiniteSet(Y)
    <2>1. r.sorteia \in Nat
      BY LotteryIs
    <2>2. QED
      BY <2>1, FS_Interval
  <1>3. f = [odd \in Y |-> Cardinality({i \in S : h[i] = odd})]
    <2>1. \A odd : {i \in DOMAIN draws : Cardinality(E!Impares(draws[i].dezenas)) = odd} = {i \in S : h[i] = odd}
      BY <1>1
    <2>2. f = [odd \in Y |-> Cardinality({i \in DOMAIN draws : Cardinality(E!Impares(draws[i].dezenas)) = odd})]
      BY DEF E!Paridade, E!ContaSe, E!Cardinality, Cardinality
    <2> HIDE DEF S, Y, h, f
    <2>3. QED
      BY <2>1, <2>2
  <1>4. \A i \in S : Cardinality(E!Impares(draws[i].dezenas)) \in Y
    <2>1. ASSUME NEW i \in S PROVE Cardinality(E!Impares(draws[i].dezenas)) \in Y
      <3>1. E!Impares(draws[i].dezenas) = draws[i].dezenas \cap E!Impares(draws[i].dezenas)
        BY DEF E!Impares
      <3>2. QED
        BY <3>1, SharedIs
    <2>2. QED
      BY <2>1
  <1>5. h \in [S -> Y]
    <2> HIDE DEF S, Y
    <2>1. QED
      BY <1>4
  <1> HIDE DEF S, Y, h, f
  <1>6. DOMAIN f = Y /\ f = [t \in Y |-> f[t]] /\ \A t \in Y : f[t] = Cardinality({i \in S : h[i] = t})
    BY <1>3
  <1>7. E!Soma(f) = Cardinality(S)
    BY <1>1, <1>2, <1>5, <1>6, CountedOnce
  <1>8. QED
    BY <1>1, <1>7 DEF f

LEMMA RepeatsAdd ==
    ASSUME NEW r \in Loterias, NEW draws, Historico(r, draws)
    PROVE  E!Soma(E!Repeticao(r, draws)) = E!Max({Len(draws) - 1, 0})
  <1> DEFINE n == Len(draws)
             S == 2..n
             Y == 0..r.sorteia
             h == [i \in S |-> E!Repetidas(draws, i)]
             f == E!Repeticao(r, draws)
  <1>1. n \in Nat /\ DOMAIN draws = 1..n
    BY DrawsAre
  <1>2. IsFiniteSet(Y)
    <2>1. r.sorteia \in Nat
      BY LotteryIs
    <2>2. QED
      BY <2>1, FS_Interval
  <1>3. f = [k \in Y |-> Cardinality({i \in S : h[i] = k})]
    <2>1. \A k : {i \in DOMAIN draws : i > 1 /\ E!Repetidas(draws, i) = k} = {i \in S : h[i] = k}
      <3>1. ASSUME NEW k PROVE {i \in 1..n : i > 1 /\ E!Repetidas(draws, i) = k} = {i \in S : h[i] = k}
        <4>1. {i \in 1..n : i > 1 /\ E!Repetidas(draws, i) = k} = {i \in S : E!Repetidas(draws, i) = k}
          BY <1>1
        <4>2. \A i \in S : h[i] = E!Repetidas(draws, i)
          OBVIOUS
        <4> HIDE DEF S, h
        <4>3. QED
          BY <4>1, <4>2
      <3>2. QED
        BY <1>1, <3>1
    <2>2. f = [k \in Y |-> Cardinality({i \in DOMAIN draws : i > 1 /\ E!Repetidas(draws, i) = k})]
      BY DEF E!Repeticao, E!ContaSe, E!Cardinality, Cardinality
    <2> HIDE DEF S, Y, h, f
    <2>3. QED
      BY <2>1, <2>2
  <1>4. \A i \in S : E!Repetidas(draws, i) \in Y
    <2>1. ASSUME NEW i \in S PROVE E!Repetidas(draws, i) \in Y
      <3>1. E!Repetidas(draws, i) = Cardinality(draws[i].dezenas \cap draws[i - 1].dezenas)
        BY DEF E!Repetidas, E!Cardinality, Cardinality
      <3>2. i \in 1..n
        BY <1>1
      <3>3. QED
        BY <3>1, <3>2, SharedIs, ZenonT(40)
    <2>2. QED
      BY <2>1
  <1>5. h \in [S -> Y]
    <2> HIDE DEF S, Y
    <2>1. QED
      BY <1>4
  <1>6. IsFiniteSet(S) /\ Cardinality(S) = IF 2 > n THEN 0 ELSE n - 2 + 1
    BY <1>1, FS_Interval, SMTT(30)
  <1>7. (IF 2 > n THEN 0 ELSE n - 2 + 1) = IF n - 1 >= 0 THEN n - 1 ELSE 0
    BY <1>1
  <1>8. E!Max({n - 1, 0}) = IF n - 1 >= 0 THEN n - 1 ELSE 0
    BY <1>1, LargerOfTwo
  <1> HIDE DEF S, Y, h, f
  <1>9. DOMAIN f = Y /\ f = [t \in Y |-> f[t]] /\ \A t \in Y : f[t] = Cardinality({i \in S : h[i] = t})
    BY <1>3
  <1>10. E!Soma(f) = Cardinality(S)
    BY <1>2, <1>5, <1>6, <1>9, CountedOnce
  <1>11. QED
    BY <1>6, <1>7, <1>8, <1>10 DEF f

DasDezenas(r, draws, janela) == [v \in E!Universo(r) |-> E!Dezena(r, draws, v, janela)]
AsVezes(r, d) == [v \in E!Universo(r) |-> d[v].vezes]
AsRecentes(r, d) == [v \in E!Universo(r) |-> d[v].recentes]

LEMMA FrequenciesAdd ==
    ASSUME NEW r \in Loterias, NEW draws, Historico(r, draws), NEW janela \in Nat,
           NEW d, d = DasDezenas(r, draws, janela)
    PROVE  /\ E!Soma(AsVezes(r, d)) = Len(draws) * r.sorteia
           /\ E!Soma(AsRecentes(r, d)) = E!Min({Len(draws), janela}) * r.sorteia
           /\ \A v \in E!Universo(r) : d[v].vezes \in Nat /\ d[v].recentes \in Nat
           /\ \A v \in E!Universo(r) : d[v].vezes = Cardinality(Quem(Dezenas(draws), 1..Len(draws), v))
  <1> DEFINE n == Len(draws)
             Y == E!Universo(r)
             f == [v \in Y |-> d[v].vezes]
             h == [v \in Y |-> d[v].recentes]
  <1>1. n \in Nat /\ IsFiniteSet(1..n) /\ Cardinality(1..n) = n /\ 1..n \in SUBSET (1..n)
    BY DrawsAre
  <1>2. /\ IsFiniteSet(Recentes(n, janela)) /\ Recentes(n, janela) \in SUBSET (1..n)
        /\ Cardinality(Recentes(n, janela)) = E!Min({n, janela})
    <2>1. E!Min({n, janela}) = IF n <= janela THEN n ELSE janela
      <3>1. n \in Int /\ janela \in Int
        BY <1>1
      <3> HIDE DEF n
      <3>2. QED
        BY <3>1, LargerOfTwo
    <2>2. QED
      BY <1>1, <2>1, WindowIs
  <1>3. ASSUME NEW v \in Y
        PROVE  /\ d[v].vezes = Cardinality(Quem(Dezenas(draws), 1..n, v)) /\ d[v].vezes \in Nat
               /\ d[v].recentes = Cardinality(Quem(Dezenas(draws), Recentes(n, janela), v)) /\ d[v].recentes \in Nat
    <2>1. d[v] = E!Dezena(r, draws, v, janela)
      BY DEF DasDezenas
    <2>2. d[v].vezes = Cardinality(Quem(Dezenas(draws), 1..n, v)) /\ d[v].recentes = Cardinality(Quem(Dezenas(draws), Recentes(n, janela), v))
      <3>1. /\ E!Dezena(r, draws, v, janela).vezes = Cardinality(Quem(Dezenas(draws), 1..n, v))
            /\ E!Dezena(r, draws, v, janela).recentes = Cardinality(Quem(Dezenas(draws), Recentes(n, janela), v))
        BY NumberIs, ZenonT(40)
      <3>2. QED
        BY <2>1, <3>1
    <2>3. QED
      BY <1>1, <1>2, <2>2, WhoIsFinite
  <1>4. f \in [Y -> Nat] /\ h \in [Y -> Nat]
    BY <1>3
  <1>5. E!Soma(f) = Cardinality(1..n) * r.sorteia
    <2>1. \A v \in Y : f[v] = Cardinality(Quem(Dezenas(draws), 1..n, v))
      BY <1>3
    <2> HIDE DEF f
    <2>2. QED
      BY <1>1, <1>4, <2>1, DrawnInAll
  <1>6. E!Soma(h) = Cardinality(Recentes(n, janela)) * r.sorteia
    <2>1. \A v \in Y : h[v] = Cardinality(Quem(Dezenas(draws), Recentes(n, janela), v))
      BY <1>3
    <2> HIDE DEF h
    <2>2. QED
      BY <1>2, <1>4, <2>1, DrawnInAll
  <1>7. QED
    BY <1>1, <1>2, <1>3, <1>5, <1>6 DEF AsVezes, AsRecentes

\* The sum of a set of numbers.
LEMMA SumOfNumbers ==
    ASSUME NEW S \in SUBSET Nat, IsFiniteSet(S), NEW Y \in SUBSET Nat, IsFiniteSet(Y), S \subseteq Y
    PROVE  E!SomaDe(S) = Total([v \in Y |-> v], S) /\ E!SomaDe(S) \in Nat
  <1> DEFINE u == [v \in S |-> v]
             w == [v \in Y |-> v]
  <1>1. u \in [S -> Nat] /\ w \in [Y -> Nat] /\ (\A c \in S : u[c] = w[c]) /\ S \in SUBSET Y
    OBVIOUS
  <1>2. E!SomaDe(S) = E!Soma(u)
    BY DEF E!SomaDe
  <1> HIDE DEF u, w
  <1>3. E!Soma(u) = Total(u, S)
    BY <1>1, SumOf
  <1>4. Total(u, S) = Total(w, S)
    BY <1>1, TotalRestricted, ZenonT(40)
  <1>5. Total(w, S) \in Nat
    BY <1>1, TotalOf
  <1>6. QED
    BY <1>2, <1>3, <1>4, <1>5 DEF w

LEMMA SumsAdd ==
    ASSUME NEW r \in Loterias, NEW draws, Historico(r, draws),
           NEW d, \A v \in E!Universo(r) : d[v].vezes = Cardinality(Quem(Dezenas(draws), 1..Len(draws), v))
    PROVE  E!Soma([i \in DOMAIN draws |-> E!SomaDe(draws[i].dezenas)]) = E!Soma([v \in E!Universo(r) |-> v * d[v].vezes])
  <1> DEFINE n == Len(draws)
             S == 1..n
             Y == E!Universo(r)
             P == Dezenas(draws)
             g == [v \in Y |-> v]
             f == [v \in Y |-> v * d[v].vezes]
             h == [i \in S |-> E!SomaDe(draws[i].dezenas)]
  <1>1. IsFiniteSet(S) /\ DOMAIN draws = S /\ P \in [S -> SUBSET Y]
    BY DrawsAre
  <1>2. IsFiniteSet(Y) /\ Y \in SUBSET Nat
    BY LotteryIs
  <1>3. ASSUME NEW i \in S PROVE h[i] = Total(g, P[i]) /\ h[i] \in Nat
    <2>1. draws[i].dezenas \in SUBSET Y /\ draws[i].dezenas \in SUBSET Nat /\ IsFiniteSet(draws[i].dezenas) /\ P[i] = draws[i].dezenas
      BY DrawIs
    <2>2. E!SomaDe(draws[i].dezenas) = Total(g, draws[i].dezenas) /\ E!SomaDe(draws[i].dezenas) \in Nat
      BY <1>2, <2>1, SumOfNumbers
    <2>3. h[i] = E!SomaDe(draws[i].dezenas)
      OBVIOUS
    <2> HIDE DEF h, g, P, Y
    <2>4. QED
      BY <2>1, <2>2, <2>3
  <1>4. ASSUME NEW v \in Y PROVE f[v] = g[v] * Cardinality(Quem(P, S, v)) /\ f[v] \in Nat
    <2>1. PICK c \in Nat : c = Cardinality(Quem(P, S, v))
      BY <1>1, WhoIsFinite
    <2>2. f[v] = v * c /\ g[v] = v
      BY <2>1
    <2>3. v \in Nat
      BY <1>2
    <2> HIDE DEF f, g, P, S, Y
    <2>4. QED
      BY <2>1, <2>2, <2>3
  <1>5. g \in [Y -> Nat]
    BY <1>2
  <1>6. f = [v \in Y |-> f[v]] /\ h = [i \in S |-> h[i]]
    OBVIOUS
  <1>7. [i \in DOMAIN draws |-> E!SomaDe(draws[i].dezenas)] = h
    BY <1>1
  <1> HIDE DEF S, Y, P, g, f, h
  <1>8. f \in [Y -> Nat] /\ h \in [S -> Nat]
    BY <1>3, <1>4, <1>6
  <1>9. Somados(S, Y, P, g, f, h)
    BY <1>1, <1>2, <1>3, <1>4, <1>5, <1>8 DEF Somados
  <1>10. E!Soma(f) = E!Soma(h)
    BY <1>9, CountedBySum
  <1>11. QED
    BY <1>7, <1>10 DEF f, Y

LEMMA NeighboursAdd ==
    ASSUME NEW r \in Loterias, NEW draws, Historico(r, draws)
    PROVE  E!Seguidas(draws).pares = E!Soma([v \in E!Universo(r) \ {r.menor} |-> E!Pares(r, draws)[{v - 1, v}]])
  <1> DEFINE n == Len(draws)
             S == 1..n
             Y == E!Universo(r) \ {r.menor}
             P == [i \in S |-> {v \in draws[i].dezenas : v - 1 \in draws[i].dezenas}]
             g == [v \in Y |-> 1]
             f == [v \in Y |-> E!Pares(r, draws)[{v - 1, v}]]
             h == [i \in S |-> E!consecutiveInfo(draws[i].dezenas).pairs]
  <1>1. IsFiniteSet(S) /\ DOMAIN draws = S
    BY DrawsAre
  <1>2. /\ IsFiniteSet(E!Universo(r)) /\ E!Universo(r) = r.menor..r.maior /\ r.menor \in Nat /\ r.maior \in Nat
    BY LotteryIs
  <1>3. IsFiniteSet(Y)
    BY <1>2, FS_Subset
  <1>4. ASSUME NEW i \in S
        PROVE  P[i] \in SUBSET Y /\ h[i] = Cardinality(P[i]) /\ h[i] \in Nat
    <2>1. draws[i].dezenas \in SUBSET E!Universo(r) /\ draws[i].dezenas \in SUBSET Nat /\ IsFiniteSet(draws[i].dezenas)
      BY DrawIs
    <2>2. draws[i].dezenas \in SUBSET Int
      BY <2>1
    <2>3. E!consecutiveInfo(draws[i].dezenas).pairs = Cardinality({v \in draws[i].dezenas : v - 1 \in draws[i].dezenas})
          /\ E!consecutiveInfo(draws[i].dezenas).pairs \in Nat
      BY <2>1, <2>2, RunsAre
    <2>4. \A v \in draws[i].dezenas : v - 1 \in draws[i].dezenas => v \in Y
      BY <1>2, <2>1
    <2>5. P[i] = {v \in draws[i].dezenas : v - 1 \in draws[i].dezenas} /\ h[i] = E!consecutiveInfo(draws[i].dezenas).pairs
      OBVIOUS
    <2> HIDE DEF Y, P, h
    <2>6. QED
      BY <2>3, <2>4, <2>5
  <1>5. P \in [S -> SUBSET Y]
    <2> HIDE DEF S, Y
    <2>1. QED
      BY <1>4
  <1>6. ASSUME NEW i \in S PROVE h[i] = Total(g, P[i])
    BY <1>3, <1>4, OnesCounted
  <1>7. ASSUME NEW v \in Y PROVE f[v] = g[v] * Cardinality(Quem(P, S, v)) /\ f[v] \in Nat
    <2>1. v \in Int /\ v - 1 # v /\ v - 1 \in E!Universo(r) /\ v \in E!Universo(r)
      BY <1>2
    <2>2. Cardinality({v - 1, v}) = 2
      <3>1. IsFiniteSet({v - 1}) /\ Cardinality({v - 1}) = 1 /\ v \notin {v - 1} /\ {v - 1, v} = {v - 1} \cup {v}
        BY <2>1, FS_Singleton
      <3>2. Cardinality({v - 1} \cup {v}) = 1 + 1
        BY <3>1, FS_AddElement
      <3>3. QED
        BY <3>1, <3>2
    <2>3. {v - 1, v} \in Escolhas(2, E!Universo(r))
      BY <2>1, <2>2 DEF Escolhas
    <2>4. f[v] = Cardinality({i \in S : {v - 1, v} \subseteq draws[i].dezenas})
      BY <2>3, PairsAdd
    <2>5. {i \in S : {v - 1, v} \subseteq draws[i].dezenas} = Quem(P, S, v)
      BY DEF Quem
    <2>6. PICK c \in Nat : c = Cardinality(Quem(P, S, v))
      BY <1>1, WhoIsFinite
    <2>7. g[v] = 1 /\ f[v] = c
      BY <2>4, <2>5, <2>6
    <2> HIDE DEF f, P, S, g
    <2>8. QED
      BY <2>6, <2>7
  <1>8. g \in [Y -> Nat] /\ f = [v \in Y |-> f[v]] /\ h = [i \in S |-> h[i]]
    OBVIOUS
  <1>9. E!Seguidas(draws).pares = E!Soma(h)
    BY <1>1 DEF E!Seguidas
  <1> HIDE DEF S, Y, P, g, f, h
  <1>10. f \in [Y -> Nat] /\ h \in [S -> Nat]
    BY <1>4, <1>7, <1>8
  <1>11. Somados(S, Y, P, g, f, h)
    BY <1>1, <1>3, <1>5, <1>6, <1>7, <1>8, <1>10 DEF Somados
  <1>12. E!Soma(f) = E!Soma(h)
    BY <1>11, CountedBySum
  <1>13. QED
    BY <1>9, <1>12 DEF f, Y

LEMMA GroupsAdd ==
    ASSUME NEW r \in Loterias, NEW draws, Historico(r, draws), NEW q,
           NEW d, \A v \in E!Universo(r) : d[v].vezes = Cardinality(Quem(Dezenas(draws), 1..Len(draws), v))
    PROVE  E!Soma([i \in DOMAIN draws |-> Cardinality(E!DoGrupo(r, draws[i].dezenas, q))])
              = E!Soma([v \in E!DoGrupo(r, E!Universo(r), q) |-> d[v].vezes])
  <1> DEFINE n == Len(draws)
             S == 1..n
             Y == E!DoGrupo(r, E!Universo(r), q)
             P == [i \in S |-> E!DoGrupo(r, draws[i].dezenas, q)]
             g == [v \in Y |-> 1]
             f == [v \in Y |-> d[v].vezes]
             h == [i \in S |-> Cardinality(E!DoGrupo(r, draws[i].dezenas, q))]
  <1>1. IsFiniteSet(S) /\ DOMAIN draws = S
    BY DrawsAre
  <1>2. IsFiniteSet(Y)
    <2>1. IsFiniteSet(E!Universo(r)) /\ Y \subseteq E!Universo(r)
      BY LotteryIs DEF E!DoGrupo
    <2>2. QED
      BY <2>1, FS_Subset
  <1>3. ASSUME NEW i \in S
        PROVE  P[i] \in SUBSET Y /\ h[i] = Cardinality(P[i]) /\ h[i] \in Nat
    <2>1. draws[i].dezenas \in SUBSET E!Universo(r)
      BY DrawIs
    <2>2. P[i] \in SUBSET Y
      BY <2>1 DEF E!DoGrupo
    <2>3. IsFiniteSet(P[i])
      BY <1>2, <2>2, FS_Subset
    <2>4. QED
      BY <2>2, <2>3, FS_CardinalityType
  <1>4. P \in [S -> SUBSET Y]
    <2> HIDE DEF S, Y
    <2>1. QED
      BY <1>3
  <1>5. ASSUME NEW i \in S PROVE h[i] = Total(g, P[i])
    BY <1>2, <1>3, OnesCounted
  <1>6. ASSUME NEW v \in Y PROVE f[v] = g[v] * Cardinality(Quem(P, S, v)) /\ f[v] \in Nat
    <2>1. v \in E!Universo(r) /\ \A i \in S : v \in P[i] <=> v \in draws[i].dezenas
      BY DEF E!DoGrupo
    <2>2. \A i \in S : Dezenas(draws)[i] = draws[i].dezenas
      BY DrawIs
    <2>3. f[v] = Cardinality(Quem(Dezenas(draws), S, v)) /\ g[v] = 1
      BY <2>1
    <2>4. Cardinality(Quem(P, S, v)) \in Nat
      BY <1>1, WhoIsFinite
    <2> HIDE DEF f, P, S, g
    <2>5. Quem(P, S, v) = Quem(Dezenas(draws), S, v)
      BY <2>1, <2>2 DEF Quem
    <2>6. QED
      BY <2>3, <2>4, <2>5
  <1>7. g \in [Y -> Nat] /\ f = [v \in Y |-> f[v]] /\ h = [i \in S |-> h[i]]
    OBVIOUS
  <1>8. [i \in DOMAIN draws |-> Cardinality(E!DoGrupo(r, draws[i].dezenas, q))] = h
    BY <1>1
  <1> HIDE DEF S, Y, P, g, f, h
  <1>9. f \in [Y -> Nat] /\ h \in [S -> Nat]
    BY <1>3, <1>6, <1>7
  <1>10. Somados(S, Y, P, g, f, h)
    BY <1>1, <1>2, <1>4, <1>5, <1>6, <1>7, <1>9 DEF Somados
  <1>11. E!Soma(f) = E!Soma(h)
    BY <1>10, CountedBySum
  <1>12. QED
    BY <1>8, <1>11 DEF f, Y

\* There is a bar under the mean to begin with.
LEMMA FarBelow ==
    ASSUME NEW r \in Loterias
    PROVE  E!Abaixo(E!theoreticalSum(r, r.sorteia)) \in Int /\ E!theoreticalSum(r, r.sorteia).dobro \in Int
  <1> DEFINE t == E!theoreticalSum(r, r.sorteia)
  <1>1. PICK k \in Nat, N \in Nat, b \in Nat : k = r.sorteia /\ N = E!universeSize(r) /\ b = r.menor + r.maior /\ k <= N
    BY LotteryIs
  <1>2. PICK doze \in Nat : doze = k * (N + 1) * (N - k)
    <2>1. PICK m \in Nat : m = N - k
      BY <1>1
    <2>2. k * (N + 1) * m \in Nat
      BY <1>1, <2>1
    <2>3. QED
      BY <2>1, <2>2
  <1>3. PICK dobro \in Nat : dobro = k * b
    BY <1>1
  <1>4. t = [dobro |-> dobro, doze |-> doze]
    BY <1>1, <1>2, <1>3 DEF E!theoreticalSum
  <1>5. t.dobro = dobro /\ t.doze = doze
    BY <1>4
  <1> HIDE DEF t
  <1> DEFINE Z == {x \in (0 - doze)..dobro : 2 * x <= dobro /\ (dobro - 2 * x) * (dobro - 2 * x) >= 3 * doze}
  <1>6. 0 - doze \in Z
    <2>1. PICK x \in Int : x = 0 - doze
      OBVIOUS
    <2>2. PICK e \in Nat : e = dobro - 2 * x /\ e >= 2 * doze
      BY <2>1
    <2>3. 2 * x <= dobro /\ x \in (0 - doze)..dobro
      BY <2>1
    <2>4. e * e >= 3 * doze
      <3>1. CASE doze = 0
        BY <3>1
      <3>2. CASE doze # 0
        <4>1. e * e >= e * 2 /\ e * 2 >= 4 * doze
          BY <2>2, <3>2
        <4>2. PICK q \in Nat : q = e * e
          OBVIOUS
        <4>3. q >= e * 2
          BY <4>1, <4>2
        <4>4. q >= 3 * doze
          BY <4>1, <4>3
        <4>5. QED
          BY <4>2, <4>4
      <3>3. QED
        BY <3>1, <3>2
    <2>5. QED
      BY <2>1, <2>2, <2>3, <2>4
  <1>7. Z \in SUBSET Int /\ IsFiniteSet(Z)
    <2>1. 0 - doze \in Int /\ dobro \in Int
      OBVIOUS
    <2>2. IsFiniteSet((0 - doze)..dobro)
      BY <2>1, FS_Interval
    <2>3. Z \subseteq (0 - doze)..dobro
      OBVIOUS
    <2>4. QED
      BY <2>2, <2>3, FS_Subset
  <1>8. E!Abaixo(t) = E!Max(Z)
    BY <1>5 DEF E!Abaixo
  <1> HIDE DEF Z
  <1>9. E!Max(Z) \in Z
    BY <1>6, <1>7, SmallestOf
  <1>10. QED
    <2>1. E!Abaixo(t) \in Int
      BY <1>7, <1>8, <1>9
    <2>2. t.dobro \in Int
      BY <1>5
    <2>3. QED
      BY <2>1, <2>2 DEF t

LEMMA BarsAdd ==
    ASSUME NEW r \in Loterias, NEW draws, Historico(r, draws)
    PROVE  E!Soma(E!Histograma(r, draws)) = Len(draws)
  <1> DEFINE n == Len(draws)
             S == 1..n
             Y == 0..(Barras - 1)
             t == E!theoreticalSum(r, r.sorteia)
             baixo == E!Abaixo(t)
             largura == E!Max({1, E!Teto(t.dobro - 2 * baixo, Barras)})
             bar == [i \in DOMAIN draws |->
                       E!Min({Barras - 1, E!Max({0, (E!SomaDe(draws[i].dezenas) - baixo) \div largura})})]
             f == E!Histograma(r, draws)
  <1>1. n \in Nat /\ IsFiniteSet(S) /\ Cardinality(S) = n /\ DOMAIN draws = S
    BY DrawsAre
  <1>2. Barras \in Nat \ {0} /\ IsFiniteSet(Y)
    <2>1. Barras \in Nat \ {0}
      BY BasesAssumption
    <2>2. QED
      BY <2>1, FS_Interval
  <1>3. baixo \in Int /\ t.dobro \in Int
    BY FarBelow
  <1>4. f = [b \in Y |-> Cardinality({i \in DOMAIN draws : bar[i] = b})]
    BY DEF E!Histograma, E!ContaSe, E!Cardinality, Cardinality
  <1>5. largura \in Nat \ {0}
    <2>1. PICK a \in Int : a = t.dobro - 2 * baixo + Barras - 1
      BY <1>2, <1>3
    <2>2. PICK x \in Int : x = E!Teto(t.dobro - 2 * baixo, Barras)
      <3>1. a \div Barras \in Int
        BY <1>2, DivisionIs
      <3>2. QED
        BY <2>1, <3>1 DEF E!Teto
    <2> HIDE DEF t, baixo
    <2>3. E!Max({1, x}) = IF 1 >= x THEN 1 ELSE x
      BY LargerOfTwo
    <2>4. QED
      BY <2>2, <2>3
  <1> HIDE DEF largura, baixo, t
  <1>6. \A i \in S : bar[i] \in Y
    <2>1. ASSUME NEW i \in S PROVE bar[i] \in Y
      <3>1. draws[i].dezenas \in SUBSET Nat /\ IsFiniteSet(draws[i].dezenas)
        BY DrawIs
      <3>2. E!SomaDe(draws[i].dezenas) \in Nat
        BY <3>1, SumOfNumbers
      <3>3. PICK a \in Int : a = E!SomaDe(draws[i].dezenas) - baixo
        BY <1>3, <3>2
      <3>4. PICK x \in Int : x = a \div largura
        BY <1>5, DivisionIs
      <3>5. PICK y \in Nat : y = E!Max({0, x})
        <4>1. E!Max({0, x}) = IF 0 >= x THEN 0 ELSE x
          BY LargerOfTwo
        <4>2. QED
          BY <4>1
      <3>6. PICK c \in Nat : c = Barras - 1
        BY <1>2
      <3>7. E!Min({c, y}) = IF c <= y THEN c ELSE y
        <4>1. c \in Int /\ y \in Int
          OBVIOUS
        <4>2. QED
          BY <4>1, LargerOfTwo
      <3>8. bar[i] = E!Min({c, y})
        BY <1>1, <3>3, <3>4, <3>5, <3>6
      <3> HIDE DEF bar
      <3>9. QED
        BY <3>6, <3>7, <3>8
    <2>2. QED
      BY <2>1
  <1>7. bar = [i \in S |-> bar[i]]
    BY <1>1
  <1> HIDE DEF S, Y, bar, f
  <1>8. bar \in [S -> Y]
    BY <1>6, <1>7
  <1>9. DOMAIN f = Y /\ f = [b \in Y |-> f[b]] /\ \A b \in Y : f[b] = Cardinality({i \in S : bar[i] = b})
    BY <1>1, <1>4
  <1>10. E!Soma(f) = Cardinality(S)
    BY <1>1, <1>2, <1>8, <1>9, CountedOnce
  <1>11. QED
    BY <1>1, <1>10 DEF f

\* A ranking by a value has the largest at the top.
LEMMA TopRanked ==
    ASSUME NEW r \in Loterias, NEW valor, \A v \in E!Universo(r) : valor[v] \in Nat
    PROVE  \A v \in E!Range(E!Ranking(r, valor, TRUE)), u \in E!Universo(r) \ E!Range(E!Ranking(r, valor, TRUE)) :
              v \in E!Universo(r) /\ valor[v] >= valor[u]
  <1> DEFINE Y == E!Universo(r)
             antes == [v \in Y |-> {u \in Y : (IF TRUE THEN valor[u] > valor[v] ELSE valor[u] < valor[v])
                                              \/ (valor[u] = valor[v] /\ u < v)}]
             m == Cardinality(Y)
             ordem == Posta(Y, antes)
  <1>1. IsFiniteSet(Y) /\ Y \in SUBSET Nat /\ m \in Nat
    BY LotteryIs, FS_CardinalityType
  <1>2. E!EmOrdem(Y, antes) = ordem
    BY DEF E!EmOrdem, Posta, E!Cardinality, Cardinality
  <1>3. Ordena(Y, antes)
    <2>1. antes \in [Y -> SUBSET Y]
      OBVIOUS
    <2>2. \A u, v \in Y : u \in antes[v] <=> valor[u] > valor[v] \/ (valor[u] = valor[v] /\ u < v)
      OBVIOUS
    <2> HIDE DEF antes
    <2>3. \A v \in Y : v \notin antes[v]
      BY <1>1, <2>2
    <2>4. ASSUME NEW u \in Y, NEW v \in Y, u \in antes[v] PROVE antes[u] \subseteq antes[v]
      <3>1. ASSUME NEW x \in antes[u] PROVE x \in antes[v]
        <4>1. x \in Y
          BY <2>1, <3>1
        <4>2. valor[x] > valor[u] \/ (valor[x] = valor[u] /\ x < u)
          BY <2>2, <4>1
        <4>3. valor[u] > valor[v] \/ (valor[u] = valor[v] /\ u < v)
          BY <2>2, <2>4
        <4>4. valor[x] \in Nat /\ valor[u] \in Nat /\ valor[v] \in Nat /\ x \in Nat /\ u \in Nat /\ v \in Nat
          BY <1>1, <4>1
        <4>5. valor[x] > valor[v] \/ (valor[x] = valor[v] /\ x < v)
          BY <4>2, <4>3, <4>4
        <4>6. QED
          BY <2>2, <4>1, <4>5
      <3>2. QED
        BY <3>1
    <2>5. ASSUME NEW u \in Y, NEW v \in Y, u # v PROVE u \in antes[v] \/ v \in antes[u]
      <3>1. valor[u] \in Nat /\ valor[v] \in Nat /\ u \in Nat /\ v \in Nat
        BY <1>1
      <3>2. u < v \/ v < u
        BY <2>5, <3>1
      <3>3. u \in antes[v] <=> valor[u] > valor[v] \/ (valor[u] = valor[v] /\ u < v)
        BY <2>2
      <3>4. v \in antes[u] <=> valor[v] > valor[u] \/ (valor[v] = valor[u] /\ v < u)
        BY <2>2
      <3>5. valor[u] > valor[v] \/ valor[v] > valor[u] \/ valor[u] = valor[v]
        BY <3>1
      <3>6. QED
        BY <3>2, <3>3, <3>4, <3>5
    <2>6. QED
      BY <2>1, <2>3, <2>4, <2>5 DEF Ordena
  <1>4. EmSequencia(Y, antes, ordem)
    BY <1>1, <1>3, OrderIs
  <1>5. ordem \in [1..m -> Y] /\ (\A v \in Y : \E i \in 1..m : ordem[i] = v)
        /\ \A i, j \in 1..m : i < j => ordem[i] \in antes[ordem[j]]
    BY <1>4 DEF EmSequencia
  <1>6. Len(ordem) = m /\ ordem \in Seq(Y)
    <2> HIDE DEF ordem, Y
    <2>1. QED
      BY <1>1, <1>5
  <1>7. PICK c \in Nat : c = E!Min({Topo, m}) /\ c <= m
    <2>1. Topo \in Nat
      BY BasesAssumption
    <2>2. E!Min({Topo, m}) = IF Topo <= m THEN Topo ELSE m
      <3>1. Topo \in Int /\ m \in Int
        BY <1>1, <2>1
      <3> HIDE DEF m
      <3>2. QED
        BY <3>1, LargerOfTwo
    <2>3. QED
      BY <1>1, <2>1, <2>2
  <1>8. E!Ranking(r, valor, TRUE) = SubSeq(ordem, 1, c)
    <2>2. E!Ranking(r, valor, TRUE) = SubSeq(E!EmOrdem(Y, antes), 1, E!Min({Topo, Len(E!EmOrdem(Y, antes))}))
      BY DEF E!Ranking
    <2> HIDE DEF antes, Y, ordem
    <2>3. QED
      BY <1>2, <1>6, <1>7, <2>2
  <1> HIDE DEF ordem, Y
  <1>9. E!Range(SubSeq(ordem, 1, c)) = {ordem[i] : i \in 1..c}
    <2>1. SubSeq(ordem, 1, c) = [i \in 1..c |-> ordem[i]]
      BY <1>6, <1>7
    <2>2. QED
      BY <2>1 DEF E!Range
  <1>10. ASSUME NEW v \in E!Range(E!Ranking(r, valor, TRUE)), NEW u \in Y \ E!Range(E!Ranking(r, valor, TRUE))
         PROVE  v \in Y /\ valor[v] >= valor[u]
    <2>1. PICK i \in 1..c : v = ordem[i]
      BY <1>8, <1>9
    <2>2. PICK j \in 1..m : u = ordem[j]
      BY <1>5
    <2>3. ~(j <= c)
      <3>1. j \in Nat /\ 1 <= j
        BY <1>1, <2>2
      <3>2. ASSUME j <= c PROVE FALSE
        <4>1. j \in 1..c
          BY <3>1, <3>2
        <4>2. ordem[j] \in E!Range(E!Ranking(r, valor, TRUE))
          BY <1>8, <1>9, <4>1
        <4>3. QED
          BY <2>2, <4>2
      <3>3. QED
        BY <3>2
    <2>4. i \in 1..m /\ i < j /\ v \in Y
      BY <1>1, <1>5, <1>7, <2>1, <2>3
    <2>5. v \in antes[u]
      BY <1>5, <2>1, <2>2, <2>4
    <2>6. valor[v] > valor[u] \/ valor[v] = valor[u]
      BY <2>5
    <2>7. valor[v] \in Nat /\ valor[u] \in Nat
      BY <2>4 DEF Y
    <2>8. QED
      BY <2>4, <2>6, <2>7
  <1>11. QED
    BY <1>10 DEF Y

\* No number comes out more than expected without one that comes out less.
LEMMA HotHasCold ==
    ASSUME NEW r \in Loterias, NEW draws, Historico(r, draws), NEW janela \in Nat,
           NEW d, d = DasDezenas(r, draws, janela),
           NEW v \in E!Universo(r), d[v].quente
    PROVE  \E u \in E!Universo(r) : d[u].recentes * E!universeSize(r) < janela * r.sorteia
  <1>1. Len(draws) >= janela /\ d[v].recentes * E!universeSize(r) > janela * r.sorteia
    <2>1. E!Dezena(r, draws, v, janela).quente
          => Len(draws) >= janela /\ E!Dezena(r, draws, v, janela).recentes * E!universeSize(r) > janela * r.sorteia
      BY NumberIs
    <2>2. QED
      BY <2>1 DEF DasDezenas
  <1>2. /\ \A u \in E!Universo(r) : d[u].recentes \in Nat
        /\ E!Soma([u \in E!Universo(r) |-> d[u].recentes]) = E!Min({Len(draws), janela}) * r.sorteia
    <2>1. \A u \in E!Universo(r) : d[u].vezes \in Nat /\ d[u].recentes \in Nat
      BY FrequenciesAdd
    <2>2. E!Soma(AsRecentes(r, d)) = E!Min({Len(draws), janela}) * r.sorteia
      BY FrequenciesAdd
    <2>3. QED
      BY <2>1, <2>2 DEF AsRecentes
  <1>3. PICK N \in Nat : N = E!universeSize(r) /\ N = Cardinality(E!Universo(r)) /\ IsFiniteSet(E!Universo(r))
    BY LotteryIs
  <1>4. PICK K_ \in Nat : K_ = janela * r.sorteia
    <2>1. r.sorteia \in Nat
      BY LotteryIs
    <2>2. QED
      BY <2>1
  <1> DEFINE Y == E!Universo(r)
             x == [u \in Y |-> d[u].recentes]
             y == [u \in Y |-> N * d[u].recentes]
             z == [u \in Y |-> K_]
  <1>5. x \in [Y -> Nat] /\ y \in [Y -> Nat] /\ z \in [Y -> Nat] /\ (\A u \in Y : y[u] = N * x[u]) /\ \A u \in Y : z[u] = K_
    BY <1>2
  <1>6. E!Soma(x) = K_
    <2>1. Len(draws) \in Nat
      BY DrawsAre
    <2>2. E!Min({Len(draws), janela}) = IF Len(draws) <= janela THEN Len(draws) ELSE janela
      <3>1. Len(draws) \in Int /\ janela \in Int
        BY <2>1
      <3>2. QED
        BY <3>1, LargerOfTwo
    <2>3. E!Min({Len(draws), janela}) = janela
      BY <1>1, <2>1, <2>2
    <2>4. E!Soma(x) = E!Min({Len(draws), janela}) * r.sorteia
      BY <1>2
    <2>5. QED
      BY <1>4, <2>3, <2>4
  <1>7. ASSUME ~\E u \in Y : d[u].recentes * E!universeSize(r) < janela * r.sorteia PROVE FALSE
    <2>1. \A u \in Y : z[u] <= y[u]
      <3>1. ASSUME NEW u \in Y PROVE z[u] <= y[u]
        <4>1. PICK c \in Nat : c = d[u].recentes
          BY <1>2
        <4>2. ~(c * N < K_)
          BY <1>3, <1>4, <1>7, <4>1
        <4>3. z[u] = K_ /\ y[u] = N * c
          BY <4>1
        <4>4. QED
          BY <4>2, <4>3
      <3>2. QED
        BY <3>1
    <2>2. z[v] < y[v]
      <3>1. PICK c \in Nat : c = d[v].recentes
        BY <1>2
      <3>2. c * N > K_
        BY <1>1, <1>3, <1>4, <3>1
      <3>3. z[v] = K_ /\ y[v] = N * c
        BY <3>1
      <3>4. QED
        BY <3>2, <3>3
    <2>3. v \in Y
      OBVIOUS
    <2> HIDE DEF x, y, z, Y
    <2>4. IsFiniteSet(Y) /\ Cardinality(Y) = N
      BY <1>3 DEF Y
    <2>5. Total(z, Y) < Total(y, Y)
      BY <1>5, <2>1, <2>2, <2>3, <2>4, TotalsStrict
    <2>6. Total(y, Y) = N * Total(x, Y)
      BY <1>5, <2>4, TotalsScale
    <2>7. Total(x, Y) = K_
      BY <1>5, <1>6, <2>4, SumOf
    <2>8. Total(z, Y) = K_ * N
      BY <1>5, <2>4, TotalOfEqual
    <2>9. K_ * N < N * K_
      BY <2>5, <2>6, <2>7, <2>8
    <2>10. QED
      BY <2>9
  <1>8. QED
    BY <1>7

\* What HistoricoBate says of one answer.
HistoriaBate(r, draws, st) ==
    LET n == Len(draws)
        De(campo) == E!Soma([v \in E!Universo(r) |-> st.dezenas[v][campo]])
        Ausentes(v) == {x[2] - x[1] + 1 :
            x \in {y \in (1..n) \X (0..n) : y[2] >= y[1] - 1 /\ E!SemEla(draws, v, y[1], y[2])}}
    IN  /\ De("vezes") = n * r.sorteia
        /\ De("recentes") = E!Min({n, st.janela}) * r.sorteia
        /\ E!Soma(st.pares) = n * E!choose(r.sorteia, 2)
        /\ E!Soma(st.paridade) = n /\ E!Soma(st.repeticao) = E!Max({n - 1, 0})
        /\ E!Soma(st.somas) = E!Soma([v \in E!Universo(r) |-> v * st.dezenas[v].vezes])
        /\ st.seguidas.pares = E!Soma([v \in E!Universo(r) \ {r.menor} |-> st.pares[{v - 1, v}]])
        /\ E!Soma(st.histograma) = n
        /\ \A g \in DOMAIN st.grupos :
              st.grupos[g] = E!Soma([v \in E!DoGrupo(r, E!Universo(r), g) |-> st.dezenas[v].vezes])
        /\ \A v \in E!Range(st.mais), u \in E!Universo(r) \ E!Range(st.mais) : st.dezenas[v].vezes >= st.dezenas[u].vezes
        /\ \A v \in E!Universo(r) :
              LET e == st.dezenas[v]
              IN  /\ E!SemEla(draws, v, n - e.atraso + 1, n)
                  /\ e.atraso < n => v \in draws[n - e.atraso].dezenas
                  /\ e.maior = E!Max({0} \cup Ausentes(v))
                  /\ e.quente => \E u \in E!Universo(r) :
                                    st.dezenas[u].recentes * E!universeSize(r) < st.janela * r.sorteia

LEMMA WindowAsked ==
    ASSUME NEW r \in Loterias, NEW draws, Historico(r, draws), NEW pedida \in Janelas
    PROVE  E!Janela(draws, pedida) \in Nat
  <1>1. Len(draws) \in Nat /\ MenorJanela \in Nat /\ pedida \in Nat
    BY DrawsAre, BasesAssumption
  <1>2. PICK n \in Int, m \in Int, p \in Int : n = Len(draws) /\ m = MenorJanela /\ p = pedida /\ n \in Nat /\ m \in Nat /\ p \in Nat
    BY <1>1
  <1>3. PICK x \in Nat : x = E!Max({n, m})
    <2>1. E!Max({n, m}) = IF n >= m THEN n ELSE m
      BY LargerOfTwo
    <2>2. QED
      BY <1>2, <2>1
  <1>4. PICK y \in Nat : y = E!Min({p, x})
    <2>1. x \in Int
      OBVIOUS
    <2>2. E!Min({p, x}) = IF p <= x THEN p ELSE x
      BY <2>1, LargerOfTwo
    <2>3. QED
      BY <1>2, <2>2
  <1>5. E!Max({m, y}) \in Nat
    <2>1. y \in Int
      OBVIOUS
    <2>2. E!Max({m, y}) = IF m >= y THEN m ELSE y
      BY <2>1, LargerOfTwo
    <2>3. QED
      BY <1>2, <2>2
  <1>6. E!Janela(draws, pedida) = E!Max({m, y})
    BY <1>2, <1>3, <1>4 DEF E!Janela
  <1>7. QED
    BY <1>5, <1>6

LEMMA HistoryAgrees ==
    ASSUME NEW r \in Loterias, NEW draws, Historico(r, draws), NEW pedida \in Janelas
    PROVE  HistoriaBate(r, draws, E!computeStats(r, draws, pedida))
  <1> DEFINE n == Len(draws)
             Y == E!Universo(r)
             st == E!computeStats(r, draws, pedida)
             janela == E!Janela(draws, pedida)
             d == DasDezenas(r, draws, janela)
  <1>1. janela \in Nat
    BY WindowAsked
  <1>2. /\ st.janela = janela /\ st.dezenas = d
        /\ st.somas = [i \in DOMAIN draws |-> E!SomaDe(draws[i].dezenas)]
        /\ st.histograma = E!Histograma(r, draws) /\ st.seguidas = E!Seguidas(draws) /\ st.grupos = E!PorGrupo(r, draws)
        /\ st.mais = E!Ranking(r, [v \in Y |-> d[v].vezes], TRUE)
        /\ st.paridade = E!Paridade(r, draws) /\ st.repeticao = E!Repeticao(r, draws) /\ st.pares = E!Pares(r, draws)
    BY DEF E!computeStats, DasDezenas
  <1> HIDE DEF st, janela
  <1>3. d = DasDezenas(r, draws, janela)
    OBVIOUS
  <1> HIDE DEF d
  <1>4. /\ E!Soma(AsVezes(r, d)) = n * r.sorteia
        /\ E!Soma(AsRecentes(r, d)) = E!Min({n, janela}) * r.sorteia
        /\ \A v \in Y : d[v].vezes \in Nat /\ d[v].recentes \in Nat
        /\ \A v \in Y : d[v].vezes = Cardinality(Quem(Dezenas(draws), 1..n, v))
    BY <1>1, <1>3, FrequenciesAdd
  <1>5. E!Soma([v \in Y |-> st.dezenas[v]["vezes"]]) = n * r.sorteia
    BY <1>2, <1>4 DEF AsVezes
  <1>6. E!Soma([v \in Y |-> st.dezenas[v]["recentes"]]) = E!Min({n, st.janela}) * r.sorteia
    BY <1>2, <1>4 DEF AsRecentes
  <1>7. E!Soma(st.pares) = n * E!choose(r.sorteia, 2)
    BY <1>2, PairsAdd
  <1>8. E!Soma(st.paridade) = n /\ E!Soma(st.repeticao) = E!Max({n - 1, 0}) /\ E!Soma(st.histograma) = n
    BY <1>2, ParityAdds, RepeatsAdd, BarsAdd
  <1>9. E!Soma(st.somas) = E!Soma([v \in Y |-> v * st.dezenas[v].vezes])
    <2>1. E!Soma([i \in DOMAIN draws |-> E!SomaDe(draws[i].dezenas)]) = E!Soma([v \in Y |-> v * d[v].vezes])
      BY <1>4, SumsAdd
    <2>2. QED
      BY <1>2, <2>1
  <1>10. st.seguidas.pares = E!Soma([v \in Y \ {r.menor} |-> st.pares[{v - 1, v}]])
    <2>1. E!Seguidas(draws).pares = E!Soma([v \in Y \ {r.menor} |-> E!Pares(r, draws)[{v - 1, v}]])
      BY NeighboursAdd
    <2>2. QED
      BY <1>2, <2>1
  <1>11. ASSUME NEW g \in DOMAIN st.grupos
         PROVE  st.grupos[g] = E!Soma([v \in E!DoGrupo(r, Y, g) |-> st.dezenas[v].vezes])
    <2>1. E!PorGrupo(r, draws) = [q \in E!Grupos(r) |-> E!Soma([i \in DOMAIN draws |-> Cardinality(E!DoGrupo(r, draws[i].dezenas, q))])]
      BY DEF E!PorGrupo, E!Cardinality, Cardinality
    <2>2. st.grupos[g] = E!Soma([i \in DOMAIN draws |-> Cardinality(E!DoGrupo(r, draws[i].dezenas, g))])
      BY <1>2, <2>1
    <2>3. E!Soma([i \in DOMAIN draws |-> Cardinality(E!DoGrupo(r, draws[i].dezenas, g))]) = E!Soma([v \in E!DoGrupo(r, Y, g) |-> d[v].vezes])
      BY <1>4, GroupsAdd
    <2>4. QED
      BY <1>2, <2>2, <2>3
  <1>12. ASSUME NEW v \in E!Range(st.mais), NEW u \in Y \ E!Range(st.mais)
         PROVE  st.dezenas[v].vezes >= st.dezenas[u].vezes
    <2> DEFINE valor == [x \in Y |-> d[x].vezes]
    <2>1. \A x \in Y : valor[x] \in Nat /\ valor[x] = d[x].vezes
      BY <1>4
    <2>2. st.mais = E!Ranking(r, valor, TRUE)
      BY <1>2
    <2> HIDE DEF valor
    <2>3. v \in Y /\ valor[v] >= valor[u]
      BY <2>1, <2>2, TopRanked
    <2>4. QED
      BY <1>2, <2>1, <2>3
  <1>13. ASSUME NEW v \in Y
         PROVE  /\ E!SemEla(draws, v, n - st.dezenas[v].atraso + 1, n)
                /\ st.dezenas[v].atraso < n => v \in draws[n - st.dezenas[v].atraso].dezenas
                /\ st.dezenas[v].maior = E!Max({0} \cup Ausencias(draws, v, n))
                /\ st.dezenas[v].quente => \E u \in Y : st.dezenas[u].recentes * E!universeSize(r) < st.janela * r.sorteia
    <2>1. st.dezenas[v] = E!Dezena(r, draws, v, janela)
      BY <1>2, <1>3 DEF DasDezenas
    <2>2. /\ E!SemEla(draws, v, n - E!Dezena(r, draws, v, janela).atraso + 1, n)
          /\ E!Dezena(r, draws, v, janela).atraso < n => v \in draws[n - E!Dezena(r, draws, v, janela).atraso].dezenas
          /\ E!Dezena(r, draws, v, janela).maior = E!Max({0} \cup Ausencias(draws, v, n))
      BY <1>1, NumberIs
    <2>3. ASSUME st.dezenas[v].quente
          PROVE  \E u \in Y : st.dezenas[u].recentes * E!universeSize(r) < st.janela * r.sorteia
      <3>1. d[v].quente
        BY <1>2, <2>3
      <3>2. \E u \in Y : d[u].recentes * E!universeSize(r) < janela * r.sorteia
        BY <1>1, <1>3, <3>1, HotHasCold
      <3>3. QED
        BY <1>2, <3>2
    <2>4. QED
      BY <2>1, <2>2, <2>3
  <1>14. QED
    BY <1>5, <1>6, <1>7, <1>8, <1>9, <1>10, <1>11, <1>12, <1>13, Zenon DEF HistoriaBate, Ausencias, st

LEMMA HistoryCounted == ASSUME E!Estatistica PROVE E!HistoricoBate'
  <1>1. PICK r \in Loterias : \E base \in E!Bases(r) : \E pedida \in Janelas :
           consulta' = [op |-> "estatistica", r |-> r, draws |-> E!dataset(base), stats |-> E!computeStats(r, E!dataset(base), pedida)]
    BY DEF E!Estatistica
  <1>2. PICK base \in E!Bases(r), pedida \in Janelas :
           consulta' = [op |-> "estatistica", r |-> r, draws |-> E!dataset(base), stats |-> E!computeStats(r, E!dataset(base), pedida)]
    BY <1>1
  <1>3. Historico(r, E!dataset(base))
    BY DatasetIs
  <1>4. PICK draws : draws = E!dataset(base)
    OBVIOUS
  <1>5. HistoriaBate(r, draws, E!computeStats(r, draws, pedida))
    BY <1>3, <1>4, HistoryAgrees
  <1>6. consulta'.r = r /\ consulta'.draws = draws /\ consulta'.stats = E!computeStats(r, draws, pedida)
    BY <1>2, <1>4
  <1>7. HistoriaBate(consulta'.r, consulta'.draws, consulta'.stats)
    BY <1>5, <1>6
  <1>8. E!HistoricoBate' <=> (consulta'.op = "estatistica" => HistoriaBate(consulta'.r, consulta'.draws, consulta'.stats))
    BY DEF E!HistoricoBate, HistoriaBate
  <1>9. QED
    BY <1>7, <1>8

-----------------------------------------------------------------------------
(* The analysis of a game (analyzeGame) *)

LEMMA NeighboursEitherWay ==
    ASSUME NEW S \in SUBSET Int, IsFiniteSet(S)
    PROVE  Cardinality({v \in S : v + 1 \in S}) = Cardinality({v \in S : v - 1 \in S})
  <1> DEFINE x == {v \in S : v + 1 \in S}
             y == {v \in S : v - 1 \in S}
             f == [v \in x |-> v + 1]
  <1>1. IsFiniteSet(x)
    BY FS_Subset
  <1>2. \A v \in x : v + 1 \in y /\ f[v] = v + 1 /\ v \in Int
    OBVIOUS
  <1>3. f \in [x -> y]
    BY <1>2
  <1>4. \A z \in y : z - 1 \in x /\ f[z - 1] = z
    <2>1. ASSUME NEW z \in y PROVE z - 1 \in x /\ f[z - 1] = z
      <3>1. z \in Int /\ z - 1 \in S /\ (z - 1) + 1 = z
        OBVIOUS
      <3>2. z - 1 \in x
        BY <3>1
      <3>3. QED
        BY <1>2, <3>1, <3>2
    <2>2. QED
      BY <2>1
  <1> HIDE DEF x, y, f
  <1>5. \A a, b \in x : f[a] = f[b] => a = b
    BY <1>2
  <1>6. \A z \in y : \E v \in x : f[v] = z
    BY <1>4
  <1>7. f \in Bijection(x, y)
    BY <1>3, <1>5, <1>6 DEF Bijection, Injection, Surjection, IsInjective
  <1>8. QED
    BY <1>1, <1>7, PairsCounted DEF x, y

\* The best contest, in one pass.
Marca(draws, n) == [hits : Int, concurso : {0} \cup {draws[i].concurso : i \in 1..n}]
Superam(it, draws, S, n) ==
    it = [s \in SUBSET (1..n) |->
            IF s = {} THEN [hits |-> -1, concurso |-> 0]
            ELSE E!Supera(it[s \ {Maior(s)}], E!Acertos(draws, S, Maior(s)), draws[Maior(s)].concurso)]

LEMMA BestExists ==
    ASSUME NEW n \in Nat, NEW draws, NEW S, \A i \in 1..n : E!Acertos(draws, S, i) \in Nat
    PROVE  \E it \in [SUBSET (1..n) -> Marca(draws, n)] : Superam(it, draws, S, n)
  <1> DEFINE W == Marca(draws, n)
             H == [p \in (1..n) \X W |-> E!Supera(p[2], E!Acertos(draws, S, p[1]), draws[p[1]].concurso)]
             base == [hits |-> -1, concurso |-> 0]
  <1>1. ASSUME NEW x \in 1..n, NEW a \in W
        PROVE  H[<<x, a>>] = E!Supera(a, E!Acertos(draws, S, x), draws[x].concurso) /\ H[<<x, a>>] \in W
    <2>1. <<x, a>> \in (1..n) \X W
      OBVIOUS
    <2>2. H[<<x, a>>] = E!Supera(a, E!Acertos(draws, S, x), draws[x].concurso)
      BY <2>1
    <2>3. E!Supera(a, E!Acertos(draws, S, x), draws[x].concurso) \in W
      BY DEF E!Supera, Marca
    <2> HIDE DEF H, W
    <2>4. QED
      BY <2>2, <2>3
  <1>2. base \in W
    BY DEF Marca
  <1> HIDE DEF H, W, base
  <1>3. Leva(n, W, H)
    BY <1>1, Zenon DEF Leva
  <1>4. PICK it \in [SUBSET (1..n) -> W] : Dobra(it, n, base, H)
    BY <1>2, <1>3, FoldExists
  <1>5. \A s \in SUBSET (1..n) : it[s] = IF s = {} THEN base ELSE H[<<Maior(s), it[s \ {Maior(s)}]>>]
    BY <1>4, Zenon DEF Dobra
  <1>6. ASSUME NEW s \in SUBSET (1..n)
        PROVE  it[s] = IF s = {} THEN base ELSE E!Supera(it[s \ {Maior(s)}], E!Acertos(draws, S, Maior(s)), draws[Maior(s)].concurso)
    <2>1. CASE s = {}
      BY <1>5, <2>1
    <2>2. CASE s # {}
      <3>1. Maior(s) \in 1..n /\ s \ {Maior(s)} \in SUBSET (1..n)
        BY <2>2, LargestIs
      <3>2. it[s \ {Maior(s)}] \in W
        BY <3>1
      <3>3. H[<<Maior(s), it[s \ {Maior(s)}]>>] = E!Supera(it[s \ {Maior(s)}], E!Acertos(draws, S, Maior(s)), draws[Maior(s)].concurso)
        BY <1>1, <3>1, <3>2
      <3>4. QED
        BY <1>5, <2>2, <3>3
    <2>3. QED
      BY <2>1, <2>2
  <1>7. it = [s \in SUBSET (1..n) |-> it[s]]
    BY <1>4
  <1>8. it = [s \in SUBSET (1..n) |-> IF s = {} THEN base ELSE E!Supera(it[s \ {Maior(s)}], E!Acertos(draws, S, Maior(s)), draws[Maior(s)].concurso)]
    BY <1>6, <1>7
  <1>9. QED
    BY <1>4, <1>8 DEF Superam, W, base

\* No contest has more hits than the best one.
LEMMA BestIs ==
    ASSUME NEW r \in Loterias, NEW draws, Historico(r, draws), NEW S, \A i \in 1..Len(draws) : E!Acertos(draws, S, i) \in Nat
    PROVE  LET m == E!analyzeGame(r, draws, S).melhor
           IN  m.hits \in Int /\ \A i \in 1..Len(draws) : m.hits >= E!Acertos(draws, S, i)
  <1> DEFINE n == Len(draws)
             it == CHOOSE q : Superam(q, draws, S, n)
             indices == [i \in DOMAIN draws |-> i]
  <1>1. n \in Nat /\ DOMAIN draws = 1..n
    BY DrawsAre
  <1>2. E!analyzeGame(r, draws, S).melhor = it[1..n]
    <2>1. E!analyzeGame(r, draws, S).melhor =
            E!FoldLeft(LAMBDA a, i : E!Supera(a, E!Acertos(draws, S, i), draws[i].concurso), [hits |-> -1, concurso |-> 0], [i \in DOMAIN draws |-> i])
      BY DEF E!analyzeGame
    <2>2. ASSUME NEW h
          PROVE  h = [s \in SUBSET (DOMAIN indices) |-> IF s = {} THEN [hits |-> -1, concurso |-> 0]
                         ELSE E!Supera(h[s \ {E!Max(s)}], E!Acertos(draws, S, indices[E!Max(s)]), draws[indices[E!Max(s)]].concurso)]
                   <=> Superam(h, draws, S, n)
      <3>1. \A s : E!Max(s) = Maior(s)
        BY DEF E!Max, Maior
      <3>2. DOMAIN indices = 1..n
        BY <1>1
      <3>3. \A s \in SUBSET (1..n) : s # {} => indices[Maior(s)] = Maior(s)
        <4>1. ASSUME NEW s \in SUBSET (1..n), s # {} PROVE indices[Maior(s)] = Maior(s)
          <5>1. Maior(s) \in 1..n
            BY <1>1, <4>1, LargestIs
          <5>2. QED
            BY <1>1, <5>1
        <4>2. QED
          BY <4>1
      <3> HIDE DEF indices
      <3>4. [s \in SUBSET (DOMAIN indices) |-> IF s = {} THEN [hits |-> -1, concurso |-> 0]
                         ELSE E!Supera(h[s \ {E!Max(s)}], E!Acertos(draws, S, indices[E!Max(s)]), draws[indices[E!Max(s)]].concurso)]
              = [s \in SUBSET (1..n) |-> IF s = {} THEN [hits |-> -1, concurso |-> 0]
                         ELSE E!Supera(h[s \ {Maior(s)}], E!Acertos(draws, S, Maior(s)), draws[Maior(s)].concurso)]
        BY <3>1, <3>2, <3>3
      <3>5. QED
        BY <3>4 DEF Superam
    <2>3. (CHOOSE h : h = [s \in SUBSET (DOMAIN indices) |-> IF s = {} THEN [hits |-> -1, concurso |-> 0]
                         ELSE E!Supera(h[s \ {E!Max(s)}], E!Acertos(draws, S, indices[E!Max(s)]), draws[indices[E!Max(s)]].concurso)])
             = it
      BY <2>2
    <2>4. DOMAIN indices = 1..n
      BY <1>1
    <2>5. E!FoldLeft(LAMBDA a, i : E!Supera(a, E!Acertos(draws, S, i), draws[i].concurso), [hits |-> -1, concurso |-> 0], indices) = it[1..n]
      <3> HIDE DEF it, indices
      <3>1. QED
        BY <2>3, <2>4 DEF E!FoldLeft, E!MapThenFoldSet
    <2> HIDE DEF it
    <2>6. QED
      BY <2>1, <2>5 DEF indices
  <1>3. \E q \in [SUBSET (1..n) -> Marca(draws, n)] : Superam(q, draws, S, n)
    BY <1>1, BestExists
  <1>4. Superam(it, draws, S, n)
    BY <1>3
  <1> HIDE DEF it
  <1>5. \A s \in SUBSET (1..n) :
           it[s] = IF s = {} THEN [hits |-> -1, concurso |-> 0]
                   ELSE E!Supera(it[s \ {Maior(s)}], E!Acertos(draws, S, Maior(s)), draws[Maior(s)].concurso)
    BY <1>4, Zenon DEF Superam
  <1> DEFINE M == {m \in Nat : m <= n => it[1..m].hits \in Int /\ \A i \in 1..m : it[1..m].hits >= E!Acertos(draws, S, i)}
  <1>6. 0 \in M
    <2>1. 1..0 = {} /\ {} \in SUBSET (1..n)
      OBVIOUS
    <2>2. it[1..0] = [hits |-> -1, concurso |-> 0]
      BY <1>5, <2>1
    <2>3. it[1..0].hits = -1
      BY <2>2
    <2>4. QED
      BY <2>1, <2>3
  <1>7. ASSUME NEW m \in Nat, m \in M PROVE m + 1 \in M
    <2>1. ASSUME m + 1 <= n
          PROVE  it[1..(m + 1)].hits \in Int /\ \A i \in 1..(m + 1) : it[1..(m + 1)].hits >= E!Acertos(draws, S, i)
      <3>1. PICK k \in 1..n : k = m + 1 /\ k - 1 = m
        BY <2>1
      <3>2. 1..k \in SUBSET (1..n) /\ 1..k # {} /\ Maior(1..k) = k /\ (1..k) \ {k} = 1..(k - 1)
        BY <1>1, LargestOfFirst
      <3>3. it[1..k] = E!Supera(it[1..m], E!Acertos(draws, S, k), draws[k].concurso)
        BY <1>5, <3>1, <3>2
      <3>4. PICK a \in Int : a = it[1..m].hits /\ \A i \in 1..m : a >= E!Acertos(draws, S, i)
        BY <1>7, <2>1
      <3>5. PICK h \in Nat : h = E!Acertos(draws, S, k)
        BY <3>1
      <3>6. it[1..k].hits = IF a < h THEN h ELSE a
        BY <3>3, <3>4, <3>5 DEF E!Supera
      <3>7. \A i \in 1..k : (i \in 1..m \/ i = k) /\ i \in 1..n
        BY <3>1
      <3>8. \A i \in 1..k : (IF a < h THEN h ELSE a) >= E!Acertos(draws, S, i)
        <4>1. ASSUME NEW i \in 1..k PROVE (IF a < h THEN h ELSE a) >= E!Acertos(draws, S, i)
          <5>1. PICK x \in Nat : x = E!Acertos(draws, S, i)
            BY <3>7
          <5>2. a >= x \/ x = h
            BY <3>4, <3>5, <3>7, <5>1
          <5>3. QED
            BY <5>1, <5>2
        <4>2. QED
          BY <4>1
      <3>9. QED
        BY <3>1, <3>6, <3>8
    <2>2. QED
      BY <2>1
  <1>8. n \in M
    <2> HIDE DEF M
    <2>1. QED
      BY <1>1, <1>6, <1>7, NumberInduction
  <1>9. QED
    BY <1>1, <1>2, <1>8

\* What AnaliseBate says of one answer.
JogoBate(r, draws, S, stats, a) ==
    /\ E!Soma(a.acertos) = Len(draws)
    /\ E!Soma([h \in DOMAIN a.acertos |-> h * a.acertos[h]]) = E!Soma([v \in S |-> stats[v].vezes])
    /\ \A h \in DOMAIN a.acertos : a.acertos[h] > 0 => h <= a.melhor.hits
    /\ Cardinality(a.topo) = a.acertos[r.sorteia]
    /\ \A i \in a.exatos : draws[i].dezenas = S
    /\ a.seguidas.pairs = Cardinality({v \in S : v + 1 \in S})
    /\ a.seguidas.maxRun = E!Max({x[2] - x[1] + 1 : x \in {y \in S \X S : y[1]..y[2] \subseteq S}})

\* What a game hits, contest by contest.
AsMarcas(draws, S) == [i \in 1..Len(draws) |-> E!Acertos(draws, S, i)]
AsContagens(r, draws, S) == [h \in 0..r.sorteia |-> Cardinality({i \in 1..Len(draws) : AsMarcas(draws, S)[i] = h})]

LEMMA HitsAre ==
    ASSUME NEW r \in Loterias, NEW draws, Historico(r, draws), NEW S
    PROVE  /\ AsMarcas(draws, S) \in [1..Len(draws) -> 0..r.sorteia]
           /\ \A i \in 1..Len(draws) : /\ AsMarcas(draws, S)[i] = Cardinality(draws[i].dezenas \cap S)
                                       /\ E!Acertos(draws, S, i) = AsMarcas(draws, S)[i] /\ E!Acertos(draws, S, i) \in Nat
           /\ E!analyzeGame(r, draws, S).acertos = AsContagens(r, draws, S)
           /\ E!analyzeGame(r, draws, S).topo = {i \in 1..Len(draws) : AsMarcas(draws, S)[i] = r.sorteia}
  <1>1. DOMAIN draws = 1..Len(draws)
    BY DrawsAre
  <1>2. \A i \in 1..Len(draws) : E!Acertos(draws, S, i) = Cardinality(draws[i].dezenas \cap S)
    BY DEF E!Acertos, E!Cardinality, Cardinality
  <1>3. \A i \in 1..Len(draws) : Cardinality(draws[i].dezenas \cap S) \in 0..r.sorteia
    BY SharedIs
  <1>4. r.sorteia \in Nat
    BY LotteryIs
  <1>5. \A i \in 1..Len(draws) : AsMarcas(draws, S)[i] = E!Acertos(draws, S, i)
    BY DEF AsMarcas
  <1>6. AsMarcas(draws, S) \in [1..Len(draws) -> 0..r.sorteia]
    BY <1>2, <1>3 DEF AsMarcas
  <1>7. ASSUME NEW h PROVE {i \in DOMAIN draws : E!Acertos(draws, S, i) = h} = {i \in 1..Len(draws) : AsMarcas(draws, S)[i] = h}
    BY <1>1, <1>5
  <1>8. E!analyzeGame(r, draws, S).acertos = [h \in 0..r.sorteia |-> Cardinality({i \in DOMAIN draws : E!Acertos(draws, S, i) = h})]
    BY Zenon DEF E!analyzeGame, E!ContaSe, E!Cardinality, Cardinality
  <1>9. E!analyzeGame(r, draws, S).topo = {i \in DOMAIN draws : E!Acertos(draws, S, i) = r.sorteia}
    BY Zenon DEF E!analyzeGame
  <1>10. E!analyzeGame(r, draws, S).acertos = AsContagens(r, draws, S)
    BY <1>7, <1>8 DEF AsContagens
  <1>11. E!analyzeGame(r, draws, S).topo = {i \in 1..Len(draws) : AsMarcas(draws, S)[i] = r.sorteia}
    BY <1>7, <1>9
  <1>12. \A i \in 1..Len(draws) : E!Acertos(draws, S, i) \in Nat
    <2>1. ASSUME NEW i \in 1..Len(draws) PROVE E!Acertos(draws, S, i) \in Nat
      <3>1. E!Acertos(draws, S, i) \in 0..r.sorteia
        BY <1>2, <1>3
      <3>2. QED
        BY <1>4, <3>1
    <2>2. QED
      BY <2>1
  <1>13. QED
    BY <1>2, <1>5, <1>6, <1>10, <1>11, <1>12

LEMMA HitsAdd ==
    ASSUME NEW r \in Loterias, NEW draws, Historico(r, draws), NEW S \in SUBSET E!Universo(r),
           NEW d, \A v \in S : d[v].vezes = Cardinality(Quem(Dezenas(draws), 1..Len(draws), v)),
           NEW a, a = AsContagens(r, draws, S)
    PROVE  /\ E!Soma(a) = Len(draws)
           /\ E!Soma([h \in DOMAIN a |-> h * a[h]]) = E!Soma([v \in S |-> d[v].vezes])
  <1> DEFINE n == Len(draws)
             N == 1..n
             Y == 0..r.sorteia
             h == AsMarcas(draws, S)
  <1>1. n \in Nat /\ IsFiniteSet(N) /\ Cardinality(N) = n
    BY DrawsAre
  <1>2. IsFiniteSet(Y) /\ r.sorteia \in Nat
    <2>1. r.sorteia \in Nat
      BY LotteryIs
    <2>2. QED
      BY <2>1, FS_Interval
  <1>3. h \in [N -> Y] /\ \A i \in N : h[i] = Cardinality(draws[i].dezenas \cap S)
    BY HitsAre
  <1>4. IsFiniteSet(S)
    BY LotteryIs, FS_Subset
  <1>5. DOMAIN a = Y /\ a = [t \in Y |-> a[t]] /\ \A t \in Y : a[t] = Cardinality({i \in N : h[i] = t})
    BY DEF AsContagens
  <1> HIDE DEF h
  <1>6. E!Soma(a) = n
    <2> HIDE DEF N, Y
    <2>1. E!Soma(a) = Cardinality(N)
      BY <1>1, <1>2, <1>3, <1>5, CountedOnce
    <2>2. QED
      BY <1>1, <2>1
  <1>7. \A t \in Y : a[t] \in Nat
    <2>1. ASSUME NEW t \in Y PROVE a[t] \in Nat
      <3>1. {i \in N : h[i] = t} \in SUBSET N
        OBVIOUS
      <3>2. IsFiniteSet({i \in N : h[i] = t})
        BY <1>1, <3>1, FS_Subset
      <3>3. QED
        BY <1>5, <3>2, FS_CardinalityType
    <2>2. QED
      BY <2>1
  <1> DEFINE f == [t \in Y |-> t * a[t]]
             g == [t \in Y |-> t]
             q == [v \in S |-> d[v].vezes]
             P == [i \in N |-> draws[i].dezenas \cap S]
             ones == [v \in S |-> 1]
  <1>8. f = [t \in DOMAIN a |-> t * a[t]]
    BY <1>5
  <1>9. f \in [Y -> Nat] /\ g \in [Y -> Nat] /\ (\A t \in Y : f[t] = g[t] * a[t]) /\ \A i \in N : h[i] \in Y /\ g[h[i]] = h[i]
    <2>1. \A t \in Y : t \in Nat /\ a[t] \in Nat /\ t * a[t] \in Nat
      BY <1>2, <1>7
    <2>2. \A i \in N : h[i] \in Y
      BY <1>3
    <2>3. (\A t \in Y : f[t] = t * a[t] /\ g[t] = t) /\ f = [t \in Y |-> f[t]] /\ g = [t \in Y |-> g[t]]
      OBVIOUS
    <2> HIDE DEF f, g, Y, N
    <2>4. QED
      BY <2>1, <2>2, <2>3
  <1>10. P \in [N -> SUBSET S] /\ ones \in [S -> Nat] /\ \A i \in N : P[i] = draws[i].dezenas \cap S
    OBVIOUS
  <1>11. \A i \in N : h[i] \in Nat
    BY <1>2, <1>3
  <1>12. ASSUME NEW i \in N PROVE h[i] = Total(ones, P[i])
    <2>1. P[i] \in SUBSET S /\ h[i] = Cardinality(P[i])
      BY <1>3
    <2> HIDE DEF P
    <2>2. QED
      BY <1>4, <2>1, OnesCounted
  <1>13. ASSUME NEW v \in S PROVE q[v] = ones[v] * Cardinality(Quem(P, N, v)) /\ q[v] \in Nat
    <2>1. q[v] = Cardinality(Quem(Dezenas(draws), N, v)) /\ ones[v] = 1
      OBVIOUS
    <2>2. \A i \in N : Dezenas(draws)[i] = draws[i].dezenas
      BY DrawIs
    <2>3. Quem(Dezenas(draws), N, v) = Quem(P, N, v)
      BY <1>10, <2>2 DEF Quem
    <2>4. PICK c \in Nat : c = Cardinality(Quem(P, N, v))
      BY <1>1, WhoIsFinite
    <2> HIDE DEF q, ones, P
    <2>5. QED
      BY <2>1, <2>3, <2>4
  <1>14. q = [v \in S |-> q[v]]
    OBVIOUS
  <1> HIDE DEF f, g, q, P, ones, N, Y
  <1>15. q \in [S -> Nat]
    BY <1>13, <1>14
  <1>16. h \in [N -> Nat]
    BY <1>3, <1>11
  <1>17. E!Soma(f) = Total(h, N)
    <2>1. \A t \in Y : f[t] = g[t] * Cardinality({i \in N : h[i] = t})
      BY <1>5, <1>9
    <2>2. \A i \in N : h[i] = g[h[i]]
      BY <1>9
    <2>3. QED
      <3>1. Divididos(N, Y, h, g, f, h)
        BY <1>1, <1>2, <1>3, <1>9, <1>16, <2>1, <2>2 DEF Divididos
      <3>2. QED
        BY <3>1, CountedByValue
  <1>18. E!Soma(q) = Total(h, N)
    <2>1. Somados(N, S, P, ones, q, h)
      BY <1>1, <1>4, <1>10, <1>12, <1>13, <1>15, <1>16 DEF Somados
    <2>2. QED
      BY <2>1, CountedBySum
  <1>19. QED
    BY <1>6, <1>8, <1>17, <1>18 DEF f, q

LEMMA LongestRun ==
    ASSUME NEW S \in SUBSET Int, IsFiniteSet(S), S # {}
    PROVE  E!consecutiveInfo(S).maxRun = E!Max({x[2] - x[1] + 1 : x \in {y \in S \X S : y[1]..y[2] \subseteq S}})
  <1> DEFINE Z == {x[2] - x[1] + 1 : x \in {y \in S \X S : y[1]..y[2] \subseteq S}}
             m == E!consecutiveInfo(S).maxRun
  <1>1. m \in Nat /\ (\E x, y \in S : x..y \subseteq S /\ m = y - x + 1) /\ \A x, y \in S : x..y \subseteq S => y - x + 1 <= m
    BY RunsAre
  <1>2. ASSUME NEW z \in Z PROVE \E x, y \in S : x..y \subseteq S /\ z = y - x + 1
    <2>1. PICK p \in S \X S : p[1]..p[2] \subseteq S /\ z = p[2] - p[1] + 1
      OBVIOUS
    <2>2. p[1] \in S /\ p[2] \in S
      OBVIOUS
    <2>3. QED
      BY <2>1, <2>2
  <1>3. ASSUME NEW x \in S, NEW y \in S, x..y \subseteq S PROVE y - x + 1 \in Z
    <2>1. <<x, y>> \in S \X S /\ <<x, y>>[1] = x /\ <<x, y>>[2] = y
      OBVIOUS
    <2>2. QED
      BY <1>3, <2>1
  <1> HIDE DEF Z, m
  <1>4. Z \in SUBSET Int
    BY <1>2
  <1>5. m \in Z
    BY <1>1, <1>3
  <1>6. \A z \in Z : m >= z
    BY <1>1, <1>2, <1>4
  <1>7. E!Max(Z) = m
    BY <1>4, <1>5, <1>6, LargestOf
  <1>8. QED
    BY <1>7 DEF Z, m

LEMMA AnalysisAgrees ==
    ASSUME NEW r \in Loterias, NEW draws, Historico(r, draws), NEW S, E!validateGame(r, S)
    PROVE  JogoBate(r, draws, S, [v \in S |-> E!Dezena(r, draws, v, MenorJanela)], E!analyzeGame(r, draws, S))
  <1> DEFINE n == Len(draws)
             d == [v \in S |-> E!Dezena(r, draws, v, MenorJanela)]
             a == E!analyzeGame(r, draws, S)
             acertos_ == AsContagens(r, draws, S)
  <1>1. S \in SUBSET E!Universo(r) /\ IsFiniteSet(S) /\ S \in SUBSET Int /\ S # {}
    <2>1. S \in SUBSET E!Universo(r) /\ Cardinality(S) \in r.apostaMin..r.apostaMax
      BY DEF E!validateGame, E!Cardinality, Cardinality
    <2>2. IsFiniteSet(E!Universo(r)) /\ E!Universo(r) \in SUBSET Nat /\ r.apostaMin \in Nat \ {0} /\ r.apostaMax \in Nat
      BY LotteryIs
    <2>3. S # {}
      BY <2>1, <2>2, FS_EmptySet
    <2>4. QED
      BY <2>1, <2>2, <2>3, FS_Subset
  <1>2. MenorJanela \in Nat /\ n \in Nat /\ DOMAIN draws = 1..n
    BY BasesAssumption, DrawsAre
  <1>3. \A v \in S : d[v].vezes = Cardinality(Quem(Dezenas(draws), 1..n, v))
    <2>1. ASSUME NEW v \in S PROVE d[v].vezes = Cardinality(Quem(Dezenas(draws), 1..n, v))
      <3>j. PICK janela \in Nat : janela = MenorJanela
        BY <1>2
      <3>i. E!Dezena(r, draws, v, janela).vezes = Cardinality(Quem(Dezenas(draws), 1..Len(draws), v))
        BY NumberIs
      <3>1. E!Dezena(r, draws, v, MenorJanela).vezes = Cardinality(Quem(Dezenas(draws), 1..n, v))
        BY <3>j, <3>i
      <3>2. QED
        BY <3>1
    <2>2. QED
      BY <2>1
  <1>4. a.acertos = acertos_ /\ a.topo = {i \in 1..n : AsMarcas(draws, S)[i] = r.sorteia}
    BY HitsAre
  <1>5. /\ \A i \in 1..n : AsMarcas(draws, S)[i] = Cardinality(draws[i].dezenas \cap S) /\ E!Acertos(draws, S, i) = AsMarcas(draws, S)[i]
        /\ \A i \in 1..n : E!Acertos(draws, S, i) \in Nat
    <2>1. \A i \in 1..Len(draws) : /\ AsMarcas(draws, S)[i] = Cardinality(draws[i].dezenas \cap S)
                                    /\ E!Acertos(draws, S, i) = AsMarcas(draws, S)[i] /\ E!Acertos(draws, S, i) \in Nat
      BY HitsAre
    <2>2. QED
      BY <2>1
  <1>6. a.seguidas = E!consecutiveInfo(S) /\ a.exatos = IF Cardinality(S) = r.sorteia THEN a.topo ELSE {}
    BY Zenon DEF E!analyzeGame, E!Cardinality, Cardinality
  <1>7. a.melhor.hits \in Int /\ \A i \in 1..n : a.melhor.hits >= E!Acertos(draws, S, i)
    BY <1>5, BestIs
  <1> HIDE DEF d, a
  <1>8. E!Soma(acertos_) = n /\ E!Soma([h \in DOMAIN acertos_ |-> h * acertos_[h]]) = E!Soma([v \in S |-> d[v].vezes])
    BY <1>1, <1>3, HitsAdd, SMTT(30)
  <1>9. \A h \in DOMAIN a.acertos : a.acertos[h] > 0 => h <= a.melhor.hits
    <2>1. ASSUME NEW h \in 0..r.sorteia, acertos_[h] > 0 PROVE h <= a.melhor.hits
      <3>1. {i \in 1..n : AsMarcas(draws, S)[i] = h} # {}
        <4>1. acertos_[h] = Cardinality({i \in 1..n : AsMarcas(draws, S)[i] = h})
          BY DEF AsContagens
        <4> HIDE DEF acertos_
        <4>2. Cardinality({}) = 0
          BY FS_EmptySet
        <4>3. ASSUME {i \in 1..n : AsMarcas(draws, S)[i] = h} = {} PROVE FALSE
          <5>1. acertos_[h] = 0
            BY <4>1, <4>2, <4>3
          <5>2. QED
            BY <2>1, <5>1
        <4>4. QED
          BY <4>3
      <3>2. PICK i \in 1..n : E!Acertos(draws, S, i) = h
        BY <1>5, <3>1
      <3>3. QED
        BY <1>5, <1>7, <3>2
    <2>2. DOMAIN a.acertos = 0..r.sorteia
      BY <1>4 DEF AsContagens
    <2> HIDE DEF acertos_
    <2>3. QED
      BY <1>4, <2>1, <2>2
  <1>10. Cardinality(a.topo) = a.acertos[r.sorteia]
    <2>1. r.sorteia \in 0..r.sorteia
      BY LotteryIs
    <2>2. QED
      BY <1>4, <2>1 DEF AsContagens
  <1>11. ASSUME NEW i \in a.exatos PROVE draws[i].dezenas = S
    <2>1. Cardinality(S) = r.sorteia /\ i \in 1..n /\ Cardinality(draws[i].dezenas \cap S) = r.sorteia
      BY <1>4, <1>5, <1>6
    <2>2. IsFiniteSet(draws[i].dezenas) /\ Cardinality(draws[i].dezenas) = r.sorteia
      BY <2>1, DrawIs
    <2>3. draws[i].dezenas \cap S \in SUBSET S /\ draws[i].dezenas \cap S \in SUBSET draws[i].dezenas
      OBVIOUS
    <2>4. S = draws[i].dezenas \cap S
      BY <1>1, <2>1, <2>3, FS_Subset
    <2>5. draws[i].dezenas = draws[i].dezenas \cap S
      BY <2>1, <2>2, <2>3, FS_Subset
    <2>6. QED
      BY <2>4, <2>5
  <1>12. a.seguidas.pairs = Cardinality({v \in S : v + 1 \in S})
    <2>1. E!consecutiveInfo(S).pairs = Cardinality({v \in S : v - 1 \in S})
      BY <1>1, RunsAre
    <2>2. QED
      BY <1>1, <1>6, <2>1, NeighboursEitherWay
  <1>13. a.seguidas.maxRun = E!Max({x[2] - x[1] + 1 : x \in {y \in S \X S : y[1]..y[2] \subseteq S}})
    BY <1>1, <1>6, LongestRun
  <1>14. E!Soma(a.acertos) = n /\ E!Soma([h \in DOMAIN a.acertos |-> h * a.acertos[h]]) = E!Soma([v \in S |-> d[v].vezes])
    <2> HIDE DEF acertos_
    <2>1. QED
      BY <1>4, <1>8
  <1> HIDE DEF acertos_
  <1>15. JogoBate(r, draws, S, d, a)
    BY <1>9, <1>10, <1>11, <1>12, <1>13, <1>14 DEF JogoBate
  <1>16. QED
    BY <1>15 DEF d, a

LEMMA AnalysisCounted == ASSUME E!Analisa PROVE E!AnaliseBate'
  <1>p. PICK r \in Loterias : \E base \in E!Bases(r), S \in SUBSET (r.menor..(r.maior + 1)) :
           /\ E!validateGame(r, S)
           /\ consulta' = [op |-> "analise", r |-> r, draws |-> E!dataset(base), jogo |-> S,
                           numberStats |-> [v \in S |-> E!Dezena(r, E!dataset(base), v, MenorJanela)],
                           analise |-> E!analyzeGame(r, E!dataset(base), S)]
    BY DEF E!Analisa
  <1>1. PICK base \in E!Bases(r), S \in SUBSET (r.menor..(r.maior + 1)) :
           /\ E!validateGame(r, S)
           /\ consulta' = [op |-> "analise", r |-> r, draws |-> E!dataset(base), jogo |-> S,
                           numberStats |-> [v \in S |-> E!Dezena(r, E!dataset(base), v, MenorJanela)],
                           analise |-> E!analyzeGame(r, E!dataset(base), S)]
    BY <1>p
  <1>2. Historico(r, E!dataset(base))
    BY DatasetIs
  <1>3. PICK draws : draws = E!dataset(base)
    OBVIOUS
  <1>4. JogoBate(r, draws, S, [v \in S |-> E!Dezena(r, draws, v, MenorJanela)], E!analyzeGame(r, draws, S))
    BY <1>1, <1>2, <1>3, AnalysisAgrees
  <1>5. /\ consulta'.r = r /\ consulta'.draws = draws /\ consulta'.jogo = S
        /\ consulta'.numberStats = [v \in S |-> E!Dezena(r, draws, v, MenorJanela)]
        /\ consulta'.analise = E!analyzeGame(r, draws, S)
    BY <1>1, <1>3
  <1>6. JogoBate(consulta'.r, consulta'.draws, consulta'.jogo, consulta'.numberStats, consulta'.analise)
    BY <1>4, <1>5
  <1>7. E!AnaliseBate' <=> (consulta'.op = "analise" => JogoBate(consulta'.r, consulta'.draws, consulta'.jogo, consulta'.numberStats, consulta'.analise))
    BY DEF E!AnaliseBate, JogoBate, E!Cardinality, Cardinality
  <1>8. QED
    BY <1>6, <1>7

-----------------------------------------------------------------------------
(* Balanced suggestions (suggestGames), the real lotteries and the import (importHistory) *)

\* Numbers that each, but the least, have another at one distance below them are a regular sequence.
LEMMA RegularIs ==
    ASSUME NEW S \in SUBSET Int, IsFiniteSet(S), Cardinality(S) >= 4, NEW passo \in Nat \ {0},
           \A v \in S : v = E!Min(S) \/ v - passo \in S
    PROVE  E!isArithmeticSequence(S)
  <1> DEFINE k == Cardinality(S)
             ordem == E!Crescente(S)
  <1>1. k \in Nat /\ k >= 4 /\ 1 \in 1..k /\ 2 \in 1..k
    BY FS_CardinalityType
  <1>2. EmSequencia(S, Crescem(S), ordem)
    <2>1. ordem = Posta(S, Crescem(S))
      BY DEF E!Crescente, E!EmOrdem, Posta, Crescem, E!Cardinality, Cardinality
    <2>2. Ordena(S, Crescem(S))
      BY Increasing DEF Crescem
    <2> HIDE DEF ordem
    <2>3. QED
      BY <2>1, <2>2, OrderIs
  <1> HIDE DEF ordem
  <1>3. ordem \in [1..k -> S] /\ DOMAIN ordem = 1..k /\ (\A u \in S : \E i \in 1..k : ordem[i] = u)
        /\ \A i, j \in 1..k : ordem[i] < ordem[j] <=> i < j
    <2>1. ordem \in [1..k -> S] /\ (\A u \in S : \E i \in 1..k : ordem[i] = u)
          /\ \A i, j \in 1..k : ordem[i] \in Crescem(S)[ordem[j]] <=> i < j
      BY <1>2 DEF EmSequencia
    <2>2. \A i, j \in 1..k : ordem[i] \in Crescem(S)[ordem[j]] <=> ordem[i] < ordem[j]
      BY <2>1 DEF Crescem
    <2> HIDE DEF k
    <2>3. QED
      BY <2>1, <2>2
  <1> HIDE DEF k
  <1>4. \A i \in 1..k : ordem[i] \in S /\ ordem[i] \in Int
    BY <1>3
  <1>5. ASSUME NEW i \in 2..k PROVE \E j \in 1..(i - 1) : ordem[i] - passo = ordem[j]
    <2>1. i \in 1..k /\ ordem[1] < ordem[i]
      BY <1>1, <1>3
    <2>2. ordem[i] # E!Min(S)
      <3>1. E!Min(S) <= ordem[1] /\ E!Min(S) \in Int
        <4>1. S # {}
          BY <1>1, <1>4
        <4>2. E!Min(S) \in S /\ \A y \in S : E!Min(S) <= y
          BY <4>1, SmallestOf
        <4>3. QED
          BY <1>1, <1>4, <4>2
      <3>2. QED
        BY <1>1, <1>4, <2>1, <3>1
    <2>3. ordem[i] - passo \in S
      BY <1>4, <2>1, <2>2
    <2>4. PICK j \in 1..k : ordem[j] = ordem[i] - passo
      BY <1>3, <2>3
    <2>5. ordem[j] < ordem[i]
      BY <1>4, <2>1, <2>4
    <2>6. j < i
      BY <1>3, <2>1, <2>5
    <2>7. QED
      BY <2>4, <2>6
  <1> DEFINE M == {n \in Nat : n + 2 <= k => ordem[n + 2] - ordem[n + 1] = passo}
  <1>6. 0 \in M
    <2>1. PICK j \in 1..(2 - 1) : ordem[2] - passo = ordem[j]
      BY <1>1, <1>5
    <2>2. j = 1
      OBVIOUS
    <2>3. ordem[2] - ordem[1] = passo
      BY <1>1, <1>4, <2>1, <2>2
    <2>4. QED
      BY <2>3
  <1>7. ASSUME NEW n \in Nat, n \in M PROVE n + 1 \in M
    <2>1. SUFFICES ASSUME n + 3 <= k PROVE ordem[n + 3] - ordem[n + 2] = passo
      BY DEF M
    <2>2. ordem[n + 2] - ordem[n + 1] = passo
      BY <1>1, <1>7, <2>1
    <2>3. n + 3 \in 2..k /\ n + 3 \in 1..k /\ n + 2 \in 1..k /\ n + 1 \in 1..k
      BY <1>1, <2>1
    <2>4. PICK j \in 1..((n + 3) - 1) : ordem[n + 3] - passo = ordem[j]
      BY <1>5, <2>3
    <2>5. j \in 1..k
      BY <1>1, <2>1, <2>4
    <2>6. j = n + 2
      <3>1. ASSUME j <= n + 1 PROVE FALSE
        <4>1. ordem[j] <= ordem[n + 1]
          <5>1. CASE j = n + 1
            BY <1>4, <2>5, <5>1
          <5>2. CASE j < n + 1
            BY <1>3, <1>4, <2>3, <2>5, <5>2
          <5>3. QED
            BY <3>1, <5>1, <5>2
        <4>2. ordem[n + 3] <= ordem[n + 2]
          BY <1>4, <2>2, <2>3, <2>4, <2>5, <4>1
        <4>3. ordem[n + 2] < ordem[n + 3]
          BY <1>3, <2>3
        <4>4. QED
          BY <1>4, <2>3, <4>2, <4>3
      <3>2. QED
        BY <2>4, <3>1
    <2>7. QED
      BY <1>4, <2>3, <2>4, <2>6
  <1>8. \A n \in Nat : n \in M
    <2> HIDE DEF M
    <2>1. QED
      BY <1>6, <1>7, NumberInduction
  <1>9. \A i \in 2..k : ordem[i] - ordem[i - 1] = passo
    <2>1. ASSUME NEW i \in 2..k PROVE ordem[i] - ordem[i - 1] = passo
      <3>1. PICK n \in Nat : n = i - 2 /\ n + 2 = i /\ n + 1 = i - 1 /\ n + 2 <= k
        BY <1>1
      <3>2. ordem[n + 2] - ordem[n + 1] = passo
        BY <1>8, <3>1
      <3>3. QED
        BY <3>1, <3>2
    <2>2. QED
      BY <2>1
  <1>10. ordem[2] - ordem[1] = passo
    <2>1. 2 \in 2..k /\ 2 - 1 = 1
      BY <1>1
    <2>2. QED
      BY <1>9, <2>1
  <1>11. Len(ordem) = k
    BY <1>1, <1>3
  <1>12. Len(ordem) >= 4 /\ \A i \in 2..Len(ordem) : ordem[i] - ordem[i - 1] = ordem[2] - ordem[1]
    BY <1>1, <1>9, <1>10, <1>11
  <1>13. QED
    BY <1>12 DEF E!isArithmeticSequence, ordem

\* A balanced game of 4 to 11 numbers carries no warning and is no regular sequence.
LEMMA BalancedUnwarned ==
    ASSUME NEW r \in Loterias \cup Cartelas, NEW size \in Nat, size \in 4..11,
           NEW S \in SUBSET Int, IsFiniteSet(S), Cardinality(S) = size, E!Equilibrado(r, size, S)
    PROVE  /\ E!notes(r, S) = {}
           /\ ~\E passo \in 1..E!universeSize(r) : \A v \in S : v = E!Min(S) \/ v - passo \in S
  <1>1. E!Tipica(E!theoreticalSum(r, Cardinality(S)), E!SomaDe(S))
    BY DEF E!Equilibrado
  <1>2. ~E!isArithmeticSequence(S)
    BY DEF E!Equilibrado, E!SemPadrao
  <1>3. ~(E!universeSize(r) > DatasAte /\ \A v \in S : v <= DatasAte)
    <2>1. ASSUME E!universeSize(r) > DatasAte PROVE \E v \in S : ~(v <= DatasAte)
      <3>1. size \div 4 \in Int /\ E!needHigh(r, size) = E!Max({1, size \div 4})
        BY <2>1 DEF E!needHigh
      <3>2. E!needHigh(r, size) >= 1 /\ E!needHigh(r, size) \in Int
        <4>1. E!Max({1, size \div 4}) = IF 1 >= size \div 4 THEN 1 ELSE size \div 4
          BY <3>1, LargerOfTwo
        <4>2. QED
          BY <3>1, <4>1
      <3>3. Cardinality({v \in S : v > DatasAte}) >= E!needHigh(r, size)
        BY DEF E!Equilibrado, E!Cardinality, Cardinality
      <3>4. {v \in S : v > DatasAte} # {}
        <4>1. ASSUME {v \in S : v > DatasAte} = {} PROVE FALSE
          <5>1. Cardinality({v \in S : v > DatasAte}) = 0
            BY <4>1, FS_EmptySet
          <5>2. QED
            BY <3>2, <3>3, <5>1
        <4>2. QED
          BY <4>1
      <3>5. PICK v \in S : v > DatasAte
        BY <3>4
      <3>6. v \in Int /\ DatasAte \in Int
        BY BasesAssumption
      <3>7. ~(v <= DatasAte)
        BY <3>5, <3>6
      <3>8. QED
        BY <3>7
    <2>2. QED
      BY <2>1
  <1>4. ~(E!consecutiveInfo(S).maxRun >= 4)
    <2>1. E!consecutiveInfo(S).maxRun \in Nat
      BY RunsAre
    <2>2. E!consecutiveInfo(S).maxRun <= E!maxRunAllowed(size)
      BY DEF E!Equilibrado
    <2>3. E!maxRunAllowed(size) = 3
      BY DEF E!maxRunAllowed
    <2>4. QED
      BY <2>1, <2>2, <2>3
  <1>5. E!notes(r, S) = {}
    BY <1>1, <1>2, <1>3, <1>4 DEF E!notes, E!Cardinality, Cardinality
  <1>6. ASSUME NEW passo \in 1..E!universeSize(r), \A v \in S : v = E!Min(S) \/ v - passo \in S PROVE FALSE
    <2>1. passo \in Nat \ {0}
      BY UniverseCounted, FS_CardinalityType
    <2>2. QED
      BY <1>2, <1>6, <2>1, RegularIs
  <1>7. QED
    BY <1>5, <1>6

\* A suggestion called balanced has no warning and no regular pattern.
LEMMA SuggestionUnwarned == ASSUME E!Sugere PROVE E!SugestaoSemAvisos'
  <1>1. PICK r \in Loterias \cup Cartelas : \E size \in r.apostaMin..r.apostaMax :
          \E fixos \in {{}} \cup E!kSubset(1, E!Universo(r)) : \E relaxed \in BOOLEAN :
          \E jogo \in E!Sugeridos(r, size, fixos, {}) :
              /\ relaxed \/ E!Equilibrado(r, size, jogo)
              /\ consulta' = [op |-> "sugere", r |-> r, size |-> size, fixos |-> fixos,
                              jogo |-> jogo, relaxed |-> relaxed, avisos |-> E!notes(r, jogo)]
    BY DEF E!Sugere
  <1>2. PICK size \in r.apostaMin..r.apostaMax, fixos \in {{}} \cup E!kSubset(1, E!Universo(r)), relaxed \in BOOLEAN :
          \E jogo \in E!Sugeridos(r, size, fixos, {}) :
              /\ relaxed \/ E!Equilibrado(r, size, jogo)
              /\ consulta' = [op |-> "sugere", r |-> r, size |-> size, fixos |-> fixos,
                              jogo |-> jogo, relaxed |-> relaxed, avisos |-> E!notes(r, jogo)]
    BY <1>1
  <1>3. PICK jogo \in E!Sugeridos(r, size, fixos, {}) :
              /\ relaxed \/ E!Equilibrado(r, size, jogo)
              /\ consulta' = [op |-> "sugere", r |-> r, size |-> size, fixos |-> fixos,
                              jogo |-> jogo, relaxed |-> relaxed, avisos |-> E!notes(r, jogo)]
    BY <1>2
  <1>4. SugeridoComoPedido'
    BY SuggestedAsAsked
  <1>5. consulta'.op = "sugere" /\ consulta'.jogo = jogo /\ consulta'.r = r /\ consulta'.size = size /\ consulta'.fixos = fixos
        /\ consulta'.relaxed = relaxed /\ consulta'.avisos = E!notes(r, jogo)
    BY <1>3
  <1>6. jogo \in SUBSET E!Universo(r) /\ Cardinality(jogo) = size /\ fixos \subseteq jogo
    <2>1. jogo \in {s \in E!kSubset(size, E!Universo(r)) : fixos \subseteq s}
      BY <1>4, <1>5 DEF SugeridoComoPedido
    <2>2. QED
      BY <2>1 DEF E!kSubset, E!Cardinality, Cardinality
  <1>7. E!Universo(r) \in SUBSET Int /\ IsFiniteSet(jogo) /\ size \in Nat
    <2>1. IsFiniteSet(jogo)
      BY <1>6, UniverseCounted, FS_Subset
    <2>2. E!Universo(r) \in SUBSET Int
      BY DEF E!Universo, Loterias, Cartelas
    <2>3. QED
      BY <1>6, <2>1, <2>2, FS_CardinalityType
  <1>8. ASSUME ~relaxed, size \in 4..11
        PROVE  /\ E!notes(r, jogo) = {}
               /\ ~\E passo \in 1..E!universeSize(r) : \A v \in jogo : v = E!Min(jogo) \/ v - passo \in jogo
    <2>1. E!Equilibrado(r, size, jogo) /\ jogo \in SUBSET Int
      BY <1>3, <1>6, <1>7, <1>8
    <2>2. QED
      BY <1>6, <1>7, <1>8, <2>1, BalancedUnwarned
  <1>9. QED
    BY <1>5, <1>6, <1>8 DEF E!SugestaoSemAvisos, E!Cardinality, Cardinality

\* The asking of the contests of a queue, one by one.
Pedido == [falhas : Nat, pedidos : SUBSET Int]
SemPedido == [falhas |-> 0, pedidos |-> {}]
Pedem(it, fila, boas, q) ==
    it = [s \in SUBSET (1..q) |-> IF s = {} THEN SemPedido ELSE E!Pede(it[s \ {Maior(s)}], fila[Maior(s)], boas)]

LEMMA AskingIs ==
    ASSUME NEW a \in Pedido, NEW n \in Int, NEW boas
    PROVE  /\ E!Pede(a, n, boas) \in Pedido
           /\ a.falhas >= 3 => E!Pede(a, n, boas) = a
           /\ ~(a.falhas >= 3) => /\ E!Pede(a, n, boas).pedidos = a.pedidos \cup {n}
                                  /\ E!Pede(a, n, boas).falhas = IF n \in boas THEN 0 ELSE a.falhas + 1
  BY DEF Pedido, E!Pede, E!Falhas

LEMMA AskingExists ==
    ASSUME NEW q \in Nat, NEW fila \in [1..q -> Int], NEW boas
    PROVE  \E it \in [SUBSET (1..q) -> Pedido] : Pedem(it, fila, boas, q)
  <1> DEFINE H == [p \in (1..q) \X Pedido |-> E!Pede(p[2], fila[p[1]], boas)]
  <1>1. ASSUME NEW x \in 1..q, NEW a \in Pedido PROVE H[<<x, a>>] = E!Pede(a, fila[x], boas) /\ H[<<x, a>>] \in Pedido
    <2>1. <<x, a>> \in (1..q) \X Pedido /\ fila[x] \in Int
      OBVIOUS
    <2>2. H[<<x, a>>] = E!Pede(a, fila[x], boas)
      BY <2>1
    <2> HIDE DEF H
    <2>3. QED
      BY <2>1, <2>2, AskingIs
  <1>2. SemPedido \in Pedido
    BY DEF Pedido, SemPedido
  <1> HIDE DEF H
  <1>3. Leva(q, Pedido, H)
    BY <1>1, Zenon DEF Leva
  <1>4. PICK it \in [SUBSET (1..q) -> Pedido] : Dobra(it, q, SemPedido, H)
    BY <1>2, <1>3, FoldExists
  <1>5. \A s \in SUBSET (1..q) : it[s] = IF s = {} THEN SemPedido ELSE H[<<Maior(s), it[s \ {Maior(s)}]>>]
    BY <1>4, Zenon DEF Dobra
  <1>6. ASSUME NEW s \in SUBSET (1..q)
        PROVE  it[s] = IF s = {} THEN SemPedido ELSE E!Pede(it[s \ {Maior(s)}], fila[Maior(s)], boas)
    <2>1. CASE s = {}
      BY <1>5, <2>1
    <2>2. CASE s # {}
      <3>1. Maior(s) \in 1..q /\ s \ {Maior(s)} \in SUBSET (1..q)
        BY <2>2, LargestIs
      <3>2. it[s \ {Maior(s)}] \in Pedido
        BY <3>1
      <3>3. H[<<Maior(s), it[s \ {Maior(s)}]>>] = E!Pede(it[s \ {Maior(s)}], fila[Maior(s)], boas)
        BY <1>1, <3>1, <3>2
      <3>4. QED
        BY <1>5, <2>2, <3>3
    <2>3. QED
      BY <2>1, <2>2
  <1>7. it = [s \in SUBSET (1..q) |-> it[s]]
    OBVIOUS
  <1>8. it = [s \in SUBSET (1..q) |-> IF s = {} THEN SemPedido ELSE E!Pede(it[s \ {Maior(s)}], fila[Maior(s)], boas)]
    BY <1>6, <1>7
  <1>9. QED
    BY <1>8, Zenon DEF Pedem

\* After the first n contests of the queue: the first m were asked, and the last ones of them in vain.
PedidosAte(fila, boas, n, a) ==
    /\ a \in Pedido
    /\ \E m \in 0..n : /\ a.pedidos = {fila[i] : i \in 1..m}
                       /\ m = n \/ a.falhas >= 3
                       /\ a.falhas <= m
                       /\ \A i \in 1..m : i > m - a.falhas => fila[i] \notin boas

LEMMA AskingKeeps ==
    ASSUME NEW n \in Nat, NEW fila, fila[n + 1] \in Int, NEW boas, NEW a, PedidosAte(fila, boas, n, a)
    PROVE  PedidosAte(fila, boas, n + 1, E!Pede(a, fila[n + 1], boas))
  <1> DEFINE v == fila[n + 1]
             b == E!Pede(a, v, boas)
  <1>1. a \in Pedido /\ a.falhas \in Nat
    BY DEF PedidosAte, Pedido
  <1>2. PICK m \in 0..n : /\ a.pedidos = {fila[i] : i \in 1..m}
                          /\ m = n \/ a.falhas >= 3
                          /\ a.falhas <= m
                          /\ \A i \in 1..m : i > m - a.falhas => fila[i] \notin boas
    BY DEF PedidosAte
  <1>3. /\ b \in Pedido
        /\ a.falhas >= 3 => b = a
        /\ ~(a.falhas >= 3) => b.pedidos = a.pedidos \cup {v} /\ b.falhas = IF v \in boas THEN 0 ELSE a.falhas + 1
    BY <1>1, AskingIs, SMTT(30)
  <1> HIDE DEF b
  <1>4. CASE a.falhas >= 3
    <2>1. b = a /\ m \in 0..(n + 1)
      BY <1>3, <1>4
    <2>2. QED
      BY <1>2, <1>3, <1>4, <2>1 DEF PedidosAte, b
  <1>5. CASE ~(a.falhas >= 3)
    <2>1. m = n
      BY <1>2, <1>5
    <2>2. b.pedidos = {fila[i] : i \in 1..(n + 1)}
      <3>1. 1..(n + 1) = (1..n) \cup {n + 1}
        OBVIOUS
      <3>2. b.pedidos = {fila[i] : i \in 1..n} \cup {v}
        BY <1>2, <1>3, <1>5, <2>1
      <3>3. QED
        BY <3>1, <3>2
    <2>3. b.falhas <= n + 1 /\ b.falhas = IF v \in boas THEN 0 ELSE a.falhas + 1
      BY <1>1, <1>2, <1>3, <1>5, <2>1
    <2>4. ASSUME NEW i \in 1..(n + 1), i > (n + 1) - b.falhas PROVE fila[i] \notin boas
      <3>1. v \notin boas /\ b.falhas = a.falhas + 1
        <4>1. b.falhas # 0
          BY <2>4
        <4>2. QED
          BY <2>3, <4>1
      <3>2. CASE i = n + 1
        BY <3>1, <3>2
      <3>3. CASE i # n + 1
        <4>1. i \in 1..n /\ i > n - a.falhas
          BY <1>1, <2>4, <3>1, <3>3
        <4>2. QED
          BY <1>2, <2>1, <4>1
      <3>4. QED
        BY <3>2, <3>3
    <2>5. n + 1 \in 0..(n + 1)
      OBVIOUS
    <2>6. \E w \in 0..(n + 1) : /\ b.pedidos = {fila[i] : i \in 1..w}
                                /\ w = n + 1 \/ b.falhas >= 3
                                /\ b.falhas <= w
                                /\ \A i \in 1..w : i > w - b.falhas => fila[i] \notin boas
      BY <2>2, <2>3, <2>4, <2>5
    <2>7. QED
      BY <1>3, <2>6 DEF PedidosAte, b
  <1>6. QED
    BY <1>4, <1>5

\* What the loop of importHistory has asked at its end.
AoFim(fila, boas) == E!FoldLeft(LAMBDA a, n : E!Pede(a, n, boas), SemPedido, fila)
LEMMA AskedIs ==
    ASSUME NEW q \in Nat, NEW fila, fila \in [1..q -> Int], NEW boas
    PROVE  PedidosAte(fila, boas, q, AoFim(fila, boas))
  <1> DEFINE it == CHOOSE h : Pedem(h, fila, boas, q)
  <1>1. AoFim(fila, boas) = it[1..q]
    <2>1. ASSUME NEW h
          PROVE  h = [s \in SUBSET (DOMAIN fila) |-> IF s = {} THEN SemPedido ELSE E!Pede(h[s \ {E!Max(s)}], fila[E!Max(s)], boas)]
                   <=> Pedem(h, fila, boas, q)
      <3>1. \A s : E!Max(s) = Maior(s)
        BY DEF E!Max, Maior
      <3>2. DOMAIN fila = 1..q
        OBVIOUS
      <3>3. QED
        BY <3>1, <3>2 DEF Pedem
    <2>2. (CHOOSE h : h = [s \in SUBSET (DOMAIN fila) |-> IF s = {} THEN SemPedido ELSE E!Pede(h[s \ {E!Max(s)}], fila[E!Max(s)], boas)])
             = it
      BY <2>1
    <2>3. DOMAIN fila = 1..q
      OBVIOUS
    <2> HIDE DEF it
    <2>4. QED
      BY <2>2, <2>3 DEF AoFim, E!FoldLeft, E!MapThenFoldSet
  <1>2. \E h \in [SUBSET (1..q) -> Pedido] : Pedem(h, fila, boas, q)
    BY AskingExists
  <1>3. Pedem(it, fila, boas, q)
    BY <1>2
  <1> HIDE DEF it
  <1>4. \A s \in SUBSET (1..q) : it[s] = IF s = {} THEN SemPedido ELSE E!Pede(it[s \ {Maior(s)}], fila[Maior(s)], boas)
    BY <1>3, Zenon DEF Pedem
  <1> DEFINE M == {n \in Nat : n <= q => PedidosAte(fila, boas, n, it[1..n])}
  <1>5. 0 \in M
    <2>1. 1..0 = {} /\ {} \in SUBSET (1..q)
      OBVIOUS
    <2>2. it[1..0] = SemPedido
      BY <1>4, <2>1
    <2>3. {fila[i] : i \in 1..0} = {}
      BY <2>1
    <2>4. PedidosAte(fila, boas, 0, SemPedido)
      <3>1. SemPedido \in Pedido /\ SemPedido.pedidos = {} /\ SemPedido.falhas = 0
        BY DEF Pedido, SemPedido
      <3>2. QED
        BY <2>1, <2>3, <3>1 DEF PedidosAte
    <2>5. QED
      BY <2>2, <2>4
  <1>6. ASSUME NEW n \in Nat, n \in M PROVE n + 1 \in M
    <2>1. ASSUME n + 1 <= q PROVE PedidosAte(fila, boas, n + 1, it[1..(n + 1)])
      <3>1. PICK k \in 1..q : k = n + 1 /\ k - 1 = n
        BY <2>1
      <3>2. 1..k \in SUBSET (1..q) /\ 1..k # {} /\ Maior(1..k) = k /\ (1..k) \ {k} = 1..(k - 1)
        BY LargestOfFirst
      <3>3. it[1..k] = E!Pede(it[1..n], fila[k], boas)
        BY <1>4, <3>1, <3>2
      <3>4. PedidosAte(fila, boas, n, it[1..n]) /\ fila[n + 1] \in Int
        BY <1>6, <2>1, <3>1
      <3>5. QED
        BY <3>1, <3>3, <3>4, AskingKeeps
    <2>2. QED
      BY <2>1
  <1>7. q \in M
    <2> HIDE DEF M
    <2>1. QED
      BY <1>5, <1>6, NumberInduction
  <1>8. PedidosAte(fila, boas, q, it[1..q])
    BY <1>7
  <1>9. QED
    BY <1>1, <1>8

\* The contests still missing in the window, newest first: those asked are the first ones, and it stops
\* before the limit and the last one only after three in vain.
NaOrdem(S) == E!EmOrdem(S, [n \in S |-> {m \in S : m > n}])
Perguntado(S, boas, limite) ==
    E!FoldLeft(LAMBDA a, n : E!Pede(a, n, boas), [falhas |-> 0, pedidos |-> {}],
               SubSeq(NaOrdem(S), 1, E!Min({limite, Len(NaOrdem(S))})))
LEMMA AskedInOrder ==
    ASSUME NEW S \in SUBSET Int, IsFiniteSet(S), NEW boas, NEW limite \in Nat
    PROVE  LET vistos == Perguntado(S, boas, limite).pedidos
           IN  /\ vistos \in SUBSET S /\ Cardinality(vistos) <= limite
               /\ \A n \in vistos, m \in S \ vistos : m < n
               /\ S \ vistos # {} /\ Cardinality(vistos) < limite =>
                     \E ultimas \in SUBSET (vistos \ boas) :
                         /\ Cardinality(ultimas) = 3
                         /\ \A n \in vistos \ ultimas, m \in ultimas : m < n
  <1> DEFINE k == Cardinality(S)
             antes == [n \in S |-> {m \in S : m > n}]
             fila == E!EmOrdem(S, antes)
             q == E!Min({limite, k})
             pedida == [i \in 1..q |-> fila[i]]
             fim == AoFim(pedida, boas)
  <1>1. k \in Nat
    BY FS_CardinalityType
  <1>2. EmSequencia(S, antes, fila)
    <2>1. fila = Posta(S, antes)
      <3> HIDE DEF antes
      <3>1. QED
        BY DEF E!EmOrdem, Posta, E!Cardinality, Cardinality
    <2>2. Ordena(S, antes)
      BY Decreasing
    <2> HIDE DEF fila, antes
    <2>3. QED
      BY <2>1, <2>2, OrderIs
  <1> HIDE DEF fila
  <1>3. fila \in [1..k -> S] /\ (\A u \in S : \E i \in 1..k : fila[i] = u)
        /\ \A i, j \in 1..k : fila[i] > fila[j] <=> i < j
    <2>1. fila \in [1..k -> S] /\ (\A u \in S : \E i \in 1..k : fila[i] = u)
          /\ \A i, j \in 1..k : fila[i] \in antes[fila[j]] <=> i < j
      <3> HIDE DEF antes
      <3>1. QED
        BY <1>2 DEF EmSequencia
    <2>2. \A i, j \in 1..k : fila[i] \in antes[fila[j]] <=> fila[i] > fila[j]
      <3> HIDE DEF k
      <3>1. QED
        BY <2>1
    <2> HIDE DEF k, antes
    <2>3. QED
      BY <2>1, <2>2
  <1> HIDE DEF k
  <1>4. q = (IF limite <= k THEN limite ELSE k) /\ q \in Nat /\ q <= k /\ q <= limite
    <2>1. q = IF limite <= k THEN limite ELSE k
      BY <1>1, LargerOfTwo
    <2> HIDE DEF q
    <2>2. QED
      BY <1>1, <2>1
  <1>5. Len(fila) = k
    BY <1>1, <1>3
  <1>6. SubSeq(fila, 1, E!Min({limite, Len(fila)})) = pedida
    <2>1. E!Min({limite, Len(fila)}) = q
      BY <1>5
    <2> HIDE DEF q
    <2>2. SubSeq(fila, 1, q) = [i \in 1..q |-> fila[i]]
      BY <1>1, <1>3, <1>4, <1>5
    <2>3. QED
      BY <2>1, <2>2
  <1>7. pedida \in [1..q -> S] /\ \A i \in 1..q : i \in 1..k /\ pedida[i] = fila[i] /\ fila[i] \in S /\ fila[i] \in Int
    <2> HIDE DEF q
    <2>1. \A i \in 1..q : i \in 1..k
      BY <1>1, <1>4
    <2>2. \A i \in 1..q : pedida[i] = fila[i] /\ fila[i] \in S
      BY <1>3, <2>1
    <2>3. pedida = [i \in 1..q |-> pedida[i]]
      OBVIOUS
    <2> HIDE DEF pedida
    <2>4. \A i \in 1..q : pedida[i] \in S
      BY <2>2
    <2>5. pedida \in [1..q -> S]
      BY <2>3, <2>4
    <2>6. QED
      BY <2>1, <2>2, <2>5
  <1> HIDE DEF q, pedida
  <1>8. PedidosAte(pedida, boas, q, fim)
    <2>1. pedida \in [1..q -> Int]
      BY <1>7
    <2>2. QED
      BY <1>4, <2>1, AskedIs
  <1> HIDE DEF fim
  <1>9. PICK m \in 0..q : /\ fim.pedidos = {pedida[i] : i \in 1..m}
                          /\ m = q \/ fim.falhas >= 3
                          /\ fim.falhas <= m /\ fim.falhas \in Nat
                          /\ \A i \in 1..m : i > m - fim.falhas => pedida[i] \notin boas
    BY <1>8 DEF PedidosAte, Pedido
  <1>10. \A i \in 1..m : i \in 1..q /\ i \in 1..k /\ pedida[i] = fila[i] /\ fila[i] \in S /\ fila[i] \in Int
    BY <1>4, <1>7, <1>9
  <1>11. fim.pedidos \in SUBSET S
    BY <1>9, <1>10
  <1>12. \A i, j \in 1..k : fila[i] = fila[j] => i = j
    <2>1. ASSUME NEW i \in 1..k, NEW j \in 1..k, fila[i] = fila[j] PROVE i = j
      <3>1. fila[i] \in Int
        BY <1>3, <2>1
      <3>2. ~(i < j) /\ ~(j < i)
        BY <1>3, <2>1, <3>1
      <3>3. QED
        BY <1>1, <2>1, <3>2
    <2>2. QED
      BY <2>1
  <1>13. Cardinality(fim.pedidos) = m
    <2> DEFINE f == [i \in 1..m |-> fila[i]]
    <2>1. f \in [1..m -> fim.pedidos] /\ (\A z \in fim.pedidos : \E i \in 1..m : f[i] = z)
      BY <1>9, <1>10
    <2>2. \A i, j \in 1..m : f[i] = f[j] => i = j
      BY <1>10, <1>12
    <2> HIDE DEF f
    <2>3. ExistsBijection(1..m, fim.pedidos)
      <3>1. f \in Bijection(1..m, fim.pedidos)
        BY <2>1, <2>2 DEF Bijection, Injection, Surjection, IsInjective
      <3>2. QED
        BY <3>1 DEF ExistsBijection
    <2>4. IsFiniteSet(1..m) /\ Cardinality(1..m) = m
      <3>1. IsFiniteSet(1..m) /\ Cardinality(1..m) = IF 1 > m THEN 0 ELSE m - 1 + 1
        BY <1>4, <1>9, FS_Interval
      <3>2. m \in Nat
        BY <1>4, <1>9
      <3>3. QED
        BY <3>1, <3>2
    <2>5. QED
      BY <2>3, <2>4, FS_Bijection
  <1>14. ASSUME NEW n \in fim.pedidos, NEW z \in S \ fim.pedidos PROVE z < n
    <2>1. PICK i \in 1..m : n = fila[i]
      BY <1>9, <1>10
    <2>2. PICK j \in 1..k : z = fila[j]
      BY <1>3
    <2>3. j \notin 1..m
      BY <1>9, <1>10, <1>14, <2>2
    <2>4. i < j /\ i \in 1..k
      BY <1>1, <1>4, <1>9, <1>10, <2>2, <2>3
    <2>5. fila[i] > fila[j]
      BY <1>3, <2>4
    <2>6. n \in Int /\ z \in Int
      BY <1>11
    <2>7. QED
      BY <2>1, <2>2, <2>5, <2>6
  <1>15. ASSUME S \ fim.pedidos # {}, Cardinality(fim.pedidos) < limite
         PROVE  \E ultimas \in SUBSET (fim.pedidos \ boas) :
                    /\ Cardinality(ultimas) = 3
                    /\ \A n \in fim.pedidos \ ultimas, z \in ultimas : z < n
    <2>1. m < k
      <3>1. ASSUME m = k PROVE FALSE
        <4>1. fim.pedidos = S
          <5>1. ASSUME NEW u \in S PROVE u \in fim.pedidos
            <6>1. PICK i \in 1..k : fila[i] = u
              BY <1>3
            <6>2. i \in 1..m /\ pedida[i] = u
              BY <1>10, <3>1, <6>1
            <6>3. QED
              BY <1>9, <6>2
          <5>2. QED
            BY <1>11, <5>1
        <4>2. QED
          BY <1>15, <4>1
      <3>2. QED
        BY <1>1, <1>4, <1>9, <3>1
    <2>2. m # q
      BY <1>1, <1>4, <1>9, <1>13, <1>15, <2>1
    <2>3. fim.falhas >= 3 /\ m >= 3
      BY <1>9, <2>2
    <2>4. PICK a \in 1..m, b \in 1..m, c \in 1..m : a = m - 2 /\ b = m - 1 /\ c = m
      BY <1>4, <1>9, <2>3
    <2> DEFINE ultimas == {fila[a], fila[b], fila[c]}
    <2>5. ultimas \in SUBSET (fim.pedidos \ boas)
      <3>1. a > m - fim.falhas /\ b > m - fim.falhas /\ c > m - fim.falhas
        BY <1>4, <1>9, <2>3, <2>4
      <3>2. \A i \in {a, b, c} : i \in 1..m /\ fila[i] \in fim.pedidos /\ fila[i] \notin boas
        BY <1>9, <1>10, <3>1
      <3>3. QED
        BY <3>2
    <2>6. Cardinality(ultimas) = 3
      <3>1. a # b /\ a # c /\ b # c /\ a \in 1..k /\ b \in 1..k /\ c \in 1..k
        BY <1>4, <1>9, <1>10, <2>4
      <3>2. fila[a] # fila[b] /\ fila[a] # fila[c] /\ fila[b] # fila[c]
        BY <1>12, <3>1
      <3>3. Cardinality({fila[a]}) = 1 /\ IsFiniteSet({fila[a]})
        BY FS_Singleton
      <3>4. Cardinality({fila[a]} \cup {fila[b]}) = 2 /\ IsFiniteSet({fila[a]} \cup {fila[b]})
        BY <3>2, <3>3, FS_AddElement
      <3>5. Cardinality(({fila[a]} \cup {fila[b]}) \cup {fila[c]}) = 3
        <4> DEFINE dois == {fila[a]} \cup {fila[b]}
        <4>1. fila[c] \notin dois
          BY <3>2
        <4>2. IsFiniteSet(dois) /\ Cardinality(dois) = 2
          BY <3>4
        <4> HIDE DEF dois
        <4>3. Cardinality(dois \cup {fila[c]}) = 3
          BY <4>1, <4>2, FS_AddElement
        <4>4. QED
          BY <4>3 DEF dois
      <3>6. ultimas = ({fila[a]} \cup {fila[b]}) \cup {fila[c]}
        OBVIOUS
      <3>7. QED
        BY <3>5, <3>6
    <2>7. ASSUME NEW n \in fim.pedidos \ ultimas, NEW z \in ultimas PROVE z < n
      <3>1. PICK i \in 1..m : n = fila[i]
        BY <1>9, <1>10
      <3>2. PICK j \in 1..m : z = fila[j] /\ j >= m - 2
        BY <2>4, <2>7
      <3>3. i # a /\ i # b /\ i # c
        BY <2>7, <3>1
      <3>4. i < j /\ i \in 1..k /\ j \in 1..k
        BY <1>4, <1>9, <1>10, <2>4, <3>2, <3>3
      <3>5. fila[i] > fila[j] /\ fila[i] \in Int /\ fila[j] \in Int
        BY <1>3, <1>10, <3>4
      <3>6. QED
        BY <3>1, <3>2, <3>5
    <2> HIDE DEF ultimas
    <2>8. QED
      BY <2>5, <2>6, <2>7
  <1>16. Cardinality(fim.pedidos) <= limite
    BY <1>4, <1>9, <1>13
  <1>17. Perguntado(S, boas, limite) = fim
    <2>1. NaOrdem(S) = fila
      BY DEF NaOrdem, fila
    <2>2. SubSeq(NaOrdem(S), 1, E!Min({limite, Len(NaOrdem(S))})) = pedida
      BY <1>6, <2>1
    <2> HIDE DEF antes
    <2>3. QED
      BY <2>2, Zenon DEF Perguntado, fim, AoFim, SemPedido
  <1>18. QED
    BY <1>11, <1>14, <1>15, <1>16, <1>17

LEMMA RulesOf ==
    ASSUME NEW m \in DOMAIN E!LOTTERY_RULES, NEW size \in E!LOTTERY_RULES[m].apostaMin..E!LOTTERY_RULES[m].apostaMax
    PROVE  LET r == E!LOTTERY_RULES[m]  universo == E!universeSize(r)
           IN  /\ \A h \in r.faixas : h <= size /\ r.sorteia - h <= universo - size
               /\ 2 * size - universo - 1 > E!maxPairsAllowed(size) <=> m = "lotofacil" /\ size >= 17
  <1>1. CASE m = "megasena"
    BY <1>1 DEF E!LOTTERY_RULES, E!Loteria, E!universeSize, E!maxPairsAllowed, E!Teto
  <1>2. CASE m = "lotofacil"
    BY <1>2 DEF E!LOTTERY_RULES, E!Loteria, E!universeSize, E!maxPairsAllowed, E!Teto
  <1>3. CASE m = "quina"
    BY <1>3 DEF E!LOTTERY_RULES, E!Loteria, E!universeSize, E!maxPairsAllowed, E!Teto
  <1>4. CASE m = "lotomania"
    BY <1>4 DEF E!LOTTERY_RULES, E!Loteria, E!universeSize, E!maxPairsAllowed, E!Teto
  <1>5. CASE m = "duplasena"
    BY <1>5 DEF E!LOTTERY_RULES, E!Loteria, E!universeSize, E!maxPairsAllowed, E!Teto
  <1>6. CASE m = "timemania"
    BY <1>6 DEF E!LOTTERY_RULES, E!Loteria, E!universeSize, E!maxPairsAllowed, E!Teto
  <1>7. CASE m = "diadesorte"
    BY <1>7 DEF E!LOTTERY_RULES, E!Loteria, E!universeSize, E!maxPairsAllowed, E!Teto
  <1>8. QED
    BY <1>1, <1>2, <1>3, <1>4, <1>5, <1>6, <1>7 DEF E!LOTTERY_RULES

Relatado(S, boas, limite) ==
    LET vistos == Perguntado(S, boas, limite).pedidos
    IN  [pedidos |-> vistos, importados |-> vistos \cap boas, faltando |-> Cardinality(S) - Cardinality(vistos \cap boas)]

\* The report of an import agrees with what is missing.
LEMMA ImportCounted == ASSUME E!Importa PROVE E!ImportacaoConta'
  <1>1. PICK presentes \in SUBSET (1..UltimoConcurso), boas \in SUBSET (1..UltimoConcurso),
             limite \in LimitesImportacao, profundidade \in Profundidades :
          /\ UltimoConcurso \in presentes
          /\ boas \cap presentes = {}
          /\ consulta' = [op |-> "importa", presentes |-> presentes, boas |-> boas, limite |-> limite,
                          profundidade |-> profundidade,
                          relatorio |-> E!importHistory(presentes, boas, limite, profundidade)]
    BY DEF E!Importa
  <1> DEFINE janela == {n \in 1..UltimoConcurso : n > UltimoConcurso - profundidade}
             S == janela \ presentes
             vistos == Perguntado(S, boas, limite).pedidos
             rel == E!importHistory(presentes, boas, limite, profundidade)
  <1>2. UltimoConcurso \in Nat \ {0} /\ limite \in Nat /\ profundidade \in Nat
    BY <1>1, BasesAssumption
  <1>3. E!Max(presentes) = UltimoConcurso
    <2>1. presentes \in SUBSET Int /\ presentes # {} /\ IsFiniteSet(presentes)
      <3>1. IsFiniteSet(1..UltimoConcurso)
        BY <1>2, FS_Interval
      <3>2. QED
        <4>1. presentes \in SUBSET (1..UltimoConcurso) /\ presentes # {}
          BY <1>1
        <4>2. \A z \in 1..UltimoConcurso : z \in Int
          OBVIOUS
        <4>3. IsFiniteSet(presentes)
          BY <3>1, <4>1, FS_Subset
        <4>4. QED
          BY <4>1, <4>2, <4>3
    <2>2. E!Max(presentes) \in presentes /\ \A y \in presentes : E!Max(presentes) >= y
      BY <2>1, SmallestOf
    <2>3. \A z \in presentes : z \in Int /\ z <= UltimoConcurso
      BY <1>1, <1>2
    <2>4. PICK x \in presentes : x = E!Max(presentes) /\ x >= UltimoConcurso
      BY <1>1, <2>2
    <2>5. x \in Int /\ x <= UltimoConcurso
      BY <2>3
    <2>6. QED
      BY <1>2, <2>4, <2>5
  <1>4. (E!Max({1, UltimoConcurso - profundidade + 1})..UltimoConcurso) \ presentes = S
    <2>1. PICK d \in Int : d = UltimoConcurso - profundidade + 1
      BY <1>2
    <2>2. E!Max({1, d}) = IF 1 >= d THEN 1 ELSE d
      BY <2>1, LargerOfTwo
    <2>3. (IF 1 >= d THEN 1 ELSE d)..UltimoConcurso = janela
      BY <1>2, <2>1
    <2>4. E!Max({1, UltimoConcurso - profundidade + 1})..UltimoConcurso = janela
      BY <2>1, <2>2, <2>3
    <2> HIDE DEF janela
    <2>5. QED
      BY <2>4
  <1>5. S \in SUBSET Int /\ IsFiniteSet(S)
    <2>1. S \in SUBSET (1..UltimoConcurso) /\ IsFiniteSet(1..UltimoConcurso)
      BY <1>2, FS_Interval
    <2>2. IsFiniteSet(S)
      BY <2>1, FS_Subset
    <2>3. QED
      BY <1>2, <2>1, <2>2
  <1> HIDE DEF S
  <1>6. /\ vistos \in SUBSET S /\ Cardinality(vistos) <= limite
        /\ \A n \in vistos, m \in S \ vistos : m < n
        /\ S \ vistos # {} /\ Cardinality(vistos) < limite =>
              \E ultimas \in SUBSET (vistos \ boas) :
                  /\ Cardinality(ultimas) = 3
                  /\ \A n \in vistos \ ultimas, m \in ultimas : m < n
    BY <1>2, <1>5, AskedInOrder
  <1>7. rel = [pedidos |-> vistos, importados |-> vistos \cap boas,
               faltando |-> Cardinality(S) - Cardinality(vistos \cap boas)]
    <2> DEFINE M == (E!Max({1, E!Max(presentes) - profundidade + 1})..E!Max(presentes)) \ presentes
    <2> HIDE DEF S
    <2>1. rel = Relatado(M, boas, limite)
      BY Zenon DEF E!importHistory, Relatado, Perguntado, NaOrdem, E!Cardinality, Cardinality
    <2>2. M = S
      BY <1>3, <1>4
    <2> HIDE DEF M, rel
    <2>3. rel = Relatado(S, boas, limite)
      BY <2>1, <2>2
    <2>4. QED
      BY <2>3 DEF Relatado
  <1> HIDE DEF vistos
  <1>8. rel.pedidos = vistos /\ rel.importados = vistos \cap boas
        /\ rel.faltando = Cardinality(S) - Cardinality(vistos \cap boas)
    BY <1>7
  <1> HIDE DEF rel
  <1>9. rel.faltando = Cardinality(S \ rel.importados)
    <2>1. S \cap rel.importados = rel.importados
      BY <1>6, <1>8
    <2>2. Cardinality(S \ rel.importados) = Cardinality(S) - Cardinality(S \cap rel.importados)
      BY <1>5, FS_Difference
    <2>3. QED
      BY <1>8, <2>1, <2>2
  <1>10. S \ rel.pedidos # {} /\ Cardinality(rel.pedidos) < limite =>
            \E ultimas \in E!kSubset(3, rel.pedidos \ boas) : \A n \in rel.pedidos \ ultimas, m \in ultimas : m < n
    BY <1>6, <1>8 DEF E!kSubset, E!Cardinality, Cardinality
  <1>11. /\ consulta'.op = "importa" /\ consulta'.presentes = presentes /\ consulta'.boas = boas /\ consulta'.limite = limite
         /\ consulta'.profundidade = profundidade /\ consulta'.relatorio = rel
    BY <1>1 DEF rel
  <1>12. QED
    <2>1. rel.pedidos \subseteq S /\ Cardinality(rel.pedidos) <= limite
          /\ \A n \in rel.pedidos, m \in S \ rel.pedidos : m < n
      BY <1>6, <1>8
    <2> HIDE DEF vistos
    <2>2. {n \in 1..UltimoConcurso : n > UltimoConcurso - consulta'.profundidade} \ consulta'.presentes = S
      BY <1>11 DEF S
    <2> HIDE DEF janela
    <2>3. /\ consulta'.relatorio.faltando = Cardinality(S \ consulta'.relatorio.importados)
          /\ consulta'.relatorio.pedidos \subseteq S /\ Cardinality(consulta'.relatorio.pedidos) <= consulta'.limite
          /\ \A n \in consulta'.relatorio.pedidos, m \in S \ consulta'.relatorio.pedidos : m < n
          /\ S \ consulta'.relatorio.pedidos # {} /\ Cardinality(consulta'.relatorio.pedidos) < consulta'.limite =>
                \E ultimas \in E!kSubset(3, consulta'.relatorio.pedidos \ consulta'.boas) :
                    \A n \in consulta'.relatorio.pedidos \ ultimas, m \in ultimas : m < n
      BY <1>9, <1>10, <1>11, <2>1
    <2>4. QED
      BY <2>2, <2>3, Zenon DEF E!ImportacaoConta, E!Cardinality, Cardinality

\* A bet of any size can pay in every real lottery; a balanced suggestion exists where neighbours can be few.
LEMMA RulesKept == ASSUME E!Regra PROVE E!RegrasServem'
  <1>1. PICK m \in DOMAIN E!LOTTERY_RULES : \E size \in E!LOTTERY_RULES[m].apostaMin..E!LOTTERY_RULES[m].apostaMax :
          consulta' = [op |-> "regra", m |-> m, size |-> size, paresMax |-> E!maxPairsAllowed(size)]
    BY DEF E!Regra
  <1>2. PICK size \in E!LOTTERY_RULES[m].apostaMin..E!LOTTERY_RULES[m].apostaMax :
          consulta' = [op |-> "regra", m |-> m, size |-> size, paresMax |-> E!maxPairsAllowed(size)]
    BY <1>1
  <1>3. consulta'.op = "regra" /\ consulta'.m = m /\ consulta'.size = size /\ consulta'.paresMax = E!maxPairsAllowed(size)
    BY <1>2
  <1>4. QED
    BY <1>3, RulesOf DEF E!RegrasServem

\* What was answered stays what it was.
LEMMA HistoryStays == ASSUME E!HistoricoBate, UNCHANGED consulta PROVE E!HistoricoBate'
  <1>1. E!HistoricoBate <=> (consulta.op = "estatistica" => HistoriaBate(consulta.r, consulta.draws, consulta.stats))
    BY DEF E!HistoricoBate, HistoriaBate
  <1>2. E!HistoricoBate' <=> (consulta'.op = "estatistica" => HistoriaBate(consulta'.r, consulta'.draws, consulta'.stats))
    BY DEF E!HistoricoBate, HistoriaBate
  <1>3. consulta' = consulta
    OBVIOUS
  <1>4. QED
    BY <1>1, <1>2, <1>3

LEMMA AnalysisStays == ASSUME E!AnaliseBate, UNCHANGED consulta PROVE E!AnaliseBate'
  BY Zenon DEF E!AnaliseBate

LEMMA OthersStay ==
    ASSUME E!SugestaoSemAvisos, E!RegrasServem, E!ImportacaoConta, UNCHANGED consulta
    PROVE  (E!SugestaoSemAvisos /\ E!RegrasServem /\ E!ImportacaoConta)'
  <1>1. E!SugestaoSemAvisos'
    BY Zenon DEF E!SugestaoSemAvisos
  <1>2. E!RegrasServem'
    BY Zenon DEF E!RegrasServem
  <1>3. E!ImportacaoConta'
    BY Zenon DEF E!ImportacaoConta
  <1>4. QED
    BY <1>1, <1>2, <1>3

\* The history adds up (computeStats): every drawn number is counted once in its frequency, its pairs, its parity, its
\* group and the window, delays are the absences there were, and no number is hot without one that came out less than
\* expected. The analysis of a game adds up (analyzeGame): its hits are the times its numbers came out, the best contest
\* is no worse than any, and its runs are those it has.
THEOREM HistoryAndAnalysis == Spec => [](E!HistoricoBate /\ E!AnaliseBate)
  <1> DEFINE Certo == E!HistoricoBate /\ E!AnaliseBate
  <1>1. Init => Certo
    <2>1. Init => consulta.op = "nenhuma"
      BY DEF Init, E!Init, E!Nenhuma
    <2>2. consulta.op = "nenhuma" => Certo
      BY DEF E!HistoricoBate, E!AnaliseBate
    <2>3. QED
      BY <2>1, <2>2
  <1>2. ASSUME E!Next PROVE Certo'
    <2>1. CASE E!Estatistica
      <3>1. consulta'.op = "estatistica"
        BY <2>1 DEF E!Estatistica
      <3>2. E!AnaliseBate'
        BY <3>1 DEF E!AnaliseBate
      <3>3. QED
        BY <2>1, <3>2, HistoryCounted
    <2>2. CASE E!Analisa
      <3>1. consulta'.op = "analise"
        BY <2>2 DEF E!Analisa
      <3>2. E!HistoricoBate'
        BY <3>1 DEF E!HistoricoBate
      <3>3. QED
        BY <2>2, <3>2, AnalysisCounted
    <2>3. CASE E!Probabilidades \/ E!Gera \/ E!Sugere \/ E!Regra \/ E!Importa
      <3>1. consulta'.op \in {"probabilidade", "gera", "sugere", "regra", "importa"}
        BY <2>3 DEF E!Probabilidades, E!Gera, E!Sugere, E!Regra, E!Importa
      <3>2. consulta'.op # "estatistica" /\ consulta'.op # "analise"
        BY <3>1
      <3>3. E!HistoricoBate'
        BY <3>2 DEF E!HistoricoBate
      <3>4. E!AnaliseBate'
        BY <3>2 DEF E!AnaliseBate
      <3>5. QED
        BY <3>3, <3>4
    <2>4. QED
      BY <1>2, <2>1, <2>2, <2>3 DEF E!Next
  <1>3. Certo /\ UNCHANGED consulta => Certo'
    BY HistoryStays, AnalysisStays
  <1> HIDE DEF Certo
  <1>4. Spec => []Certo
    BY <1>1, <1>2, <1>3, EstatisticasMoves, PTL DEF Spec
  <1>5. QED
    BY <1>4, PTL DEF Certo

\* A game suggested as balanced carries no warning of the analysis and no regular pattern (suggestGames); a bet of any
\* size can reach every tier of its lottery, and only in the Lotofacil of 17 numbers or more are the neighbours that any
\* bet has too many for a balanced one; the import asks for the newest missing contests first and stops early only after
\* three answers in vain (importHistory).
THEOREM SuggestionsAndImports == Spec => [](E!SugestaoSemAvisos /\ E!RegrasServem /\ E!ImportacaoConta)
  <1> DEFINE Certo == E!SugestaoSemAvisos /\ E!RegrasServem /\ E!ImportacaoConta
  <1>1. Init => Certo
    <2>1. Init => consulta.op = "nenhuma"
      BY DEF Init, E!Init, E!Nenhuma
    <2>2. consulta.op = "nenhuma" => Certo
      BY DEF E!SugestaoSemAvisos, E!RegrasServem, E!ImportacaoConta
    <2>3. QED
      BY <2>1, <2>2
  <1>2. ASSUME E!Next PROVE Certo'
    <2>1. consulta'.op # "sugere" => E!SugestaoSemAvisos'
      BY DEF E!SugestaoSemAvisos
    <2>2. consulta'.op # "regra" => E!RegrasServem'
      BY DEF E!RegrasServem
    <2>3. consulta'.op # "importa" => E!ImportacaoConta'
      BY DEF E!ImportacaoConta
    <2>4. CASE E!Sugere
      <3>1. consulta'.op = "sugere"
        BY <2>4 DEF E!Sugere
      <3>2. QED
        BY <2>2, <2>3, <2>4, <3>1, SuggestionUnwarned
    <2>5. CASE E!Regra
      <3>1. consulta'.op = "regra"
        BY <2>5 DEF E!Regra
      <3>2. QED
        BY <2>1, <2>3, <2>5, <3>1, RulesKept
    <2>6. CASE E!Importa
      <3>1. consulta'.op = "importa"
        BY <2>6 DEF E!Importa
      <3>2. QED
        BY <2>1, <2>2, <2>6, <3>1, ImportCounted
    <2>7. CASE E!Estatistica \/ E!Analisa \/ E!Probabilidades \/ E!Gera
      <3>1. consulta'.op \in {"estatistica", "analise", "probabilidade", "gera"}
        BY <2>7 DEF E!Estatistica, E!Analisa, E!Probabilidades, E!Gera
      <3>2. QED
        BY <2>1, <2>2, <2>3, <3>1
    <2>8. QED
      BY <1>2, <2>4, <2>5, <2>6, <2>7 DEF E!Next
  <1>3. Certo /\ UNCHANGED consulta => Certo'
    BY OthersStay
  <1> HIDE DEF Certo
  <1>4. Spec => []Certo
    BY <1>1, <1>2, <1>3, EstatisticasMoves, PTL DEF Spec
  <1>5. QED
    BY <1>4, PTL DEF Certo

-----------------------------------------------------------------------------
(* Types *)

\* An answer is one of those there are.
LEMMA AnswersTyped == Spec => []E!TypeOK
  <1>1. Init => E!TypeOK
    BY DEF Init, E!Init, E!Nenhuma, E!TypeOK
  <1>2. E!TypeOK /\ [Next]_vars => E!TypeOK'
    <2>1. E!Next => E!TypeOK'
      BY DEF E!Next, E!Estatistica, E!Analisa, E!Probabilidades, E!Gera, E!Sugere, E!Regra, E!Importa, E!TypeOK
    <2>2. QED
      BY <2>1, EstatisticasMoves DEF E!TypeOK
  <1>3. QED
    BY <1>1, <1>2, PTL DEF Spec
=============================================================================
