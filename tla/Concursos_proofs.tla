-------------------------- MODULE Concursos_proofs --------------------------
(***************************************************************************)
(* Theorems about Concursos, for any number of contests, days and pools,   *)
(* any calendar and any delay of the sources: types, that a pool always    *)
(* has its contest and keeps its draw, that nothing is sold after it, and  *)
(* that what is settled is settled by a result.                            *)
(*                                                                         *)
(* The invariant IInv has five parts: the types; ProcInv, what a process   *)
(* may have read from CAIXA; FestaInv, that the provisional festival keeps *)
(* the date and the cutoff it was born with; LoteInv, that what the worker *)
(* is settling is registered; and PoolHasContest.                          *)
(* DateInv, that no row has a date or a cutoff after the real draw of its  *)
(* number, needs two hypotheses about CAIXA: it draws at most one contest  *)
(* a day, and the festival at the usual hour.                              *)
(* So does ApuraInv, that the contest the worker is settling has a result  *)
(* or no pools: otherwise its row may be gone and back before the pools    *)
(* are read.                                                               *)
(***************************************************************************)
EXTENDS Concursos, WellFoundedInduction, TLAPS

\* What a process read is an answer of CAIXA, which never draws the last contest.
ProcInv ==
    /\ caixa.numero < Ultimo
    /\ \A p \in Processos : fase[p] = "grava" => visto[p] \in Resposta /\ visto[p].numero < Ultimo

\* The provisional festival keeps its date and its cutoff.
FestaInv ==
    Existe(Provisorio) => banco[Provisorio].dia = FestaDia /\ banco[Provisorio].corte = CorteDaFesta

\* What the worker settles is registered: nobody else takes a pool out of that state.
LoteInv == \A b \in lote : bolao[b].status = "registrado"

IInv == TypeOK /\ ProcInv /\ FestaInv /\ LoteInv /\ PoolHasContest

Linhas == [status : StatusConcurso, dia : 0..Dias, corte : 0..(2 * Dias + 1),
           especial : BOOLEAN, resultado : BOOLEAN]
Bancos == [{Provisorio} \cup Numeros -> Linhas]
Vinculos == [Boloes -> [concurso : {Provisorio} \cup Numeros, status : StatusBolao, vendas : StatusVendas]]

-----------------------------------------------------------------------------
(* The helpers of the model *)

LEMMA TiposDasLinhas ==
  /\ \A d \in 0..Dias : CorteDoDia(d) \in 0..(2 * Dias + 1)
  /\ \A status \in StatusConcurso, d \in 0..Dias : Linha(status, d, CorteDoDia(d)) \in Linhas
  /\ Nada \in Linhas
  /\ LinhaDaFesta \in Linhas
  <1>1. \A d \in 0..Dias : CorteDoDia(d) \in 0..(2 * Dias + 1)
    BY ConcursosAssumption DEF CorteDoDia
  <1>2. \A status \in StatusConcurso, d \in 0..Dias : Linha(status, d, CorteDoDia(d)) \in Linhas
    BY <1>1 DEF Linha, Linhas
  <1>3. Nada \in Linhas
    BY ConcursosAssumption DEF Nada, Linha, Linhas, StatusConcurso
  <1>4. CorteDaFesta \in 0..(2 * Dias + 1)
    BY ConcursosAssumption DEF CorteDaFesta
  <1>5. LinhaDaFesta \in Linhas
    BY <1>4, ConcursosAssumption DEF LinhaDaFesta, Linha, Linhas, StatusConcurso
  <1>6. QED
    BY <1>1, <1>2, <1>3, <1>5

LEMMA TipoVencidos ==
  ASSUME NEW b \in Bancos
  PROVE  Vencidos(b) \in Bancos
  BY DEF Bancos, Linhas, Vencidos, StatusConcurso

LEMMA TipoAdota ==
  ASSUME NEW b \in Bancos, NEW n \in Numeros, NEW d
  PROVE  Adota(b, n, d) \in Bancos
  <1>1. Provisorio \in {Provisorio} \cup Numeros /\ n \in {Provisorio} \cup Numeros
    OBVIOUS
  <1>2. b[Provisorio] \in Linhas /\ b[n] \in Linhas
    BY <1>1 DEF Bancos
  <1>3. [b[n] EXCEPT !.especial = TRUE, !.dia = b[Provisorio].dia, !.corte = b[Provisorio].corte] \in Linhas
    BY <1>2 DEF Linhas
  <1>4. \A x \in Linhas : [b EXCEPT ![n] = x, ![Provisorio] = Nada] \in Bancos
    BY TiposDasLinhas DEF Bancos
  <1>5. QED
    BY <1>2, <1>3, <1>4 DEF Adota

LEMMA TipoMigra ==
  ASSUME bolao \in Vinculos, NEW adotado, NEW n \in Numeros
  PROVE  Migra(adotado, n) \in Vinculos
  BY DEF Vinculos, Migra

LEMMA TipoDaResposta ==
  ASSUME NEW linha \in Linhas, NEW d \in 0..Dias, NEW p, NEW dezenas \in BOOLEAN
  PROVE  LinhaSorteada(linha, d, dezenas) \in Linhas /\ LinhaProxima(p, linha, d) \in Linhas
  <1>1. CorteDoDia(d) \in 0..(2 * Dias + 1)
    BY TiposDasLinhas
  <1>2. LinhaSorteada(linha, d, dezenas) \in Linhas
    BY <1>1 DEF LinhaSorteada, Linhas, StatusConcurso
  <1>3. Linha(IF CorteDoDia(d) > agora THEN "aberto" ELSE "fechado", d, CorteDoDia(d)) \in Linhas
    BY <1>1 DEF Linha, Linhas, StatusConcurso
  <1>4. [linha EXCEPT !.dia = d, !.corte = CorteDoDia(d)] \in Linhas
    BY <1>1 DEF Linhas
  <1>5. QED
    BY <1>2, <1>3, <1>4 DEF LinhaProxima

\* What adoption leaves in the rows: the provisional one disappears into the official one.
LEMMA AdotaLinhas ==
  ASSUME NEW b \in Bancos, NEW n \in Numeros, NEW d
  PROVE  /\ Adota(b, n, d)[Provisorio] = IF Adotavel(b, d) THEN Nada ELSE b[Provisorio]
         /\ \A m \in Numeros \ {n} : Adota(b, n, d)[m] = b[m]
         /\ Adotavel(b, d) \/ b[n].status # "ausente" => Adota(b, n, d)[n].status # "ausente"
         /\ Adotavel(b, d) => /\ Adota(b, n, d)[n].dia = b[Provisorio].dia
                              /\ Adota(b, n, d)[n].corte = b[Provisorio].corte
         /\ ~Adotavel(b, d) => Adota(b, n, d) = b
  <1>1. n # Provisorio
    BY ConcursosAssumption DEF Numeros, Provisorio
  <1>2. CASE ~Adotavel(b, d)
    BY <1>2 DEF Adota
  <1>3. CASE Adotavel(b, d)
    <2> DEFINE oficial == IF b[n].status = "ausente" THEN b[Provisorio]
                          ELSE [b[n] EXCEPT !.especial = TRUE, !.dia = b[Provisorio].dia,
                                            !.corte = b[Provisorio].corte]
    <2>1. Adota(b, n, d) = [b EXCEPT ![n] = oficial, ![Provisorio] = Nada]
      BY <1>3 DEF Adota
    <2>2. /\ oficial.status # "ausente"
          /\ oficial.dia = b[Provisorio].dia
          /\ oficial.corte = b[Provisorio].corte
      BY <1>3 DEF Adotavel, Bancos, Linhas
    <2> HIDE DEF oficial
    <2> DEFINE a == Adota(b, n, d)
    <2>3. a[n] = oficial /\ a[Provisorio] = Nada /\ \A m \in Numeros \ {n} : a[m] = b[m]
      <3>1. \A m \in Numeros : m # Provisorio
        BY DEF Numeros, Provisorio
      <3>2. QED
        BY <1>1, <2>1, <3>1 DEF Bancos
    <2>4. QED
      BY <1>3, <2>2, <2>3
  <1>4. QED
    BY <1>2, <1>3

\* What an answer of CAIXA leaves in the table: two rows that exist, and the
\* festival adopted by the contest of its day or left where it was.
LEMMA GravaLinhas ==
  ASSUME IInv, NEW p \in Processos, Grava(p), NEW n, n = visto[p].numero
  PROVE  /\ n \in Numeros /\ n + 1 \in Numeros
         /\ banco' \in Bancos
         /\ banco'[n].status # "ausente" /\ banco'[n + 1].status # "ausente"
         /\ \A m \in Numeros \ {n, n + 1} : banco'[m] = banco[m]
         /\ \/ bolao' = bolao /\ banco'[Provisorio] = banco[Provisorio]
            \/ /\ Existe(Provisorio) /\ banco'[Provisorio] = Nada
               /\ \E k \in {n, n + 1} : calendario[k] = banco[Provisorio].dia /\ bolao' = Migra(TRUE, k)
         /\ banco'[n].dia = calendario[n] /\ banco'[n].corte = CorteDoDia(calendario[n])
         /\ banco'[n + 1].dia = calendario[n + 1]
         /\ \/ banco'[n + 1].corte = CorteDoDia(calendario[n + 1])
            \/ Existe(n + 1) /\ banco'[n + 1].corte = banco[n + 1].corte
            \/ /\ Existe(Provisorio) /\ banco[Provisorio].dia = calendario[n + 1]
               /\ banco'[n + 1].corte = banco[Provisorio].corte
  <1> DEFINE d == calendario[n]
             dProximo == calendario[n + 1]
             comAtual == Adota(banco, n, d)
             comProximo == Adota(comAtual, n + 1, dProximo)
             sorteada == LinhaSorteada(comProximo[n], d, visto[p].dezenas)
             proxima == LinhaProxima(p, comProximo[n + 1], dProximo)
             k == IF Adotavel(banco, d) THEN n ELSE n + 1
  <1>1. visto[p] \in Resposta /\ n < Ultimo
    BY DEF IInv, ProcInv, Grava
  <1>2. n \in Numeros /\ n + 1 \in Numeros /\ n # Provisorio /\ n + 1 # Provisorio /\ n # n + 1
    BY <1>1, ConcursosAssumption DEF Resposta, Numeros, Provisorio
  <1>3. d \in 0..Dias /\ dProximo \in 0..Dias /\ visto[p].dezenas \in BOOLEAN /\ banco \in Bancos
    BY <1>1, <1>2 DEF IInv, TypeOK, Resposta, Bancos, Linhas
  <1>4. comAtual \in Bancos /\ comProximo \in Bancos
    BY <1>2, <1>3, TipoAdota
  <1>5. comProximo[n] \in Linhas /\ comProximo[n + 1] \in Linhas
    BY <1>2, <1>4 DEF Bancos
  <1>6. sorteada \in Linhas /\ proxima \in Linhas
    BY <1>3, <1>5, TipoDaResposta
  <1>7. /\ banco' = [comProximo EXCEPT ![n] = sorteada, ![n + 1] = proxima]
        /\ bolao' = Migra(Adotavel(banco, d) \/ Adotavel(comAtual, dProximo), k)
    <2> HIDE DEF sorteada, proxima
    <2>1. /\ banco' = [comProximo EXCEPT ![n] = LinhaSorteada(@, d, visto[p].dezenas),
                                         ![n + 1] = LinhaProxima(p, @, dProximo)]
          /\ bolao' = Migra(Adotavel(banco, d) \/ Adotavel(comAtual, dProximo), k)
      BY DEF Grava
    <2>2. QED
      BY <1>2, <2>1 DEF sorteada, proxima
  <1>8. banco' \in Bancos /\ banco'[n] = sorteada /\ banco'[n + 1] = proxima
    <2> HIDE DEF sorteada, proxima, comProximo
    <2>1. QED
      BY <1>2, <1>4, <1>6, <1>7 DEF Bancos
  <1>9. \A m \in ({Provisorio} \cup Numeros) \ {n, n + 1} : banco'[m] = comProximo[m]
    <2> HIDE DEF sorteada, proxima, comProximo
    <2>1. QED
      BY <1>2, <1>4, <1>7 DEF Bancos
  <1>10. banco'[n].status # "ausente" /\ banco'[n + 1].status # "ausente"
    <2> HIDE DEF comProximo
    <2>1. sorteada.status # "ausente"
      BY <1>5 DEF LinhaSorteada, Linhas
    <2>2. proxima.status # "ausente"
      BY <1>5 DEF LinhaProxima, Linha, Linhas
    <2>3. QED
      BY <1>8, <2>1, <2>2
  <1>11. \A m \in Numeros \ {n, n + 1} : banco'[m] = banco[m]
    <2>1. \A m \in Numeros \ {n + 1} : comProximo[m] = comAtual[m]
      BY <1>2, <1>4, AdotaLinhas
    <2>2. \A m \in Numeros \ {n} : comAtual[m] = banco[m]
      BY <1>2, <1>3, AdotaLinhas
    <2> HIDE DEF comAtual, comProximo
    <2>3. QED
      BY <1>9, <2>1, <2>2
  <1>12. banco'[Provisorio] = comProximo[Provisorio]
    BY <1>2, <1>9
  <1>13. \/ bolao' = bolao /\ banco'[Provisorio] = banco[Provisorio]
         \/ /\ Existe(Provisorio) /\ banco'[Provisorio] = Nada
            /\ \E j \in {n, n + 1} : calendario[j] = banco[Provisorio].dia /\ bolao' = Migra(TRUE, j)
    <2>1. CASE Adotavel(banco, d)
      <3>1. bolao' = Migra(TRUE, n)
        BY <1>7, <2>1
      <3>2. Existe(Provisorio) /\ calendario[n] = banco[Provisorio].dia
        BY <2>1 DEF Adotavel, Existe
      <3>3. comAtual[Provisorio] = Nada
        BY <1>2, <1>3, <2>1, AdotaLinhas
      <3>4. ~Adotavel(comAtual, dProximo)
        BY <3>3 DEF Adotavel, Nada, Linha
      <3>5. comProximo = comAtual
        BY <1>2, <1>4, <3>4, AdotaLinhas
      <3>6. banco'[Provisorio] = Nada
        BY <1>12, <3>3, <3>5
      <3>7. QED
        BY <3>1, <3>2, <3>6
    <2>2. CASE ~Adotavel(banco, d) /\ Adotavel(comAtual, dProximo)
      <3>1. comAtual = banco
        BY <1>2, <1>3, <2>2, AdotaLinhas
      <3>2. bolao' = Migra(TRUE, n + 1)
        BY <1>7, <2>2
      <3>3. Existe(Provisorio) /\ calendario[n + 1] = banco[Provisorio].dia
        BY <2>2, <3>1 DEF Adotavel, Existe
      <3>4. banco'[Provisorio] = Nada
        BY <1>2, <1>4, <1>12, <2>2, AdotaLinhas
      <3>5. QED
        BY <3>2, <3>3, <3>4
    <2>3. CASE ~Adotavel(banco, d) /\ ~Adotavel(comAtual, dProximo)
      <3>1. comProximo = banco
        BY <1>2, <1>3, <1>4, <2>3, AdotaLinhas
      <3>2. bolao' = Migra(FALSE, k)
        BY <1>7, <2>3
      <3>3. bolao' = bolao
        BY <3>2 DEF Migra, IInv, TypeOK
      <3>4. QED
        BY <1>12, <3>1, <3>3
    <2>4. QED
      BY <2>1, <2>2, <2>3
  <1>14. banco'[n].dia = d /\ banco'[n].corte = CorteDoDia(d)
    <2> HIDE DEF comProximo
    <2>1. sorteada.dia = d /\ sorteada.corte = CorteDoDia(d)
      BY <1>5 DEF LinhaSorteada, Linhas
    <2>2. QED
      BY <1>8, <2>1
  <1>15. /\ banco'[n + 1].dia = dProximo
         /\ \/ banco'[n + 1].corte = CorteDoDia(dProximo)
            \/ comProximo[n + 1].status # "ausente" /\ banco'[n + 1].corte = comProximo[n + 1].corte
    <2> HIDE DEF comProximo
    <2>1. /\ proxima.dia = dProximo
          /\ \/ proxima.corte = CorteDoDia(dProximo)
             \/ comProximo[n + 1].status # "ausente" /\ proxima.corte = comProximo[n + 1].corte
      BY <1>5 DEF LinhaProxima, Linha, Linhas
    <2>2. QED
      BY <1>8, <2>1
  <1>16. \/ comProximo[n + 1] = banco[n + 1]
         \/ /\ Existe(Provisorio) /\ banco[Provisorio].dia = dProximo
            /\ comProximo[n + 1].corte = banco[Provisorio].corte
    <2>1. comAtual[n + 1] = banco[n + 1]
      BY <1>2, <1>3, AdotaLinhas
    <2>2. CASE ~Adotavel(comAtual, dProximo)
      <3>1. comProximo = comAtual
        BY <1>2, <1>4, <2>2, AdotaLinhas
      <3>2. QED
        BY <2>1, <3>1
    <2>3. CASE Adotavel(comAtual, dProximo)
      <3>1. comProximo[n + 1].corte = comAtual[Provisorio].corte
        BY <1>2, <1>4, <2>3, AdotaLinhas
      <3>2. comAtual[Provisorio] # Nada
        BY <2>3 DEF Adotavel, Nada, Linha
      <3>3. comAtual[Provisorio] = banco[Provisorio]
        BY <1>2, <1>3, <3>2, AdotaLinhas
      <3>4. QED
        BY <2>3, <3>1, <3>3 DEF Adotavel, Existe
    <2>4. QED
      BY <2>2, <2>3
  <1>17. \/ banco'[n + 1].corte = CorteDoDia(dProximo)
         \/ Existe(n + 1) /\ banco'[n + 1].corte = banco[n + 1].corte
         \/ /\ Existe(Provisorio) /\ banco[Provisorio].dia = dProximo
            /\ banco'[n + 1].corte = banco[Provisorio].corte
    BY <1>15, <1>16 DEF Existe
  <1>18. QED
    BY <1>2, <1>8, <1>10, <1>11, <1>13, <1>14, <1>15, <1>17

MenorQue == {par \in Nat \X Nat : par[1] < par[2]}

LEMMA MenorBemFundado == IsWellFoundedOn(MenorQue, Nat)
  <1>1. OpToRel(<, Nat) = MenorQue
    BY DEF OpToRel, MenorQue
  <1>2. QED
    BY <1>1, NatLessThanWellFounded, Zenon

LEMMA MaisRecenteConhecido ==
  ASSUME Conhecidos # {}
  PROVE  MaisRecente \in Conhecidos
  <1> DEFINE distancias == {Ultimo - n : n \in Conhecidos}
  <1>1. Conhecidos \subseteq 1..Ultimo
    BY DEF Conhecidos, Numeros
  <1>2. distancias \subseteq Nat /\ distancias # {}
    <2>1. \A n \in Conhecidos : Ultimo - n \in Nat
      BY <1>1, ConcursosAssumption
    <2>2. QED
      BY <2>1, Zenon
  <1>3. PICK x \in distancias : \A y \in distancias : <<y, x>> \notin MenorQue
    <2> HIDE DEF distancias
    <2>1. QED
      BY <1>2, WFMin, MenorBemFundado, Zenon
  <1>4. PICK n \in Conhecidos : x = Ultimo - n
    BY <1>3
  <1>5. ASSUME NEW m \in Conhecidos PROVE m <= n
    <2>1. ~(Ultimo - m < Ultimo - n)
      BY <1>2, <1>3, <1>4 DEF MenorQue
    <2>2. QED
      BY <1>1, <2>1, ConcursosAssumption
  <1>6. QED
    BY <1>5 DEF MaisRecente

-----------------------------------------------------------------------------
(* Types *)

LEMMA TiposEmPartes ==
  TypeOK <=> /\ agora \in Nat
             /\ automatica \in BOOLEAN
             /\ calendario \in [Numeros -> 0..Dias]
             /\ caixa \in Resposta
             /\ banco \in Bancos
             /\ bolao \in Vinculos
             /\ fase \in [Processos -> Fases]
             /\ visto \in [Processos -> Resposta \cup {SemResposta}]
             /\ lote \subseteq Boloes
  BY DEF TypeOK, Bancos, Linhas, Vinculos

\* What the processes know.
ProcTipado ==
    /\ fase' \in [Processos -> Fases]
    /\ visto' \in [Processos -> Resposta \cup {SemResposta}]
    /\ lote' \subseteq Boloes

LEMMA TipoTermina ==
  ASSUME TypeOK, NEW p \in Processos, Termina(p)
  PROVE  /\ fase' \in [Processos -> Fases]
         /\ visto' \in [Processos -> Resposta \cup {SemResposta}]
  BY DEF TypeOK, Termina, Fases

LEMMA InitType == Init => TypeOK
  <1> SUFFICES ASSUME Init PROVE TypeOK
    OBVIOUS
  <1> USE DEF Init
  <1>1. calendario \in [Numeros -> 0..Dias] /\ 1 \in Numeros /\ 2 \in Numeros
    BY ConcursosAssumption DEF Numeros
  <1>2. caixa \in Resposta
    BY <1>1, ConcursosAssumption DEF Resposta
  <1>3. banco \in Bancos
    <2>1. \A s \in StatusConcurso, n \in {1, 2} : Linha(s, calendario[n], CorteDoDia(calendario[n])) \in Linhas
      BY <1>1, TiposDasLinhas
    <2>2. "aberto" \in StatusConcurso /\ "fechado" \in StatusConcurso /\ "apurado" \in StatusConcurso
      BY DEF StatusConcurso
    <2>3. caixa.dezenas \in BOOLEAN
      BY <1>2 DEF Resposta
    <2>4. \A x \in Linhas : [x EXCEPT !.resultado = caixa.dezenas] \in Linhas
      BY <2>3 DEF Linhas
    <2>5. \A s \in {"apurado", "fechado"} :
            [Linha(s, calendario[1], CorteDoDia(calendario[1])) EXCEPT !.resultado = caixa.dezenas] \in Linhas
      BY <2>1, <2>2, <2>4
    <2>6. Nada \in Linhas /\ Linha("aberto", calendario[2], CorteDoDia(calendario[2])) \in Linhas
      BY <2>1, <2>2, TiposDasLinhas
    <2>7. \A n \in {Provisorio} \cup Numeros : banco[n] \in Linhas
      <3>1. banco[1] \in Linhas
        <4>1. banco[1] = [Linha(IF caixa.dezenas THEN "apurado" ELSE "fechado", calendario[1],
                                CorteDoDia(calendario[1])) EXCEPT !.resultado = caixa.dezenas]
          BY <1>1
        <4>2. QED
          BY <2>5, <4>1
      <3>2. \A n \in ({Provisorio} \cup Numeros) \ {1} : banco[n] \in Linhas
        BY <2>6
      <3>3. QED
        BY <3>1, <3>2
    <2>8. QED
      BY <2>7 DEF Bancos
  <1>4. bolao \in Vinculos
    BY DEF SemBolao, Vinculos, StatusBolao, StatusVendas, Provisorio
  <1>5. /\ fase \in [Processos -> Fases]
        /\ visto \in [Processos -> Resposta \cup {SemResposta}]
        /\ lote \subseteq Boloes
    BY DEF Fases
  <1>6. automatica \in BOOLEAN
    BY ConcursosAssumption
  <1>7. QED
    BY <1>1, <1>2, <1>3, <1>4, <1>5, <1>6, TiposEmPartes

\* A row of the table, a pool, is written.
LEMMA TipoDaEscrita ==
  ASSUME TypeOK
  PROVE  /\ \A n \in {Provisorio} \cup Numeros, x \in Linhas : [banco EXCEPT ![n] = x] \in Bancos
         /\ \A b \in Boloes, s \in StatusBolao : [bolao EXCEPT ![b].status = s] \in Vinculos
         /\ \A b \in Boloes, s \in StatusVendas : [bolao EXCEPT ![b].vendas = s] \in Vinculos
  <1>1. banco \in Bancos /\ bolao \in Vinculos
    BY TiposEmPartes
  <1>2. \A n \in {Provisorio} \cup Numeros, x \in Linhas : [banco EXCEPT ![n] = x] \in Bancos
    BY <1>1 DEF Bancos
  <1>3. \A b \in Boloes, s \in StatusBolao : [bolao EXCEPT ![b].status = s] \in Vinculos
    BY <1>1 DEF Vinculos
  <1>4. \A b \in Boloes, s \in StatusVendas : [bolao EXCEPT ![b].vendas = s] \in Vinculos
    BY <1>1 DEF Vinculos
  <1>5. QED
    BY <1>2, <1>3, <1>4

\* What Cria writes: a row of the next day for the number after the last one known.
LEMMA CriaLinha ==
  ASSUME TypeOK, PodePrever
  PROVE  LET n == MaisRecente
             d == ProximoDia(banco[n].dia)
         IN  /\ n \in Numeros /\ n + 1 \in Numeros
             /\ Existe(n)
             /\ d \in 0..Dias /\ d = banco[n].dia + 1
             /\ Linha("aberto", d, CorteDoDia(d)) \in Linhas
  <1> DEFINE n == MaisRecente
             d == ProximoDia(banco[n].dia)
  <1>1. n \in Conhecidos
    BY MaisRecenteConhecido DEF PodePrever
  <1>2. n \in Numeros /\ Existe(n)
    BY <1>1 DEF Conhecidos
  <1> HIDE DEF n
  <1>3. n < Ultimo
    BY DEF n, PodePrever
  <1>4. n + 1 \in Numeros
    BY <1>2, <1>3, ConcursosAssumption DEF Numeros
  <1>5. banco[n].dia \in 0..Dias /\ ProximoDia(banco[n].dia) <= Dias
    BY <1>2 DEF TypeOK, PodePrever, n
  <1>6. d \in 0..Dias /\ d = banco[n].dia + 1
    BY <1>5, ConcursosAssumption DEF ProximoDia
  <1>7. "aberto" \in StatusConcurso
    BY DEF StatusConcurso
  <1>8. Linha("aberto", d, CorteDoDia(d)) \in Linhas
    BY <1>6, <1>7, TiposDasLinhas
  <1>9. QED
    BY <1>2, <1>4, <1>6, <1>8 DEF n

LEMMA TypeStep ==
  ASSUME IInv, [Next]_vars
  PROVE  TypeOK'
  <1> DEFINE T == /\ agora' \in Nat
                  /\ automatica' \in BOOLEAN
                  /\ calendario' \in [Numeros -> 0..Dias]
                  /\ caixa' \in Resposta
                  /\ banco' \in Bancos
                  /\ bolao' \in Vinculos
                  /\ fase' \in [Processos -> Fases]
                  /\ visto' \in [Processos -> Resposta \cup {SemResposta}]
                  /\ lote' \subseteq Boloes
  <1>0. /\ agora \in Nat
        /\ automatica \in BOOLEAN
        /\ calendario \in [Numeros -> 0..Dias]
        /\ caixa \in Resposta
        /\ banco \in Bancos
        /\ bolao \in Vinculos
        /\ fase \in [Processos -> Fases]
        /\ visto \in [Processos -> Resposta \cup {SemResposta}]
        /\ lote \subseteq Boloes
        /\ TypeOK
    BY TiposEmPartes DEF IInv
  <1> SUFFICES T
    BY DEF TypeOK, Bancos, Linhas, Vinculos
  <1>1. CASE UNCHANGED vars
    BY <1>0, <1>1 DEF vars, fora, procs
  <1>2. CASE Avanca
    BY <1>0, <1>2 DEF Avanca, procs
  <1>3. CASE Sorteia
    <2>1. caixa' \in Resposta
      BY <1>0, <1>3, ConcursosAssumption DEF Sorteia, Resposta, Numeros
    <2>2. QED
      BY <1>0, <1>3, <2>1 DEF Sorteia, procs
  <1>4. CASE PublicaDezenas
    <2>1. caixa' \in Resposta
      BY <1>0, <1>4 DEF PublicaDezenas, Resposta
    <2>2. QED
      BY <1>0, <1>4, <2>1 DEF PublicaDezenas, procs
  <1>5. ASSUME NEW p \in Processos, Inicia(p) PROVE T
    BY <1>0, <1>5, TipoVencidos DEF Inicia, Fases, fora
  <1>6. ASSUME NEW p \in Processos, ConsultaResponde(p) PROVE T
    <2>1. \A k \in 1..MaxAtraso : k < caixa.numero => [numero |-> caixa.numero - k, dezenas |-> TRUE] \in Resposta
      BY <1>0, ConcursosAssumption DEF Resposta, Numeros
    <2>2. visto' \in [Processos -> Resposta \cup {SemResposta}]
      BY <1>0, <1>6, <2>1 DEF ConsultaResponde
    <2>3. QED
      BY <1>0, <1>6, <2>2 DEF ConsultaResponde, Fases, fora
  <1>7. ASSUME NEW p \in Processos, ConsultaFalha(p) PROVE T
    BY <1>0, <1>7, TipoTermina DEF ConsultaFalha, fora
  <1>8. ASSUME NEW p \in Processos, Grava(p) PROVE T
    <2>1. banco' \in Bancos
      BY <1>8, GravaLinhas
    <2>2. bolao' \in Vinculos
      <3>1. \A n \in Numeros : Migra(TRUE, n) \in Vinculos
        BY <1>0, TipoMigra
      <3>2. bolao' = bolao \/ \E n \in Numeros : bolao' = Migra(TRUE, n)
        BY <1>8, GravaLinhas
      <3>3. QED
        BY <1>0, <3>1, <3>2
    <2>3. fase' \in [Processos -> Fases] /\ visto' \in [Processos -> Resposta \cup {SemResposta}]
      <3>1. CASE Termina(p)
        BY <1>0, <3>1, TipoTermina
      <3>2. CASE fase' = [fase EXCEPT ![p] = "apura"] /\ UNCHANGED visto
        BY <1>0, <3>2 DEF Fases
      <3>3. QED
        BY <1>8, <3>1, <3>2 DEF Grava
    <2>4. UNCHANGED <<fora, lote>>
      BY <1>8 DEF Grava
    <2>5. QED
      BY <1>0, <2>1, <2>2, <2>3, <2>4 DEF fora
  <1>9. ASSUME NEW p \in Processos, Encerra(p) PROVE T
    BY <1>0, <1>9, TipoVencidos DEF Encerra, Fases, fora
  <1>10. ASSUME NEW p \in Processos, Cria(p) PROVE T
    <2>1. banco' \in Bancos
      BY <1>0, <1>10, CriaLinha, TipoDaEscrita DEF Cria
    <2>2. QED
      BY <1>0, <1>10, <2>1 DEF Cria, Fases, fora
  <1>11. CASE ApuraLe
    BY <1>0, <1>11, TipoTermina DEF ApuraLe, fora, Processos
  <1>12. ASSUME NEW b \in Boloes, ApuraBolao(b) PROVE T
    <2>1. bolao' \in Vinculos
      BY <1>12, <1>0, TipoDaEscrita DEF ApuraBolao, StatusBolao
    <2>2. QED
      BY <1>0, <1>12, <2>1, TipoTermina DEF ApuraBolao, fora, Processos
  <1>13. CASE ApuraFalha
    BY <1>0, <1>13, TipoTermina DEF ApuraFalha, fora, Processos
  <1>14. ASSUME NEW juntos, Queda(juntos) PROVE T
    BY <1>0, <1>14 DEF Queda, Fases, fora
  <1>15. CASE VisitaSite
    BY <1>0, <1>15 DEF VisitaSite, Fases, fora
  <1>16. ASSUME NEW n \in Numeros, ImportaHistorico(n) PROVE T
    <2> DEFINE linha == IF Existe(n) THEN banco[n] ELSE Linha("apurado", calendario[n], CorteDoDia(calendario[n]))
    <2>1. linha \in Linhas
      <3>1. "apurado" \in StatusConcurso /\ calendario[n] \in 0..Dias
        BY <1>0 DEF StatusConcurso
      <3>2. QED
        BY <1>0, <3>1, TiposDasLinhas DEF Bancos
    <2>2. banco' = [banco EXCEPT ![n] = [linha EXCEPT !.status = "apurado", !.resultado = TRUE]]
      BY <1>16 DEF ImportaHistorico
    <2> HIDE DEF linha
    <2>3. [linha EXCEPT !.status = "apurado", !.resultado = TRUE] \in Linhas
      BY <2>1 DEF Linhas, StatusConcurso
    <2>4. banco' \in Bancos
      BY <1>0, <2>2, <2>3, TipoDaEscrita
    <2>5. QED
      BY <1>0, <1>16, <2>4 DEF ImportaHistorico, fora, procs
  <1>17. ASSUME NEW n \in Numeros, CreateManual(n) PROVE T
    <2>1. Linha("aberto", calendario[n], CorteDoDia(calendario[n])) \in Linhas
      BY <1>0, TiposDasLinhas DEF StatusConcurso
    <2>2. banco' \in Bancos
      BY <1>0, <1>17, <2>1, TipoDaEscrita DEF CreateManual
    <2>3. QED
      BY <1>0, <1>17, <2>2 DEF CreateManual, fora, procs
  <1>18. CASE CreateFestival
    <2>1. banco' \in Bancos
      BY <1>0, <1>18, TiposDasLinhas, TipoDaEscrita DEF CreateFestival
    <2>2. QED
      BY <1>0, <1>18, <2>1 DEF CreateFestival, fora, procs
  <1>19. ASSUME NEW n \in Numeros, CreateFestivalComNumero(n) PROVE T
    <2>1. [banco[n] EXCEPT !.especial = TRUE] \in Linhas
      BY <1>0 DEF Bancos, Linhas
    <2>2. banco' \in Bancos
      BY <1>0, <1>19, <2>1, TiposDasLinhas, TipoDaEscrita DEF CreateFestivalComNumero
    <2>3. QED
      BY <1>0, <1>19, <2>2 DEF CreateFestivalComNumero, fora, procs
  <1>20. ASSUME NEW n \in Numeros, UpdateFestival(n) PROVE T
    BY <1>0, <1>20, TipoAdota, TipoMigra DEF UpdateFestival, fora, procs
  <1>21. ASSUME NEW n \in {Provisorio} \cup Numeros, DeleteFestival(n) PROVE T
    <2>1. banco' \in Bancos
      BY <1>0, <1>21, TiposDasLinhas, TipoDaEscrita DEF DeleteFestival
    <2>2. QED
      BY <1>0, <1>21, <2>1 DEF DeleteFestival, fora, procs
  <1>22. ASSUME NEW b \in Boloes, Bolao(b) PROVE T
    <2>1. UNCHANGED <<fora, banco, procs>>
      BY <1>22 DEF Bolao, Create, Duplicate, Publish, Close, Register, RegisterNoPainel, Cancel, RemoveUnused, Vende, Desfaz, MudaBolao
    <2>2. bolao' \in Vinculos
      <3>1. ASSUME NEW n \in {Provisorio} \cup Numeros, Create(b, n) PROVE bolao' \in Vinculos
        BY <1>0, <3>1 DEF Create, Vinculos, StatusBolao, StatusVendas
      <3>2. ASSUME NEW de \in Boloes, Duplicate(b, de) PROVE bolao' \in Vinculos
        <4>1. [bolao[de] EXCEPT !.status = "rascunho", !.vendas = "nenhuma"]
                \in [concurso : {Provisorio} \cup Numeros, status : StatusBolao, vendas : StatusVendas]
          BY <1>0 DEF Vinculos, StatusBolao, StatusVendas
        <4>2. QED
          BY <1>0, <3>2, <4>1 DEF Duplicate, Vinculos
      <3>3. ASSUME NEW s \in {"aberto", "fechado", "registrado", "cancelado"}, MudaBolao(b, s) PROVE bolao' \in Vinculos
        BY <1>0, <3>3, TipoDaEscrita DEF MudaBolao, StatusBolao
      <3>4. CASE RemoveUnused(b)
        BY <1>0, <3>4 DEF RemoveUnused, SemBolao, Vinculos, StatusBolao, StatusVendas, Provisorio
      <3>5. CASE Vende(b) \/ Desfaz(b)
        BY <1>0, <3>5, TipoDaEscrita DEF Vende, Desfaz, StatusVendas
      <3>6. QED
        BY <1>22, <3>1, <3>2, <3>3, <3>4, <3>5 DEF Bolao, Publish, Close, Register, RegisterNoPainel, Cancel
    <2>3. QED
      BY <1>0, <2>1, <2>2 DEF fora, procs
  <1>23. QED
    BY <1>1, <1>2, <1>3, <1>4, <1>5, <1>6, <1>7, <1>8, <1>9, <1>10, <1>11, <1>12, <1>13, <1>14, <1>15,
       <1>16, <1>17, <1>18, <1>19, <1>20, <1>21, <1>22
    DEF Next, Passo, Apura, Administra

-----------------------------------------------------------------------------
(* What the processes have read *)

LEMMA ProcStep ==
  ASSUME IInv, [Next]_vars
  PROVE  ProcInv'
  <1>0. ProcInv /\ TypeOK /\ caixa.numero \in Nat /\ caixa.numero < Ultimo
    BY DEF IInv, ProcInv, TypeOK, Resposta, Numeros
  <1>1. ASSUME caixa' = caixa,
               \A p \in Processos : fase'[p] = "grava" => fase[p] = "grava" /\ visto'[p] = visto[p]
        PROVE  ProcInv'
    BY <1>0, <1>1 DEF ProcInv
  <1>2. CASE UNCHANGED vars
    BY <1>1, <1>2 DEF vars, fora, procs
  <1>3. CASE Avanca \/ PublicaDezenas
    BY <1>0, <1>3 DEF Avanca, PublicaDezenas, procs, ProcInv, TypeOK, Resposta
  <1>4. CASE Sorteia
    BY <1>0, <1>4 DEF Sorteia, procs, ProcInv
  <1>5. ASSUME NEW p \in Processos, ConsultaResponde(p) PROVE ProcInv'
    <2>1. \A k \in 1..MaxAtraso : k < caixa.numero => [numero |-> caixa.numero - k, dezenas |-> TRUE] \in Resposta
      BY <1>0, ConcursosAssumption DEF Resposta, Numeros
    <2>2. \A k \in 1..MaxAtraso : caixa.numero - k < Ultimo
      BY <1>0, ConcursosAssumption
    <2>3. visto'[p] \in Resposta /\ visto'[p].numero < Ultimo
      BY <1>0, <1>5, <2>1, <2>2 DEF ConsultaResponde, TypeOK
    <2>4. \A q \in Processos \ {p} : fase'[q] = fase[q] /\ visto'[q] = visto[q]
      BY <1>0, <1>5 DEF ConsultaResponde, TypeOK
    <2>5. caixa' = caixa
      BY <1>5 DEF ConsultaResponde, fora
    <2>6. QED
      BY <1>0, <2>3, <2>4, <2>5 DEF ProcInv
  <1>6. ASSUME NEW p \in Processos, Termina(p), caixa' = caixa PROVE ProcInv'
    BY <1>0, <1>1, <1>6 DEF Termina, TypeOK
  <1>7. ASSUME NEW p \in Processos, Inicia(p) \/ Encerra(p) \/ Cria(p) PROVE ProcInv'
    BY <1>0, <1>1, <1>7 DEF Inicia, Encerra, Cria, TypeOK, fora
  <1>8. ASSUME NEW p \in Processos, ConsultaFalha(p) PROVE ProcInv'
    BY <1>6, <1>8 DEF ConsultaFalha, fora
  <1>9. ASSUME NEW p \in Processos, Grava(p) PROVE ProcInv'
    <2>1. caixa' = caixa
      BY <1>9 DEF Grava, fora
    <2>2. CASE Termina(p)
      BY <1>6, <2>1, <2>2
    <2>3. CASE fase' = [fase EXCEPT ![p] = "apura"] /\ UNCHANGED visto
      BY <1>0, <1>1, <2>1, <2>3 DEF TypeOK
    <2>4. QED
      BY <1>9, <2>2, <2>3 DEF Grava
  <1>10. CASE ApuraLe \/ ApuraFalha \/ \E b \in Boloes : ApuraBolao(b)
    <2>1. caixa' = caixa
      BY <1>10 DEF ApuraLe, ApuraFalha, ApuraBolao, fora
    <2>2. CASE Termina("worker")
      BY <1>6, <2>1, <2>2 DEF Processos
    <2>3. CASE UNCHANGED <<fase, visto>>
      BY <1>1, <2>1, <2>3
    <2>4. QED
      BY <1>10, <2>2, <2>3 DEF ApuraLe, ApuraFalha, ApuraBolao
  <1>11. ASSUME NEW juntos, Queda(juntos) PROVE ProcInv'
    BY <1>1, <1>11 DEF Queda, fora
  <1>12. CASE VisitaSite
    BY <1>0, <1>1, <1>12 DEF VisitaSite, TypeOK, fora
  <1>13. ASSUME UNCHANGED <<fora, procs>> PROVE ProcInv'
    BY <1>1, <1>13 DEF fora, procs
  <1>14. CASE (\E n \in Numeros : ImportaHistorico(n)) \/ Administra
    BY <1>13, <1>14
    DEF ImportaHistorico, Administra, CreateManual, CreateFestival, CreateFestivalComNumero, UpdateFestival, DeleteFestival
  <1>15. ASSUME NEW b \in Boloes, Bolao(b) PROVE ProcInv'
    BY <1>13, <1>15 DEF Bolao, Create, Duplicate, Publish, Close, Register, RegisterNoPainel, Cancel, RemoveUnused, Vende, Desfaz, MudaBolao
  <1>16. QED
    BY <1>2, <1>3, <1>4, <1>5, <1>7, <1>8, <1>9, <1>10, <1>11, <1>12, <1>14, <1>15 DEF Next, Passo, Apura

-----------------------------------------------------------------------------
(* The table of contests *)

\* Only these steps write the table of contests.
MudaConcursos ==
    \/ \E p \in Processos : Inicia(p) \/ Grava(p) \/ Encerra(p) \/ Cria(p)
    \/ \E n \in Numeros : ImportaHistorico(n)
    \/ Administra

LEMMA OutrosPassos ==
  ASSUME [Next]_vars, ~MudaConcursos
  PROVE  banco' = banco
  <1>1. CASE UNCHANGED vars
    BY <1>1 DEF vars
  <1>2. ASSUME NEW p \in Processos, ConsultaResponde(p) \/ ConsultaFalha(p) PROVE banco' = banco
    BY <1>2 DEF ConsultaResponde, ConsultaFalha
  <1>3. CASE Avanca \/ Sorteia \/ PublicaDezenas \/ VisitaSite
    BY <1>3 DEF Avanca, Sorteia, PublicaDezenas, VisitaSite
  <1>4. CASE ApuraLe \/ ApuraFalha \/ \E b \in Boloes : ApuraBolao(b)
    BY <1>4 DEF ApuraLe, ApuraFalha, ApuraBolao
  <1>5. ASSUME NEW juntos, Queda(juntos) PROVE banco' = banco
    BY <1>5 DEF Queda
  <1>6. ASSUME NEW b \in Boloes, Bolao(b) PROVE banco' = banco
    BY <1>6 DEF Bolao, Create, Duplicate, Publish, Close, Register, RegisterNoPainel, Cancel, RemoveUnused, Vende, Desfaz, MudaBolao
  <1>7. QED
    BY <1>1, <1>2, <1>3, <1>4, <1>5, <1>6 DEF Next, Passo, Apura, MudaConcursos

\* The cutoffs change no date and lose no contest.
LEMMA VencidosLinhas ==
  ASSUME NEW b \in Bancos, NEW n \in {Provisorio} \cup Numeros
  PROVE  /\ Vencidos(b)[n].dia = b[n].dia
         /\ Vencidos(b)[n].corte = b[n].corte
         /\ Vencidos(b)[n].status = "ausente" <=> b[n].status = "ausente"
  BY DEF Vencidos, Bancos, Linhas

LEMMA FestaStep ==
  ASSUME IInv, [Next]_vars
  PROVE  FestaInv'
  <1>0. /\ FestaInv /\ TypeOK /\ banco \in Bancos
        /\ Provisorio \in {Provisorio} \cup Numeros
        /\ Provisorio \notin Numeros
    BY TiposEmPartes DEF IInv, Numeros, Provisorio
  <1>1. ASSUME \/ banco'[Provisorio] = banco[Provisorio]
               \/ banco'[Provisorio] = Nada
               \/ banco'[Provisorio] = LinhaDaFesta
        PROVE  FestaInv'
    BY <1>0, <1>1 DEF FestaInv, Existe, Nada, Linha, LinhaDaFesta
  <1>2. CASE ~MudaConcursos
    BY <1>1, <1>2, OutrosPassos
  <1>3. ASSUME NEW p \in Processos, Inicia(p) \/ Encerra(p) PROVE FestaInv'
    <2>1. banco' = Vencidos(banco)
      BY <1>3 DEF Inicia, Encerra
    <2>2. QED
      BY <1>0, <2>1, VencidosLinhas DEF FestaInv, Existe
  <1>4. ASSUME NEW p \in Processos, Grava(p) PROVE FestaInv'
    BY <1>1, <1>4, GravaLinhas
  <1>5. ASSUME NEW p \in Processos, Cria(p) PROVE FestaInv'
    <2>1. CASE ~PodePrever
      BY <1>1, <1>5, <2>1 DEF Cria
    <2>2. CASE PodePrever
      <3>1. MaisRecente + 1 # Provisorio
        BY <1>0, <2>2, CriaLinha
      <3>2. QED
        BY <1>0, <1>1, <1>5, <3>1 DEF Cria, Bancos
    <2>3. QED
      BY <2>1, <2>2
  <1>6. ASSUME NEW n \in Numeros, ImportaHistorico(n) \/ CreateManual(n) \/ CreateFestivalComNumero(n) PROVE FestaInv'
    <2>1. banco'[Provisorio] = banco[Provisorio]
      BY <1>0, <1>6 DEF ImportaHistorico, CreateManual, CreateFestivalComNumero, Bancos
    <2>2. QED
      BY <1>1, <2>1
  <1>7. CASE CreateFestival
    <2>1. banco'[Provisorio] = LinhaDaFesta
      BY <1>0, <1>7 DEF CreateFestival, Bancos
    <2>2. QED
      BY <1>1, <2>1
  <1>8. ASSUME NEW n \in Numeros, UpdateFestival(n) PROVE FestaInv'
    BY <1>0, <1>1, <1>8, AdotaLinhas DEF UpdateFestival
  <1>9. ASSUME NEW n \in {Provisorio} \cup Numeros, DeleteFestival(n) PROVE FestaInv'
    <2>1. banco'[Provisorio] = banco[Provisorio] \/ banco'[Provisorio] = Nada
      BY <1>0, <1>9 DEF DeleteFestival, Bancos
    <2>2. QED
      BY <1>1, <2>1
  <1>10. QED
    BY <1>2, <1>3, <1>4, <1>5, <1>6, <1>7, <1>8, <1>9 DEF MudaConcursos, Administra

-----------------------------------------------------------------------------
(* The pools the worker has read *)

LEMMA LoteStep ==
  ASSUME IInv, [Next]_vars
  PROVE  LoteInv'
  <1>0. TypeOK /\ LoteInv /\ bolao \in Vinculos /\ lote \subseteq Boloes
    BY TiposEmPartes DEF IInv
  <1>1. ASSUME lote' \subseteq lote,
               \A b \in Boloes : bolao[b].status = "registrado" => bolao'[b].status = "registrado"
        PROVE  LoteInv'
    BY <1>0, <1>1 DEF LoteInv
  <1>2. CASE UNCHANGED vars
    BY <1>1, <1>2 DEF vars, procs
  <1>3. CASE Avanca \/ Sorteia \/ PublicaDezenas \/ VisitaSite \/ \E n \in Numeros : ImportaHistorico(n)
    BY <1>1, <1>3 DEF Avanca, Sorteia, PublicaDezenas, VisitaSite, ImportaHistorico, procs
  <1>4. ASSUME NEW p \in Processos, Inicia(p) \/ ConsultaResponde(p) \/ ConsultaFalha(p) \/ Encerra(p) \/ Cria(p)
        PROVE  LoteInv'
    BY <1>1, <1>4 DEF Inicia, ConsultaResponde, ConsultaFalha, Encerra, Cria
  <1>5. \A adotado \in BOOLEAN, n \in Numeros, b \in Boloes : Migra(adotado, n)[b].status = bolao[b].status
    BY <1>0 DEF Migra, Vinculos
  <1>6. ASSUME NEW p \in Processos, Grava(p) PROVE LoteInv'
    <2>1. \A b \in Boloes : bolao'[b].status = bolao[b].status
      <3>1. bolao' = bolao \/ \E n \in Numeros : bolao' = Migra(TRUE, n)
        BY <1>6, GravaLinhas
      <3>2. QED
        BY <1>5, <3>1
    <2>2. lote' = lote
      BY <1>6 DEF Grava
    <2>3. QED
      BY <1>1, <2>1, <2>2
  <1>7. CASE ApuraLe
    BY <1>7 DEF ApuraLe, LoteInv
  <1>8. ASSUME NEW b \in Boloes, ApuraBolao(b) PROVE LoteInv'
    <2>1. lote' = lote \ {b} /\ \A x \in Boloes : x # b => bolao'[x] = bolao[x]
      BY <1>0, <1>8 DEF ApuraBolao
    <2>2. QED
      BY <1>0, <2>1 DEF LoteInv
  <1>9. CASE ApuraFalha
    BY <1>9 DEF ApuraFalha, LoteInv
  <1>10. ASSUME NEW juntos, Queda(juntos) PROVE LoteInv'
    BY <1>1, <1>10 DEF Queda
  <1>11. CASE Administra
    <2>1. ASSUME NEW n \in Numeros, UpdateFestival(n) PROVE LoteInv'
      BY <1>1, <1>5, <2>1 DEF UpdateFestival, procs
    <2>2. QED
      BY <1>1, <1>11, <2>1 DEF Administra, CreateManual, CreateFestival, CreateFestivalComNumero, DeleteFestival, procs
  <1>12. ASSUME NEW b \in Boloes, Bolao(b) PROVE LoteInv'
    <2>1. lote' = lote
      BY <1>12
      DEF procs, Bolao, Create, Duplicate, Publish, Close, Register, RegisterNoPainel, Cancel, RemoveUnused, Vende, Desfaz, MudaBolao
    <2>2. \A x \in Boloes : bolao[x].status = "registrado" => bolao'[x].status = "registrado"
      BY <1>0, <1>12
      DEF Vinculos, Bolao, Create, Duplicate, Publish, Close, Register, RegisterNoPainel, Cancel, RemoveUnused, Vende, Desfaz, MudaBolao, Vendavel
    <2>3. QED
      BY <1>1, <2>1, <2>2
  <1>13. QED
    BY <1>2, <1>3, <1>4, <1>6, <1>7, <1>8, <1>9, <1>10, <1>11, <1>12 DEF Next, Passo, Apura

-----------------------------------------------------------------------------
(* A pool has its contest, and keeps it *)

\* The steps that change which contest a pool bets on, or create it.
LEMMA PassosDoBolao ==
  ASSUME IInv, [Next]_vars, NEW b \in Boloes
  PROVE  \/ bolao'[b].status = "nenhum"
         \/ bolao[b].status # "nenhum" /\ bolao'[b].concurso = bolao[b].concurso
         \/ bolao[b].status = "nenhum" /\ banco' = banco /\ Existe(bolao'[b].concurso)
         \/ /\ bolao[b].status # "nenhum" /\ bolao[b].concurso = Provisorio
            /\ \/ \E p \in Processos : Grava(p)
               \/ \E n \in Numeros : UpdateFestival(n)
            /\ \E n \in Numeros : /\ bolao'[b].concurso = n
                                  /\ calendario[n] = banco[Provisorio].dia
                                  /\ banco'[n].status # "ausente"
  <1>0. /\ TypeOK /\ FestaInv /\ banco \in Bancos /\ bolao \in Vinculos
        /\ PoolHasContest /\ LoteInv
    BY TiposEmPartes DEF IInv
  <1>1. ASSUME bolao' = bolao
        PROVE  \/ bolao'[b].status = "nenhum"
               \/ bolao[b].status # "nenhum" /\ bolao'[b].concurso = bolao[b].concurso
    BY <1>1
  <1>2. CASE UNCHANGED vars
    BY <1>1, <1>2 DEF vars
  <1>3. CASE Avanca \/ Sorteia \/ PublicaDezenas \/ VisitaSite \/ ApuraLe \/ ApuraFalha
    BY <1>1, <1>3 DEF Avanca, Sorteia, PublicaDezenas, VisitaSite, ApuraLe, ApuraFalha
  <1>4. ASSUME NEW p \in Processos, Inicia(p) \/ ConsultaResponde(p) \/ ConsultaFalha(p) \/ Encerra(p) \/ Cria(p)
        PROVE  bolao' = bolao
    BY <1>4 DEF Inicia, ConsultaResponde, ConsultaFalha, Encerra, Cria
  <1>5. ASSUME NEW juntos, Queda(juntos) PROVE bolao' = bolao
    BY <1>5 DEF Queda
  <1>6. CASE \/ CreateFestival
             \/ \E n \in Numeros : ImportaHistorico(n) \/ CreateManual(n) \/ CreateFestivalComNumero(n)
             \/ \E n \in {Provisorio} \cup Numeros : DeleteFestival(n)
    BY <1>1, <1>6 DEF CreateFestival, ImportaHistorico, CreateManual, CreateFestivalComNumero, DeleteFestival
  <1>7. ASSUME NEW n \in Numeros, bolao' = Migra(TRUE, n), calendario[n] = banco[Provisorio].dia,
               banco'[n].status # "ausente"
        PROVE  \/ bolao'[b].status = "nenhum"
               \/ bolao[b].status # "nenhum" /\ bolao'[b].concurso = bolao[b].concurso
               \/ /\ bolao[b].status # "nenhum" /\ bolao[b].concurso = Provisorio
                  /\ \E m \in Numeros : /\ bolao'[b].concurso = m
                                        /\ calendario[m] = banco[Provisorio].dia
                                        /\ banco'[m].status # "ausente"
    <2>1. CASE bolao[b].status # "nenhum" /\ bolao[b].concurso = Provisorio
      <3>1. bolao'[b].concurso = n
        BY <1>0, <1>7, <2>1 DEF Migra, Vinculos
      <3>2. QED
        BY <1>7, <2>1, <3>1
    <2>2. CASE ~(bolao[b].status # "nenhum" /\ bolao[b].concurso = Provisorio)
      <3>1. bolao'[b] = bolao[b]
        BY <1>7, <2>2 DEF Migra
      <3>2. QED
        BY <3>1
    <2>3. QED
      BY <2>1, <2>2
  <1>8. CASE \E p \in Processos : Grava(p)
    <2>1. PICK p \in Processos : Grava(p)
      BY <1>8
    <2> DEFINE n == visto[p].numero
    <2>2. /\ n \in Numeros /\ n + 1 \in Numeros
          /\ banco'[n].status # "ausente" /\ banco'[n + 1].status # "ausente"
          /\ \/ bolao' = bolao
             \/ \E k \in {n, n + 1} : calendario[k] = banco[Provisorio].dia /\ bolao' = Migra(TRUE, k)
      BY <2>1, GravaLinhas
    <2> HIDE DEF n
    <2>3. CASE bolao' = bolao
      BY <1>1, <2>3
    <2>4. ASSUME NEW k \in {n, n + 1}, calendario[k] = banco[Provisorio].dia, bolao' = Migra(TRUE, k)
          PROVE  \/ bolao'[b].status = "nenhum"
                 \/ bolao[b].status # "nenhum" /\ bolao'[b].concurso = bolao[b].concurso
                 \/ /\ bolao[b].status # "nenhum" /\ bolao[b].concurso = Provisorio
                    /\ \E m \in Numeros : /\ bolao'[b].concurso = m
                                          /\ calendario[m] = banco[Provisorio].dia
                                          /\ banco'[m].status # "ausente"
      BY <1>7, <2>2, <2>4
    <2>5. QED
      BY <1>8, <2>2, <2>3, <2>4
  <1>9. CASE \E n \in Numeros : UpdateFestival(n)
    <2>1. PICK n \in Numeros : UpdateFestival(n)
      BY <1>9
    <2>2. banco[Provisorio].dia = FestaDia /\ calendario[n] = banco[Provisorio].dia
      BY <1>0, <2>1 DEF UpdateFestival, FestaInv
    <2>3. banco'[n].status # "ausente"
      <3>1. Adotavel(banco, banco[Provisorio].dia)
        BY <2>1 DEF UpdateFestival, Adotavel, Existe
      <3>2. QED
        BY <1>0, <2>1, <3>1, AdotaLinhas DEF UpdateFestival
    <2>4. bolao' = Migra(TRUE, n)
      BY <2>1 DEF UpdateFestival
    <2>5. QED
      BY <1>7, <1>9, <2>2, <2>3, <2>4
  <1>10. ASSUME NEW x \in Boloes, ApuraBolao(x)
         PROVE  \/ bolao'[b].status = "nenhum"
                \/ bolao[b].status # "nenhum" /\ bolao'[b].concurso = bolao[b].concurso
    <2>1. bolao[x].status = "registrado"
      BY <1>0, <1>10 DEF ApuraBolao, LoteInv
    <2>2. bolao' = bolao \/ bolao' = [bolao EXCEPT ![x].status = "apurado"]
      BY <1>10 DEF ApuraBolao
    <2>3. QED
      BY <1>0, <2>1, <2>2 DEF Vinculos
  <1>11. ASSUME NEW x \in Boloes, Bolao(x)
         PROVE  \/ bolao'[b].status = "nenhum"
                \/ bolao[b].status # "nenhum" /\ bolao'[b].concurso = bolao[b].concurso
                \/ bolao[b].status = "nenhum" /\ banco' = banco /\ Existe(bolao'[b].concurso)
    <2>1. \A y \in Boloes : y # x => bolao'[y] = bolao[y]
      BY <1>0, <1>11
      DEF Vinculos, Bolao, Create, Duplicate, Publish, Close, Register, RegisterNoPainel, Cancel, RemoveUnused, Vende, Desfaz, MudaBolao
    <2>2. CASE b # x
      BY <2>1, <2>2
    <2>3. CASE b = x
      <3>1. ASSUME NEW n \in {Provisorio} \cup Numeros, Create(b, n)
            PROVE  bolao[b].status = "nenhum" /\ banco' = banco /\ Existe(bolao'[b].concurso)
        BY <1>0, <3>1 DEF Create, Vinculos
      <3>2. ASSUME NEW de \in Boloes, Duplicate(b, de)
            PROVE  bolao[b].status = "nenhum" /\ banco' = banco /\ Existe(bolao'[b].concurso)
        <4>1. Existe(bolao[de].concurso)
          BY <1>0, <3>2 DEF Duplicate, PoolHasContest, Concurso, Existe
        <4>2. bolao'[b].concurso = bolao[de].concurso
          BY <1>0, <3>2 DEF Duplicate, Vinculos
        <4>3. QED
          BY <3>2, <4>1, <4>2 DEF Duplicate
      <3>3. CASE Publish(b) \/ Close(b) \/ Register(b) \/ RegisterNoPainel(b) \/ Cancel(b)
        BY <1>0, <3>3 DEF Publish, Close, Register, RegisterNoPainel, Cancel, MudaBolao, Vinculos
      <3>4. CASE RemoveUnused(b)
        BY <1>0, <3>4 DEF RemoveUnused, SemBolao, Vinculos
      <3>5. CASE Vende(b) \/ Desfaz(b)
        BY <1>0, <3>5 DEF Vende, Desfaz, Vendavel, Vinculos
      <3>6. QED
        BY <1>11, <2>3, <3>1, <3>2, <3>3, <3>4, <3>5 DEF Bolao
    <2>4. QED
      BY <2>2, <2>3
  <1>12. QED
    <2>1. CASE \E p \in Processos : Inicia(p) \/ ConsultaResponde(p) \/ ConsultaFalha(p) \/ Encerra(p) \/ Cria(p)
      BY <1>1, <1>4, <2>1
    <2>2. CASE \E juntos : Queda(juntos)
      BY <1>1, <1>5, <2>2
    <2>3. CASE \E x \in Boloes : ApuraBolao(x) \/ Bolao(x)
      BY <1>10, <1>11, <2>3
    <2>4. QED
      BY <1>2, <1>3, <1>6, <1>8, <1>9, <2>1, <2>2, <2>3 DEF Next, Passo, Apura, Administra

LEMMA PoolStep ==
  ASSUME IInv, [Next]_vars
  PROVE  PoolHasContest'
  <1>0. /\ TypeOK /\ PoolHasContest /\ banco \in Bancos /\ bolao \in Vinculos
        /\ Provisorio \notin Numeros
    BY TiposEmPartes DEF IInv, Numeros, Provisorio
  <1>1. SUFFICES ASSUME NEW b \in Boloes, bolao'[b].status # "nenhum"
                 PROVE  banco'[bolao'[b].concurso].status # "ausente"
    BY DEF PoolHasContest, Concurso
  <1>2. CASE bolao[b].status = "nenhum" /\ banco' = banco /\ Existe(bolao'[b].concurso)
    BY <1>2 DEF Existe
  <1>3. CASE \E n \in Numeros : bolao'[b].concurso = n /\ banco'[n].status # "ausente"
    BY <1>3
  <1>4. CASE bolao[b].status # "nenhum" /\ bolao'[b].concurso = bolao[b].concurso
    <2> DEFINE n == bolao[b].concurso
    <2>1. n \in {Provisorio} \cup Numeros /\ banco[n].status # "ausente"
      BY <1>0, <1>4 DEF PoolHasContest, Concurso, Vinculos
    <2> HIDE DEF n
    <2> SUFFICES banco'[n].status # "ausente"
      BY <1>4 DEF n
    <2>2. CASE ~MudaConcursos
      BY <2>1, <2>2, OutrosPassos
    <2>3. ASSUME NEW p \in Processos, Inicia(p) \/ Encerra(p) PROVE banco'[n].status # "ausente"
      BY <1>0, <2>1, <2>3, VencidosLinhas DEF Inicia, Encerra
    <2>4. ASSUME NEW p \in Processos, Grava(p) PROVE banco'[n].status # "ausente"
      <3> DEFINE v == visto[p].numero
      <3>1. /\ banco'[v].status # "ausente" /\ banco'[v + 1].status # "ausente"
            /\ \A m \in Numeros \ {v, v + 1} : banco'[m] = banco[m]
            /\ banco'[Provisorio] = banco[Provisorio] \/ \E k \in Numeros : bolao' = Migra(TRUE, k)
        BY <2>4, GravaLinhas
      <3> HIDE DEF v
      <3>2. CASE n \in Numeros \/ banco'[Provisorio] = banco[Provisorio]
        BY <2>1, <3>1, <3>2
      <3>3. ASSUME NEW k \in Numeros, bolao' = Migra(TRUE, k), n = Provisorio PROVE FALSE
        BY <1>0, <1>4, <3>3 DEF Migra, Vinculos, n
      <3>4. QED
        BY <2>1, <3>1, <3>2, <3>3
    <2>5. ASSUME NEW p \in Processos, Cria(p) PROVE banco'[n].status # "ausente"
      BY <1>0, <2>1, <2>5 DEF Cria, Bancos, Linha, PodePrever
    <2>6. ASSUME NEW m \in Numeros, ImportaHistorico(m) \/ CreateManual(m) \/ CreateFestivalComNumero(m)
          PROVE  banco'[n].status # "ausente"
      BY <1>0, <2>1, <2>6 DEF ImportaHistorico, CreateManual, CreateFestivalComNumero, Bancos, Linhas, Linha, LinhaDaFesta, Existe
    <2>7. CASE CreateFestival
      BY <1>0, <2>1, <2>7 DEF CreateFestival, Bancos, LinhaDaFesta, Linha
    <2>8. ASSUME NEW m \in Numeros, UpdateFestival(m) PROVE banco'[n].status # "ausente"
      <3>1. n # Provisorio
        BY <1>0, <1>4, <2>8 DEF UpdateFestival, Migra, Vinculos, n
      <3>2. QED
        BY <1>0, <2>1, <2>8, <3>1, AdotaLinhas DEF UpdateFestival
    <2>9. ASSUME NEW m \in {Provisorio} \cup Numeros, DeleteFestival(m) PROVE banco'[n].status # "ausente"
      <3>1. n # m
        BY <1>4, <2>9 DEF DeleteFestival, SemBoloes, n
      <3>2. QED
        BY <1>0, <2>1, <2>9, <3>1 DEF DeleteFestival, Bancos
    <2>10. QED
      BY <2>2, <2>3, <2>4, <2>5, <2>6, <2>7, <2>8, <2>9 DEF MudaConcursos, Administra
  <1>5. QED
    BY <1>1, <1>2, <1>3, <1>4, PassosDoBolao

-----------------------------------------------------------------------------
(* The theorems that need no hypothesis *)

LEMMA InitIInv == Init => IInv
  <1> SUFFICES ASSUME Init PROVE IInv
    OBVIOUS
  <1>1. TypeOK
    BY InitType
  <1>2. ProcInv
    BY ConcursosAssumption DEF Init, ProcInv, Processos
  <1>3. FestaInv
    BY DEF Init, FestaInv, Existe, Nada, Linha, Provisorio
  <1>4. LoteInv /\ PoolHasContest
    BY DEF Init, LoteInv, PoolHasContest, SemBolao
  <1>5. QED
    BY <1>1, <1>2, <1>3, <1>4 DEF IInv

THEOREM SpecIInv == Spec => []IInv
  <1>1. IInv /\ [Next]_vars => IInv'
    BY TypeStep, ProcStep, FestaStep, LoteStep, PoolStep DEF IInv
  <1>2. QED
    BY InitIInv, <1>1, PTL DEF Spec

\* Every row, pool and process keeps to its types, whatever the order of the three writers.
THEOREM TypeCorrect == Spec => []TypeOK
  <1>1. IInv => TypeOK
    BY DEF IInv
  <1>2. QED
    BY SpecIInv, <1>1, PTL

\* The contest of a pool exists, through the adoption and the removal of festivals.
THEOREM PoolsHaveContests == Spec => []PoolHasContest
  <1>1. IInv => PoolHasContest
    BY DEF IInv
  <1>2. QED
    BY SpecIInv, <1>1, PTL

\* A pool only moves from the provisional festival to the contest of the same day.
THEOREM PoolsKeepTheirDraw == Spec => PoolKeepsItsDraw
  <1> DEFINE Mantem == \A b \in Boloes :
                         /\ bolao[b].status # "nenhum" /\ bolao'[b].status # "nenhum"
                         /\ bolao'[b].concurso # bolao[b].concurso
                         => /\ bolao[b].concurso = Provisorio
                            /\ calendario[bolao'[b].concurso] = banco[Provisorio].dia
  <1>1. IInv /\ [Next]_vars => Mantem
    BY PassosDoBolao
  <1>2. Spec => [][Mantem]_vars
    BY SpecIInv, <1>1, PTL DEF Spec
  <1>3. QED
    BY <1>2 DEF PoolKeepsItsDraw

-----------------------------------------------------------------------------
(* Nothing is sold after the draw *)

\* CAIXA draws the contests one after the other, at most one a day.
UmPorDia == \A c \in Calendarios, n \in Numeros : n + 1 \in Numeros => c[n] < c[n + 1]

\* No row has a date, or a cutoff, later than the draw of its number.
DateInv ==
    /\ calendario \in Calendarios
    /\ \A n \in Numeros : Existe(n) => /\ banco[n].dia <= calendario[n]
                                       /\ banco[n].corte <= CorteDoDia(calendario[n])

LEMMA InitDateInv == Init => DateInv
  <1> SUFFICES ASSUME Init PROVE DateInv
    OBVIOUS
  <1>1. calendario \in Calendarios /\ 1 \in Numeros /\ 2 \in Numeros /\ calendario \in [Numeros -> 0..Dias]
    BY ConcursosAssumption DEF Init, Numeros
  <1>2. SUFFICES ASSUME NEW n \in Numeros, Existe(n)
                 PROVE  banco[n].dia <= calendario[n] /\ banco[n].corte <= CorteDoDia(calendario[n])
    BY <1>1 DEF DateInv
  <1>3. n \in {1, 2}
    BY <1>2 DEF Init, Existe, Nada, Linha
  <1>4. banco[n].dia = calendario[n] /\ banco[n].corte = CorteDoDia(calendario[n])
    BY <1>1, <1>3 DEF Init, Linha
  <1>5. calendario[n] \in Int /\ CorteDoDia(calendario[n]) \in Int
    BY <1>1 DEF CorteDoDia
  <1>6. QED
    BY <1>4, <1>5

LEMMA DateStep ==
  ASSUME FestaCedo = FALSE, UmPorDia, IInv, DateInv, [Next]_vars
  PROVE  DateInv'
  <1>0. /\ TypeOK /\ FestaInv /\ banco \in Bancos
        /\ Provisorio \notin Numeros
        /\ \A n \in Numeros : /\ calendario[n] \in 0..Dias
                              /\ banco[n] \in Linhas
                              /\ CorteDoDia(calendario[n]) = 2 * calendario[n] + 1
        /\ CorteDaFesta = 2 * FestaDia + 1
        /\ FestaDia \in Nat /\ Dias \in Nat
    <2>1. TypeOK /\ FestaInv /\ banco \in Bancos
      BY TiposEmPartes DEF IInv
    <2>2. Provisorio \notin Numeros
      BY DEF Numeros, Provisorio
    <2>3. \A n \in Numeros : calendario[n] \in 0..Dias /\ banco[n] \in Linhas
      BY <2>1, TiposEmPartes DEF Bancos
    <2>4. \A n \in Numeros : CorteDoDia(calendario[n]) = 2 * calendario[n] + 1
      BY DEF CorteDoDia
    <2>5. CorteDaFesta = 2 * FestaDia + 1 /\ FestaDia \in Nat /\ Dias \in Nat
      BY ConcursosAssumption DEF CorteDaFesta
    <2>6. QED
      BY <2>1, <2>2, <2>3, <2>4, <2>5
  <1>1. calendario' = calendario
    BY DEF vars, fora, Next, Avanca, Sorteia, PublicaDezenas, Passo, Inicia, ConsultaResponde, ConsultaFalha, Grava,
           Encerra, Cria, Apura, ApuraLe, ApuraBolao, ApuraFalha, Queda, VisitaSite, ImportaHistorico, Administra,
           CreateManual, CreateFestival, CreateFestivalComNumero, UpdateFestival, DeleteFestival, Bolao, Create,
           Duplicate, Publish, Close, Register, RegisterNoPainel, Cancel, RemoveUnused, Vende, Desfaz, MudaBolao
  <1> DEFINE Certa(n) == banco'[n].status # "ausente" => /\ banco'[n].dia <= calendario[n]
                                                          /\ banco'[n].corte <= CorteDoDia(calendario[n])
  <1>2. SUFFICES ASSUME NEW n \in Numeros PROVE Certa(n)
    BY <1>1 DEF DateInv, Existe
  <1>3. ASSUME banco'[n] = banco[n] PROVE Certa(n)
    BY <1>3 DEF DateInv, Existe
  <1>4. ASSUME banco'[n].dia = calendario[n], banco'[n].corte = CorteDoDia(calendario[n]) PROVE Certa(n)
    BY <1>0, <1>4
  <1>5. CASE ~MudaConcursos
    BY <1>3, <1>5, OutrosPassos
  <1>6. ASSUME NEW p \in Processos, Inicia(p) \/ Encerra(p) PROVE Certa(n)
    <2>1. /\ banco'[n].dia = banco[n].dia /\ banco'[n].corte = banco[n].corte
          /\ banco'[n].status # "ausente" => Existe(n)
      BY <1>0, <1>6, VencidosLinhas DEF Inicia, Encerra, Existe
    <2>2. QED
      BY <2>1 DEF DateInv
  <1>7. ASSUME NEW p \in Processos, Grava(p) PROVE Certa(n)
    <2> DEFINE v == visto[p].numero
    <2>1. /\ v \in Numeros /\ v + 1 \in Numeros
          /\ \A m \in Numeros \ {v, v + 1} : banco'[m] = banco[m]
          /\ banco'[v].dia = calendario[v] /\ banco'[v].corte = CorteDoDia(calendario[v])
          /\ banco'[v + 1].dia = calendario[v + 1]
          /\ \/ banco'[v + 1].corte = CorteDoDia(calendario[v + 1])
             \/ Existe(v + 1) /\ banco'[v + 1].corte = banco[v + 1].corte
             \/ /\ Existe(Provisorio) /\ banco[Provisorio].dia = calendario[v + 1]
                /\ banco'[v + 1].corte = banco[Provisorio].corte
      BY <1>7, GravaLinhas, ZenonT(60)
    <2> HIDE DEF v
    <2>2. CASE n # v /\ n # v + 1
      BY <1>3, <2>1, <2>2
    <2>3. CASE n = v
      BY <1>4, <2>1, <2>3
    <2>4. CASE n = v + 1
      <3>1. CASE Existe(n) /\ banco'[n].corte = banco[n].corte
        BY <1>0, <2>1, <2>4, <3>1 DEF DateInv
      <3>2. CASE /\ Existe(Provisorio) /\ banco[Provisorio].dia = calendario[n]
                 /\ banco'[n].corte = banco[Provisorio].corte
        <4>1. banco[Provisorio].corte = CorteDoDia(calendario[n])
          BY <1>0, <3>2 DEF FestaInv
        <4>2. QED
          BY <1>4, <2>1, <2>4, <3>2, <4>1
      <3>3. QED
        BY <1>4, <2>1, <2>4, <3>1, <3>2
    <2>5. QED
      BY <2>2, <2>3, <2>4
  <1>8. ASSUME NEW p \in Processos, Cria(p) PROVE Certa(n)
    <2> DEFINE m == MaisRecente
               d == ProximoDia(banco[m].dia)
    <2>1. CASE ~PodePrever
      BY <1>3, <1>8, <2>1 DEF Cria
    <2>2. CASE PodePrever
      <3>1. /\ m \in Numeros /\ m + 1 \in Numeros /\ Existe(m)
            /\ d = banco[m].dia + 1 /\ d \in 0..Dias
        BY <1>0, <2>2, CriaLinha
      <3>2. banco' = [banco EXCEPT ![m + 1] = Linha("aberto", d, CorteDoDia(d))]
        BY <1>8, <2>2 DEF Cria
      <3> HIDE DEF m, d
      <3>3. CASE n # m + 1
        BY <1>0, <1>3, <3>2, <3>3 DEF Bancos
      <3>4. CASE n = m + 1
        <4>1. banco'[n].dia = d /\ banco'[n].corte = CorteDoDia(d)
          BY <1>0, <3>2, <3>4 DEF Bancos, Linha
        <4>2. banco[m].dia <= calendario[m] /\ calendario[m] < calendario[m + 1]
          BY <3>1 DEF DateInv, UmPorDia
        <4>3. banco[m].dia \in Nat /\ calendario[m] \in Nat /\ calendario[m + 1] \in Nat
          BY <1>0, <3>1 DEF Linhas
        <4>4. d <= calendario[n] /\ CorteDoDia(d) <= CorteDoDia(calendario[n])
          BY <3>1, <3>4, <4>2, <4>3 DEF CorteDoDia
        <4>5. QED
          BY <4>1, <4>4
      <3>5. QED
        BY <3>3, <3>4
    <2>3. QED
      BY <2>1, <2>2
  <1>9. ASSUME NEW m \in Numeros, ImportaHistorico(m) PROVE Certa(n)
    <2>1. CASE n # m
      BY <1>0, <1>3, <1>9, <2>1 DEF ImportaHistorico, Bancos
    <2>2. CASE n = m /\ Existe(m)
      <3>1. banco'[n] = [banco[n] EXCEPT !.status = "apurado", !.resultado = TRUE]
        BY <1>0, <1>9, <2>2 DEF ImportaHistorico, Bancos
      <3>2. banco'[n].dia = banco[n].dia /\ banco'[n].corte = banco[n].corte
        BY <1>0, <3>1 DEF Linhas
      <3>3. QED
        BY <2>2, <3>2 DEF DateInv
    <2>3. CASE n = m /\ ~Existe(m)
      <3>1. banco'[n] = [Linha("apurado", calendario[m], CorteDoDia(calendario[m]))
                           EXCEPT !.status = "apurado", !.resultado = TRUE]
        BY <1>0, <1>9, <2>3 DEF ImportaHistorico, Bancos
      <3>2. QED
        BY <1>4, <2>3, <3>1 DEF Linha
    <2>4. QED
      BY <2>1, <2>2, <2>3
  <1>10. ASSUME NEW m \in Numeros, CreateManual(m) PROVE Certa(n)
    BY <1>0, <1>3, <1>4, <1>10 DEF CreateManual, Bancos, Linha
  <1>11. CASE CreateFestival
    BY <1>0, <1>3, <1>11 DEF CreateFestival, Bancos
  <1>12. ASSUME NEW m \in Numeros, CreateFestivalComNumero(m) PROVE Certa(n)
    <2>1. CASE n # m
      BY <1>0, <1>3, <1>12, <2>1 DEF CreateFestivalComNumero, Bancos
    <2>2. CASE n = m /\ Existe(m)
      <3>1. banco'[n] = [banco[n] EXCEPT !.especial = TRUE]
        BY <1>0, <1>12, <2>2 DEF CreateFestivalComNumero, Bancos
      <3>2. banco'[n].dia = banco[n].dia /\ banco'[n].corte = banco[n].corte
        BY <1>0, <3>1 DEF Linhas
      <3>3. QED
        BY <2>2, <3>2 DEF DateInv
    <2>3. CASE n = m /\ ~Existe(m)
      <3>1. banco'[n].dia = FestaDia /\ banco'[n].corte = CorteDaFesta /\ calendario[n] = FestaDia
        BY <1>0, <1>12, <2>3 DEF CreateFestivalComNumero, Bancos, LinhaDaFesta, Linha
      <3>2. QED
        BY <1>0, <1>4, <3>1
    <2>4. QED
      BY <2>1, <2>2, <2>3
  <1>13. ASSUME NEW m \in Numeros, UpdateFestival(m) PROVE Certa(n)
    <2>1. banco' = Adota(banco, m, banco[Provisorio].dia) /\ Existe(Provisorio) /\ calendario[m] = FestaDia
      BY <1>13 DEF UpdateFestival
    <2>2. Adotavel(banco, banco[Provisorio].dia)
      BY <2>1 DEF Adotavel, Existe
    <2>3. CASE n # m
      BY <1>0, <1>3, <2>1, <2>3, AdotaLinhas
    <2>4. CASE n = m
      <3>1. banco'[n].dia = FestaDia /\ banco'[n].corte = CorteDaFesta
        BY <1>0, <2>1, <2>2, <2>4, AdotaLinhas DEF FestaInv
      <3>2. QED
        BY <1>0, <1>4, <2>1, <2>4, <3>1
    <2>5. QED
      BY <2>3, <2>4
  <1>14. ASSUME NEW m \in {Provisorio} \cup Numeros, DeleteFestival(m) PROVE Certa(n)
    <2>1. CASE n # m
      BY <1>0, <1>3, <1>14, <2>1 DEF DeleteFestival, Bancos
    <2>2. CASE n = m
      BY <1>0, <1>14, <2>2 DEF DeleteFestival, Bancos, Nada, Linha
    <2>3. QED
      BY <2>1, <2>2
  <1>15. QED
    BY <1>5, <1>6, <1>7, <1>8, <1>9, <1>10, <1>11, <1>12, <1>13, <1>14 DEF MudaConcursos, Administra

\* If CAIXA draws at most one contest a day and the festival at the usual hour,
\* no pool of any contest is on sale after the draw it bets on.
THEOREM NothingSoldAfterDraw ==
  ASSUME FestaCedo = FALSE, UmPorDia
  PROVE  Spec => []NoSaleAfterDraw
  <1>1. IInv /\ DateInv => NoSaleAfterDraw
    <2> SUFFICES ASSUME IInv, DateInv, NEW b \in Boloes, Vendavel(b), NEW n \in Numeros,
                        \/ bolao[b].concurso = n
                        \/ bolao[b].concurso = Provisorio /\ banco[Provisorio].dia = calendario[n]
                 PROVE  agora < Sorteio(n)
      BY DEF NoSaleAfterDraw
    <2>1. /\ agora \in Nat /\ calendario[n] \in 0..Dias /\ banco \in Bancos /\ FestaInv
          /\ FestaDia \in Nat /\ Dias \in Nat
      BY TiposEmPartes, ConcursosAssumption DEF IInv, TypeOK
    <2>2. Sorteio(n) = 2 * calendario[n] + 1
      BY <2>1 DEF Sorteio, CorteDaFesta
    <2>3. /\ banco[bolao[b].concurso].status = "aberto"
          /\ banco[bolao[b].concurso].corte > agora
      BY DEF Vendavel, Disponivel, EmVenda, Concurso
    <2>4. CASE bolao[b].concurso = n
      <3>1. banco[n].corte <= 2 * calendario[n] + 1
        BY <2>3, <2>4 DEF DateInv, Existe, CorteDoDia
      <3>2. banco[n].corte \in Int
        BY <2>1 DEF Bancos, Linhas
      <3>3. QED
        BY <2>1, <2>2, <2>3, <2>4, <3>1, <3>2
    <2>5. CASE bolao[b].concurso = Provisorio /\ banco[Provisorio].dia = calendario[n]
      <3>1. banco[Provisorio].corte = 2 * calendario[n] + 1
        BY <2>1, <2>3, <2>5 DEF FestaInv, Existe, CorteDaFesta
      <3>2. QED
        BY <2>1, <2>2, <2>3, <2>5, <3>1
    <2>6. QED
      BY <2>4, <2>5
  <1>2. DateInv /\ IInv /\ [Next]_vars => DateInv'
    BY DateStep
  <1>3. QED
    BY SpecIInv, InitDateInv, <1>1, <1>2, PTL DEF Spec

-----------------------------------------------------------------------------
(* A pool is settled with the result of its contest *)

\* CAIXA drew the first contest before the beginning, as Init says.
PrimeiroSorteado == \A c \in Calendarios : c[1] = 0

\* What an answer speaks of has been drawn.
SorteioInv ==
    /\ \A n \in 1..caixa.numero : Sorteio(n) <= agora
    /\ \A p \in Processos : fase[p] \in {"grava", "apura"} => visto[p].numero \in 1..caixa.numero

\* Results are of contests that exist, and what the worker has read is of one of them.
ResultadoInv ==
    /\ ~banco[Provisorio].resultado
    /\ \A n \in Numeros : banco[n].resultado => Existe(n)
    /\ SettledWithResult
    /\ \A b \in lote : Concurso(b).resultado

\* Between the answer and the read of the pools the festival of the day is gone, and
\* the result is lost only if the contest has no pool any more.
ApuraInv ==
    fase["worker"] = "apura" =>
        LET n == visto["worker"].numero
        IN  ~Adotavel(banco, calendario[n]) /\ (banco[n].resultado \/ SemBoloes(n))

LEMMA TempoEFixos ==
  ASSUME TypeOK, [Next]_vars
  PROVE  /\ calendario' = calendario
         /\ \/ agora' = agora
            \/ agora' = agora + 1 /\ caixa' = caixa
         /\ \/ caixa'.numero = caixa.numero
            \/ caixa'.numero = caixa.numero + 1 /\ Sorteio(caixa.numero + 1) <= agora /\ agora' = agora
  <1>1. CASE Avanca
    BY <1>1 DEF Avanca
  <1>2. CASE Sorteia
    BY <1>2 DEF Sorteia
  <1>3. CASE PublicaDezenas
    BY <1>3 DEF PublicaDezenas, TypeOK, Resposta
  <1>4. ASSUME UNCHANGED fora
        PROVE  calendario' = calendario /\ agora' = agora /\ caixa' = caixa
    BY <1>4 DEF fora
  <1>5. CASE ~Avanca /\ ~Sorteia /\ ~PublicaDezenas
    <2>1. UNCHANGED fora
      BY <1>5 DEF vars, fora, Next, Passo, Inicia, ConsultaResponde, ConsultaFalha, Grava, Encerra, Cria, Apura, ApuraLe,
           ApuraBolao, ApuraFalha, Queda, VisitaSite, ImportaHistorico, Administra, CreateManual, CreateFestival,
           CreateFestivalComNumero, UpdateFestival, DeleteFestival, Bolao, Create, Duplicate, Publish, Close, Register, RegisterNoPainel,
           Cancel, RemoveUnused, Vende, Desfaz, MudaBolao
    <2>2. QED
      BY <1>4, <2>1
  <1>6. QED
    BY <1>1, <1>2, <1>3, <1>5

\* An answer is asked of CAIXA, then written, then settled.
LEMMA Respostas ==
  ASSUME TypeOK, [Next]_vars, NEW p \in Processos, fase'[p] \in {"grava", "apura"}
  PROVE  \/ ConsultaResponde(p)
         \/ fase[p] \in {"grava", "apura"} /\ visto'[p] = visto[p]
  <1>0. fase \in [Processos -> Fases] /\ visto \in [Processos -> Resposta \cup {SemResposta}] /\ "worker" \in Processos
    BY DEF TypeOK, Processos
  <1>1. ASSUME UNCHANGED <<fase, visto>> PROVE fase[p] \in {"grava", "apura"} /\ visto'[p] = visto[p]
    BY <1>1
  <1>2. ASSUME NEW q \in Processos, Termina(q) PROVE fase[p] \in {"grava", "apura"} /\ visto'[p] = visto[p]
    BY <1>0, <1>2 DEF Termina
  <1>3. CASE UNCHANGED vars
    BY <1>1, <1>3 DEF vars, procs
  <1>4. CASE \/ Avanca \/ Sorteia \/ PublicaDezenas \/ Administra
             \/ \E n \in Numeros : ImportaHistorico(n)
             \/ \E b \in Boloes : Bolao(b)
    <2>1. UNCHANGED procs
      BY <1>4 DEF Avanca, Sorteia, PublicaDezenas, ImportaHistorico, Administra, CreateManual, CreateFestival,
           CreateFestivalComNumero, UpdateFestival, DeleteFestival, Bolao, Create, Duplicate, Publish, Close, Register, RegisterNoPainel,
           Cancel, RemoveUnused, Vende, Desfaz, MudaBolao
    <2>2. QED
      BY <1>1, <2>1 DEF procs
  <1>5. ASSUME NEW q \in Processos, Inicia(q) \/ Encerra(q) \/ Cria(q)
        PROVE  fase[p] \in {"grava", "apura"} /\ visto'[p] = visto[p]
    BY <1>0, <1>5 DEF Inicia, Encerra, Cria
  <1>6. ASSUME NEW q \in Processos, ConsultaResponde(q), q # p
        PROVE  fase[p] \in {"grava", "apura"} /\ visto'[p] = visto[p]
    BY <1>0, <1>6 DEF ConsultaResponde
  <1>7. ASSUME NEW q \in Processos, ConsultaFalha(q) PROVE fase[p] \in {"grava", "apura"} /\ visto'[p] = visto[p]
    BY <1>2, <1>7 DEF ConsultaFalha
  <1>8. ASSUME NEW q \in Processos, Grava(q) PROVE fase[p] \in {"grava", "apura"} /\ visto'[p] = visto[p]
    <2>1. CASE Termina(q)
      BY <1>2, <2>1
    <2>2. CASE fase' = [fase EXCEPT ![q] = "apura"] /\ UNCHANGED visto
      BY <1>0, <1>8, <2>2 DEF Grava
    <2>3. QED
      BY <1>8, <2>1, <2>2 DEF Grava
  <1>9. CASE ApuraLe \/ ApuraFalha \/ \E b \in Boloes : ApuraBolao(b)
    <2>1. Termina("worker") \/ UNCHANGED <<fase, visto>>
      BY <1>9 DEF ApuraLe, ApuraFalha, ApuraBolao
    <2>2. QED
      BY <1>0, <1>1, <1>2, <2>1
  <1>10. ASSUME NEW juntos, Queda(juntos) PROVE fase[p] \in {"grava", "apura"} /\ visto'[p] = visto[p]
    BY <1>10 DEF Queda
  <1>11. CASE VisitaSite
    BY <1>0, <1>11 DEF VisitaSite
  <1>12. QED
    BY <1>3, <1>4, <1>5, <1>6, <1>7, <1>8, <1>9, <1>10, <1>11 DEF Next, Passo, Apura

LEMMA SorteioStep ==
  ASSUME IInv, SorteioInv, [Next]_vars
  PROVE  SorteioInv'
  <1>0. /\ TypeOK /\ agora \in Nat /\ caixa \in Resposta /\ caixa.numero \in Nat /\ caixa.numero < Ultimo
        /\ \A n \in 1..Ultimo : Sorteio(n) \in Int
    <2>1. TypeOK /\ agora \in Nat /\ caixa \in Resposta /\ calendario \in [Numeros -> 0..Dias]
      BY DEF IInv, TypeOK
    <2>2. caixa.numero \in Nat /\ caixa.numero < Ultimo
      BY <2>1 DEF IInv, ProcInv, Resposta, Numeros
    <2>3. CorteDaFesta \in Int
      BY ConcursosAssumption DEF CorteDaFesta
    <2>4. \A n \in 1..Ultimo : Sorteio(n) \in Int
      <3>1. \A n \in 1..Ultimo : calendario[n] \in Int
        BY <2>1, ConcursosAssumption DEF Numeros
      <3>2. QED
        BY <2>3, <3>1 DEF Sorteio
    <2>5. QED
      BY <2>1, <2>2, <2>4
  <1>1. /\ calendario' = calendario
        /\ agora' = agora \/ (agora' = agora + 1 /\ caixa' = caixa)
        /\ \/ caixa'.numero = caixa.numero
           \/ caixa'.numero = caixa.numero + 1 /\ Sorteio(caixa.numero + 1) <= agora /\ agora' = agora
    BY <1>0, TempoEFixos
  <1>2. \A n : Sorteio(n)' = Sorteio(n)
    BY <1>1 DEF Sorteio
  <1>3. caixa.numero <= caixa'.numero /\ caixa'.numero \in Nat
    BY <1>0, <1>1
  <1>4. \A n \in 1..caixa'.numero : Sorteio(n)' <= agora'
    <2>1. SUFFICES ASSUME NEW n \in 1..caixa'.numero PROVE Sorteio(n) <= agora'
      BY <1>2
    <2>2. CASE n \in 1..caixa.numero
      <3>1. Sorteio(n) <= agora
        BY <2>2 DEF SorteioInv
      <3>2. n \in 1..Ultimo
        BY <1>0, <2>2, ConcursosAssumption
      <3>3. QED
        BY <1>0, <1>1, <3>1, <3>2
    <2>3. CASE n \notin 1..caixa.numero
      BY <1>0, <1>1, <2>1, <2>3
    <2>4. QED
      BY <2>2, <2>3
  <1>5. ASSUME NEW p \in Processos, fase'[p] \in {"grava", "apura"} PROVE visto'[p].numero \in 1..caixa'.numero
    <2>1. CASE ConsultaResponde(p)
      <3>1. visto'[p] \in {caixa} \cup {[numero |-> caixa.numero - k, dezenas |-> TRUE] :
                                           k \in {j \in 1..MaxAtraso : j < caixa.numero}}
        BY <1>0, <2>1 DEF ConsultaResponde, TypeOK
      <3>2. caixa' = caixa /\ caixa.numero \in 1..caixa.numero
        BY <1>0, <2>1 DEF ConsultaResponde, fora, Resposta, Numeros
      <3>3. \A k \in {j \in 1..MaxAtraso : j < caixa.numero} : caixa.numero - k \in 1..caixa.numero
        BY <1>0, ConcursosAssumption
      <3>4. visto'[p].numero \in 1..caixa.numero
        BY <3>1, <3>2, <3>3
      <3>5. QED
        BY <3>2, <3>4
    <2>2. CASE fase[p] \in {"grava", "apura"} /\ visto'[p] = visto[p]
      <3>1. visto'[p].numero \in 1..caixa.numero
        BY <2>2 DEF SorteioInv
      <3>2. QED
        BY <1>0, <1>3, <3>1
    <2>3. QED
      BY <1>0, <1>5, <2>1, <2>2, Respostas
  <1>6. QED
    BY <1>4, <1>5 DEF SorteioInv

-----------------------------------------------------------------------------
(* The results in the table of contests *)

LEMMA VencidosResultado ==
  ASSUME NEW b \in Bancos, NEW n \in {Provisorio} \cup Numeros
  PROVE  Vencidos(b)[n].resultado = b[n].resultado
  BY DEF Vencidos, Bancos, Linhas

\* Adoption takes no result away and makes none up.
LEMMA AdotaResultado ==
  ASSUME NEW b \in Bancos, NEW n \in Numeros, NEW d, ~b[Provisorio].resultado,
         \A m \in Numeros : b[m].resultado => b[m].status # "ausente"
  PROVE  /\ ~Adota(b, n, d)[Provisorio].resultado
         /\ \A m \in Numeros : Adota(b, n, d)[m].resultado = b[m].resultado
         /\ \A m \in Numeros : Adota(b, n, d)[m].resultado => Adota(b, n, d)[m].status # "ausente"
  <1>1. n # Provisorio /\ Provisorio \notin Numeros
    BY ConcursosAssumption DEF Numeros, Provisorio
  <1>2. CASE ~Adotavel(b, d)
    BY <1>2 DEF Adota
  <1>3. CASE Adotavel(b, d)
    <2> DEFINE oficial == IF b[n].status = "ausente" THEN b[Provisorio]
                          ELSE [b[n] EXCEPT !.especial = TRUE, !.dia = b[Provisorio].dia,
                                            !.corte = b[Provisorio].corte]
    <2>1. Adota(b, n, d) = [b EXCEPT ![n] = oficial, ![Provisorio] = Nada]
      BY <1>3 DEF Adota
    <2>2. b[n] \in Linhas /\ b[Provisorio] \in Linhas
      BY DEF Bancos
    <2>3. oficial.status # "ausente" /\ oficial.resultado = b[n].resultado
      <3>1. CASE b[n].status = "ausente"
        <4>1. b[n].resultado = FALSE /\ b[Provisorio].resultado = FALSE
          BY <2>2, <3>1 DEF Linhas
        <4>2. QED
          BY <1>3, <3>1, <4>1 DEF Adotavel
      <3>2. CASE b[n].status # "ausente"
        BY <2>2, <3>2 DEF Linhas
      <3>3. QED
        BY <3>1, <3>2
    <2> HIDE DEF oficial
    <2>4. /\ Adota(b, n, d)[n] = oficial
          /\ Adota(b, n, d)[Provisorio] = Nada
          /\ \A m \in Numeros \ {n} : Adota(b, n, d)[m] = b[m]
      BY <1>1, <2>1 DEF Bancos
    <2>5. ~Nada.resultado
      BY DEF Nada, Linha
    <2>6. QED
      BY <2>3, <2>4, <2>5
  <1>4. QED
    BY <1>2, <1>3

\* What an answer leaves of the results: none is lost, and the festival of the day is gone.
LEMMA GravaResultado ==
  ASSUME IInv, ResultadoInv, NEW p \in Processos, Grava(p), NEW n, n = visto[p].numero
  PROVE  /\ ~banco'[Provisorio].resultado
         /\ \A m \in Numeros : banco[m].resultado => banco'[m].resultado
         /\ \A m \in Numeros : banco'[m].resultado => banco'[m].status # "ausente"
         /\ visto[p].dezenas => banco'[n].resultado
         /\ ~Adotavel(banco', calendario[n])
  <1> DEFINE d == calendario[n]
             dProximo == calendario[n + 1]
             comAtual == Adota(banco, n, d)
             comProximo == Adota(comAtual, n + 1, dProximo)
             sorteada == LinhaSorteada(comProximo[n], d, visto[p].dezenas)
             proxima == LinhaProxima(p, comProximo[n + 1], dProximo)
  <1>1. visto[p] \in Resposta /\ n < Ultimo
    BY DEF IInv, ProcInv, Grava
  <1>2. n \in Numeros /\ n + 1 \in Numeros /\ n # Provisorio /\ n + 1 # Provisorio /\ n # n + 1 /\ Provisorio \notin Numeros
    BY <1>1, ConcursosAssumption DEF Resposta, Numeros, Provisorio
  <1>3. d \in 0..Dias /\ dProximo \in 0..Dias /\ visto[p].dezenas \in BOOLEAN /\ banco \in Bancos
    BY <1>1, <1>2 DEF IInv, TypeOK, Resposta, Bancos, Linhas
  <1>4. comAtual \in Bancos /\ comProximo \in Bancos
    BY <1>2, <1>3, TipoAdota
  <1>5. comProximo[n] \in Linhas /\ comProximo[n + 1] \in Linhas
    BY <1>2, <1>4 DEF Bancos
  <1>6. sorteada \in Linhas /\ proxima \in Linhas
    BY <1>3, <1>5, TipoDaResposta
  <1>7. banco' = [comProximo EXCEPT ![n] = sorteada, ![n + 1] = proxima]
    <2> HIDE DEF sorteada, proxima
    <2>1. banco' = [comProximo EXCEPT ![n] = LinhaSorteada(@, d, visto[p].dezenas),
                                      ![n + 1] = LinhaProxima(p, @, dProximo)]
      BY DEF Grava
    <2>2. QED
      BY <1>2, <2>1 DEF sorteada, proxima
  <1>8. /\ banco'[n] = sorteada /\ banco'[n + 1] = proxima
        /\ \A m \in ({Provisorio} \cup Numeros) \ {n, n + 1} : banco'[m] = comProximo[m]
    <2> HIDE DEF sorteada, proxima, comProximo
    <2>1. QED
      BY <1>2, <1>4, <1>7 DEF Bancos
  <1>9. /\ ~comAtual[Provisorio].resultado
        /\ \A m \in Numeros : comAtual[m].resultado = banco[m].resultado
        /\ \A m \in Numeros : comAtual[m].resultado => comAtual[m].status # "ausente"
    BY <1>2, <1>3, AdotaResultado DEF ResultadoInv, Existe
  <1>10. /\ ~comProximo[Provisorio].resultado
         /\ \A m \in Numeros : comProximo[m].resultado = comAtual[m].resultado
         /\ \A m \in Numeros : comProximo[m].resultado => comProximo[m].status # "ausente"
    <2> HIDE DEF comAtual
    <2>1. QED
      BY <1>2, <1>4, <1>9, AdotaResultado
  <1>11. ~Adotavel(comProximo, d)
    <2>1. ~Adotavel(comAtual, d)
      <3>1. CASE Adotavel(banco, d)
        <4>1. comAtual[Provisorio] = Nada
          BY <1>2, <1>3, <3>1, AdotaLinhas
        <4>2. QED
          BY <4>1 DEF Adotavel, Nada, Linha
      <3>2. CASE ~Adotavel(banco, d)
        <4>1. comAtual = banco
          BY <3>2 DEF Adota
        <4>2. QED
          BY <3>2, <4>1
      <3>3. QED
        BY <3>1, <3>2
    <2> HIDE DEF comAtual
    <2>2. comProximo[Provisorio] \in {Nada, comAtual[Provisorio]}
      BY <1>2, <1>4, AdotaLinhas
    <2>3. Nada.status = "ausente"
      BY DEF Nada, Linha
    <2> HIDE DEF comProximo
    <2>4. QED
      BY <2>1, <2>2, <2>3 DEF Adotavel
  <1>12. /\ sorteada.status # "ausente" /\ sorteada.resultado = (comProximo[n].resultado \/ visto[p].dezenas)
    <2> HIDE DEF comProximo
    <2>1. QED
      BY <1>3, <1>5 DEF LinhaSorteada, Linhas
  <1>13. proxima.status # "ausente" /\ (comProximo[n + 1].resultado => proxima.resultado)
    <2>1. comProximo[n + 1].resultado => comProximo[n + 1].status # "ausente"
      BY <1>2, <1>10
    <2> HIDE DEF comProximo
    <2>2. proxima.status # "ausente"
      BY <1>5 DEF LinhaProxima, Linha, Linhas
    <2>3. ASSUME comProximo[n + 1].resultado PROVE proxima.resultado
      BY <1>5, <2>1, <2>3 DEF LinhaProxima, Linhas
    <2>4. QED
      BY <2>2, <2>3
  <1> HIDE DEF comAtual, comProximo, sorteada, proxima
  <1>14. banco'[Provisorio] = comProximo[Provisorio]
    BY <1>2, <1>8
  <1>15. ASSUME NEW m \in Numeros
         PROVE  /\ banco[m].resultado => banco'[m].resultado
                /\ banco'[m].resultado => banco'[m].status # "ausente"
    <2>1. CASE m \in {n, n + 1}
      BY <1>2, <1>8, <1>9, <1>10, <1>12, <1>13, <2>1
    <2>2. CASE m \notin {n, n + 1}
      BY <1>8, <1>9, <1>10, <2>2
    <2>3. QED
      BY <2>1, <2>2
  <1>16. visto[p].dezenas => banco'[n].resultado
    BY <1>8, <1>12
  <1>17. ~Adotavel(banco', d)
    BY <1>11, <1>14 DEF Adotavel
  <1>18. QED
    BY <1>10, <1>14, <1>15, <1>16, <1>17

\* A step loses no result, unless it removes a festival that has no pool.
LEMMA ResultadosFicam ==
  ASSUME IInv, ResultadoInv, [Next]_vars
  PROVE  /\ ~banco'[Provisorio].resultado
         /\ \A n \in Numeros : banco'[n].resultado => banco'[n].status # "ausente"
         /\ \A n \in Numeros : banco[n].resultado => banco'[n].resultado \/ (SemBoloes(n) /\ bolao' = bolao)
  <1> DEFINE Bem == /\ ~banco'[Provisorio].resultado
                    /\ \A n \in Numeros : banco'[n].resultado => banco'[n].status # "ausente"
                    /\ \A n \in Numeros : banco[n].resultado => banco'[n].resultado \/ (SemBoloes(n) /\ bolao' = bolao)
  <1>0. /\ TypeOK /\ banco \in Bancos /\ Provisorio \notin Numeros /\ Provisorio \in {Provisorio} \cup Numeros
        /\ ~banco[Provisorio].resultado
        /\ \A n \in Numeros : banco[n].resultado => banco[n].status # "ausente"
        /\ \A n \in Numeros : n \in {Provisorio} \cup Numeros /\ n # Provisorio
    BY TiposEmPartes DEF IInv, ResultadoInv, Existe, Numeros, Provisorio
  <1>1. ASSUME NEW m \in {Provisorio} \cup Numeros, NEW x \in Linhas, banco' = [banco EXCEPT ![m] = x],
               banco[m].resultado => x.resultado, x.resultado => x.status # "ausente" /\ m # Provisorio
        PROVE  Bem
    <2>1. /\ \A n \in {Provisorio} \cup Numeros : n # m => banco'[n] = banco[n]
          /\ banco'[m] = x
      BY <1>0, <1>1 DEF Bancos
    <2>2. QED
      BY <1>0, <1>1, <2>1
  <1>2. CASE ~MudaConcursos
    <2>1. banco' = banco
      BY <1>2, OutrosPassos
    <2>2. QED
      BY <1>0, <2>1
  <1>3. ASSUME NEW p \in Processos, Inicia(p) \/ Encerra(p) PROVE Bem
    <2>1. banco' = Vencidos(banco)
      BY <1>3 DEF Inicia, Encerra
    <2>2. \A n \in {Provisorio} \cup Numeros : /\ banco'[n].resultado = banco[n].resultado
                                               /\ banco'[n].status = "ausente" <=> banco[n].status = "ausente"
      BY <1>0, <2>1, VencidosResultado, VencidosLinhas
    <2>3. QED
      BY <1>0, <2>2
  <1>4. ASSUME NEW p \in Processos, Grava(p) PROVE Bem
    <2>1. QED
      BY <1>4, GravaResultado
  <1>5. ASSUME NEW p \in Processos, Cria(p) PROVE Bem
    <2> DEFINE m == MaisRecente
               d == ProximoDia(banco[m].dia)
    <2>1. CASE ~PodePrever
      BY <1>0, <1>5, <2>1 DEF Cria
    <2>2. CASE PodePrever
      <3>1. m + 1 \in Numeros /\ Linha("aberto", d, CorteDoDia(d)) \in Linhas
        BY <1>0, <2>2, CriaLinha
      <3>2. banco' = [banco EXCEPT ![m + 1] = Linha("aberto", d, CorteDoDia(d))]
        BY <1>5, <2>2 DEF Cria
      <3>3. ~banco[m + 1].resultado
        BY <1>0, <2>2, <3>1 DEF PodePrever, Existe
      <3> HIDE DEF m
      <3>4. Linha("aberto", d, CorteDoDia(d)).resultado = FALSE
        BY DEF Linha
      <3> HIDE DEF d
      <3>5. QED
        BY <1>0, <1>1, <3>1, <3>2, <3>3, <3>4
    <2>3. QED
      BY <2>1, <2>2
  <1>6. ASSUME NEW m \in Numeros, ImportaHistorico(m) PROVE Bem
    <2> DEFINE linha == IF Existe(m) THEN banco[m] ELSE Linha("apurado", calendario[m], CorteDoDia(calendario[m]))
               x == [linha EXCEPT !.status = "apurado", !.resultado = TRUE]
    <2>1. linha \in Linhas
      <3>1. "apurado" \in StatusConcurso /\ calendario[m] \in 0..Dias
        BY <1>0 DEF StatusConcurso, TypeOK
      <3>2. QED
        BY <1>0, <3>1, TiposDasLinhas DEF Bancos
    <2>2. banco' = [banco EXCEPT ![m] = x]
      BY <1>6 DEF ImportaHistorico
    <2> HIDE DEF linha
    <2>3. x \in Linhas /\ x.status = "apurado" /\ x.resultado
      BY <2>1 DEF Linhas, StatusConcurso
    <2> HIDE DEF x
    <2>4. QED
      BY <1>0, <1>1, <2>2, <2>3
  <1>7. ASSUME NEW m \in Numeros, CreateManual(m) PROVE Bem
    <2> DEFINE x == Linha("aberto", calendario[m], CorteDoDia(calendario[m]))
    <2>1. x \in Linhas /\ x.resultado = FALSE
      <3>1. "aberto" \in StatusConcurso /\ calendario[m] \in 0..Dias
        BY <1>0 DEF StatusConcurso, TypeOK
      <3>2. QED
        BY <3>1, TiposDasLinhas DEF Linha
    <2>2. banco' = [banco EXCEPT ![m] = x] /\ ~banco[m].resultado
      BY <1>0, <1>7 DEF CreateManual, Existe
    <2> HIDE DEF x
    <2>3. QED
      BY <1>0, <1>1, <2>1, <2>2
  <1>8. CASE CreateFestival
    <2>1. LinhaDaFesta \in Linhas /\ LinhaDaFesta.resultado = FALSE
      BY TiposDasLinhas DEF LinhaDaFesta, Linha
    <2>2. banco' = [banco EXCEPT ![Provisorio] = LinhaDaFesta]
      BY <1>8 DEF CreateFestival
    <2>3. QED
      BY <1>0, <1>1, <2>1, <2>2
  <1>9. ASSUME NEW m \in Numeros, CreateFestivalComNumero(m) PROVE Bem
    <2> DEFINE x == IF Existe(m) THEN [banco[m] EXCEPT !.especial = TRUE] ELSE LinhaDaFesta
    <2>1. banco' = [banco EXCEPT ![m] = x]
      BY <1>9 DEF CreateFestivalComNumero
    <2>2. CASE Existe(m)
      <3>1. x \in Linhas /\ x.status # "ausente" /\ x.resultado = banco[m].resultado
        BY <1>0, <2>2 DEF Existe, Bancos, Linhas
      <3> HIDE DEF x
      <3>2. QED
        BY <1>0, <1>1, <2>1, <3>1
    <2>3. CASE ~Existe(m)
      <3>1. x \in Linhas /\ x.resultado = FALSE /\ ~banco[m].resultado
        BY <1>0, <2>3, TiposDasLinhas DEF LinhaDaFesta, Linha, Existe
      <3> HIDE DEF x
      <3>2. QED
        BY <1>0, <1>1, <2>1, <3>1
    <2>4. QED
      BY <2>2, <2>3
  <1>10. ASSUME NEW m \in Numeros, UpdateFestival(m) PROVE Bem
    <2>1. banco' = Adota(banco, m, banco[Provisorio].dia)
      BY <1>10 DEF UpdateFestival
    <2>2. QED
      BY <1>0, <2>1, AdotaResultado
  <1>11. ASSUME NEW m \in {Provisorio} \cup Numeros, DeleteFestival(m) PROVE Bem
    <2>1. /\ \A n \in {Provisorio} \cup Numeros : n # m => banco'[n] = banco[n]
          /\ banco'[m] = Nada /\ ~Nada.resultado
          /\ SemBoloes(m) /\ bolao' = bolao
      BY <1>0, <1>11 DEF DeleteFestival, Bancos, Nada, Linha
    <2>2. QED
      BY <1>0, <2>1
  <1>12. QED
    BY <1>2, <1>3, <1>4, <1>5, <1>6, <1>7, <1>8, <1>9, <1>10, <1>11 DEF MudaConcursos, Administra

-----------------------------------------------------------------------------
(* The pools that are settled *)

\* A pool is settled by the worker; a new one is created, or copied.
LEMMA PassosDoStatus ==
  ASSUME IInv, [Next]_vars, NEW b \in Boloes
  PROVE  /\ bolao'[b].status = "apurado" => bolao[b].status = "apurado" \/ b \in lote
         /\ bolao[b].status = "nenhum" /\ bolao'[b].status # "nenhum"
              => \/ \E n \in {Provisorio} \cup Numeros : Create(b, n)
                 \/ \E de \in Boloes : Duplicate(b, de)
  <1> DEFINE Certo == /\ bolao'[b].status = "apurado" => bolao[b].status = "apurado" \/ b \in lote
                      /\ bolao[b].status = "nenhum" /\ bolao'[b].status # "nenhum"
                           => \/ \E n \in {Provisorio} \cup Numeros : Create(b, n)
                              \/ \E de \in Boloes : Duplicate(b, de)
  <1>0. bolao \in Vinculos /\ LoteInv /\ lote \subseteq Boloes
    BY TiposEmPartes DEF IInv
  <1>1. ASSUME bolao'[b].status = bolao[b].status PROVE Certo
    BY <1>1
  <1>2. CASE UNCHANGED vars
    BY <1>1, <1>2 DEF vars
  <1>3. CASE \/ Avanca \/ Sorteia \/ PublicaDezenas \/ VisitaSite \/ ApuraLe \/ ApuraFalha \/ CreateFestival
             \/ \E n \in Numeros : ImportaHistorico(n) \/ CreateManual(n) \/ CreateFestivalComNumero(n)
             \/ \E n \in {Provisorio} \cup Numeros : DeleteFestival(n)
    BY <1>1, <1>3 DEF Avanca, Sorteia, PublicaDezenas, VisitaSite, ApuraLe, ApuraFalha, CreateFestival, ImportaHistorico,
       CreateManual, CreateFestivalComNumero, DeleteFestival
  <1>4. ASSUME NEW p \in Processos, Inicia(p) \/ ConsultaResponde(p) \/ ConsultaFalha(p) \/ Encerra(p) \/ Cria(p)
        PROVE  Certo
    BY <1>1, <1>4 DEF Inicia, ConsultaResponde, ConsultaFalha, Encerra, Cria
  <1>5. ASSUME NEW juntos, Queda(juntos) PROVE Certo
    BY <1>1, <1>5 DEF Queda
  <1>6. \A n \in Numeros : Migra(TRUE, n)[b].status = bolao[b].status
    BY <1>0 DEF Migra, Vinculos
  <1>7. ASSUME NEW p \in Processos, Grava(p) PROVE Certo
    <2>1. bolao' = bolao \/ \E n \in Numeros : bolao' = Migra(TRUE, n)
      BY <1>7, GravaLinhas, ZenonT(60)
    <2>2. QED
      BY <1>1, <1>6, <2>1
  <1>8. ASSUME NEW n \in Numeros, UpdateFestival(n) PROVE Certo
    BY <1>1, <1>6, <1>8 DEF UpdateFestival
  <1>9. ASSUME NEW x \in Boloes, ApuraBolao(x) PROVE Certo
    <2>1. CASE b = x
      <3>1. b \in lote /\ bolao[b].status = "registrado"
        BY <1>0, <1>9, <2>1 DEF ApuraBolao, LoteInv
      <3>2. QED
        BY <3>1
    <2>2. CASE b # x
      BY <1>0, <1>1, <1>9, <2>2 DEF ApuraBolao
    <2>3. QED
      BY <2>1, <2>2
  <1>10. ASSUME NEW x \in Boloes, Bolao(x) PROVE Certo
    <2>1. CASE b # x
      <3>1. bolao'[b] = bolao[b]
        BY <1>0, <1>10, <2>1
        DEF Vinculos, Bolao, Create, Duplicate, Publish, Close, Register, RegisterNoPainel, Cancel, RemoveUnused, Vende, Desfaz, MudaBolao
      <3>2. QED
        BY <1>1, <3>1
    <2>2. CASE b = x
      <3>1. ASSUME NEW n \in {Provisorio} \cup Numeros, Create(b, n) PROVE Certo
        BY <1>0, <3>1 DEF Create, Vinculos
      <3>2. ASSUME NEW de \in Boloes, Duplicate(b, de) PROVE Certo
        BY <1>0, <3>2 DEF Duplicate, Vinculos
      <3>3. CASE Publish(b) \/ Close(b) \/ Register(b) \/ RegisterNoPainel(b) \/ Cancel(b) \/ RemoveUnused(b)
        BY <1>0, <3>3 DEF Publish, Close, Register, RegisterNoPainel, Cancel, RemoveUnused, SemBolao, MudaBolao, Vinculos
      <3>4. CASE Vende(b) \/ Desfaz(b)
        BY <1>0, <1>1, <3>4 DEF Vende, Desfaz, Vinculos
      <3>5. QED
        BY <1>10, <2>2, <3>1, <3>2, <3>3, <3>4 DEF Bolao
    <2>3. QED
      BY <2>1, <2>2
  <1>11. QED
    BY <1>2, <1>3, <1>4, <1>5, <1>7, <1>8, <1>9, <1>10 DEF Next, Passo, Apura, Administra

LEMMA PassosDoLote ==
  ASSUME [Next]_vars
  PROVE  lote' \subseteq lote \/ ApuraLe
  BY DEF vars, procs, Next, Passo, Inicia, ConsultaResponde, ConsultaFalha, Grava, Encerra, Cria, Apura, ApuraBolao,
         ApuraFalha, Queda, Avanca, Sorteia, PublicaDezenas, VisitaSite, ImportaHistorico, Administra, CreateManual,
         CreateFestival, CreateFestivalComNumero, UpdateFestival, DeleteFestival, Bolao, Create, Duplicate, Publish,
         Close, Register, RegisterNoPainel, Cancel, RemoveUnused, Vende, Desfaz, MudaBolao

\* A pool whose contest has its result stays there, and the result too.
LEMMA ComResultadoFica ==
  ASSUME IInv, ResultadoInv, [Next]_vars, NEW b \in Boloes, bolao[b].status # "nenhum",
         Concurso(b).resultado, bolao'[b].status # "nenhum"
  PROVE  banco'[bolao'[b].concurso].resultado
  <1> DEFINE n == bolao[b].concurso
  <1>1. n \in Numeros
    <2>1. n \in {Provisorio} \cup Numeros
      BY TiposEmPartes DEF IInv, Vinculos
    <2>2. n # Provisorio
      BY DEF ResultadoInv, Concurso
    <2>3. QED
      BY <2>1, <2>2
  <1>2. Provisorio \notin Numeros
    BY DEF Numeros, Provisorio
  <1>3. bolao'[b].concurso = n
    BY <1>1, <1>2, PassosDoBolao
  <1>4. ~SemBoloes(n)
    BY DEF SemBoloes
  <1>5. banco[n].resultado
    BY DEF Concurso
  <1> HIDE DEF n
  <1>6. QED
    BY <1>1, <1>3, <1>4, <1>5, ResultadosFicam

LEMMA ResultadoStep ==
  ASSUME IInv, ResultadoInv, ApuraInv, [Next]_vars
  PROVE  ResultadoInv'
  <1>0. bolao \in Vinculos /\ LoteInv /\ lote \subseteq Boloes
    BY TiposEmPartes DEF IInv
  <1>1. \A b \in lote : b \in Boloes /\ bolao[b].status = "registrado" /\ Concurso(b).resultado
    BY <1>0 DEF LoteInv, ResultadoInv
  <1>2. ASSUME NEW b \in Boloes, bolao'[b].status = "apurado" PROVE banco'[bolao'[b].concurso].resultado
    <2>1. bolao[b].status = "apurado" \/ b \in lote
      BY <1>2, PassosDoStatus
    <2>2. bolao[b].status # "nenhum" /\ Concurso(b).resultado
      BY <1>1, <2>1 DEF ResultadoInv, SettledWithResult
    <2>3. QED
      BY <1>2, <2>2, ComResultadoFica
  <1>3. ASSUME NEW b \in lote' PROVE banco'[bolao'[b].concurso].resultado
    <2>1. CASE b \in lote
      <3>1. bolao'[b].status = "registrado" /\ b \in Boloes
        BY <1>1, <1>3, <2>1, LoteStep DEF LoteInv
      <3>2. QED
        BY <1>1, <2>1, <3>1, ComResultadoFica
    <2>2. CASE ApuraLe
      <3>1. b \in Boloes /\ bolao[b].concurso = visto["worker"].numero /\ bolao[b].status = "registrado"
        BY <1>3, <2>2 DEF ApuraLe
      <3>2. banco[visto["worker"].numero].resultado
        BY <2>2, <3>1 DEF ApuraLe, ApuraInv, SemBoloes
      <3>3. UNCHANGED <<banco, bolao>>
        BY <2>2 DEF ApuraLe
      <3>4. QED
        BY <3>1, <3>2, <3>3
    <2>3. QED
      BY <1>3, <2>1, <2>2, PassosDoLote
  <1>4. ~banco'[Provisorio].resultado /\ \A n \in Numeros : banco'[n].resultado => banco'[n].status # "ausente"
    BY ResultadosFicam
  <1>5. QED
    BY <1>2, <1>3, <1>4 DEF ResultadoInv, SettledWithResult, Concurso, Existe

-----------------------------------------------------------------------------
(* Between the answer and the read of the pools *)

\* The festival of a day comes back only before its draw.
LEMMA FestaNaoVolta ==
  ASSUME IInv, [Next]_vars, NEW d \in 0..Dias, ~Adotavel(banco, d)
  PROVE  Adotavel(banco', d) => CreateFestival /\ d = FestaDia /\ CorteDaFesta > agora
  <1>0. /\ TypeOK /\ banco \in Bancos
        /\ Provisorio \in {Provisorio} \cup Numeros
        /\ Provisorio \notin Numeros
    BY TiposEmPartes DEF IInv, Numeros, Provisorio
  <1>1. ASSUME banco'[Provisorio] = banco[Provisorio] \/ banco'[Provisorio] = Nada PROVE ~Adotavel(banco', d)
    BY <1>1 DEF Adotavel, Nada, Linha
  <1>2. CASE ~MudaConcursos
    BY <1>1, <1>2, OutrosPassos
  <1>3. ASSUME NEW p \in Processos, Inicia(p) \/ Encerra(p) PROVE ~Adotavel(banco', d)
    <2>1. banco' = Vencidos(banco)
      BY <1>3 DEF Inicia, Encerra
    <2>2. QED
      BY <1>0, <2>1, VencidosLinhas DEF Adotavel
  <1>4. ASSUME NEW p \in Processos, Grava(p) PROVE ~Adotavel(banco', d)
    BY <1>1, <1>4, GravaLinhas
  <1>5. ASSUME NEW p \in Processos, Cria(p) PROVE ~Adotavel(banco', d)
    <2>1. CASE ~PodePrever
      BY <1>1, <1>5, <2>1 DEF Cria
    <2>2. CASE PodePrever
      <3>1. MaisRecente + 1 # Provisorio
        BY <1>0, <2>2, CriaLinha
      <3>2. QED
        BY <1>0, <1>1, <1>5, <3>1 DEF Cria, Bancos
    <2>3. QED
      BY <2>1, <2>2
  <1>6. ASSUME NEW n \in Numeros, ImportaHistorico(n) \/ CreateManual(n) \/ CreateFestivalComNumero(n)
        PROVE  ~Adotavel(banco', d)
    <2>1. banco'[Provisorio] = banco[Provisorio]
      BY <1>0, <1>6 DEF ImportaHistorico, CreateManual, CreateFestivalComNumero, Bancos
    <2>2. QED
      BY <1>1, <2>1
  <1>7. CASE CreateFestival
    <2>1. banco'[Provisorio] = LinhaDaFesta /\ CorteDaFesta > agora
      BY <1>0, <1>7 DEF CreateFestival, Bancos
    <2>2. QED
      BY <1>7, <2>1 DEF Adotavel, LinhaDaFesta, Linha
  <1>8. ASSUME NEW n \in Numeros, UpdateFestival(n) PROVE ~Adotavel(banco', d)
    BY <1>0, <1>1, <1>8, AdotaLinhas DEF UpdateFestival
  <1>9. ASSUME NEW n \in {Provisorio} \cup Numeros, DeleteFestival(n) PROVE ~Adotavel(banco', d)
    <2>1. banco'[Provisorio] = banco[Provisorio] \/ banco'[Provisorio] = Nada
      BY <1>0, <1>9 DEF DeleteFestival, Bancos
    <2>2. QED
      BY <1>1, <2>1
  <1>10. QED
    BY <1>2, <1>3, <1>4, <1>5, <1>6, <1>7, <1>8, <1>9 DEF MudaConcursos, Administra

\* No pool comes to a contest without pools that has been drawn, once its festival is gone.
LEMMA NinguemChega ==
  ASSUME FestaCedo = FALSE, IInv, DateInv, [Next]_vars, NEW n \in Numeros, Sorteio(n) <= agora,
         ~Adotavel(banco, calendario[n]), SemBoloes(n)
  PROVE  SemBoloes(n)'
  <1>0. /\ bolao \in Vinculos /\ PoolHasContest /\ banco \in Bancos /\ agora \in Nat
        /\ calendario[n] \in 0..Dias /\ Dias \in Nat /\ FestaDia \in Nat
    BY TiposEmPartes, ConcursosAssumption DEF IInv
  <1>1. n # Provisorio /\ n \in {Provisorio} \cup Numeros
    BY DEF Numeros, Provisorio
  <1>2. SUFFICES ASSUME NEW b \in Boloes, bolao'[b].status # "nenhum", bolao'[b].concurso = n PROVE FALSE
    BY DEF SemBoloes
  <1>3. ~(bolao[b].status # "nenhum" /\ bolao[b].concurso = n)
    BY DEF SemBoloes
  <1>4. CASE bolao[b].status # "nenhum"
    <2>1. bolao[b].concurso = Provisorio /\ calendario[n] = banco[Provisorio].dia
      BY <1>2, <1>3, <1>4, PassosDoBolao
    <2>2. banco[Provisorio].status # "ausente"
      BY <1>4, <2>1 DEF IInv, PoolHasContest, Concurso
    <2>3. QED
      BY <2>1, <2>2 DEF Adotavel
  <1>5. CASE bolao[b].status = "nenhum"
    <2>1. ASSUME NEW m \in {Provisorio} \cup Numeros, Create(b, m) PROVE FALSE
      <3>1. m = n
        BY <1>0, <1>2, <2>1 DEF Create, Vinculos
      <3>2. Existe(n) /\ banco[n].corte > agora
        BY <2>1, <3>1 DEF Create
      <3>3. banco[n].corte <= 2 * calendario[n] + 1
        BY <3>2 DEF DateInv, CorteDoDia
      <3>4. Sorteio(n) = 2 * calendario[n] + 1
        BY <1>0 DEF Sorteio, CorteDaFesta
      <3>5. banco[n].corte \in Int
        BY <1>0, <1>1 DEF Bancos, Linhas
      <3>6. QED
        BY <1>0, <3>2, <3>3, <3>4, <3>5
    <2>2. ASSUME NEW de \in Boloes, Duplicate(b, de) PROVE FALSE
      <3>1. bolao[de].status # "nenhum" /\ bolao'[b].concurso = bolao[de].concurso
        BY <1>0, <2>2 DEF Duplicate, Vinculos
      <3>2. QED
        BY <1>2, <3>1 DEF SemBoloes
    <2>3. QED
      BY <1>2, <1>5, <2>1, <2>2, PassosDoStatus
  <1>6. QED
    BY <1>4, <1>5

\* The worker comes to settle after the answer it has written, or was settling.
LEMMA ChegaAApurar ==
  ASSUME TypeOK, [Next]_vars, fase'["worker"] = "apura"
  PROVE  /\ visto'["worker"] = visto["worker"]
         /\ \/ Grava("worker") /\ visto["worker"].dezenas
            \/ fase["worker"] = "apura"
  <1>0. fase \in [Processos -> Fases] /\ "worker" \in Processos
    BY DEF TypeOK, Processos
  <1>1. ASSUME UNCHANGED <<fase, visto>> PROVE visto'["worker"] = visto["worker"] /\ fase["worker"] = "apura"
    BY <1>1
  <1>2. ASSUME NEW q \in Processos, Termina(q) PROVE visto'["worker"] = visto["worker"] /\ fase["worker"] = "apura"
    BY <1>0, <1>2 DEF Termina, TypeOK
  <1>3. CASE UNCHANGED vars
    BY <1>1, <1>3 DEF vars, procs
  <1>4. CASE \/ Avanca \/ Sorteia \/ PublicaDezenas \/ Administra
             \/ \E n \in Numeros : ImportaHistorico(n)
             \/ \E b \in Boloes : Bolao(b)
    <2>1. UNCHANGED procs
      BY <1>4 DEF Avanca, Sorteia, PublicaDezenas, ImportaHistorico, Administra, CreateManual, CreateFestival,
           CreateFestivalComNumero, UpdateFestival, DeleteFestival, Bolao, Create, Duplicate, Publish, Close, Register, RegisterNoPainel,
           Cancel, RemoveUnused, Vende, Desfaz, MudaBolao
    <2>2. QED
      BY <1>1, <2>1 DEF procs
  <1>5. ASSUME NEW q \in Processos, Inicia(q) \/ Encerra(q) \/ Cria(q) \/ ConsultaResponde(q)
        PROVE  visto'["worker"] = visto["worker"] /\ fase["worker"] = "apura"
    BY <1>0, <1>5 DEF Inicia, Encerra, Cria, ConsultaResponde, TypeOK
  <1>6. ASSUME NEW q \in Processos, ConsultaFalha(q)
        PROVE  visto'["worker"] = visto["worker"] /\ fase["worker"] = "apura"
    BY <1>2, <1>6 DEF ConsultaFalha
  <1>7. ASSUME NEW q \in Processos, Grava(q)
        PROVE  /\ visto'["worker"] = visto["worker"]
               /\ \/ Grava("worker") /\ visto["worker"].dezenas
                  \/ fase["worker"] = "apura"
    <2>1. CASE Termina(q)
      BY <1>2, <2>1
    <2>2. CASE q = "worker" /\ visto["worker"].dezenas /\ UNCHANGED visto
      BY <1>7, <2>2
    <2>3. QED
      BY <1>7, <2>1, <2>2 DEF Grava, ComResultado
  <1>8. CASE ApuraLe \/ ApuraFalha \/ \E b \in Boloes : ApuraBolao(b)
    <2>1. Termina("worker") \/ UNCHANGED <<fase, visto>>
      BY <1>8 DEF ApuraLe, ApuraFalha, ApuraBolao
    <2>2. QED
      BY <1>0, <1>1, <1>2, <2>1
  <1>9. ASSUME NEW juntos, Queda(juntos) PROVE visto'["worker"] = visto["worker"] /\ fase["worker"] = "apura"
    BY <1>0, <1>9 DEF Queda
  <1>10. CASE VisitaSite
    BY <1>0, <1>10 DEF VisitaSite
  <1>11. QED
    BY <1>3, <1>4, <1>5, <1>6, <1>7, <1>8, <1>9, <1>10 DEF Next, Passo, Apura

LEMMA ApuraStep ==
  ASSUME FestaCedo = FALSE, IInv, DateInv, SorteioInv, ResultadoInv, ApuraInv, [Next]_vars
  PROVE  ApuraInv'
  <1>0. TypeOK /\ calendario' = calendario /\ "worker" \in Processos
    BY TempoEFixos DEF IInv, Processos
  <1> PICK n : n = visto["worker"].numero
    OBVIOUS
  <1>1. SUFFICES ASSUME fase'["worker"] = "apura"
                 PROVE  ~Adotavel(banco', calendario[n]) /\ (banco'[n].resultado \/ SemBoloes(n)')
    <2>1. fase'["worker"] = "apura" => visto'["worker"] = visto["worker"]
      BY <1>0, ChegaAApurar
    <2>2. QED
      BY <1>0, <2>1 DEF ApuraInv, Adotavel, SemBoloes
  <1>2. CASE Grava("worker") /\ visto["worker"].dezenas
    BY <1>0, <1>2, GravaResultado
  <1>3. CASE fase["worker"] = "apura"
    <2>1. n \in Numeros /\ Sorteio(n) <= agora
      <3>1. n \in 1..caixa.numero /\ Sorteio(n) <= agora
        BY <1>0, <1>3 DEF SorteioInv
      <3>2. caixa.numero \in Nat /\ caixa.numero < Ultimo
        BY DEF IInv, ProcInv, TypeOK, Resposta, Numeros
      <3>3. QED
        BY <3>1, <3>2, ConcursosAssumption DEF Numeros
    <2>2. ~Adotavel(banco, calendario[n]) /\ (banco[n].resultado \/ SemBoloes(n))
      BY <1>3 DEF ApuraInv
    <2>3. calendario[n] \in 0..Dias /\ agora \in Nat /\ CorteDaFesta \in Int
      BY <1>0, <2>1, ConcursosAssumption DEF TypeOK, CorteDaFesta
    <2>4. ~Adotavel(banco', calendario[n])
      <3>1. SUFFICES ASSUME Adotavel(banco', calendario[n]) PROVE FALSE
        OBVIOUS
      <3>2. calendario[n] = FestaDia /\ CorteDaFesta > agora
        BY <2>2, <2>3, <3>1, FestaNaoVolta
      <3>3. Sorteio(n) = CorteDaFesta
        BY <3>2 DEF Sorteio
      <3>4. QED
        BY <2>1, <2>3, <3>2, <3>3
    <2>5. CASE banco[n].resultado
      <3>1. banco'[n].resultado \/ (SemBoloes(n) /\ bolao' = bolao)
        BY <2>1, <2>5, ResultadosFicam
      <3>2. QED
        BY <2>4, <3>1 DEF SemBoloes
    <2>6. CASE SemBoloes(n)
      BY <2>1, <2>2, <2>4, <2>6, NinguemChega
    <2>7. QED
      BY <2>2, <2>5, <2>6
  <1>4. QED
    BY <1>0, <1>1, <1>2, <1>3, ChegaAApurar

\* If CAIXA draws at most one contest a day, the first of them before the beginning, and
\* the festival at the usual hour, a pool is settled only with the result of the contest it
\* bets on, whoever adopts or removes festivals while the worker is between its answer and
\* the pools it settles.
THEOREM SettledByTheResult ==
  ASSUME FestaCedo = FALSE, UmPorDia, PrimeiroSorteado
  PROVE  Spec => []SettledWithResult
  <1> DEFINE Inv == DateInv /\ SorteioInv /\ ResultadoInv /\ ApuraInv
  <1>1. Init => Inv
    <2> SUFFICES ASSUME Init PROVE SorteioInv /\ ResultadoInv /\ ApuraInv
      BY InitDateInv
    <2>1. SorteioInv
      <3>1. caixa.numero = 1 /\ agora = 2 /\ calendario[1] = 0
        BY DEF Init, PrimeiroSorteado
      <3>2. Sorteio(1) <= 2
        <4>1. Sorteio(1) = 1
          BY <3>1, ConcursosAssumption DEF Sorteio, CorteDaFesta
        <4>2. QED
          BY <4>1
      <3>3. \A p \in Processos : fase[p] = "ocioso"
        BY DEF Init
      <3>4. \A n \in 1..1 : n = 1
        OBVIOUS
      <3>5. QED
        BY <3>1, <3>2, <3>3, <3>4 DEF SorteioInv
    <2>2. ResultadoInv
      <3>1. /\ \A b \in Boloes : bolao[b].status = "nenhum"
            /\ lote = {}
        BY DEF Init, SemBolao
      <3>2. \A n \in {Provisorio} \cup Numeros : n # 1 => ~banco[n].resultado
        BY DEF Init, Linha, Nada
      <3>3. 1 \in Numeros => banco[1].status # "ausente"
        BY DEF Init, Linha
      <3>4. Provisorio # 1
        BY DEF Provisorio
      <3>5. QED
        BY <3>1, <3>2, <3>3, <3>4 DEF ResultadoInv, SettledWithResult, Existe
    <2>3. ApuraInv
      BY DEF Init, ApuraInv, Processos
    <2>4. QED
      BY <2>1, <2>2, <2>3
  <1>2. IInv /\ Inv /\ [Next]_vars => Inv'
    BY DateStep, SorteioStep, ResultadoStep, ApuraStep
  <1>3. Inv => SettledWithResult
    BY DEF ResultadoInv
  <1>4. QED
    BY SpecIInv, <1>1, <1>2, <1>3, PTL DEF Spec
=============================================================================
