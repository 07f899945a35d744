-------------------------------- MODULE Banco --------------------------------
(***************************************************************************)
(* The bank of numbers: the games the administrator keeps, generated, typed *)
(* or taken from a new pool, and how many pools used each.  What a new pool *)
(* uses is told to the bank in a call nobody waits for, in three statements *)
(* outside a transaction.                                                   *)
(***************************************************************************)
EXTENDS Integers, FiniteSets

CONSTANTS
    Cartoes,        \* games: sets of numbers
    MaxNumero,      \* BANK_RULES.max: the bank takes 1 to it
    Sorteaveis,        \* the numbers a pool takes (the matrix of prices: Lotomania from 0)
    MaxMarcas,      \* calls of markUsed in a behaviour
    MaxMarcando     \* of them, at the same time

VARIABLES
    guardados,  \* per game: usos, Ausente without a row
    marcando,   \* markUsed in flight: its valid games, the ones it found missing, its step, the ones removed meanwhile
    marcas,     \* calls begun
    vezes       \* history: per game, the calls that ended and since whose beginning nobody removed the game

bancoVars == <<guardados, marcando, marcas, vezes>>

Ausente == -1
Presente(j) == guardados[j] # Ausente
NaFaixa(j) == \A n \in j : n \in 1 .. MaxNumero

Init ==
    /\ guardados = [j \in Cartoes |-> Ausente]
    /\ marcando = {}
    /\ marcas = 0
    /\ vezes = [j \in Cartoes |-> 0]

\* createMany with skipDuplicates: one row for each game, and what is there stays.
\* (RecusaRepetidos would be without it: one repeated game and nothing is kept)
RecusaRepetidos(js) ==
    IF \E j \in js : Presente(j) THEN guardados ELSE [j \in Cartoes |-> IF j \in js THEN 0 ELSE guardados[j]]
InsertMany(js) == [j \in Cartoes |-> IF j \in js /\ ~Presente(j) THEN 0 ELSE guardados[j]]

\* The generator is the one of the pools: its numbers are theirs, and the bank does not look at them again.
Generate(js) ==
    /\ \A j \in js : j \subseteq Sorteaveis
    /\ guardados' = InsertMany(js)
    /\ UNCHANGED <<marcando, marcas, vezes>>

\* Typed, a game out of the range refuses them all.
Add(js) ==
    /\ \A j \in js : NaFaixa(j)
    /\ guardados' = InsertMany(js)
    /\ UNCHANGED <<marcando, marcas, vezes>>

Remove(j) ==
    /\ Presente(j)
    /\ guardados' = [guardados EXCEPT ![j] = Ausente]
    /\ marcando' = {[m EXCEPT !.tirados = @ \cup {j}] : m \in marcando}
    /\ vezes' = [vezes EXCEPT ![j] = 0]
    /\ UNCHANGED marcas

\* markUsed, called with the games of a pool: the ones out of the range are left out, and the known ones are read.
MarkUsed(js) ==
    LET validos == {j \in js : NaFaixa(j)}
    IN /\ \A j \in js : j \subseteq Sorteaveis
       /\ marcas < MaxMarcas /\ Cardinality(marcando) < MaxMarcando
       /\ marcas' = marcas + 1
       /\ marcando' = IF validos = {} THEN marcando
                      ELSE marcando \cup {[n |-> marcas, jogos |-> validos, novos |-> {j \in validos : ~Presente(j)},
                                           passo |-> "insere", tirados |-> {}]}
       /\ UNCHANGED <<guardados, vezes>>

Troca(m, n) == marcando' = (marcando \ {m}) \cup {n}
Insere(m) ==
    /\ m.passo = "insere"
    /\ guardados' = InsertMany(m.novos)
    /\ Troca(m, [m EXCEPT !.passo = "conta"])
    /\ UNCHANGED <<marcas, vezes>>

\* updateMany: by the keys of the call, new or not.  (SoOsConhecidos would leave out the ones it has just inserted)
SoOsConhecidos(m) == m.jogos \ m.novos
Contados(m) == m.jogos
Conta(m) ==
    /\ m.passo = "conta"
    /\ guardados' = [j \in Cartoes |-> IF j \in Contados(m) /\ Presente(j) THEN guardados[j] + 1 ELSE guardados[j]]
    /\ marcando' = marcando \ {m}
    /\ vezes' = [j \in Cartoes |-> IF j \in m.jogos \ m.tirados THEN vezes[j] + 1 ELSE vezes[j]]
    /\ UNCHANGED marcas

Guarda == \E js \in SUBSET Cartoes \ {{}} : Generate(js) \/ Add(js)
TiraDoBanco == \E j \in Cartoes : Remove(j)
Usa == \E js \in SUBSET Cartoes \ {{}} : MarkUsed(js)
InsereNovos == \E m \in marcando : Insere(m)
ContaUsos == \E m \in marcando : Conta(m)
Next ==
    \/ Guarda
    \/ TiraDoBanco
    \/ Usa
    \/ InsereNovos
    \/ ContaUsos

-----------------------------------------------------------------------------

TypeOK ==
    /\ guardados \in [Cartoes -> Ausente .. MaxMarcas]
    /\ marcando \subseteq [n : 0 .. MaxMarcas, jogos : SUBSET Cartoes, novos : SUBSET Cartoes, passo : {"insere", "conta"},
                           tirados : SUBSET Cartoes]
    /\ vezes \in [Cartoes -> 0 .. MaxMarcas]

\* However the calls of several pools and the removals cross, each pool that used a game of the bank's range is counted
\* once, unless somebody removed the game after that call began: the filter "without use" never offers a used game for
\* lack of a count.  (Games outside that range are never counted: see the README.)
UsesAreCounted ==
    \A j \in Cartoes :
        /\ vezes[j] > 0 => guardados[j] >= vezes[j]
        /\ guardados[j] <= marcas - Cardinality({m \in marcando : j \in m.jogos})
=============================================================================
