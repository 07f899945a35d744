------------------------------- MODULE Fontes -------------------------------
(***************************************************************************)
(* Where results come from (caixa-client.ts): CAIXA first, then the        *)
(* mirrors, each asked again after a passing failure, and left to rest     *)
(* after it has failed.  The memory of who rests is one per service of a   *)
(* process; the synchronisation, the import of old results and the panel   *)
(* ask at the same time.                                                   *)
(***************************************************************************)
EXTENDS Integers, FiniteSets

CONSTANTS
    Consultas,      \* calls of fetchCaixaContest in progress
    UltimaFonte,    \* sources, in the order of the configuration; 1 is CAIXA
    Descanso,       \* bound: how long a source rests
    MaxConsultas    \* bound: calls made

VARIABLES
    descanso,       \* downUntil: what is left of each rest
    chamada,        \* the calls
    chamadas
vars == <<descanso, chamada, chamadas>>

Fontes == 1..UltimaFonte
Parada == [fase |-> "parada"]
Descansa(f) == descanso[f] > 0

\* retries; whether it uses the memory (the diagnosis of the panel does not).  History: the
\* sources asked, those skipped, and whether another call sent one to rest meanwhile.
Nova(repete, memoria) ==
    [fase |-> "busca", fonte |-> 1, tentativa |-> 0, repete |-> repete, memoria |-> memoria,
     todas |-> \A f \in Fontes : Descansa(f),
     perguntadas |-> {}, puladas |-> {}, cruzada |-> FALSE]

Init ==
    /\ descanso = [f \in Fontes |-> 0]
    /\ chamada = [c \in Consultas |-> Parada]
    /\ chamadas = 0

Comeca(c) ==
    /\ chamada[c].fase \notin {"busca", "espera"} /\ chamadas < MaxConsultas
    /\ \E repete \in 0..1 : \E memoria \in BOOLEAN :
           chamada' = [chamada EXCEPT ![c] = Nova(repete, memoria)]
    /\ chamadas' = chamadas + 1
    /\ UNCHANGED descanso

Segue(c, p) == [chamada EXCEPT ![c] = p]
Passa(p) == IF p.fonte < UltimaFonte THEN [p EXCEPT !.fase = "busca", !.fonte = @ + 1, !.tentativa = 0]
                                     ELSE [p EXCEPT !.fase = "falhou"]

\* Who rests is not asked, unless everybody rested when the call began.
EvitaSempre(p) == p.memoria /\ Descansa(p.fonte)
Evita(p) == p.memoria /\ ~p.todas /\ Descansa(p.fonte)
Pula(c) ==
    /\ chamada[c].fase = "busca" /\ Evita(chamada[c])
    /\ chamada' = Segue(c, Passa([chamada[c] EXCEPT !.puladas = @ \cup {chamada[c].fonte}]))
    /\ UNCHANGED <<descanso, chamadas>>

\* attemptOnce sends the request.  Others may send the source to rest before the answer, and before it is asked again.
Pergunta(c) ==
    /\ chamada[c].fase = "busca" /\ ~Evita(chamada[c])
    /\ chamada' = Segue(c, [chamada[c] EXCEPT !.fase = "espera", !.perguntadas = @ \cup {chamada[c].fonte}])
    /\ UNCHANGED <<descanso, chamadas>>

\* An answer, a failure that may pass (network, 429, 5xx), or another one.
Responde(c) ==
    /\ chamada[c].fase = "espera"
    /\ LET p == chamada[c]
       IN  \/ /\ chamada' = Segue(c, [p EXCEPT !.fase = "respondida"])
              /\ descanso' = IF p.memoria THEN [descanso EXCEPT ![p.fonte] = 0] ELSE descanso
           \/ /\ p.tentativa < p.repete
              /\ chamada' = Segue(c, [p EXCEPT !.tentativa = @ + 1])
              /\ UNCHANGED descanso
           \/ IF p.memoria
              THEN /\ descanso' = [descanso EXCEPT ![p.fonte] = Descanso]
                   /\ chamada' = [d \in Consultas |->
                           IF d = c THEN Passa(p)
                           ELSE IF chamada[d].fase = "busca" THEN [chamada[d] EXCEPT !.cruzada = TRUE]
                           ELSE chamada[d]]
              ELSE chamada' = Segue(c, Passa(p)) /\ UNCHANGED descanso
    /\ UNCHANGED chamadas

Tempo ==
    /\ \E f \in Fontes : Descansa(f)
    /\ descanso' = [f \in Fontes |-> IF Descansa(f) THEN descanso[f] - 1 ELSE 0]
    /\ UNCHANGED <<chamada, chamadas>>

TypeOK ==
    /\ descanso \in [Fontes -> 0..Descanso]
    /\ \A c \in Consultas : chamada[c].fase \in {"parada", "busca", "espera", "respondida", "falhou"}
    /\ chamadas \in 0..MaxConsultas

Next == \/ \E c \in Consultas : Comeca(c) \/ Pula(c) \/ Pergunta(c) \/ Responde(c)
        \/ Tempo
Spec == Init /\ [][Next]_vars

-----------------------------------------------------------------------------
(* Property *)

\* "Se todas as fontes estiverem em descanso, tenta todas mesmo assim": a call that fails
\* has asked somebody, unless another one sent the last source to rest under it; and an
\* answer of a mirror means that each source before it was asked or was resting.
SourcesAreAsked ==
    \A c \in Consultas :
        LET p == chamada[c]
        IN  /\ p.fase = "falhou" => /\ p.perguntadas # {} \/ p.cruzada
                                    /\ p.perguntadas \cup p.puladas = Fontes
            /\ p.fase = "respondida" => p.perguntadas \cup p.puladas = 1..p.fonte
            /\ p.fase = "falhou" /\ ~p.memoria => p.puladas = {}
=============================================================================
