--------------------------- MODULE JogoResponsavel ---------------------------
(***************************************************************************)
(* Responsible play (responsible-play.service.ts): the pause and the       *)
(* monthly limit of ONE person.  No request locks the row of the person:   *)
(* each loads it, may consolidate a pending limit that is due, decides on  *)
(* what it loaded and writes.  The loads and the writes are separate       *)
(* steps.  Time counts in units of which Espera make the 24 hours.         *)
(***************************************************************************)
EXTENDS Integers

CONSTANTS
    Pedidos,        \* requests that may be in flight at the same time
    Limites,        \* the limits a person may set
    SemLimite,      \* limiteMensal = null: above every limit and every spending
    Espera,         \* LIMIT_INCREASE_DELAY_MS
    Pausas,         \* PAUSE_OPTIONS
    Custos,         \* cost of a reservation: quantity times the price of a share
    MaxGasto,       \* bound: spending of the month
    MaxPedidos,     \* bound: requests of the person
    MaxTempo        \* bound: time that passes

VARIABLES
    agora,
    conta,          \* limiteMensal, limiteMensalPendente(Em), pausaAte, pausaPermanente
    gasto,          \* spentThisMonth: shares neither cancelled, refunded nor overdue
    pedido,         \* requests in flight, with what each has loaded
    feitos,         \* requests so far
    decisao,        \* history: the last limit saved, and when it was asked
    perdida         \* history: a request has written over what it had not read

vars == <<agora, conta, gasto, pedido, feitos, decisao, perdida>>

Nunca == MaxTempo + Espera + 1    \* limiteMensalPendenteEm = null
Conta == [limite : Limites \cup {SemLimite}, pendente : Limites \cup {SemLimite},
          pendenteEm : 0..Nunca, pausaAte : Nat, permanente : BOOLEAN]
Ocioso == [op |-> "nenhuma"]
Pedido == [op : {"status", "pausa", "limite", "compra"},
           valor : Nat, hora : 0..MaxTempo, lido : Conta, velho : BOOLEAN]
          \cup [op : {"aprovada"}, valor : Nat, velho : BOOLEAN]

TypeOK ==
    /\ agora \in 0..MaxTempo
    /\ conta \in Conta
    /\ gasto \in 0..MaxGasto
    /\ pedido \in [Pedidos -> Pedido \cup {Ocioso, [op |-> "responde"]}]
    /\ feitos \in 0..MaxPedidos
    /\ decisao \in [valor : Limites \cup {SemLimite}, em : 0..MaxTempo]
    /\ perdida \in BOOLEAN

Init ==
    /\ agora = 0
    /\ conta = [limite |-> SemLimite, pendente |-> SemLimite, pendenteEm |-> Nunca,
                pausaAte |-> 0, permanente |-> FALSE]
    /\ gasto = 0
    /\ pedido = [r \in Pedidos |-> Ocioso]
    /\ feitos = 0
    /\ decisao = [valor |-> SemLimite, em |-> 0]
    /\ perdida = FALSE

-----------------------------------------------------------------------------
(* Reading *)

\* effectiveLimit
Vigente(u, t) == IF u.pendenteEm <= t THEN u.pendente ELSE u.limite

Pausada(u, t) == u.permanente \/ u.pausaAte > t

Carregado(op, v) == [op |-> op, valor |-> v, hora |-> agora, lido |-> conta, velho |-> FALSE]

Pede(r, op, v) ==
    /\ pedido[r] = Ocioso
    /\ feitos < MaxPedidos /\ ~perdida     \* bounds; nothing is followed past a lost update
    /\ feitos' = feitos + 1
    /\ pedido' = [pedido EXCEPT ![r] = Carregado(op, v)]
    /\ UNCHANGED <<agora, conta, gasto, decisao, perdida>>

\* pause and setLimit answer with a status of their own, which loads again.
Recarrega(r) ==
    /\ pedido[r].op = "responde"
    /\ pedido' = [pedido EXCEPT ![r] = Carregado("status", 0)]
    /\ UNCHANGED <<agora, conta, gasto, feitos, decisao, perdida>>

\* Request r writes and goes on as p: what the others have loaded is stale from now on.
Escreve(r, p) ==
    /\ pedido' = [q \in Pedidos |-> IF q = r THEN p
                                   ELSE IF "velho" \in DOMAIN pedido[q]
                                        THEN [pedido[q] EXCEPT !.velho = TRUE] ELSE pedido[q]]
    /\ perdida' = (perdida \/ pedido[r].velho)

SemPendencia(u) == [u EXCEPT !.pendente = SemLimite, !.pendenteEm = Nunca]

Devida(p) == p.lido.pendenteEm <= p.hora
Pronto(r, op) == pedido[r].op = op /\ ~Devida(pedido[r])

\* A request to set a limit has loaded a pending one that was not due yet: it will
\* compare with a limit that is no longer in force.
Ultrapassa(q, u) == pedido[q].op = "limite" /\ ~Devida(pedido[q]) /\ pedido[q].lido.pendenteEm = u.pendenteEm

Consolidado(u) == SemPendencia([u EXCEPT !.limite = u.pendente])

\* settlePending: an update with no condition on what the row holds by now.
Consolida(r) ==
    /\ pedido[r].op \in {"status", "limite", "compra"}
    /\ Devida(pedido[r])
    /\ LET u == pedido[r].lido
       IN  /\ conta' = SemPendencia([conta EXCEPT !.limite = u.pendente])
           /\ pedido' = [q \in Pedidos |->
                            IF q = r THEN [pedido[q] EXCEPT !.lido = Consolidado(u)]
                            ELSE IF Ultrapassa(q, u) THEN [pedido[q] EXCEPT !.velho = TRUE] ELSE pedido[q]]
    /\ perdida' = (perdida \/ pedido[r].velho)
    /\ UNCHANGED <<agora, gasto, feitos, decisao>>

Encerra(r) ==
    /\ Pronto(r, "status")
    /\ pedido' = [pedido EXCEPT ![r] = Ocioso]
    /\ UNCHANGED <<agora, conta, gasto, feitos, decisao, perdida>>

-----------------------------------------------------------------------------
(* The two tools *)

Ate(p) == IF p.lido.pausaAte > p.hora + p.valor THEN p.lido.pausaAte ELSE p.hora + p.valor

\* pause: 0 days stands for the permanent one.
Pausa(r) ==
    /\ pedido[r].op = "pausa"
    /\ conta' = IF pedido[r].valor = 0
                THEN [conta EXCEPT !.permanente = TRUE]
                ELSE [conta EXCEPT !.pausaAte = Ate(pedido[r])]
    /\ Escreve(r, [op |-> "responde"])
    /\ UNCHANGED <<agora, gasto, feitos, decisao>>

\* setLimit: the columns it writes, from the limit it has loaded.
GravadoSemLimpar(u, p) ==
    IF p.valor = p.lido.limite THEN u
    ELSE IF p.valor < p.lido.limite THEN [u EXCEPT !.limite = p.valor]
    ELSE [u EXCEPT !.pendente = p.valor, !.pendenteEm = p.hora + Espera]
Gravado(u, p) ==
    IF p.valor = p.lido.limite THEN SemPendencia(u)
    ELSE IF p.valor < p.lido.limite THEN SemPendencia([u EXCEPT !.limite = p.valor])
    ELSE [u EXCEPT !.pendente = p.valor, !.pendenteEm = p.hora + Espera]

DefineLimite(r) ==
    /\ Pronto(r, "limite")
    /\ conta' = Gravado(conta, pedido[r])
    /\ decisao' = [valor |-> pedido[r].valor, em |-> pedido[r].hora]
    /\ Escreve(r, [op |-> "responde"])
    /\ UNCHANGED <<agora, gasto, feitos>>

-----------------------------------------------------------------------------
(* assertCanBuy, then the reservation *)

CabeSemACompra(p) == gasto <= p.lido.limite
Cabe(p) == gasto + p.valor <= p.lido.limite

Aprova(r) ==
    /\ Pronto(r, "compra")
    /\ pedido' = [pedido EXCEPT ![r] =
                    IF ~Pausada(@.lido, @.hora) /\ Cabe(@)
                    THEN [op |-> "aprovada", valor |-> @.valor, velho |-> @.velho] ELSE Ocioso]
    /\ UNCHANGED <<agora, conta, gasto, feitos, decisao, perdida>>

Reserva(r) ==
    /\ pedido[r].op = "aprovada"
    /\ gasto + pedido[r].valor <= MaxGasto
    /\ gasto' = gasto + pedido[r].valor
    /\ Escreve(r, Ocioso)
    /\ UNCHANGED <<agora, conta, feitos, decisao>>

\* A reservation runs out, or a sale is refunded.
Libera(v) ==
    /\ gasto >= v
    /\ gasto' = gasto - v
    /\ UNCHANGED <<agora, conta, pedido, feitos, decisao, perdida>>

Passa ==
    /\ agora < MaxTempo
    /\ agora' = agora + 1
    /\ UNCHANGED <<conta, gasto, pedido, feitos, decisao, perdida>>

Next ==
    \/ \E r \in Pedidos :
        \/ Pede(r, "status", 0)
        \/ \E v \in Pausas \cup {0} : Pede(r, "pausa", v)
        \/ \E v \in Limites \cup {SemLimite} : Pede(r, "limite", v)
        \/ \E v \in Custos : Pede(r, "compra", v)
        \/ Consolida(r) \/ Encerra(r) \/ Recarrega(r)
        \/ Pausa(r) \/ DefineLimite(r) \/ Aprova(r) \/ Reserva(r)
    \/ \E v \in Custos : Libera(v)
    \/ Passa

Spec == Init /\ [][Next]_vars

-----------------------------------------------------------------------------
(* Properties.  Requests may overlap; the properties are what the code keeps *)
(* until one of them writes over what another wrote after it had loaded the  *)
(* row.  That lost update may break each of them: nothing locks the row.     *)

\* What protects the person loosens late or never: the limit in force rises only to
\* the value asked for last, no sooner than 24 hours after the request (setLimit and
\* effectiveLimit), and a pause is never shortened (pause takes the later date).
LoosensLate ==
    [][~perdida' =>
           /\ Vigente(conta', agora') > Vigente(conta, agora) =>
                 /\ Vigente(conta', agora') = decisao'.valor
                 /\ agora' >= decisao'.em + Espera
           /\ conta'.pausaAte >= conta.pausaAte
           /\ conta.permanente => conta'.permanente]_vars

\* Nothing is reserved during a pause, nor beyond the limit in force at the
\* moment of the reservation, although both were read before it (assertCanBuy).
BuysWithinTheRules ==
    [][(~perdida' /\ gasto' > gasto) =>
           /\ gasto' <= Vigente(conta, agora)
           /\ ~Pausada(conta, agora)]_vars
=============================================================================
