----------------------- MODULE JogoResponsavel_proofs -----------------------
(***************************************************************************)
(* Responsible play, for any limits, pauses and costs, any requests at the *)
(* same time and any waiting time.                                         *)
(*                                                                         *)
(* Until an update is lost, what a request has loaded is the row as it is, *)
(* or as it was before another consolidated a limit that was already due   *)
(* (Fiel); a pending limit is above the one in force (Sobe) and is the one *)
(* asked for last (Pendencia); and a purchase that was approved still fits *)
(* the limit, although time goes on (AprovadaInv).                         *)
(***************************************************************************)
EXTENDS JogoResponsavel, TLAPS

Parametros ==
    /\ Limites \subseteq Nat /\ SemLimite \in Nat /\ Pausas \subseteq Nat /\ Custos \subseteq Nat
    /\ Espera \in Nat /\ MaxGasto \in Nat /\ MaxPedidos \in Nat /\ MaxTempo \in Nat

Lim == Limites \cup {SemLimite}
Leu == {"status", "pausa", "limite", "compra"}

Leitura == [op : {"status", "pausa", "compra"}, valor : Nat, hora : 0..MaxTempo, lido : Conta, velho : BOOLEAN]
LeituraDeLimite == [op : {"limite"}, valor : Lim, hora : 0..MaxTempo, lido : Conta, velho : BOOLEAN]
Aprovada == [op : {"aprovada"}, valor : Nat, velho : BOOLEAN]
FormaPedido == Leitura \cup LeituraDeLimite \cup Aprovada \cup {Ocioso, [op |-> "responde"]}

Forma ==
    /\ TypeOK
    /\ pedido \in [Pedidos -> FormaPedido]
    /\ \A r \in Pedidos : pedido[r].op \in Leu => pedido[r].hora <= agora

Sobe(u) == u.pendenteEm < Nunca => u.pendente >= u.limite
Pendencia == conta.pendenteEm < Nunca => conta.pendente = decisao.valor /\ conta.pendenteEm = decisao.em + Espera

\* Of a request, the row, the time and the spending.
Fiel(p, c, t) == \/ p.lido = c
                 \/ /\ c = Consolidado(p.lido)
                    /\ p.lido.pendenteEm <= t
                    /\ p.op = "limite" => Devida(p)

LeituraInv(p, c, t) == p.op \in Leu /\ ~p.velho => Sobe(p.lido) /\ Fiel(p, c, t)
AprovadaInv(p, c, t, g) == p.op = "aprovada" /\ ~p.velho => g + p.valor <= Vigente(c, t) /\ ~Pausada(c, t)

JogoInv == ~perdida => /\ Sobe(conta) /\ Pendencia
                       /\ \A r \in Pedidos : LeituraInv(pedido[r], conta, agora) /\ AprovadaInv(pedido[r], conta, agora, gasto)

IInv == Forma /\ JogoInv

-----------------------------------------------------------------------------
(* Rows and requests *)

LEMMA Numbers ==
  ASSUME Parametros
  PROVE  Lim \subseteq Nat /\ Nunca \in Nat /\ Nunca = MaxTempo + Espera + 1 /\ SemLimite \in Lim
  BY DEF Parametros, Lim, Nunca

LEMMA Rows ==
  ASSUME Parametros, NEW u \in Conta
  PROVE  /\ u.limite \in Lim /\ u.pendente \in Lim /\ u.pendenteEm \in 0..Nunca
         /\ u.limite \in Nat /\ u.pendente \in Nat /\ u.pendenteEm \in Nat
         /\ u.pausaAte \in Nat /\ u.permanente \in BOOLEAN
  <1>1. u.limite \in Lim /\ u.pendente \in Lim /\ u.pendenteEm \in 0..Nunca /\ u.pausaAte \in Nat
    BY DEF Conta, Lim
  <1>2. u.permanente \in BOOLEAN
    BY DEF Conta
  <1>3. QED
    BY <1>1, <1>2, Numbers

LEMMA Written ==
  ASSUME Parametros, NEW u \in Conta, NEW v \in Lim
  PROVE  LET w == SemPendencia([u EXCEPT !.limite = v])
         IN  /\ w \in Conta
             /\ w.limite = v /\ w.pendente = SemLimite /\ w.pendenteEm = Nunca
             /\ w.pausaAte = u.pausaAte /\ w.permanente = u.permanente
  <1>1. SemLimite \in Lim /\ Nunca \in 0..Nunca
    BY Numbers
  <1>2. QED
    BY <1>1 DEF SemPendencia, Conta, Lim

LEMMA Cleared ==
  ASSUME Parametros, NEW u \in Conta
  PROVE  /\ SemPendencia(u) \in Conta
         /\ SemPendencia(u).limite = u.limite /\ SemPendencia(u).pendenteEm = Nunca
         /\ SemPendencia(u).pausaAte = u.pausaAte /\ SemPendencia(u).permanente = u.permanente
  <1>1. SemLimite \in Lim /\ Nunca \in 0..Nunca
    BY Numbers
  <1>2. QED
    BY <1>1 DEF SemPendencia, Conta, Lim

LEMMA Pending ==
  ASSUME Parametros, NEW u \in Conta, NEW v \in Lim, NEW t \in 0..Nunca
  PROVE  LET w == [u EXCEPT !.pendente = v, !.pendenteEm = t]
         IN  /\ w \in Conta
             /\ w.limite = u.limite /\ w.pendente = v /\ w.pendenteEm = t
             /\ w.pausaAte = u.pausaAte /\ w.permanente = u.permanente
  BY DEF Conta, Lim

LEMMA Loaded ==
  ASSUME NEW p \in FormaPedido
  PROVE  /\ "velho" \in DOMAIN p <=> p.op \in Leu \cup {"aprovada"}
         /\ p.op \in Leu => p \in Leitura \cup LeituraDeLimite
         /\ p.op = "limite" => p \in LeituraDeLimite
         /\ p.op = "aprovada" => p \in Aprovada
  BY DEF FormaPedido, Leitura, LeituraDeLimite, Aprovada, Leu, Ocioso

LEMMA Fields ==
  ASSUME NEW p \in Leitura \cup LeituraDeLimite, Parametros
  PROVE  /\ p.op \in Leu /\ p.valor \in Nat /\ p.hora \in 0..MaxTempo /\ p.lido \in Conta /\ p.velho \in BOOLEAN
         /\ p.op = "limite" => p.valor \in Lim
  BY Numbers DEF Leitura, LeituraDeLimite, Leu

\* Marking a request as stale leaves the rest of it.
LEMMA Marked ==
  ASSUME NEW p \in FormaPedido, p.op \in Leu \cup {"aprovada"}
  PROVE  LET m == [p EXCEPT !.velho = TRUE]
         IN  /\ m \in FormaPedido /\ m.op = p.op /\ m.velho
             /\ p.op \in Leu => m.hora = p.hora
  <1>1. CASE p \in Leitura
    BY <1>1 DEF Leitura, FormaPedido
  <1>2. CASE p \in LeituraDeLimite
    BY <1>2 DEF LeituraDeLimite, FormaPedido
  <1>3. CASE p \in Aprovada
    BY <1>3 DEF Aprovada, FormaPedido, Leu
  <1>4. QED
    BY <1>1, <1>2, <1>3, Loaded

\* A request that has read again what it consolidated.
LEMMA Consolidating ==
  ASSUME NEW p \in Leitura \cup LeituraDeLimite, NEW u \in Conta
  PROVE  LET m == [p EXCEPT !.lido = u]
         IN  m \in FormaPedido /\ m.op = p.op /\ m.lido = u /\ m.velho = p.velho /\ m.hora = p.hora
  <1>1. CASE p \in Leitura
    BY <1>1 DEF Leitura, FormaPedido
  <1>2. CASE p \in LeituraDeLimite
    BY <1>2 DEF LeituraDeLimite, FormaPedido
  <1>3. QED
    BY <1>1, <1>2

\* A write: what the others have loaded or been allowed is stale from now on.
LEMMA OthersAreStale ==
  ASSUME Forma, NEW r \in Pedidos, NEW p \in FormaPedido, Escreve(r, p)
  PROVE  /\ pedido' \in [Pedidos -> FormaPedido] /\ pedido'[r] = p
         /\ \A q \in Pedidos : q # r => /\ pedido'[q].op = pedido[q].op
                                        /\ pedido'[q].op \in Leu \/ pedido'[q].op = "aprovada" => pedido'[q].velho
                                        /\ pedido'[q].op \in Leu => pedido'[q].hora = pedido[q].hora
  <1> DEFINE N(q) == IF q = r THEN p
                     ELSE IF "velho" \in DOMAIN pedido[q] THEN [pedido[q] EXCEPT !.velho = TRUE] ELSE pedido[q]
  <1>1. pedido' = [q \in Pedidos |-> N(q)]
    BY DEF Escreve
  <1>2. ASSUME NEW q \in Pedidos, q # r
        PROVE  /\ N(q) \in FormaPedido /\ N(q).op = pedido[q].op
               /\ N(q).op \in Leu \cup {"aprovada"} => N(q).velho
               /\ N(q).op \in Leu => N(q).hora = pedido[q].hora
    <2>1. pedido[q] \in FormaPedido
      BY DEF Forma
    <2>2. CASE pedido[q].op \in Leu \cup {"aprovada"}
      <3>1. N(q) = [pedido[q] EXCEPT !.velho = TRUE]
        BY <1>2, <2>1, <2>2, Loaded
      <3> HIDE DEF N
      <3>2. QED
        BY <2>1, <2>2, <3>1, Marked
    <2>3. CASE pedido[q].op \notin Leu \cup {"aprovada"}
      <3>1. N(q) = pedido[q]
        BY <1>2, <2>1, <2>3, Loaded
      <3> HIDE DEF N
      <3>2. QED
        BY <2>1, <2>3, <3>1
    <2>4. QED
      BY <2>2, <2>3
  <1>3. N(r) = p
    OBVIOUS
  <1> HIDE DEF N
  <1>4. QED
    BY <1>1, <1>2, <1>3

-----------------------------------------------------------------------------
(* Types *)

LEMMA FormFits == Parametros => FormaPedido \subseteq Pedido \cup {Ocioso, [op |-> "responde"]}
  <1> SUFFICES ASSUME Parametros PROVE FormaPedido \subseteq Pedido \cup {Ocioso, [op |-> "responde"]}
    OBVIOUS
  <1>1. Lim \subseteq Nat
    BY Numbers
  <1>2. Leitura \subseteq Pedido /\ LeituraDeLimite \subseteq Pedido /\ Aprovada \subseteq Pedido
    BY <1>1 DEF Leitura, LeituraDeLimite, Aprovada, Pedido
  <1>3. QED
    BY <1>2 DEF FormaPedido

\* A step of a request that writes nothing the others depend on.
LEMMA AloneForm ==
  ASSUME Parametros, Forma, NEW r \in Pedidos, NEW p \in FormaPedido, pedido' = [pedido EXCEPT ![r] = p],
         p.op \in Leu => p.hora <= agora,
         agora' = agora, conta' = conta, gasto' = gasto, decisao' = decisao, perdida' = perdida, feitos' \in 0..MaxPedidos
  PROVE  Forma'
  <1>1. pedido' \in [Pedidos -> FormaPedido]
    BY DEF Forma
  <1>2. TypeOK'
    BY <1>1, FormFits DEF Forma, TypeOK
  <1>3. \A q \in Pedidos : pedido'[q].op \in Leu => pedido'[q].hora <= agora'
    BY DEF Forma
  <1>4. QED
    BY <1>1, <1>2, <1>3 DEF Forma

\* A write of the row, of the spending or of the last decision.
LEMMA WriteForm ==
  ASSUME Parametros, Forma, NEW r \in Pedidos, NEW p \in FormaPedido, Escreve(r, p), p.op \notin Leu,
         agora' = agora, feitos' = feitos, conta' \in Conta, gasto' \in 0..MaxGasto,
         decisao' \in [valor : Limites \cup {SemLimite}, em : 0..MaxTempo]
  PROVE  Forma'
  <1>0. \A q \in Pedidos : q # r => /\ pedido'[q].op = pedido[q].op
                                    /\ pedido'[q].op \in Leu \/ pedido'[q].op = "aprovada" => pedido'[q].velho
                                    /\ pedido'[q].op \in Leu => pedido'[q].hora = pedido[q].hora
    BY OthersAreStale
  <1>1. pedido' \in [Pedidos -> FormaPedido]
    BY OthersAreStale
  <1>2. perdida' \in BOOLEAN
    <2>1. perdida' = (perdida \/ pedido[r].velho)
      BY DEF Escreve
    <2>2. QED
      BY <2>1
  <1>3. TypeOK'
    BY <1>1, <1>2, FormFits DEF Forma, TypeOK
  <1>4. ASSUME NEW q \in Pedidos, pedido'[q].op \in Leu PROVE pedido'[q].hora <= agora'
    <2>1. pedido'[r] = p
      BY OthersAreStale
    <2>2. q # r
      BY <1>4, <2>1
    <2>3. pedido'[q].op = pedido[q].op /\ pedido'[q].hora = pedido[q].hora
      BY <1>0, <1>4, <2>2
    <2>4. QED
      BY <1>4, <2>3 DEF Forma
  <1>5. QED
    BY <1>1, <1>3, <1>4 DEF Forma

-----------------------------------------------------------------------------
(* The invariant, step by step *)

LEMMA LoadKeeps ==
  ASSUME Parametros, IInv, NEW r \in Pedidos, NEW op \in Leu, NEW v \in Nat, op = "limite" => v \in Lim,
         pedido' = [pedido EXCEPT ![r] = Carregado(op, v)], feitos' \in 0..MaxPedidos,
         UNCHANGED <<agora, conta, gasto, decisao, perdida>>
  PROVE  IInv'
  <1> DEFINE p == Carregado(op, v)
  <1>1. conta \in Conta /\ agora \in 0..MaxTempo /\ pedido \in [Pedidos -> FormaPedido]
    BY DEF IInv, Forma, TypeOK
  <1>2. p \in FormaPedido /\ p.op = op /\ p.hora = agora /\ p.lido = conta
    BY <1>1 DEF Carregado, FormaPedido, Leitura, LeituraDeLimite, Leu
  <1> HIDE DEF p
  <1>3. pedido' = [pedido EXCEPT ![r] = p]
    BY DEF p
  <1>4. p.hora <= agora
    BY <1>1, <1>2
  <1>5. Forma'
    BY <1>2, <1>3, <1>4, AloneForm DEF IInv
  <1>6. JogoInv'
    <2> SUFFICES ASSUME ~perdida
                 PROVE  Sobe(conta)' /\ Pendencia' /\ \A q \in Pedidos : LeituraInv(pedido[q], conta, agora)' /\ AprovadaInv(pedido[q], conta, agora, gasto)'
      BY DEF JogoInv
    <2>1. Sobe(conta)' /\ Pendencia'
      BY DEF IInv, JogoInv, Sobe, Pendencia
    <2>2. LeituraInv(pedido[r], conta, agora)' /\ AprovadaInv(pedido[r], conta, agora, gasto)'
      BY <1>1, <1>2, <1>3, <2>1 DEF LeituraInv, AprovadaInv, Fiel, Sobe, Leu
    <2>3. ASSUME NEW q \in Pedidos, q # r PROVE LeituraInv(pedido[q], conta, agora)' /\ AprovadaInv(pedido[q], conta, agora, gasto)'
      <3>1. pedido'[q] = pedido[q]
        BY <1>1, <1>3, <2>3
      <3>2. QED
        BY <3>1 DEF IInv, JogoInv, LeituraInv, AprovadaInv, Fiel, Sobe, Devida
    <2>4. QED
      BY <2>1, <2>2, <2>3
  <1>7. QED
    BY <1>5, <1>6 DEF IInv

\* A request that is over, or answers.
LEMMA RestKeeps ==
  ASSUME Parametros, IInv, NEW r \in Pedidos, pedido' = [pedido EXCEPT ![r] = Ocioso],
         UNCHANGED <<agora, conta, gasto, feitos, decisao, perdida>>
  PROVE  IInv'
  <1>1. Ocioso \in FormaPedido /\ Ocioso.op = "nenhuma"
    BY DEF FormaPedido, Ocioso
  <1>2. pedido \in [Pedidos -> FormaPedido] /\ feitos \in 0..MaxPedidos
    BY DEF IInv, Forma, TypeOK
  <1>3. Forma'
    BY <1>1, <1>2, AloneForm DEF IInv, Leu
  <1>4. ASSUME ~perdida, NEW q \in Pedidos PROVE LeituraInv(pedido[q], conta, agora)' /\ AprovadaInv(pedido[q], conta, agora, gasto)'
    <2>1. CASE q = r
      BY <1>1, <1>2, <2>1 DEF LeituraInv, AprovadaInv, Leu
    <2>2. CASE q # r
      <3>1. pedido'[q] = pedido[q]
        BY <1>2, <2>2
      <3>2. QED
        BY <1>4, <3>1 DEF IInv, JogoInv, LeituraInv, AprovadaInv, Fiel, Sobe, Devida
    <2>3. QED
      BY <2>1, <2>2
  <1>5. QED
    BY <1>3, <1>4 DEF IInv, JogoInv, Sobe, Pendencia

LEMMA WriteJogo ==
  ASSUME Parametros, IInv, NEW r \in Pedidos, NEW p \in FormaPedido, Escreve(r, p), p.op \notin Leu \cup {"aprovada"},
         ~perdida' => Sobe(conta') /\ Pendencia'
  PROVE  JogoInv'
  <1>0. \A q \in Pedidos : q # r => /\ pedido'[q].op = pedido[q].op
                                    /\ pedido'[q].op \in Leu \/ pedido'[q].op = "aprovada" => pedido'[q].velho
                                    /\ pedido'[q].op \in Leu => pedido'[q].hora = pedido[q].hora
    BY OthersAreStale DEF IInv
  <1> SUFFICES ASSUME ~perdida'
               PROVE  Sobe(conta)' /\ Pendencia' /\ \A q \in Pedidos : LeituraInv(pedido[q], conta, agora)' /\ AprovadaInv(pedido[q], conta, agora, gasto)'
    BY DEF JogoInv
  <1>1. ASSUME NEW q \in Pedidos, pedido'[q].op \in Leu \/ pedido'[q].op = "aprovada" PROVE pedido'[q].velho
    <2>1. Forma
      BY DEF IInv
    <2>2. pedido'[r] = p
      BY <2>1, OthersAreStale
    <2>3. q # r
      BY <1>1, <2>2
    <2>4. QED
      BY <1>0, <1>1, <2>3
  <1>2. QED
    BY <1>1 DEF LeituraInv, AprovadaInv, Sobe

\* pause
LEMMA PauseKeeps ==
  ASSUME Parametros, IInv, NEW r \in Pedidos, Pausa(r)
  PROVE  /\ IInv'
         /\ ~perdida' => conta'.pausaAte >= conta.pausaAte /\ (conta.permanente => conta'.permanente)
         /\ Vigente(conta', agora') = Vigente(conta, agora)
  <1> DEFINE p == pedido[r]
             resto == [op |-> "responde"]
  <1>1. p \in Leitura \cup LeituraDeLimite /\ p.op = "pausa"
    BY Loaded DEF Pausa, IInv, Forma, Leu
  <1>2. /\ p.lido \in Conta /\ p.hora \in 0..MaxTempo /\ p.valor \in Nat /\ p.lido.pausaAte \in Nat
        /\ conta \in Conta /\ gasto \in 0..MaxGasto
        /\ decisao \in [valor : Limites \cup {SemLimite}, em : 0..MaxTempo]
    BY <1>1, Fields, Rows DEF IInv, Forma, TypeOK
  <1>3. /\ Ate(p) \in Nat /\ Ate(p) >= p.lido.pausaAte
    BY <1>2 DEF Ate
  <1>4. /\ Escreve(r, resto) /\ UNCHANGED <<agora, gasto, feitos, decisao>>
        /\ conta' = [conta EXCEPT !.permanente = TRUE] \/ conta' = [conta EXCEPT !.pausaAte = Ate(p)]
    BY DEF Pausa
  <1>5. /\ resto \in FormaPedido /\ resto.op = "responde"
    BY DEF FormaPedido
  <1>6. /\ conta' \in Conta
        /\ conta'.limite = conta.limite /\ conta'.pendente = conta.pendente /\ conta'.pendenteEm = conta.pendenteEm
    <2>1. CASE conta' = [conta EXCEPT !.permanente = TRUE]
      BY <1>2, <2>1 DEF Conta
    <2>2. CASE conta' = [conta EXCEPT !.pausaAte = Ate(p)]
      <3> HIDE DEF p
      <3>1. QED
        BY <1>2, <1>3, <2>2 DEF Conta
    <2>3. QED
      BY <1>4, <2>1, <2>2
  <1>7. ASSUME ~perdida'
        PROVE  conta'.pausaAte >= conta.pausaAte /\ (conta.permanente => conta'.permanente)
    <2>1. ~perdida /\ ~p.velho
      BY <1>4, <1>7 DEF Escreve
    <2>2. Fiel(p, conta, agora)
      BY <1>1, <2>1 DEF IInv, JogoInv, LeituraInv, Leu
    <2>3. p.lido.pendente \in Lim
      BY <1>2, Rows
    <2>4. p.lido.pausaAte = conta.pausaAte
      BY <1>2, <2>2, <2>3, Written DEF Fiel, Consolidado
    <2>5. CASE conta' = [conta EXCEPT !.permanente = TRUE]
      BY <1>2, <2>5, Rows DEF Conta
    <2>6. CASE conta' = [conta EXCEPT !.pausaAte = Ate(p)]
      <3>1. conta'.pausaAte = Ate(p) /\ conta'.permanente = conta.permanente
        BY <1>2, <2>6 DEF Conta
      <3>2. QED
        BY <1>3, <2>4, <3>1
    <2>7. QED
      BY <1>4, <2>5, <2>6
  <1> HIDE DEF p, resto
  <1>8. Forma'
    BY <1>2, <1>4, <1>5, <1>6, WriteForm DEF IInv, Leu
  <1>9. ASSUME ~perdida' PROVE Sobe(conta') /\ Pendencia'
    <2>1. ~perdida
      BY <1>4, <1>9 DEF Escreve
    <2>2. QED
      BY <1>4, <1>6, <2>1 DEF IInv, JogoInv, Sobe, Pendencia
  <1>10. JogoInv'
    BY <1>4, <1>5, <1>9, WriteJogo DEF Leu
  <1>11. Vigente(conta', agora') = Vigente(conta, agora)
    BY <1>4, <1>6 DEF Vigente
  <1>12. QED
    BY <1>7, <1>8, <1>10, <1>11 DEF IInv

\* setLimit: who writes without having lost anything has loaded the row as it is.
LEMMA SetLimitKeeps ==
  ASSUME Parametros, IInv, NEW r \in Pedidos, DefineLimite(r)
  PROVE  /\ IInv'
         /\ ~perdida' /\ Vigente(conta', agora') > Vigente(conta, agora) =>
               Vigente(conta', agora') = decisao'.valor /\ agora' >= decisao'.em + Espera
         /\ conta'.pausaAte = conta.pausaAte /\ conta'.permanente = conta.permanente
  <1> DEFINE p == pedido[r]
             resto == [op |-> "responde"]
             d == [valor |-> p.valor, em |-> p.hora]
  <1>1. p \in Leitura \cup LeituraDeLimite /\ p.op = "limite" /\ ~Devida(p) /\ p.hora <= agora
    BY Loaded DEF DefineLimite, Pronto, IInv, Forma, Leu
  <1>2. /\ p.lido \in Conta /\ p.hora \in 0..MaxTempo /\ p.valor \in Lim /\ p.valor \in Nat /\ p.lido.limite \in Nat
        /\ conta \in Conta /\ gasto \in 0..MaxGasto /\ agora \in 0..MaxTempo
    BY <1>1, Fields, Rows DEF IInv, Forma, TypeOK
  <1>3. Escreve(r, resto) /\ conta' = Gravado(conta, p) /\ decisao' = d /\ UNCHANGED <<agora, gasto, feitos>>
    BY DEF DefineLimite
  <1>4. resto \in FormaPedido /\ resto.op = "responde"
    BY DEF FormaPedido
  <1>5. d \in [valor : Limites \cup {SemLimite}, em : 0..MaxTempo] /\ d.valor = p.valor /\ d.em = p.hora
    BY <1>2 DEF Lim
  <1> DEFINE t == p.hora + Espera
  <1>6. t \in 0..Nunca /\ t < Nunca /\ t \in Nat
    BY <1>2, Numbers DEF Parametros
  <1>7. /\ conta' \in Conta /\ conta'.pausaAte = conta.pausaAte /\ conta'.permanente = conta.permanente
        /\ \/ p.valor = p.lido.limite /\ conta'.limite = conta.limite /\ conta'.pendenteEm = Nunca
           \/ p.valor < p.lido.limite /\ conta'.limite = p.valor /\ conta'.pendenteEm = Nunca
           \/ /\ p.valor > p.lido.limite /\ conta'.limite = conta.limite
              /\ conta'.pendente = p.valor /\ conta'.pendenteEm = t
    <2>1. CASE p.valor = p.lido.limite
      <3>1. conta' = SemPendencia(conta)
        BY <1>3, <2>1 DEF Gravado
      <3> HIDE DEF p, t
      <3>2. QED
        BY <1>2, <2>1, <3>1, Cleared
    <2>2. CASE p.valor < p.lido.limite
      <3>1. conta' = SemPendencia([conta EXCEPT !.limite = p.valor])
        BY <1>2, <1>3, <2>2 DEF Gravado
      <3> HIDE DEF p, t
      <3>2. QED
        BY <1>2, <2>2, <3>1, Written
    <2>3. CASE p.valor > p.lido.limite
      <3>1. conta' = [conta EXCEPT !.pendente = p.valor, !.pendenteEm = t]
        BY <1>2, <1>3, <2>3 DEF Gravado
      <3> HIDE DEF t
      <3>2. /\ conta' \in Conta /\ conta'.limite = conta.limite
            /\ conta'.pendente = p.valor /\ conta'.pendenteEm = t
            /\ conta'.pausaAte = conta.pausaAte /\ conta'.permanente = conta.permanente
        <4> HIDE DEF p
        <4>1. QED
          BY <1>2, <1>6, <3>1 DEF Conta, Lim
      <3>3. QED
        BY <2>3, <3>2
    <2>4. QED
      BY <1>2, <2>1, <2>2, <2>3
  <1>8. t = p.hora + Espera
    OBVIOUS
  <1>9. ASSUME ~perdida' PROVE ~perdida /\ p.lido = conta
    <2>1. ~perdida /\ ~p.velho
      BY <1>3, <1>9 DEF Escreve
    <2>2. Fiel(p, conta, agora)
      BY <1>1, <2>1 DEF IInv, JogoInv, LeituraInv, Leu
    <2>3. QED
      BY <1>1, <2>1, <2>2 DEF Fiel
  <1> HIDE DEF p, resto, d, t
  <1>10. Forma'
    BY <1>2, <1>3, <1>4, <1>5, <1>7, WriteForm DEF IInv, Leu
  <1>11. ASSUME ~perdida' PROVE Sobe(conta') /\ Pendencia'
    BY <1>2, <1>3, <1>5, <1>6, <1>7, <1>8, <1>9, <1>11, Numbers DEF Sobe, Pendencia
  <1>12. JogoInv'
    BY <1>3, <1>4, <1>11, WriteJogo DEF Leu
  <1>13. ASSUME ~perdida', Vigente(conta', agora') > Vigente(conta, agora)
         PROVE  Vigente(conta', agora') = decisao'.valor /\ agora' >= decisao'.em + Espera
    <2>1. Sobe(conta) /\ p.lido = conta
      BY <1>9, <1>13 DEF IInv, JogoInv
    <2>2. /\ conta.limite \in Nat /\ conta.pendente \in Nat /\ conta.pendenteEm \in Nat
          /\ Nunca \in Nat /\ agora < Nunca /\ agora \in Nat
      BY <1>2, Rows, Numbers DEF Parametros
    <2>3. Vigente(conta, agora) >= conta.limite
      BY <2>1, <2>2 DEF Vigente, Sobe
    <2>4. Vigente(conta, agora) \in Nat
      BY <2>2 DEF Vigente
    <2>5. conta'.pendenteEm = t /\ t <= agora /\ conta'.pendente = p.valor
      BY <1>2, <1>3, <1>6, <1>7, <1>13, <2>1, <2>2, <2>3, <2>4 DEF Vigente
    <2>6. QED
      BY <1>3, <1>5, <1>8, <2>5 DEF Vigente
  <1>14. QED
    BY <1>7, <1>10, <1>12, <1>13 DEF IInv

\* settlePending: the same pending limit may be consolidated twice, and then nothing changes.
LEMMA ConsolidateKeeps ==
  ASSUME Parametros, IInv, NEW r \in Pedidos, Consolida(r)
  PROVE  /\ IInv'
         /\ ~perdida' => Vigente(conta', agora') = Vigente(conta, agora)
         /\ conta'.pausaAte = conta.pausaAte /\ conta'.permanente = conta.permanente
  <1> DEFINE p == pedido[r]
             u == p.lido
             m == [p EXCEPT !.lido = Consolidado(u)]
             N(q) == IF q = r THEN m
                     ELSE IF Ultrapassa(q, u) THEN [pedido[q] EXCEPT !.velho = TRUE] ELSE pedido[q]
  <1>1. p \in Leitura \cup LeituraDeLimite /\ p.op \in Leu /\ p.hora <= agora
    BY Loaded DEF Consolida, IInv, Forma, Leu
  <1>2. u.pendenteEm <= p.hora
    BY DEF Consolida, Devida
  <1>3. /\ u \in Conta /\ u.pendente \in Lim /\ u.pendenteEm \in Nat /\ u.limite \in Nat /\ u.pendente \in Nat
        /\ p.hora \in 0..MaxTempo /\ conta \in Conta /\ agora \in 0..MaxTempo /\ conta.limite \in Nat
        /\ conta.pendenteEm \in Nat
    BY <1>1, Fields, Rows DEF IInv, Forma, TypeOK
  <1>4. /\ conta' = SemPendencia([conta EXCEPT !.limite = u.pendente])
        /\ pedido' = [q \in Pedidos |-> N(q)] /\ UNCHANGED <<agora, gasto, feitos, decisao>>
        /\ perdida' = (perdida \/ p.velho)
    BY DEF Consolida
  <1>5. /\ conta' \in Conta /\ conta'.limite = u.pendente /\ conta'.pendenteEm = Nunca
        /\ conta'.pausaAte = conta.pausaAte /\ conta'.permanente = conta.permanente
    <2> HIDE DEF u
    <2>1. QED
      BY <1>3, <1>4, Written
  <1>6. /\ Consolidado(u) \in Conta /\ Consolidado(u).limite = u.pendente /\ Consolidado(u).pendenteEm = Nunca
        /\ Consolidado(u).pausaAte = u.pausaAte /\ Consolidado(u).permanente = u.permanente
    <2> HIDE DEF u
    <2>1. QED
      BY <1>3, Written DEF Consolidado
  <1>7. m \in FormaPedido /\ m.op = p.op /\ m.lido = Consolidado(u) /\ m.velho = p.velho /\ m.hora = p.hora
    <2> HIDE DEF p, u
    <2>1. QED
      BY <1>1, <1>6, Consolidating
  <1>8. ASSUME NEW q \in Pedidos, q # r
        PROVE  /\ N(q) \in FormaPedido /\ N(q).op = pedido[q].op
               /\ N(q).op \in Leu => N(q).hora = pedido[q].hora
               /\ N(q) = pedido[q] \/ (N(q).op = "limite" /\ N(q).velho)
               /\ Ultrapassa(q, u) => N(q).op = "limite" /\ N(q).velho
    <2>1. pedido[q] \in FormaPedido
      BY DEF IInv, Forma
    <2>2. CASE Ultrapassa(q, u)
      <3>1. N(q) = [pedido[q] EXCEPT !.velho = TRUE] /\ pedido[q].op = "limite" /\ "limite" \in Leu
        BY <1>8, <2>2 DEF Ultrapassa, Leu
      <3> HIDE DEF N
      <3>2. QED
        BY <2>1, <3>1, Marked
    <2>3. CASE ~Ultrapassa(q, u)
      <3>1. N(q) = pedido[q]
        BY <1>8, <2>3
      <3> HIDE DEF N
      <3>2. QED
        BY <2>1, <2>3, <3>1
    <2>4. QED
      BY <2>2, <2>3
  <1>9. N(r) = m
    OBVIOUS
  <1> HIDE DEF N, m
  <1>10. pedido' \in [Pedidos -> FormaPedido] /\ pedido'[r] = m /\ \A q \in Pedidos : pedido'[q] = N(q)
    <2>1. \A q \in Pedidos : N(q) \in FormaPedido
      BY <1>7, <1>8, <1>9
    <2>2. QED
      BY <1>4, <1>9, <2>1
  <1>11. Forma'
    <2>1. perdida' \in BOOLEAN
      BY <1>4
    <2>2. TypeOK'
      BY <1>4, <1>5, <1>10, <2>1, FormFits DEF IInv, Forma, TypeOK
    <2>3. ASSUME NEW q \in Pedidos, pedido'[q].op \in Leu PROVE pedido'[q].hora <= agora'
      <3>1. CASE q = r
        BY <1>1, <1>4, <1>7, <1>10, <3>1
      <3>2. CASE q # r
        <4>1. N(q).op = pedido[q].op /\ N(q).hora = pedido[q].hora
          BY <1>8, <1>10, <2>3, <3>2
        <4>2. QED
          BY <1>4, <1>10, <2>3, <4>1 DEF IInv, Forma
      <3>3. QED
        BY <3>1, <3>2
    <2>4. QED
      BY <1>10, <2>2, <2>3 DEF Forma
  <1>12. ASSUME ~perdida'
         PROVE  /\ ~perdida /\ ~p.velho
                /\ \/ u = conta /\ conta' = Consolidado(u)
                   \/ conta = Consolidado(u) /\ conta' = conta
    <2>1. ~perdida /\ ~p.velho
      BY <1>4, <1>12
    <2>2. Fiel(p, conta, agora)
      BY <1>1, <2>1 DEF IInv, JogoInv, LeituraInv
    <2>3. CASE p.lido = conta
      BY <1>4, <2>1, <2>3 DEF Consolidado
    <2>4. CASE conta = Consolidado(u)
      <3>1. conta.limite = u.pendente /\ conta.pendente = SemLimite /\ conta.pendenteEm = Nunca
        <4> HIDE DEF u
        <4>1. QED
          BY <1>3, <2>4, Written DEF Consolidado
      <3>2. conta'.pendente = SemLimite
        <4> HIDE DEF u
        <4>1. QED
          BY <1>3, <1>4, Written
      <3>3. conta' = conta
        <4> HIDE DEF u
        <4>1. QED
          BY <1>3, <1>5, <3>1, <3>2 DEF Conta
      <3>4. QED
        BY <2>1, <2>4, <3>3
    <2>5. QED
      BY <2>2, <2>3, <2>4 DEF Fiel
  <1>13. Nunca \in Nat /\ p.hora < Nunca /\ agora < Nunca /\ p.hora \in Nat /\ agora \in Nat
    BY <1>3, Numbers DEF Parametros
  <1>14. ASSUME ~perdida' PROVE Vigente(conta', agora') = Vigente(conta, agora)
    <2>1. Vigente(conta', agora') = u.pendente
      BY <1>4, <1>5, <1>13 DEF Vigente
    <2>2. CASE u = conta
      BY <1>1, <1>2, <1>3, <1>13, <2>1, <2>2 DEF Vigente
    <2>3. CASE conta' = conta
      BY <1>4, <2>3
    <2>4. QED
      BY <1>12, <1>14, <2>2, <2>3
  <1>15. ASSUME ~perdida', NEW q \in Pedidos PROVE LeituraInv(pedido'[q], conta', agora') /\ AprovadaInv(pedido'[q], conta', agora', gasto')
    <2>1. CASE q = r
      <3>1. m.lido = conta'
        BY <1>7, <1>12, <1>15
      <3>2. Sobe(m.lido) /\ Fiel(m, conta', agora')
        BY <1>5, <1>13, <3>1 DEF Sobe, Fiel
      <3>3. m.op # "aprovada"
        BY <1>1, <1>7 DEF Leu
      <3>4. QED
        BY <1>10, <2>1, <3>2, <3>3 DEF LeituraInv, AprovadaInv
    <2>2. CASE q # r /\ N(q).op = "limite" /\ N(q).velho
      BY <1>10, <2>2 DEF LeituraInv, AprovadaInv
    <2>3. CASE q # r /\ N(q) = pedido[q] /\ ~Ultrapassa(q, u)
      <3>1. pedido'[q] = pedido[q] /\ pedido[q] \in FormaPedido
        BY <1>10, <2>3 DEF IInv, Forma
      <3>2. AprovadaInv(pedido[q], conta', agora', gasto')
        BY <1>4, <1>5, <1>12, <1>14, <1>15 DEF IInv, JogoInv, AprovadaInv, Pausada
      <3>3. ASSUME pedido[q].op \in Leu, ~pedido[q].velho PROVE Sobe(pedido[q].lido) /\ Fiel(pedido[q], conta', agora')
        <4> DEFINE w == pedido[q]
        <4>1. Sobe(w.lido) /\ Fiel(w, conta, agora)
          BY <1>12, <1>15, <3>3 DEF IInv, JogoInv, LeituraInv
        <4>2. CASE conta' = conta
          BY <1>4, <4>1, <4>2 DEF Fiel, Devida
        <4>3. CASE u = conta /\ conta' = Consolidado(u) /\ w.lido = conta
          <5>1. w.op = "limite" => Devida(w)
            BY <2>3, <4>3 DEF Ultrapassa
          <5>2. conta' = Consolidado(w.lido)
            BY <4>3
          <5>3. w.lido.pendenteEm <= agora
            BY <1>1, <1>2, <1>3, <4>3
          <5>4. QED
            BY <1>4, <4>1, <5>1, <5>2, <5>3 DEF Fiel, Devida
        <4>4. CASE u = conta /\ w.lido # conta
          <5>1. w.lido \in Conta
            BY <3>1, <3>3, Loaded, Fields
          <5>2. conta = Consolidado(w.lido) /\ w.lido.pendente \in Lim
            BY <4>1, <4>4, <5>1, Rows DEF Fiel
          <5>3. conta.pendenteEm = Nunca
            BY <5>1, <5>2, Written DEF Consolidado
          <5>4. QED
            BY <1>2, <1>13, <4>4, <5>3
        <4>5. QED
          BY <1>12, <1>15, <4>1, <4>2, <4>3, <4>4
      <3>4. QED
        BY <3>1, <3>2, <3>3 DEF LeituraInv
    <2>4. QED
      BY <1>8, <2>1, <2>2, <2>3
  <1>16. JogoInv'
    BY <1>5, <1>13, <1>15 DEF JogoInv, Sobe, Pendencia
  <1>17. QED
    BY <1>5, <1>11, <1>14, <1>16 DEF IInv

\* assertCanBuy: what fits the limit it has loaded fits the one in force, which is not below it.
LEMMA ApproveKeeps ==
  ASSUME Parametros, IInv, NEW r \in Pedidos, Aprova(r)
  PROVE  IInv'
  <1> DEFINE p == pedido[r]
             a == [op |-> "aprovada", valor |-> p.valor, velho |-> p.velho]
             livre == ~Pausada(p.lido, p.hora) /\ Cabe(p)
  <1>1. p \in Leitura \cup LeituraDeLimite /\ p.op = "compra" /\ ~Devida(p) /\ p.hora <= agora
    BY Loaded DEF Aprova, Pronto, IInv, Forma, Leu
  <1>2. /\ p.lido \in Conta /\ p.hora \in 0..MaxTempo /\ p.valor \in Nat /\ p.velho \in BOOLEAN
        /\ conta \in Conta /\ agora \in 0..MaxTempo /\ gasto \in Nat /\ gasto \in 0..MaxGasto /\ feitos \in 0..MaxPedidos
    BY <1>1, Fields DEF IInv, Forma, TypeOK
  <1>3. UNCHANGED <<agora, conta, gasto, feitos, decisao, perdida>>
    BY DEF Aprova
  <1>4. CASE ~livre
    <2>1. pedido' = [pedido EXCEPT ![r] = Ocioso]
      BY <1>4 DEF Aprova
    <2>2. QED
      BY <1>3, <2>1, RestKeeps
  <1>5. CASE livre
    <2>1. pedido' = [pedido EXCEPT ![r] = a]
      BY <1>5 DEF Aprova
    <2>2. a \in FormaPedido /\ a.op = "aprovada" /\ a.valor = p.valor /\ a.velho = p.velho
      BY <1>2 DEF FormaPedido, Aprovada
    <2>3. ASSUME ~perdida, ~p.velho PROVE gasto + p.valor <= Vigente(conta, agora) /\ ~Pausada(conta, agora)
      <3>1. Sobe(p.lido) /\ Fiel(p, conta, agora) /\ Sobe(conta)
        BY <1>1, <2>3 DEF IInv, JogoInv, LeituraInv, Leu
      <3>2. /\ p.lido.limite \in Nat /\ p.lido.pendente \in Nat /\ p.lido.pendenteEm \in Nat /\ p.lido.pausaAte \in Nat
            /\ p.lido.pendente \in Lim
            /\ conta.limite \in Nat /\ conta.pendente \in Nat /\ conta.pendenteEm \in Nat
            /\ Nunca \in Nat /\ agora < Nunca
        BY <1>2, Rows, Numbers DEF Parametros
      <3>3. gasto + p.valor <= p.lido.limite
        BY <1>5 DEF Cabe
      <3>4. ~p.lido.permanente /\ p.lido.pausaAte <= p.hora
        BY <1>2, <1>5, <3>2 DEF Pausada
      <3>5. CASE p.lido = conta
        <4>1. conta.limite <= Vigente(conta, agora) /\ Vigente(conta, agora) \in Nat
          BY <1>2, <3>1, <3>2 DEF Vigente, Sobe
        <4>2. ~Pausada(conta, agora)
          BY <1>1, <1>2, <3>2, <3>4, <3>5 DEF Pausada
        <4>3. QED
          BY <1>2, <3>2, <3>3, <3>5, <4>1, <4>2
      <3>6. CASE conta = Consolidado(p.lido) /\ p.lido.pendenteEm <= agora
        <4>1. /\ conta.limite = p.lido.pendente /\ conta.pendenteEm = Nunca
              /\ conta.pausaAte = p.lido.pausaAte /\ conta.permanente = p.lido.permanente
          <5> HIDE DEF p
          <5>1. QED
            BY <1>2, <3>2, <3>6, Written DEF Consolidado
        <4>2. Vigente(conta, agora) = conta.limite
          BY <1>2, <3>2, <4>1 DEF Vigente
        <4>3. p.lido.pendente >= p.lido.limite
          BY <1>2, <3>1, <3>2, <3>6 DEF Sobe
        <4>4. ~Pausada(conta, agora)
          BY <1>1, <1>2, <3>2, <3>4, <4>1 DEF Pausada
        <4>5. QED
          BY <1>2, <3>2, <3>3, <4>1, <4>2, <4>3, <4>4
      <3>7. QED
        BY <3>1, <3>5, <3>6 DEF Fiel
    <2> HIDE DEF p, a
    <2>4. Forma'
      BY <1>2, <1>3, <2>1, <2>2, AloneForm DEF IInv, Leu
    <2>5. ASSUME ~perdida, NEW q \in Pedidos
          PROVE  LeituraInv(pedido'[q], conta, agora) /\ AprovadaInv(pedido'[q], conta, agora, gasto)
      <3>1. CASE q = r
        <4>1. pedido'[q] = a
          BY <2>1, <3>1 DEF IInv, Forma
        <4>2. QED
          BY <2>2, <2>3, <2>5, <4>1 DEF LeituraInv, AprovadaInv, Leu
      <3>2. CASE q # r
        <4>1. pedido'[q] = pedido[q]
          BY <2>1, <3>2 DEF IInv, Forma
        <4>2. QED
          BY <2>5, <4>1 DEF IInv, JogoInv
      <3>3. QED
        BY <3>1, <3>2
    <2>6. JogoInv'
      BY <1>3, <2>5 DEF IInv, JogoInv, Sobe, Pendencia
    <2>7. QED
      BY <2>4, <2>6 DEF IInv
  <1>6. QED
    BY <1>4, <1>5

\* The reservation itself.
LEMMA ReserveKeeps ==
  ASSUME Parametros, IInv, NEW r \in Pedidos, Reserva(r)
  PROVE  /\ IInv'
         /\ ~perdida' => gasto' <= Vigente(conta, agora) /\ ~Pausada(conta, agora)
         /\ UNCHANGED <<agora, conta>>
  <1> DEFINE p == pedido[r]
  <1>1. p \in Aprovada /\ p.op = "aprovada"
    BY Loaded DEF Reserva, IInv, Forma
  <1>2. p.valor \in Nat /\ gasto \in 0..MaxGasto /\ conta \in Conta
        /\ decisao \in [valor : Limites \cup {SemLimite}, em : 0..MaxTempo]
    BY <1>1 DEF Aprovada, IInv, Forma, TypeOK
  <1>3. gasto' = gasto + p.valor /\ gasto' <= MaxGasto /\ Escreve(r, Ocioso) /\ UNCHANGED <<agora, conta, feitos, decisao>>
    BY DEF Reserva
  <1>4. gasto' \in 0..MaxGasto
    BY <1>2, <1>3 DEF Parametros
  <1>5. Ocioso \in FormaPedido /\ Ocioso.op = "nenhuma"
    BY DEF FormaPedido, Ocioso
  <1>6. ASSUME ~perdida' PROVE ~perdida /\ ~p.velho
    BY <1>3, <1>6 DEF Escreve
  <1>7. ASSUME ~perdida' PROVE gasto' <= Vigente(conta, agora) /\ ~Pausada(conta, agora)
    BY <1>1, <1>3, <1>6, <1>7 DEF IInv, JogoInv, AprovadaInv
  <1>8. Forma'
    BY <1>2, <1>3, <1>4, <1>5, WriteForm DEF IInv, Leu
  <1>9. ASSUME ~perdida' PROVE Sobe(conta') /\ Pendencia'
    BY <1>3, <1>6, <1>9 DEF IInv, JogoInv, Sobe, Pendencia
  <1>10. JogoInv'
    BY <1>3, <1>5, <1>9, WriteJogo DEF Leu
  <1>11. QED
    BY <1>3, <1>7, <1>8, <1>10 DEF IInv

LEMMA ReleaseKeeps ==
  ASSUME Parametros, IInv, NEW v \in Custos, Libera(v)
  PROVE  IInv'
  <1>1. v \in Nat /\ gasto \in 0..MaxGasto /\ conta \in Conta /\ agora \in 0..MaxTempo
    BY DEF Parametros, IInv, Forma, TypeOK
  <1>2. gasto' \in 0..MaxGasto /\ gasto' <= gasto /\ UNCHANGED <<agora, conta, pedido, feitos, decisao, perdida>>
    BY <1>1 DEF Libera, Parametros
  <1>3. Forma'
    BY <1>2 DEF IInv, Forma, TypeOK
  <1>4. ASSUME ~perdida, NEW q \in Pedidos PROVE AprovadaInv(pedido[q], conta, agora, gasto')
    <2>1. AprovadaInv(pedido[q], conta, agora, gasto) /\ pedido[q] \in FormaPedido
      BY <1>4 DEF IInv, JogoInv, Forma
    <2>2. Vigente(conta, agora) \in Nat
      BY <1>1, Rows DEF Vigente
    <2>3. ASSUME pedido[q].op = "aprovada" PROVE pedido[q].valor \in Nat
      BY <2>1, <2>3, Loaded DEF Aprovada
    <2>4. QED
      BY <1>1, <1>2, <2>1, <2>2, <2>3 DEF AprovadaInv
  <1>5. JogoInv'
    BY <1>2, <1>4 DEF IInv, JogoInv, Sobe, Pendencia
  <1>6. QED
    BY <1>3, <1>5 DEF IInv

\* Time goes on: a pending limit only rises when it is due, and a pause only ends.
LEMMA TimeKeeps ==
  ASSUME Parametros, IInv, Passa
  PROVE  /\ IInv'
         /\ ~perdida' /\ Vigente(conta', agora') > Vigente(conta, agora) =>
               Vigente(conta', agora') = decisao'.valor /\ agora' >= decisao'.em + Espera
         /\ conta' = conta
  <1>1. /\ agora' = agora + 1 /\ agora < MaxTempo /\ UNCHANGED <<conta, gasto, pedido, feitos, decisao, perdida>>
        /\ agora \in 0..MaxTempo /\ agora \in Nat /\ conta \in Conta /\ gasto \in Nat /\ MaxTempo \in Nat
    BY DEF Passa, IInv, Forma, TypeOK, Parametros
  <1>2. /\ conta.limite \in Nat /\ conta.pendente \in Nat /\ conta.pendenteEm \in Nat /\ conta.pausaAte \in Nat
        /\ Nunca \in Nat /\ agora' < Nunca /\ agora' \in Nat /\ agora' \in 0..MaxTempo
    BY <1>1, Rows, Numbers DEF Parametros
  <1>3. Forma'
    <2>1. TypeOK'
      BY <1>1, <1>2 DEF IInv, Forma, TypeOK
    <2>2. ASSUME NEW q \in Pedidos, pedido[q].op \in Leu PROVE pedido[q].hora <= agora'
      <3>1. pedido[q].hora <= agora /\ pedido[q].hora \in 0..MaxTempo
        BY <2>2, Loaded, Fields DEF IInv, Forma
      <3>2. QED
        BY <1>1, <3>1
    <2>3. QED
      BY <1>1, <2>1, <2>2 DEF IInv, Forma
  <1>4. ASSUME ~perdida
        PROVE  /\ Vigente(conta, agora') >= Vigente(conta, agora)
               /\ Vigente(conta, agora') \in Nat /\ Vigente(conta, agora) \in Nat
               /\ Vigente(conta, agora') > Vigente(conta, agora) =>
                     Vigente(conta, agora') = conta.pendente /\ conta.pendenteEm <= agora'
    BY <1>1, <1>2, <1>4 DEF IInv, JogoInv, Sobe, Vigente
  <1>5. ASSUME ~perdida, NEW q \in Pedidos
        PROVE  LeituraInv(pedido[q], conta, agora') /\ AprovadaInv(pedido[q], conta, agora', gasto)
    <2> DEFINE w == pedido[q]
    <2>1. LeituraInv(w, conta, agora) /\ AprovadaInv(w, conta, agora, gasto) /\ w \in FormaPedido
      BY <1>5 DEF IInv, JogoInv, Forma
    <2>2. ASSUME w.op \in Leu PROVE w.lido.pendenteEm \in Nat
      BY <2>1, <2>2, Loaded, Fields, Rows
    <2>3. ASSUME w.op = "aprovada" PROVE w.valor \in Nat
      BY <2>1, <2>3, Loaded DEF Aprovada
    <2> HIDE DEF w
    <2>4. LeituraInv(w, conta, agora')
      BY <1>1, <1>2, <2>1, <2>2 DEF LeituraInv, Fiel
    <2>5. ~Pausada(conta, agora) => ~Pausada(conta, agora')
      BY <1>1, <1>2 DEF Pausada
    <2>6. AprovadaInv(w, conta, agora', gasto)
      BY <1>1, <1>4, <1>5, <2>1, <2>3, <2>5 DEF AprovadaInv
    <2>7. QED
      BY <2>4, <2>6 DEF w
  <1>6. JogoInv'
    BY <1>1, <1>5 DEF IInv, JogoInv, Sobe, Pendencia
  <1>7. ASSUME ~perdida, Vigente(conta, agora') > Vigente(conta, agora)
        PROVE  Vigente(conta, agora') = decisao.valor /\ agora' >= decisao.em + Espera
    BY <1>2, <1>4, <1>7 DEF IInv, JogoInv, Pendencia
  <1>8. QED
    BY <1>1, <1>3, <1>6, <1>7 DEF IInv

-----------------------------------------------------------------------------
(* The specification *)

LEMMA InitIInv == Parametros /\ Init => IInv
  <1> SUFFICES ASSUME Parametros, Init PROVE IInv
    OBVIOUS
  <1>1. SemLimite \in Lim /\ Nunca \in 0..Nunca /\ Nunca \in Nat
    BY Numbers
  <1>2. conta \in Conta /\ conta.pendenteEm = Nunca
    BY <1>1 DEF Init, Conta, Lim
  <1>3. \A r \in Pedidos : pedido[r] = Ocioso
    BY DEF Init
  <1>4. Ocioso \in FormaPedido /\ Ocioso.op = "nenhuma"
    BY DEF FormaPedido, Ocioso
  <1>5. pedido \in [Pedidos -> FormaPedido]
    BY <1>4 DEF Init
  <1>6. decisao \in [valor : Limites \cup {SemLimite}, em : 0..MaxTempo]
    BY DEF Init, Parametros
  <1>7. agora \in 0..MaxTempo /\ gasto \in 0..MaxGasto /\ feitos \in 0..MaxPedidos
    BY DEF Init, Parametros
  <1>8. perdida \in BOOLEAN
    BY DEF Init
  <1>9. Forma
    BY <1>2, <1>3, <1>4, <1>5, <1>6, <1>7, <1>8, FormFits DEF Forma, TypeOK, Leu
  <1>10. JogoInv
    BY <1>1, <1>2, <1>3, <1>4 DEF JogoInv, Sobe, Pendencia, LeituraInv, AprovadaInv, Leu
  <1>11. QED
    BY <1>9, <1>10 DEF IInv

\* What a step may do to the person, as long as no update is lost.
Protege ==
    /\ IInv'
    /\ ~perdida' =>
          /\ Vigente(conta', agora') > Vigente(conta, agora) =>
                Vigente(conta', agora') = decisao'.valor /\ agora' >= decisao'.em + Espera
          /\ conta'.pausaAte >= conta.pausaAte
          /\ conta.permanente => conta'.permanente
          /\ gasto' > gasto => gasto' <= Vigente(conta, agora) /\ ~Pausada(conta, agora)

LEMMA NextProtects == Parametros /\ IInv /\ [Next]_vars => Protege
  <1> SUFFICES ASSUME Parametros, IInv, [Next]_vars PROVE Protege
    OBVIOUS
  <1>1. conta \in Conta /\ agora \in Nat /\ gasto \in Nat /\ feitos \in 0..MaxPedidos /\ pedido \in [Pedidos -> FormaPedido]
    BY DEF IInv, Forma, TypeOK
  <1>2. conta.pausaAte \in Nat /\ Vigente(conta, agora) \in Nat
    BY <1>1, Rows DEF Vigente
  <1>3. ASSUME IInv', conta' = conta, agora' = agora, ~(gasto' > gasto) PROVE Protege
    BY <1>2, <1>3 DEF Protege
  <1>4. ASSUME NEW r \in Pedidos, NEW op \in Leu, NEW v \in Nat, op = "limite" => v \in Lim, Pede(r, op, v)
        PROVE  Protege
    <2>1. feitos' \in 0..MaxPedidos
      BY <1>1, <1>4 DEF Pede, Parametros
    <2>2. pedido' = [pedido EXCEPT ![r] = Carregado(op, v)] /\ UNCHANGED <<agora, conta, gasto, decisao, perdida>>
      BY <1>4 DEF Pede
    <2>3. IInv'
      BY <1>4, <2>1, <2>2, LoadKeeps
    <2>4. QED
      BY <1>1, <1>3, <2>2, <2>3
  <1>5. ASSUME NEW r \in Pedidos, Recarrega(r) PROVE Protege
    <2>1. pedido' = [pedido EXCEPT ![r] = Carregado("status", 0)] /\ UNCHANGED <<agora, conta, gasto, feitos, decisao, perdida>>
      BY <1>5 DEF Recarrega
    <2>2. "status" \in Leu /\ "status" # "limite" /\ 0 \in Nat
      BY DEF Leu
    <2>3. IInv'
      BY <1>1, <2>1, <2>2, LoadKeeps
    <2>4. QED
      BY <1>1, <1>3, <2>1, <2>3
  <1>6. ASSUME NEW r \in Pedidos, Encerra(r) PROVE Protege
    <2>1. pedido' = [pedido EXCEPT ![r] = Ocioso] /\ UNCHANGED <<agora, conta, gasto, feitos, decisao, perdida>>
      BY <1>6 DEF Encerra
    <2>2. IInv'
      BY <2>1, RestKeeps
    <2>3. QED
      BY <1>1, <1>3, <2>1, <2>2
  <1>7. ASSUME NEW r \in Pedidos, Consolida(r) PROVE Protege
    <2>1. gasto' = gasto
      BY <1>7 DEF Consolida
    <2>2. QED
      BY <1>1, <1>2, <1>7, <2>1, ConsolidateKeeps DEF Protege
  <1>8. ASSUME NEW r \in Pedidos, Pausa(r) PROVE Protege
    <2>1. gasto' = gasto
      BY <1>8 DEF Pausa
    <2>2. QED
      BY <1>1, <1>2, <1>8, <2>1, PauseKeeps DEF Protege
  <1>9. ASSUME NEW r \in Pedidos, DefineLimite(r) PROVE Protege
    <2>1. gasto' = gasto
      BY <1>9 DEF DefineLimite
    <2>2. QED
      BY <1>1, <1>2, <1>9, <2>1, SetLimitKeeps DEF Protege
  <1>10. ASSUME NEW r \in Pedidos, Aprova(r) PROVE Protege
    <2>1. UNCHANGED <<agora, conta, gasto>>
      BY <1>10 DEF Aprova
    <2>2. QED
      BY <1>1, <1>3, <1>10, <2>1, ApproveKeeps
  <1>11. ASSUME NEW r \in Pedidos, Reserva(r) PROVE Protege
    <2>1. IInv' /\ conta' = conta /\ agora' = agora
          /\ (~perdida' => gasto' <= Vigente(conta, agora) /\ ~Pausada(conta, agora))
      BY <1>11, ReserveKeeps
    <2>2. QED
      BY <1>2, <2>1 DEF Protege
  <1>12. ASSUME NEW v \in Custos, Libera(v) PROVE Protege
    <2>1. v \in Nat /\ gasto' = gasto - v /\ conta' = conta /\ agora' = agora
      BY <1>12 DEF Libera, Parametros
    <2>2. QED
      BY <1>1, <1>3, <1>12, <2>1, ReleaseKeeps
  <1>13. CASE Passa
    <2>1. gasto' = gasto
      BY <1>13 DEF Passa
    <2>2. QED
      BY <1>1, <1>2, <1>13, <2>1, TimeKeeps DEF Protege
  <1>14. CASE UNCHANGED vars
    <2>1. IInv'
      BY <1>14 DEF vars, IInv, Forma, TypeOK, JogoInv, Sobe, Pendencia, LeituraInv, AprovadaInv, Fiel
    <2>2. QED
      BY <1>1, <1>3, <1>14, <2>1 DEF vars
  <1>15. ASSUME NEW r \in Pedidos,
                \/ Pede(r, "status", 0)
                \/ \E v \in Pausas \cup {0} : Pede(r, "pausa", v)
                \/ \E v \in Limites \cup {SemLimite} : Pede(r, "limite", v)
                \/ \E v \in Custos : Pede(r, "compra", v)
         PROVE  Protege
    <2>1. "status" \in Leu /\ "pausa" \in Leu /\ "limite" \in Leu /\ "compra" \in Leu
      BY DEF Leu
    <2>2. 0 \in Nat /\ Pausas \cup {0} \subseteq Nat /\ Lim \subseteq Nat /\ Custos \subseteq Nat
      BY Numbers DEF Parametros
    <2>3. QED
      BY <1>4, <1>15, <2>1, <2>2 DEF Lim
  <1>16. QED
    BY <1>5, <1>6, <1>7, <1>8, <1>9, <1>10, <1>11, <1>12, <1>13, <1>14, <1>15 DEF Next

\* The inductive invariant: what requests have loaded, until an update is lost.
THEOREM SpecIInv == ASSUME Parametros PROVE Spec => []IInv
  <1>1. Init => IInv
    BY InitIInv
  <1>2. IInv /\ [Next]_vars => IInv'
    BY NextProtects DEF Protege
  <1>3. QED
    BY <1>1, <1>2, PTL DEF Spec

\* The limit in force rises only to the value asked for last, no sooner than the waiting time after the request, and
\* a pause is never shortened (setLimit, effectiveLimit, pause), until a request writes over what it has not read.
THEOREM LimitsLoosenLate == ASSUME Parametros PROVE Spec => LoosensLate
  <1>1. IInv /\ [Next]_vars =>
          [~perdida' => /\ Vigente(conta', agora') > Vigente(conta, agora) =>
                              Vigente(conta', agora') = decisao'.valor /\ agora' >= decisao'.em + Espera
                        /\ conta'.pausaAte >= conta.pausaAte
                        /\ conta.permanente => conta'.permanente]_vars
    BY NextProtects DEF Protege
  <1>2. QED
    BY <1>1, SpecIInv, PTL DEF Spec, LoosensLate

\* Nothing is reserved during a pause nor beyond the limit in force when it is reserved, although assertCanBuy has
\* read both before, until a request writes over what it has not read.
THEOREM BuysAreWithinTheRules == ASSUME Parametros PROVE Spec => BuysWithinTheRules
  <1>1. IInv /\ [Next]_vars =>
          [(~perdida' /\ gasto' > gasto) => gasto' <= Vigente(conta, agora) /\ ~Pausada(conta, agora)]_vars
    BY NextProtects DEF Protege
  <1>2. QED
    BY <1>1, SpecIInv, PTL DEF Spec, BuysWithinTheRules
=============================================================================
