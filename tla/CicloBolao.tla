----------------------------- MODULE CicloBolao -----------------------------
(***************************************************************************)
(* The life of ONE pool on the staff's side (pools.service.ts,             *)
(* operation.service.ts, attachments.service.ts, the panel of              *)
(* admin.service.ts and the watcher of conditional pools): publishing,     *)
(* editing, releasing, closing, registering with its proof, removing       *)
(* proofs.  Handlers that look again under the lock of the pool are one    *)
(* action; those that decide on what they read before it are two.          *)
(*                                                                         *)
(* The sale is that of VendaCotas, reduced to what these operations see of *)
(* a share: reserved by its buyer or sold at the desk, paid, registered,   *)
(* settled, cancelled (and taken back by a late payment) or refunded.      *)
(* Units are not counted: a revived share is one that still fits.  The     *)
(* place of a share that is undone, like that of a proof that is removed,  *)
(* may be taken by another.                                                *)
(***************************************************************************)
EXTENDS Integers, FiniteSets

CONSTANTS
    Cotas,          \* rows of cotas
    Anexos,         \* rows of anexos: general proofs of the bet
    Pedidos,        \* requests of the staff that may be in flight at the same time
    MaxPremio,      \* bound: estimated prize of the contest, and triggers
    MaxEdicoes      \* bound: edits of prices, games or trigger

VARIABLES
    bolao,          \* row of boloes; "valores" counts the edits of its prices and games
    premio,         \* concurso.valorEstimadoPremio
    aberto,         \* the contest takes bets: open, before its cutoff, not drawn
    cota,           \* each share: status, values it was contracted at, and its way in (or that it was cancelled once)
    anexo,          \* each proof
    pedido,         \* requests in flight
    cruzados        \* history: a removal overlapped another, or a registration

vars == <<bolao, premio, aberto, cota, anexo, pedido, cruzados>>

Ocioso == [op |-> "nenhuma"]
Livre == [status |-> "livre", valores |-> 0, via |-> "site"]     \* no share, or a refunded one

TypeOK ==
    /\ bolao \in [valores : 0..MaxEdicoes,
                  status : {"rascunho", "aberto", "fechado", "registrado", "apurado", "cancelado"},
                  gatilho : 0..MaxPremio, liberado : BOOLEAN, link : BOOLEAN]
    /\ premio \in 0..MaxPremio
    /\ aberto \in BOOLEAN
    /\ cota \in [Cotas -> [status : {"livre", "reservada", "paga", "registrada", "apurada"},
                           valores : 0..MaxEdicoes, via : {"site", "balcao", "cancelada"}]
                          \cup [status : {"cancelada"}, valores : 0..MaxEdicoes, via : {"cancelada"}]]
    /\ anexo \in [Anexos -> {"nenhum", "arquivo"}]
    /\ pedido \in [Pedidos -> {Ocioso, [op |-> "edita"], [op |-> "libera"]}
                     \cup [op : {"registra", "comprovante"}, link : BOOLEAN]
                     \cup [op : {"remove"}, anexo : Anexos]]
    /\ cruzados \in BOOLEAN

\* create: conditional or not.
Init ==
    /\ bolao \in [valores : {0}, status : {"rascunho"}, gatilho : {0, MaxPremio},
                  liberado : {FALSE}, link : {FALSE}]
    /\ premio = 0
    /\ aberto = TRUE
    /\ cota = [c \in Cotas |-> Livre]
    /\ anexo = [a \in Anexos |-> "nenhum"]
    /\ pedido = [r \in Pedidos |-> Ocioso]
    /\ cruzados = FALSE

Vivas == {c \in Cotas : cota[c].status \notin {"livre", "cancelada"}}
TodasPagas == Vivas # {} /\ \A c \in Vivas : cota[c].status = "paga"
Provas == {a \in Anexos : anexo[a] = "arquivo"}     \* hasProofFile
Apostado == bolao.status \in {"registrado", "apurado"}

Segue(r, p) == pedido' = [pedido EXCEPT ![r] = p]
Comeca(r, p) == pedido[r] = Ocioso /\ Segue(r, p)
Le(r, p) == Comeca(r, p) /\ UNCHANGED <<bolao, premio, aberto, cota, anexo, cruzados>>

\* A write of request r.
Grava(r, op, b) ==
    /\ pedido[r].op = op
    /\ bolao' = b
    /\ Segue(r, Ocioso)
    /\ UNCHANGED <<premio, aberto, anexo, cruzados>>

-----------------------------------------------------------------------------
(* publish: by an administrator, an affiliate only asks for it *)

Estado(s) ==
    /\ bolao' = [bolao EXCEPT !.status = s]
    /\ UNCHANGED <<premio, aberto, anexo, pedido, cruzados>>

Publica == bolao.status = "rascunho" /\ aberto /\ Estado("aberto") /\ UNCHANGED cota

-----------------------------------------------------------------------------
(* update: the fields that shares depend on *)

Editavel == bolao.status \in {"rascunho", "aberto"}

\* Whatever is to be edited, the first read asks the same.
LeEdicao(r) ==
    /\ Editavel /\ Vivas = {}
    /\ bolao.valores < MaxEdicoes
    /\ Le(r, [op |-> "edita"])

\* Under the lock the pool, its proofs and its shares are looked at again.
PermiteSemCotas == Editavel /\ aberto /\ Provas = {}
Permite == Editavel /\ aberto /\ Provas = {} /\ Vivas = {}

\* Prices or games, or the trigger, which takes its release with it.
Reajustado == [bolao EXCEPT !.valores = @ + 1]
ComGatilho(g) == [Reajustado EXCEPT !.gatilho = g, !.liberado = FALSE]

Edita(r) ==
    /\ bolao.valores < MaxEdicoes
    /\ \/ Grava(r, "edita", IF Permite THEN Reajustado ELSE bolao)
       \/ \E g \in 0..MaxPremio : Grava(r, "edita", IF Permite THEN ComGatilho(g) ELSE bolao)
    /\ UNCHANGED cota

-----------------------------------------------------------------------------
(* The release of a conditional pool: the first reservation, the watcher or the administrator *)

Atingido == premio >= bolao.gatilho

LeLiberacao(r) == bolao.gatilho # 0 /\ ~bolao.liberado /\ Le(r, [op |-> "libera"])
Libera(r) == Grava(r, "libera", [bolao EXCEPT !.liberado = TRUE]) /\ UNCHANGED cota

\* releaseReachedPools judges the trigger it read, and then writes as release does.
LeVigia(r) ==
    /\ bolao.status = "aberto" /\ bolao.gatilho # 0 /\ ~bolao.liberado
    /\ Atingido
    /\ Le(r, [op |-> "libera"])

\* reserve, in its transaction.
Liberta(b) == [b EXCEPT !.liberado = @ \/ b.gatilho # 0]

\* A new share, at the values of the moment.
Contrata(c, via) ==
    /\ bolao.status = "aberto" /\ aberto
    /\ cota[c].status \in {"livre", "cancelada"}
    /\ cota' = [cota EXCEPT ![c] = [status |-> "reservada", valores |-> bolao.valores, via |-> via]]
    /\ UNCHANGED <<premio, aberto, anexo, pedido, cruzados>>

Reserva(c) ==
    /\ bolao.gatilho # 0 => bolao.liberado \/ Atingido
    /\ Contrata(c, "site")
    /\ bolao' = Liberta(bolao)

\* manualSale asks nothing of the release, and releases nothing.
VendaNoBalcao(c) == Contrata(c, "balcao") /\ UNCHANGED bolao

\* settleTx: a payment that comes late takes a cancelled share back as it was contracted,
\* whatever the pool has become since.
Paga(c) ==
    /\ bolao.status = "aberto" /\ aberto
    /\ cota[c].status \in {"reservada", "cancelada"}
    /\ cota' = [cota EXCEPT ![c].status = "paga"]
    /\ UNCHANGED <<bolao, premio, aberto, anexo, pedido, cruzados>>

\* releasePayment: a reservation runs out or is cancelled; a payment is refunded.
Desfaz(c) ==
    /\ \/ /\ cota[c].status = "reservada"
          /\ cota' = [cota EXCEPT ![c].status = "cancelada", ![c].via = "cancelada"]
       \/ /\ cota[c].status # "livre"
          /\ cota' = [cota EXCEPT ![c] = Livre]
    /\ UNCHANGED <<bolao, premio, aberto, anexo, pedido, cruzados>>

-----------------------------------------------------------------------------
(* close, cancel *)

Fecha == bolao.status = "aberto" /\ Estado("fechado") /\ UNCHANGED cota

Cancela ==
    /\ ~Apostado
    /\ Vivas = {}
    /\ Estado("cancelado") /\ UNCHANGED cota

-----------------------------------------------------------------------------
(* The proof of the bet *)

Registradas == [c \in Cotas |-> IF cota[c].status = "paga" THEN [cota[c] EXCEPT !.status = "registrada"] ELSE cota[c]]
NoRegistro(p) == p.op \in {"registra", "comprovante", "remove"}

\* Requests that depend on the proofs in the file, read before any lock.
LeProvas(r, p) ==
    /\ Comeca(r, p)
    /\ cruzados' = (cruzados \/ \E q \in Pedidos : NoRegistro(pedido[q]))
    /\ UNCHANGED <<bolao, premio, aberto, cota, anexo>>

\* operation.register: the shares are looked at again under the lock, the proofs are not.
LeRegistro(r, comLink) ==
    /\ bolao.status \in {"aberto", "fechado"} /\ TodasPagas
    /\ comLink \/ Provas # {}
    /\ LeProvas(r, [op |-> "registra", link |-> comLink])

Registra(r) ==
    LET vale == bolao.status \in {"aberto", "fechado"} /\ TodasPagas
    IN  /\ pedido[r].op = "registra"
        /\ Grava(r, "registra",
                 IF vale THEN [bolao EXCEPT !.status = "registrado", !.link = @ \/ pedido[r].link] ELSE bolao)
        /\ cota' = IF vale THEN Registradas ELSE cota

\* registerOperationReceipt, the panel's way: nothing is looked at again, and the shares never.
LeComprovante(r, comLink) ==
    /\ bolao.status \in {"fechado", "registrado"}
    /\ comLink \/ bolao.link \/ Provas # {}
    /\ LeProvas(r, [op |-> "comprovante", link |-> comLink])

Comprovante(r) ==
    /\ pedido[r].op = "comprovante"
    /\ Grava(r, "comprovante", [bolao EXCEPT !.status = "registrado", !.link = @ \/ pedido[r].link])
    /\ cota' = Registradas

\* attachments: upload and remove.
Anexa(a) ==
    /\ anexo[a] = "nenhum"
    /\ anexo' = [anexo EXCEPT ![a] = "arquivo"]
    /\ UNCHANGED <<bolao, premio, aberto, cota, pedido, cruzados>>

\* The last proof of a placed bet stays, unless a link stands for it.
DispensavelSempre(a) == TRUE
Dispensavel(a) == (Apostado /\ ~bolao.link) => Provas # {a}

LeRemocao(r, a) ==
    /\ a \in Provas /\ Dispensavel(a)
    /\ LeProvas(r, [op |-> "remove", anexo |-> a])

Remove(r) ==
    /\ pedido[r].op = "remove"
    /\ anexo' = [anexo EXCEPT ![pedido[r].anexo] = "nenhum"]
    /\ Segue(r, Ocioso)
    /\ UNCHANGED <<bolao, premio, aberto, cota, cruzados>>

-----------------------------------------------------------------------------
(* The contest, and the worker that settles *)

MudaPremio ==
    /\ aberto
    /\ premio' \in 0..MaxPremio \ {premio}
    /\ UNCHANGED <<bolao, aberto, cota, anexo, pedido, cruzados>>

Encerra ==
    /\ aberto
    /\ aberto' = FALSE
    /\ UNCHANGED <<bolao, premio, cota, anexo, pedido, cruzados>>

\* Of the lotteries with an automatic settlement; the pools of the others stay registered.
Apura ==
    /\ ~aberto /\ bolao.status = "registrado"
    /\ cota' = [c \in Cotas |-> IF cota[c].status = "registrada" THEN [cota[c] EXCEPT !.status = "apurada"] ELSE cota[c]]
    /\ Estado("apurado")

Next ==
    \/ Publica \/ Fecha \/ Cancela \/ MudaPremio \/ Encerra \/ Apura
    \/ \E r \in Pedidos :
        \/ LeEdicao(r) \/ Edita(r)
        \/ LeLiberacao(r) \/ Libera(r) \/ LeVigia(r)
        \/ Registra(r) \/ Comprovante(r) \/ Remove(r)
        \/ \E b \in BOOLEAN : LeRegistro(r, b) \/ LeComprovante(r, b)
        \/ \E a \in Anexos : LeRemocao(r, a)
    \/ \E c \in Cotas : Reserva(c) \/ VendaNoBalcao(c) \/ Paga(c) \/ Desfaz(c)
    \/ \E a \in Anexos : Anexa(a)

Spec == Init /\ [][Next]_vars

-----------------------------------------------------------------------------
(* Properties *)

\* What a buyer contracted stays: while a share lives nobody changes the prices, games
\* or trigger of its pool, not even an edit that was read before the reservation
\* (update counts the shares again under the lock), and a conditional pool where the
\* site sold is not taken back by a falling estimate (release-gate.ts: "uma vez liberado
\* o bolão permanece liberado").  Two ways of the desk and of the bank are the
\* exceptions: a sale at the desk does not ask whether the pool was released, and a
\* share that a late payment revived keeps the values of before it was cancelled, in a
\* pool that may have been edited while nobody was in it.
BuyersKeepTheirTerms ==
    \A c \in Vivas : /\ cota[c].via # "cancelada" => cota[c].valores = bolao.valores
                     /\ cota[c].via = "site" /\ bolao.gatilho # 0 => bolao.liberado

\* A placed bet keeps a proof in the file, or its link, unless two requests that
\* depend on the proofs have overlapped: remove and register count them unlocked.
ProofIsKept == ~cruzados => (Apostado => bolao.link \/ Provas # {})

\* "Todas as cotas ativas devem estar pagas antes do registro": a pool that is
\* registered has no share still waiting for its payment.
RegisteredMeansPaid == bolao.status = "registrado" => \A c \in Vivas : cota[c].status # "reservada"
=============================================================================
