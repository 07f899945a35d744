------------------------------- MODULE Avisos -------------------------------
(***************************************************************************)
(* "Avise-me" and the delivery of notices (notifications.service.ts,       *)
(* pool-release.watcher.ts): ONE person who asks to be told when a         *)
(* conditional pool releases its shares, and the notice that makes.  The   *)
(* loops run in every instance of the API and may overlap; each reads a    *)
(* batch, claims a row with a conditional update and only then acts, so a  *)
(* crash or a slow mail server falls between the claim and the act.        *)
(***************************************************************************)
EXTENDS Integers

CONSTANTS
    Lacos,          \* loops, of one instance or of several
    MaxTentativas,  \* dispatchPending: tentativas < 10
    MaxQuedas,      \* bound: crashes
    MaxTrocas       \* bound: times an edit of the trigger takes the release back

VARIABLES
    liberado,       \* bolao.liberadoEm is set
    interesse,      \* row of bolao_interesses
    laco,           \* what each loop is doing
    criados,        \* notices created for the interest
    aviso,          \* the notice: push claimed, mailed, attempts, lease and its token, backoff
    pushes, emails, \* deliveries
    duvidas,        \* history: claims that ran out, and deliveries that were not confirmed
    quedas, trocas

vars == <<liberado, interesse, laco, criados, aviso, pushes, emails, duvidas, quedas, trocas>>
avisoVars == <<criados, aviso, pushes, emails, duvidas>>

Nenhum == "nenhum"
Ocioso == "ocioso"

TypeOK ==
    /\ liberado \in BOOLEAN
    /\ interesse \in {"nunca", "assinando", "pendente", "marcado", "saiu"}
    /\ laco \in [Lacos -> {Ocioso, "leu", "marcou", "leu_push", "tomou_push",
                           "leu_email", "tomou_email", "enviou", "falhou"}]
    /\ criados \in Nat
    /\ aviso \in [push : BOOLEAN, enviado : BOOLEAN, tentativas : 0..MaxTentativas,
                  lease : {"livre", "valida", "vencida"}, token : Lacos \cup {Nenhum}, espera : BOOLEAN]
    /\ pushes \in Nat /\ emails \in Nat /\ duvidas \in Nat
    /\ quedas \in 0..MaxQuedas /\ trocas \in 0..MaxTrocas

Init ==
    /\ liberado = FALSE
    /\ interesse = "nunca"
    /\ laco = [p \in Lacos |-> Ocioso]
    /\ criados = 0
    /\ aviso = [push |-> FALSE, enviado |-> FALSE, tentativas |-> 0,
                lease |-> "livre", token |-> Nenhum, espera |-> FALSE]
    /\ pushes = 0 /\ emails = 0 /\ duvidas = 0
    /\ quedas = 0 /\ trocas = 0

Segue(p, f) == laco' = [laco EXCEPT ![p] = f]
Comeca(p, f) == laco[p] = Ocioso /\ Segue(p, f)

-----------------------------------------------------------------------------
(* The person and the pool *)

\* subscribe reads the pool, then writes the row: it may be released in between.
LeBolao ==
    /\ interesse = "nunca" /\ ~liberado
    /\ interesse' = "assinando"
    /\ UNCHANGED <<liberado, laco, avisoVars, quedas, trocas>>

Assina ==
    /\ interesse = "assinando"
    /\ interesse' = "pendente"
    /\ UNCHANGED <<liberado, laco, avisoVars, quedas, trocas>>

Desassina ==
    /\ interesse \in {"pendente", "marcado"}
    /\ interesse' = "saiu"
    /\ UNCHANGED <<liberado, laco, avisoVars, quedas, trocas>>

\* By the watcher, the administrator or the first reservation.
Libera ==
    /\ ~liberado
    /\ liberado' = TRUE
    /\ UNCHANGED <<interesse, laco, avisoVars, quedas, trocas>>

\* update of premioMinimoLiberacao sets liberadoEm to null.
TrocaGatilho ==
    /\ liberado /\ trocas < MaxTrocas
    /\ liberado' = FALSE
    /\ trocas' = trocas + 1
    /\ UNCHANGED <<interesse, laco, avisoVars, quedas>>

-----------------------------------------------------------------------------
(* notifyPoolReleased: mark the interest, then create the notice *)

AvisavelUmaVez == liberado /\ interesse = "pendente" /\ trocas = 0
Avisavel == liberado /\ interesse = "pendente"

LeInteressados(p) ==
    /\ Avisavel
    /\ Comeca(p, "leu")
    /\ UNCHANGED <<liberado, interesse, avisoVars, quedas, trocas>>

MarcaSempre(p) == laco[p] = "leu" /\ interesse' = "marcado" /\ Segue(p, "marcou")
MarcaUma(p) == /\ laco[p] = "leu"
               /\ IF interesse = "pendente"
                  THEN interesse' = "marcado" /\ Segue(p, "marcou")
                  ELSE UNCHANGED interesse /\ Segue(p, Ocioso)

Marca(p) ==
    /\ MarcaUma(p)
    /\ UNCHANGED <<liberado, avisoVars, quedas, trocas>>

Notifica(p) ==
    /\ laco[p] = "marcou"
    /\ criados' = criados + 1
    /\ Segue(p, Ocioso)
    /\ UNCHANGED <<liberado, interesse, aviso, pushes, emails, duvidas, quedas, trocas>>

-----------------------------------------------------------------------------
(* dispatchPushes: claim the notice, then send it; a failed send is not repeated *)

LePush(p) ==
    /\ criados > 0 /\ ~aviso.push
    /\ Comeca(p, "leu_push")
    /\ UNCHANGED <<liberado, interesse, avisoVars, quedas, trocas>>

Tomavel == ~aviso.push

TomaPush(p) ==
    /\ laco[p] = "leu_push"
    /\ IF Tomavel
       THEN aviso' = [aviso EXCEPT !.push = TRUE] /\ Segue(p, "tomou_push")
       ELSE UNCHANGED aviso /\ Segue(p, Ocioso)
    /\ UNCHANGED <<liberado, interesse, criados, pushes, emails, duvidas, quedas, trocas>>

EnviaPush(p) ==
    /\ laco[p] = "tomou_push"
    /\ pushes' \in {pushes, pushes + 1}
    /\ Segue(p, Ocioso)
    /\ UNCHANGED <<liberado, interesse, criados, aviso, emails, duvidas, quedas, trocas>>

-----------------------------------------------------------------------------
(* dispatchPending: a lease of 120 s, up to MaxTentativas attempts with backoff *)

PendenteSemTeto == criados > 0 /\ ~aviso.enviado /\ ~aviso.espera
Pendente == /\ criados > 0 /\ ~aviso.enviado /\ ~aviso.espera
            /\ aviso.tentativas < MaxTentativas
Livre == Pendente /\ aviso.lease # "valida"

LeEmail(p) ==
    /\ Livre
    /\ Comeca(p, "leu_email")
    /\ UNCHANGED <<liberado, interesse, avisoVars, quedas, trocas>>

TomaEmail(p) ==
    /\ laco[p] = "leu_email"
    /\ IF Livre
       THEN /\ aviso' = [aviso EXCEPT !.lease = "valida", !.token = p, !.tentativas = @ + 1]
            /\ Segue(p, "tomou_email")
       ELSE UNCHANGED aviso /\ Segue(p, Ocioso)
    /\ UNCHANGED <<liberado, interesse, criados, pushes, emails, duvidas, quedas, trocas>>

\* The mail server takes the message, refuses it, or takes it and the answer is lost.
EnviaEmail(p) ==
    /\ laco[p] = "tomou_email"
    /\ \/ emails' = emails + 1 /\ Segue(p, "enviou") /\ UNCHANGED duvidas
       \/ Segue(p, "falhou") /\ UNCHANGED <<emails, duvidas>>
       \/ emails' = emails + 1 /\ duvidas' = duvidas + 1 /\ Segue(p, "falhou")
    /\ UNCHANGED <<liberado, interesse, criados, aviso, pushes, quedas, trocas>>

\* Written only while the row still has the token of this claim.
GravaEmail(p) ==
    /\ laco[p] \in {"enviou", "falhou"}
    /\ aviso' = IF aviso.token = p
                THEN [aviso EXCEPT !.enviado = (laco[p] = "enviou"), !.lease = "livre",
                                   !.token = Nenhum, !.espera = TRUE]
                ELSE aviso
    /\ Segue(p, Ocioso)
    /\ UNCHANGED <<liberado, interesse, criados, pushes, emails, duvidas, quedas, trocas>>

VenceLease ==
    /\ aviso.lease = "valida"
    /\ aviso' = [aviso EXCEPT !.lease = "vencida"]
    /\ duvidas' = duvidas + 1
    /\ UNCHANGED <<liberado, interesse, laco, criados, pushes, emails, quedas, trocas>>

PassaEspera ==
    /\ aviso.espera
    /\ aviso' = [aviso EXCEPT !.espera = FALSE]
    /\ UNCHANGED <<liberado, interesse, laco, criados, pushes, emails, duvidas, quedas, trocas>>

\* The instance stops; its loop starts over.
Cai(p) ==
    /\ laco[p] # Ocioso /\ quedas < MaxQuedas
    /\ Segue(p, Ocioso)
    /\ quedas' = quedas + 1
    /\ UNCHANGED <<liberado, interesse, avisoVars, trocas>>

Passo(p) ==
    \/ Marca(p) \/ Notifica(p) \/ TomaPush(p) \/ EnviaPush(p)
    \/ TomaEmail(p) \/ EnviaEmail(p) \/ GravaEmail(p)

Next ==
    \/ LeBolao \/ Assina \/ Desassina \/ Libera \/ TrocaGatilho
    \/ \E p \in Lacos : \/ LeInteressados(p) \/ LePush(p) \/ LeEmail(p)
                        \/ Passo(p) \/ Cai(p)
    \/ VenceLease \/ PassaEspera

\* The watcher runs again and again, so it reads the interests it can always read, and
\* what a loop has read it finishes.  Nothing makes a person subscribe or a pool release.
Fairness ==
    /\ \A p \in Lacos : WF_vars(Passo(p))
    /\ WF_vars(\E p \in Lacos : LeInteressados(p))

Spec == Init /\ [][Next]_vars
FairSpec == Spec /\ Fairness

-----------------------------------------------------------------------------
(* Properties *)

\* However many loops read it, a notice is created once for an interest and goes to
\* the phone at most once ("Cada aviso sai uma vez só", dispatchPushes); its e-mail is
\* repeated only if a lease ran out or a delivery was not confirmed.
NoticedOnce == criados <= 1 /\ pushes <= 1 /\ emails <= 1 + duvidas

\* Whoever waits for a released pool gets a notice, unless they leave, the release
\* is taken back, or the instance stops between marking the interest and creating
\* the notice: then nobody creates it again.
InterestIsAnswered ==
    (liberado /\ interesse = "pendente") ~>
        \/ criados > 0 \/ ~liberado \/ interesse = "saiu"
        \/ interesse = "marcado" /\ quedas > 0
=============================================================================
