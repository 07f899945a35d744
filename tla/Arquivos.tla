------------------------------ MODULE Arquivos ------------------------------
(***************************************************************************)
(* The files of ONE pool (attachments.service.ts, storage.service.ts): the *)
(* proofs of the bet, and the receipts of shares.  A file is on disk, its  *)
(* row in the database, and whoever takes part gets it by e-mail, with a   *)
(* notice of its own or with the confirmation of their payment             *)
(* (notifications.service.ts).  ONE buyer, of one share, is followed;      *)
(* receipts of the other shares are among the files.  How one notice is    *)
(* claimed, retried and given up is in Avisos, and the limit of size of an *)
(* e-mail is left out.                                                     *)
(***************************************************************************)
EXTENDS Integers, FiniteSets

CONSTANTS
    Conteudos,      \* contents of files
    Arquivos,       \* uploads, and the rows they make
    MaxFalhas       \* bound: writes that fail, answers that are lost, crashes

VARIABLES
    cota,           \* status of the share
    arquivo,        \* each upload, then its row
    disco,          \* files on disk; the key of a file is its own (randomUUID)
    avisos,         \* notices to be mailed: of a file, or "pagamento"
    correio,        \* the e-mail being sent, with the files read for it
    recebeu,        \* history: files the buyer was mailed
    cruzados,       \* history: uploads that found no twin while a twin was on its way
    falhas
vars == <<cota, arquivo, disco, avisos, correio, recebeu, cruzados, falhas>>
correioVars == <<correio, recebeu>>

Nenhum == [fase |-> "nenhum"]
Vazio == [sobre |-> "nada", anexos |-> {}]
Existe(a) == arquivo[a].fase \in {"ativo", "removido"}
Ativo(a) == arquivo[a].fase = "ativo"
Visivel(a) == Ativo(a) /\ arquivo[a].visivel

Init ==
    /\ cota = "reservada"
    /\ arquivo = [a \in Arquivos |-> Nenhum]
    /\ disco = {} /\ avisos = {} /\ correio = Vazio /\ recebeu = {}
    /\ cruzados = {} /\ falhas = 0

-----------------------------------------------------------------------------
(* The share *)

\* The confirmation of its payment, under the lock of the pool: also when it is cancelled.
Paga ==
    /\ cota \in {"reservada", "cancelada"}
    /\ cota' = "paga"
    /\ avisos' = avisos \cup {"pagamento"}
    /\ UNCHANGED <<arquivo, disco, correioVars, cruzados, falhas>>

Encerra ==
    /\ \/ cota = "reservada" /\ cota' = "cancelada"
       \/ cota = "paga" /\ cota' = "estornada"
    /\ UNCHANGED <<arquivo, disco, avisos, correioVars, cruzados, falhas>>

-----------------------------------------------------------------------------
(* upload: checks, then the disk, then the row and its notice *)

Aberta == cota \in {"reservada", "paga"}
DoBolao(a) == arquivo[a].cota = "geral"
Minha(a) == arquivo[a].cota = "minha"

\* notifyParticipants: whoever has paid, or the buyer of the receipt who has.
Participa(a) == cota = "paga" /\ (DoBolao(a) \/ Minha(a))

\* The same file for the same place.
Iguais(x, y) == x.cota = y.cota /\ x.conteudo = y.conteudo
Gemeos(x) == {a \in Arquivos : Ativo(a) /\ Iguais(arquivo[a], x)}
ACaminho(x) == {a \in Arquivos : arquivo[a].fase \in {"conferido", "salvo"} /\ Iguais(arquivo[a], x)}

\* A proof is of the pool; a receipt belongs to a share, which is not closed.
Confere(a) ==
    /\ arquivo[a] = Nenhum
    /\ \E dono \in {"geral", "minha", "outra"} : \E visivel \in BOOLEAN : \E conteudo \in Conteudos :
          LET x == [fase |-> "conferido", cota |-> dono, visivel |-> visivel,
                    conteudo |-> conteudo, duvida |-> FALSE]
          IN  /\ dono = "minha" => Aberta
              /\ Gemeos(x) = {}
              /\ arquivo' = [arquivo EXCEPT ![a] = x]
              /\ cruzados' = IF ACaminho(x) = {} THEN cruzados ELSE cruzados \cup {a}
    /\ UNCHANGED <<cota, disco, avisos, correioVars, falhas>>

Salva(a) ==
    /\ arquivo[a].fase = "conferido"
    /\ \/ /\ disco' = disco \cup {a}
          /\ arquivo' = [arquivo EXCEPT ![a].fase = "salvo"]
          /\ UNCHANGED falhas
       \/ /\ falhas < MaxFalhas /\ falhas' = falhas + 1
          /\ arquivo' = [arquivo EXCEPT ![a].fase = "recusado"]
          /\ UNCHANGED disco
    /\ UNCHANGED <<cota, avisos, correioVars, cruzados>>

\* The buyer of a receipt is told even before paying; of a general file, whoever has paid.
Anuncia(a) == avisos' = IF arquivo[a].visivel /\ (Minha(a) \/ Participa(a)) THEN avisos \cup {a} ELSE avisos

Insere(a) ==
    /\ arquivo[a].fase = "salvo"
    /\ arquivo' = [arquivo EXCEPT ![a].fase = "ativo"]
    /\ Anuncia(a)
    /\ UNCHANGED <<cota, disco, correioVars, cruzados, falhas>>

\* When the transaction fails the file is taken back, also if what failed was the answer
\* of a commit the database made.
NaoInsere(a) ==
    /\ arquivo[a].fase = "salvo" /\ falhas < MaxFalhas
    /\ \/ arquivo' = [arquivo EXCEPT ![a].fase = "recusado"] /\ UNCHANGED avisos
       \/ /\ arquivo' = [arquivo EXCEPT ![a].fase = "ativo", ![a].duvida = TRUE]
          /\ Anuncia(a)
    /\ disco' = disco \ {a}
    /\ falhas' = falhas + 1
    /\ UNCHANGED <<cota, correioVars, cruzados>>

\* The instance stops during an upload; nobody looks for the file again.
Cai(a) ==
    /\ arquivo[a].fase \in {"conferido", "salvo"} /\ falhas < MaxFalhas
    /\ arquivo' = [arquivo EXCEPT ![a].fase = "caiu"]
    /\ falhas' = falhas + 1
    /\ UNCHANGED <<cota, disco, avisos, correioVars, cruzados>>

-----------------------------------------------------------------------------
(* The panel of files *)

\* update, under the lock of the pool: a file that becomes visible is announced.
Altera(a) ==
    /\ Ativo(a)
    /\ arquivo' = [arquivo EXCEPT ![a].visivel = ~@]
    /\ avisos' = IF ~arquivo[a].visivel /\ Participa(a) THEN avisos \cup {a} ELSE avisos
    /\ UNCHANGED <<cota, disco, correioVars, cruzados, falhas>>

\* resend: the receipt to its buyer unless the share is closed.
Reenvia(a) ==
    /\ Visivel(a)
    /\ Participa(a) \/ (Minha(a) /\ Aberta)
    /\ avisos' = avisos \cup {a}
    /\ UNCHANGED <<cota, arquivo, disco, correioVars, cruzados, falhas>>

\* remove keeps the file (that the last proof stays is in CicloBolao).
Apaga(a) == disco \ {a}
Guarda(a) == disco
Remove(a) ==
    /\ Ativo(a)
    /\ arquivo' = [arquivo EXCEPT ![a].fase = "removido"]
    /\ disco' = Guarda(a)
    /\ UNCHANGED <<cota, avisos, correioVars, cruzados, falhas>>

-----------------------------------------------------------------------------
(* dispatchPending: the files of an e-mail are read when it is sent *)

\* proofFilterForShare: the proofs of the pool, and the share's own.
DoBolaoInteiro == {a \in Arquivos : Visivel(a)}
DaConfirmacao == {a \in Arquivos : Visivel(a) /\ (DoBolao(a) \/ Minha(a))}
Anexados(sobre) == IF sobre = "pagamento" THEN DaConfirmacao ELSE {a \in {sobre} : Visivel(a)}

\* A file that cannot be read is left out.
Monta(sobre) ==
    /\ correio = Vazio
    /\ avisos' = avisos \ {sobre}
    /\ correio' = [sobre |-> sobre, anexos |-> Anexados(sobre) \cap disco]
    /\ UNCHANGED <<cota, arquivo, disco, recebeu, cruzados, falhas>>

\* A failed e-mail is composed again later.
Envia ==
    /\ correio # Vazio
    /\ correio' = Vazio
    /\ \/ recebeu' = recebeu \cup correio.anexos /\ UNCHANGED avisos
       \/ avisos' = avisos \cup {correio.sobre} /\ UNCHANGED recebeu
    /\ UNCHANGED <<cota, arquivo, disco, cruzados, falhas>>

-----------------------------------------------------------------------------

TypeOK ==
    /\ cota \in {"reservada", "paga", "cancelada", "estornada"}
    /\ \A a \in Arquivos :
          arquivo[a].fase \in {"nenhum", "conferido", "salvo", "ativo", "removido", "recusado", "caiu"}
    /\ disco \subseteq Arquivos /\ cruzados \subseteq Arquivos
    /\ avisos \subseteq Arquivos \cup {"pagamento"}
    /\ recebeu \subseteq Arquivos
    /\ correio.anexos \subseteq Arquivos
    /\ falhas \in 0..MaxFalhas

Next ==
    \/ Paga \/ Encerra
    \/ \E a \in Arquivos : \/ Confere(a) \/ Salva(a) \/ Insere(a) \/ NaoInsere(a) \/ Cai(a)
                           \/ Altera(a) \/ Reenvia(a) \/ Remove(a)
    \/ \E sobre \in avisos : Monta(sobre)
    \/ Envia
Spec == Init /\ [][Next]_vars

-----------------------------------------------------------------------------
(* Properties *)

\* Whoever pays and whatever is published in between, no participant is left without a
\* proof of the bet or the receipt of the share: it was mailed, or is on its way with its
\* own notice or with the confirmation of the payment; unless its file was lost.
Levara(a) == a \in recebeu \cup correio.anexos \/ \E sobre \in avisos : a \in Anexados(sobre)
ProofReachesAll ==
    cota = "paga" =>
        \A a \in Arquivos : Visivel(a) /\ a \in disco /\ (DoBolao(a) \/ Minha(a)) => Levara(a)

\* "Você não tem acesso a este arquivo": nobody is mailed the receipt of another's share.
NobodyElsesReceipt == \A a \in recebeu : DoBolao(a) \/ Minha(a)

\* A row has its file, removed or not ("o registro e o arquivo ficam guardados para
\* auditoria"), unless the answer to its insertion was lost; and a file without a row is
\* of an upload in progress, or of one during which the instance stopped.
RowHasItsFile ==
    \A a \in Arquivos :
        /\ Existe(a) /\ ~arquivo[a].duvida => a \in disco
        /\ a \in disco => Existe(a) \/ arquivo[a].fase \in {"salvo", "caiu"}

\* "Este mesmo arquivo já foi anexado": unless two uploads cross.
NoTwins ==
    \A a, b \in Arquivos :
        (a # b /\ Ativo(a) /\ Ativo(b) /\ Iguais(arquivo[a], arquivo[b])) => {a, b} \cap cruzados # {}

FilesAreKept == ProofReachesAll /\ NobodyElsesReceipt /\ RowHasItsFile /\ NoTwins
=============================================================================
