-------------------------------- MODULE Push --------------------------------
(***************************************************************************)
(* Notices on a device (push.service.ts, lib/push.ts, push-toggle.tsx and  *)
(* the pushsubscriptionchange of sw.js): the pair of keys that the first   *)
(* instance to need it creates, the subscription of ONE device, which is   *)
(* made with a key and dies with its address, and the server's row of it.  *)
(***************************************************************************)
EXTENDS Integers

CONSTANTS
    Instancias,         \* instances of the API
    Contas,             \* accounts that use the device
    MaxRecusas,         \* MAX_FAILURES
    MaxEnderecos        \* bound: addresses the browser gives the device

VARIABLES
    banco,              \* the keys in configuracaoSistema; 0 is none
    memoria,            \* the keys each instance keeps
    geracao,            \* getKeys in progress
    aparelho,           \* the browser: its account, live address, the key of each address, and
                        \* whether the server answered that its notices are on
    cliente,            \* enablePush in progress
    linhas,             \* push_inscricoes, by address
    envio,              \* sendToUser in progress: the row it read
    recusas             \* history: deliveries refused to the live address
chavesVars == <<banco, memoria, geracao>>
aparelhoVars == <<aparelho, cliente>>
vars == <<chavesVars, aparelhoVars, linhas, envio, recusas>>

Enderecos == 1..MaxEnderecos
Nenhuma == [dono |-> "ninguem", falhas |-> 0]

TypeOK ==
    /\ banco \in Instancias \cup {"nenhum"}
    /\ memoria \in [Instancias -> Instancias \cup {"nenhum"}]
    /\ geracao \in [Instancias -> {"parada", "gerou", "gravou"}]
    /\ aparelho \in [conta : Contas, vivo : 0..MaxEnderecos, ultimo : 0..MaxEnderecos,
                     chave : [Enderecos -> Instancias \cup {"nenhum"}], ligado : BOOLEAN]
    /\ cliente \in [fase : {"nada", "assina", "salva"}, chave : Instancias \cup {"nenhum"}]
    /\ linhas \in [Enderecos -> [dono : Contas \cup {"ninguem"}, falhas : Nat]]
    /\ envio \in [Instancias -> [endereco : 0..MaxEnderecos, falhas : Nat]]
    /\ recusas \in Nat

Parado == [endereco |-> 0, falhas |-> 0]
Quieto == [fase |-> "nada", chave |-> "nenhum"]

Init ==
    /\ banco = "nenhum"
    /\ memoria = [i \in Instancias |-> "nenhum"]
    /\ geracao = [i \in Instancias |-> "parada"]
    /\ aparelho = [conta |-> CHOOSE u \in Contas : TRUE, vivo |-> 0, ultimo |-> 0, ligado |-> FALSE,
                   chave |-> [e \in Enderecos |-> "nenhum"]]
    /\ cliente = Quieto
    /\ linhas = [e \in Enderecos |-> Nenhuma]
    /\ envio = [i \in Instancias |-> Parado]
    /\ recusas = 0

-----------------------------------------------------------------------------
(* getKeys.  The pair an instance generates is named after it; an instance that restarts is *)
(* one that has not asked yet.                                                              *)

Le(i) ==
    /\ memoria[i] = "nenhum" /\ geracao[i] = "parada"
    /\ IF banco # "nenhum"
       THEN memoria' = [memoria EXCEPT ![i] = banco] /\ UNCHANGED geracao
       ELSE geracao' = [geracao EXCEPT ![i] = "gerou"] /\ UNCHANGED memoria
    /\ UNCHANGED <<banco, aparelhoVars, linhas, envio, recusas>>

\* createMany with skipDuplicates: the first pair written stays.
GravaChaves(i) ==
    /\ geracao[i] = "gerou"
    /\ geracao' = [geracao EXCEPT ![i] = "gravou"]
    /\ banco' = IF banco = "nenhum" THEN i ELSE banco
    /\ UNCHANGED <<memoria, aparelhoVars, linhas, envio, recusas>>

ValeAGerada(i) == i
Vale(i) == IF banco # "nenhum" THEN banco ELSE i

Rele(i) ==
    /\ geracao[i] = "gravou"
    /\ memoria' = [memoria EXCEPT ![i] = Vale(i)]
    /\ geracao' = [geracao EXCEPT ![i] = "parada"]
    /\ UNCHANGED <<banco, aparelhoVars, linhas, envio, recusas>>

-----------------------------------------------------------------------------
(* The device *)

Esquece(e) == [linhas EXCEPT ![e] = Nenhuma]

\* subscribe: one row per address, of the account that sent it last.
Inscreve(e) == linhas' = [linhas EXCEPT ![e] = [dono |-> aparelho.conta, falhas |-> 0]]

\* pushManager.subscribe gives the device a new address.
Assinado(k) ==
    [aparelho EXCEPT !.vivo = aparelho.ultimo + 1, !.ultimo = aparelho.ultimo + 1,
                     !.chave = [aparelho.chave EXCEPT ![aparelho.ultimo + 1] = k]]

\* enablePush: the key of some instance, then the subscription, then the row.
BuscaChave(i) ==
    /\ cliente.fase = "nada" /\ ~aparelho.ligado /\ memoria[i] # "nenhum"
    /\ cliente' = [fase |-> "assina", chave |-> memoria[i]]
    /\ UNCHANGED <<chavesVars, aparelho, linhas, envio, recusas>>

\* A subscription made with another key is replaced.
Assina ==
    /\ cliente.fase = "assina"
    /\ IF aparelho.vivo > 0 /\ aparelho.chave[aparelho.vivo] = cliente.chave
       THEN UNCHANGED <<aparelho, recusas>>
       ELSE /\ aparelho.ultimo < MaxEnderecos
            /\ aparelho' = Assinado(cliente.chave) /\ recusas' = 0
    /\ cliente' = [cliente EXCEPT !.fase = "salva"]
    /\ UNCHANGED <<chavesVars, linhas, envio>>

Salva ==
    /\ cliente.fase = "salva"
    /\ cliente' = Quieto
    /\ \/ /\ aparelho.vivo > 0 /\ Inscreve(aparelho.vivo)
          /\ aparelho' = [aparelho EXCEPT !.ligado = TRUE]
       \/ UNCHANGED <<aparelho, linhas>>                              \* the request fails
    /\ UNCHANGED <<chavesVars, envio, recusas>>

\* readPushState looks at the device only; when it is on, resyncPush sends its row again.
Abre ==
    /\ cliente.fase = "nada" /\ aparelho.vivo > 0
    /\ aparelho' = [aparelho EXCEPT !.ligado = TRUE]
    /\ Inscreve(aparelho.vivo)
    /\ UNCHANGED <<chavesVars, cliente, envio, recusas>>

\* disablePush: the server, if the request arrives and the row is this account's, forgets the
\* address; then the browser does.
Desliga ==
    /\ cliente.fase = "nada" /\ aparelho.ligado /\ aparelho.vivo > 0
    /\ \/ linhas[aparelho.vivo].dono = aparelho.conta /\ linhas' = Esquece(aparelho.vivo)
       \/ UNCHANGED linhas
    /\ aparelho' = [aparelho EXCEPT !.vivo = 0, !.ligado = FALSE]
    /\ recusas' = 0
    /\ UNCHANGED <<chavesVars, cliente, envio>>

\* Somebody else enters on the device; the subscription is the browser's and stays.
OutraConta ==
    /\ cliente.fase = "nada"
    /\ \E u \in Contas \ {aparelho.conta} :
           aparelho' = [aparelho EXCEPT !.conta = u, !.ligado = FALSE]
    /\ UNCHANGED <<chavesVars, cliente, linhas, envio, recusas>>

\* pushsubscriptionchange: the browser drops the address; sw.js asks for another and sends it.
\* Any of its three requests may fail.
NavegadorTroca(i) ==
    /\ cliente.fase = "nada" /\ aparelho.vivo > 0
    /\ \/ /\ memoria[i] # "nenhum" /\ aparelho.ultimo < MaxEnderecos
          /\ \/ aparelho' = Assinado(memoria[i]) /\ Inscreve(aparelho'.vivo)
             \/ aparelho' = [Assinado(memoria[i]) EXCEPT !.ligado = FALSE] /\ UNCHANGED linhas
       \/ aparelho' = [aparelho EXCEPT !.vivo = 0, !.ligado = FALSE] /\ UNCHANGED linhas
    /\ recusas' = 0
    /\ UNCHANGED <<chavesVars, cliente, envio>>

-----------------------------------------------------------------------------
(* sendToUser, one device at a time *)

LeInscricao(i) ==
    /\ memoria[i] # "nenhum" /\ envio[i] = Parado
    /\ \E e \in Enderecos :
          /\ linhas[e] # Nenhuma
          /\ envio' = [envio EXCEPT ![i] = [endereco |-> e, falhas |-> linhas[e].falhas]]
    /\ UNCHANGED <<chavesVars, aparelhoVars, linhas, recusas>>

\* The service delivers to a live address whose key is the sender's; an address that is gone
\* is forgotten; a row that is no longer there is not written.  (A row that was deleted and
\* made again has another id in the code: here a late refusal may delete it too.)
Aceita(i, e) == aparelho.vivo = e /\ aparelho.chave[e] = memoria[i]
Conta(e, n) == IF linhas[e] = Nenhuma THEN linhas ELSE [linhas EXCEPT ![e].falhas = n]
Basta(falhas) == falhas + 1 >= MaxRecusas

Entrega(i) ==
    /\ envio[i] # Parado
    /\ LET e == envio[i].endereco
       IN  \/ /\ Aceita(i, e)
              /\ linhas' = Conta(e, 0)
              /\ UNCHANGED recusas
           \/ /\ aparelho.vivo # e
              /\ linhas' = Esquece(e)
              /\ UNCHANGED recusas
           \/ /\ aparelho.vivo = e /\ recusas < MaxRecusas
              /\ recusas' = recusas + 1
              /\ linhas' = IF Basta(envio[i].falhas) THEN Esquece(e) ELSE Conta(e, linhas[e].falhas + 1)
    /\ envio' = [envio EXCEPT ![i] = Parado]
    /\ UNCHANGED <<chavesVars, aparelhoVars>>

Next ==
    \/ \E i \in Instancias :
        \/ Le(i) \/ GravaChaves(i) \/ Rele(i)
        \/ BuscaChave(i) \/ NavegadorTroca(i) \/ LeInscricao(i) \/ Entrega(i)
    \/ Assina \/ Salva \/ Abre \/ Desliga \/ OutraConta
Spec == Init /\ [][Next]_vars

-----------------------------------------------------------------------------
(* Properties *)

\* "Outra instância pode ter gravado primeiro: vale a que está no banco": a subscription
\* that is alive has the key every instance sends with, whichever of them created the
\* pair and answered the device (a failed write of the pair is left out).
DevicesUseTheSharedKey ==
    \A i \in Instancias :
        memoria[i] # "nenhum" =>
            /\ memoria[i] = banco
            /\ aparelho.vivo > 0 => aparelho.chave[aparelho.vivo] = memoria[i]

\* A device that told the server it is on is forgotten only after MAX_FAILURES refusals,
\* however deliveries of several instances, changes of address and of account interleave.
KnownUntilRefused ==
    aparelho.ligado /\ linhas[aparelho.vivo] = Nenhuma => recusas >= MaxRecusas

PushReaches == DevicesUseTheSharedKey /\ KnownUntilRefused
=============================================================================
