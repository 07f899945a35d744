# Bolão Certo: formal models

Bolão Certo sells shares (*cotas*) of lottery pools (*bolões*): a customer
reserves a share, pays it by Pix, boleto or card, an operator registers the bet
of the whole pool at the lottery shop, CAIXA draws the contest and a worker
settles the shares.  Around that sale are payouts to affiliates, invoices,
limits of responsible play, accounts and roles, notices, files, statistics and
a web site that keeps copies of all of it.  What makes this hard to get right
and hard to test:

- the same row is moved by requests, webhooks (in any order, repeated, lost),
  jobs and people, and some of them decide on data they read long before they
  write;
- outside parties (payment providers, CAIXA and its mirrors, the issuer of
  invoices, mail and push servers) answer late, twice or never;
- a screen, a tab or a form acts on what it was told when it opened.

The models are in TLA+.  TLC checks small instances; the TLA+ proof system
proves the most important safety properties of the sale, the contests, the
payouts, the pools, the accounts and responsible play for every value of the
constants.  Names follow the source (Portuguese for data,
English for operations).

## 1. Inventory

### Components

Paths are under `src/apps/api/src` unless they say otherwise.

| Component | State it keeps | Operations | Where | Module |
|---|---|---|---|---|
| Sale of shares | `cotas`, `pagamentos`, `comissoes`, `boloes.cotasVendidas` | reserve, manual sale, expire, charge, webhook, reconcile, mark paid, cancel, pay commission | `shares/`, `payments/`, `operation/`, `admin/` | `VendaCotas`, `Estoque` |
| Payment providers | charges, attempts, tokens | create, retry, consult, cancel, notify | `payments/payment.provider.ts` | `Provedores`; one charge of it in `VendaCotas` |
| Registration of the bet | pool and shares registered, the proof | register, match the ticket | `operation/`, `pools/ticket-match.ts`, the panel | `VendaCotas`, `CicloBolao`, `Calculos` |
| Settlement worker | pool and shares settled | read the pools of a contest, one transaction each | `apps/worker/src/settle.ts` | `VendaCotas`, `Concursos`, `Calculos` |
| Pool life cycle | `boloes` | create, price, publish, edit, release, close, cancel, copy, remove | `pools/`, `notifications/pool-release.watcher.ts` | `CicloBolao`, `Assistente`, `Concursos` |
| Contest synchronisation | `concursos`, `resultados` | sync of worker and panel, predictions, manual contests, festivals, import | `apps/worker/src/main.ts`, `lotteries/`, `shared-types/src/upcoming.ts`, `festas.ts`, `caixa-client.ts` | `Concursos`, `Fontes` |
| Prize calculation | none (pure) | hits, tiers, division | `shared-types/src/settlement.ts` | `Calculos` |
| Pricing | `precos_loteria` | load, version, quote | `pricing/` | `Calculos`, `Assistente` |
| Responsible play | limits, pauses | set, consolidate, check | `common/responsible-play.service.ts` | `JogoResponsavel` |
| Commission payouts | batches | create, pay | `admin/admin.service.ts` | `Repasses` |
| Invoices | `notas_fiscais` | emit, query, cancel, register by hand | `fiscal/` | `NotaFiscal` |
| Notifications and push | notices, leases, subscriptions, keys | watch, claim, send, retry, subscribe | `notifications/`, `apps/web/lib/push.ts` | `Avisos`, `Push` |
| Accounts and roles | passwords, versions of sessions, roles, routes | login, reset, change, grant, guard | `auth/`, `account/`, `admin/` | `Contas`, `Rotas`, `Acesso` |
| Groups and affiliates | `afiliados`, `convites`, groups | invite, register, approve, network | `auth/`, `admin/` | `Rede` |
| Files | `anexos` and the files on disk | upload, publish, remove, mail | `attachments/` | `Arquivos`, `CicloBolao` |
| Number bank | `banco_numeros` | generate, type, remove, count uses | `numbers/` | `Banco` |
| Statistics and reports | none of their own | totals, analysis, suggestions, import of history | `statistics/`, `reports/`, `shared-types/src/lottery-stats.ts` | `Estatisticas`, `Relatorios` |
| Web site | what each screen was told | poll, filter, page, submit, sign in | `apps/web/` | `Tela`, `Paineis`, `Assistente`, `Acesso`, `Push` |

### How they interact

- **Shared rows.**  Every transaction of the API that changes a pool or its
  shares first locks the row of the pool (`SELECT ... FOR UPDATE`).  The
  settlement worker and the panel's `registerOperationReceipt` do not.
- **Calls to providers** happen outside any transaction, between a claim written
  before and an answer written after: a crash, a webhook, the expiry job or the
  desk may come in between.
- **Webhooks** resolve the event by consulting the provider, then apply it in a
  transaction of their own: what they apply may be old.
- **Jobs**: the expiry job (every minute), the reconciliation (guarded by a
  `running` flag, so at most one), the worker's synchronisation (every few
  minutes) and its settlement, the loops that deliver notices (in every
  instance of the API), the watcher of conditional pools.
- **Contests and pools** meet in three places: a pool sells only while its
  contest is open and before its cutoff; adoption moves the pools of a
  provisional festival to the official contest; settlement takes the registered
  pools of the contest that has just been written.
- **Screens** poll or reload; their forms carry what was on the screen.

### What is hard

Listed line by line under `hazards` in `PROJECT.json`, with the properties that
would catch each going wrong or the reason why none does.

### How the modules compose

```
Estoque  <--implements--  VendaCotas  <--EXTENDS--  Relatorios <-- MCVendaCotas
                             ^  EXTENDS
                            Tela <-- Vidas (INSTANCE Avisos) <-- MCVidas
Concursos <-- MCConcursos
Retaguarda: INSTANCE Repasses, Rede, Arquivos, Acesso (EXTENDS Rotas), NotaFiscal, Provedores,
          Push, Paineis
   ^  EXTENDS
Servicos: INSTANCE JogoResponsavel, Contas, CicloBolao, Calculos, Estatisticas,
          Assistente, Fontes, Banco

Vidas, Relatorios <-- VendaCotas_proofs       Concursos  <-- Concursos_proofs
JogoResponsavel   <-- JogoResponsavel_proofs  Contas     <-- Contas_proofs
Retaguarda        <-- Retaguarda_proofs
Servicos <--EXTENDS-- Calculos_proofs <--EXTENDS-- Estatisticas_proofs
Retaguarda_proofs, Estatisticas_proofs <--EXTENDS-- Servicos_proofs, which INSTANCEs the
          proofs of Contas and JogoResponsavel
```

`Retaguarda` declares the constants and the variables of the eight services whose
proofs share a module, and instantiates them; it is apart from `Servicos` so that
they can be proved about with nothing else in sight.

`Servicos` is one specification over the services that surround the sale.  Where
one depends on what another writes (the release of a pool, the refund of a sale,
the status of a share) its module has that change as an action of its
environment, at any moment, so that a property holds in the composition if it
holds when that service moves alone.  The variable `foco` names the service that
moves in a behaviour: the states of the services add up instead of multiplying.

## 2. The sale: `VendaCotas`, `Estoque`, `Relatorios`, `Tela`

`VendaCotas` models ONE pool, because stock, limits and locks never cross
pools.  A share is a row: quantity, buyer, affiliate and the methods the buyer
may choose are constants, since no operation changes them.

| Variable | Code |
|---|---|
| `concurso` | time relative to the cutoff of the contest, then its draw |
| `statusBolao`, `cotasVendidas` | `bolao.status`, the stock counter |
| `marcos` | what is on record of the pool: settled once, registered by the panel |
| `statusCota`, `expira` | `cota.status`, `cota.expiraReservaEm` |
| `statusPag`, `comPsp`, `origem`, `metodo` | `pagamento.status`, whether it has a provider id, gateway or manual, method |
| `comissao` | `comissao.status` |
| `cobranca` | the charge as the provider knows it (external) |
| `pedido`, `avisos`, `conciliacao`, `balcao`, `worker` | what each process is doing: `createForShare`, webhooks, `reconcilePending`, desk operation, `apurarConcurso` |

Each locked transaction is one action; each unlocked read and each provider call
is a step of its own (`CobrancaAbre` / `CobrancaNoProvedor` / `CobrancaGrava`,
`ConciliaLe` / `ConciliaConsulta` / `ConciliaAplica`, `MarkPaidLe` / `MarkPaidGrava`,
`CancelShareLe` / `CancelShareGrava`, `ComprovanteLe` / `ComprovanteGrava`,
`ApuraLe` / `ApuraGrava`).  Where the code
reads before the lock and checks again under it, the two are one action.
`settleTx`, `confirmPayment` and `releasePayment` are operators used by all the
actions that call them in the code.

Abstractions: guards that can only refuse a reservation (sale window, release
gate, attached proof, monthly limit, responsible play) are the refusal of
`Reserve`; amounts are "the right one" or "another one"; the total of shares is
a constant; legacy unlimited pools are left out.  The cancellation of a charge
by the reconciliation and the release that follows are one step.  The payment of
a manual sale is the `MarkPaid` that follows it.  Cora reports no refund in the
code, so there is none in the model.  The reconciliation reads payments of any age
(the code: of the last 10 days, 200 at a time).  The change of method of a charge,
which `createForShare` judges on an unlocked read, is one step with its claim, and a
share has one request for a charge in flight; the desk and the panel have one operation
in flight together.  `ApuraLe` is of a lottery settled
automatically; the pools of the others stay registered (section 3).

`Estoque` is what all that machinery promises about the stock, with no counter
and no payment: a set of shares holds units, and shares enter it only if their
units fit.  `VendaCotas` implements it with `ocupam <- Vivas`, the live shares.

`Relatorios` adds the reports of the panel (`reports.service.ts`,
`admin.service.ts`): each is an operator over the rows of `VendaCotas` that
selects and adds up as its own query does.  The queries of one report are taken
in one snapshot, which `Promise.all` does not guarantee; period filters and
files are left out.

`Tela` adds what the buyer sees: the checkout page and the payment panel of
*Minhas Cotas*, their polls (a set of answers on their way, late or lost) and
the list that takes the panel away.

| Property | What it says |
|---|---|
| `StockConserved` | until the pool is first settled the counter is the sum of the live shares, also when the panel writes on a pool it read before |
| `NeverOversold`, `EstoqueSpec` | the live shares fit in the pool at every step; the sale implements the abstract stock |
| `NoShareLeftBehind` | a cancelled pool has no live share and no late payment brings one back; a registered or settled pool has none merely paid, and one merely reserved only if the PANEL registered it; a settled pool has none merely registered |
| `NoPhantomRefund` | a gateway payment is shown refunded only if the provider returned the money |
| `PaidShareIsKept`, `RefundIsFinal` | late, repeated and reordered events neither undo a paid share nor a refund |
| `ReportsAgree` | stock, revenue and result are the same in every report that shows them, up to the differences named; every settled sale of an affiliate has its commission, and what is owed is covered by what is sold; no paid share is without a payment |
| `ReservationEnds`, `PaidIsConfirmed`, `StaleChargeIsClosed` | the jobs make up for lost webhooks |
| `PaidIsShown` | an open page stops waiting once the payment is confirmed |

| Run | Question and bounds | States |
|---|---|---|
| `VendaUnica` | one share, every payment method, desk, wrong amounts, 2 webhooks and 2 operations at once, 1 crash or failure | 550 k |
| `VendaDisputa` | a double boleto share and a single Pix share for 2 units, one operation at a time | 1.08 M |
| `Vidas` | liveness: one Pix share, everything may be in flight, 1 failure; the page of the buyer; the notices of section 4 | 111 k |
| `BaixaSobrescrita`, `EstornadaApurada`, `CobrancaIncerta`, `PagoSemCota` | violations, see *What the code does not do* | - |

One share is enough for the properties of a payment: no operation of one share
reads the payment of another.  Two shares are the smallest dispute: the double
one frees the room that either share may take again, and each share may be
released and taken again.  Two webhooks are enough to reorder events, two
operations to put a desk decision around a charge; one failure breaks any single
step, and the operation after it is the retry.  With two failures the run has
873 k states and the same result.  More shares and more failures are covered for
what is proved (section 6).

In `Vidas` one of three things is followed in a behaviour (`foco`): the sale,
the screens while the sale moves one operation at a time, or the notices.  The
sale reads nothing of the other two.  While the notices are followed the contest
is drawn first, since the fairness of the sale would otherwise have to be
satisfied by steps the behaviour leaves out.

`CHECK_DEADLOCK FALSE` in all runs: the life of a pool ends, and the bounds on
requests, failures and versions let a behaviour come to rest.

Fairness.  `Justica`: time passes; the cron jobs run again and again (weak
fairness of the expiry and of the reconciliation); an HTTP request or a webhook
that was accepted is served.  `TelaJustica`: the timers of an open page run, and
a connection that loses answers does not lose all of them (strong fairness of
taking an answer).  `Fairness` of `Avisos`: a loop that took a notice goes on,
unless its instance stops, and some loop reads again.  Nothing is assumed of
customers, providers, failures or operators; the liveness run leaves the desk
out, because an operator may take over any share by hand, and the registration by
the panel, whose interleavings would take it past its time.

### What the code does not do

- `BaixaSobrescrita`: `createForShare` writes the provider's answer by payment
  id; a manual payment confirmed meanwhile goes back to pending although its
  share is paid.
- `EstornadaApurada`: the worker writes shares it read before its transaction; a
  refund applied in between is overwritten and the refunded share is drawn.
- `CobrancaIncerta`: after a crash between the claim and the answer, the payment
  is pending with no provider id, and the reconciliation never reads it, although
  the message tells the customer to wait for the reconciliation.
- Registration: `operation.service.register` looks at the shares under the lock;
  `registerOperationReceipt`, the panel's way, registers a pool it read as closed
  or registered, whatever its shares are and whatever it is by then.  Both are
  actions (`Register`, `ComprovanteLe` / `ComprovanteGrava`).  A reservation may be
  left waiting in a registered pool (`RegistroNoPainel`, section 5; the exception
  of `NoShareLeftBehind`), and a write that comes late takes a settled or a
  cancelled pool back to `registrado`.
- `PagoSemCota`: a desk sale has no deadline; paid through its Pix charge after
  the cutoff it is confirmed while its share stays `reservada`, so the report of
  unpaid shares lists it as money to collect, not as money to give back.

Not stated as properties, because the code does not keep them: the limit per
person (a late payment settles a second share past it); that the amount of a
charge found already paid by a retry is compared (`createForShare` passes none);
that a payment marked `falhou` by an abandoned card attempt is reconciled when
another attempt is approved and its webhook lost.

## 3. The contests: `Concursos`

`Concursos` models ONE game: games share nothing.  Contests are numbers; the row
`Provisorio` is the festival that has no number yet.  The clock counts two
instants a day, because a cutoff and a draw may be in the morning (a festival)
or in the evening (all the others).

| Variable | Code |
|---|---|
| `automatica` | whether the game is in `AUTO_SETTLEMENT_MODALITIES`: the program settles its pools |
| `agora`, `calendario`, `caixa` | the clock, the real days of draw and what CAIXA has drawn and published (external) |
| `banco` | `concursos` with `resultados`: status, day, cutoff, festival mark, result |
| `bolao` | `boloes`: contest, status, and whether it has or had shares |
| `fase`, `visto`, `lote` | where the worker, the panel and the site are, the answer each works with, the pools the worker has read |

A synchronisation is `Inicia` (close what is past its cutoff), `ConsultaResponde`
or `ConsultaFalha` (CAIXA, or a fallback source up to `MaxAtraso` contests
behind, answers), `Grava` (one transaction: adoption of the festival by the two
contests, result of the drawn one, creation or update of the next one), the
settlement for the worker (which only reports the pools of a game that is settled
by hand), `Encerra` and `Cria` (`ensureUpcomingContests`, which
the site calls too).  The panel and the worker differ in `LinhaProxima`, as in
the code: only the panel looks at the festival mark.  The administrator creates
contests and festivals, numbers and removes them; pools are created, copied,
published, sold, closed, registered, cancelled and removed.  The API and the
worker crash apart from each other (`Queda`).

Abstractions: the game draws every day; the transactions that write contests are
atomic; the estimated prize, the release gate, the approval request and the
edition of a draft are left out; the first read of `ensureUpcomingContests` is
one step with the cutoffs before it; the administrator writes only numbers and
dates CAIXA announced; the panel's registration (`RegisterNoPainel`) is one step,
possible as long as a pool may have been read closed or registered, a pool
cancelled in between excepted; the model starts after a first synchronisation; the last
contest is never drawn, so the next one always has a day.

| Property | What it says |
|---|---|
| `NoSaleAfterDraw` | no pool is on sale after the draw it bets on, whatever the three writers predicted or learned late |
| `PoolHasContest` | the contest of a pool exists through adoption and removal of festivals |
| `PoolKeepsItsDraw` | a pool only moves from the provisional festival to the contest CAIXA draws on its day |
| `SettledWithResult` | a settled pool bets on a contest with a result |
| `SettledWhileCurrent` | of the games settled automatically, each registered pool of the last draw is settled, unless CAIXA draws the next contest first |

That EVERY registered pool is settled in the end is false: the pools of Super Sete
and Loteca wait for somebody (`settle.ts:14`), the worker settles
only the contest its source reports as the last one, and the import of old
results marks a contest drawn without settling its pools.  No document promises
it; it is recorded as a hazard.

| Run | Question and bounds | States |
|---|---|---|
| `ConcursosSeguros` | one pool, contests 1 to 3 drawn every day, a festival on day 1, a source one contest behind, worker, panel and site at once | 1.3 M |
| `ConcursosVida` | liveness: two pools, so that a settlement may fail half way | 120 k |
| `CorteDaFesta` | violation: the documentation says the synchronisation keeps the cutoff of a festival of the same day; the worker writes its default | - |

Three contests are the smallest instance with a drawn, a current and a predicted
contest; the festival on day 1 competes with the contest announced for that day.
Pools interact only in the batch of a settlement and in copies, hence the second
one in `ConcursosVida`.  Both runs follow a game the program settles by itself
(`Automaticas = {TRUE}`): of the others the worker only skips the settlement, so
that with both kinds `ConcursosSeguros` has 2.6 M states and the same result.
The proofs hold for either kind.

Fairness: the worker takes its next step again and again (`WF`: it runs every few
minutes), and it is not true that every answer is stale or that every
transaction fails or is cut by a crash for ever (`SF` of the steps of a run that
has the last draw, and of the transaction of each pool).  Retrying is all the
code has against those failures; without that assumption nothing is promised.

## 4. The notices: `Avisos`, `Push`

`Avisos` follows ONE person who asks to be told when a conditional pool releases
its shares.  `interesse` is the row of `bolao_interesses`, `aviso` the notice
(push claimed, mailed, attempts, lease with its token, backoff), `laco` what each
loop is doing between a claim and the act.  Leases run out, deliveries are not
confirmed, instances stop, the trigger of the pool is edited back.
`NoticedOnce`: one notice per interest, one push, and an e-mail repeated only
after a lease ran out or a delivery was not confirmed.  `InterestIsAnswered`:
whoever waits for a released pool is told, unless they leave, the release is
taken back, or an instance stops between marking the interest and creating the
notice, which nobody creates again.  Both are checked in `Vidas` with two loops,
two attempts, one crash and one withdrawal of the release.

`Push` follows ONE device: `banco` and `memoria` are the pair of keys in the
database and in each instance, `aparelho` the browser with its live address and
the key each address was made with, `linhas` the server's rows, `envio` a
delivery in progress.  `PushReaches` (in `PeopleAreInformed`): a live
subscription has the key every instance sends with, whichever created the pair;
and a device that told the server it is on is forgotten only after
`MAX_FAILURES` refusals.  A failed write of the pair is left out; the refusals
are in a row only as long as two instances do not send at once.

## 5. The services: `Servicos`

One run, about 1.3 million states in two to three minutes with two workers.  Its invariants
and action properties are conjunctions of those below, each guarded by the
`foco` it is about.  The bounds are in `Servicos.cfg`, and each module names its
own: two requests overlap wherever requests do (a third adds no new order of two
steps to a row no more than two of them write), and every counter that the code
compares with a limit reaches that limit.

History variables (`perdida`, `cruzados`, `liberada`, `veioDe`, `sessao`,
`palpites`, `cruzada`, `vigor`, `duvida`, `herdada`, `minha`, `vista`, `aprovado`,
`vezes`) are read by properties only.  Some of them mark behaviours in which the
code itself loses an update, so that a property can say what holds until then;
each is named as an exception in the property and listed in section 7.

| Module | State and steps | Property (part of) |
|---|---|---|
| `Repasses` | commissions and batches; `createRemittance` reads its list, then claims in a transaction; `payRemittance` reads, then pays; a refund comes any time | a commission is in the total of one batch at most unless two creations overlap, a batch pays only what it counts, what is paid stays paid (`PayoutsAddUp`) |
| `JogoResponsavel` | limit, pending limit, pause, spending; each request loads the row, may consolidate a due limit, decides and writes | limits rise only 24 hours after the request and pauses are not shortened; nothing is bought during a pause or past the limit in force when it is reserved (`PlaysByTheRules`) |
| `NotaFiscal` | the row of an invoice and what the issuer has for each reference; emission by operator and by job, query, cancellation, manual registration, answers lost | one live invoice per payment until somebody gives the reference up (`OneInvoice`) |
| `Contas` | password, version of sessions, lock, reset links; requests that hash in between | a session is accepted only with the password it was opened with; overlapping wrong guesses add one each at most (`AccountsAreSafe`) |
| `Rede` | roles, affiliate rows, groups, invites; `register`, `revokeInvite` and `updateAffiliateNetwork` in two steps | one account per invite and none while it is active; no cycle unless two changes overlap; role and approval agree (`NetworkIsSound`) |
| `CicloBolao` | the staff's side of a pool: publish, edit, release, register with proof, close, remove a proof; shares sold by the site or at the desk, paid, cancelled, revived, refunded | a live share has the prices and games of its pool unless a late payment revived it, and a conditional pool where the site sold is released; a registered bet keeps a proof unless two requests overlap (`BuyersKeepTheirTerms`, `ProofIsKept`) |
| `Arquivos` | upload in steps (file, row), publication, removal, e-mails with the files read for them; lost answers, crashes | every participant gets every proof whatever crosses, nobody another's receipt, rows have their file, no twin files (`ProofIsKept`) |
| `Calculos` | each computation on bounded inputs: division of a prize, tiers, price and plan of a pool, multiples, ticket | parts add up and are fair to a cent, the price covers the bet, client and server agree, the ticket is accepted iff it is the bet (`MoneyAddsUp`) |
| `Assistente` | table of prices with its first load by several instances, the form with its quote and the quotes on their way, the creation of the pool | one price in force, the quote is of the form on the screen, the pool sells for what was shown and covers its cost (`MoneyAddsUp`) |
| `Estatisticas` | frequencies, delays, pairs, analysis of a game, odds, generation, suggestion, one run of the import | each against a reference definition; the import reports what is left (`StatisticsAgree`) |
| `Fontes` | calls to CAIXA and mirrors: skip, request, answer or failure, retries; rests shared by overlapping calls | a call that fails has asked somebody, a mirror answers only after those before it were asked or rested (`StatisticsAgree`) |
| `Banco` | games kept and their uses; `markUsed` in three statements | each pool that used a game is counted once, unless it was removed meanwhile (`StatisticsAgree`) |
| `Provedores` | creation with keys and retries, token of Cora, attempts of a card page, events, consultations | one charge, a charge given up at Cora cannot be paid, approved money is found (`ChargesAreSound`) |
| `Push` | section 4 | `PeopleAreInformed` |
| `Paineis` | ONE screen of the panels with its filter, page, requests in flight, forms | at rest a screen shows what its filter says, never goes back, shows what was written; the spinner is true (`PeopleAreInformed`) |
| `Acesso`, `Rotas` | accounts with role and version, one browser (cookie, tab), changes of role in flight; the table of all routes with the roles that reach them | a tab offers only what the API allows, sign-in lands inside, stale tabs are out (`AccountsAreSafe`); administrators are made and unmade by the main account (`PlaysByTheRules`) |

Facts worth knowing about single modules:

- `JogoResponsavel`, `NotaFiscal`, `Contas`: no row is locked.  The properties
  hold until one request writes over what it had not read (`perdida`), which the
  code does not prevent.  In `JogoResponsavel` a limit is lost too when `setLimit`
  compares with the old limit after another request has put a pending one in
  force (`Ultrapassa`); attempting the proof of `LoosensLate` found that case, which
  takes two limits and a delay longer than the bounds of `Servicos` allow.
- `Calculos` and `Estatisticas` make ONE computation per behaviour and keep its
  input and result; inputs are enumerated from small sets, and the definitions are
  compared with definitions by counting (subsets, sequences).  Lotofácil with 17
  numbers or more can never be "balanced": every suggestion is relaxed.
- `Rotas` has no variable.  It is the table of controllers (method by method:
  which roles reach it) and of screens (which routes each calls); `Acesso` checks
  one against the other.  In `Acesso`, while a browser is in use one change of a
  role is in flight at a time, and while it is the main account's there is one
  change at all, since nobody else may touch it.
- `Paineis` has a record per screen: how it treats a late answer (number, abort,
  none), what clears it, what its forms do.  All screens share the actions.
- `RegistroNoPainel` (violation) checks `CicloBolao` alone: the panel registers a
  bet without looking at the shares, so a pool is registered with a share still
  waiting for its payment.

## 6. Proofs

All are safety theorems, for every value of the constants that satisfies the
named assumptions (`CotasAssumption` and the like, `ConcursosAssumption`,
`RetaguardaAssumption`, `AparelhosAssumption`, `LimitesDaRetaguarda`, and `LimitesAssumption`,
`TentativasAssumption`, `BoundsAssumption`, `PrecosAssumption`, `FontesAssumption`, `PartesAssumption`,
`JogosAssumption`, `BasesAssumption` of `Servicos`: finitely many shares with a number each, counts
and windows that are natural numbers, groups and bars of at least one) or, in the modules that `Servicos` instantiates, the
hypotheses that a theorem states itself.

**`VendaCotas_proofs`.**  The inductive invariant is
`IInv == TypeOK /\ RowInv /\ StockInv`.  `StockConserved` is not inductive as it
stands.  The settlement writes the shares the worker READ, so a share released
in between becomes live again: the units of the live shares *together with* the
shares read must fit in the pool.  That holds because from the registration on
nothing enters the stock (`worker.lido => statusBolao = "registrado"`), and the
worker reads only live shares.  The late write of the panel does not open a
pool and moves no share in or out of the stock; that an open pool was never
settled (`marcos = {}`) makes the counter right whenever it is read.  `RowInv` says a payment in use belongs to a share
that exists, which is why a confirmation cannot touch a free row.  Theorems:
`TypeCorrect`, `SpecIInv`, `StockCorrect` (`StockConserved`), `NoOversale`
(`NeverOversold`), `SaleImplementsStock` (`Spec => EstoqueSpec`; every step maps
to `Ocupa`, `Devolve` or a stutter).

*What becomes of a share.*  `NothingLeftBehind`: `NoShareLeftBehind`.  While the pool
is closed to sales a step of the site, the provider or the desk leaves a share as
it is or undoes it (`Destino`, one lemma per operator).  What remains is the
worker: `DestinoInv` adds that the shares it has read are all the registered
ones, so that settling them settles the pool.  The registration leaves nothing
reserved under the lock; the panel's does, with `marcos` as its witness, and
turns what it finds paid into registered, whatever the pool had become.

*What becomes of the money.*  `NoRefundInvented`, `PaidShareKept`, `RefundFinal`, from
`PagInv`: for each share `Conv` relates payment and charge, and `AvisosInv`,
`ConciliaInv`, `BalcaoInv` say that what is in flight (a webhook, a round of the
reconciliation, a desk operation) is never ahead of what the provider knows: a
notice of a refund is of money that went back, a charge being created has no
identifier yet, the desk refunds only what it received.  Each operator is first
shown to leave a share alone, pay it, fail it or refund it; each of those is safe
(`Seguro`), and what is in flight persists.

*What follows the sale*, in the same module.  `VidasSpec => Spec`
(`SaleIsTheSale`): screens and notices change nothing of the sale, so all the above
holds while they are followed.  `VidasTypeCorrect` (`VidasTypeOK`).

- `NoticesGoOnce` (`NoticedOnce`), if the loops are finitely many and a token is never
  the absence of one.  What a loop holds between two writes makes the invariant: a
  loop between the mark and the notice is the only one that ever marks
  (`InteresseInv`); a loop between the claim and the push is the only one that
  sends it (`TelefoneInv`); and e-mails sent, loops about to send and the claim
  that may still be made are together at most one more than the doubts
  (`EmailInv`), so that whoever claims again is paid for by a lease that ran out,
  a refusal, or a delivery without an answer.
- `ReportsNeverDisagree` (`ReportsAgree`): from the invariants of the stock and of the
  payments, and `ComissaoInv`: a commission is of a sale of an affiliate, there as
  soon as the sale is settled, due only while it is, and what the worker has read
  already has it.  Each comparison of two reports is then one of sets of rows, and
  units of disjoint sets add up (`QuantasSoma`).  The sum of the sheet of payments is
  recursive: `Resultados` gives its value without recursion and satisfies the same
  equation (`SomaExiste`), and a least set of rows on which another solution
  differs is a contradiction (`SomaUnica`, by the well-foundedness of finite sets).

**`Concursos_proofs`.**  `IInv == TypeOK /\ ProcInv /\ FestaInv /\ LoteInv /\
PoolHasContest`.  `ProcInv`: an answer of CAIXA has a next contest, so `Grava`
writes two rows that exist.  `FestaInv`: the provisional festival keeps the day
it was born with, which is what makes the adoption sound.  `LoteInv`: nobody but
the worker takes a pool out of "registrado", so what it settles has not been
removed.  The lemma `GravaLinhas` says all that an answer does to the table and
carries the other proofs.  Theorems:

- `TypeCorrect`, `PoolsHaveContests`, `PoolsKeepTheirDraw`: without hypotheses;
- `NothingSoldAfterDraw`: `NoSaleAfterDraw`, if CAIXA draws at most one contest a
  day (`UmPorDia`) and the festival at the usual hour (`FestaCedo = FALSE`).
  Calendars with postponed draws are included.  The invariant `DateInv` says no
  row has a day or a cutoff later than the real draw of its number: a prediction
  adds one day to the last contest known, and a real draw is at least one day
  after the one before.  Both hypotheses are needed: `CorteDaFesta` shows the
  worker giving a morning festival the cutoff of the evening.
- `SettledByTheResult`: `SettledWithResult`, under the same two hypotheses (and
  that no calendar moves the first contest).  The invariant has three parts.
  `SorteioInv`: a row that says "drawn" is of a number really drawn, and has a
  result.  `ResultadoInv`: no step takes a result away, because an answer about a
  drawn number always carries it.  `ApuraInv`: what the worker has read and is
  about to settle belongs to a contest that still has the result it has written,
  or has no pool any more, and the festival of that day has been adopted.  Without
  `FestaCedo = FALSE` it is false, and TLC gives the behaviour: a festival drawn
  in the morning is deleted by the administrator while it has no pool, a late
  answer of the panel brings its row back with the cutoff of the evening, a pool
  is created, sold and registered against it, and settled from the answer the
  worker had written before the deletion.

**`Contas_proofs`.**  `SessionsDie` (`OldSessionsDie`), with no hypothesis: whatever
carries the present version of the account, a session or a login in flight, was
given it under the present password (`VersaoInv`).  `GuessesBounded`
(`GuessesAreBounded`), for a positive limit and finitely many requests: each guess
is in the counter or in a request that is still to count it, and a counter past
the limit has a request about to lock (`PalpitesInv`).

**`JogoResponsavel_proofs`.**  `LimitsLoosenLate` (`LoosensLate`) and
`BuysAreWithinTheRules` (`BuysWithinTheRules`), if the constants are natural numbers
(`Parametros`).  Until an update is lost, what a request has loaded is the row as it
is, or as it was before another request consolidated a limit already due
(`Fiel`); a pending limit is above the one in force and is the one asked for last
(`Sobe`, `Pendencia`); an approved purchase fits the limit whatever time passes
(`AprovadaInv`).

**`Retaguarda_proofs`.**  Inductive invariants of the services of `Retaguarda`:

- `PayoutsInv == TypeOK /\ LotesInv /\ SomaInv /\ ListaInv`.  That a commission is
  in one total at most is not inductive: the list a creation has read must be
  apart from all totals until it is written (`ListaInv`), which two creations at
  once break.
- `ChefeInv`: the main account is an administrator, active, with no row as an
  affiliate; and a change of a role in flight that makes an administrator, or
  touches the main account, was asked by the main account or by whom it is about.
  `Hierarquia` is what one step does to administrators.
- `EntradaInv`: the session of the browser is of a version its account has had, so
  that a change of role or of access, which raises the version, ends it; whoever
  just signed in is where the role may be, and a tab that shows another role has
  lost its session (each unless `approveAffiliate` changed the role).  What a tab
  offers follows from the table of routes, a constant: `SiteAberto`, `AreaAberta`,
  `PainelAberto` and `OperacaoAberta` show, screen by screen, that each route it
  calls is one the guards of its controller admit that role to.
- `NotaInv == F!TypeOK /\ RefUnica`, of the invoices, if the bound on references is
  positive.  What the database says of a payment and what the issuer has differ as
  long as an answer is under way or lost, so `RefUnica` is about references: until
  somebody gives one up there is one, the row, the issuer and every request in
  flight know no other, and neither a cancellation nor a manual registration has
  happened to it.
- `FilesInv`: a row that exists has its file unless its answer was lost
  (`DiscoInv`); twin files mean two uploads that crossed (`GemeosInv`); what is
  announced, in the mail or received is of the pool or of its buyer (`CorreioInv`);
  and who has paid has each published file, or a notice or an e-mail on its way
  (`ChegaInv`).
- `RedeInv == RedeTipo /\ RedeCadastro /\ RedeConvites /\ RedePedidos /\ RedeArvore`.  "No cycle" is
  stated over sets closed upwards: no account is in the set of those above it
  (`SemCiclo`), and the set above is the least closed one, so that giving `p` a
  parent that is not under `p` cannot close a cycle, without induction over paths
  (`AncestraisDe` shows that `Ancestrais`, by which `Rede` computes the walk, gives
  that set).  An invite never made two accounts, and none while it is active,
  because `register` changes its status only if it is still active.
- `ChargesInv`: a payment has one charge and nothing on its way makes another
  (`UmaInv`); while it is being created it has no identifier, and nothing is read
  of a payment without one (`IdInv`); an event is of a charge that was so once
  (`EventosInv`); no answer read or written is ahead of the provider, which never
  takes an approval back except by a refund (`SabeInv`).  That a charge given up
  cannot be paid holds because only the last step of the reconciliation, which
  has the provider cancel it first, gives up a charge of Cora that was open.
- `PushInv`: whoever has a key (an instance, the device, a subscription half made)
  has that of the database (`ChaveInv`); the live address of the device is the last
  it was given (`AparelhoInv`), only addresses given have a row (`LinhasInv`), each
  row is of an account (`DonoInv`); and the failures counted, in a row or in what
  a delivery read of it, were refusals (`FalhasInv`).
- `ScreensInv` rests on the table of screens, checked entry by entry
  (`TabelaHolds`).  Each request has a number of its own (`FormaInv`); the last one
  is of what the person sees, and as new as what was written from the screen
  (`UltimaInv`); a screen that drops late answers waits for that of its last
  request, and shows the newest it was given (`GuardaInv`), also where a form is
  answered with the new state (`CartaoInv`).  This attempt found the model too
  generous: with two forms in flight on a card that shows the answer, an older
  answer could arrive last.  The cards disable their button while a form is away
  (`busy` in `profile-panel.tsx` and `account-extras.tsx`); `Envia` says so now.  The
  bound of one form in the run of `Servicos` had hidden it.

**`Calculos_proofs`.**  The computations on money, of the instance `K` of `Servicos`.
Sums, folds and recursive functions are proved about without a theorem that
takes an operator as its parameter:

- `SubsetInduction`, `NumberInduction`: a set of subsets that holds the empty set and,
  with a set, that set and one element more, holds them all (by a least
  counterexample, `LeastSet`); so a statement is named as a set and not as an operator.
- `RecursionExists`: for any base, step and order in which elements are taken away, the
  least relation closed under the step is a function; so the CHOOSE by which the
  library defines a fold, and the recursive functions of the model, have a value, and
  their equation holds of it.  `FoldExists` is that for a sequence, the last element
  first.  `SumUnique` says a sum has one value: `Total`, the number of marks, as many
  for each element as it adds.
- Theorems.  `PricesAndPrizesAgree`: `PrecoFecha`, `PlanoConfere` and `PremioDoSorteio`
  for every cost, number of shares, typed price and fee (of a percentage, those of the
  form's set), from what a ceiling and a rounding are (`CeilingIs`, `RoundingIs`).
  `PrizesAreDivided`: the parts of a prize (`PartesSomam`).  The cents that the floors
  leave are fewer than the shares (`CentsLeft`), the order of the cents is total even
  among equal remainders (`OrderOfCents`), so each cent goes to another share
  (`CentsGiven`); and two shares of different sizes with the same floor have their
  remainders in their order (`PartsAreOrdered`).  `TicketsAndTables`: the price of a
  multiple is what its simple bets cost (`TabelaConta`), because the loop multiplies
  and divides exactly (`ProductIs`, `ChooseIs`, from the step of Pascal's triangle
  `ChoicesStep`); and a ticket of any length is accepted iff it is the bet
  (`BilheteConfere`), with `Conferidos`: after `n` games the pool's are, each as many
  times, those left and those gone through, or the ticket has one too many.

**`Estatisticas_proofs`.**  The statistics, of the instance `E`, for any draws, windows,
games and limits.  The model names what each pass does with one element (`Emenda`,
`Observa`, `Pede`, `Supera`) and sorts by `EmOrdem`, where the place of an element is how
many go before it, a form the provers can follow (`OrderIs`); an invariant says
what a pass has counted after `n` elements.

- `HistoryAndAnalysis` (`HistoricoBate`, `AnaliseBate`).  The pass over the draws counts for
  each number how often it came out, when last, and its longest absence
  (`Observadas`).  What the tables add draw by draw is what they add number by number
  (`TotalsExchange`), and what they add value by value too (`CountedByValue`).
  Pairs and the longest run are those of the game (`Corrido`).
- `OddsAndPromises` (`ChancesExatas`, `GeradosServem`): the subsets that meet a set in
  `h` elements are the choices in it times those outside (`ChoicesOfParts`), which is
  what the odds and the parity multiply.
- `GamesAsAsked`: fixed numbers and a sample of the others make a game of the size asked
  for (`SampleCompletes`).
- `SuggestionsAndImports` (`SugestaoSemAvisos`, `RegrasServem`, `ImportacaoConta`).  Each
  check of a balanced suggestion excludes a warning of the analysis.  Lottery by
  lottery, a bet of any size can reach every tier, and the neighbours any bet has are
  too many for a balanced one only in Lotofácil with 17 numbers or more.  The import has
  asked for a first part of the queue, and for all of it unless its last three
  contests were asked in vain (`PedidosAte`).

**`Servicos_proofs`.** What holds of the services holds of the composition. The
proofs of accounts and of responsible play are instantiated with the variables of
`Servicos`: `...Agree` shows that `Init` and each step are the initial states and
steps of that instance (or leave its variables alone), and `...Moves` that `Spec`
implies its specification, so that its theorems apply. The invariants of
`Retaguarda_proofs` carry over in the same way. Theorems, with no hypothesis beyond
the assumptions of the modules: `PayoutsCorrect` (`PayoutsAddUp`),
`OneInvoicePerSale` (`OneInvoice`), `NetworkKept` (`NetworkIsSound`), `TermsAreKept`
(`BuyersKeepTheirTerms`), `ProofsAreKept` (`ProofIsKept`), `NobodyBendsTheRules`
(`PlaysByTheRules`), `HierarchyKept` (administrators), `AccountsSafe`
(`AccountsAreSafe`: `AccountsHold` for sessions and guesses, `AccessSound` for
access). `ChargesCorrect` (`ChargesAreSound`) and `PeopleInformed`
(`PeopleAreInformed`) are of that kind too. `BoundsAssumption` asks finitely many
requests (guesses are counted against them) and natural bounds.

The services without a module of their own for proofs have theirs here:

- `DraftsKept` (`DraftsAreAsShown`, a part of `MoneyAddsUp`), with
  `AssistenteInv`: one version of the table is in force, however many instances
  load it (`TabelaInv`); quotes on their way, and the one on the screen, are of the
  form and were made from a loaded table (`CotacoesInv`); a creation holds prices
  that were in force since it was sent (`CriacaoInv`).
- `SourcesKept` (`SourcesAreAsked`, a part of `StatisticsAgree`), with `FontesInv`: the
  sources before the present one are asked or skipped, and a call that found one
  source awake and asked nobody yet either still has it ahead or was crossed.  The
  attempt found the model wrong: `fetchCaixaContest` looks at the rests BEFORE the
  attempts at a source, not before each of them, and the answer comes after an
  `await`.  Skip, request and answer are steps of their own now (`Pula`, `Pergunta`,
  `Responde`), and a source sent to rest between two attempts is asked again.
- `UsesKept` (`UsesAreCounted`, a part of `StatisticsAgree`), with `BancoInv`: for each
  game, the uses counted and those that calls in flight have still to count
  (`DevemContar`) are together no more than the calls.
- `ServicesTyped` (`TypeOK`): types with their bounds.  Several bounds hold because of
  the invariants: a counter of the code stops where what reads it stops
  (`AccountsTyped` in `Contas_proofs`, the last section of `Retaguarda_proofs`).
- `MoneyIsCorrect` (`MoneyAddsUp`) and `StatisticsHold` (`StatisticsAgree`) put the parts
  together.
- Pools, of the instance `B` (`PoolTypeCorrect`, `PoolKeepsTerms`, `PoolProvaInv`,
  `PoolKeepsProofs`), for any shares, proofs, requests and natural bounds on prizes and
  editions.  What buyers contracted is inductive with the types, because the edition
  and the release look at the shares again under the lock.  It is so for each live
  share that no late payment revived and, as to the release, for those the site
  sold: a desk sale and a revival look neither at the release nor at the values.  The proof of a placed bet
  is not: it needs what a request relies on between its read and its write
  (`ProvaInv`): a registration alone has a proof in the file or its link, a removal
  alone leaves another proof.  `TermsAreKept` and `ProofsAreKept` follow, the
  second with what `Retaguarda_proofs` says of the files.

Proving changed the model where it said more, less or something else than the code:
two arms of a CASE in `planPricing` overlapped (what the share made from its part
pays is asked first, as in the code), sources were asked in one step
(`SourcesKept`), and a card with two forms in flight (`ScreensInv`).

**Only model-checked:** the liveness properties (`ReservationEnds`, `PaidIsConfirmed`,
`StaleChargeIsClosed`, `PaidIsShown`, `InterestIsAnswered`, `SettledWhileCurrent`): the
prover handles neither fairness nor ENABLED.  Every invariant and every action
property of the passing runs is stated by a theorem.

## 7. What the models show of the code

Beyond the six runs that expect a violation (section 2, `CorteDaFesta`,
`RegistroNoPainel`), writing the models showed the following; each is an
exception named in a property or a hazard with a note.

Roles and screens:

- The operation team is shown "Remover" of a file and "Publicar bolão e abrir
  vendas", whose routes are for administrators only (`BotoesRecusados`).
- `lib/roles.ts` lets an administrator land in the area of affiliates, whose
  routes are for affiliates only.
- `approveAffiliate` makes an affiliate of whoever owns the row, an administrator
  too, without `assertCanManage`, `lockAdminActor` or the end of sessions
  (`aprovado`).  `updateUserRole` checks a target it read before its transaction.
- Routes without a screen: the queue and register of `operation`, KYC of a user,
  reconciliation, `createPartner`, `requestAffiliate`, `updateAffiliateNetwork`
  (its table is not used), receipt and prize of a share.

Screens that load:

- `notify` of the back office is made at each render and is a dependency of `load`
  in several screens: a load that fails notifies, renders and loads again with no
  pause.
- `await load()` after a form uses the filter of the render the form was sent
  from, and drops the answer of the present one (`herdada`).
- The sheets of a client and of a pool keep the previous one while the next
  loads; the second requests of the overview are not numbered; the account drops
  a load asked while another is in flight.
- `admin-dashboard.tsx:167` takes the imported contests off `faltando`, from
  which the service has already taken them; `admin-crm-tools.tsx` reads
  `clientes` and `ticketMedioPorCliente`, the service sends `apostadores` and
  `ticketMedioPorApostador`.

Terms of a pool: an edition looks at the live shares, and a cancelled one is not
live.  A payment that comes late takes that share back (`settleTx`,
`payments.service.ts:272`) as its buyer accepted it, in a pool that may have other
values and games since (`pools.service.ts:210`), or wait for its release again.  A
desk sale (`payments.service.ts:426`) looks neither at the release of a conditional
pool nor at its target, and releases nothing.  Both are named in
`BuyersKeepTheirTerms` (`via`).

Registration: the panel's write (`admin.service.ts:840`) is described in section 2.

Bank of numbers: it accepts 1 to 100 for Lotomania (`numbers.rules.ts:7`), while
pools, generator and statistics use 0 to 99.  Games with 0 are stored by
`generate`, which does not look at them, and never counted by `markUsed`, so the
filter "without use" offers used games; a 100 typed is kept and refused later by
the table of prices.

Lost updates: two payout batches created at once may both count a commission
(`cruzados`); requests of responsible play write over each other, or compare with
a limit another has just replaced (`perdida`); two
changes of the network at once may close a cycle; a removal of a proof and a
registration, or two removals, may leave a registered bet without one; an invite
revoked by hand while it is used; two uploads of the same file.

## 8. Not modelled

- **Credentials**: the second factor, its recovery codes, cryptography, the limit
  of reset links per hour, change of e-mail.
- **Texts and layout**: reports as CSV, XLSX or PDF, messages, mass
  communications, the home page, segments of CRM, legal pages, period filters
  and paging.
- **Pool**: the approval request and its refusal, the edition of sales rules,
  duplication of prices, `removeUnused` of drafts in `CicloBolao` (contests of
  copies are in `Concursos`), pools of immutable prices, `hasSaleProof`; the
  settlement of a pool is one step in `CicloBolao`.
- **Affiliates**: members and capacity of a group, permissions, expiry of invites.
- **Reports**: queries of one report at different moments.
- **Statistics**: the cache of five minutes, malformed results, quantiles, the
  test of uniformity, the weights of suggestions.  `suggest` does not check that
  enough numbers remain, and a number both fixed and excluded is counted as fixed
  and dropped when drawing.
- **Price of a pool**: an affiliate who does without the table, games that arrive
  after the lottery was changed, float rounding of decimal percentages, the
  EXCLUDE constraint of `precos_loteria` (a second price in force is impossible
  in the model without it).
- **Sources**: the 404 of one old contest sends a source to rest for everyone;
  this is in the code and in the model, and no property forbids it.
- **Devices**: the VAPID keys of the environment (`push.service.ts:41`), which come
  before those of the database; with them no keys are made and no race exists.
- **Files**: limits of size and number, e-mails given up after their attempts,
  files that are not proofs (later buyers are not sent them).
- **Screens**: debounce timers, the clock of the device that hides a panel,
  several forms at once, drafts overwritten in the sheet of a client.
- **Access**: routing by host, launch of the installed site, checks inside
  services other than the hierarchy.
- **Infrastructure**: build, deploy, migrations, storage drivers, transport and
  certificates of providers, generated code.

## 9. Plan

Done, in this order: the sale and its stock, their proofs; contests and pools,
their proofs; `Servicos` with its sixteen services, the reports, the notices,
the screens; the proofs of the fate of shares and of the events of a payment; the
proofs of payouts, pools, accounts and responsible play; those of settlement,
invoices, charges, devices and screens; those of notices, reports, sources, the
bank, the form of a new pool, prices, and the types of all services; those of the
remaining computations (prizes, tickets, odds, history, suggestions, imports), so that
of what the runs check only liveness has no proof.  What would add most next:

1. The approval request and the sales rules in `CicloBolao`; the second factor in
   `Contas`.
2. Segments of CRM and mass communications, which read the same rows as the
   reports and may disagree with them.
