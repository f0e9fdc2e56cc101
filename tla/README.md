# Credline: TLA+ models, model checking and proofs

This directory holds TLA+ models of the parts of Credline in which several actors
share state (fraud response, audit trail, scoring, the stream engine, the lending
contracts, the frontend with the services its pages talk to), the TLC configurations that check them on small instances, and proofs of
their most important properties for every value of their parameters. The modules
follow the code under `src/`, not its documentation; where the two disagree this file
says so. `PROJECT.json` is the index: components, runs, the source lines each
definition stands for, the hazards each property is aimed at, and the theorems.

    tlc -workers 2 -config SoarConcurrent.cfg SoarInvestigation.tla    # one run
    tlapm SoarInvestigation_proofs.tla                                 # one set of proofs

Contents: 1 The system; 2 Modules; 3 Runs; 4 Fairness; 5 Proofs; 6 Where code and
documentation disagree; 7 What is not modelled; 8 What remains.

## 1. The system

Credline is a platform for credit and fraud decisions: Python services behind one
FastAPI application, a Rust stream engine, three Solidity contracts, a React frontend, a
checkout SDK, a mobile app and deployment files. Most services compute an answer from
their arguments. The following keep state that several actors read and write.

**SOAR orchestrator** (`src/soar/orchestrator.py`, `models.py`).
State: in the audit database, one document per investigation (state, triage verdict,
reports, confidence, final verdict, remediation result) and one per escalation.
Operations: `handle_alert` (triage, terminal investigation, compliance report,
consensus, then remediation or escalation to an analyst) and
`process_escalation_decision`. Both await between any two writes; every API request
builds an orchestrator of its own, so nothing but the database orders them.
Calls the agents (executor threads), the banking bridge and the audit store.
Hard: two decisions on one escalation, an exception after a verdict was written, a
worker that dies with the account half frozen.
Correct if: no account is frozen without authority; stored verdicts are backed by a
consensus or an approval; an escalation shown as pending really waits; an
investigation does not stay in REMEDIATING while somebody drives it.

**Legacy banking bridge** (`src/soar/legacy_bridge.py`).
Drives the bank's web portal with up to three attempts and a mock browser as a
fallback. Hard: what an attempt did and what it reports are independent.

**SOAR audit store** (`src/soar/audit_store.py`).
State: actions and a hash chain of links per investigation. `log_action` reads the last
hash, inserts the action and then the link, in separate calls; `verify_chain` sorts by
wall-clock timestamps. Hard: overlapping calls, lagging clocks, death in between.
Correct if: a chain nobody tampered with verifies; links name links and actions that
exist.

**RWA collateral vault** (`src/contracts/solidity/RwaCollateralVault.sol`).
State: assets with their share supply, price and limit; free shares; collateral and debt
per account and asset. Operations: mint, transfer, deposit, withdraw, borrow, repay,
price update, liquidate. Hard: truncating divisions in the health factor and in the
seizure, the order of update and check, the id 0 used for "absent".
Correct if: shares are conserved; only the oracle makes a loan unhealthy; a liquidation
in time leaves the remaining debt at least as well covered.

**Credit default swap** (`src/contracts/solidity/CreditDefaultSwap.sol`).
State: reserves, sellers' shares, one protection per buyer, the list of buyers.
Operations: deposit, withdraw, buy, settle a credit event, set the risk parameters.
Hard: rounding of shares, reserves that run out in the middle of the loop over the
buyers, a second purchase by a listed buyer.
Correct if: reserves leave only to sellers who burn shares and to buyers who are paid
once and in full; the rest keep the worth of their shares.

**Liquidity syndicate** (`src/contracts/solidity/LiquiditySyndicate.sol`).
State: providers' shares, liquid tokens, loans. Operations: deposit, withdraw, issue and
repay a loan, set the risk cap. Hard: shares are priced by liquid tokens while loans
are out. Correct if: what the pool owns shrinks only when shares are burned.

**Transaction controller** (`src/core_engine/transaction_controller.py`).
State, per process: an idempotency cache with bulk eviction and the circuit breaker of
the graph model. Operation: `score_transaction`. Hard: requests interleave between the
cache check and the cache write; any subset of the three models may be missing.
Correct if: a retry gets its answer back as long as the cache can hold it; nothing is
approved unseen.

**Core engine** (`src/core_engine/rust/src/main.rs`).
State: idempotency cache, semaphore, graph buffer. A loop spawns one task per message;
tasks run on several threads. Hard: the check and the insert of the cache are far apart;
the buffer's lock is dropped before the batch is written; a crash loses the memory.
Correct if: permits are conserved, only whole batches leave, a transaction is cached only
once its write is taken, and every task ends.

**Frontend** (`src/frontend/src`, `src/sdk`, `src/mobile`). About seventy panels: the admin
console's pages, the tax command centre, the operations, developer, strategy, treasury and
institutional portals, the shell with its store, the dashboard, the checkout, the wallet and
the public pages. State: the hooks of a panel, the handlers it has suspended at an await,
the timers and intervals it started; beyond the panel a store mirrored to local storage, and
what the services behind some pages keep (filings and their payments, developer keys, the
inbox of the negotiation agent, vault orders, quarantine records, the database link). These
services keep it in the memory of a process, and the repository runs four workers of them in each
of three or more replicas (`Dockerfile:61`, `k8s/api-deployment.yaml:8`).
Operations: the user's clicks and edits, the ticks of intervals, and the continuation of a
handler after a fetch or a timer. JavaScript runs one of them at a time, and anything may
run between two awaits of one handler: a row is selected, a form edited, a dialogue closed,
the page left, the same handler started again.
Hard: closures that use the values of the click after the panel has changed; answers in
another order than their requests; spinners and result hooks that several handlers share; a
payment whose answer is lost; intervals that outlive the page; polls that merge what the
user has changed.
Correct if: a spinner turns exactly while its handler is out; a result on display belongs to
the last run and is never replaced by an older one; nothing is sent under the mark of another
row, and no preparation is sent twice; what is registered is what was previewed; no process
charges a filing twice; decisions survive polls and forecasts; no timer is left behind; every
handler ends. Two things a user would expect do not hold and are described in section 6: that
what is sent is what was prepared, and that all processes together charge a filing once.

How they interact. The frontend calls the services over HTTP and shares nothing else with
them; two panels share no hook, and a route change unmounts a page. The API calls the orchestrator; the orchestrator writes through the
audit store and calls the bridge. The controller and the Rust engine are two
implementations of the scoring path and share no state. The contracts are independent of
each other and of the services. The remaining components are listed in section 7 with the
reason each is left out.

## 2. Modules

| module | code | kind |
|---|---|---|
| `SoarInvestigation` | orchestrator, bridge as an environment | detailed specification |
| `FreezeAuthority` | what the orchestrator promises about accounts | abstract specification |
| `SoarInvestigation_proofs` | | theorems |
| `AuditChain`, `MCAuditChain` | audit store, one chain | specification, TLC instance |
| `AuditChain_proofs` | | theorems |
| `RwaCollateralVault`, `CreditDefaultSwap`, `LiquiditySyndicate` | the contracts | specifications |
| `RwaCollateralVault_proofs` | | theorems |
| `SharePools_proofs` | swap and syndicate, which issue and burn shares by the same rule | theorems |
| `Sums` | the balances, share mappings and loans of the contracts | a sum over a finite set |
| `NatArithmetic` | | lemmas on products, truncated quotients, share prices and sums |
| `TransactionController`, `MCTransactionController` | the scoring endpoint | specification, TLC instance |
| `TransactionController_proofs` | | theorems |
| `CoreEngine` | the Rust engine | specification |
| `CoreEngine_proofs` | | theorems |
| `ConsolePanel` | what every mounted React panel is made of | operators and shared steps |
| `RiskPanels`, `SoarDeskPanels`, `FilingPanels` | `FeaturePages.tsx` | actions of its panels |
| `TaxPanels` | `TaxCommandCenter.tsx` and the filing endpoints of `compliance_router.py` | actions |
| `OperationsPanels` | `GodsEyeResiliency.tsx`, `OmniMonopolyDashboard.tsx`, `DatabaseConnectorPage.tsx` and the services they poll | actions |
| `PortalPanels` | `CreditLineDevPortal.tsx`, `ExecutiveStrategyRoom.tsx`, `TreasuryAndAuditPortal.tsx`, `RwaInstitutionalPortal.tsx`, `RiskHedgingAndCompliance.tsx` and what their services keep | actions |
| `ShellPanels` | `Settings.tsx`, the stores, notifications, layout, audit trail, workspace frame, session lock | actions |
| `DeskPanels` | `Dashboard.tsx`, `useMockData.ts`, chat, terminal, ring explorer, telemetry grid, background loads of the tax page | actions |
| `PublicPanels` | `CreditLineCheckout.tsx`, `HomeScreen.tsx`, `useEdgeBiometrics.ts`, `CreditPortal.tsx`, `PublicPages.tsx`, `HomePage.tsx`, `Navbar.tsx` | actions |
| `AdminConsole`, `MCAdminConsole` | the frontend as a whole | composition and its properties, TLC instance |
| `AdminConsole_proofs` | | theorems about every panel of the frontend |

Operators called "Variant for mutation" or "Mutant of" are not part of a specification: each is the
operator below it with one plausible mistake, and `PROJECT.json` says which property
notices it.

**SoarInvestigation.** `doc`, `escalation` and `remediationLog` are the three
collections; `handler[i]` and `request[a]` are the program counters of the coroutines
running `handle_alert` and `process_escalation_decision`; `frozen` is the bank. One
action is one database write or one awaited call. The verdict of the triage agent and
the comparison of the consensus with its threshold are inputs; the bridge is any pair
of a reported result and an effect, because a retried click may have worked, the status
message is fetched and not read, and the mock driver always succeeds. `Raise` is an
exception inside the try block of `handle_alert`, `HandlerDies` and `RequestDies` the
death of a worker or an exception nobody catches. There is no action for the expiry of
an escalation because no code reads `expires_at`. Requests may decide any escalation
they find, in any status, as in the code.

**FreezeAuthority** has two steps, authorise and freeze. `SoarInvestigation` implements
it under the mapping "authorised: the consensus was high or an approval is recorded".

**AuditChain.** A writer is a worker inside `log_action`; its four steps are the clock,
the read of the last hash, the insert of the action and the insert of the link. A hash is
the identity of its record. `now` is the fastest clock, and a worker's clock lags at most
`MaxSkew`. `disturbed` is a history variable: some call overlapped another or read a
lagging clock. `Valid` quantifies over all orders a sort with ties may return. A finished
call advances the clock, since a database round trip takes longer than the clock's
resolution of a microsecond.

**Contracts.** Each external function is one action, its guard the conjunction of its
`require`s and of the compiler's checks (no subtraction below zero, no division by
zero). The loop of `triggerCreditEvent` takes one step per buyer, with every other
action disabled meanwhile, so that properties can speak about its middle. Overflow of
256-bit integers is not modelled: the compiler reverts, and the amounts are far below.
The ERC-20 token of the syndicate is external: a transfer of what the sender has.

**TransactionController.** A request gives way between the cache check and the graph
score and again while the other models sleep; the graph itself is scored without giving
way, because no driver is ever passed to the extractor. `score` is what the models of a
process say of a transaction, fixed for its lifetime since the scores are seeded with
the hash of the id. `Tick` is time, counted only for the breaker.

**CoreEngine.** `task` is the set of spawned tasks with their step; a task in `flushing`
holds the batch it drained. `Crash` empties the memory and the topic (offsets are never
committed and the consumer starts at the latest). The Cypher query of a batch is built
and not sent in this build, so `flushed` counts what `flush_batch` is handed.

**ConsolePanel.** One variable, `panel`: the hooks (`ui`), the suspended handlers (`calls`,
each with the arguments its closure captured, its spinner, its number and the await it is
at), the spinners that turn (`busy`), the results on display (`shown`, with the run and the
arguments they belong to) and the scripted terminals (`logs`). `last` and `runs` are
observations. A panel is the largest group of hooks that some handler reads or writes
together. `Begin` is a handler up to its first await; a step of it after an await is an
action of its own, so everything else may happen in between. A request settles as `live`,
or as the `fallback` the catch block puts in its place, or with a toast only
(`AnswerOrFail`).

**The panel modules** have, per panel, its first render, the actions of the user, of its
intervals and of its handlers after an await. A guard is the `disabled` of a button, the
condition under which the control is rendered, or the early return of the handler. Inputs
are members of two-element sets unless a property compares them. Where a page talks to a
service that remembers, the service's part of the step (register, charge, revoke, requeue,
connect) is in the same module, taken in one step between the request and its answer, so
that an answer may be lost after the service has acted. Fields that only observe are named
at the panel: `charges` and `settled` in the ledger, `prepared` and `sent` in the dispute and
filing drawers, `executed` in the playbook, `funded` in the checkout. `prepared` is the compilation
or seal behind the mark on display (what it prepared, the row on display when it ended, its run);
`sent` has each transmission with its row and the preparation its mark rested on.

**Processes.** The ledger of `TaxPanels` has one book per process of the service (`books`, for the
processes in `Processes`): any of them may answer a request, a payment of a filing it does not know
is refused with 404, and a list is that of the process that served it. A worker that is restarted
is a process that did not answer before. The ids of new filings are six hexadecimal digits of a
UUID and are taken to be distinct. The other services behind the pages (developer keys, the inbox,
vault orders, quarantine, the database link) are modelled as one process each, so what is said of them holds of the
requests one process answers: a decision taken at one worker is unknown to the inbox of another.
The page has no control for the agent's third decision, UPDATE (`negotiation_agent.py:73`), which changes
no status.

**AdminConsole.** Init chooses a panel; Next is a step of its user, of its intervals or of
one of its suspended handlers. Panels share no hook, so one panel at a time shows all that
the code can do. It has the properties that hold of every panel; those of one panel are in
its module.

## 3. Runs

Passing runs (distinct states in parentheses; all are exhaustive within the bounds):

* **SoarConcurrent** (68,936). One investigation and two decision requests, each either an
  approval or a denial. Investigations share no document, so what one could do to another is
  left to the proofs, which hold for any number; two requests are the fewest that can race,
  and every pair of their steps interleaves with every step of the handler, every exception
  and every death. Shows `FreezeOnlyAuthorised`, `PendingMeansWaiting`, `ClearedNeverFrozen` (with at most one recorded decision), that a closed investigation is
  reopened in two ways only, the refinement of `FreezeAuthority`, and that REMEDIATING is
  left unless a driving process died.
* **AuditConcurrent** (181,973). Three writers, four calls, clocks apart by at most one
  tick and two idle ticks: enough for two writers to fork while a third is serial, for
  equal timestamps and for inversions. Calls that never overlap and read no lagging clock
  make a chain that verifies; no link dangles.
* **RwaVault** (26,209). Owner and one other account, one asset of 5 shares, three prices, two limits
  (one of them 100 %) and four loans; share counts and prices that do not divide each other,
  so that every division truncates. Prices fall far enough for liquidations in time and too
  late.
* **CdsPool** (497,224). Two accounts that sell and buy, deposits and covers of 2 and 3,
  reserves and shares up to 6, two premium rates, covers that expire. Events meet buyers they
  can pay, cannot pay and have already paid.
* **SyndicatePool** (1,032,444). Two accounts, deposits and loans of 2 and 9, two loans,
  a cap above and below the expected loss.
* **TxScoring** (94,732). One process, three requests, two transactions (one high-value), a
  cache of one entry, a breaker that opens after two failures and recovers after one tick.
  A cache of one evicts at the second transaction, and three requests are an answer, an
  eviction and a retry. Cache and breaker of two processes have nothing in common.
* **EngineTasks** (37,464). Two transactions, four messages, three task slots over two
  permits, batches of two, one crash, cache expiry: one task always waits for a permit, and
  duplicates are in flight, in the buffer, in a batch and in the cache at once.

* **Console** (167,392). Every panel of the frontend from its first render, three handlers
  started by its user or its intervals, four on the panels that fetch again when they are done
  (`MaxRuns`, `MaxChainedRuns`): two handlers overlap, and a third starts after one of them has
  ended. Two processes of the filing service: a payment and its retry meet one or two. Two rows, two identities, playbooks and streams of up to two
  entries, lists of the length two where the code cuts at 8, 15, 50 or 200, so that they
  are cut; incomes that are a loss, end in the first taxed slab and reach the last. Shows the
  properties of `AdminConsole` and of the single panels listed with it below.

| property | what it says |
|---|---|
| `SpinnersHonest` | a spinner turns exactly while its handler is out, and no handler with one is started twice |
| `ResultOfLastRun`, `ResultsGoForward` | a result is of the last run of its handler, and never gives way to an older one |
| `LogInOrder` | a terminal prints one run after another, each in order |
| `NothingLeftWaiting` | what shows "..." or a toast has a timer that will end it |
| `PlaybookCompleteMeansRun` | "complete" is said of the sequence that was executed; the edits are disabled while it runs |
| `FiledUnderOwnMark` | a dispute or report is transmitted only under a mark set while its own row was on display, and no compilation or seal serves two transmissions; not that it is what was prepared (section 6) |
| `AssessedAsPreviewed` | the service registers the tax that the page previewed |
| `ChargedOnce` | no process charges a filing twice, a filing the user registered is charged by one process at most, and what is announced as settled is; the return that every process starts with can be charged by several (section 6) |
| `NoTimerLeaks` | a page that was left has no interval |
| `ApprovalShown` | an approval on display is that of the last application, and was announced |
| `DecisionsSurvivePolls`, `DecidedItemsKept` | polls and forecasts undo no decision; of the inbox, in one process |
| `EveryRunEnds` | every handler that was started ends |

Four sets in `AdminConsole` say where the code does not promise this. `Shared`: spinners of
handlers that nothing disables, so that the end of one stops the spinner of two. `Overlapping`:
results whose requests may be out at the same time, the last answer to arrive winning (quotes of
a slider, forecasts, polls). `Kept`: results that stay when a later run fails. `Chained` only
selects a bound. `PanelOK` is the type invariant of the panels.

Runs that show the code doing what a comment or message of it rules out:

| run | what the repository says | what the code does |
|---|---|---|
| SoarDecidedTwice | "Approve or deny a pending HITL escalation." (`soar.py:129`) | any status is decided again |
| AuditForks | "Hash chain linking (prev_hash) for ordering integrity" (`audit_store.py:38`) | two overlapping calls link to one predecessor, and an honest chain fails |
| RwaReminted | "Asset ID already exists." (`RwaCollateralVault.sol:79`) | the asset with id 0 can be minted again |
| CdsUncovered | "Insufficient pool reserves to guarantee protection." (`CreditDefaultSwap.sol:115`) | the same reserves back several covers |

Deadlock checking is off where the system may stop: a pipeline that has ended, a bound on
calls, messages or handlers that is used up, a page nobody uses. The contracts never stop and are checked for deadlock.

## 4. Fairness

Three properties need fairness. `RemediatingResolves` assumes that the event loop
and the executor keep running the coroutines they were given: weak fairness of each
handler's next step and of each request's next step once its escalation was found.
Nothing obliges an analyst to decide, a call to raise or a worker to die, and a worker
that dies is excused by `Abandoned`. `TasksFinish` assumes that the runtime polls every
ready task, again weak fairness per task. It needs no fairness of the semaphore: a run
produces finitely many messages, so a waiting task is overtaken finitely often (the
semaphore itself is a queue). Producers, expiry and crashes are not fair. `EveryRunEnds`
assumes weak fairness of `Resume`: the browser fires the timers it was given and settles
every fetch with an answer or an error. It needs no fairness of single handlers, because each
has finitely many steps and users and intervals start finitely many in the run; they
themselves are not fair.

## 5. Proofs

All proofs are checked by TLAPS with no assumptions but the named `ASSUME`s of the
modules, which say that amounts and bounds are natural numbers (of a limit that something
is drawn from, that it is positive), that sets of accounts, requests and task slots are finite,
that investigations and requests are different things, that a process answers the tax page, and that `None` is not the name of a spinner. TLC evaluates those in the runs.

**SOAR** (`SoarInvestigation_proofs`). `FreezesAuthorised` says that for any number of
investigations and requests `FreezeOnlyAuthorised` always holds. It is not inductive: a
step that freezes knows only its program counter. `FreezeInv` adds to the types what
each program counter has behind it: `HandlerInv` (past triage the verdict is suspicious,
past the reports both are on file, on the automatic path the confidence is high),
`RequestInv` (a request that moved found an escalation; one that remediates was approved)
and `CaseInv` (once an account is frozen or an escalation exists, the case has its
reports and its handler does not write them any more). Each step changes one handler or one
request, so the proof has one lemma per process: everything about the others is
unchanged. `AuthorityImplemented` proves the refinement; it needs in addition `Undecided`
(before the consensus is saved no confidence is "high"), so that saving it may give
authority but never takes any back.
`WaitInv` adds, per case, that an escalated one has low confidence, that a pending one waits or
has failed with no decision recorded, and that "cleared" was written by a recorded denial; a request
that goes the way of a denial did not approve. It carries `PendingWaits` and `ClearedStaysFree`; the latter
counts the requests that recorded a decision, so it needs the set of requests to be finite.
`OpenInvs` says that a handler still working has not closed its case, and that an escalated case
was closed by a request that is over; `ReopenedAsStated` follows step by step.

**Audit chain** (`AuditChain_proofs`). `SoundInv` proves `NoDanglingLink` and `LinkHasAction` for
every overlap, skew and death: the hash a writer holds is genesis or on file, and one
that will insert a link has inserted its action. `SerialInv` proves
`SerialChainValid`: until something is disturbed there is at most one call under way,
the timestamps of links are distinct and older than the clock, and the hash the writer
holds is that of the newest link, so inserting it extends a valid chain in the only
order a sort can return.

**Contracts.** `NatArithmetic` has what Z3 needs to be told about truncating division:
bounds of a quotient and monotony in dividend and divisor. For the vault,
`HealthMonotone` (more collateral or less debt never lowers the health factor) and
`SeizureKeepsCoverage` (the seized shares are rounded down, so a vault that covers the
bonus keeps its coverage) carry `OnlyTheOracle` and `CoverageKept`. For the swap the
inductive invariant is the conjunction of types, `NoOrphanReserves`, `EventPaysWhatItCan`
and `BuyersListed`: the subtraction of a withdrawal is safe because the caller's shares
are compared with all shares, that of a payout because the reserves are compared with
the cover, and the buyers already passed stay unpayable because reserves only fall during
an event. `SharePriceKept` and `PayoutsEndCover` are action properties proved from it.
`SharesAddUp` of the vault and `SellersShares` of the swap are sums over any finite set of
accounts. `Sums` defines a sum as a function over the subsets; that a change of one account
changes the sum by as much, that one account is at most the sum and that a sum without
positive terms is zero are lemmas of `NatArithmetic`. They are proved by taking a least subset that
contradicts them, which the well-foundedness of the strict subsets of a finite set provides.
`SellersCanLeave` follows: no seller has more shares than the contract counts.

The swap and the syndicate issue `n * shares / value` and pay `shares * value / all shares`, both
truncated. That neither lowers the price of the other shares is stated once, as
`IssueKeepsPrice` and `RedeemKeepsPrice` of `NatArithmetic`, and used for both; this is why one
module, `SharePools_proofs`, holds the theorems of both. It extends the swap and has the syndicate
as an instance, `Pool`, so the theorems about the syndicate state its assumption on the constants
(`Pool!SyndicateAssumption`) as a hypothesis. Their invariant `PoolInv` says that the loans issued are
finitely many and numbered without a gap: only then is the next id new and the pool's claims
a sum to which a drawdown adds one term and from which a repayment takes one.
`DrawdownKeepsAssets` and `RepaymentCoversClaim` are these two facts, `ValueStep` collects what any call
does to value and shares, and `SyndicateAssetsKept`, `SyndicateValueKept` follow from it.
`SyndicateShares` is the sum of the providers' shares.

**Transaction controller** (`TransactionController_proofs`). The cache is what is hard:
`CacheOK` says of a process that the keys of its cache are distinct, that each was answered
by it, and that either every transaction it answered is in the cache or it has answered at
least `CacheLimit` + 1 of them (`Overflown`). `WrittenSound` is the lemma about one write: the new
entry is there, keys stay distinct, and only an append to a full cache loses any; then the keys
of the full cache and the new one are `CacheLimit` + 1 transactions (`FullAndOne`, by a
bijection). `AnswersStayCached` and `RetriesAreRecognised` follow for every limit and every size
of an eviction. `ApprovalsAreBacked` rests on `ApprovalNeedsModel`: a weighted average of at most
45 has a term of at most 45.

**Core engine** (`CoreEngine_proofs`). `CachedIsTaken` is not inductive: the step that caches a
transaction must know that its write was pushed. `PushedIsTaken` says it of every task past its
push, through drains, flushes and the pushes of others. With the finiteness of the tasks the same
invariant proves `PermitsConserved`.

**Frontend** (`AdminConsole_proofs`). The theorems are about all panels of the frontend at once, for any
cases, playbook steps, filings and amounts, any lengths of the lists and any number of runs of
any handler; the bounds `MaxRuns` and `MaxChainedRuns` are not used. The inductive invariant
`ConsoleOK` has four parts.

* `Sound` is about what every panel is made of. `CallOK`: a handler in flight has a run number that
  its panel has given out, and one whose result is hidden or kept (`Solo`) is the last run of its
  operation. `BusyOK`: the spinners that turn are those of the handlers in flight, and a spinner of
  one handler has one at most in flight. `ShownOK`: a result is of the last run, or its handler lets it
  stay or overlap. `LogsOK`: the lines of a terminal are in the order of runs and of the script, and
  a handler that still prints comes after what is printed. No one of these is inductive without the others:
  that a result is the last one rests on its handler being alone in flight, and that on the spinner that
  disables its button.
* `Shape` names the handlers of each panel, so that `last` is defined where an action reads it.
* `Pages` has, page by page, what the hooks say about the handlers in flight: the playbook being
  executed is the one on display, as far as the loop has come (`PlaybookOK`); the mark COMPILED or SIGNED
  rests on a preparation that ended on the row on display or on none, one that has served no
  transmission while nothing is in flight, and a preparation in flight is younger than every
  one that served, so its mark will be new (`PaymentsOK`, `RegTechOK`, both from `FilingOK` and `Unused`); a page that was left has no interval (`AlertsOK`); an application in
  flight is the only and the newest one (`CheckoutOK`); what waits has the handler that will remove it in
  flight (`WaitingOK`); a decision on its way to the inbox approves or rejects (`StrategyOK`).
* `TaxOK` relates the service of the tax page to the handlers in flight: in every process a filing that
  was charged is marked as paid and a paid one is never charged, two processes have no filing in
  common but the two they start with, a payment past its first step holds a filing that is paid in
  some process, and the list on display may be as old as it likes (`LedgerOK`); every return in
  flight holds a filing, and every liability shown is the one the service registers for it.

The actions of the panels are composed of a few steps: begin a handler, hide results, show
one, print a line, clear or reopen a terminal, go to the next await, end. `Step(p, q)` says that q
is sound if p is, and that q takes no result back (`Forward`); it is transitive, and one lemma per
building block (`StartStep`, `AnswerStep`, `EndStep`, ...) says that it leads from a
sound panel to one that `Step` relates to it. What a building block needs of its operation (which spinner it has, whether it hides,
prints or overlaps) is a fact about constants, stated per module (`TaxOps`, `DeskOps`, ...). Each
panel has then a lemma with one case per action, and `NextStep` combines them. The four
sets of section 3 (`Shared`, `Overlapping`, `Kept`) are where these lemmas would fail: a handler
that is missing from them although nothing disables it could not be proved.

The work of `ReturnsAsPreviewed` is the lemma `SlabsAreSlices`: taking the slabs off from the top, as
`file_itr` does, is adding up the slices, as `getItrEstimate` does. `TaxFrom` recurses over five
slabs only, so a function that satisfies the recursion is given explicitly and no induction is
needed. The theorem relates two pieces of code to each other; rates, thresholds and
deductions that both share are not judged.

| theorem | module | for every |
|---|---|---|
| `TypeCorrect`, `EngineTypeOK`, `ControllerTypeOK` | six proof modules | constant |
| `FreezesAuthorised`, `AuthorityImplemented`, `PendingWaits`, `ClearedStaysFree`, `ReopenedAsStated` | `SoarInvestigation_proofs` | number of cases and requests |
| `ChainSound`, `SerialChainsVerify` | `AuditChain_proofs` | number of writers and calls, any skew |
| `OnlyTheOracle`, `CoverageKept`, `SharesAddUp` | `RwaCollateralVault_proofs` | amounts, prices, limits, with rounding |
| `SellersShares`, `SellersCanLeave`, `ReservesHaveOwners`, `EventIsGreedy`, `ListComplete`, `SharePriceKept`, `PayoutsEndCover` | `SharePools_proofs` | amounts, rates, buyers, with rounding |
| `SyndicateAssetsKept`, `SyndicateValueKept`, `SyndicateShares` | `SharePools_proofs` | accounts, amounts, risks, loans, with rounding |
| `AnswersStayCached`, `RetriesAreRecognised`, `ApprovalsAreBacked`, `BreakerJustified` | `TransactionController_proofs` | processes, requests, scores, limits |
| `PermitsAreConserved`, `CachedWritesAreTaken`, `BatchesAreFull` | `CoreEngine_proofs` | slots, permits, batches, messages |
| `SpinnersTell`, `LastRunShown`, `NoResultGoesBack`, `LogsInOrder`, `WaitingAnswered` | `AdminConsole_proofs` | panel, runs and handlers in flight |
| `CompleteMeansRun`, `FilingsUnderOwnMark`, `NoIntervalLeft`, `ApprovalsAnnounced`, `DecisionsKept` | `AdminConsole_proofs` | runs, rows, playbooks, lengths of the lists |
| `FilingsChargedOnce`, `ReturnsAsPreviewed` | `AdminConsole_proofs` | filings, amounts, handlers in flight |

Some invariants are proved or stated and no run lists them: the `TypeOK` of the contracts, the
chain, the controller and the engine, `LinkHasAction`, `OpenJustified` and `BatchesFull` are proved
for every value of the constants; `SharesAddUp` of the swap and of the syndicate likewise.
`VerdictBacked` is stated in its module and neither proved nor in a run.

**Only model-checked.** The liveness properties (liveness under fairness and ENABLED are out of
the prover's reach). `MintedOnce` and `CoverGuaranteed`, which the code
breaks, and `AlwaysValid` and `DecideOnlyPending` likewise. `DecisionsSurvivePolls`: the merge of a poll filters a sequence of any length
(`SelectSeq`), and what it keeps would be an induction over data. No module declares a RECURSIVE
operator.

## 6. Where code and documentation disagree

The four violation runs of section 3 are recorded as findings. Also met, without a run; where a
definition is named, it is the formula that TLC refutes when it is added to the run of its module:

* SOAR. The except clause of `handle_alert` covers the writes after the verdict, so an
  exception there turns CLOSED into FAILED with the account already frozen
  (`orchestrator.py:158`). An exception of `log_remediation` is swallowed
  (`orchestrator.py:303`), so a freeze may be missing from the log that
  `audit_store.py:36` calls an audit trail. The remediation recorded as a hold of
  transactions is performed by freezing the account (`orchestrator.py:291`). When no
  browser can be started a mock reports success (`legacy_bridge.py:85`). `expires_at` is
  stored and never read, and no code sets TIMED_OUT. The SOAR router calls methods of the
  audit store that do not exist (`list_pending_escalations`, `list_investigations`,
  `get_actions_for_investigation`).
* Audit. A lagging clock breaks a chain without any overlap. A worker that dies between the two inserts
  leaves an action without a link, which `verify_chain` does not notice.
* Vault. `LIQUIDATION_THRESHOLD_BPS` (85 %) is declared and unused: liquidation starts at
  the borrowing limit (`RwaCollateralVault.sol:17` and `:212`).
* Swap. The event skips a buyer it cannot pay without a trace (`CreditDefaultSwap.sol:152`
  and `:163`).
* Syndicate. `withdraw` pays from liquid tokens only, so who leaves while loans are out
  forgoes their repayment (`LiquiditySyndicate.sol:96` and `:101`); all shares can be
  burned meanwhile and the repayment then belongs to the next depositor. The cap is compared
  with a truncated percentage (`:117` and `:135`).
* Controller. Concurrent retries are scored twice, retries that reach another process are
  scored again (`transaction_controller.py:19`, `:78`, `:270`), and `_CACHE_TTL` is never read.
* Engine. A partly filled batch leaves only with later traffic (`main.rs:126`). Duplicates in
  flight together are both handed to the writer, although the cache is there "to deduplicate
  transactions" (`main.rs:60`, `:244`): `FlushedOnce` in `CoreEngine` says that they are not, and
  TLC refutes it; no run lists it.
* Circuit breaker. Nothing calls `should_allow_gnn`, the only method that moves a tripped
  breaker to HALF_OPEN (`circuit_breaker.py:8` and `:99`).
* Tax page. The VAT form previews the rate that was chosen and sends no rate: the return is
  filed with HSN 9983, which the engine taxes at 18 % (`TaxCommandCenter.tsx:377`,
  `tax_engine.py:75`); `VatAtChosenRate` in `TaxPanels`. A negative VAT is registered as PAID.
* Payments and regulatory pages. The evidence of one row is compiled while another is selected: the
  mark COMPILED lands on the second, which is then submitted although nothing was compiled for it
  (`FeaturePages.tsx:2541` to `:2556`). A seal does the same to the report of another alert
  (`:3299` to `:3307`), and a report can be edited after its seal and transmitted. The pages say "Dispute
  evidence packages signed and timestamped" (`:2620`) and "Case evidence packages securely locked"
  (`:3384`). `SentAsPrepared` in `FilingPanels`; TLC refutes it on both pages.
* Tax page. "Filing is already paid" (`compliance_router.py:501`) is answered by the process that took the
  payment only: `_tax_filings` is a dictionary of the process (`:48`), and each of the four workers
  (`Dockerfile:61`) of each of three or more replicas (`k8s/api-deployment.yaml:8`), and each restart, begins with
  TAX-GST-001 unpaid (`compliance_router.py:50`). A payment of it whose answer is lost, or whose row a list of
  another worker shows unpaid, is charged again there. `ChargedOnceByAll` in `TaxPanels`; TLC refutes it in 9 states.
* Regulatory page. A report drafted while another is being transmitted is marked as filed, and its
  "Signed Filer Envelope" has no signature (`FeaturePages.tsx:3522`); `SavedEnvelopeSigned` in
  `FilingPanels`.
* API key. "This will invalidate the current production API key immediately" (`Settings.tsx:495`): a
  reset of the preferences writes the first key back (`useAppStore.ts:118`), and a second tab that is
  open writes the one it still holds;
  `ReplacedForGood` in `ShellPanels`.
* Checkout. When the merchant's `onApproval` throws, the catch declines the application that was
  announced as approved (`CreditLineCheckout.tsx:142`, `:147`); `FundedNotDeclined` in
  `PublicPanels`.
* Developer portal. Keys that were created in the portal are revoked by their mask, which the
  gateway does not know (`CreditLineDevPortal.tsx:173`).
* Session lock. "Your session was locked due to inactivity" (`AdminSessionIntegrity.tsx:55`): the check
  that runs every minute (`:26`) counts as activity itself, so an idle session is locked only when the
  timer was held up for a quarter of an hour.
* Evacuation. A failed evacuation is logged as successful (`FeaturePages.tsx:2248`).
* Quotes. Every move of a slider sends a request and the last answer wins, so the quote may be for
  an earlier position (`RwaInstitutionalPortal.tsx:181`).

## 7. What is not modelled

Services: the GNN circuit breaker (beside the controller's, which is modelled), the developer
gateway and the rate limiter, bank reconciliation, the ledger interceptors and the monitor they
call, the webhook dispatcher, the federated rounds, stream ingestion, and model serving. Each is
a simulation inside one process or a pure function over floating-point numbers; what several calls
share in them is small, and `PROJECT.json` gives the reason component by component. Hazards seen in
them: nothing closes a tripped breaker (`circuit_breaker.py:99`); tokens are read from
Redis and written back in two pipelines, so that two workers can spend one token twice
(`api_gateway_router.py:118`); a repeated invoice event resets a meter that has counted since
(`api_gateway_router.py:334`); the order of the entries decides who is reconciled with whom
(`reconciliation.py:143`); a listener registers while a commit is dispatched
(`database_interceptor.py:155`); a failed insert is reported COMMITTED (`core_interceptor.py:201`); a
lost answer repeats a webhook (`webhook_dispatcher.py:112`); offsets are committed on a timer
(`kafka_consumer.py:46`).

Also left out: the SOAR agents, the credit, risk, graph and forecasting computations
(floating point or text that keeps no state: inputs of the models above); the routers
(parsing and formatting around the components); the regional recovery and quantum
modules (a new object per call, sleeps and constants: nothing to interleave);
authentication (stateless); clearing and currency kernels (pure functions); the healer and
the command-line agent (external commands and language models); deployment. Feature hydration
and the dead letter queue of the Rust engine have empty bodies.

Frontend: `TaxCenter.tsx`, which no route reaches; the `CommandCenter` page and the components that
only render their properties (charts, graph view, footer, cursor trail, theme context); pages of
text and links; the globe and the genesis status of the executive dashboard; the reading of
generated proofs into the board deck; search, filter and sorting of notifications; the editing of a
draft filing on the tax page; the console of the home page. React's StrictMode, which mounts twice in development, is
not modelled, nor is more than one tab except for the API key.

Abstracted inside the modelled parts: texts, layout and figures of the pages; contents of reports, scores except where decisions
compare them, the fallback of the audit store to an in-memory database (each
request then has its own), gas, the bound of 256-bit integers, emitted events and logs.

Smaller hazards, noted while reading and not in the list of `PROJECT.json`: messages and buffered
writes are lost with a crash of the engine, whose offsets are never committed (`main.rs:317`); the
in-memory fallback gives every request an audit store of its own (`audit_store.py:76`); after an
event empties the reserves a new deposit is issued shares next to worthless ones
(`CreditDefaultSwap.sol:62`); a log poll answered late brings back what was cleared
(`GodsEyeResiliency.tsx:134`); a vault with a debt
of one unit can be unhealthy and never liquidated (`RwaCollateralVault.sol:218`); the
list of buyers never shrinks, so its loops grow to the block's gas limit
(`CreditDefaultSwap.sol:157`); a timestamp whose microseconds are zero sorts as a later
string (`audit_store.py:160`), which for the chain is a lagging clock; a latency measured in
one state of the GNN breaker is recorded in another (`circuit_breaker.py:203`); webhook ids
have a resolution of one second (`webhook_dispatcher.py:30`); a rejected federated round
still counts (`fl_server.py:98`); reading a user's stream features processes the last
transaction again (`stream_processor.py:169`); the daily cash total is never reset
(`critical_monitor.py:128`); every drift check starts with empty windows
(`retraining_dag.py:130`).

## 8. What remains

The order would be: a breaker module with the promise its documentation makes (a tripped breaker
is probed again), which the code breaks; the in-process token bucket as the atomic specification
and the Redis bucket as the candidate refinement; a composition of `SoarInvestigation` and
`AuditChain`, for what the chain says of an investigation that was frozen. Books per process
for the other services behind the pages, as the ledger has them. Theorem: `VerdictBacked` from `FreezeInv`.
