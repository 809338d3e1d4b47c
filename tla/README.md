# Developer OS: a verification project in TLA+

This directory models the parts of Developer OS that decide when work is sent
to a paid or side-effecting agent and what becomes of its answers, checks the models
with TLC, and proves the central properties with TLAPS. Paths below are relative
to the repository (`src/`); a file without a directory is in `console/devos_orchestration/`.

## 1. The system

Developer OS is a private console (`console/`) with scripts and documents around
it. The console is one threaded HTTP server; its *orchestration* package turns
what a "Mainline" model proposes into a *handoff*, has a person approve it, sends it
exactly once to a Codex worker, and brings the result back. Beside it, command-line
scripts make single paid reviewer calls and run a bounded automatic cycle.

| Component | State it keeps | Operations | Interacts with |
|---|---|---|---|
| Dispatch ledger (`dispatch_preview.py`) | `dispatch-ledger.json`, one record file per step of a handoff, a lock per process | prepare, decide, start, record completion/failure; smoke: prepare, bind, transition | control plane (routes, transport status), Git (workspace seal), Codex runtime (protocol); shared with smoke-runner processes through the file system |
| Semi-automatic dispatcher (`semi_auto_dispatch.py`, `workspace_guard.py`, `mainline_dispatch.py`) | leases of workspaces, in memory | approve and send; capture and verify a workspace | ledger, control plane, transport |
| Control plane (`control_plane.py`, `api_mainline.py`) | `orchestration-control.json`: mode, status, node and route graph, Mainline authority | mode, ENABLE/PAUSE/RESUME/STOP, node and route edits, turn results | everything resolves its routes here |
| API Mainline start/run (`api_mainline_start.py`, `api_mainline_run.py`) | two ledgers under two locks | prepare, claim, approve and execute, cancel | control plane, OpenAI transport, dispatch ledger |
| API Mainline return (`api_mainline_return.py`, `token_efficiency.py`) | return ledger, evidence files, index of validated evaluations | prepare, approve and execute | return handoffs, control plane, OpenAI transport |
| Return handoff, exact delivery (`return_handoff.py`, `exact_delivery.py`) | two ledgers, artifacts, record files | create (by tools); copied, delivered, cancelled (by the console) | dispatch ledger's results |
| Codex transport (`codex_transport.py` and four runners) | pending messages of one child process | initialize, thread/turn start, receive turn, deadlines, approvals | the app-server process; ledger and lease |
| Review pipeline (`gate.py`, `routing.py`, `response_pipeline.py`, `api_mainline_continuation.py`, ...) | one guarded approval | guarded call, capture, parse, contracts, advance policy | the one-shot runners, return and start |
| Cycle handoff (`cycle_handoff.py`, `candidate.py`) | packet files, candidate files | capture (direct, user-assisted, legacy), verify, build, compare | exports of the user's sessions |
| One-shot live runners (`live_*.py`), auto-safe-continue (`auto_safe_continue*.py`) | evidence files, one run's record | one paid call; up to two automatic cycles | transport, ledgers, control plane |
| Console server (`devos_console/server.py`) | overview cache, refreshing flags | overview, background refresh | browser; commands on the host |
| Browser terminal (`devos_terminal/`) | a PTY, a socket, an audit trail per session | open, relay, close | browser, shell |
| Usage collectors, context, Docker, Git, Make and deployment tools, pages | files on the host | jobs and command-line scripts | none of the above |

**What is hard here.** Request threads interleave between a verification that takes
seconds (Git and Codex are asked) and a commit under a lock. Locks are
process-local while the files are not. A process may die, or a write fail, between a record
file and the ledger that refers to it. Worker events, API turns and app-server messages come
in an order nobody chose. Three modules state one review contract and must agree. A sequence
of edits, each accepted, may leave a file that cannot be read. `PROJECT.json` lists each
such hazard at its line with the properties that cover it, or why none does.

**What makes each component correct.**

* Ledger: one decision, one consumption and one send per handoff; the ledger never
  runs ahead of the record files; what is sent was verified after it was approved.
* Dispatcher: leases do not leak, a turn has one recorded outcome, every request returns.
* Control plane: one authority, selected by the mode; a stopped project is restarted only
  explicitly; a resolved route is allowed by both ends; what is written can be read.
* Start/run, return: one claim and one paid call per approval; the ledgers agree; a completed
  call was applied. Delivery: delivered or cancelled, never both.
* Transport: no notification is lost or reordered, a request for an approval is never passed
  over, a worker acts under its lease, and every session with a server that reads ends.
* Review: two controllers route one review alike, and what one of them authorises the advance
  policy accepts; what a reviewer sees is a whole, unedited cycle.
* One-shot scripts and automatic runner: paid once per approval, evidence true at every crash,
  not beyond the cost cap as far as usage is reported, never past an external change.
* Terminal: a session that ends leaves no process or descriptor behind. Overview: refreshes end,
  and the overview does not go backwards once the first collections are over.

## 2. Modules

    ExactlyOnceDispatch      the promise: decide once, consume once, send at most once
       ^ refined by (property ExactlyOnce of each)
       |-- DispatchLedger     <-- SemiAutoDispatch
       |-- ApiMainlineRun
       `-- ApiMainlineReturn  --> EXTENDS ResultDelivery

    ControlPlane                          CodexSession
    ReviewGate <-- ReviewPipeline --.     OneShotRun <-- AutoSafeContinue (also ReviewGate)
                   CycleHandoff   --+--> CycleReview
    BrowserTerminal, OverviewCache  ---> ConsoleServices

Each `MC*` module holds the finite instance of a module; each `*_proofs` module its theorems (the dispatch ledger's are in
`SemiAutoDispatch_proofs`, the deliveries' in `ApiMainlineReturn_proofs`, both servers' in `ConsoleServices_proofs`).
`CycleReview` and `ConsoleServices` put components that share no state into one
specification: a behaviour is one of the one or of the other.

### DispatchLedger

An *actor* is a request thread of the console or a smoke runner; `Proc` gives the
process whose lock it takes. A call is a sequence of steps with the granularity at which
the code can be interrupted:

| Step of `pc` | Code |
|---|---|
| `called` | a call begins (`Call...`) |
| `route`, `tree`, `proto` | `_verify_approval_binding`, unlocked: route, workspace, protocol |
| `ready` | about to enter `with self._lock` |
| `checked` | lock held, ledger read into `view`, entry and files checked (`Enter...`) |
| `written` | the record file is written (`WriteRecord`) |
| `staged` | the edited ledger is in the temporary file (`StageLedger`) |
| `idle` | `os.replace` done, lock released (`InstallLedger`) |

`ledger` and `tmp` are the two ledger files, `files` the record files of each handoff,
`envelope` what the artifact seals. `route`, `tree`, `ref` and `proto` are the
outside world: does the route resolve, the Git fingerprint, the fingerprint in
the worker's `transport_ref`, the discovered protocol version. `Crash` ends a process;
`WriteFails` ends one operation inside its section: what it wrote stays, the lock is released.
`started` and `fresh` are history variables. Hashes are abstracted to the fact they establish:
the record files are written once, so a hash matches exactly when its file is the one
written. A caller that names a wrong envelope hash is the choice `namesEnvelope`.

Handoffs are the workspace-bound ones, the only ones that can be approved; a preview
for a thread-bound or unbound worker stays PREPARED, and is not modelled.
A smoke runner's calls may come in any order, which includes the order the scripts use.

### SemiAutoDispatch

`job[t]` follows a request through `approve_and_send`; its ledger calls are the steps of
`DispatchLedger`, and `After` says where the request goes when the call returns or
raises (the `try`, `except` and `finally` blocks). `GuardGet` and `GuardSet` are the
two halves of `WorkspaceTurnGuard.acquire`. The transport is one step with three outcomes:
completed, an approval is needed, failed; `CodexSession` takes it apart. `lease` is keyed by
the workspace identity, `HeadOf[seal]`. `cut` remembers the handoffs a crash or a failed write
has interrupted.

### ControlPlane

`stored` is the project *as written*. `Ensure` is the normalisation every load performs,
`Valid` the validation, `Loads` both; every operation is `Change(new)`, which is enabled
only if the load and the validation of the edit succeed, exactly as a refused
call leaves the file alone. Node and route identifiers beyond those the code names, roles,
allow-lists and routes a caller passes are parameters. Once a worker is stored the
next load adds its two managed routes, so only custom nodes can ever be deleted. Statuses
RUNNING and ERROR are never written by any operation and are left out, as are roles and
handoff types that the checks treat as one of those kept.

### ApiMainlineRun

The two stores behind the user's Start form. `record` is the start ledger (one record per
candidate, `NONE` before it is prepared), `run` the run ledger, `files` the record files beside it,
`startLock` and `runLock` their locks. `enabled` is "orchestration is on and the API Mainline
is the authority", `canonical` the canonical state: what the stores read of the
control plane, whose other operations are `Switch` and `Drift`. A candidate's hash contains
its creation time, so that every preparation makes a new one.

| Step of `pc` | Code |
|---|---|
| `sealing` | `prepare` holds the start lock and has read the control plane |
| `asked`, `vetted` | `_candidate`: `starts.status` found the candidate READY; then compared the control plane |
| `claiming` | `claim_for_decision` holds the start lock and has read the control plane |
| `decided` | the claim is written |
| `opened`, `approved`, `evident` | inside the run lock: no run yet; approval written; attempt (or cancellation) written |
| `recorded` | the run ledger is written |
| `sending`, `waiting` | the start ledger is marked; the transport is called |
| `valid`, `applied`, `answered`, `finished` | the answer is validated; applied to the control plane; `result.json`; run ledger |
| `failing`, `failed`, `closed` | the exception handler; `failure.json`; run ledger |

A section that reads a ledger, decides and replaces it under its lock is one step of the
model where nothing outside the lock is read in between; where the control plane is read
first, the section is two steps and the lock is held in between. `WriteFails` is a failed
write anywhere: inside the `try` block the handler takes over, elsewhere the request ends.
An answer that does not arrive or does not validate is an outcome of `Answer`. The
history variables are `calls` (paid calls) and `applied`.

### ResultDelivery and ApiMainlineReturn

A *return* stands for one completed dispatch and one destination. Command-line tools
(`Tool`, each a process with locks of its own) seal it (`CreateReturn` ...) and make its delivery packet
(`CreateDelivery` ...); console threads move the packet (`Transition`, `EnterTransition`, `WriteRecord`,
`WriteState`) under `deliveryLock`. Every ledger write replaces the whole file from the
copy in `pc[a].view`; `cut` remembers the returns whose entry such a write, a crash or a failed write
has set back. An artifact contains its time, so two artifacts of one return differ: they are named
after the actor that made them.

`ApiMainlineReturn` adds the API continuation: `entry` is its ledger, `candidateFile` and `evidence` its
files, `storeLock` the lock of its store, `job[t]` the request of a thread.

| Step of `job` | Code |
|---|---|
| `seal`, `file`, `ledger` | `prepare`: context read; section entered; candidate written |
| `check`, `claim` | `_candidate` done; the precheck compared state, index and key |
| `approval`, `attempt`, `sent` | in the lock: claimable; the two evidence files; the ledger's SENT |
| `send`, `wait` | the paid call; its answer |
| `apply`, `result`, `lookup`, `register`, `finish` | the turn is applied; `result.json`; the index is read, then written; `_finish` |
| `failure`, `failed` | the exception handler |

### CodexSession

One runner, one app server, one pipe. `todo` is what is left of the runner's script (the four scripts
take the same steps in different orders; `Handler` is the `except`/`finally` tail), `wire` the
lines written and not received, `pending` what `_request` kept for the turn, `events` what `receive_turn` has
collected. The server is external: it answers or not, sends notifications, approval requests, requests of its own
(whose number may equal one of the adapter's) and broken lines, or exits. A deadline may pass at any wait for a
message. Sending has none: `deaf` says that the server has stopped reading and the pipe to it is full, and then `Request`
cannot happen. `probe` is the preflight with the server it launches and closes: discovery of the protocol (and the login under
WSL), launch, handshake, close. That probe is sent two short messages, which a new pipe holds. `alive` is the child the
runner launched, under WSL `wsl.exe` and not what runs inside.

### ReviewGate, ReviewPipeline, CycleHandoff

`ReviewGate` has no state: the contracts of `gate.py`, `routing.py`, the two Mainline output
contracts and the advance policy are predicates over one record, `AdvanceDecision` the first
reason to stop in the code's order. A list is the set of its entries, a text is absent, blank or there.
`ReviewPipeline` runs one guarded call, its capture and its stages: a body that is no response of one text is not
captured, and the review is parsed against no catalog (`NoCatalog`), since `response_pipeline.py:153` passes none, while
the continuation and the advance policy have one. `OnlyLimitsStop` and the properties relate the modules. `CycleHandoff` has a growing `export`, packet files (`file`) that a user
may edit or a write may tear, and candidates; `sealed` remembers what was really captured. `Found` says which messages
quote the manual review in the form the search of `build_reviewer_candidate` finds: the prompt numbers its lines and the
candidate escapes them, so that only a review of one line is always found (`OneLine`).

### OneShotRun, AutoSafeContinue

`OneShotRun` is every script as its sequence of evidence files: `Guard` is what refuses an invocation,
`Steps` what it does, `Captured` and `Dies` how its error handling places what a provider answers (an answer may also be
`unpriced`, its usage malformed, or `unreadable`, with a refusal or several texts).
`AutoSafeContinue` is the automatic runner on top, with its cycles, costs in units of a worst case, seals
of the workspace, and people who edit and use the console meanwhile. What a call cost (`spent`) is not what the code adds up
(`reported`): that is an estimate from the usage the answer states (`Estimates`), 0 where it states none. `uncounted` remembers what
the first call's estimate left out. `raced` marks two invocations that both
passed the check before either had written.

### BrowserTerminal, OverviewCache

The loop of `_open_terminal` (`alive`, `select`, `output`, `frame`), its error handler (`telling`) and its `finally` block over a shell
and a client; `part` is a frame whose rest may never come, a `stalled` client one that stays and never reads again: `sendall` to it does not
return. An error between the fork and the return of `PtySession.open` leaves a child and a descriptor nobody closes (`fd = "lost"`). The
cache with its entry per kind of visitor, request threads (`cold`, `collected`, `stale`, `spawning`: an entry seen to be expired in one
section of the lock is acted on in another, and the thread may fail to start) and refresher threads (`collecting`, `collected`, `clearing`); values are numbered by
the version of the world they saw.

## 3. Runs

| Run | Question | Instance | Distinct states |
|---|---|---|---|
| `ledger_race` | is the ledger exactly-once, monotone and fresh under races, failed writes and crashes? | 1 handoff, 2 threads, 2 fingerprints, 2 protocols, 3 changes; symmetry of the threads | 296 204 |
| `ledger_shared` | what survives when a second process writes the ledger? | 1 thread, 1 runner, 1 handoff, 1 smoke handoff, 1 change | 1 682 890 |
| `semi_auto` | do leases, outcomes and sends stay consistent, does every request return? | 2 threads, 2 handoffs, 3 requests, 2 fingerprints, 1 change | 198 820 |
| `control_plane` | every order of actions, edits and turns | 1 custom node and route, 2 roles, 2 allow-lists, TASK routes | 105 500 |
| `api_run` | is a candidate paid for once, do the two ledgers agree, does every request return and every claim end? | 2 threads, 2 candidates, 1 request, 2 canonical states, 1 change, 1 fault | 170 704 |
| `returns` | is a result delivered and continued once, whoever writes the ledgers? | 2 threads, 1 tool, 1 return, 2 canonical states, 1 change, 1 fault | 473 141 |
| `codex_session` | does a session keep its events, its lease and its approvals, and does it end? | 3 scripts (both smoke runners have one), 2 notifications, 1 foreign request | 2 491 401 |
| `review` | do the three modules agree; is what a reviewer sees a whole cycle? | 2 requirements; reviews of all six schema versions over every gate, every set of assessments, instructions, scopes and (for 2.4) authorities of the module; 2 packet files, 2 decisions, 1 fault | 233 089 |
| `one_shot` | is one approval paid for once, is the evidence true, is the cap kept? | every script, 2 invocations, 2 kills, 1 edit, cap of 2 | 279 072 |
| `console` | does a session leave nothing behind; does the overview go back? | frames up to 3, output up to 2; 2 threads, 1 kind of visitor, 3 versions | 136 032 |

`turn_race` and `auto_edited` each end in a counterexample to one sentence of the
repository; see section 6.

**The properties.**

*Ledger and dispatcher.*
`LedgerBacked`: a state in the ledger implies its record file, in the installed and in the
staged copy. `StartIsFresh`: each of the facts a started handoff seals was true at some
instant between its approval and its start (it need not have been true at the *same*
instant, nor at the start: the verification reads them one after the other, unlocked).
`ExactlyOnce`: refinement of `ExactlyOnceDispatch`, with the *record files* as the phase.
`AtMostOneStart`: at most one send per handoff, even where another process's write loses updates of the ledger.
`LedgerAdvances`: with one process no entry ever goes back. `LeaseIsHeld`: a lease always has a live
request that will release it. `OneOutcome`, `OutcomeRecorded`: a result excludes a failure, and
a started dispatch has its outcome in the ledger, unless a crash or a failed write cut it short
(section 6). `RequestReturns`: every request returns.

*Control plane.*
`PausedIsEnabled`: late events cannot lead RESUME to enable a stopped project.
`LoadsOncePaired`, `ManagedPairStays`: once the worker is set up, accepted edits can
be read and never break its routes. `ResolvedIsAllowed`: what resolves is
allowed by both ends and the current authority.

*API Mainline.*
`OneLive`: one candidate at a time waits for a decision or runs, so that two paid calls never
overlap. `LedgersAgree`: what either ledger says of a candidate fits what the other says, at every
point a crash can come. `HandoffIsApplied`: the output that `prepared_handoff` offers for a dispatch was
paid for and taken by the control plane. `ExactlyOnce` as above. `RequestReturns`; `ClaimEnds`: where
nothing fails a claim is ended by a completion, a failure or a cancellation.
`DeliveryBacked`: a state in the delivery ledger has the user's records on disk. `EndedOnce`: never both a
receipt and a cancellation, unless the entry lost a step. `CompletedIsApplied`: a return the ledger calls
COMPLETED is the answer of one call and was applied. `SentEnds`: where nothing fails, a consumed return reaches its outcome.

*Transport.* `EventsComplete`: as long as nothing was raised, no notification is lost, repeated or reordered between
what `_request` keeps and what `receive_turn` takes. `WorkerIsStopped`: a worker acts under its lease and the dispatcher
settles a handoff only after it is stopped. `CompletedUnasked`: a turn recorded as completed was completed and never asked
for an approval. `SessionEnds`: the runner comes to its end, whatever the server answers or leaves unanswered, unless from some time on
it waits for good to send to a server that is alive and does not read (`Stuck`). That exception is real: section 6.

*Review.* `RoutesAgree`: a review that passed carries the gate `route_from_facts` derives. `HandoffsAdvance`: a validated handoff is one
the advance policy lets through within its limits. `ReviewedIsWhole`: whatever happens to the files, a
candidate shows task, every user message and report, in order, a true revision and, where that review has one line, not the manual review it is compared with.
`EquivalentIsCapturable`: a user-assisted packet found equal to a remote message is what a direct capture would have sealed.

*Scripts.* `PaidOnce`, `TraceBacked`, `CostWithinCap`: unless two invocations raced, one approval is paid for at most once, the
files tell the truth at every crash, and what is spent stays within the cap but for what the usage of the first answer left out:
before the second call the runner adds its worst case to an estimate, not to the cost.

*Console.* `NothingOutlives`: a session that is over has a paired audit and has left no shell and no descriptor, unless its fork was
followed by an error. `TerminalEnds`: it ends once its client left; once its shell exited it ends or waits for good for a client that
stays and does not read, or does not finish its frame (`Waiting`). `NeverBack`: once the first collections are over, no refresh replaces a
newer overview, however late a thread acts on an expiry it saw. `RefreshEnds`: also when collecting fails, if the thread could be started.

**Bounds.** `MaxChurn` bounds changes of the outside world, failed writes and crashes together,
`MaxRequests` the requests of a behaviour. One handoff is enough for the ledger's
properties because no operation reads two entries; the only coupling, the whole-file
write, is what `ledger_shared` adds with a second entry. Two threads race every
pair of operations; two fingerprints let the workspace change away and back; three
changes allow an edit, its undoing and a crash in one behaviour. Three requests over
two handoffs let one thread approve and send while the other prepares or decides; that a second `approve-send` finds the lease busy takes
four requests, and is covered by the theorem `LeasesAreHeld` only. In `api_run`
two candidates let one be retired while the other is claimed. In `returns` a single return with two threads and a
tool reaches every race about one entry; that one entry's write sets back another's, which needs two returns, is covered by
the proof of `DeliveryEndsOnce` for any number. In the control plane everything is finite and nothing is
bounded: `{}` (unrestricted) and `{Native}` (excludes the API node) are the two allow-lists the
normalisation tells apart. In `codex_session` two notifications suffice for every swap and loss, since one may be kept during
a request and one taken in the turn; one foreign request may carry any number; the two smoke runners have one script, of which
the run takes the one under WSL. Two requirements give a review one that is left and
one that is not; two packet files give a packet and its revision. Two invocations of a script and two kills reach every restart after a
restart. Three versions let a refresh start before a change and end after the next.

**Fairness.** `SemiSpec` has `WF(ThreadStep(t))` for each request thread. The
operating system schedules runnable threads, the holder of the lock never waits for another
lock, and a turn ends: the adapter's receive has a deadline, and what it sends is assumed to be read (its send has none; what happens
otherwise is in `CodexSession`). The environment and
smoke runners are not fair, and no request need ever arrive. Weak fairness suffices
although a thread waits for a lock others take: requests are finite in number in
the instance; under an endless stream of them the code's `Lock` does not promise
a turn. `FairSpec` of `ApiMainlineRun` has `SF(Proceed(t))` and `FairApiSpec` of `ApiMainlineReturn` `SF(Run(t))`: locks
are taken and given back by a bounded number of requests, none waits for one while it holds another, and the transport
has a timeout; strong fairness stands for the lock that is not refused to a waiting thread for ever.
`SessionSpec` has `WF(RunnerNext)`, one thread whose every wait for a message has a deadline, and expects nothing of the server; while a
send is stuck no step of the runner is enabled.
`TerminalSpec` has fairness of the handler, which `select` wakes, and of nobody else: it is not enabled while it waits for a client.
`CacheSpec` has fairness of each thread, since the
commands a collection runs have timeouts. Deadlock is checked except where a system may really stop: the runs that use up candidates and changes
(`api_run`, `returns`), the scripts that end (`one_shot`), and the terminal session that ends (`console`).
`Quiesce` and `Unreadable` are the states where the others rest.

## 4. Proofs

`tlapm` checks all of it, for every number of threads, runners, tools, handoffs, candidates, returns, fingerprints, reviews and
changes. The proofs and the runs check the same definitions; every theorem listed in `PROJECT.json` that states a
property a run checks names it.

Every invariant and every action property of the runs that pass is a theorem; each inductive invariant was checked with TLC
on an instance before it was proved.

`SemiAutoDispatch_proofs`, first about the dispatch ledger, from the named assumptions of `DispatchLedger` (threads and runners are
disjoint, handoffs and smoke handoffs are disjoint, the null values are none of them):

* `IInv` is `TypeOK`, `LedgerBacked` and what makes them inductive: a lock's holder is
  exactly the actor in that process's section (`LockOK`, `OwnerOK`), the files
  its operation requires are absent until it writes them (`FilesOK`, `CheckedOK`) and present
  afterwards (`WrittenOK`), it edits an entry in the state it checked (`EditOK`), a start is
  backed by its attempt file (`StartedOK`), and every copy of the ledger, also a stale one of
  another process, is backed (`ViewsBacked`). The last one is why lost updates are
  harmless for `LedgerBacked`: files are never removed.
* `AtMostOnce` needs only the files: an attempt file blocks every later `EnterStart`, and
  there is one lock per process in which handoffs are started.
* `Refinement` maps each step to a step of `ExactlyOnceDispatch` or a stutter.
* `FreshStart` (`StartIsFresh`): `FreshOK` says that what holds now is collected for every approved handoff, and that a start which
  is past a check has seen its fact since the approval. That the world moves between the unlocked checks is why the theorem says
  no more than it does.
* `Advances` (`LedgerAdvances`) has the hypothesis `Runner = {}`: with one process the copy of the ledger that a section works
  on is the installed ledger, its entry in a state the call accepts, and what it stages is that ledger with the entry edited (`SyncOK`). A smoke runner's stale copy breaks that, and the property with
  it, as section 6 says.

and then about the dispatcher, beside which no smoke runner starts (`Alone`: no action of `SemiNext` is one of theirs):

* `SemiInductive`: `SemiIInv` adds to the ledger's invariants that a request and the ledger call of its thread stand at places that
  fit (`PairedOK`), that a handoff whose outcome is on disk has it in the ledger or has a writer about to put it there
  (`RecordedOK`), that a started handoff is SENT until then (`SentOK`), and that while it is SENT some request still runs its turn
  (`PendingOK`), each unless `cut`. `LeasesAreHeld`, `OneOutcomeOnly` and `OutcomesAreRecorded` follow.
* `SemiImplementsLedger`: every behaviour of the dispatcher is one of `DispatchLedger`, so that all of the above holds of it
  (`SemiExactlyOnce`).

`ControlPlane_proofs`, from `ControlAssumption`: `IInv` adds `MainlinesOK` (both Mainline nodes
exist and the API node is as created, which no operation can change). `PairIsKept` and
`ReadableOncePaired` rest on two lemmas: normalisation leaves a project with its
pair alone up to the worker's allow-lists (`EnsureFacts`), and a route valid before
normalisation is valid after it (`RouteStaysValid`).

`ApiMainlineRun_proofs`, from the null values being none of the candidates, requests and
states: `IInv` is `TypeOK`, `OneLive`, one owner at a time (`OneOwner`: a thread between its claim
and its last mark), what the ledgers and files say of each candidate (`CandOK`: the
properties' conjuncts, and that an unclaimed candidate has no run and no file), and how far the owner
has brought its candidate (`DecidingOK` before the call, `RunningOK` after it). Locks do
not occur in it: what excludes a second owner is that only a READY record can be claimed, and
the record is read in the section that writes it. Owner steps write about their
candidate only (`OwnerStep`), so one lemma per step suffices; crashes and failed writes leave the files
and ledgers and take an owner away (`QuietStep`), which the invariant allows at every step.
`Refinement` maps the record files to the phases of `ExactlyOnceDispatch` and the calls to its sends.

`ApiMainlineReturn_proofs`: `Delivered` is inductive over the deliveries, whatever the other half of the state does.
`Locked` says that a thread in the section is the lock's holder, `CopiesBacked` that every copy of the ledger somebody is going to write
is backed by record files, `RecordWritten` and `Pending` what a thread between its record and its ledger has
done, `Ending` that a record of one end excludes the other unless the entry is in `cut`. A tool writes under a lock of its own, so its
stale copy is the case the proof has to survive: backed because records are never removed, and in `cut` because it
undoes a step. 

The continuation builds on it (a candidate's maker is the maker of a return's file). `Continued` says which record files and
calls stand behind each state of the store's ledger (`EntryOK`), how far the request that owns a return has brought it (`OwnerOK`), that the
lock's holder is the thread in the section (`StoreHeld`), and that no two requests have claimed one return (`Unique`). An owner's step
writes about its own return only (`OwnerKeeps`), every other step writes nothing the invariant reads (`OthersKeep`). A crash between
approval and attempt lets a later request write the same file again: the refinement `ContinuedOnce` maps that to a stutter.
`CompletedAlwaysApplied` is a conjunct of `EntryOK`.

`CodexSession_proofs`, for any number of notifications, foreign requests, broken lines and deadlines. `SessionInv` has four parts.
*Where the runner stands:* `todo` is the rest of its script from some place on (`OnScript`; `PlaceOK` says what holds from which place, such
as the lease), or one of the nine rests an `except` or `finally` block can leave (`OnHandler`): the order of `close`,
`fail` and `release` in them is what `WorkersAreStopped` needs. *What the pipe holds:* `EventsComplete`, stated by counting
the notifications in front of a place of the pipe, is inductive with the types: a request moves a notification from the pipe to `pending`, the turn
from `pending` or the pipe to `events`, and neither changes the count (`CompleteTold`, `CompleteTaken`). *What was
asked:* the notice that ends a turn stands behind every request for approval in the pipe (`NoticeOK`), so that `receive_turn` meets the
request first (`CompletedIsUnasked`). *What is waited for* is the head of the script (`WaitOK`).

`CycleReview_proofs`, first about the pipeline: the agreement of the three modules is a theorem over *every* review, expected task and
catalog, not only the enumerated ones. `JudgedOnce` is the invariant (the outcome is that of the answer), `RoutesAlwaysAgree`,
`HandoffsAlwaysAdvance` and `OnlyLimitsStop` follow from lemmas on `Accepts`;
`JudgedBesideCaptures` says it of the two halves together. Then about packets, from `MessageAssumption` (every message has a place in its
cycle, which `_message_index` checks) and `FoundAssumption` (what is found is quoted, and a quoted review of one line is found): `SealedAlways` is the invariant `HandoffInv`. A sealed packet is `Whole`: it holds exactly
the records of messages its capture could select, and its lineage was sealed before it; and the *hash* of a packet file is always of a
sealed packet (`FilesOK`), since an edit changes the body only. So a file that verifies is a sealed packet (`VerifiedIsSealed`),
and `ReviewedAlwaysWhole` and `EquivalentAlwaysCapturable` are facts about whole packets (`ShownIsWhole`,
`SelectableWith`). That neighbours in order make a whole sequence ordered (`StrictIsOrdered`) is proved with a least
counterexample, since induction is out of reach.

`AutoSafeContinue_proofs`: `EvidentAlways` (which files an invocation at a step has written, for scripts as sequences of steps) gives
`TracesAlwaysBacked`; `PaidAlways` (without a race only one invocation has passed the check; what it has spent is what it has reported
and what the usage left out, and its second call was begun with room for its worst case above what it had reported) gives `PaidAtMostOnce` and
`CostAlwaysWithinCap`.

`ConsoleServices_proofs`: `HeldAlways` ties the handler's place to what is held, the lost descriptor included, and gives `NothingEverOutlives`. `CacheInductive`
says that a refresh of a kind is with one thread only (`OneRefresh`) and that one which began after the first overview was there finds no
cold request under way and has collected nothing older than what is cached (`LateOK`); `OverviewNeverBack` follows. `BothServers` says it of
the specification the run checks.

**Only model-checked:** liveness (`RequestReturns`, `ClaimEnds`, `SentEnds`, `SessionEnds`, `TerminalEnds`, `RefreshEnds`), which rests on
fairness and on what is ENABLED and so is outside what the prover handles. `OneTurn` and `ExternalChangeStops` are false, as their runs show.

## 5. What is not modelled

The contents of messages, artifacts, prompts and hashes; token counts and prices, but for the cost cap; audit lines, but for a
terminal's; the HTTP layer, authentication and rendering; the Git and Codex child processes behind a
fingerprint and a turn of the dispatch models; unreadable or hand-edited ledgers (packets of a cycle may be edited and torn); other
projects than the managed one in the control plane (they have no Mainline and no normalisation). `JSON`
schemas are the types of the records. Components left out altogether, each with its reason in `PROJECT.json`: reports over fixtures,
console services that format what they read, the terminal's command runner, usage collectors, project context tools, the
administrative scripts, and the browser pages. They are single-threaded functions of files, or keep one state that nothing else relates to.

## 6. Findings

* `turn_race`: `WorkspaceTurnGuard.acquire` is not atomic; two requests may run two turns on one workspace.
* `auto_edited`: the automatic runner captures the workspace anew before each turn and goes on over an external change.

Seen while modelling, with no run of their own:

Ledger and dispatcher

* A smoke runner is a process with its own lock on the console's ledger: its write undoes a
  rejection (`console/README.md:408` calls it terminal) that came between its read and its write.
  The rejection *file* survives and blocks an approval, which is what `AtMostOneStart` and the proof use. In the same
  setting a recorded outcome can disappear from the ledger: `OneOutcome` and
  `OutcomeRecorded` hold for one process only.
* `record_completion` writes the result file and then the ledger. When that second write fails, the handler records
  a failure: both outcome files exist and the ledger says FAILED. This is the exemption (`cut`) of `OneOutcome`.
* The lease of a workspace is kept under an identity that contains the Git HEAD
  (`workspace_guard.py:141`): a commit made in a turn gives the workspace a second lease.
* `console/README.md:410-412` calls the one-shot runner the only live path,
  but `approve-send` is another (`devos_console/server.py:506`), and the runner's own project
  list lacks `btest` (`codex_dispatch_once.py`), so that its `update_node` is refused.
* A handoff whose approve-send finds the turn guard busy stays DISPATCHABLE, and no console
  operation moves it on.
* The mode is read before the approval. A PAUSE after it is not noticed by `start_dispatch`; OFF and STOP are, by the route check.
* `start_dispatch` writes an audit line after its ledger is installed. If that fails the handoff is SENT without a turn; the
  model's failed writes are those of record files and ledgers.
* `LedgerBacked` in `ledger_race` is about one process. Two processes are in `ledger_shared`, whose question is
  `AtMostOneStart`; that the ledger is backed there too is the theorem `WriteAhead`.

Control plane

* `_change` (`control_plane.py:394`) validates the edited project, not what the next load's
  `ensure_btest_api_mainline` makes of it: a worker added disabled, or a native node whose role
  changes while the API is the authority, makes every later load raise. `LoadsOncePaired` is the case that holds. Compare
  `tests/test_control_plane.py:92`.
* Disabling the native node while the project runs makes STOP and OFF fail (`api_mainline.py:170`; `console/README.md:434`).

API Mainline

* `approve_and_execute` compares the canonical state and the authority when it claims and not again
  before the call: a candidate that seals an earlier state may be paid for
  (compare `00_Master/Decisions.md:1303-1304`).
* A crash or failed write between a claim and the last mark leaves the start record DECIDING or
  SENDING. No operation ends it, and `prepare` refuses every later request. `ClaimEnds` holds only
  where nothing fails.
* A run whose turn was applied and whose result could not be written is recorded FAILED.
* Returns and deliveries: a crash between an artifact and its ledger entry leaves a file that blocks a new creation for ever. A
  receipt *and* a cancellation can both exist once an entry was set back by a crash or by another process's write
  (`console/README.md:426-430`). `create_exact_delivery` also takes returns to the API Mainline.

Transport

* `JsonLineProcessChannel.send` (`codex_transport.py:323-324`) writes and flushes without a deadline. A server that stays alive and stops
  reading can, once the pipe is full, block the runner for good, with its lease, before any receive deadline counts. This is the
  exception of `SessionEnds`.
* A server request the adapter does not know is kept and never answered; one whose number equals that of the pending request is taken for
  the answer. `codex_dispatch_once` and the smoke runners record FAILED before they close the child, and the lease they take is
  one of their own process. `CodexTransportHealth` marks itself checked before discovery, without a lock, and keeps a
  failed discovery until a restart.

Review and cycles

* The end of `_validate_task_alignment` reads `schema_version not in {"2.2", "2.3"}`: a SAFE_CONTINUE review of schema 2.4 that
  defers an unresolved requirement with evidence is refused where 2.2 and 2.3 accept it (compare `ROADMAP.md:74`).
* A validated HANDOFF_CODEX always satisfies the advance contract, so the policy's stop reasons other than its two limits cannot be
  reached in the live runner (`OnlyLimitsStop`).
* Two user messages with equal sequence numbers between task and report make the cycle uncapturable; a user-assisted packet is always
  revision 1, and revisions may fork; a torn packet file is never replaced; the default path allows one candidate ever.
* `build_reviewer_candidate` searches the manual review in a prompt whose lines are numbered (`cycle_handoff.py:527-533`, `state.py:47-48`), then
  in a candidate where they are escaped (`candidate.py:62-64`): a review of several lines that a report quotes is not noticed, and
  the reviewer is shown the judgment it is to be compared with.
* `parse_response` passes no authorised next steps (`response_pipeline.py:153`): a review of schema 2.4 that advances to a step of an
  approved plan is refused there, while the continuation would accept it.

Scripts and automatic runner

* The automatic runner adds `estimate_usage_cost(response.get("usage") or {})` to its cost (`auto_safe_continue_live.py:159,221`), which is 0
  for an answer without usage: the check before the second call can then pass although the money is spent, and the cost can
  exceed the cap by what the first call cost. This is the term `uncounted` of `CostWithinCap`.
* A USER_REQUIRED, BLOCKED or STOP answer has no handoff message, and `_source_handoff_from_first` raises: the run ends STOPPED with an error and
  `user_required` false, in the second cycle with a `TypeError` (compare `00_Master/Decisions.md:1338`).
* Two invocations started together pay twice (`raced`): the scripts look for evidence and write it later, without a lock. A crash between
  approval and attempt blocks every later invocation, except `live_once`'s, whose exit code is 0 on an HTTP error. `live_r3_once` decodes
  before it captures; others die without a result on a garbled 200 body, on one with a refusal or several texts, or on malformed usage. The cost cap is compared as strings. The automatic runner
  reports cost "0" when the first paid answer failed validation, and `update_node` re-seals even when the decision then stops.
  `ApprovalManifestGuard` lives in memory.

Console

* Output just before a shell's exit is lost; `close` signals a pid that was reaped; a fork followed by an error in `open` leaves a child and
  a descriptor (the exception of `NothingOutlives`); a half-sent frame, or a client that does not read, blocks its session (the exception of
  `TerminalEnds`).
* A cold collection or the prewarm that is late may overwrite a newer overview (`NeverBack` says nothing while one is under way, and so does not
  catch this); if `Thread.start` fails the refreshing flag stays set and that overview is never refreshed again (the exception of `RefreshEnds`).

## 7. Plan

1. Done: the dispatch ledger, dispatcher and control plane; start and run; return and delivery; transport; review, cycle and scripts;
   terminal and overview. Each with runs; every safety property of a passing run with a proof.
2. Proofs left: the seal of a started handoff in terms of `SemiAutoDispatch`'s requests, and bounds on what the runner of
   `AutoSafeContinue` spends when invocations do race.
3. Composition left: `SemiAutoDispatch` with `CodexSession` in place of its one-step transport; today the two meet in the three
   outcomes of a turn. A product of both is beyond a run of five minutes.

## 8. Running

    tlc -workers 2 -config MCDispatchLedgerRace.cfg MCDispatchLedger
    tlapm SemiAutoDispatch_proofs.tla
