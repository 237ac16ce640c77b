# juridical in TLA+

This directory is the formal model of juridical: TLA+ modules for its mutation
loop, its blast-radius limiter and its audit log, TLC configurations that check
them on small instances, and TLAPS proofs of theorems that hold for every
instance. Paths such as `engine.go:216` are relative to `src/internal/<package>/`
unless they say otherwise. `PROJECT.json` holds the machine-readable form: which
definition models which lines, the runs, the hazards, the seeded faults and the
theorems.

## 1. The system

juridical lets automation propose operations on container services (restart a
service, roll a deployment), computes what each would really touch, lets a human
approve, executes once, and writes everything to a hash-chained audit log.

| component | code | state | operations |
|---|---|---|---|
| blast-radius limiter | `blast/` | none, pure | validate a declared bound, compute the fleet share, compare a reach with a bound, give a verdict under the enforcement modes |
| reach from topology | `source/` | none; reads a `Topology` provider | fold the matched containers into a reach |
| actions and registry | `action/` | the registry, filled at start-up | validate, resolve, execute |
| plans, hashes, separation of duties | `approve/plan.go`, `hash.go`, `sod.go` | none, pure | hash a plan, compare proposer and approver |
| approval tokens | `approve/token.go` | `rec`: token -> record, under a mutex | `Mint`, `Consume` |
| mutation loop | `engine/` | `plans`, `idseq`, under a mutex | `Plan`, `Approve`, `Execute` |
| audit log and anchor | `audit/log.go`, `anchor.go`, `chain.go` | the log file, the anchor file, `seq` and `prev` under a mutex | `Open`, `Append`, `Records`, `Verify`, `InitAnchor`, `InspectAnchor` |
| audit record, redaction | `audit/record.go` | none | the columns of a row, redaction of parameters |
| HTTP API | `api/` | an in-memory store of keys, filled at start-up | authentication, `/v1/plans`, `/v1/approvals`, `/v1/executions`, `/v1/audit` |
| command line | `src/cmd/juridical` | none | `serve`, `audit verify`, `audit adopt-anchor` |
| version | `version/` | none | a constant |

**How they interact.** A handler of the API calls one of the three operations of
the engine on the goroutine of its request. The engine looks the action up, has
the action validate the bound and resolve its target (which reads the topology
provider and folds the answer), judges the reach with the limiter, hashes the
plan, and keeps it. `Approve` checks a stored plan and mints a token; `Execute`
consumes the token, resolves again, judges again, calls the action, and answers.
Each operation ends in one call of the audit sink, which is a `Log`. Three locks
are taken one at a time and never nested: the engine's (plans, ids), the token
store's, the log's. `GET /v1/audit` reads the whole log under the log's lock and
answers one page of it. `audit verify` and `audit adopt-anchor` are processes of
their own: they share the two files with the service and no lock.

**What is hard.** Requests run concurrently and the engine holds no lock across
the steps of one: between any two of them another request may store a plan, mint
or consume a token, and the fleet may move. The audit sink may fail before or
after its row is in the file, so that every operation can fail *after* it did
its work. A restart loses plans, tokens and the id counter while clients hold
ids, hashes and tokens of before. In the log, the line, its sync, the anchor's
rename and the directory's sync can each fail or be the last thing that happens.
Readers of the log come back for more while it grows, and an operator's command
reads file and anchor at different moments. A panic of a provider or an actuator
is recovered far above the engine, in the middleware. The share of the fleet is a
floating-point quotient rounded up.

**What makes each part correct.**

* limiter: the share is never under-reported; verdict and in-bound judgement
  agree in every mix of modes; a growing fleet never makes a refused plan good;
  ratcheting a mode never softens the verdict.
* mutation loop: nothing touches a service without an approval by a human who is
  not the proposer, on record, for exactly that work and within the bound; an
  approval is good for one execution, in its time and before any restart; an execute
  row is true, and a reported success has one; no request hangs.
* audit log: a log that opens holds every record whose anchor reached storage; what faults leave
  behind is classified as what it is; the writer never forks the chain; readers
  miss nothing and see nothing that is taken back; a report is true, and where the
  runbook has a step for it, taking that step brings the service back.
* HTTP API: only the keys and identities that may reach the engine do; what a
  client is answered is true of what was done.

## 2. The modules

| module | models | extends |
|---|---|---|
| `Blast` | `blast/` and the fold of `source/`, as pure operators | |
| `Actions` | `action/`: the two actions over a topology | `Blast` |
| `Fleet`, `MCFleet` | the limiter while containers start and stop and an operator ratchets the modes | `Blast` |
| `Engine` | `engine/` with `approve/`: the three operations step by step, clients, fleet, clock, restarts | `Actions` |
| `ApprovalGate` | the abstract specification: grants that expire, work done under them, records, reports | |
| `EngineGate` | the refinement mapping from `Engine` to `ApprovalGate` | `Engine` |
| `EngineInv` | the inductive invariants of `Engine` | `EngineGate` |
| `MCEngine` | small instances of `Engine` | `EngineInv` |
| `Api`, `MCApi` | the mutating routes of `api/` over `Engine`: admission, identity, answers | `Engine`, `MCEngine` |
| `ApiInv` | the inductive invariant of `Api` | `Api`, `EngineInv` |
| `AuditLog` | `audit/`: file, anchor, writer, crashes and recovery | |
| `AuditTrail` | the abstract specification of the log: an append-only trail | |
| `AuditLogTrail` | the refinement mapping from `AuditLog` to `AuditTrail` | `AuditLog` |
| `AuditLogInv` | the inductive invariants of `AuditLog` | `AuditLogTrail` |
| `AuditPaging` | `GET /v1/audit`: a client that reads page by page | `AuditLog` |
| `AuditVerify` | `audit verify`, `audit adopt-anchor` and the runbook of SECURITY.md | `AuditLog` |
| `AuditService` | composes the log, its pager and its operator | `AuditPaging`, `AuditVerify` |
| `AuditServiceInv` | the inductive invariants of `AuditService` | `AuditService`, `AuditLogInv` |
| `BlastProofs`, `FleetProofs` | the theorems about the limiter | `Blast`, `Fleet` |
| `EngineProofs`, `EngineStory`, `EngineGateProofs` | the theorems about the engine: types and duties, the log of events, the refinement | `EngineInv` |
| `ApiProofs` | the theorems about the routes | `ApiInv`, `EngineGateProofs` |
| `AuditLogProofs`, `AuditServiceProofs` | the theorems about the log and about its readers | `AuditLogInv`, `AuditServiceInv` |

A definition whose comment begins with *Fault:* stands before the definition it
distorts. It is a plausible bug of that code, no part of any specification, and
is there to show that the property it is paired with in `PROJECT.json` notices.

### Blast and Actions

`ComputeFleetPct` is the float64 computation and not the mathematical one:
`CeilOvershoots` says exactly when the rounding of the quotient survives the
product by 100 and `math.Ceil` adds a point to a whole percentage. The definition
agrees with IEEE double arithmetic on every fleet of fewer than 2000 units
(compared outside TLA+). Names are model strings and `Trimmed` is what `strings.TrimSpace`
makes of them. `Reach`, `Within`, `BreachedModes`, `Evaluate` and
`ValidateDeclared` keep the axes and the order of the code. The topology provider
and the actuator are interfaces; the provider is a function from
(project, service) to an answer, the actuator is `Touch`.

### Engine

The variables `idseq`, `plans` and `tokens` are the fields of `Engine` and
`TokenStore`. `call[c]` is goroutine `c`: its program counter, its copy of the
plan (`snap`: the code works on a copy too), the approver, the token, the reach
its row will carry. Each action is what one critical section does, or one read of
the topology, or one use of the actuator:

| code | actions |
|---|---|
| `Plan`, engine.go:109-155 | `PlanRefused` or `PlanResolved`, `PlanNewID`, `PlanStore`, `PlanAudit` |
| `Approve`, engine.go:168-197 | `ApproveCheck`, `ApproveMint` or `ApproveMintFails`, `ApproveAudit` |
| `Execute`, engine.go:216-264 | `ExecuteLookup`, `ExecuteConsume`, `ExecuteRecheck`, `ExecuteMutate` or `ExecuteFails`, `ExecuteAudit`, `ExecuteReport` |
| `refuse`, engine.go:266-299 | `Refuse` |
| a panic of a provider or an actuator, api.go:140-150 | `Panic`: the call ends where it is, the service touched or not, no row |
| a restart | `Crash`: engine state and goroutines are gone; log, clients and what was done stay |

`shown`, `handed` and `reported` are what clients hold. A request may name any plan
that is stored, shown to anybody or not, and that plan's hash or a wrong one: ids are
numbers in order (engine.go:301-307) and the hash is computed from data a client has.
Tokens cannot be guessed: a request names one that was handed out, or one nobody
minted. `minted` and `mutations` record what happened and no
guard reads them. A hash is the tuple it is computed from (SHA-256 is taken as
injective), a token is a fresh number (the random source never repeats and cannot
be guessed); because of the latter a token of before a restart is unknown after
it. `AuditAppend` gives the three outcomes `AuditLog` shows an append has: row and
success; error without the row; error with the row. `Panic` is no part of `Step`:
nothing makes a panic happen, so fairness must not rely on one.

### ApprovalGate

The promise without the machinery: a grant names its work and is good for `Life` at
most; it is taken up while it is good, once; what is done is the work of a grant taken
up, or that grant is dropped and nothing was done; a restart voids whatever was not
done; what is recorded was done, what is told is recorded. `EngineGate` maps a token
*handed out* to a grant of its plan's tuple (`Granted`), those unspent in the store to
the live ones, each with its expiry (`Live`), `Consume` to taking one up (`Taken`: the
calls between `Consume` and the actuator), the actuator's work to what is done, an
execute row to a record, a successful answer to a telling, a restart to `Void`. A token
whose approve row failed is no grant.

### AuditLog

The file is the sequence of writes. A record's hash is the number of its `Append`;
a write is whole, torn, or all of it but the newline, and the next write goes on
the same line as readers see it: `LineStarts` and `Records` model the line
scanner, which decodes the first record of a line and ignores the rest.
`Nth(S, n)`, the place of rank `n` among `S`, finds the write a line begins with.
`durable` is how much a power loss leaves; `anchors` is which anchors it may
leave. An anchor is absent, sound, or something `readAnchor` cannot read. `Judge` is `Open`'s verdict with the cases of `checkAnchor`. `Append` is
three steps (`AppendWrite`, `AppendSync`, `AnchorWrite`) with a failure beside
each; it holds `l.mu` throughout, so there is one at a time. The counter is not
advanced by a failed step where the code rolls it back, and is where the code
keeps it. `RemoveAnchor` and `InitAnchor` are the recovery the documents
describe; `DamageAnchor` and `LoseTail` are damage from outside. `trusted` collects
the records whose anchor was synced to storage, `marred` remembers that a failed
append left bytes, a file was damaged or an operator stepped in, and no guard reads
either.

### AuditTrail

The promise without file and anchor: entries follow each other while a writer
serves, some are acknowledged, a stop may cost the end of the trail but no
acknowledged entry, and no writer starts on a trail that lacks one. After damage or
an operator's step only the last of these is left. `AuditLogTrail` maps the trail to
what a reader finds before the first torn line, the acknowledged entries to
`trusted`, serving to the log being open.

### AuditPaging, AuditVerify and AuditService

`PageTurn` is one `GET /v1/audit`: `Log.Records` takes the log's mutex, which
`Append` holds throughout, so a page is turned only between appends (`Unlocked`).
The client asks with the cursor it has and begins again after the last record it
was shown. The events are abstracted to the set `Asked` of records the filter lets
through; `Rows` are the records the loop of `handleAudit` lets through, in order.
Records are compared by hash.

`audit verify` is three steps, one per read: the log, the anchor for the report,
the anchor for the verdict. Reading a whole file is taken as atomic with respect to
one write. `raced` says whether the anchor changed in between. The runbook is step 3 of
SECURITY.md. `RunbookAdopt` adopts after code 4. `RunbookRemove` removes the anchor
after code 3 alone, and only where the report bears the signature of one append that
was cut off, an excess of one whose prior hash is the anchor's: there the operator is
taken to have satisfied himself that the record is genuine, while any other excess he
treats as the incident audit.go:155 calls it. Code 5 is only to be inspected, and code 2
and code 1 have no step either: `RunbookNone`. `Recoverable` says of which files that
leads back: in order, without an anchor, or with that signature.

### Api

`Api` puts the mutating routes around `Engine`: each request of `Engine` comes with
a message that was admitted, with the identity the code takes from it, and each way
a call can end has its answer. A message that is not admitted (401, 403, 413, 415,
400) is answered before any domain call and is no step. `asked` carries the key of
the call, the code it ends with if refused, and what it did so far (`Effects`, a
history of its own steps); `answer` is the answer of the last step. Each step of
`Api` is a step of `Engine` or leaves its variables alone. `NotStored` answers a request that names an id with
no plan; `answer.known` says whether that id was ever shown to a client. Lost answers
and retried requests need no action: clients are free to send any request they could
build, the same again included.

## 3. The runs

| run | what it asks | instance | distinct states |
|---|---|---|---|
| `engine_sink` | types, approvals, truth of the rows and answers, refinement of the gate, the invariant about rows, with a sink that may fail each time and actuators that panic | 2 goroutines, 4 requests, 2 request bodies (one whose bound does not validate), a fleet that changes under the plan | 113 thousand |
| `engine_crash` | what runs is what was approved; duties; no grant outlives its time or a restart (refinement of the gate); the log misses only mutations under way at a restart; the inductive invariant; stored plans stay | 2 bodies that differ in the bound and the proposer, approvers that are blank, human, the proposer in other letters, or a key; TTL 0 and one tick; one restart | 208 thousand |
| `engine_story` | tokens used once; approved and rechecked reach within the bound; what the log tells | 2 images, a service that spreads over two hosts, shrinks and vanishes; a sink that does not fail; every axis on warn | 230 thousand |
| `engine_live` | through the API: every request ends, answers are true, only operators execute; the inductive invariant | 2 goroutines, 3 requests, failing sink, panics, a service that vanishes, one restart; 4 entries of 3 keys, one listed twice; messages that fail in each way | 71 thousand |
| `fleet` | agreement and monotonicity of the limiter | 3 containers of 5 workloads (blank names among them), 4 other units, 3 bounds, every mix of modes | 63 thousand |
| `audit_log` | the log implements the trail; a log that opens lost nothing; no false alarm; the writer is at the head; the inductive invariant | 4 appends, 3 stops, every fault | 514 thousand |
| `audit_readers` | pages are complete and stay; reports are true; the runbook leads back to service; the inductive invariant | 3 appends, 2 stops, pages of 1 and 2, failed anchors, crashes, power losses, a damaged anchor | 60 thousand |
| `doc_approver`, `doc_reach`, `doc_warn`, `doc_audit_anchor`, `doc_audit_chain` | statements of the documents and comments the code does not keep (section 5) | the least instance that shows it | |

**Why the bounds are enough.** Two goroutines give every interleaving of two
operations, and the interleavings that matter (two executions with one token, a
plan stored while another is approved, an execution across a restart) need two at
a time. A whole life of a plan is three requests; the fourth is the second
execution, the second approval or the second plan that could disturb it.
`MaxNow` of one with a TTL of zero separates before, at and after the expiry. One
restart suffices for ids to be used twice. The theorems of section 4 do without
these bounds. In `audit_log`, four appends are a good one, a failed one, the one
that trips over it, and one more; three stops are a crash, a loss and the crash
after recovery.

The fleets of `fleet` are too small for the share to overshoot in floating point, which
takes seven containers of a target; that case is left to `FleetPctIsClose` and
`ShareAlwaysCovered`, which are proved for every count.

In `audit_readers` three appends are two pages of one, or a page and what came
after it; two stops are one before and one between the operator's steps. In
`engine_live` three requests are one whole life of a plan, and the second goroutine
turns any of them into a repeated one. No instance of `Api` here reaches the answer
`SodViolation` (its one human proposes nothing); the check behind it is
`engine_crash`'s.

**Deadlock** is checked except in the runs of the audit log and `engine_crash`,
which really stop: the former when the bounds are used up and the log is refused,
the latter when the clock, the restarts and the requests are.

**Fairness.** `FairApiSpec` asks weak fairness of every goroutine's `Step`, and of
nothing else: net/http serves each request on a goroutine, the Go scheduler runs
every runnable one, the mutexes are held for a bounded time, and the topology, the
actuator and the sink return (each is given a context or is a local file; a provider
that hangs is not modelled). No client is required to send a request, no crash,
panic or clock tick to happen. `FairServiceSpec` is about people and a supervisor:
while the service is down the operator runs `audit verify` to its end and takes the
step the runbook has for its exit code, if it has one, and a service that can open is
started again.
Nothing is asked of the client or of the service once it runs. `AuditLog` and
`Fleet` are checked for safety and need none.

## 4. The proofs

Eight modules hold theorems, and TLAPS checks each of them in full. Every safety
property and every refinement that a passing run of section 3 checks is also a
theorem, for every value of the constants: any number of goroutines, principals,
requests, topologies, faults, appends, stops, ticks and restarts. The inductive
invariants `IInv`, `RowsInv`, `ApiIInv`, `LogIInv` and `ServiceIInv` are also checked
by TLC in the runs.

**Limiter** (`BlastProofs`, `FleetProofs`).
`FleetPctNeverUnderReports` and `FleetPctIsClose`: for every count and inventory the
share is at least the true share and less than two points above it, floating-point
overshoot included. `ExecutableIffWithin`: in every mix of modes a plan is executable
exactly when it is within its bound, because `BLOCK` is impossible within it. From
these, of a fleet that moves: `JudgementsAlwaysAgree`, `ShareAlwaysCovered`,
`GrowthNeverWidensIt`, `RatchetNeverSoftensIt`. They need no invariant beyond types.
The work is in the arithmetic of `ShareGrows` (one more container of a target never
lowers its share, rounding and overshoot included) and in counting hosts and
services, blanks apart, when one container is added.

**Mutation loop** (`EngineProofs`). `TypeCorrect`, `InvariantHolds`, and from them
`TokenIsUsedOnce`, `MutationIsApproved`, `RunIsWhatWasApproved`, `DutiesAreSeparate`
and `RecheckIsWithinBound` (of the reach that was approved and of the one rechecked, in
every mix of modes). None of these five properties is inductive: each speaks
of mutations that have happened, and says nothing of the call that is about to make
the next. `IInv` adds that. `HoldersSound` is its heart: a call between `Consume`
and the actuator is the only call with its token, the token is spent and has no
mutation yet, and its hash is the hash of the plan the call will run. That is
established by `ExecuteConsume`, where flag and hash are tested and set in one
step, and kept because no other step makes a spent token acceptable. Across a
restart the store is empty, so `Spent` is about tokens *that are in the store*: a
forgotten token is as good as a spent one. `HandedSound` carries the approve row
from before the token is given out to when it is used; `DutiesSound` the checks
of `Approve` to the mint; `TokensSound` ties the store to what was minted;
`PlansSound` ties hashes to contents, and from equal hashes to equal tuples.

**The log of events** (`EngineStory`). Three more invariants.

* `RowsInv` is inductive beside types alone. A call that is about to write its
  execute row is the only one for its mutation, the mutation has no row yet, and the
  call's copies of plan, reach and approver are the mutation's (`WritersSound`); a
  mutation's row, once there, is an execute row, is of no other mutation and is never
  changed, as the log only grows (`RowsTold`, `RowsNamed`). From it
  `ExecuteRowsTellTheTruth` and `WhatIsReportedIsRecorded`, for every sink.
* `IdsInv`: the counter is ahead of every stored plan and a call that took an id is
  alone with it. From it `PlansAreNeverReplaced`.
* `StoryInv`, `SpentInv` and `UntoldInv`, for a sink that does not fail
  (`~SinkMayFail`), the latter two also without panics (`~MayPanic`): until a restart
  the plan row of every stored plan, and of every plan a call is about to approve, is
  written or about to be written by the call that stored it (`PlanTold`; a client that
  guesses an id may have its approve row written first); every spent token is in the hands of a
  call that will tell of it or told of; the mutations nobody will tell of are at most
  one per goroutine and restart. From them `LogTellsTheWholeStory`,
  `SpentTokensAreAccountedFor`, `MutationsAreAccountedFor` (the last for finitely many
  goroutines, as it counts them). The conditions are those of the properties: with a
  sink that fails, or a panic, rows are really missing.

**The gate** (`EngineGateProofs`). `EngineImplementsGate`, the refinement
`Spec => ImplementsGate`. It needs one more invariant, `LifeInv`: no token in the store
outlives its time, counted from now, and a token whose approve row is still to be
written is unspent and known to that one call (`LifeMint`: a new number is nobody's;
`LifeConsume`: what is consumed was handed out). A step is then sorted by what it
changes of the tokens handed out, the store, the calls that hold a token, the mutations,
their rows, the answers. A step that changes none stutters (`Unseen`); each of the
others is one step of the gate. The work is under a grant taken up in its time because
a call gets past `Consume` in no other way; under that grant alone because of
`HoldersSound`; at most once because a holder's token has no mutation yet; a record is
of work that has none because of `WritersSound`.

**HTTP API** (`ApiProofs`). `ApiRunsTheEngine` (`ApiSpec => Spec`) makes all of the
above true behind the API, the gate with it (`ApiImplementsGate`). `ApiInvariantHolds`
adds `ApiIInv`: with which key a call stands where it stands (`KeysSound`), and what
it has done by then (`DoneSoFar`, `DoneAndRefused`). From it, `RowsInv` and `IdsInv`,
`AnswersAreAlwaysTrue`, `NotFoundNeedsARestart` and `OperatorsAloneExecute`, for every
key list (with any repetitions) and every set of messages.

**Audit log** (`AuditLogProofs`). `TypeCorrect`, `LogInvariantHolds`, and from them
`OpenMissesNothing`, `NoAlarmIsFalse`, `AheadWasNotAcknowledged`,
`WriterStaysAtTheHead`; then the refinement `LogImplementsTrail`. `LogIInv` has three
parts, because the promises are of two kinds.

* What holds whatever is damaged. `FileInv`: hashes appear in the file in the order of
  their appends. `TrustInv`, the heart of `OpenMissesNothing`: every sound anchor that
  exists or may come back, and the writer's own head, *cover* what is trusted, which
  says that a chain that verifies and ends in the record the anchor names contains all
  of it. `Covers` has to speak of every place where that record may stand and of the
  chain before it only, and this is why losing the tail, writing half a line or
  chaining on after a failed sync cannot break it: any of them may make a chain
  unverifiable or end elsewhere, none makes a wrong chain verify.
* What holds as long as nothing was damaged. `IntactInv`: the file is the chain of its
  records, whole but for its end; each anchor names one of those on storage, and none
  earlier than something trusted; the writer stands at the end.

Lines and records are defined by rank (`Rank`, `Nth`), as a recursive definition could
not be reasoned about; `RecordsOfPrefix` and `RecordsOfAppend` say what a reader finds
in a shorter and in a longer file. The refinement maps to the records before the first
torn line, so that `LegibleOfAppend` and `LegibleOfPowerLoss` are its hard steps.

**Readers of the log** (`AuditServiceProofs`). `ServiceRunsTheLog`
(`ServiceSpec => Spec`), `ServiceImplementsTrail`, `ServiceTypeCorrect` and
`ServiceInvariantHolds`; `ServiceIInv` has a part for each reader.

* `SnapshotInv`: while the command has read the log and has still to read the anchor,
  any anchor it may find covers, *of what it has read*, all that was trusted then. A
  later anchor names a later record, which is not in what was read and so can vouch
  for nothing; that is why no lock is needed, and gives `ReportOfZeroIsTrue`.
* `RaceInv`: on undamaged files what was read is where the file begins, and the anchor
  is the one of that moment or one past all that was read. `AlarmsMeanARace` and
  `AheadReportsAreExact` follow.
* `PageInv`: on undamaged files the client was shown records on storage, in order and
  with none of its event left out up to its cursor; what it is owed is on storage, and
  storage only grows (`StorageStays`). `PagesAreAlwaysComplete` and `WhatWasSeenStays`
  follow.

**Assumptions.** `NamesAssumption` (Actions), `FleetAssumption` (Fleet),
`EngineAssumption` (Engine), `ApiAssumption` (Api), `AuditAssumption` (AuditLog) and
`PagingAssumption` (AuditPaging) say that constants have the types their comments give
them. `ApiAssumption` says further that a key list the server starts with has an id in
each entry, that the identity header names a human or nobody, and that a blank name is
nobody's. Only `MutationsAreAccountedFor` needs a finite set. That SHA-256 is injective
and that tokens are fresh is built into the data and is not an assumption one could
drop.

**Model-checked only.** Liveness: `CallsReturn` (every request ends) and
`RunbookBringsBack` (the runbook brings the service back), as the prover has no
fairness and no `ENABLED`. That `ComputeFleetPct` is what float64 computes is a
comparison outside TLA+.


## 5. Where documents and code disagree

Each is a run whose one property is what the text says.

* `doc_approver`: docs/mutation-loop.md:39 has *"Approver ≠ proposer"*. It is
  compared at mint time with the proposer of the plan the approver saw, and the
  hash a token is bound to covers neither plan id nor proposer. Two keys propose
  the same content; a token minted for one plan executes the other, whose proposer
  may be the approver. What does hold is `TokensSeparateDuties`.
* `doc_reach`: docs/mutation-loop.md:44-46 says that any drift in the reach
  invalidates the token. At execute time the hash is not computed again and the
  new reach is compared with the declared bound. What does hold is
  `RecheckedWithinBound`.
* `doc_warn`: within.go:8 has of `warn`, the default mode, *"over-reach
  recorded/surfaced but permitted"*, and wiki/Home.md:37 and
  docs/design/decision-progressive-enforcement.md:15 have a denied action *"still
  proceed"*. The code tests `Within` beside the verdict when it approves (plan.go:37)
  and when it rechecks (engine.go:239), so an action over its bound is refused in every
  mode; the modes decide only which verdict is shown (`ExecutableIffWithin`). With every
  axis on `warn`, a service approved on one host and spread to two is refused at the
  recheck. What holds is the strict reading, `RecheckedWithinBound`.
* `doc_audit_anchor`: audit/log.go:93-95 says that a record whose anchor failed
  makes a later `Open` refuse the log until the anchor is re-established. The
  next successful `Append` writes an anchor that covers it.
* `doc_audit_chain`: docs/mutation-loop.md:50 says that each record links to the prior
  one. A failed write or sync leaves bytes in the file that the next `Append` does not
  link to. In the run a short write is answered with an error; the next `Append` writes
  on the same line, syncs, anchors and is acknowledged, in a file that no longer
  decodes and that the next `Open` refuses.

More that the models make visible, without a run of their own:

* blast/reach.go:15 says the share is the ceiling of the exact value. The division and
  the product round in float64 before `math.Ceil`, which adds a point to some whole
  percentages: `ComputeFleetPct` gives 56 for 11 of 20 and 29 for 7 of 25, and a plan
  exactly at its ceiling is over its bound. What does hold is `ShareIsCovered`: never
  too low, never two points too high.
* audit.go:155 tells the operator that an excess other than one is *"a
  truncation/tamper incident, not a simple crash window"*. Two appends in a row whose
  anchors failed leave an undamaged log two records ahead: a failed anchor leaves the
  log open with its head where it is (log.go:86-98). What does hold is
  `AheadReportIsExact`, and that none of the excess was acknowledged with its anchor on
  storage (`AheadIsUnacknowledged`).
* SECURITY.md has exit code 2 of `audit verify` mean an incident. Run beside a live
  service that appends between the command's reads it is also given for a healthy log;
  `AlarmMeansRace` says that this, on undamaged files, is the only other cause.
* A log whose last line is torn, which a power loss during `Append` leaves, is reported
  with exit code 1 and has no step in the runbook. Nor have a corrupt anchor (code 5,
  *"inspect it first"*) and an excess other than one. None of the three is
  `Recoverable` in `RunbookBringsBack`.

## 6. What is not modelled

* **Request ids and the health check.** They change nothing. (`ServeHTTP` builds the
  middleware anew for each request, so that the counter of `withRequestID` starts
  again and every id is the first.)
* **Command line**: flags, usage texts, the listener, its timeouts and shutdown. A
  write timeout does not end a handler, so it is a lost answer to the models.
* **Redaction** and the remaining columns of a row: functions on strings, and no
  decision depends on them.
* **The in-memory log** has no file: `Append` to it cannot fail and a restart
  forgets it.
* **`InitAnchor` beside a running service.** The documents have the operator stop it
  first; the code does not look. Between its test for an anchor and its write a
  service's first appends could be overtaken.
* **The provider and the actuator** are interfaces without implementation here. The
  interval between recheck and actuator is in the model (`Mutation.live` records
  the reach at the moment of the work) and no property claims anything of it: the
  code cannot close it. Likewise a crash or a panic between the actuator and the
  execute row leaves a mutation without a row, as the code keeps no record of
  intent: `MutationsAccountedFor` says that, with a sink that works, nothing else
  does.
* **`Engine` over `AuditLog`.** The engine's sink is the abstract one with the three
  outcomes an `Append` shows, and reads nothing back. What the composition would
  add is that the service does not start again while its log is refused, which only
  removes behaviours.
* **Memory**: plans and tokens are never removed from their maps.
* **The version** is a constant.

## 7. Plan

1. The boundary of `AuditLog` and `Engine`: state what the engine assumes of its sink
   (the three outcomes of an append) as a property of `AuditLog`, and prove it.
2. Theorems about the abstract specifications themselves, so that what a reader takes
   from `ApprovalGate` and `AuditTrail` is proved of them and follows for the code by
   refinement alone.
3. A client that pages through a log in which a failed sync left two records with one
   sequence number: which rows it may miss (the hazard at api.go:262).
