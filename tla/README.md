# Verification of the ACS back end

A TLA+ development kept beside `src/backend`, the Python back end of an Auto
Configuration Server (TR-069/CWMP) that registers CPEs from their Informs,
performs *reviewed reads* on them, approves profiles, authenticates its callers
and keeps evidence in files.  It contains specifications, the TLC
configurations that model-check them and proofs that TLAPS checks.  Paths below
are relative to `src/backend/src/acs/`.

## 1. The system

### Components, their state and operations

| Component | Code | State it keeps | Operations | What makes it correct |
|---|---|---|---|---|
| Read query queue | `infrastructure/database/queries.py`, `query_models.py`, `application/services/queries.py`, `domain/operations/query.py` | `query_operations`, `query_attempts` | `create`, `get`, `exchange`, `_reply`, `_expire` | one active read per CPE; each RPC is sent by one session, answered once and before its deadline; terminal rows are final |
| Collection jobs | `infrastructure/database/collection_jobs.py`, `domain/operations/collection.py` | `collection_jobs` | `create`, `get`, `advance` | progress adds up, limits hold, "succeeded" means complete, every job ends |
| CWMP sessions, Inform receiver | `infrastructure/database/inform_repository.py`, `application/services/inform.py`, `cwmp/http/app.py` | `cwmp_sessions`, `cpes` | `accept`, `complete`, `exchange` (delegated) | a session waits for an answer exactly while it carries a read |
| Inventory and its provenance | `inform_repository.py`, `cwmp/compatibility/{generic,huawei,profiles}.py`, `application/services/inventory_normalization.py` | columns of `cpes`, `cpe_inventory_fields` | `normalize`, `update_inventory` | no field returns to an older observation; each value keeps the message and profile it came from |
| Collected data | `_reply` of `queries.py` | `cpe_parameter_catalog`, `cpe_parameter_values` | upserts inside `_reply` | each row is what the operation it names reported |
| Query policy | `cwmp/compatibility/queries.py` | none | `plan`, `normalize`, `discovery_names`, `permitted_values`, `select_names` | only reviewed leaves are read, results are sanitised |
| WAN and optical telemetry | `cwmp/compatibility/huawei_telemetry.py`, `infrastructure/database/telemetry.py` | one row per interface and field | the gate in `create`, `select_names`, `collect`, `update_telemetry` | what is read was discovered; a value is valid only on evidence of one answer; nothing goes back in time |
| Profile validation | `infrastructure/database/profile_validation.py`, `cwmp/compatibility/draft_profiles.py` | `cpe_profile_approvals` | `start`, `status`, `approve`, `collect` | an approval rests on a read of the CPE's present firmware |
| SOAP | `cwmp/soap/{inform,queries}.py` | none | parse, serialise | a reply correlates with the RPC it answers |
| Authentication and accounts | `infrastructure/security/*.py`, `auth_models.py`, `cpe_accounts.py` | credentials, verification slots | `authenticate`; `create`, `rotate`, `disable`, `delete` of an account | at most four derivations; slots are returned; a disabled account is refused |
| Inform capture | `infrastructure/storage/inform_capture.py` | one capture window, one file | `capture`, `_publish` | at most one attempt and one whole file |
| Query evidence and packages | `cwmp/compatibility/{query_evidence,evidence_package}.py`, `infrastructure/storage/{evidence_package,evidence_cli}.py` | `evidence_payload` of a read; files | capture and verify a bundle; `publish_package`, `load_package` | a bundle says what the result says and its verifier accepts it; a committed package is whole |
| Result export | `infrastructure/database/result_export.py`, `cwmp/compatibility/result_export.py` | none | `export` | all of it is of one moment; what it lists it can account for |
| Administrative API | `api/**` | none | routes | maps calls to the services |
| Read models | `infrastructure/database/cpe_inventory.py`, `domain/cpe/inventory_view.py` | none | list, detail | a page, its total and its rows are of one moment |
| Settings, engine, log records | `settings.py`, `infrastructure/database/{database,base,check}.py`, `infrastructure/observability/*` | none | | |

### How they interact

* A CPE opens a session with an **Inform** (`accept`), which registers it and
  its inventory fields and answers with a cookie.  Each later POST of that
  session is an **exchange**: an empty body asks for an RPC, a body is the answer
  to the RPC the session carries.  The CPE initiates everything; the server
  cannot call it.
* An administrator **creates a query** (one read) or a **collection job** (a
  bounded sequence of reads).  Either occupies the single slot of the CPE: the
  partial unique index `uq_query_active_cpe` allows one operation that is
  pending or dispatched.
* Nothing runs in the background.  Overdue reads expire, and jobs queue their
  next read, **inside the transaction of whoever calls next**: an exchange of the
  CPE, or a `get` of a client.
* Every one of these handlers is one PostgreSQL transaction whose first
  statement locks the row of the CPE (`SELECT ... FOR UPDATE`).  `now` is read
  *before* that lock is granted.
* **Profile validation** is a client of the queue, but each of its calls is
  *several* such transactions: an approval needs the read it queued, the values
  that the answer stored, and the firmware that the Informs report.
* Before any of that, each request is **authenticated**: the account is read and
  a thread derives a key, under a semaphore of four slots per process.
* **Readers** (the inventory views and the export of results) run several
  statements in one read-only transaction while all of this goes on.
* The receiver hands each accepted Inform to the **capture**, at most one of
  which a process publishes; the **package** commands read such a file later,
  in processes of their own.  These two share only the file system.

### What is hard

* Three producers (administrator, job engine, receiver) share one slot, and the
  transaction that ends a read may start the next.
* Answers arrive late, repeated, after a change of firmware, or never; a CPE
  re-polls with the cookie of a session that waits for an answer.
* Timestamps of commits are not monotonic, while deadlines, observation times
  and the guards of the upserts compare them.
* A job accounts for a read in a later transaction than the one that ended it.
* What an approval checks in one transaction may change before it grants.
* A telemetry field is fed by several leaves, possibly of different answers,
  and is valid only for an interface that one answer names as the Internet.
* A call of `authenticate` may time out, be cancelled or lose the database at
  each `await`, while its thread cannot be stopped.
* A publication is half a dozen system calls; each can fail, the process can
  stop and the machine lose its power between any two, and others use the path.
* A verifier must rebuild, from anonymised XML alone, the bundle the server
  stored, whatever the order in which a CPE listed its addresses.
* Liveness depends on clients that poll.

`PROJECT.json` lists each hazard at its line with the properties that cover it.

## 2. Modules

| Module | Models |
|---|---|
| `ReadQueue` | the tables of one CPE (`db`), the clock, and each handler of `PostgresQueryRepository`, `PostgresInformRepository` and the collection and telemetry modules that changes them |
| `ReadQueueProps` | the properties of `ReadQueue`, its inductive invariant, fairness, and the refinement mapping |
| `SerialQueue` | the abstract promise: a slot through which operations pass one at a time, once |
| `ProfileValidation` | the calls of administrators on `ProfileValidationRepository`, composed with `ReadQueue` |
| `Verification` | `authenticate` of one process and the commands that change accounts |
| `Inventory` | normalisation and reviewed profiles, `update_inventory` with its provenance columns, sessions and events for several CPEs, and the views that read them in several statements |
| `Disclosure` | the evidence stored with the answer of a read, its verifier, and the export of results, composed with `ReadQueue` |
| `InformCapture` | `FileInformCapture` in several receivers that share an output path |
| `EvidencePackage` | the create and verify commands of evidence packages that share an output path |
| `MCQueue`, `MCDiscovery`, `MCValues`, `MCTelemetry`, `MCValidation`, `MCVerification`, `MCCapture`, `MCPackage`, `MCInventory`, `MCDisclosure` | small instances for TLC |
| `ReadQueueProofs` | type correctness, with a lemma for each step the transactions are composed of; the inductive invariant of the slot; that operations only progress, are answered in time and stored whole, and that what is stored can be traced |
| `ResultProofs` | that nothing goes back in time and only first answers write; the telemetry; the refinement of `SerialQueue`; the collection jobs |
| `ValidationProofs`, `DisclosureProofs`, `VerificationProofs`, `CaptureProofs`, `PackageProofs`, `InventoryProofs` | the theorems of `ProfileValidation`, `Disclosure`, `Verification`, `InformCapture`, `EvidencePackage` and `Inventory`; the first two build on those of the queue |

### How `ReadQueue` corresponds to the code

`db` is a record of the CPE's rows.  Handlers of the code are compositions of
calls that change rows; the module has an operator from tables to tables for
each of these calls and composes them in the order of the code:

| Code | Model |
|---|---|
| `_expire` (queries.py:107) | `Due`, `Expire` |
| `create` (135) | `CreateQuery`, `RepeatCreate`; refusals raise and change nothing; the gate of the `wan` and `optical` scopes is part of the plan |
| `get` (372) | `GetQuery` |
| `exchange` without a reply (406) | `Poll`, one action per outcome: `PollCompleted`, `PollResend`, `PollProfileChanged`, `PollDispatch`, `PollIdle`; each begins with `Settled` (expire, then advance the active job) |
| `_reply` (488) | `Reply`: `ReplyApplied` (`Reason`, `Collect`, `UpdateTelemetry`, `Conclude`, then the active job advances), `ReplyProfileChanged`, `ReplyLate`, `ReplyRepeated` |
| `update_inventory` (inform_repository.py:41) | `Newer`, `UpdateInventory` |
| `accept` without a cookie (89) | `Inform` |
| `collection_jobs.create` (62) | `CreateCollection`, `RepeatCollection` |
| `advance` (150) | `Advance` = `Absorb` (the read that ended), then `Continue` (`Exhausted`, `Refused`, `Ended`, or the next read) |

Decisions of abstraction, and why each is sound for what is checked:

* **Transactions are atomic and serialised.**  Each handler takes the row lock
  of the CPE first, and no two CPEs share a row, so one CPE is modelled and one
  transaction is one step.  An exception rolls back and is no step.  What the
  lock does *not* order is `now`: a transaction commits with any timestamp of
  `Times`, up to `MaxLag` behind the clock.
* **Identifiers.**  `uuid4` is the least unused identifier (`NextId`), so rows are
  numbered in the order of their creation: rows are compared for equality only.
  An RPC id is the identity of its operation.
* **Data.**  A path or a value is an element of a small set.  A reply is its kind
  and a function from the paths it names to what it says of each: a text,
  `Listed` (an entry of a names reply), `Untyped` (not an `xsd:string`) or
  `Unsafe` (a string the normaliser and `safe_text` refuse).  An operation's
  answer hash is its reason and result: what the code compares.  All fault codes
  are one.  The `writable` flag of a names reply is dropped.
* **Eligibility.**  `policy.plan` accepts a CPE by manufacturer, product class and
  firmware.  The product class of a CPE is part of its identity, so a row's
  recorded profile, version and firmware match exactly while the CPE remains
  in the reviewed set (`Eligible`).
* **An unknown CPE** is one whose attributes are all `NoValue`: it is not eligible
  and every handler refuses it.  An Inform with a cookie only checks the session
  and changes no row of the model.  The report of an Inform is what the
  normalisers return.
* **Scopes.**  `device_info` is a plan without a path, `discovery` a plan with an
  object path, `wan` and `optical` a plan with an interface and the names to read.
  The gate reads the last successful discovery of the interface; two that finished
  at the same instant are a nondeterministic choice, as the ordering of the code
  leaves them.  The profile is always one whose optical integers are reviewed;
  the limit of 256 leaves, the objects between a WAN interface and its IPv6
  addresses and private observations are left out; the capture of evidence is in
  `Disclosure`.
* **One field, several leaves.**  The observations of a field are what `collect`
  makes of the leaves *one answer* reports; fields of an interface may be of
  different answers, as in the table.  No run has a field of two leaves (only the
  IPv6 addresses are one); the proofs hold for it.

### The other modules

`ProfileValidation` adds to `ReadQueue` the calls of administrators.  A call is
where it is (`calls`) and what it carries; each action is one transaction.

| Code (`profile_validation.py`) | Model |
|---|---|
| `status` | `Valid`, `Effective`, `Status`; read in one step, because what a grant decides on it is checked again under the lock; that the other leaf of the draft is not empty is left out, which only makes more operations valid |
| `start` | `StartIdentity` or `StartLookup` (the CPE is read), `StartCreate` (`queries.create`), `StartRecord` |
| `approve` | `ApproveCheck`, `ApproveGrant` |
| `collect` | `CollectCheck`, `CollectCreate` |
| a refusal, a storage error, a client that left | `Abandon` |

`StartRecord` does not lock the CPE, and an Inform reads the approval without a
lock before it revokes it.  If the two overlap, the columns they leave are those
of one of the two orders (the mapper only writes columns that change), so that
they are two atomic steps of the model.

`Inventory` has several CPEs, and parameters as an envelope carries them: a root
(`Device` or `InternetGatewayDevice`), a field and a raw text, with the stripped
form and the defect of each text as functions.

| Code | Model |
|---|---|
| `GenericInventoryNormalizer._text` (generic.py:28) | `Said`, `Refused`, `Text`: one refused entry refuses the field, texts that differ conflict, and the source is the root of the first path |
| the reviewed profiles (profiles.py:42, huawei.py:16) | `Agrees`, `Matches`, `Best`, `WithClass`, `NormalizeInform`; `NormalizeRead` for a read |
| `update_inventory` (inform_repository.py:41) | `Counts`, `Stored`, `UpdateInventory`: the last observation and the last valid value, each with source, profile, time and operation |
| `accept`, `_reply`, `complete` | `Inform`, `Read`, `Complete`; `heard` remembers the committed messages |
| `get_inventory`, `list_sessions`, `list_events`, `list_cpes` (cpe_inventory.py) | `Open` or `CountCpes`, `ReadHead`, `ReadBody`, `Respond`: a step per statement, all of which see the snapshot of the first |

`Disclosure` adds to `ReadQueue` the bundle of each operation and one export.

| Code | Model |
|---|---|
| `create` with `capture_evidence` | the keys of `EvidenceKeys`; `Created` remembers when |
| `build_query_evidence` (query_evidence.py:139) | `Build` of a plan and the parameters of a reply: what is legible is retained, a text of addresses is replaced by aliases, numbered per IP version as they first appear in name order |
| `policy.evidence`, the end of `_reply` (queries.py:708) | `Projected`, `Capturable`, `AcceptReply`: the bundle is committed with the answer |
| `verify_query_evidence` (228) | `Replanned`, `Verified`: the same function of the bundle's own response, after XML |
| `snapshot` (result_export.py:28) | `OpenExport`, `ReadCatalog`, `ReadValues`, `ReadHistory`, `ReadOperations` |
| `export_document`, `export_xml` | `Omitted`, `Responded` |

A WAN or optical text keeps its surrounding blanks.  XML makes a line feed of a
carriage return, so a bundle with a text that ends with one (`padded`) is stored
and served, and its verifier refuses it; `EvidenceVerifies` says that nothing
else has this effect.

`Verification` has one step of a call per `await` of `authenticate`:

| Code (`authentication.py`) | Model |
|---|---|
| entering the semaphore | `Arrive`; `Resume` after a wait; `TimeOut` after one second |
| reading the account | `Read`, `StoreFails` |
| `asyncio.to_thread` of the derivation | `StartThread`, `EndThread`, then `Verdict` |
| `CancelledError` at each of them, the shielded wait | `CancelWaiting`, `CancelVerifying`, `Drained`, `CancelDraining` |
| account commands | `CreateAccount`, `RotateAccount`, `DisableAccount`, `DeleteAccount` |

The semaphore (as of Python 3.13) and the executor are external code, modelled
from how `authentication.py` uses them: waiters are served in the order of their
`ticket`, and a newcomer waits behind a waiter that has been woken.  `justified`
is a history variable: the credentials of the call were valid at some moment
since it arrived.

`InformCapture` has one action per suspension of `capture` and per system call of
the thread that runs `_publish`.  Waiters of the lock enter in any order.
Cancelling a request leaves its thread running.  A loss of power forgets what was
not synchronised.  The code never synchronises the directory, so the last change of
each name since the power last failed (`unsure`: the creation and the unlink of a
temporary file, the link of the output) may be undone: a published file disappears,
an unlinked temporary file is back after its thread has returned.  `lost` remembers
the names to which that has happened.

`EvidencePackage` has one action per system call of `publish_package`, of its
cleanup and of `load_package`.  A directory is called by the publisher that made
it.  `unsure` holds the names of a directory, and `disk` the directories of the
path, that a loss of power may bring back or take away.  The parent directory
exists and is durable: line 63 may create it, and what contains it is not synchronised.
A loss of power ends the commands that have begun; the others come later and find
what it left.  `Discard` is an operator who removes a leftover;
whatever `verify` prints other than `verified` is one outcome.

### Later modules, in order

1. `Paths`: normalisation of parameter paths and batches of a selection.
2. `private_observations`, and the substitutions of the export inside texts.
3. An abstract gate that `ProfileValidation` implements, a bounded pool for
   `Verification`, and an atomic cell ("absent, whole") for `EvidencePackage`.

Theorems to come: those of the properties that the extensions above bring.

## 3. Properties and runs

Bounds of the runs over `ReadQueue`: the sets of identifiers of the `.cfg`, and
time, which advances while some deadline is still ahead of the oldest timestamp
(`Tick`), so it is bounded by the number of operations and sessions.  An
operation waits 1 or 2 ticks, an RPC 1 or 2, a session 1: enough for an operation
to end before or after its session, and for a deadline to be met exactly, missed
by one, or passed by a transaction with an older timestamp.  All runs set
`CHECK_DEADLOCK FALSE`: identifiers, requests or commands run out, and the
bounded system stops.

| Run | Instance | Question |
|---|---|---|
| `queue` | 2 keys, 3 operations, 2 sessions, a firmware that changes, seven answers, timestamps up to 1 tick old | do operations end once and in time, and do the collected data and the inventory stay consistent, under every interleaving of reads, answers and Informs? |
| `discovery` | one job, 4 operations, 3 sessions, a tree of three levels with a template and a leaf, four specifications whose limits (depth, RPCs, entries) bind, timestamps up to 1 tick old | does a job keep its account and its limits, ask once for each branch, and claim success only if complete? does the inductive invariant of the proofs hold? |
| `values` | a values job over two leaves of the catalog, three specifications (batches of one, a budget smaller than a batch, too few RPCs), or a discovery job, separate reads that compete with it, a firmware that may change; under fairness | did a succeeded job read every leaf? does the queue implement `SerialQueue`? does every job and every operation end? |
| `telemetry` | jobs that discover a WAN interface (two leaves, one of which may come and go) and an optical one, 4 operations, 3 sessions, and reads of what they found or of names that were not | is what is read what the last discovery listed, is a valid value of an interface named as the Internet by the same answer, and does nothing go back? |
| `inventory` | 2 CPEs, one of a reviewed class, one with values older than provenance, 2 sessions, 1 read, 4 Informs that agree, conflict, are refused or partial, 1 reader, pages of one row, timestamps up to 1 tick old | is every value, and every one shown, what one message gave, does the newest observation win, and are pages of one moment? |
| `disclosure` | 3 operations, two with evidence, 2 sessions, a WAN interface whose address and DNS servers may be one, sent in any order, 1 export with one operation of history, at most 3 entries and 2 references | does every stored bundle verify and say what the result says? is an export of one moment and complete? |
| `validation` | 2 administrators, 2 keys, 3 operations, 3 sessions, 2 firmwares | is every approval granted on a read of the present firmware, and does it end with it? |
| `signal`, `lasting` | the same with one administrator | counterexamples: two statements of `src/backend/docs/PROFILE_VALIDATION.md` that the code does not keep |
| `verification` | 3 calls, 2 slots, 1 thread, one user and one password, each call cancelled at most once | are slots conserved, derivations bounded, verdicts justified, and does every call end? |
| `capture` | 2 receivers, 2 Informs of the selected CPE and one of another, 2 stops or losses of power | is the output only ever a whole file, is there one attempt, does the log tell the truth? |
| `packages` | 2 create commands, 1 verify command, 2 losses of power | is a manifest only ever committed with all its files, do packages last, do failures leave nothing, and is what is verified whole? |

*Operations.*  Those of the table are identifiers.  An exchange is given an identifier for the read that a job may queue in
it, so the last identifier of a run can be queued, expired and refused, but nothing is
sent or answered once it is taken: `queue` and `validation` have two reads that run,
one for each key, and an identifier in reserve; `disclosure`, with a key for the third, has
two that run and one that is only queued; `telemetry`, `discovery` and `values` have
three and one.  The proofs have no such bound.

*Why these bounds are enough.*  Two reads and two sessions are what the
hazards of the queue need: one that ends, and one that is queued, and then out, while
the answer of the first is repeated and the key of the first is used again.  Three that run let a job reach the
third level of the tree and end by each of its limits.  Two messages of one CPE
and a legacy value are the orders in which an inventory can be written, a second
CPE what a list can mix up.  Two answered reads are one more than an export lists,
and let one object be read again before, within and after it; optical leaves are not in
that instance and are covered by the proof.  Telemetry needs a discovery, a
second one that changes the leaves, and a read in between or after it: a read that
is admitted on the second discovery is queued at least, and refused if it must be.  The
two calls of `validation` are the pair that can meet between the transactions of
each other; its third session brings the Inform that changes the firmware back.
Three calls over two slots make one wait, and the thread for which two slots
compete makes a slot outlive its call; several waiters woken at once need a
fourth call and are covered by the proof only.  Two publishers and two losses of
power are the race, the retry after an interruption or a loss of power, and a failure of
the recovery.

*Transactions without lag.*  `values`, `telemetry`, `validation` and `disclosure`
take timestamps at the clock; lag multiplies their states.  The properties for
which lag is the hazard (deadlines, what may go back in time, the slot, the
accounts of jobs, provenance) are checked with it by `queue`, `discovery` and
`inventory`, and the proofs hold for every lag.

**Fairness.**  `FairSpec` of `ReadQueueProps` assumes that the clock advances
(`WF(Tick)`) and that a client who polls a job or an operation is served again
and again with a current timestamp (`WF(GetCollection)`, `WF(GetQuery)`).  The
code has no background task, so without polling nothing would end, and nothing is
assumed of the CPE.  The polling is that of the API's clients
(`api/routes/queries.py`: the `GET` of a query and of a collection).  `FairSpec`
of `Verification` assumes that the event loop runs what is ready, that the
executor starts and ends what it was given, and that the database answers or
fails.  It assumes no arrivals and nothing of the timer: the calls that wait are
served even if it never fires.

**Cancellation.**  The slot of a cancelled call is kept by a shielded wait for its
thread.  That wait is not itself shielded: a *second* cancellation of the call
would return the slot while the thread runs (`CancelDraining`), and
`BoundedVerifications` needs `MaxCancels <= 1`.  The server cancels a request once.

`OneActiveOperation`, `SessionsCarryOperations`, `OneRpcPerSession` and
`JobOwnsSlot` follow from `SlotInvariant`: `discovery` checks it, and the proofs
derive them.  `DataProvenance` is
`CatalogProvenance` and `ValueProvenance` together.

Each property of a run has a mutant in `PROJECT.json`: an operator named
`Mutant_...`, defined before the definition it replaces, that changes it as a
plausible bug would, and that TLC must find violating the property.

### Two disagreements with the documentation

* `signal`: `PROFILE_VALIDATION.md` says that only a *new* operation clears the
  revalidation signal, even if the firmware returns.  `start` with the key of an
  earlier validation gets that earlier operation from the queue, records it
  anew and resets the signal without asking the CPE anything.
* `lasting`: the collection an approval permits overwrites `operation_id` of the
  values the approval rests on; from its answer on the status is `invalid`, and
  the next collection is refused until somebody validates again.

Two more facts a reader of the code should know, which contradict no statement of
the documentation: the manufacturer of a CPE is overwritten by the Inform that
commits last, which need not be the newest, so that eligibility may be judged by
an older one; and the bundle with a carriage return above.

## 4. Proofs

Every safety property and every action property that a run checks is a theorem,
for every value of the constants.  `PROJECT.json` names the theorem of each.  TLC
found the invariants below to hold on the runs before they were proved, and the
runs found most of the strengthenings.

### The queue

`ReadQueueProofs` begins with `TypeCorrect`, `Spec => []TypeOK`.  It has one lemma per
operator from tables to tables (`Expire`, `Enqueue`, `Absorb`, `Continue`,
`UpdateInventory`, `Collect`, ...), and the step theorem composes them as the
actions do.

*The slot.*  `SlotCorrect` proves `Spec => []SlotInvariant`, and from it follow
`OneActiveCorrect`, `CarriedCorrect`, `OneRpcCorrect` and `JobOwnsCorrect`.
None of these four properties is inductive.  `OneActiveOperation` alone says
nothing of the job that queues its next read in the transaction that ends the
last one: for that, a running job's current operation must be the only active
one (`Owned`).  `SessionsCarryOperations` alone would let a second operation name
the session of the first, and expiring one would close the session of the other:
for that, sessions are never shared (`Unshared`), are named only once an RPC is
out (`Unsent`), and are then waiting or over (`Opened`).  `SlotInvariant` is the
conjunction `Slot(db) /\ Owned(db)`; both are operators of arbitrary tables,
because a transaction is a composition and the proof follows the invariant
through its intermediate tables, where `Owned` is for a moment replaced by the
weaker "the running job's operation is over".

*Progress.*  What a transaction may never do is a relation between the
tables before and after each call it is composed of.  `Progress` says that what
has ended stays as it is, that a session once named is kept with its deadline, and
that deadlines are not put off; `Calm` adds that nothing is sent, accepted or
stored.  Most calls are calm; a dispatch and an accepted answer are not.
`ProgressCorrect` (`OperationsOnlyProgress`) follows at once.  `AnsweredCorrect` and
`StoredCorrect` need the invariant `Timely`: nothing stored is newer than the clock,
nor than an RPC that is out, because a dispatch records the clock and an answer
with an older `now` is refused.  `ProvenanceCorrect` (`DataProvenance`) adds
`Sourced`: what is stored names an operation that ended when it says and reported
it, and no read or planned step of a job asks for values outside the reviewed
leaves, which for a job means that its batches are parts of its selection.

### What the answers amount to

`ResultProofs` goes on from there.

*Never back.*  `InventoryForwardOnly` and `TelemetryForwardOnly`.  Most operators
leave these columns alone (`Keeps`); the upserts move each field forward (`Moves`),
which for a telemetry field needs that its last valid value is not newer than the
field itself (`Aged`).

*Written by the first answer.*  A transaction that writes data is an Inform or has
the shape "expire and advance, accept one answer, advance" (`AppliedShape`): the
middle part is `Accepts`, the others are `Calm` and keep the data.
`WritingCorrect` is read off that shape, and so is every later invariant that only
an accepted answer can disturb.

*Telemetry.*  `MeasuredCorrect` and `NothingForgotten` are one invariant, `Metered`:
each field, and its last valid value, is what the operation it names reported
(`FieldsTraced`), and no accepted answer about it is newer than it is (`KeepsUp`).
Both need `Timely`: an answer whose `now` is not newer than the field is dropped,
so the field must already show something at least as new.  `AskingCorrect` needs that
a discovery that succeeded lists children of its object only (`Lists`): the names a
read was admitted on are then those its own interface was found to have.

*One place.*  `QueueIsSerial` is the refinement of `SerialQueue`, step by step: the
initial states map to initial states (`HeldIsActive`: the operation the slot holds is
the active one), and a transaction is at most one abstract step after another,
each of which is `OneTurn`: what is queued, sent, ended or dropped concerns the one
operation the slot holds.  The transaction that ends one read of a job and queues
the next is the case that needs `Owned`.

*Jobs.*  `JobsAddUp`, `WalksOnce` and `SuccessIsComplete` come from one invariant,
`JobsKept`.  `Sound` relates a job to its whole history: every read it issued is
counted once and over when accounted for (`Ledger`), with one failure for each that
did not succeed (`Blamed`), within the limits (`Bounded`); a values job asks for parts
of its selection and, unless a limit or failure says so, for all of it (`Batched`); a
discovery walks a tree, each branch of which was listed by a read already accounted
for (`Walked`), and leaves none out silently (`Covered`).  `NoBranchTwice` is the part
that needs path order: a branch listed again would have its parent asked for
twice, and the root comes before everything below it, so a walk cannot come back to
it.  `SortedAssumption` says what `sorted()` on paths gives: each path once, parents
first.

### The modules around the queue

`ValidationProofs` proves `ApprovalCorrect` and that the invariant of the slot
survives the composition (`ValidationSlotCorrect`).  An approval matches the
registered firmware because a grant compares both under the lock (`Approving`),
an Inform that changes the firmware revokes it in the same transaction
(`Matching`), and nothing else moves either (`Unmoved`).  `GrantCorrect` needs what a
call *carries* between its transactions to remain true in the next one:
`GrantInvariant` says that of each step (`Carry`), which holds because the rows it
relies on are terminal or only progress, and that the recorded operation is a read of
the draft's leaves under the recorded key (`Evident`).  `ApprovalStays` is the action
property on the same invariant.

`DisclosureProofs` begins with `DisclosureIsQueue`, `DisclosureSpec => Spec`: every
step of the composition is one of the queue or leaves it alone, so the theorems
above hold of it.

* `ExportsCorrect`.  An export that has begun holds a snapshot for which the
  invariants of the queue hold, and what it has read is that snapshot's, restricted to
  the prefix (`ExportInvariant`).  Coherence is then `DataProvenance` of the snapshot
  plus one new invariant of the queue, `ValuesKeepUp`: no read of DeviceInfo that
  succeeded is newer than the value stored of a leaf it reported.
* `EvidenceKept` is the invariant of the evidence: a row owes a bundle exactly if an
  answer ended it that was correlated and named what was asked, and has then the bundle
  of such an answer, for the CPE, carriage returns and order it had (`Captured`).
* `EvidenceVerifiesCorrect`.  The verifier builds a bundle of the response of a bundle.
  It must retain and replace the same leaves, and number the *aliases* as they were.
  The last is the lemma `Renumbered`: an alias counts the distinct addresses of its
  version up to where it first appears (`AliasAt`), so it determines the address
  (`AliasInjective`) and replacing every address by its alias changes no count
  (`AliasAgain`), and replacing commutes with putting the lists of the leaves together
  (`FlattenMapped`).  That is induction over the number of leaves, done as the absence of
  a least counterexample (`Smallest`).
* `EvidenceFaithfulCorrect`.  A response and a result are two functions of one answer;
  `NamesAgree`, `ValuesAgree` and `TelemetryAgrees` compare them case by case.  The run has
  WAN and DeviceInfo leaves only; the theorem holds for optical ones too, and doing it
  showed that the two differ there: a bundle leaves out what is empty, and keeps
  the number of what is out of range, of which the result has nothing
  (`Unread`).  `EvidenceFaithful` says so.

`InventoryProofs` proves `ValuesCorrect` and `ViewsCorrect`.  The invariant `Inv` has
three parts: rows and snapshots have their shape (`Shaped`), every value and
provenance of the tables is stated by a committed message (`Stated`), and so is
what a reader has seen or will see of its snapshot (`Followed`): a view that mixed
two moments could pair the value of one message with the provenance of another.
`LatestCorrect` (`KeptInvariant`) relates each row to the set of messages told about its
field (`RowKept`): the newest of them is the last observation, and a valid one newer than
the value was overtaken by an invalid one, which is what makes "the last valid value"
independent of the order of the commits.  `PagesCorrect` (`PagesInvariant`) needs that
the ranks of a list are the numbers below its length: the order is total because the
identifier breaks ties, and a page is an interval of ranks.

`VerificationProofs` proves `SlotsCorrect`, `AcceptedCorrect` and
`VerificationsBounded`.  The first two follow from the inductive `Sound`: types,
the conservation of slots, and `Honest`: a call that verifies read the account at
some moment of its life, so that a verdict rests on credentials that were valid
then.  The third adds `Shielded`: a thread that is queued or running belongs to a
call that holds a slot, which is true while calls are cancelled at most once.

`CaptureProofs` proves `CaptureCorrect`: whole files, one attempt and true
outcomes together, of which `PublishedCorrect` and `OutcomesCorrect` name two.
`OneAttempt` is not inductive without what a thread has done by each of its steps
(`Untried`, `Linked`), nor without what a logged outcome says of a thread that may have
been left by its request (`Logged`).  That a temporary file is gone with its thread
cannot be promised: the unlink is not synchronised, so `PublishedComplete` excepts the
names a loss of power has brought back, besides those of threads that were stopped or
could not unlink.  Whole files do not depend on it: what a name may come back to has
been created, and what is linked has been synchronised.

`PackageProofs` proves `CommitMarkerCorrect`, `CreatedCorrect`, `FailuresCorrect` and
`VerifiedCorrect` from one invariant, `PackageInvariant`: what each step of a publisher
leaves in its directory (`FirstFile`, `SecondFile`), that a manifest's name exists, or may
come up after a loss of power, only when both files are durable (`Named`), what is left
of a failure by each step of the clean-up (`Cleaned`), and that a reader with a
manifest in its hands has a whole package (`ReadWhole`), although it may be removed
meanwhile.

### What the proofs assume

They hold for every set of operations, sessions, keys, jobs, paths, values,
calls, slots, threads, receivers, publishers and requests, every set of Informs and
answers of the right shape, all deadlines, limits and every lag, under named
assumptions:

* identifiers are distinct from the null values (`IdAssumption`), paths are finitely
  many and the relations on them are functions (`PathAssumption`), a set of paths in
  order holds each of its paths once, parents first (`SortedAssumption`);
* the field of a path and the interface of a field are functions
  (`TelemetryAssumption`), markers are not texts (`ValueAssumption`), inputs have their
  shape (`InputAssumption`), durations are positive (`TimeAssumption`);
* the leaves of the draft are readable (`DraftAssumption`);
* the text that stands for addresses is no text of a CPE, what a discovery lists has no
  value, a fault names nothing, and the addresses of a text are a sequence
  (`DisclosureAssumption`);
* calls are finitely many and there is a slot and a thread (`SlotAssumption`), names of
  processes and requests are not those of nobody (`CaptureAssumption`,
  `PackageAssumption`), the identities, texts and profiles of an inventory have their
  shape, and its CPEs and sessions are finitely many (`InventoryIds`,
  `InventoryTexts`, `InventoryInputs`, `InventoryTimes`).

TLC evaluates each of them on the instances.

**Only model-checked:** liveness under fairness (`JobsEnd`, `QueriesEnd`,
`EveryCallEnds`), which is beyond the prover.

## 5. Not modelled

The components with status `not_modelled` in `PROJECT.json`, each with its
reason.  Of those partly modelled:

* HTTP limits and status codes, XML and the text limits of SOAP;
* the canonical forms of addresses and numbers, which are texts of a small set;
* `private_observations`, a copy of an answer that nothing else reads;
* what a package keeps of an Inform, the substitutions of the export inside texts
  and paths (`Redactor`) and its limit of 8 MiB: pure functions of strings;
* the permissions of a role, the HTTP header and the parameters of the key
  derivation.
