----------------------------- MODULE ReadQueue -----------------------------
(***************************************************************************)
(* The transactional read queue of one CPE: the CWMP sessions opened by    *)
(* its Informs, the read operations an administrator queues, the single    *)
(* RPC each session carries, the replay handling of its answer, and the    *)
(* bounded collection jobs that feed the same queue.                       *)
(*                                                                         *)
(* Every handler of PostgresQueryRepository opens one transaction and      *)
(* first locks the row of the CPE, so the transactions of one CPE are      *)
(* serialised and CPEs share no row: the module models one CPE, one        *)
(* transaction a step.  A handler is an operator from the committed tables *)
(* to the tables it commits, composed as the code composes its calls; an   *)
(* exception rolls everything back and is no step.                         *)
(*                                                                         *)
(* The server captures `now` BEFORE it waits for the lock, so transactions *)
(* commit with timestamps up to MaxLag older than the clock, in any order. *)
(***************************************************************************)
EXTENDS Naturals, FiniteSets, Sequences

CONSTANTS
  OpId,            \* identifiers of query_operations rows
  SessionId,       \* identifiers of cwmp_sessions rows
  Key,             \* idempotency keys of read operations
  JobId,           \* idempotency keys of collection jobs; one job a key
  Path,            \* TR-069 parameter and object paths
  Object,          \* the paths that end with a dot
  Concrete,        \* the paths CONCRETE_OBJECT accepts, their final dot aside
  Readable,        \* NAMES of the policy: the DeviceInfo leaves it may read
  Firmware,        \* the leaf whose change withdraws an approval
  Retained,        \* what discovery_names keeps of a discovery reply
  Parent,          \* the object a path is a direct child of
  DeviceInfo,      \* ROOT of the policy, the path of a device_info plan
  Sorted,          \* every set of paths as a sequence in path order
  Value,           \* reported texts
  Reviewed,        \* the targets HuaweiQueryPolicy.plan accepts
  Field,           \* the telemetry fields of the WAN and optical interfaces of the CPE
  Interface,       \* the object of the interface a field belongs to
  FieldOf,         \* the field a leaf is reported in; several leaves may share one
  Internet,        \* for each leaf that classifies a WAN interface, what says INTERNET or PPPoE
  Asks,            \* the reads administrators request
  Specs,           \* the collections administrators request
  Informs,         \* the Informs this CPE sends
  Answers,         \* the replies this CPE sends
  PendingSeconds,  \* how long an operation may wait: 10 minutes
  RpcSeconds,      \* how long a dispatched RPC may wait: 60 seconds
  SessionSeconds,  \* how long a session may wait: 60 seconds
  FreshSeconds,    \* how long a discovery counts for telemetry: 24 hours
  MaxNames,        \* how many leaves one read may ask for: 16
  MaxLag           \* bound: how old the `now` of a commit may be

NoOp == 0
NoKey == "no_key"            \* keys of job operations are fresh uuid4: never reused
NoSession == "no_session"
NoPath == "no_path"
NoValue == "no_value"        \* no value, or an empty text
NoField == "no_field"
Listed == "listed"           \* an entry of a names reply carries no value
Untyped == "untyped"         \* a value that is not of the reviewed type of its leaf
Unsafe == "unsafe"           \* one that the normalisers, safe_text and observe refuse
Revalidate == "revalidation_required"

Manufacturer == "manufacturer"
Attribute == {Manufacturer} \cup Readable
Target == [Attribute -> Value \cup {NoValue}]

\* What a reply or a result says of each path it names.
Said(S) == [S -> Value \cup {Listed, Untyped, Unsafe, NoValue}]
Content == UNION {Said(S) : S \in SUBSET Path}
Nothing == [p \in {} |-> NoValue]
Ask == [kind : {"names", "values"}, path : Path \cup {NoPath}, names : SUBSET Path]
Spec0 == [kind : {"discovery", "values"}, root : Path \cup {NoPath}, names : SUBSET Path,
          max_depth : Nat, max_rpcs : Nat, max_entries : Nat, batch_size : Nat \ {0}]
Inform0 == [manufacturer : Value, report : Content]
Answer == [kind : {"names", "values", "fault"}, content : Content]

ASSUME IdAssumption == OpId \subseteq Nat \ {NoOp} /\ NoSession \notin SessionId /\ NoKey \notin Key
ASSUME PathAssumption ==
  /\ IsFiniteSet(Path) /\ NoPath \notin Path /\ Manufacturer \notin Path
  /\ Object \subseteq Path /\ Concrete \subseteq Path
  /\ Readable \subseteq Path \ Object /\ Retained \subseteq Path
  /\ Firmware \in Readable
  /\ DeviceInfo \in Object
  /\ Parent \in [Path -> Path \cup {NoPath}]
  /\ Sorted \in [SUBSET Path -> Seq(Path)]
\* A set of paths is listed once each; the path of an object begins the paths of what it
\* holds, and so comes before them in path order.
ASSUME SortedAssumption ==
  /\ \A S \in SUBSET Path :
       /\ {Sorted[S][i] : i \in DOMAIN Sorted[S]} = S
       /\ \A i, k \in DOMAIN Sorted[S] : i # k => Sorted[S][i] # Sorted[S][k]
  /\ \A i, k \in DOMAIN Sorted[Path] : Parent[Sorted[Path][k]] = Sorted[Path][i] => i < k
ASSUME TelemetryAssumption ==
  /\ NoField \notin Field
  /\ Interface \in [Field -> Object]
  /\ FieldOf \in [Path -> Field \cup {NoField}]
  /\ \A p \in Readable : FieldOf[p] = NoField
  /\ DOMAIN Internet \subseteq {p \in Path : FieldOf[p] # NoField}
  /\ \A p \in DOMAIN Internet : Internet[p] \subseteq Value
ASSUME ValueAssumption ==
  Value \cap {NoValue, Listed, Untyped, Unsafe, Revalidate} = {} /\ Reviewed \subseteq Target
ASSUME InputAssumption ==
  /\ Asks \subseteq Ask /\ Specs \subseteq Spec0
  /\ \A i \in Informs : /\ i \in [manufacturer : Value, report : {i.report}]
                        /\ i.report \in Said(Path \cap DOMAIN i.report)
  /\ \A r \in Answers : /\ r \in [kind : {"names", "values", "fault"}, content : {r.content}]
                        /\ r.content \in Said(Path \cap DOMAIN r.content)
ASSUME TimeAssumption ==
  /\ PendingSeconds \in Nat \ {0} /\ RpcSeconds \in Nat \ {0}
  /\ SessionSeconds \in Nat \ {0} /\ FreshSeconds \in Nat \ {0} /\ MaxLag \in Nat

VARIABLES
  db,     \* the committed rows of the CPE
  clock   \* the clock of the server
vars == <<db, clock>>

Times == {t \in 1..clock : clock - t <= MaxLag}

----------------------------------------------------------------------------
(* Rows.  A row that was never inserted is "absent".                       *)

Waiting == {"pending", "dispatched"}
Answered == {"succeeded", "failed"}
Terminal == Answered \cup {"expired"}

NoAsk == [kind |-> "names", path |-> NoPath, names |-> {}]
NoOperation ==
  [state |-> "absent", key |-> NoKey, ask |-> NoAsk, expires |-> 0, finished |-> 0,
   reason |-> "none", result |-> Nothing, session |-> NoSession, sent |-> 0]
NoSpec == [kind |-> "values", root |-> NoPath, names |-> {},
           max_depth |-> 0, max_rpcs |-> 0, max_entries |-> 0, batch_size |-> 1]
NoJob ==
  [state |-> "absent", spec |-> NoSpec, frontier |-> <<>>, current |-> NoOp, depth |-> 0,
   rpcs |-> 0, completed |-> 0, entries |-> 0, failures |-> <<>>, limits |-> {}, issued |-> <<>>]

NoTelemetry ==
  [state |-> "absent", op |-> NoOp, at |-> 0, value |-> {}, value_op |-> NoOp, value_at |-> 0]

\* The approval of the draft profile, written by ProfileValidation.
NoApproval == [op |-> NoOp, key |-> NoKey, expected |-> Revalidate, approved |-> FALSE]

Init ==
  /\ clock = 1
  /\ db = [cpe |-> [a \in Attribute |-> NoValue],
           observed |-> [f \in Readable |-> 0],
           ops |-> [o \in OpId |-> NoOperation],
           sessions |-> [s \in SessionId |-> [state |-> "absent", expires |-> 0]],
           jobs |-> [j \in JobId |-> NoJob],
           catalog |-> [p \in Path |-> [op |-> NoOp, at |-> 0]],
           values |-> [p \in Path |-> [op |-> NoOp, at |-> 0, value |-> NoValue]],
           telemetry |-> [f \in Field |-> NoTelemetry],
           approval |-> NoApproval]

\* The identifier of the next row: a fresh uuid4 in the code, the least unused one here.
NextId == {o \in OpId : /\ db.ops[o].state = "absent"
                        /\ \A lower \in OpId : lower < o => db.ops[lower].state # "absent"}

Active(d) == {o \in OpId : d.ops[o].state \in Waiting}
Running(d) == {j \in JobId : d.jobs[j].state = "running"}

\* policy.plan accepts the CPE as it is registered.  The product class of a CPE never
\* changes, so one profile and one firmware can match it: _plan's comparison with the
\* profile, version and firmware of the row fails exactly when this does.
Eligible(d) == d.cpe \in Reviewed

PlanPath(ask) == IF ask.path = NoPath THEN DeviceInfo ELSE ask.path
PlanNames(ask) == IF ask.names = {} THEN Readable ELSE ask.names

\* A read of the wan or optical scope.
Telemetric(ask) == ask.kind = "values" /\ ask.path # NoPath

\* The other reads policy.plan can plan: a concrete object, or reviewed leaves only.
Plannable(ask) ==
  /\ ask.path # NoPath => ask.kind = "names" /\ ask.path \in Concrete \cap Object /\ ask.names = {}
  /\ ask.names # {} => ask.kind = "values" /\ ask.names \subseteq Readable

----------------------------------------------------------------------------
(* The steps the transactions are composed of.                             *)

\* The operations whose deadline is reached.
Mutant_DueLate(d, now) == {o \in Active(d) : d.ops[o].expires < now}
Mutant_DuePending(d, now) == {o \in OpId : d.ops[o].state = "pending" /\ d.ops[o].expires <= now}
Due(d, now) == {o \in Active(d) : d.ops[o].expires <= now}

\* _expire: overdue operations end, and with them the session that carries them.
Mutant_ExpireOperations(d, now) ==
  [d EXCEPT !.ops = [o \in OpId |->
     IF o \in Due(d, now) THEN [d.ops[o] EXCEPT !.state = "expired", !.finished = now] ELSE d.ops[o]]]
Expire(d, now) ==
  LET due == Due(d, now)
  IN [d EXCEPT
        !.ops = [o \in OpId |->
          IF o \in due
          THEN [d.ops[o] EXCEPT !.state = "expired", !.reason = "deadline_exceeded", !.finished = now]
          ELSE d.ops[o]],
        !.sessions = [s \in SessionId |->
          IF \E o \in due : d.ops[o].session = s
          THEN [d.sessions[s] EXCEPT !.state = "completed"]
          ELSE d.sessions[s]]]

Enqueue(d, id, key, ask, now) ==
  [d EXCEPT !.ops[id] = [NoOperation EXCEPT !.state = "pending", !.key = key, !.ask = ask,
                                            !.expires = now + PendingSeconds]]

Fail(d, o, reason, now) ==
  [d EXCEPT !.ops[o] = [@ EXCEPT !.state = "failed", !.reason = reason, !.finished = now]]

Finish(d, s) == [d EXCEPT !.sessions[s] = [@ EXCEPT !.state = "completed"]]

\* advance, first half: account for the operation of the job that has ended.
Entries(d, o) == {p \in Path : d.catalog[p].op = o}

Branches(paths, depth) ==
  [i \in 1..Len(paths) |-> [path |-> paths[i], depth |-> depth, names |-> {}]]

Deeper(job, entries) ==
  IF job.depth < job.spec.max_depth THEN entries \cap Object \cap Concrete ELSE {}

Mutant_NothingLeft(job, entries) == {}
Left(job, entries) ==
  {l \in {"max_depth", "unsupported_branch"} :
     IF job.depth < job.spec.max_depth
     THEN l = "unsupported_branch" /\ ~ (entries \cap Object \subseteq Concrete)
     ELSE l = "max_depth" /\ entries \cap Object # {}}

Discovered(job, entries) ==
  [job EXCEPT !.entries = @ + Cardinality(entries),
              !.frontier = @ \o Branches(Sorted[Deeper(job, entries)], job.depth + 1),
              !.limits = @ \cup Left(job, entries)]

Absorb(d, j) ==
  LET job == d.jobs[j]
      op == d.ops[job.current]
      ended == [job EXCEPT !.current = NoOp, !.completed = @ + 1]
  IN [d EXCEPT !.jobs[j] =
       IF op.state # "succeeded"
       THEN [ended EXCEPT !.failures = Append(@, [op |-> job.current, reason |-> op.reason])]
       ELSE IF job.spec.kind = "discovery"
       THEN Discovered(ended, Entries(d, job.current))
       ELSE [ended EXCEPT !.entries = @ + Cardinality(DOMAIN op.result)]]

\* The first n paths of a set, in path order.
First(S, n) == {Sorted[S][i] : i \in 1..(IF n < Len(Sorted[S]) THEN n ELSE Len(Sorted[S]))}

\* advance, second half: queue the next step, or end the job.  The loop of the code goes
\* past a step only when the policy refuses the CPE, and then it refuses every step.
Exhausted(job) ==
  IF job.frontier = <<>> THEN {}
  ELSE IF job.rpcs >= job.spec.max_rpcs THEN {"max_rpcs"}
  ELSE IF job.entries >= job.spec.max_entries THEN {"max_entries"}
  ELSE {}

Refused(job) ==
  LET excess == {i \in DOMAIN job.frontier :
                   Cardinality(job.frontier[i].names) > job.spec.max_entries - job.entries}
  IN [job EXCEPT
        !.frontier = <<>>,
        !.limits = @ \cup {l \in {"max_entries"} : excess # {}},
        !.failures = @ \o [i \in DOMAIN job.frontier |->
                             [op |-> NoOp, reason |-> "unsupported_branch_or_profile"]]]

Mutant_EndedFailed(job) == [job EXCEPT !.state = IF job.failures # <<>> THEN "failed" ELSE "succeeded"]
Ended(job) ==
  [job EXCEPT !.state = IF job.failures # <<>> \/ job.limits # {} THEN "partial" ELSE "succeeded"]

Continue(d, j, id, now) ==
  LET job == d.jobs[j]
      stop == Exhausted(job)
      step == Head(job.frontier)
      remaining == job.spec.max_entries - job.entries
      names == First(step.names, remaining)
      ask == [kind |-> IF job.spec.kind = "discovery" THEN "names" ELSE "values",
              path |-> step.path, names |-> names]
      next == [job EXCEPT !.frontier = Tail(@), !.current = id, !.depth = step.depth,
                          !.rpcs = @ + 1, !.issued = Append(@, id),
                          !.limits = @ \cup {l \in {"max_entries"} : names # step.names}]
  IN IF job.frontier = <<>> \/ stop # {}
     THEN [d EXCEPT !.jobs[j] = Ended([job EXCEPT !.limits = @ \cup stop])]
     ELSE IF ~ Eligible(d)
     THEN [d EXCEPT !.jobs[j] = Ended(Refused(job))]
     ELSE [Enqueue(d, id, NoKey, ask, now) EXCEPT !.jobs[j] = next]

Mutant_AdvanceEarly(d, j, id, now) ==
  IF d.jobs[j].state # "running" THEN d
  ELSE Continue(IF d.jobs[j].current = NoOp THEN d ELSE Absorb(d, j), j, id, now)
Advance(d, j, id, now) ==
  IF d.jobs[j].state # "running" \/ d.jobs[j].current \in Active(d) THEN d
  ELSE Continue(IF d.jobs[j].current = NoOp THEN d ELSE Absorb(d, j), j, id, now)

AdvanceActive(d, id, now) ==
  IF Running(d) = {} THEN d ELSE Advance(d, CHOOSE j \in Running(d) : TRUE, id, now)

\* How every exchange with the CPE begins.
Settled(id, now) == AdvanceActive(Expire(db, now), id, now)

\* update_inventory: an observation counts if it is newer than the last one of its field;
\* an invalid one moves the time and keeps the value.  A firmware other than the one
\* approved withdraws the approval in the same transaction.
Mutant_NewerAny(d, report, now) == Readable \cap DOMAIN report
Newer(d, report, now) == {f \in Readable \cap DOMAIN report : now > d.observed[f]}

Withdrawn(approval) == [approval EXCEPT !.expected = Revalidate, !.approved = FALSE]

UpdateInventory(d, report, now) ==
  LET newer == Newer(d, report, now)
      changed == /\ d.approval.op # NoOp /\ Firmware \in newer
                 /\ report[Firmware] \in Value \ {d.approval.expected}
  IN [d EXCEPT
        !.observed = [f \in Readable |-> IF f \in newer THEN now ELSE d.observed[f]],
        !.cpe = [a \in Attribute |->
                   IF a \in newer /\ report[a] \in Value THEN report[a] ELSE d.cpe[a]],
        !.approval = IF changed THEN Withdrawn(d.approval) ELSE d.approval]

----------------------------------------------------------------------------
(* The receiver: accept and exchange.                                      *)

\* accept, for an Inform without a cookie.  With one it only checks the session.
Inform(s, inform, now) ==
  /\ db.sessions[s].state = "absent"
  /\ db' = [UpdateInventory([db EXCEPT !.cpe[Manufacturer] = inform.manufacturer],
                            inform.report, now)
            EXCEPT !.sessions[s] = [state |-> "awaiting_empty", expires |-> now + SessionSeconds]]
  /\ UNCHANGED clock

\* exchange without a reply: the empty POST that asks for an RPC.  The five outcomes.
PollCompleted(s, id, now) ==
  LET d == Settled(id, now)
  IN d.sessions[s].state = "completed" /\ db' = d

Mutant_ResendLater(s, id, now) ==
  LET d == Settled(id, now)
      deadline == now + RpcSeconds
  IN /\ d.sessions[s].state = "awaiting_response" /\ d.sessions[s].expires > now
     /\ Eligible(d)
     /\ \E o \in OpId : /\ d.ops[o].session = s
                        /\ db' = [d EXCEPT !.ops[o].expires = deadline, !.sessions[s].expires = deadline]
PollResend(s, id, now) ==
  LET d == Settled(id, now)
  IN /\ d.sessions[s].state = "awaiting_response" /\ d.sessions[s].expires > now
     /\ Eligible(d)
     /\ \E o \in OpId : d.ops[o].session = s
     /\ db' = d

PollProfileChanged(s, id, now) ==
  LET d == Settled(id, now)
  IN /\ d.sessions[s].state \in {"awaiting_empty", "awaiting_response"}
     /\ d.sessions[s].expires > now
     /\ ~ Eligible(d)
     /\ \E o \in OpId :
          /\ IF d.sessions[s].state = "awaiting_response" THEN d.ops[o].session = s
                                                         ELSE d.ops[o].state = "pending"
          /\ db' = Finish(Fail(d, o, "profile_changed", now), s)

PollDispatch(s, id, now) ==
  LET d == Settled(id, now)
  IN /\ d.sessions[s].state = "awaiting_empty" /\ d.sessions[s].expires > now
     /\ Eligible(d)
     /\ \E o \in OpId :
          LET deadline == IF d.ops[o].expires < now + RpcSeconds THEN d.ops[o].expires
                                                                 ELSE now + RpcSeconds
          IN /\ d.ops[o].state = "pending"
             /\ db' = [d EXCEPT
                  !.ops[o] = [@ EXCEPT !.state = "dispatched", !.expires = deadline,
                                       !.session = s, !.sent = clock],
                  !.sessions[s] = [state |-> "awaiting_response", expires |-> deadline]]

PollIdle(s, id, now) ==
  LET d == Settled(id, now)
  IN /\ d.sessions[s].state = "awaiting_empty" /\ d.sessions[s].expires > now
     /\ \A o \in OpId : d.ops[o].state # "pending"
     /\ db' = Finish(d, s)

Poll(s, id, now) ==
  /\ \/ PollCompleted(s, id, now) \/ PollResend(s, id, now) \/ PollProfileChanged(s, id, now)
     \/ PollDispatch(s, id, now) \/ PollIdle(s, id, now)
  /\ UNCHANGED clock

\* What a names RPC may list, and what a value must be for the answer to be accepted.
Mutant_ListableAny(ask, p) == p \in Concrete
Listable(ask, p) == Parent[p] = PlanPath(ask) /\ p \in Concrete

\* A requested leaf may be empty, the three that feed the inventory may not.
Mutant_StorableString(ask, v) == v # Untyped
Storable(ask, v) == v \in Value \/ (v = NoValue /\ ask.names # {})

\* observe: what the text of a telemetry leaf amounts to.  The number of an optical leaf
\* counts with the reviewed type only; with another its unit is not known.
OfWan(p) == \E q \in DOMAIN Internet : Interface[FieldOf[q]] = Interface[FieldOf[p]]
LeafState(p, v) ==
  CASE v \in Value -> "valid"
    [] v = NoValue -> "unavailable"
    [] v = Untyped /\ ~ OfWan(p) -> "unverified"
    [] OTHER -> "invalid"
LeafStates(content) == {LeafState(p, content[p]) : p \in DOMAIN content}

\* collect accepts the answer of a WAN interface that says it is the PPPoE way to the Internet.
Mutant_ClassifiedAny(content) == TRUE
Classified(content) == \A p \in DOMAIN content \cap DOMAIN Internet : content[p] \in Internet[p]

TelemetryReason(content) ==
  IF ~ Classified(content) THEN "not_internet_pppoe"
  ELSE IF "invalid" \in LeafStates(content) THEN "invalid_values"
  ELSE IF "unverified" \in LeafStates(content) THEN "unverified_units"
  ELSE "none"

\* exchange with a reply.  A valid reply is a list of direct concrete children for a
\* names RPC, and exactly the planned names, each with a safe string, for a values RPC.
Reason(ask, r) ==
  CASE r.kind = "fault" -> "cpe_fault"
    [] r.kind = "names" ->
         IF \A p \in DOMAIN r.content : Listable(ask, p)
         THEN "none" ELSE "unexpected_parameters"
    [] r.kind = "values" ->
         IF DOMAIN r.content # PlanNames(ask) THEN "unexpected_parameters"
         ELSE IF Telemetric(ask) THEN TelemetryReason(r.content)
         ELSE IF \A p \in DOMAIN r.content : Storable(ask, r.content[p]) THEN "none"
         ELSE "invalid_values"

\* The default three leaves feed the inventory unless one is not a string.
FeedsInventory(ask, r) ==
  /\ r.kind = "values" /\ ask.names = {} /\ ~ Telemetric(ask)
  /\ DOMAIN r.content = Readable /\ \A p \in Readable : r.content[p] # Untyped

\* The answers update_telemetry is called with, whether or not every leaf is valid.
Mutant_MeasuresValid(ask, r) ==
  /\ r.kind = "values" /\ Telemetric(ask)
  /\ DOMAIN r.content = PlanNames(ask) /\ Reason(ask, r) = "none"
Measures(ask, r) ==
  /\ r.kind = "values" /\ Telemetric(ask)
  /\ DOMAIN r.content = PlanNames(ask) /\ Classified(r.content)

\* result_items: the text of an optical leaf is kept even if its unit is not verified.
TelemetryResult(content) ==
  [p \in DOMAIN content |->
     IF LeafState(p, content[p]) \in {"valid", "unverified"} THEN content[p] ELSE NoValue]

Result(ask, r) ==
  LET kept == IF ask.path = NoPath THEN Readable ELSE Retained
  IN IF r.kind = "names" /\ Reason(ask, r) = "none"
     THEN [p \in DOMAIN r.content \cap kept |-> Listed]
     ELSE IF FeedsInventory(ask, r)
     THEN [p \in Readable |-> IF r.content[p] \in Value THEN r.content[p] ELSE NoValue]
     ELSE IF Measures(ask, r) THEN TelemetryResult(r.content)
     ELSE IF r.kind = "values" /\ Reason(ask, r) = "none" THEN r.content
     ELSE Nothing

Correlated(d, s, o, r, now) ==
  /\ d.ops[o].session = s /\ now >= d.ops[o].sent
  /\ r.kind \in {"fault", d.ops[o].ask.kind}

\* The names a reply adds to the catalog: all, or what the budget of the job leaves.
Kept(d, o, names) ==
  LET over == {j \in Running(d) :
                 /\ d.jobs[j].current = o
                 /\ Cardinality(names) > d.jobs[j].spec.max_entries - d.jobs[j].entries}
  IN [jobs |-> over,
      names |-> {p \in names : \A j \in over :
                   p \in First(names, d.jobs[j].spec.max_entries - d.jobs[j].entries)}]

Collect(d, o, r, now) ==
  LET valid == Reason(d.ops[o].ask, r) = "none"
      kept == Kept(d, o, DOMAIN r.content)
      named == IF r.kind = "names" /\ valid
               THEN {p \in kept.names : d.catalog[p].at <= now} ELSE {}
      read == IF r.kind = "values" /\ valid /\ ~ Telemetric(d.ops[o].ask)
              THEN {p \in DOMAIN r.content : d.values[p].at <= now} ELSE {}
  IN [d EXCEPT
        !.catalog = [p \in Path |-> IF p \in named THEN [op |-> o, at |-> now] ELSE d.catalog[p]],
        !.values = [p \in Path |->
           IF p \in read THEN [op |-> o, at |-> now, value |-> r.content[p]] ELSE d.values[p]],
        !.jobs = [j \in JobId |->
           IF r.kind = "names" /\ valid /\ j \in kept.jobs
           THEN [d.jobs[j] EXCEPT !.limits = @ \cup {"max_entries"}] ELSE d.jobs[j]]]

\* update_telemetry: the observation of each field the answer names counts if it is newer
\* than the last one; only a valid one replaces the value.
FieldState(f, content) ==
  LET states == {LeafState(p, content[p]) : p \in {q \in DOMAIN content : FieldOf[q] = f}}
  IN IF "invalid" \in states THEN "invalid"
     ELSE IF "unverified" \in states THEN "unverified"
     ELSE IF "valid" \in states THEN "valid" ELSE "unavailable"

Reported(f, content) ==
  {content[p] : p \in {q \in DOMAIN content : FieldOf[q] = f /\ content[q] \in Value}}

Observed(row, f, o, content, now) ==
  LET seen == [row EXCEPT !.state = FieldState(f, content), !.op = o, !.at = now]
  IN IF seen.state = "valid"
     THEN [seen EXCEPT !.value = Reported(f, content), !.value_op = o, !.value_at = now]
     ELSE seen

Mutant_OutdatedNone(d, content, now) == {FieldOf[p] : p \in DOMAIN content}
Outdated(d, content, now) ==
  {f \in Field : d.telemetry[f].at < now /\ \E p \in DOMAIN content : FieldOf[p] = f}

UpdateTelemetry(d, o, content, now) ==
  [d EXCEPT !.telemetry = [f \in Field |->
     IF f \in Outdated(d, content, now)
     THEN Observed(d.telemetry[f], f, o, content, now)
     ELSE d.telemetry[f]]]

Conclude(d, s, o, r, now) ==
  LET ask == d.ops[o].ask
      collected == Collect(d, o, r, now)
      noted == IF FeedsInventory(ask, r) THEN UpdateInventory(collected, r.content, now)
                                         ELSE collected
      measured == IF Measures(ask, r) THEN UpdateTelemetry(noted, o, r.content, now) ELSE noted
  IN [measured EXCEPT
        !.ops[o] = [@ EXCEPT !.state = IF Reason(ask, r) = "none" THEN "succeeded" ELSE "failed",
                             !.reason = Reason(ask, r), !.finished = now,
                             !.result = Result(ask, r)],
        !.sessions[s] = [@ EXCEPT !.state = "completed"]]

ReplyApplied(s, id, r, now) ==
  LET d == Settled(id, now)
  IN /\ d.sessions[s].state = "awaiting_response" /\ Eligible(d)
     /\ \E o \in OpId : /\ d.ops[o].state = "dispatched" /\ Correlated(d, s, o, r, now)
                        /\ db' = AdvanceActive(Conclude(d, s, o, r, now), id, now)

ReplyProfileChanged(s, id, now) ==
  LET d == Settled(id, now)
  IN /\ ~ Eligible(d)
     /\ \E o \in OpId : /\ d.ops[o].state = "dispatched"
                        /\ d.ops[o].session = s /\ now >= d.ops[o].sent
                        /\ db' = Finish(Fail(d, o, "profile_changed", now), s)

\* A late answer is dropped; an answer repeated word for word is acknowledged again, and
\* one that differs from the first is an InvalidSession.
ReplyLate(s, id, now) ==
  LET d == Settled(id, now)
  IN \E o \in OpId : /\ d.ops[o].state = "expired"
                     /\ d.ops[o].session = s /\ now >= d.ops[o].sent
                     /\ db' = Finish(d, s)

Mutant_MeasureAgain(s, id, r, now) ==
  LET d == Settled(id, now)
  IN \E o \in OpId : /\ d.ops[o].state \in Answered /\ Correlated(d, s, o, r, now)
                     /\ Measures(d.ops[o].ask, r)
                     /\ db' = UpdateTelemetry(d, o, r.content, now)
ReplyRepeated(s, id, r, now) ==
  LET d == Settled(id, now)
  IN \E o \in OpId : /\ d.ops[o].state \in Answered /\ Correlated(d, s, o, r, now)
                     /\ d.ops[o].reason = Reason(d.ops[o].ask, r)
                     /\ d.ops[o].result = Result(d.ops[o].ask, r)
                     /\ db' = d

Reply(s, id, now) ==
  /\ \/ \E r \in Answers : ReplyApplied(s, id, r, now) \/ ReplyRepeated(s, id, r, now)
     \/ ReplyProfileChanged(s, id, now) \/ ReplyLate(s, id, now)
  /\ UNCHANGED clock

----------------------------------------------------------------------------
(* The administrative interface.                                           *)

Mutant_IdleJob(d) == Running(d) = {}
Idle(d) == Running(d) = {} /\ Active(d) = {}

CreateQuery(key, ask, id, now) ==
  LET d == Expire(db, now)
  IN /\ \A o \in OpId : db.ops[o].key # key
     /\ Idle(d) /\ Eligible(d) /\ Plannable(ask)
     /\ db' = Enqueue(d, id, key, ask, now)
     /\ UNCHANGED clock

\* A telemetry read asks for the leaves of one interface that discovery found: of each
\* object, what the newest discovery that succeeded in the last day listed.  Two that
\* finished together are told apart by their random identifiers.
Recent(d, now) ==
  {o \in OpId : /\ d.ops[o].state = "succeeded"
                /\ d.ops[o].ask.kind = "names" /\ d.ops[o].ask.path # NoPath
                /\ d.ops[o].finished + FreshSeconds >= now}
Newest(d, now) ==
  {o \in Recent(d, now) : \A q \in Recent(d, now) :
     d.ops[q].ask.path = d.ops[o].ask.path => d.ops[q].finished <= d.ops[o].finished}
Mutant_EvidenceAny(d, now) == {Recent(d, now)}
Evidence(d, now) ==
  {E \in SUBSET Newest(d, now) : \A o \in Newest(d, now) :
     Cardinality({q \in E : d.ops[q].ask.path = d.ops[o].ask.path}) = 1}

Available(d, evidence) == UNION {DOMAIN d.ops[o].result : o \in evidence}

\* select_names: the leaves of an interface, those that classify it included.
Selected(path, names) ==
  {p \in names : FieldOf[p] # NoField /\ Interface[FieldOf[p]] = path}
Selectable(path, selected) ==
  /\ selected # {} /\ Cardinality(selected) <= MaxNames
  /\ Selected(path, DOMAIN Internet) \subseteq selected

CreateTelemetry(key, ask, id, now) ==
  LET d == Expire(db, now)
  IN /\ \A o \in OpId : db.ops[o].key # key
     /\ Idle(d) /\ Eligible(d) /\ Telemetric(ask)
     /\ \E evidence \in Evidence(d, now) :
          LET names == IF ask.names = {} THEN Available(d, evidence) ELSE ask.names
              selected == Selected(ask.path, names)
          IN /\ names \subseteq Available(d, evidence)
             /\ ask.names \subseteq selected /\ Selectable(ask.path, selected)
             /\ db' = Enqueue(d, id, key, [ask EXCEPT !.names = selected], now)
     /\ UNCHANGED clock

\* A repeated key with the same request answers with the row of the first; a telemetry
\* read that leaves its names to the server repeats any of its interface.
SameRequest(old, ask) ==
  /\ old.kind = ask.kind /\ old.path = ask.path
  /\ old.names = ask.names \/ (Telemetric(ask) /\ ask.names = {})

RepeatCreate(key, ask, now) ==
  /\ \E o \in OpId : db.ops[o].key = key /\ SameRequest(db.ops[o].ask, ask)
  /\ db' = Expire(db, now)
  /\ UNCHANGED clock

GetQuery(o, now) ==
  /\ db.ops[o].state # "absent"
  /\ db' = Expire(db, now)
  /\ UNCHANGED clock

\* The frontier a job starts with: how many batches n names make, and the steps.
Mutant_BatchCountShort(n, size) == (n + size - 2) \div size
BatchCount(n, size) == (n + size - 1) \div size

Batches(spec) ==
  LET names == Sorted[spec.names]
      size == spec.batch_size
      last(i) == IF i * size < Len(names) THEN i * size ELSE Len(names)
  IN [i \in 1..BatchCount(Len(names), size) |->
        [path |-> NoPath, depth |-> 0,
         names |-> {names[n] : n \in ((i - 1) * size + 1)..last(i)}]]

Admissible(d, spec) ==
  /\ Idle(d) /\ Eligible(d)
  /\ IF spec.kind = "discovery" THEN spec.root \in Concrete \cap Object
     ELSE /\ spec.names # {} /\ spec.names \subseteq Readable
          /\ \A p \in spec.names : d.catalog[p].op # NoOp /\ p \notin Object

NewJob(spec) ==
  [NoJob EXCEPT !.state = "running", !.spec = spec,
                !.frontier = IF spec.kind = "discovery"
                             THEN Branches(<<spec.root>>, 0)
                             ELSE Batches(spec)]

CreateCollection(j, spec, id, now) ==
  LET d == Expire(db, now)
  IN /\ db.jobs[j].state = "absent"
     /\ Admissible(d, spec)
     /\ db' = Advance([d EXCEPT !.jobs[j] = NewJob(spec)], j, id, now)
     /\ UNCHANGED clock

RepeatCollection(j, spec, now) ==
  /\ db.jobs[j].state # "absent" /\ db.jobs[j].spec = spec
  /\ db' = Expire(db, now)
  /\ UNCHANGED clock

GetCollection(j, id, now) ==
  /\ db.jobs[j].state # "absent"
  /\ db' = Advance(Expire(db, now), j, id, now)
  /\ UNCHANGED clock

----------------------------------------------------------------------------
(* Time passes while some deadline is still ahead of the oldest `now`.     *)

Deadlines == {db.ops[o].expires : o \in Active(db)}
             \cup {db.sessions[s].expires :
                     s \in {t \in SessionId : db.sessions[t].state \notin {"absent", "completed"}}}

Tick ==
  /\ \E t \in Deadlines : clock < t + MaxLag
  /\ clock' = clock + 1
  /\ UNCHANGED db

Receive(now) ==
  \E s \in SessionId :
    \/ \E inform \in Informs : Inform(s, inform, now)
    \/ \E id \in NextId : Poll(s, id, now) \/ Reply(s, id, now)

Administer(now) ==
  \/ \E key \in Key, ask \in Asks :
       \/ RepeatCreate(key, ask, now)
       \/ \E id \in NextId : CreateQuery(key, ask, id, now) \/ CreateTelemetry(key, ask, id, now)
  \/ \E o \in OpId : GetQuery(o, now)
  \/ \E j \in JobId, spec \in Specs :
       RepeatCollection(j, spec, now) \/ \E id \in NextId : CreateCollection(j, spec, id, now)
  \/ \E j \in JobId, id \in NextId : GetCollection(j, id, now)

Next == Tick \/ \E now \in Times : Receive(now) \/ Administer(now)

Spec == Init /\ [][Next]_vars
=============================================================================
