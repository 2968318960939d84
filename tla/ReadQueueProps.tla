--------------------------- MODULE ReadQueueProps ---------------------------
(***************************************************************************)
(* What the read queue of a CPE promises: PROPERTIES of ReadQueue.         *)
(***************************************************************************)
EXTENDS ReadQueue

Reasons == {"none", "deadline_exceeded", "profile_changed", "cpe_fault", "unexpected_parameters",
            "invalid_values", "not_internet_pppoe", "unverified_units",
            "unsupported_branch_or_profile"}
Operation ==
  [state : {"absent"} \cup Waiting \cup Terminal, key : Key \cup {NoKey}, ask : Ask,
   expires : Nat, finished : Nat, reason : Reasons, result : Content,
   session : SessionId \cup {NoSession}, sent : Nat]
Session == [state : {"absent", "awaiting_empty", "awaiting_response", "completed"}, expires : Nat]
Step == [path : Path \cup {NoPath}, depth : Nat, names : SUBSET Path]
Limit == {"max_depth", "max_rpcs", "max_entries", "unsupported_branch"}
Job ==
  [state : {"absent", "running", "succeeded", "partial"}, spec : Spec0, frontier : Seq(Step),
   current : OpId \cup {NoOp}, depth : Nat, rpcs : Nat, completed : Nat, entries : Nat,
   failures : Seq([op : OpId \cup {NoOp}, reason : Reasons]), limits : SUBSET Limit,
   issued : Seq(OpId)]

Approval ==
  [op : OpId \cup {NoOp}, key : Key \cup {NoKey}, expected : Value \cup {Revalidate},
   approved : BOOLEAN]

TelemetryField ==
  [state : {"absent", "valid", "unavailable", "invalid", "unverified"},
   op : OpId \cup {NoOp}, at : Nat,
   value : SUBSET Value, value_op : OpId \cup {NoOp}, value_at : Nat]

\* The tables hold rows of the declared columns, and every reference points at a row.
Tables ==
  [cpe : Target, observed : [Readable -> Nat], ops : [OpId -> Operation],
   sessions : [SessionId -> Session], jobs : [JobId -> Job],
   catalog : [Path -> [op : OpId \cup {NoOp}, at : Nat]],
   values : [Path -> [op : OpId \cup {NoOp}, at : Nat, value : Value \cup {NoValue}]],
   telemetry : [Field -> TelemetryField],
   approval : Approval]
TypeOK == db \in Tables /\ clock \in Nat \ {0}

----------------------------------------------------------------------------
(* The slot of the CPE.                                                    *)

\* At most one operation of a CPE is pending or dispatched, whichever of the administrator,
\* the job engine and the receiver queued it: the partial unique index never has to fire.
OneActiveOperation == \A o, p \in Active(db) : o = p

\* A session that waits for an answer carries exactly one dispatched operation, both end
\* at the same deadline, and a dispatched operation is never left with a closed session:
\* the InvalidSession of exchange for a missing attempt is unreachable.
SessionsCarryOperations ==
  /\ \A s \in SessionId : db.sessions[s].state = "awaiting_response" =>
       \E o \in OpId : /\ db.ops[o].state = "dispatched" /\ db.ops[o].session = s
                       /\ db.ops[o].expires = db.sessions[s].expires
  /\ \A o \in OpId : db.ops[o].state = "dispatched" =>
       /\ db.ops[o].session \in SessionId
       /\ db.sessions[db.ops[o].session].state = "awaiting_response"

\* A session carries one RPC in its whole life, so the attempt that exchange and _reply
\* look up by session is the only one.
OneRpcPerSession ==
  \A o, p \in OpId : db.ops[o].session = db.ops[p].session /\ db.ops[o].session # NoSession => o = p

\* A result that was accepted arrived after its RPC left and before the deadline that the
\* dispatch fixed, although commits carry timestamps taken before the lock.
AnsweredInTime ==
  \A o \in OpId : db.ops[o].state = "succeeded" =>
    /\ db.ops[o].sent <= db.ops[o].finished
    /\ db.ops[o].finished < db.ops[o].expires

----------------------------------------------------------------------------
(* Collection jobs.                                                        *)

JobRange(s) == {s[i] : i \in DOMAIN s}

\* While a job runs it owns the slot: there is one such job, its current operation is the
\* last it issued, and nothing else is queued.
JobOwnsSlot ==
  \A j \in Running(db) :
    /\ Running(db) = {j}
    /\ db.jobs[j].issued # <<>>
    /\ db.jobs[j].current = db.jobs[j].issued[Len(db.jobs[j].issued)]
    /\ Active(db) \subseteq {db.jobs[j].current}

\* Progress adds up, within the limits of the specification whatever the size of the answers:
\* every operation a job issued is counted once, completed operations are the issued ones
\* less the current one, and the recorded failures are exactly the completed operations that
\* did not succeed, each once.
JobAccounting ==
  \A j \in JobId :
    LET job == db.jobs[j]
        done == JobRange(job.issued) \ {job.current}
        failed == {i \in DOMAIN job.failures : job.failures[i].op # NoOp}
    IN /\ job.rpcs = Len(job.issued)
       /\ job.rpcs = Cardinality(JobRange(job.issued))
       /\ job.completed = Cardinality(done)
       /\ {job.failures[i].op : i \in failed} = {o \in done : db.ops[o].state # "succeeded"}
       /\ Cardinality(failed) = Cardinality({o \in done : db.ops[o].state # "succeeded"})
       /\ job.rpcs <= job.spec.max_rpcs
       /\ job.entries <= job.spec.max_entries
       /\ job.depth <= job.spec.max_depth

\* A discovery job asks for no object twice and keeps no object twice in its frontier.
NoBranchTwice ==
  \A j \in JobId :
    LET job == db.jobs[j]
        asked(i) == db.ops[job.issued[i]].ask.path
    IN job.spec.kind = "discovery" =>
         /\ \A i, k \in DOMAIN job.issued : i # k => asked(i) # asked(k)
         /\ \A i, k \in DOMAIN job.frontier : i # k => job.frontier[i].path # job.frontier[k].path
         /\ \A i \in DOMAIN job.issued, k \in DOMAIN job.frontier : asked(i) # job.frontier[k].path

\* "succeeded" means complete: a discovery job asked for every object that any of its
\* answers lists, and a values job read every leaf of its selection.
SucceededIsComplete ==
  \A j \in JobId :
    LET job == db.jobs[j]
        issued == JobRange(job.issued)
    IN job.state = "succeeded" =>
         /\ \A o \in issued : db.ops[o].state = "succeeded"
         /\ IF job.spec.kind = "discovery"
            THEN \A o \in issued : \A p \in DOMAIN db.ops[o].result \cap Object :
                   \E q \in issued : db.ops[q].ask.path = p
            ELSE UNION {DOMAIN db.ops[o].result : o \in issued} = job.spec.names

----------------------------------------------------------------------------
(* The inductive invariant behind the slot properties, on any tables: the  *)
(* proofs follow it through every intermediate state of a transaction.     *)

Single(d) == \A o, p \in Active(d) : o = p

\* A session is named by an operation only once its RPC is out ...
Unsent(d) ==
  \A o \in OpId : d.ops[o].state \in {"absent", "pending"} => d.ops[o].session = NoSession

\* ... by no other operation, ever ...
Unshared(d) ==
  \A o, p \in OpId : d.ops[o].session = d.ops[p].session /\ d.ops[o].session # NoSession => o = p

\* ... and from then on it waits for the answer or is over.
Opened(d) ==
  \A o \in OpId : d.ops[o].session # NoSession =>
    d.sessions[d.ops[o].session].state \in {"awaiting_response", "completed"}

Carried(d) ==
  \A o \in OpId : d.ops[o].state = "dispatched" =>
    /\ d.ops[o].session \in SessionId
    /\ d.sessions[d.ops[o].session].state = "awaiting_response"
    /\ d.sessions[d.ops[o].session].expires = d.ops[o].expires

Carrying(d) ==
  \A s \in SessionId : d.sessions[s].state = "awaiting_response" =>
    \E o \in OpId : d.ops[o].state = "dispatched" /\ d.ops[o].session = s

Slot(d) == Single(d) /\ Unsent(d) /\ Unshared(d) /\ Opened(d) /\ Carried(d) /\ Carrying(d)

Owned(d) ==
  \A j \in Running(d) :
    /\ Running(d) = {j}
    /\ d.jobs[j].issued # <<>>
    /\ d.jobs[j].current = d.jobs[j].issued[Len(d.jobs[j].issued)]
    /\ Active(d) \subseteq {d.jobs[j].current}

\* The tables a transaction commits satisfy all of it.
SlotInvariant == Slot(db) /\ Owned(db)

----------------------------------------------------------------------------
(* Collected data.                                                         *)

\* Every catalog entry comes from a names operation that succeeded on the parent of the
\* path, with the time at which that operation finished.
CatalogProvenance ==
  \A p \in Path :
    LET entry == db.catalog[p]
    IN entry.op # NoOp =>
         /\ db.ops[entry.op].state = "succeeded" /\ db.ops[entry.op].ask.kind = "names"
         /\ db.ops[entry.op].finished = entry.at
         /\ Parent[p] = PlanPath(db.ops[entry.op].ask)

\* Every stored value is a reviewed leaf, and is the one that the operation it names
\* reported when it succeeded.
ValueProvenance ==
  \A p \in Path :
    LET entry == db.values[p]
    IN entry.op # NoOp =>
         /\ p \in Readable
         /\ db.ops[entry.op].state = "succeeded" /\ db.ops[entry.op].ask.kind = "values"
         /\ db.ops[entry.op].finished = entry.at
         /\ p \in DOMAIN db.ops[entry.op].result /\ db.ops[entry.op].result[p] = entry.value

\* What is stored can be traced to the operation that reported it, entry by entry.
DataProvenance == CatalogProvenance /\ ValueProvenance

\* While an RPC is out nothing newer than it is stored, so the observed_at guards of the
\* upserts never drop part of an accepted answer.
StoredBeforeSent ==
  \A o \in OpId : db.ops[o].state = "dispatched" =>
    \A p \in Path : db.catalog[p].at <= db.ops[o].sent /\ db.values[p].at <= db.ops[o].sent

\* The value of a telemetry field is all that one answer reported for it: the answer of a
\* read of its interface, which for a WAN interface also said that this is the PPPoE way
\* to the Internet.  A later answer without a valid reading keeps it, with its own time.
TelemetryProvenance ==
  \A f \in Field :
    LET row == db.telemetry[f]
        result == db.ops[row.value_op].result
    IN /\ row.op # NoOp =>
            /\ db.ops[row.op].state \in Answered /\ db.ops[row.op].finished = row.at
            /\ (row.state = "valid") <=> (row.value_op = row.op)
            /\ row.value_at <= row.at
       /\ row.value_op # NoOp =>
            /\ db.ops[row.value_op].ask.path = Interface[f]
            /\ db.ops[row.value_op].finished = row.value_at
            /\ row.value = {result[p] : p \in {q \in DOMAIN result : FieldOf[q] = f}} \ {NoValue}
            /\ row.value # {}
            /\ \A p \in Selected(Interface[f], DOMAIN Internet) :
                 p \in DOMAIN result /\ result[p] \in Internet[p]

\* The answer of a telemetry read that was understood is never forgotten, valid or not: no
\* field it reports shows an observation older than it.
TelemetryKeepsUp ==
  \A o \in OpId :
    /\ Telemetric(db.ops[o].ask) /\ db.ops[o].state \in Answered
    /\ db.ops[o].reason \in {"none", "invalid_values", "unverified_units"}
    => \A p \in db.ops[o].ask.names : db.telemetry[FieldOf[p]].at >= db.ops[o].finished

----------------------------------------------------------------------------
(* What a step may never do.                                               *)

\* An operation is sent once and ends once: neither a late or repeated answer, nor a slow
\* transaction with an old timestamp, reopens or rewrites a terminal operation, a finished job
\* or a closed session, moves an RPC to another session, or puts off the deadline of a read.
OperationsOnlyProgress ==
  [][/\ \A o \in OpId :
          /\ db.ops[o].state \in Terminal => db'.ops[o] = db.ops[o]
          /\ db.ops[o].session # NoSession => /\ db'.ops[o].session = db.ops[o].session
                                             /\ db'.ops[o].expires = db.ops[o].expires
          /\ db.ops[o].state \in Waiting => db'.ops[o].expires <= db.ops[o].expires
     /\ \A j \in JobId : db.jobs[j].state \in {"succeeded", "partial"} => db'.jobs[j] = db.jobs[j]
     /\ \A s \in SessionId :
          db.sessions[s].state = "completed" => db'.sessions[s].state = "completed"]_vars

\* Catalog, values and telemetry change only in the transaction that accepts the first
\* answer of a dispatched operation; in particular a repeated answer writes nothing.
WrittenByFirstAnswer ==
  [][/\ \A p \in Path :
       /\ db'.catalog[p] # db.catalog[p] =>
            db.ops[db'.catalog[p].op].state = "dispatched" /\ db'.ops[db'.catalog[p].op].state = "succeeded"
       /\ db'.values[p] # db.values[p] =>
            db.ops[db'.values[p].op].state = "dispatched" /\ db'.ops[db'.values[p].op].state = "succeeded"
     /\ \A f \in Field : db'.telemetry[f] # db.telemetry[f] =>
            db.ops[db'.telemetry[f].op].state = "dispatched" /\ db'.ops[db'.telemetry[f].op].state \in Answered]_vars

\* A registered field never goes back to an older observation: its time only grows, and its
\* value changes only with its time.
InventoryNeverRegresses ==
  [][\A f \in Readable :
       /\ db'.observed[f] >= db.observed[f]
       /\ db'.cpe[f] # db.cpe[f] => db'.observed[f] > db.observed[f]]_vars

\* A telemetry field never goes back to an older observation, nor its value to an older one.
TelemetryNeverRegresses ==
  [][\A f \in Field :
       /\ db'.telemetry[f] # db.telemetry[f] => db'.telemetry[f].at > db.telemetry[f].at
       /\ db'.telemetry[f].value_at >= db.telemetry[f].value_at
       /\ db'.telemetry[f].value # db.telemetry[f].value =>
            db'.telemetry[f].value_at > db.telemetry[f].value_at]_vars

Discoveries(path) ==
  {o \in OpId : /\ db.ops[o].state = "succeeded"
                /\ db.ops[o].ask.kind = "names" /\ db.ops[o].ask.path = path}

\* A telemetry read asks for a leaf only if a discovery of its parent listed it within the
\* last day and no later discovery of the parent succeeded.
AskedAsDiscovered ==
  [][\A o \in OpId : db.ops[o].state = "absent" /\ Telemetric(db'.ops[o].ask) =>
       \A p \in db'.ops[o].ask.names : \E q \in Discoveries(Parent[p]) :
         /\ p \in DOMAIN db.ops[q].result
         /\ db.ops[q].finished + FreshSeconds >= db'.ops[o].expires - PendingSeconds
         /\ \A later \in Discoveries(Parent[p]) : db.ops[later].finished <= db.ops[q].finished]_vars

----------------------------------------------------------------------------
(* The abstract queue, and what must eventually happen.                    *)

Held == IF Active(db) = {} THEN NoOp ELSE CHOOSE o \in Active(db) : TRUE
Serial == INSTANCE SerialQueue WITH
  Op <- OpId, None <- NoOp, slot <- Held,
  out <- \E o \in OpId : db.ops[o].state = "dispatched",
  done <- {o \in OpId : db.ops[o].state \in Terminal}

\* Through expiry, changes of profile, replays and jobs that queue their next read in the
\* transaction that ends the last, the queue behaves as one slot that operations pass
\* through once.
SerialSpec == Serial!Spec

\* The clock of the server advances; clients that poll a job or an operation are served
\* again and again, and some of their requests do not wait for the lock.
Fairness ==
  /\ WF_vars(Tick)
  /\ \A j \in JobId : WF_vars(\E id \in NextId : GetCollection(j, id, clock))
  /\ \A o \in OpId : WF_vars(GetQuery(o, clock))
FairSpec == Spec /\ Fairness

\* A job that is polled ends, even if the CPE is never heard of again.
JobsEnd == \A j \in JobId :
  db.jobs[j].state = "running" ~> db.jobs[j].state \in {"succeeded", "partial"}

\* An operation that is polled ends, and with it the session that carried it.
QueriesEnd == \A o \in OpId :
  db.ops[o].state \in Waiting ~>
    /\ db.ops[o].state \in Terminal
    /\ db.ops[o].session # NoSession => db.sessions[db.ops[o].session].state = "completed"
=============================================================================
