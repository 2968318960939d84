-------------------------- MODULE ReadQueueProofs --------------------------
(***************************************************************************)
(* ReadQueue, for any number of operations, sessions and jobs and any lag  *)
(* of `now`.  Its tables are well typed; one operation of a CPE is being   *)
(* read, the session that waits for an answer carries it, no session       *)
(* carries two, and a running job owns whatever is queued; no transaction  *)
(* takes back what another one concluded, an answer counts only between    *)
(* the departure of its RPC and its deadline, and what is stored can be    *)
(* traced to it.  The lemmas follow each invariant through the steps a     *)
(* transaction is composed of, each on the tables the step before leaves.  *)
(***************************************************************************)
EXTENDS ReadQueueProps, SequenceTheorems, FiniteSetTheorems, TLAPS

----------------------------------------------------------------------------
(* Rows and tables.                                                        *)

LEMMA NothingType == Nothing \in Content
<1>1. Nothing \in Said({})
  BY DEF Nothing, Said
<1> QED BY <1>1 DEF Content

LEMMA BlankTypes == NoOperation \in Operation /\ NoJob \in Job
<1>1. NoAsk \in Ask BY DEF NoAsk, Ask
<1>2. NoSpec \in Spec0 BY DEF NoSpec, Spec0
<1>3. NoOperation \in Operation
  BY <1>1, NothingType DEF NoOperation, Operation, Reasons
<1>4. NoJob \in Job
  BY <1>2 DEF NoJob, Job
<1> QED BY <1>3, <1>4

\* Replacing a row by a row keeps the tables well typed.
LEMMA PutOp ==
  ASSUME NEW d \in Tables, NEW o \in OpId, NEW row \in Operation
  PROVE  [d EXCEPT !.ops[o] = row] \in Tables
BY DEF Tables

LEMMA PutSession ==
  ASSUME NEW d \in Tables, NEW s \in SessionId, NEW row \in Session
  PROVE  [d EXCEPT !.sessions[s] = row] \in Tables
BY DEF Tables

LEMMA PutJob ==
  ASSUME NEW d \in Tables, NEW j \in JobId, NEW row \in Job
  PROVE  [d EXCEPT !.jobs[j] = row] \in Tables
BY DEF Tables

LEMMA RowTypes ==
  ASSUME NEW d \in Tables
  PROVE  /\ \A o \in OpId : d.ops[o] \in Operation
         /\ \A s \in SessionId : d.sessions[s] \in Session
         /\ \A j \in JobId : d.jobs[j] \in Job
BY DEF Tables

\* The ways a handler closes an operation or a session.
LEMMA CloseOp ==
  ASSUME NEW row \in Operation, NEW state \in Terminal, NEW reason \in Reasons, NEW now \in Nat
  PROVE  [row EXCEPT !.state = state, !.reason = reason, !.finished = now] \in Operation
BY DEF Operation

LEMMA CloseSession ==
  ASSUME NEW row \in Session
  PROVE  [row EXCEPT !.state = "completed"] \in Session
BY DEF Session

LEMMA ExpireType ==
  ASSUME NEW d \in Tables, NEW now \in Nat
  PROVE  Expire(d, now) \in Tables
<1> DEFINE due == {o \in Active(d) : d.ops[o].expires <= now}
           ops == [o \in OpId |->
             IF o \in due
             THEN [d.ops[o] EXCEPT !.state = "expired", !.reason = "deadline_exceeded", !.finished = now]
             ELSE d.ops[o]]
           sessions == [s \in SessionId |->
             IF \E o \in due : d.ops[o].session = s
             THEN [d.sessions[s] EXCEPT !.state = "completed"]
             ELSE d.sessions[s]]
<1>1. ops \in [OpId -> Operation]
  <2>1. "expired" \in Terminal /\ "deadline_exceeded" \in Reasons
    BY DEF Terminal, Reasons
  <2> QED BY <2>1, RowTypes, CloseOp
<1>2. sessions \in [SessionId -> Session]
  BY RowTypes, CloseSession
<1>3. Expire(d, now) = [d EXCEPT !.ops = ops, !.sessions = sessions]
  BY DEF Expire, Due
<1> HIDE DEF ops, sessions
<1> QED BY <1>1, <1>2, <1>3 DEF Tables

LEMMA FailType ==
  ASSUME NEW d \in Tables, NEW now \in Nat, NEW o \in OpId, NEW reason \in Reasons
  PROVE  Fail(d, o, reason, now) \in Tables
<1>1. [d.ops[o] EXCEPT !.state = "failed", !.reason = reason, !.finished = now] \in Operation
  BY RowTypes, CloseOp DEF Terminal, Answered
<1> QED BY <1>1, PutOp DEF Fail

LEMMA FinishType ==
  ASSUME NEW d \in Tables, NEW s \in SessionId
  PROVE  Finish(d, s) \in Tables
BY RowTypes, CloseSession, PutSession DEF Finish

LEMMA EnqueueType ==
  ASSUME NEW d \in Tables, NEW now \in Nat, NEW id \in OpId, NEW key \in Key \cup {NoKey},
         NEW ask \in Ask
  PROVE  Enqueue(d, id, key, ask, now) \in Tables
<1> DEFINE row == [NoOperation EXCEPT !.state = "pending", !.key = key, !.ask = ask,
                                      !.expires = now + PendingSeconds]
<1>1. row \in Operation
  <2>1. now + PendingSeconds \in Nat BY TimeAssumption
  <2>2. "pending" \in {"absent"} \cup Waiting \cup Terminal BY DEF Waiting
  <2> QED BY <2>1, <2>2, BlankTypes DEF Operation
<1> QED BY <1>1, PutOp DEF Enqueue

----------------------------------------------------------------------------
(* Jobs.                                                                   *)

LEMMA BranchesType ==
  ASSUME NEW paths \in Seq(Path), NEW depth \in Nat
  PROVE  Branches(paths, depth) \in Seq(Step)
<1>1. Len(paths) \in Nat /\ \A i \in 1..Len(paths) : paths[i] \in Path
  BY ElementOfSeq, LenProperties
<1>2. Branches(paths, depth) \in [1..Len(paths) -> Step]
  BY <1>1 DEF Branches, Step
<1> QED BY <1>1, <1>2, SeqDef

LEMMA PathsFinite ==
  ASSUME NEW S \in SUBSET Path
  PROVE  IsFiniteSet(S) /\ Cardinality(S) \in Nat
BY PathAssumption, FS_Subset, FS_CardinalityType

LEMMA PutProgress ==
  ASSUME NEW job \in Job, NEW e \in Nat, NEW f \in Seq(Step), NEW l \in SUBSET Limit
  PROVE  [job EXCEPT !.entries = e, !.frontier = f, !.limits = l] \in Job
BY DEF Job

LEMMA DiscoveredType ==
  ASSUME NEW job \in Job, NEW entries \in SUBSET Path
  PROVE  Discovered(job, entries) \in Job
<1>1. job.depth \in Nat /\ job.entries \in Nat /\ job.frontier \in Seq(Step) /\ job.limits \in SUBSET Limit
  BY DEF Job
<1>2. Deeper(job, entries) \in SUBSET Path
  BY DEF Deeper
<1>3. Sorted[Deeper(job, entries)] \in Seq(Path)
  BY <1>2, PathAssumption
<1>4. job.frontier \o Branches(Sorted[Deeper(job, entries)], job.depth + 1) \in Seq(Step)
  <2>1. job.depth + 1 \in Nat BY <1>1
  <2>2. Branches(Sorted[Deeper(job, entries)], job.depth + 1) \in Seq(Step)
    BY <1>3, <2>1, BranchesType
  <2> QED BY <1>1, <2>2, ConcatProperties
<1>5. job.entries + Cardinality(entries) \in Nat
  BY <1>1, PathsFinite
<1>6. job.limits \cup Left(job, entries) \in SUBSET Limit
  BY <1>1 DEF Limit, Left
<1> QED BY <1>4, <1>5, <1>6, PutProgress DEF Discovered

LEMMA AbsorbType ==
  ASSUME NEW d \in Tables, NEW j \in JobId, d.jobs[j].current \in OpId
  PROVE  Absorb(d, j) \in Tables
<1> DEFINE job == d.jobs[j]
           op == d.ops[job.current]
           ended == [job EXCEPT !.current = NoOp, !.completed = @ + 1]
           failed == [ended EXCEPT !.failures = Append(@, [op |-> job.current, reason |-> op.reason])]
           read == [ended EXCEPT !.entries = @ + Cardinality(DOMAIN op.result)]
<1>1. job \in Job /\ op \in Operation
  BY RowTypes
<1>2. ended \in Job
  <2>1. job.completed + 1 \in Nat BY <1>1 DEF Job
  <2> HIDE DEF job
  <2> QED BY <1>1, <2>1 DEF Job
<1>3. failed \in Job
  <2>1. [op |-> job.current, reason |-> op.reason] \in [op : OpId \cup {NoOp}, reason : Reasons]
    BY <1>1 DEF Operation
  <2>2. ended.failures \in Seq([op : OpId \cup {NoOp}, reason : Reasons])
    BY <1>2 DEF Job
  <2>3. Append(ended.failures, [op |-> job.current, reason |-> op.reason])
          \in Seq([op : OpId \cup {NoOp}, reason : Reasons])
    BY <2>1, <2>2, AppendProperties
  <2> HIDE DEF ended, op, job
  <2> QED BY <1>2, <2>3 DEF Job
<1>4. read \in Job
  <2>1. DOMAIN op.result \in SUBSET Path
    BY <1>1 DEF Operation, Content, Said
  <2>2. ended.entries + Cardinality(DOMAIN op.result) \in Nat
    <3>1. ended.entries \in Nat BY <1>2 DEF Job
    <3> QED BY <3>1, <2>1, PathsFinite
  <2> HIDE DEF ended, op
  <2> QED BY <1>2, <2>2 DEF Job
<1>5. Discovered(ended, Entries(d, job.current)) \in Job
  BY <1>2, DiscoveredType DEF Entries
<1> HIDE DEF ended, failed, read
<1>6. Absorb(d, j) = [d EXCEPT !.jobs[j] =
        IF op.state # "succeeded" THEN failed
        ELSE IF job.spec.kind = "discovery" THEN Discovered(ended, Entries(d, job.current))
        ELSE read]
  BY DEF Absorb, ended, failed, read
<1> QED BY <1>3, <1>4, <1>5, <1>6, PutJob

LEMMA FirstType ==
  ASSUME NEW S \in SUBSET Path, NEW n \in Int
  PROVE  First(S, n) \in SUBSET Path
<1>1. Sorted[S] \in Seq(Path) BY PathAssumption
<1> QED BY <1>1, ElementOfSeq, LenProperties DEF First

LEMMA EndedType ==
  ASSUME NEW job \in Job
  PROVE  Ended(job) \in Job
BY DEF Ended, Job

LEMMA ExhaustedType ==
  ASSUME NEW job \in Job
  PROVE  Exhausted(job) \in SUBSET Limit
BY DEF Exhausted, Limit

LEMMA RefusedType ==
  ASSUME NEW job \in Job
  PROVE  Refused(job) \in Job
<1> DEFINE Failure == [op : OpId \cup {NoOp}, reason : Reasons]
           refusals == [i \in DOMAIN job.frontier |->
                          [op |-> NoOp, reason |-> "unsupported_branch_or_profile"]]
           limits == job.limits \cup {l \in {"max_entries"} :
             {i \in DOMAIN job.frontier :
                Cardinality(job.frontier[i].names) > job.spec.max_entries - job.entries} # {}}
<1>1. job.frontier \in Seq(Step) /\ job.failures \in Seq(Failure) /\ job.limits \in SUBSET Limit
  BY DEF Job
<1>2. refusals \in Seq(Failure)
  <2>1. DOMAIN job.frontier = 1..Len(job.frontier) /\ Len(job.frontier) \in Nat
    BY <1>1, LenProperties
  <2>2. [op |-> NoOp, reason |-> "unsupported_branch_or_profile"] \in Failure
    BY DEF Reasons
  <2>3. refusals \in [1..Len(job.frontier) -> Failure]
    BY <2>1, <2>2
  <2> HIDE DEF refusals, Failure
  <2> QED BY <2>1, <2>3, SeqDef
<1>3. job.failures \o refusals \in Seq(Failure)
  BY <1>1, <1>2, ConcatProperties
<1>4. limits \in SUBSET Limit
  BY <1>1 DEF Limit
<1>5. <<>> \in Seq(Step) OBVIOUS
<1>6. Refused(job) = [job EXCEPT !.frontier = <<>>, !.limits = limits, !.failures = job.failures \o refusals]
  BY DEF Refused
<1> HIDE DEF limits, refusals
<1> QED BY <1>3, <1>4, <1>5, <1>6 DEF Job

LEMMA StepAsk ==
  ASSUME NEW job \in Job, job.frontier # <<>>
  PROVE  /\ Head(job.frontier) \in Step /\ Tail(job.frontier) \in Seq(Step)
         /\ [kind |-> IF job.spec.kind = "discovery" THEN "names" ELSE "values",
             path |-> Head(job.frontier).path,
             names |-> First(Head(job.frontier).names, job.spec.max_entries - job.entries)] \in Ask
<1>1. Head(job.frontier) \in Step /\ Tail(job.frontier) \in Seq(Step)
  BY HeadTailProperties DEF Job
<1>2. job.spec.max_entries - job.entries \in Int
  BY DEF Job, Spec0
<1>3. First(Head(job.frontier).names, job.spec.max_entries - job.entries) \in SUBSET Path
  BY <1>1, <1>2, FirstType DEF Step
<1> QED BY <1>1, <1>3 DEF Ask, Step

LEMMA ContinueType ==
  ASSUME NEW d \in Tables, NEW j \in JobId, NEW id \in OpId, NEW now \in Nat
  PROVE  Continue(d, j, id, now) \in Tables
<1> DEFINE job == d.jobs[j]
           stop == Exhausted(job)
           step == Head(job.frontier)
           names == First(step.names, job.spec.max_entries - job.entries)
           ask == [kind |-> IF job.spec.kind = "discovery" THEN "names" ELSE "values",
                   path |-> step.path, names |-> names]
           next == [job EXCEPT !.frontier = Tail(@), !.current = id, !.depth = step.depth,
                               !.rpcs = @ + 1, !.issued = Append(@, id),
                               !.limits = @ \cup {l \in {"max_entries"} : names # step.names}]
<1>1. job \in Job BY RowTypes
<1>2. CASE job.frontier = <<>> \/ stop # {}
  <2>1. stop \in SUBSET Limit BY <1>1, ExhaustedType
  <2>2. [job EXCEPT !.limits = job.limits \cup stop] \in Job
    <3> HIDE DEF stop, job
    <3> QED BY <1>1, <2>1 DEF Job
  <2>3. Continue(d, j, id, now) = [d EXCEPT !.jobs[j] = Ended([job EXCEPT !.limits = job.limits \cup stop])]
    BY <1>2 DEF Continue
  <2> QED BY <2>2, <2>3, EndedType, PutJob
<1>3. CASE ~ (job.frontier = <<>> \/ stop # {}) /\ ~ Eligible(d)
  <2>1. Continue(d, j, id, now) = [d EXCEPT !.jobs[j] = Ended(Refused(job))]
    BY <1>3 DEF Continue
  <2> QED BY <1>1, <2>1, RefusedType, EndedType, PutJob
<1>4. CASE ~ (job.frontier = <<>> \/ stop # {}) /\ Eligible(d)
  <2>1. ask \in Ask /\ step \in Step /\ Tail(job.frontier) \in Seq(Step)
    BY <1>1, <1>4, StepAsk
  <2>2. next \in Job
    <3>1. step.depth \in Nat BY <2>1 DEF Step
    <3>2. job.rpcs + 1 \in Nat BY <1>1 DEF Job
    <3>3. Append(job.issued, id) \in Seq(OpId) BY <1>1, AppendProperties DEF Job
    <3>4. job.limits \cup {l \in {"max_entries"} : names # step.names} \in SUBSET Limit
      BY <1>1 DEF Job, Limit
    <3> HIDE DEF job, step, names
    <3> QED BY <1>1, <2>1, <3>1, <3>2, <3>3, <3>4 DEF Job
  <2>3. Enqueue(d, id, NoKey, ask, now) \in Tables
    BY <2>1, EnqueueType
  <2>4. Continue(d, j, id, now) = [Enqueue(d, id, NoKey, ask, now) EXCEPT !.jobs[j] = next]
    BY <1>4 DEF Continue
  <2> HIDE DEF next, ask
  <2> QED BY <2>2, <2>3, <2>4, PutJob
<1> QED BY <1>2, <1>3, <1>4

LEMMA AdvanceType ==
  ASSUME NEW d \in Tables, NEW j \in JobId, NEW id \in OpId, NEW now \in Nat
  PROVE  Advance(d, j, id, now) \in Tables
<1>1. d.jobs[j].current \in OpId \cup {NoOp}
  BY RowTypes DEF Job
<1> QED BY <1>1, AbsorbType, ContinueType DEF Advance

LEMMA AdvanceActiveType ==
  ASSUME NEW d \in Tables, NEW id \in OpId, NEW now \in Nat
  PROVE  AdvanceActive(d, id, now) \in Tables
<1>1. Running(d) # {} => (CHOOSE j \in Running(d) : TRUE) \in JobId
  BY DEF Running
<1> QED BY <1>1, AdvanceType DEF AdvanceActive

----------------------------------------------------------------------------
(* Answers.                                                                *)

LEMMA UpdateInventoryType ==
  ASSUME NEW d \in Tables, NEW report \in Content, NEW now \in Nat
  PROVE  UpdateInventory(d, report, now) \in Tables
<1> DEFINE newer == Newer(d, report, now)
           observed == [f \in Readable |-> IF f \in newer THEN now ELSE d.observed[f]]
           cpe == [a \in Attribute |->
                     IF a \in newer /\ report[a] \in Value THEN report[a] ELSE d.cpe[a]]
           approval == IF /\ d.approval.op # NoOp /\ Firmware \in newer
                          /\ report[Firmware] \in Value \ {d.approval.expected}
                       THEN Withdrawn(d.approval) ELSE d.approval
<1>1. observed \in [Readable -> Nat]
  BY DEF Tables
<1>2. cpe \in Target
  BY DEF Tables, Target
<1>3. approval \in Approval
  BY DEF Tables, Approval, Withdrawn
<1>4. UpdateInventory(d, report, now) =
        [d EXCEPT !.observed = observed, !.cpe = cpe, !.approval = approval]
  BY DEF UpdateInventory
<1> HIDE DEF observed, cpe, approval
<1> QED BY <1>1, <1>2, <1>3, <1>4 DEF Tables

LEMMA ContentDomain ==
  ASSUME NEW c \in Content
  PROVE  /\ DOMAIN c \in SUBSET Path
         /\ \A p \in DOMAIN c : c[p] \in Value \cup {Listed, Untyped, Unsafe, NoValue}
BY DEF Content, Said

LEMMA InContent ==
  ASSUME NEW S \in SUBSET Path, NEW c \in Said(S)
  PROVE  c \in Content
BY DEF Content

\* The assumption states the shape of the inputs one by one, which TLC can evaluate.
LEMMA InputTypes ==
  /\ Asks \subseteq Ask /\ Specs \subseteq Spec0
  /\ Informs \subseteq Inform0 /\ Answers \subseteq Answer
<1>1. ASSUME NEW i \in Informs PROVE i \in Inform0
  <2>1. i.report \in Content BY InputAssumption, InContent
  <2> QED BY <2>1, InputAssumption DEF Inform0
<1>2. ASSUME NEW r \in Answers PROVE r \in Answer
  <2>1. r.content \in Content BY InputAssumption, InContent
  <2> QED BY <2>1, InputAssumption DEF Answer
<1> QED BY <1>1, <1>2, InputAssumption

LEMMA ReasonType ==
  ASSUME NEW ask \in Ask, NEW r \in Answer
  PROVE  /\ Reason(ask, r) \in Reasons
         /\ r.kind = "values" /\ Reason(ask, r) = "none" /\ ~ Telemetric(ask) =>
              /\ DOMAIN r.content = PlanNames(ask)
              /\ \A p \in DOMAIN r.content : r.content[p] \in Value \cup {NoValue}
<1>1. r.kind \in {"names", "values", "fault"} BY DEF Answer
<1>2. CASE r.kind = "fault" BY <1>2 DEF Reason, Reasons
<1>3. CASE r.kind = "names" BY <1>3 DEF Reason, Reasons
<1>4. CASE r.kind = "values" BY <1>4 DEF Reason, Reasons, Storable, TelemetryReason
<1> QED BY <1>1, <1>2, <1>3, <1>4

LEMMA ResultType ==
  ASSUME NEW ask \in Ask, NEW r \in Answer
  PROVE  Result(ask, r) \in Content
<1> DEFINE kept == IF ask.path = NoPath THEN Readable ELSE Retained
           names == [p \in DOMAIN r.content \cap kept |-> Listed]
           leaves == [p \in Readable |-> IF r.content[p] \in Value THEN r.content[p] ELSE NoValue]
<1>1. names \in Content
  <2>1. DOMAIN r.content \cap kept \in SUBSET Path
    BY ContentDomain DEF Answer
  <2>2. names \in Said(DOMAIN r.content \cap kept)
    BY DEF Said
  <2> QED BY <2>1, <2>2, InContent
<1>2. leaves \in Content
  <2>1. Readable \in SUBSET Path BY PathAssumption
  <2>2. leaves \in Said(Readable)
    BY DEF Said
  <2> QED BY <2>1, <2>2, InContent
<1>3. r.content \in Content BY DEF Answer
<1>4. TelemetryResult(r.content) \in Content
  <2>1. DOMAIN r.content \in SUBSET Path
    BY <1>3, ContentDomain
  <2>2. TelemetryResult(r.content) \in Said(DOMAIN r.content)
    BY <1>3, ContentDomain DEF TelemetryResult, Said
  <2> QED BY <2>1, <2>2, InContent
<1> QED BY <1>1, <1>2, <1>3, <1>4, NothingType DEF Result

LEMMA CollectType ==
  ASSUME NEW d \in Tables, NEW o \in OpId, NEW r \in Answer, NEW now \in Nat
  PROVE  Collect(d, o, r, now) \in Tables
<1> DEFINE valid == Reason(d.ops[o].ask, r) = "none"
           kept == Kept(d, o, DOMAIN r.content)
           named == IF r.kind = "names" /\ valid
                    THEN {p \in kept.names : d.catalog[p].at <= now} ELSE {}
           read == IF r.kind = "values" /\ valid /\ ~ Telemetric(d.ops[o].ask)
                   THEN {p \in DOMAIN r.content : d.values[p].at <= now} ELSE {}
           catalog == [p \in Path |-> IF p \in named THEN [op |-> o, at |-> now] ELSE d.catalog[p]]
           values == [p \in Path |->
              IF p \in read THEN [op |-> o, at |-> now, value |-> r.content[p]] ELSE d.values[p]]
           jobs == [j \in JobId |->
              IF r.kind = "names" /\ valid /\ j \in kept.jobs
              THEN [d.jobs[j] EXCEPT !.limits = @ \cup {"max_entries"}] ELSE d.jobs[j]]
<1>1. catalog \in [Path -> [op : OpId \cup {NoOp}, at : Nat]]
  BY DEF Tables
<1>2. values \in [Path -> [op : OpId \cup {NoOp}, at : Nat, value : Value \cup {NoValue}]]
  <2>1. d.ops[o].ask \in Ask BY RowTypes DEF Operation
  <2>2. \A p \in read : r.content[p] \in Value \cup {NoValue}
    BY <2>1, ReasonType
  <2> HIDE DEF read
  <2> QED BY <2>2 DEF Tables
<1>3. jobs \in [JobId -> Job]
  <2>1. \A j \in JobId : [d.jobs[j] EXCEPT !.limits = @ \cup {"max_entries"}] \in Job
    <3> SUFFICES ASSUME NEW j \in JobId PROVE [d.jobs[j] EXCEPT !.limits = @ \cup {"max_entries"}] \in Job
      OBVIOUS
    <3>1. d.jobs[j].limits \cup {"max_entries"} \in SUBSET Limit
      BY RowTypes DEF Job, Limit
    <3> QED BY <3>1, RowTypes DEF Job
  <2> QED BY <2>1, RowTypes
<1>4. Collect(d, o, r, now) = [d EXCEPT !.catalog = catalog, !.values = values, !.jobs = jobs]
  BY DEF Collect
<1> HIDE DEF catalog, values, jobs
<1> QED BY <1>1, <1>2, <1>3, <1>4 DEF Tables

LEMMA UpdateTelemetryType ==
  ASSUME NEW d \in Tables, NEW o \in OpId, NEW content \in Content, NEW now \in Nat
  PROVE  UpdateTelemetry(d, o, content, now) \in Tables
<1> DEFINE telemetry == [f \in Field |-> IF f \in Outdated(d, content, now)
                                         THEN Observed(d.telemetry[f], f, o, content, now)
                                         ELSE d.telemetry[f]]
<1>1. ASSUME NEW row \in TelemetryField, NEW f \in Field
      PROVE  Observed(row, f, o, content, now) \in TelemetryField
  <2>1. FieldState(f, content) \in {"valid", "unavailable", "invalid", "unverified"}
    BY DEF FieldState
  <2>2. Reported(f, content) \in SUBSET Value
    BY DEF Reported
  <2> DEFINE seen == [row EXCEPT !.state = FieldState(f, content), !.op = o, !.at = now]
  <2>3. seen \in TelemetryField
    BY <2>1 DEF TelemetryField
  <2>4. [seen EXCEPT !.value = Reported(f, content), !.value_op = o, !.value_at = now]
          \in TelemetryField
    <3> HIDE DEF seen
    <3> QED BY <2>2, <2>3 DEF TelemetryField
  <2> QED BY <2>3, <2>4 DEF Observed
<1>2. telemetry \in [Field -> TelemetryField]
  <2>1. \A f \in Field : d.telemetry[f] \in TelemetryField BY DEF Tables
  <2> QED BY <1>1, <2>1
<1>3. UpdateTelemetry(d, o, content, now) = [d EXCEPT !.telemetry = telemetry]
  BY DEF UpdateTelemetry
<1> HIDE DEF telemetry
<1> QED BY <1>2, <1>3 DEF Tables

LEMMA AnswerOp ==
  ASSUME NEW row \in Operation, NEW state \in Terminal, NEW reason \in Reasons, NEW now \in Nat,
         NEW result \in Content
  PROVE  [row EXCEPT !.state = state, !.reason = reason, !.finished = now, !.result = result]
            \in Operation
BY DEF Operation

LEMMA ConcludeType ==
  ASSUME NEW d \in Tables, NEW s \in SessionId, NEW o \in OpId, NEW r \in Answer, NEW now \in Nat
  PROVE  Conclude(d, s, o, r, now) \in Tables
<1> DEFINE ask == d.ops[o].ask
           collected == Collect(d, o, r, now)
           noted == IF FeedsInventory(ask, r) THEN UpdateInventory(collected, r.content, now)
                                              ELSE collected
           measured == IF Measures(ask, r) THEN UpdateTelemetry(noted, o, r.content, now) ELSE noted
           state == IF Reason(ask, r) = "none" THEN "succeeded" ELSE "failed"
           op == [measured.ops[o] EXCEPT !.state = state, !.reason = Reason(ask, r), !.finished = now,
                                      !.result = Result(ask, r)]
           session == [measured.sessions[s] EXCEPT !.state = "completed"]
<1>1. noted \in Tables
  BY CollectType, UpdateInventoryType DEF Answer
<1>2. ask \in Ask BY RowTypes DEF Operation
<1> HIDE DEF noted, ask
<1>8. measured \in Tables
  BY <1>1, UpdateTelemetryType DEF Answer
<1> HIDE DEF measured
<1>3. op \in Operation
  <2>1. state \in Terminal BY DEF Terminal, Answered
  <2>2. measured.ops[o] \in Operation BY <1>8, RowTypes
  <2>3. Reason(ask, r) \in Reasons /\ Result(ask, r) \in Content
    BY <1>2, ReasonType, ResultType
  <2> HIDE DEF state
  <2> QED BY <2>1, <2>2, <2>3, AnswerOp
<1>4. session \in Session
  BY <1>8, RowTypes, CloseSession
<1>5. Conclude(d, s, o, r, now) = [[measured EXCEPT !.ops[o] = op] EXCEPT !.sessions[s] = session]
  BY <1>8 DEF Conclude, measured, noted, ask
<1> HIDE DEF op, session
<1> DEFINE answered == [measured EXCEPT !.ops[o] = op]
<1>6. answered \in Tables
  BY <1>8, <1>3, PutOp
<1>7. Conclude(d, s, o, r, now) = [answered EXCEPT !.sessions[s] = session]
  BY <1>5
<1> HIDE DEF answered
<1> QED BY <1>4, <1>6, <1>7, PutSession

----------------------------------------------------------------------------
(* Transactions.                                                           *)

LEMMA SettledType ==
  ASSUME db \in Tables, NEW id \in OpId, NEW now \in Nat
  PROVE  Settled(id, now) \in Tables
BY ExpireType, AdvanceActiveType DEF Settled

LEMMA PollType ==
  ASSUME db \in Tables, clock \in Nat, NEW s \in SessionId, NEW id \in OpId, NEW now \in Nat,
         Poll(s, id, now)
  PROVE  db' \in Tables
<1> DEFINE d == Settled(id, now)
<1>1. d \in Tables BY SettledType
<1> HIDE DEF d
<1>2. CASE PollCompleted(s, id, now) BY <1>1, <1>2 DEF PollCompleted, d
<1>3. CASE PollResend(s, id, now) BY <1>1, <1>3 DEF PollResend, d
<1>4. CASE PollProfileChanged(s, id, now)
  <2>1. PICK o \in OpId : db' = Finish(Fail(d, o, "profile_changed", now), s)
    BY <1>4 DEF PollProfileChanged, d
  <2>2. Fail(d, o, "profile_changed", now) \in Tables
    BY <1>1, FailType DEF Reasons
  <2> QED BY <2>1, <2>2, FinishType
<1>5. CASE PollDispatch(s, id, now)
  <2> DEFINE deadline(o) == IF d.ops[o].expires < now + RpcSeconds THEN d.ops[o].expires
                                                                  ELSE now + RpcSeconds
             sentop(o) == [d.ops[o] EXCEPT !.state = "dispatched", !.expires = deadline(o),
                                           !.session = s, !.sent = clock]
             carrying(o) == [state |-> "awaiting_response", expires |-> deadline(o)]
  <2>1. PICK o \in OpId :
          db' = [d EXCEPT !.ops[o] = sentop(o), !.sessions[s] = carrying(o)]
    BY <1>5, Zenon DEF PollDispatch, d
  <2>2. deadline(o) \in Nat
    BY <1>1, RowTypes, TimeAssumption DEF Operation
  <2>3. sentop(o) \in Operation
    <3>1. "dispatched" \in {"absent"} \cup Waiting \cup Terminal BY DEF Waiting
    <3> HIDE DEF deadline
    <3> QED BY <1>1, <2>2, <3>1, RowTypes DEF Operation
  <2>4. carrying(o) \in Session
    BY <2>2 DEF Session
  <2> DEFINE mid == [d EXCEPT !.ops[o] = sentop(o)]
  <2>5. mid \in Tables BY <1>1, <2>3, PutOp
  <2>6. db' = [mid EXCEPT !.sessions[s] = carrying(o)]
    BY <2>1
  <2> HIDE DEF mid, carrying
  <2> QED BY <2>4, <2>5, <2>6, PutSession
<1>6. CASE PollIdle(s, id, now) BY <1>1, <1>6, FinishType DEF PollIdle, d
<1> QED BY <1>2, <1>3, <1>4, <1>5, <1>6 DEF Poll

LEMMA ReplyType ==
  ASSUME db \in Tables, NEW s \in SessionId, NEW id \in OpId, NEW now \in Nat,
         Reply(s, id, now)
  PROVE  db' \in Tables
<1> DEFINE d == Settled(id, now)
<1>1. d \in Tables BY SettledType
<1> HIDE DEF d
<1>2. ASSUME NEW r \in Answers, ReplyApplied(s, id, r, now) PROVE db' \in Tables
  <2>1. PICK o \in OpId : db' = AdvanceActive(Conclude(d, s, o, r, now), id, now)
    BY <1>2 DEF ReplyApplied, d
  <2>2. Conclude(d, s, o, r, now) \in Tables
    BY <1>1, InputTypes, ConcludeType
  <2> QED BY <2>1, <2>2, AdvanceActiveType
<1>3. ASSUME NEW r \in Answers, ReplyRepeated(s, id, r, now) PROVE db' \in Tables
  BY <1>1, <1>3 DEF ReplyRepeated, d
<1>4. CASE ReplyProfileChanged(s, id, now)
  <2>1. PICK o \in OpId : db' = Finish(Fail(d, o, "profile_changed", now), s)
    BY <1>4 DEF ReplyProfileChanged, d
  <2>2. Fail(d, o, "profile_changed", now) \in Tables
    BY <1>1, FailType DEF Reasons
  <2> QED BY <2>1, <2>2, FinishType
<1>5. CASE ReplyLate(s, id, now)
  BY <1>1, <1>5, FinishType DEF ReplyLate, d
<1> QED BY <1>2, <1>3, <1>4, <1>5 DEF Reply

LEMMA InformType ==
  ASSUME db \in Tables, NEW s \in SessionId, NEW inform \in Informs, NEW now \in Nat,
         Inform(s, inform, now)
  PROVE  db' \in Tables
<1> DEFINE named == [db EXCEPT !.cpe[Manufacturer] = inform.manufacturer]
           session == [state |-> "awaiting_empty", expires |-> now + SessionSeconds]
<1>1. inform.manufacturer \in Value /\ inform.report \in Content
  BY InputTypes DEF Inform0
<1>2. named \in Tables
  BY <1>1 DEF Tables, Target
<1>3. UpdateInventory(named, inform.report, now) \in Tables
  BY <1>1, <1>2, UpdateInventoryType
<1>4. session \in Session
  BY TimeAssumption DEF Session
<1>5. db' = [UpdateInventory(named, inform.report, now) EXCEPT !.sessions[s] = session]
  BY DEF Inform
<1> HIDE DEF named, session
<1> QED BY <1>3, <1>4, <1>5, PutSession

LEMMA BatchesType ==
  ASSUME NEW spec \in Spec0
  PROVE  Batches(spec) \in Seq(Step)
<1> DEFINE names == Sorted[spec.names]
           size == spec.batch_size
           count == BatchCount(Len(names), size)
           last(i) == IF i * size < Len(names) THEN i * size ELSE Len(names)
           batch(i) == {names[n] : n \in ((i - 1) * size + 1)..last(i)}
<1>1. names \in Seq(Path) /\ size \in Nat \ {0}
  BY PathAssumption DEF Spec0
<1>2. Len(names) \in Nat /\ \A n \in 1..Len(names) : names[n] \in Path
  BY <1>1, ElementOfSeq, LenProperties
<1>3. count \in Nat
  <2> HIDE DEF names, size
  <2> QED BY <1>1, <1>2 DEF BatchCount
<1>4. \A i \in 1..count : batch(i) \in SUBSET Path
  <2> SUFFICES ASSUME NEW i \in 1..count, NEW n \in ((i - 1) * size + 1)..last(i)
               PROVE  names[n] \in Path
    OBVIOUS
  <2>1. (i - 1) * size \in Nat /\ i * size \in Nat
    BY <1>1, <1>3
  <2>2. n \in 1..Len(names)
    <3> HIDE DEF names, size
    <3> QED BY <1>2, <2>1
  <2> QED BY <1>2, <2>2
<1>5. Batches(spec) = [i \in 1..count |-> [path |-> NoPath, depth |-> 0, names |-> batch(i)]]
  BY DEF Batches
<1> HIDE DEF count, batch
<1>6. Batches(spec) \in [1..count -> Step]
  BY <1>4, <1>5 DEF Step
<1> QED BY <1>3, <1>6, SeqDef

LEMMA NewJobType ==
  ASSUME NEW spec \in Spec0, spec.kind = "discovery" => spec.root \in Path
  PROVE  NewJob(spec) \in Job
<1> DEFINE frontier == IF spec.kind = "discovery" THEN Branches(<<spec.root>>, 0) ELSE Batches(spec)
<1>1. frontier \in Seq(Step)
  <2>1. CASE spec.kind = "discovery"
    <3>1. <<spec.root>> \in Seq(Path) BY <2>1
    <3>2. Branches(<<spec.root>>, 0) \in Seq(Step) BY <3>1, BranchesType
    <3> QED BY <2>1, <3>2
  <2>2. CASE spec.kind # "discovery"
    BY <2>2, BatchesType
  <2> QED BY <2>1, <2>2
<1>2. NewJob(spec) = [NoJob EXCEPT !.state = "running", !.spec = spec, !.frontier = frontier]
  BY DEF NewJob
<1> HIDE DEF frontier
<1> QED BY <1>1, <1>2, BlankTypes DEF Job

LEMMA AdministerType ==
  ASSUME db \in Tables, NEW now \in Nat, Administer(now)
  PROVE  db' \in Tables
<1>1. Expire(db, now) \in Tables BY ExpireType
<1>2. NextId \subseteq OpId BY DEF NextId
<1>3. ASSUME NEW key \in Key, NEW ask \in Asks, RepeatCreate(key, ask, now) PROVE db' \in Tables
  BY <1>1, <1>3 DEF RepeatCreate
<1>4. ASSUME NEW key \in Key, NEW ask \in Asks, NEW id \in NextId, CreateQuery(key, ask, id, now)
      PROVE  db' \in Tables
  BY <1>1, <1>2, <1>4, InputTypes, EnqueueType DEF CreateQuery
<1>9. ASSUME NEW key \in Key, NEW ask \in Asks, NEW id \in NextId, CreateTelemetry(key, ask, id, now)
      PROVE  db' \in Tables
  <2>1. PICK names : /\ names \subseteq Path
                     /\ db' = Enqueue(Expire(db, now), id, key,
                                      [ask EXCEPT !.names = Selected(ask.path, names)], now)
    <3>1. \A o \in OpId : DOMAIN Expire(db, now).ops[o].result \in SUBSET Path
      BY <1>1, RowTypes, ContentDomain DEF Operation
    <3>2. \A evidence \in Evidence(Expire(db, now), now) :
            Available(Expire(db, now), evidence) \subseteq Path
      BY <3>1 DEF Available, Evidence, Newest, Recent
    <3> QED BY <1>9, <3>2 DEF CreateTelemetry
  <2>2. [ask EXCEPT !.names = Selected(ask.path, names)] \in Ask
    BY <2>1, InputTypes DEF Ask, Selected
  <2> QED BY <1>1, <1>2, <2>1, <2>2, EnqueueType
<1>5. ASSUME NEW o \in OpId, GetQuery(o, now) PROVE db' \in Tables
  BY <1>1, <1>5 DEF GetQuery
<1>6. ASSUME NEW j \in JobId, NEW spec \in Specs, RepeatCollection(j, spec, now) PROVE db' \in Tables
  BY <1>1, <1>6 DEF RepeatCollection
<1>7. ASSUME NEW j \in JobId, NEW spec \in Specs, NEW id \in NextId, CreateCollection(j, spec, id, now)
      PROVE  db' \in Tables
  <2>1. NewJob(spec) \in Job
    BY <1>7, NewJobType, InputTypes, PathAssumption DEF CreateCollection, Admissible
  <2>2. [Expire(db, now) EXCEPT !.jobs[j] = NewJob(spec)] \in Tables
    BY <1>1, <2>1, PutJob
  <2> QED BY <1>2, <1>7, <2>2, AdvanceType DEF CreateCollection
<1>8. ASSUME NEW j \in JobId, NEW id \in NextId, GetCollection(j, id, now) PROVE db' \in Tables
  BY <1>1, <1>2, <1>8, AdvanceType DEF GetCollection
<1> QED BY <1>3, <1>4, <1>5, <1>6, <1>7, <1>8, <1>9 DEF Administer

LEMMA InitType == Init => TypeOK
<1> SUFFICES ASSUME Init PROVE TypeOK
  OBVIOUS
<1>1. [a \in Attribute |-> NoValue] \in Target BY DEF Target
<1>2. [o \in OpId |-> NoOperation] \in [OpId -> Operation] BY BlankTypes
<1>3. [j \in JobId |-> NoJob] \in [JobId -> Job] BY BlankTypes
<1>4. [s \in SessionId |-> [state |-> "absent", expires |-> 0]] \in [SessionId -> Session]
  BY DEF Session
<1>5. NoApproval \in Approval BY DEF NoApproval, Approval
<1>6. [f \in Field |-> NoTelemetry] \in [Field -> TelemetryField]
  BY DEF NoTelemetry, TelemetryField
<1> QED BY <1>1, <1>2, <1>3, <1>4, <1>5, <1>6 DEF Init, TypeOK, Tables

LEMMA NextType == TypeOK /\ [Next]_vars => TypeOK'
<1> SUFFICES ASSUME TypeOK, [Next]_vars PROVE TypeOK'
  OBVIOUS
<1>1. CASE UNCHANGED vars BY <1>1 DEF TypeOK, vars, Tables
<1>2. CASE Tick BY <1>2 DEF TypeOK, Tick
<1>3. ASSUME NEW now \in Times, Receive(now) PROVE TypeOK'
  <2>1. now \in Nat BY DEF Times, TypeOK
  <2>2. NextId \subseteq OpId BY DEF NextId
  <2>3. ASSUME NEW s \in SessionId, NEW inform \in Informs, Inform(s, inform, now) PROVE TypeOK'
    BY <2>1, <2>3, InformType DEF TypeOK, Inform
  <2>4. ASSUME NEW s \in SessionId, NEW id \in NextId, Poll(s, id, now) PROVE TypeOK'
    BY <2>1, <2>2, <2>4, PollType DEF TypeOK, Poll
  <2>5. ASSUME NEW s \in SessionId, NEW id \in NextId, Reply(s, id, now) PROVE TypeOK'
    BY <2>1, <2>2, <2>5, ReplyType DEF TypeOK, Reply
  <2> QED BY <1>3, <2>3, <2>4, <2>5 DEF Receive
<1>4. ASSUME NEW now \in Times, Administer(now) PROVE TypeOK'
  <2>1. now \in Nat BY DEF Times, TypeOK
  <2>2. db' \in Tables BY <1>4, <2>1, AdministerType DEF TypeOK
  <2>3. UNCHANGED clock
    BY <1>4 DEF Administer, RepeatCreate, CreateQuery, CreateTelemetry, GetQuery, RepeatCollection, CreateCollection,
                GetCollection
  <2> QED BY <2>2, <2>3 DEF TypeOK
<1> QED BY <1>1, <1>2, <1>3, <1>4 DEF Next

\* The rows a transaction commits always have the declared columns: no handler leaves a
\* counter below zero, a reference to no row, or a state outside the check constraints.
THEOREM TypeCorrect == Spec => []TypeOK
<1> QED BY InitType, NextType, PTL DEF Spec

----------------------------------------------------------------------------
(* Steps on the slot, by what they do to operations and sessions.          *)

\* The slot depends on operations and sessions only.
LEMMA SlotSame ==
  ASSUME NEW d, NEW e, Slot(d), e.ops = d.ops, e.sessions = d.sessions
  PROVE  Slot(e) /\ Active(e) = Active(d)
BY DEF Slot, Single, Unsent, Unshared, Opened, Carried, Carrying, Active

\* Closing the session of an operation that ends, or of a pending one that is refused.
LEMMA SlotClose ==
  ASSUME NEW d \in Tables, NEW e, Slot(d), NEW s \in SessionId, NEW o \in OpId,
         d.ops[o].state \in Waiting,
         \/ d.ops[o].session = s
         \/ d.ops[o].state = "pending" /\ d.sessions[s].state # "awaiting_response",
         \A p \in OpId : p # o => e.ops[p] = d.ops[p],
         e.ops[o].session = d.ops[o].session, e.ops[o].state \in Terminal,
         \A t \in SessionId : t # s => e.sessions[t] = d.sessions[t],
         e.sessions[s].state = "completed"
  PROVE  Slot(e) /\ Active(e) = {}
<1>0. NoSession \notin SessionId BY IdAssumption
<1>1. Active(d) = {o}
  BY DEF Slot, Single, Active
<1>2. Active(e) = {}
  BY <1>1 DEF Active, Terminal, Waiting, Answered
<1>3. Single(e) /\ Carried(e)
  BY <1>2 DEF Single, Carried, Active, Waiting
<1>4. Unsent(e) /\ Unshared(e)
  BY DEF Slot, Unsent, Unshared, Terminal, Answered
<1>5. \A p \in OpId : e.ops[p].session = d.ops[p].session
  OBVIOUS
<1>6. \A t \in SessionId : e.sessions[t].state = "completed" \/ e.sessions[t].state = d.sessions[t].state
  OBVIOUS
<1>7. \A t \in SessionId : t # s => d.sessions[t].state # "awaiting_response"
  <2> SUFFICES ASSUME NEW t \in SessionId, t # s, d.sessions[t].state = "awaiting_response" PROVE FALSE
    OBVIOUS
  <2>1. PICK p \in OpId : d.ops[p].state = "dispatched" /\ d.ops[p].session = t
    BY DEF Slot, Carrying
  <2>2. p = o BY <1>1, <2>1 DEF Active, Waiting
  <2> QED BY <2>1, <2>2
<1>8. Carrying(e)
  BY <1>7 DEF Carrying
<1>9. Opened(e)
  <2>1. \A p \in OpId : d.ops[p].session \in SessionId \cup {NoSession}
    BY RowTypes DEF Operation
  <2> QED BY <1>5, <1>6, <2>1 DEF Slot, Opened
<1> QED BY <1>2, <1>3, <1>4, <1>8, <1>9 DEF Slot

\* Closing a session that carries no RPC.
LEMMA SlotFinish ==
  ASSUME NEW d \in Tables, Slot(d), NEW s \in SessionId,
         \A o \in OpId : d.ops[o].state = "dispatched" => d.ops[o].session # s
  PROVE  Slot(Finish(d, s)) /\ Finish(d, s).ops = d.ops /\ Finish(d, s).jobs = d.jobs
<1> DEFINE e == Finish(d, s)
<1> SUFFICES Slot(e) /\ e.ops = d.ops /\ e.jobs = d.jobs
  OBVIOUS
<1>1. /\ e.ops = d.ops /\ e.jobs = d.jobs
      /\ \A t \in SessionId : t # s => e.sessions[t] = d.sessions[t]
      /\ e.sessions[s].state = "completed"
  BY DEF Finish, Tables, Session
<1>2. \A o \in OpId : d.ops[o].session \in SessionId \cup {NoSession}
  BY RowTypes DEF Operation
<1> HIDE DEF e
<1>3. Single(e) /\ Unsent(e) /\ Unshared(e)
  BY <1>1 DEF Slot, Single, Unsent, Unshared, Active
<1>4. Opened(e)
  BY <1>1, <1>2 DEF Slot, Opened
<1>5. Carried(e) /\ Carrying(e)
  BY <1>1, <1>2 DEF Slot, Carried, Carrying
<1> QED BY <1>1, <1>3, <1>4, <1>5 DEF Slot

\* A new row in a free slot.
LEMMA SlotEnqueue ==
  ASSUME NEW d \in Tables, Slot(d), Active(d) = {}, NEW id \in OpId, d.ops[id].state = "absent",
         NEW key, NEW ask, NEW now
  PROVE  LET e == Enqueue(d, id, key, ask, now)
         IN Slot(e) /\ Active(e) = {id} /\ e.jobs = d.jobs /\ e.ops[id].state = "pending"
<1> DEFINE e == Enqueue(d, id, key, ask, now)
<1> SUFFICES Slot(e) /\ Active(e) = {id} /\ e.jobs = d.jobs /\ e.ops[id].state = "pending"
  OBVIOUS
<1>1. /\ e.sessions = d.sessions /\ e.jobs = d.jobs
      /\ \A o \in OpId : o # id => e.ops[o] = d.ops[o]
      /\ e.ops[id].state = "pending" /\ e.ops[id].session = NoSession
  BY DEF Enqueue, Tables, NoOperation
<1>2. d.ops[id].session = NoSession
  BY DEF Slot, Unsent
<1> HIDE DEF e
<1>3. Active(e) = {id}
  BY <1>1 DEF Active, Waiting
<1>4. \A o \in OpId : e.ops[o].session = d.ops[o].session
  BY <1>1, <1>2
<1>5. Single(e) /\ Unsent(e) /\ Unshared(e) /\ Opened(e)
  BY <1>1, <1>3, <1>4 DEF Single, Slot, Unsent, Unshared, Opened
<1>6. \A o \in OpId : d.ops[o].state # "dispatched" /\ e.ops[o].state # "dispatched"
  BY <1>1 DEF Active, Waiting
<1>7. Carried(e) /\ Carrying(e)
  BY <1>1, <1>6 DEF Carried, Carrying, Slot
<1> QED BY <1>1, <1>3, <1>5, <1>7 DEF Slot

\* Overdue operations take their sessions with them.
LEMMA SlotExpire ==
  ASSUME NEW d \in Tables, Slot(d), NEW now \in Nat
  PROVE  LET e == Expire(d, now)
         IN /\ Slot(e) /\ Active(e) \subseteq Active(d) /\ e.jobs = d.jobs
            /\ \A o \in OpId : e.ops[o].state \in {d.ops[o].state, "expired"}
            /\ \A o \in OpId : d.ops[o].state = "absent" => e.ops[o].state = "absent"
<1> DEFINE e == Expire(d, now)
           due == {o \in Active(d) : d.ops[o].expires <= now}
<1> SUFFICES /\ Slot(e) /\ Active(e) \subseteq Active(d) /\ e.jobs = d.jobs
             /\ \A o \in OpId : e.ops[o].state \in {d.ops[o].state, "expired"}
             /\ \A o \in OpId : d.ops[o].state = "absent" => e.ops[o].state = "absent"
  OBVIOUS
<1>1. /\ e.jobs = d.jobs
      /\ \A o \in OpId : o \notin due => e.ops[o] = d.ops[o]
      /\ \A o \in due : e.ops[o].state = "expired" /\ e.ops[o].session = d.ops[o].session
      /\ \A s \in SessionId : ~ (\E o \in due : d.ops[o].session = s) => e.sessions[s] = d.sessions[s]
      /\ \A s \in SessionId : (\E o \in due : d.ops[o].session = s) => e.sessions[s].state = "completed"
  <2>1. \A o \in OpId : d.ops[o] \in Operation BY RowTypes
  <2>2. \A s \in SessionId : d.sessions[s] \in Session BY RowTypes
  <2>3. due \subseteq OpId BY DEF Active
  <2>4. /\ e.jobs = d.jobs
        /\ \A o \in OpId : o \notin due => e.ops[o] = d.ops[o]
        /\ \A s \in SessionId : ~ (\E o \in due : d.ops[o].session = s) => e.sessions[s] = d.sessions[s]
    BY DEF Expire, Due, Tables
  <2>5. \A o \in due : e.ops[o].state = "expired" /\ e.ops[o].session = d.ops[o].session
    BY <2>1, <2>3 DEF Expire, Due, Tables, Operation
  <2>6. \A s \in SessionId : (\E o \in due : d.ops[o].session = s) => e.sessions[s].state = "completed"
    BY <2>2 DEF Expire, Due, Tables, Session
  <2> QED BY <2>4, <2>5, <2>6
<1>2. due \subseteq Active(d) OBVIOUS
<1>3. \A o \in OpId : d.ops[o].session \in SessionId \cup {NoSession}
  BY RowTypes DEF Operation
<1>4. \A o \in OpId : e.ops[o].session = d.ops[o].session
  BY <1>1
<1> HIDE DEF e, due
<1>5. Active(e) \subseteq Active(d)
  BY <1>1, <1>2 DEF Active, Waiting
<1>6. Single(e) /\ Unsent(e) /\ Unshared(e)
  BY <1>1, <1>4, <1>5 DEF Slot, Single, Unsent, Unshared
<1>7. Opened(e)
  BY <1>1, <1>3, <1>4 DEF Slot, Opened
<1>8. ASSUME NEW o \in OpId, e.ops[o].state = "dispatched"
      PROVE  /\ o \notin due /\ e.ops[o] = d.ops[o]
             /\ e.sessions[e.ops[o].session] = d.sessions[d.ops[o].session]
  <2>1. o \notin due /\ e.ops[o] = d.ops[o] BY <1>1, <1>8
  <2>2. d.ops[o].session \in SessionId BY <1>8, <2>1 DEF Slot, Carried
  <2>3. \A p \in due : p \in OpId /\ d.ops[p].session # d.ops[o].session
    BY <1>2, <2>1, <2>2, IdAssumption DEF Slot, Unshared, Active
  <2> QED BY <1>1, <2>1, <2>2, <2>3
<1>9. Carried(e)
  BY <1>8 DEF Slot, Carried
<1>10. Carrying(e)
  <2> SUFFICES ASSUME NEW s \in SessionId, e.sessions[s].state = "awaiting_response"
               PROVE  \E o \in OpId : e.ops[o].state = "dispatched" /\ e.ops[o].session = s
    BY DEF Carrying
  <2>1. e.sessions[s] = d.sessions[s] /\ \A o \in due : d.ops[o].session # s
    BY <1>1
  <2>2. PICK o \in OpId : d.ops[o].state = "dispatched" /\ d.ops[o].session = s
    BY <2>1 DEF Slot, Carrying
  <2> QED BY <1>1, <2>1, <2>2
<1>11. \A o \in OpId : d.ops[o].state = "absent" => e.ops[o].state = "absent"
  BY <1>1, <1>2 DEF Active, Waiting
<1> QED BY <1>1, <1>5, <1>6, <1>7, <1>9, <1>10, <1>11 DEF Slot

----------------------------------------------------------------------------
(* The job engine on the slot.                                             *)

\* Tables whose operations and sessions agree with the slot, and whose running job owns it.
LEMMA OwnedSame ==
  ASSUME NEW d, NEW e, Owned(d), Active(e) \subseteq Active(d),
         \A j \in JobId : /\ e.jobs[j].state = d.jobs[j].state
                          /\ e.jobs[j].issued = d.jobs[j].issued
                          /\ e.jobs[j].current = d.jobs[j].current
  PROVE  Owned(e) /\ Running(e) = Running(d)
<1>1. Running(e) = Running(d)
  BY DEF Running
<1>2. Running(d) \subseteq JobId
  BY DEF Running
<1> QED BY <1>1, <1>2 DEF Owned

\* A job takes a free slot, or ends.
LEMMA SlotContinue ==
  ASSUME NEW d \in Tables, Slot(d), Active(d) = {}, NEW j \in JobId, Running(d) = {j},
         NEW id \in OpId, d.ops[id].state = "absent", NEW now \in Nat
  PROVE  LET e == Continue(d, j, id, now)
         IN Slot(e) /\ Owned(e) /\ Active(e) \subseteq {id} /\ e.ops[id].state \in {"absent", "pending"}
<1> DEFINE e == Continue(d, j, id, now)
           job == d.jobs[j]
           step == Head(job.frontier)
           names == First(step.names, job.spec.max_entries - job.entries)
           ask == [kind |-> IF job.spec.kind = "discovery" THEN "names" ELSE "values",
                   path |-> step.path, names |-> names]
           next == [job EXCEPT !.frontier = Tail(@), !.current = id, !.depth = step.depth,
                               !.rpcs = @ + 1, !.issued = Append(@, id),
                               !.limits = @ \cup {l \in {"max_entries"} : names # step.names}]
           stopped == [job EXCEPT !.limits = @ \cup Exhausted(job)]
           queued == Enqueue(d, id, NoKey, ask, now)
<1> SUFFICES Slot(e) /\ Owned(e) /\ Active(e) \subseteq {id} /\ e.ops[id].state \in {"absent", "pending"}
  OBVIOUS
<1>1. job \in Job BY RowTypes
<1>2. \/ e = [d EXCEPT !.jobs[j] = Ended(stopped)]
      \/ e = [d EXCEPT !.jobs[j] = Ended(Refused(job))]
      \/ e = [queued EXCEPT !.jobs[j] = next]
  BY DEF Continue
<1>3. \A row \in Job : Ended(row).state # "running"
  BY DEF Ended, Job
<1>4. Refused(job) \in Job /\ stopped \in Job
  <2>1. Exhausted(job) \in SUBSET Limit BY <1>1, ExhaustedType
  <2>2. job.limits \cup Exhausted(job) \in SUBSET Limit BY <1>1, <2>1 DEF Job
  <2> QED BY <1>1, <2>2, RefusedType DEF Job
<1>5. next.current = id /\ next.issued = Append(job.issued, id)
  BY <1>1 DEF Job
<1>6. \A row : LET f == [d EXCEPT !.jobs[j] = row]
               IN f.ops = d.ops /\ f.sessions = d.sessions /\ f.jobs[j] = row
                  /\ \A i \in JobId : i # j => f.jobs[i] = d.jobs[i]
  BY DEF Tables
<1> HIDE DEF e, next, stopped, job, queued
<1>7. ASSUME NEW row \in Job, e = [d EXCEPT !.jobs[j] = Ended(row)]
      PROVE  Slot(e) /\ Owned(e) /\ Active(e) \subseteq {id} /\ e.ops[id].state \in {"absent", "pending"}
  <2>1. e.ops = d.ops /\ e.sessions = d.sessions /\ e.jobs[j].state # "running"
    BY <1>3, <1>6, <1>7
  <2>2. Slot(e) /\ Active(e) = {} BY <2>1, SlotSame
  <2>3. Running(e) = {} BY <1>6, <1>7, <2>1 DEF Running
  <2> QED BY <2>1, <2>2, <2>3 DEF Owned
<1>8. ASSUME e = [queued EXCEPT !.jobs[j] = next]
      PROVE  Slot(e) /\ Owned(e) /\ Active(e) \subseteq {id} /\ e.ops[id].state \in {"absent", "pending"}
  <2>1. /\ Slot(queued) /\ Active(queued) = {id} /\ queued.jobs = d.jobs
        /\ queued.ops[id].state = "pending"
    BY SlotEnqueue DEF queued
  <2>2. /\ e.ops = queued.ops /\ e.sessions = queued.sessions /\ e.jobs[j] = next
        /\ \A i \in JobId : i # j => e.jobs[i] = d.jobs[i]
    BY <1>8, <2>1 DEF queued, Enqueue, Tables
  <2>3. Slot(e) /\ Active(e) = {id} BY <2>1, <2>2, SlotSame
  <2>4. Running(e) \subseteq {j} BY <2>2 DEF Running
  <2>5. job.issued \in Seq(OpId) BY <1>1 DEF Job
  <2>6. next.issued # <<>> /\ next.current = next.issued[Len(next.issued)]
    BY <1>5, <2>5, AppendProperties
  <2>7. Owned(e) BY <2>2, <2>3, <2>4, <2>6, <1>5 DEF Owned
  <2> QED BY <2>1, <2>2, <2>3, <2>7
<1> QED BY <1>2, <1>4, <1>7, <1>8

\* Accounting for an operation that has ended leaves the slot free and the job running.
LEMMA SlotAbsorb ==
  ASSUME NEW d \in Tables, NEW j \in JobId, d.jobs[j].current \in OpId
  PROVE  LET e == Absorb(d, j)
         IN e.ops = d.ops /\ e.sessions = d.sessions /\ Running(e) = Running(d)
<1> DEFINE e == Absorb(d, j)
           job == d.jobs[j]
<1> SUFFICES e.ops = d.ops /\ e.sessions = d.sessions /\ Running(e) = Running(d)
  OBVIOUS
<1>1. job \in Job BY RowTypes
<1>2. /\ e.ops = d.ops /\ e.sessions = d.sessions
      /\ e.jobs[j].state = job.state
      /\ \A i \in JobId : i # j => e.jobs[i] = d.jobs[i]
  BY <1>1 DEF Absorb, Tables, Job, Discovered
<1> HIDE DEF e
<1> QED BY <1>2 DEF Running

LEMMA SlotAdvance ==
  ASSUME NEW d \in Tables, Slot(d), NEW j \in JobId, NEW id \in OpId, d.ops[id].state = "absent",
         NEW now \in Nat,
         Owned(d) \/ (Active(d) = {} /\ Running(d) = {j} /\ d.jobs[j].current = NoOp)
  PROVE  LET e == Advance(d, j, id, now)
         IN Slot(e) /\ Owned(e) /\ e.ops[id].state \in {"absent", "pending"}
<1> DEFINE e == Advance(d, j, id, now)
           mid == IF d.jobs[j].current = NoOp THEN d ELSE Absorb(d, j)
<1> SUFFICES Slot(e) /\ Owned(e) /\ e.ops[id].state \in {"absent", "pending"}
  OBVIOUS
<1>1. CASE d.jobs[j].state # "running" \/ d.jobs[j].current \in Active(d)
  <2>1. NoOp \notin Active(d) BY IdAssumption DEF Active
  <2>2. e = d BY <1>1 DEF Advance
  <2>3. Owned(d) BY <1>1, <2>1 DEF Running
  <2> HIDE DEF e
  <2> QED BY <2>2, <2>3
<1>2. CASE ~ (d.jobs[j].state # "running" \/ d.jobs[j].current \in Active(d))
  <2>1. j \in Running(d) BY <1>2 DEF Running
  <2>2. Active(d) = {} /\ Running(d) = {j}
    BY <1>2, <2>1 DEF Owned
  <2>3. d.jobs[j].current \in OpId \cup {NoOp}
    BY RowTypes DEF Job
  <2>4. mid \in Tables /\ mid.ops = d.ops /\ mid.sessions = d.sessions /\ Running(mid) = Running(d)
    BY <2>3, AbsorbType, SlotAbsorb
  <2>5. Slot(mid) /\ Active(mid) = {}
    BY <2>2, <2>4, SlotSame
  <2>6. e = Continue(mid, j, id, now)
    BY <1>2 DEF Advance
  <2> HIDE DEF e, mid
  <2> QED BY <2>2, <2>4, <2>5, <2>6, SlotContinue
<1> QED BY <1>1, <1>2

LEMMA SlotAdvanceActive ==
  ASSUME NEW d \in Tables, Slot(d), Owned(d), NEW id \in OpId, d.ops[id].state = "absent",
         NEW now \in Nat
  PROVE  LET e == AdvanceActive(d, id, now)
         IN Slot(e) /\ Owned(e) /\ e.ops[id].state \in {"absent", "pending"}
<1>1. Running(d) # {} => (CHOOSE j \in Running(d) : TRUE) \in JobId
  BY DEF Running
<1> QED BY <1>1, SlotAdvance DEF AdvanceActive

----------------------------------------------------------------------------
(* Transactions.                                                           *)

LEMMA SlotSettled ==
  ASSUME db \in Tables, SlotInvariant, NEW id \in NextId, NEW now \in Nat
  PROVE  LET d == Settled(id, now)
         IN d \in Tables /\ Slot(d) /\ Owned(d) /\ d.ops[id].state \in {"absent", "pending"}
<1> DEFINE e == Expire(db, now)
<1>1. id \in OpId /\ db.ops[id].state = "absent" BY DEF NextId
<1>2. /\ e \in Tables /\ Slot(e) /\ Active(e) \subseteq Active(db) /\ e.jobs = db.jobs
      /\ e.ops[id].state = "absent"
  BY <1>1, ExpireType, SlotExpire DEF SlotInvariant
<1> HIDE DEF e
<1>3. Owned(e) BY <1>2, OwnedSame DEF SlotInvariant
<1>4. Settled(id, now) = AdvanceActive(e, id, now) BY DEF Settled, e
<1> QED BY <1>1, <1>2, <1>3, <1>4, SlotAdvanceActive, AdvanceActiveType

\* Refusing an operation whose profile no longer applies closes its session too.
LEMMA SlotRefuse ==
  ASSUME NEW d \in Tables, Slot(d), Owned(d), NEW s \in SessionId, NEW o \in OpId,
         d.ops[o].state \in Waiting, NEW reason \in Reasons, NEW now \in Nat,
         \/ d.ops[o].session = s
         \/ d.ops[o].state = "pending" /\ d.sessions[s].state # "awaiting_response"
  PROVE  LET e == Finish(Fail(d, o, reason, now), s) IN Slot(e) /\ Owned(e)
<1> DEFINE e == Finish(Fail(d, o, reason, now), s)
<1> SUFFICES Slot(e) /\ Owned(e)
  OBVIOUS
<1>1. d.ops[o] \in Operation /\ d.sessions[s] \in Session BY RowTypes
<1>2. /\ e.jobs = d.jobs
      /\ \A p \in OpId : p # o => e.ops[p] = d.ops[p]
      /\ e.ops[o].session = d.ops[o].session /\ e.ops[o].state = "failed"
      /\ \A t \in SessionId : t # s => e.sessions[t] = d.sessions[t]
      /\ e.sessions[s].state = "completed"
  BY <1>1 DEF Finish, Fail, Tables, Operation, Session
<1>3. "failed" \in Terminal BY DEF Terminal, Answered
<1> HIDE DEF e
<1>4. Slot(e) /\ Active(e) = {}
  BY <1>2, <1>3, SlotClose
<1> QED BY <1>2, <1>4, OwnedSame

LEMMA SlotPoll ==
  ASSUME TypeOK, SlotInvariant, NEW s \in SessionId, NEW id \in NextId, NEW now \in Nat,
         Poll(s, id, now)
  PROVE  SlotInvariant'
<1> DEFINE d == Settled(id, now)
<1>1. d \in Tables /\ Slot(d) /\ Owned(d)
  BY SlotSettled DEF TypeOK
<1>2. \A o \in OpId : d.ops[o].session \in SessionId \cup {NoSession}
  BY <1>1, RowTypes DEF Operation
<1> HIDE DEF d
<1>3. CASE PollCompleted(s, id, now)
  BY <1>1, <1>3 DEF PollCompleted, d, SlotInvariant
<1>4. CASE PollResend(s, id, now)
  BY <1>1, <1>4 DEF PollResend, d, SlotInvariant
<1>5. CASE PollProfileChanged(s, id, now)
  <2>1. PICK o \in OpId :
          /\ d.sessions[s].state \in {"awaiting_empty", "awaiting_response"}
          /\ IF d.sessions[s].state = "awaiting_response" THEN d.ops[o].session = s
                                                         ELSE d.ops[o].state = "pending"
          /\ db' = Finish(Fail(d, o, "profile_changed", now), s)
    BY <1>5 DEF PollProfileChanged, d
  <2>2. d.ops[o].state \in Waiting
    <3>1. CASE d.sessions[s].state = "awaiting_response"
      <4>1. PICK p \in OpId : d.ops[p].state = "dispatched" /\ d.ops[p].session = s
        BY <1>1, <3>1 DEF Slot, Carrying
      <4>2. p = o BY <1>1, <2>1, <3>1, <4>1, IdAssumption DEF Slot, Unshared
      <4> QED BY <4>1, <4>2 DEF Waiting
    <3>2. CASE d.sessions[s].state # "awaiting_response"
      BY <2>1, <3>2 DEF Waiting
    <3> QED BY <3>1, <3>2
  <2>3. "profile_changed" \in Reasons BY DEF Reasons
  <2> QED BY <1>1, <2>1, <2>2, <2>3, SlotRefuse DEF SlotInvariant
<1>6. CASE PollDispatch(s, id, now)
  <2>0. PICK o \in OpId : \E deadline :
          /\ d.sessions[s].state = "awaiting_empty" /\ d.ops[o].state = "pending"
          /\ db' = [d EXCEPT
               !.ops[o] = [@ EXCEPT !.state = "dispatched", !.expires = deadline,
                                    !.session = s, !.sent = clock],
               !.sessions[s] = [state |-> "awaiting_response", expires |-> deadline]]
    BY <1>6, Zenon DEF PollDispatch, d
  <2>1. PICK deadline :
          /\ d.sessions[s].state = "awaiting_empty" /\ d.ops[o].state = "pending"
          /\ db' = [d EXCEPT
               !.ops[o] = [@ EXCEPT !.state = "dispatched", !.expires = deadline,
                                    !.session = s, !.sent = clock],
               !.sessions[s] = [state |-> "awaiting_response", expires |-> deadline]]
    BY <2>0
  <2>2. d.ops[o] \in Operation BY <1>1, RowTypes
  <2>3. /\ db'.jobs = d.jobs
        /\ \A p \in OpId : p # o => db'.ops[p] = d.ops[p]
        /\ db'.ops[o].session = s /\ db'.ops[o].state = "dispatched" /\ db'.ops[o].expires = deadline
        /\ \A t \in SessionId : t # s => db'.sessions[t] = d.sessions[t]
        /\ db'.sessions[s].state = "awaiting_response" /\ db'.sessions[s].expires = deadline
    BY <1>1, <2>1, <2>2 DEF Tables, Operation
  <2>4. Active(d) = {o} BY <1>1, <2>1 DEF Slot, Single, Active, Waiting
  <2>5. Active(db') = {o} BY <2>3, <2>4 DEF Active, Waiting
  <2>6. \A p \in OpId : d.ops[p].session # s
    BY <1>1, <2>1, IdAssumption DEF Slot, Opened
  <2>7. Single(db') /\ Unsent(db') BY <1>1, <2>3, <2>5 DEF Slot, Single, Unsent
  <2>8. Unshared(db') BY <1>1, <2>3, <2>6 DEF Slot, Unshared
  <2>9. Opened(db') BY <1>1, <1>2, <2>3, <2>6 DEF Slot, Opened
  <2>10. \A p \in OpId : db'.ops[p].state = "dispatched" => p = o
    BY <2>5 DEF Active, Waiting
  <2>11. Carried(db') BY <2>3, <2>10 DEF Carried
  <2>12. \A t \in SessionId : d.sessions[t].state # "awaiting_response"
    BY <1>1, <2>1, <2>4 DEF Slot, Carrying, Active, Waiting
  <2>13. Carrying(db') BY <2>3, <2>12 DEF Carrying
  <2>14. Owned(db') BY <1>1, <2>3, <2>4, <2>5, OwnedSame
  <2> QED BY <2>7, <2>8, <2>9, <2>11, <2>13, <2>14 DEF SlotInvariant, Slot
<1>7. CASE PollIdle(s, id, now)
  <2>1. d.sessions[s].state = "awaiting_empty" /\ db' = Finish(d, s)
    BY <1>7 DEF PollIdle, d
  <2>2. \A o \in OpId : d.ops[o].session # s
    BY <1>1, <2>1, IdAssumption DEF Slot, Opened
  <2>3. Slot(db') /\ db'.ops = d.ops /\ db'.jobs = d.jobs
    BY <1>1, <2>1, <2>2, SlotFinish
  <2>4. Owned(db') BY <1>1, <2>3, OwnedSame DEF Active
  <2> QED BY <2>3, <2>4 DEF SlotInvariant
<1> QED BY <1>3, <1>4, <1>5, <1>6, <1>7 DEF Poll

\* The answer that ends an operation leaves the slot free for the next step of the job.
LEMMA SlotConclude ==
  ASSUME NEW d \in Tables, Slot(d), Owned(d), NEW s \in SessionId, NEW o \in OpId,
         NEW r \in Answer, NEW now \in Nat, d.ops[o].state = "dispatched", d.ops[o].session = s
  PROVE  LET e == Conclude(d, s, o, r, now)
         IN Slot(e) /\ Owned(e) /\ \A p \in OpId : p # o => e.ops[p] = d.ops[p]
<1> DEFINE e == Conclude(d, s, o, r, now)
           ask == d.ops[o].ask
           collected == Collect(d, o, r, now)
           noted == IF FeedsInventory(ask, r) THEN UpdateInventory(collected, r.content, now)
                                              ELSE collected
           measured == IF Measures(ask, r) THEN UpdateTelemetry(noted, o, r.content, now)
                                           ELSE noted
           ending == IF Reason(ask, r) = "none" THEN "succeeded" ELSE "failed"
<1> SUFFICES Slot(e) /\ Owned(e) /\ \A p \in OpId : p # o => e.ops[p] = d.ops[p]
  OBVIOUS
<1>1. collected \in Tables /\ noted \in Tables
  BY CollectType, UpdateInventoryType DEF Answer
<1>10. measured \in Tables
  <2> HIDE DEF noted
  <2> QED BY <1>1, UpdateTelemetryType DEF Answer
<1>2. /\ collected.ops = d.ops /\ collected.sessions = d.sessions
      /\ \A j \in JobId : /\ collected.jobs[j].state = d.jobs[j].state
                           /\ collected.jobs[j].issued = d.jobs[j].issued
                           /\ collected.jobs[j].current = d.jobs[j].current
  <2> DEFINE late(j) == [d.jobs[j] EXCEPT !.limits = @ \cup {"max_entries"}]
  <2>1. \A j \in JobId : collected.jobs[j] = d.jobs[j] \/ collected.jobs[j] = late(j)
    BY DEF Collect, Tables
  <2>2. \A j \in JobId : /\ late(j).state = d.jobs[j].state
                         /\ late(j).issued = d.jobs[j].issued
                         /\ late(j).current = d.jobs[j].current
    BY RowTypes DEF Job
  <2>3. collected.ops = d.ops /\ collected.sessions = d.sessions
    BY DEF Collect, Tables
  <2> HIDE DEF collected, late
  <2> QED BY <2>1, <2>2, <2>3
<1>3. noted.ops = collected.ops /\ noted.sessions = collected.sessions /\ noted.jobs = collected.jobs
  <2> HIDE DEF collected
  <2> QED BY <1>1 DEF UpdateInventory, Tables
<1>11. /\ measured.ops = noted.ops /\ measured.sessions = noted.sessions
       /\ measured.jobs = noted.jobs
  <2> HIDE DEF noted
  <2> QED BY <1>1 DEF UpdateTelemetry, Tables
<1>4. e = [measured EXCEPT
            !.ops[o] = [@ EXCEPT !.state = ending, !.reason = Reason(ask, r), !.finished = now,
                                 !.result = Result(ask, r)],
            !.sessions[s] = [@ EXCEPT !.state = "completed"]]
  BY DEF Conclude
<1>5. measured.ops[o] \in Operation /\ measured.sessions[s] \in Session BY <1>10, RowTypes
<1> HIDE DEF e, measured, noted, collected, ask
<1>6. /\ e.jobs = measured.jobs
      /\ \A p \in OpId : p # o => e.ops[p] = measured.ops[p]
      /\ e.ops[o].session = measured.ops[o].session /\ e.ops[o].state = ending
      /\ \A t \in SessionId : t # s => e.sessions[t] = measured.sessions[t]
      /\ e.sessions[s].state = "completed"
  <2> HIDE DEF ending
  <2> QED BY <1>10, <1>4, <1>5 DEF Tables, Operation, Session
<1>7. ending \in Terminal BY DEF Terminal, Answered
<1> HIDE DEF ending
<1>8. Slot(e) /\ Active(e) = {}
  BY <1>2, <1>3, <1>11, <1>6, <1>7, SlotClose DEF Waiting
<1>9. Owned(e)
  BY <1>2, <1>3, <1>11, <1>6, <1>8, OwnedSame
<1> QED BY <1>2, <1>3, <1>11, <1>6, <1>8, <1>9

LEMMA SlotReply ==
  ASSUME TypeOK, SlotInvariant, NEW s \in SessionId, NEW id \in NextId, NEW now \in Nat,
         Reply(s, id, now)
  PROVE  SlotInvariant'
<1> DEFINE d == Settled(id, now)
<1>0. id \in OpId BY DEF NextId
<1>1. d \in Tables /\ Slot(d) /\ Owned(d) /\ d.ops[id].state \in {"absent", "pending"}
  BY SlotSettled DEF TypeOK
<1> HIDE DEF d
<1>2. ASSUME NEW r \in Answers, ReplyApplied(s, id, r, now) PROVE SlotInvariant'
  <2>1. PICK o \in OpId : /\ d.ops[o].state = "dispatched" /\ d.ops[o].session = s
                          /\ db' = AdvanceActive(Conclude(d, s, o, r, now), id, now)
    BY <1>2 DEF ReplyApplied, Correlated, d
  <2> DEFINE e == Conclude(d, s, o, r, now)
  <2>2. r \in Answer BY InputTypes
  <2>3. e \in Tables BY <1>1, <2>2, ConcludeType
  <2>4. Slot(e) /\ Owned(e) /\ \A p \in OpId : p # o => e.ops[p] = d.ops[p]
    BY <1>1, <2>1, <2>2, SlotConclude
  <2>5. d.ops[id].state = "absent"
    BY <1>0, <1>1, <2>1 DEF Slot, Single, Active, Waiting
  <2>6. e.ops[id].state = "absent"
    BY <1>0, <2>1, <2>4, <2>5
  <2> HIDE DEF e
  <2>7. db' = AdvanceActive(e, id, now) BY <2>1 DEF e
  <2> QED BY <1>0, <2>3, <2>4, <2>6, <2>7, SlotAdvanceActive DEF SlotInvariant
<1>3. ASSUME NEW r \in Answers, ReplyRepeated(s, id, r, now) PROVE SlotInvariant'
  BY <1>1, <1>3 DEF ReplyRepeated, d, SlotInvariant
<1>4. CASE ReplyProfileChanged(s, id, now)
  <2>1. PICK o \in OpId : /\ d.ops[o].state = "dispatched" /\ d.ops[o].session = s
                          /\ db' = Finish(Fail(d, o, "profile_changed", now), s)
    BY <1>4 DEF ReplyProfileChanged, d
  <2>2. d.ops[o].state \in Waiting /\ "profile_changed" \in Reasons BY <2>1 DEF Waiting, Reasons
  <2> QED BY <1>1, <2>1, <2>2, SlotRefuse DEF SlotInvariant
<1>5. CASE ReplyLate(s, id, now)
  <2>1. PICK o \in OpId : d.ops[o].state = "expired" /\ d.ops[o].session = s /\ db' = Finish(d, s)
    BY <1>5 DEF ReplyLate, d
  <2>2. \A p \in OpId : d.ops[p].state = "dispatched" => d.ops[p].session # s
    BY <1>1, <2>1, IdAssumption DEF Slot, Unshared
  <2>3. Slot(db') /\ db'.ops = d.ops /\ db'.jobs = d.jobs
    BY <1>1, <2>1, <2>2, SlotFinish
  <2>4. Owned(db') BY <1>1, <2>3, OwnedSame DEF Active
  <2> QED BY <2>3, <2>4 DEF SlotInvariant
<1> QED BY <1>2, <1>3, <1>4, <1>5 DEF Reply

LEMMA SlotInform ==
  ASSUME TypeOK, SlotInvariant, NEW s \in SessionId, NEW inform \in Informs, NEW now \in Nat,
         Inform(s, inform, now)
  PROVE  SlotInvariant'
<1> DEFINE named == [db EXCEPT !.cpe[Manufacturer] = inform.manufacturer]
           updated == UpdateInventory(named, inform.report, now)
<1>1. named.ops = db.ops /\ named.sessions = db.sessions /\ named.jobs = db.jobs /\ named \in Tables
  BY InputTypes DEF TypeOK, Tables, Inform0, Target
<1>2. /\ updated.ops = named.ops /\ updated.sessions = named.sessions /\ updated.jobs = named.jobs
      /\ updated \in Tables
  <2>1. inform.report \in Content BY InputTypes DEF Inform0
  <2> HIDE DEF named
  <2>2. updated \in Tables BY <1>1, <2>1, UpdateInventoryType
  <2> QED BY <1>1, <2>2 DEF UpdateInventory, Tables
<1>3. db.sessions[s].state = "absent"
  BY DEF Inform
<1>4. db' = [updated EXCEPT
              !.sessions[s] = [state |-> "awaiting_empty", expires |-> now + SessionSeconds]]
  BY DEF Inform
<1> HIDE DEF named, updated
<1>5. /\ db'.ops = db.ops /\ db'.jobs = db.jobs
      /\ \A t \in SessionId : t # s => db'.sessions[t] = db.sessions[t]
      /\ db'.sessions[s].state = "awaiting_empty"
  BY <1>1, <1>2, <1>4 DEF Tables
<1>6. \A o \in OpId : db.ops[o].session \in (SessionId \ {s}) \cup {NoSession}
  BY <1>3, RowTypes, IdAssumption DEF TypeOK, SlotInvariant, Slot, Opened, Operation
<1>7. Single(db') /\ Unsent(db') /\ Unshared(db')
  BY <1>5 DEF SlotInvariant, Slot, Single, Unsent, Unshared, Active
<1>8. Opened(db')
  BY <1>5, <1>6 DEF SlotInvariant, Slot, Opened
<1>9. Carried(db') /\ Carrying(db')
  <2>1. ASSUME NEW o \in OpId, db'.ops[o].state = "dispatched"
        PROVE  db.ops[o].session \in SessionId /\ db'.sessions[db.ops[o].session] = db.sessions[db.ops[o].session]
    <3>1. db.ops[o].session \in SessionId
      BY <1>5, <2>1 DEF SlotInvariant, Slot, Carried
    <3>2. db.ops[o].session # s
      BY <1>6, <3>1, IdAssumption
    <3> QED BY <1>5, <3>1, <3>2
  <2>2. Carried(db')
    BY <1>5, <2>1 DEF SlotInvariant, Slot, Carried
  <2>3. \A t \in SessionId : db'.sessions[t].state = "awaiting_response" =>
          db.sessions[t].state = "awaiting_response"
    BY <1>5
  <2>4. Carrying(db')
    BY <1>5, <2>3 DEF SlotInvariant, Slot, Carrying
  <2> QED BY <2>2, <2>4
<1>10. Owned(db')
  BY <1>5, OwnedSame DEF SlotInvariant, Active
<1> QED BY <1>7, <1>8, <1>9, <1>10 DEF SlotInvariant, Slot

\* Whatever else it answers, a handler may first expire what is overdue.
LEMMA SlotOverdue ==
  ASSUME TypeOK, SlotInvariant, NEW now \in Nat, db' = Expire(db, now)
  PROVE  SlotInvariant'
<1>1. LET e == Expire(db, now) IN Slot(e) /\ Active(e) \subseteq Active(db) /\ e.jobs = db.jobs
  BY SlotExpire DEF TypeOK, SlotInvariant
<1>2. Owned(Expire(db, now)) BY <1>1, OwnedSame DEF SlotInvariant
<1> QED BY <1>1, <1>2 DEF SlotInvariant

\* A new query takes a slot that nobody owns.
LEMMA SlotCreate ==
  ASSUME TypeOK, SlotInvariant, NEW now \in Nat, NEW key, NEW ask, NEW id \in NextId,
         Idle(Expire(db, now)), db' = Enqueue(Expire(db, now), id, key, ask, now)
  PROVE  SlotInvariant'
<1> DEFINE e == Expire(db, now)
<1>1. e \in Tables BY ExpireType DEF TypeOK
<1>2. Slot(e) /\ (\A o \in OpId : db.ops[o].state = "absent" => e.ops[o].state = "absent")
  BY SlotExpire DEF TypeOK, SlotInvariant
<1>3. id \in OpId /\ e.ops[id].state = "absent" BY <1>2 DEF NextId
<1>4. Active(e) = {} /\ Running(e) = {} /\ db' = Enqueue(e, id, key, ask, now)
  BY DEF Idle
<1> HIDE DEF e
<1>5. Slot(db') /\ db'.jobs = e.jobs
  BY <1>1, <1>2, <1>3, <1>4, SlotEnqueue
<1>6. Running(db') = {} BY <1>4, <1>5 DEF Running
<1> QED BY <1>5, <1>6 DEF SlotInvariant, Owned

LEMMA SlotAdminister ==
  ASSUME TypeOK, SlotInvariant, NEW now \in Nat, Administer(now)
  PROVE  SlotInvariant'
<1> DEFINE e == Expire(db, now)
<1>1. e \in Tables BY ExpireType DEF TypeOK
<1>2. /\ Slot(e) /\ Active(e) \subseteq Active(db) /\ e.jobs = db.jobs
      /\ \A o \in OpId : db.ops[o].state = "absent" => e.ops[o].state = "absent"
  BY SlotExpire DEF TypeOK, SlotInvariant
<1> HIDE DEF e
<1>3. Owned(e) BY <1>2, OwnedSame DEF SlotInvariant
<1>4. \A id \in NextId : id \in OpId /\ e.ops[id].state = "absent"
  BY <1>2 DEF NextId
<1>5. ASSUME NEW key \in Key, NEW ask \in Asks, RepeatCreate(key, ask, now) PROVE SlotInvariant'
  BY <1>2, <1>3, <1>5 DEF RepeatCreate, e, SlotInvariant
<1>6. ASSUME NEW key \in Key, NEW ask \in Asks, NEW id \in NextId, CreateQuery(key, ask, id, now)
      PROVE  SlotInvariant'
  BY <1>6, SlotCreate DEF CreateQuery
<1>11. ASSUME NEW key \in Key, NEW ask \in Asks, NEW id \in NextId, CreateTelemetry(key, ask, id, now)
       PROVE  SlotInvariant'
  <2>1. PICK read : Idle(e) /\ db' = Enqueue(e, id, key, read, now)
    BY <1>11, Zenon DEF CreateTelemetry, e
  <2> QED BY <2>1, SlotCreate DEF e
<1>7. ASSUME NEW o \in OpId, GetQuery(o, now) PROVE SlotInvariant'
  BY <1>2, <1>3, <1>7 DEF GetQuery, e, SlotInvariant
<1>8. ASSUME NEW j \in JobId, NEW spec \in Specs, RepeatCollection(j, spec, now) PROVE SlotInvariant'
  BY <1>2, <1>3, <1>8 DEF RepeatCollection, e, SlotInvariant
<1>9. ASSUME NEW j \in JobId, NEW spec \in Specs, NEW id \in NextId, CreateCollection(j, spec, id, now)
      PROVE  SlotInvariant'
  <2> DEFINE f == [e EXCEPT !.jobs[j] = NewJob(spec)]
  <2>1. Active(e) = {} /\ Running(e) = {} /\ db' = Advance(f, j, id, now)
    BY <1>9 DEF CreateCollection, Admissible, Idle, e
  <2>2. NewJob(spec) \in Job
    BY <1>9, NewJobType, InputTypes, PathAssumption DEF CreateCollection, Admissible
  <2>3. f \in Tables BY <1>1, <2>2, PutJob
  <2>4. /\ f.ops = e.ops /\ f.sessions = e.sessions /\ f.jobs[j] = NewJob(spec)
        /\ \A i \in JobId : i # j => f.jobs[i] = e.jobs[i]
    BY <1>1 DEF Tables
  <2>5. NewJob(spec).state = "running" /\ NewJob(spec).current = NoOp
    BY DEF NewJob, NoJob
  <2> HIDE DEF f
  <2>6. Slot(f) /\ Active(f) = {} BY <1>2, <2>1, <2>4, SlotSame
  <2>7. Running(f) = {j} BY <2>1, <2>4, <2>5 DEF Running
  <2>8. id \in OpId /\ f.ops[id].state = "absent" BY <1>4, <2>4
  <2> QED BY <2>1, <2>3, <2>4, <2>5, <2>6, <2>7, <2>8, SlotAdvance DEF SlotInvariant
<1>10. ASSUME NEW j \in JobId, NEW id \in NextId, GetCollection(j, id, now) PROVE SlotInvariant'
  <2>1. db' = Advance(e, j, id, now) BY <1>10 DEF GetCollection, e
  <2> QED BY <1>1, <1>2, <1>3, <1>4, <2>1, SlotAdvance DEF SlotInvariant
<1> QED BY <1>5, <1>6, <1>7, <1>8, <1>9, <1>10, <1>11 DEF Administer

LEMMA SlotInit == Init => SlotInvariant
<1> SUFFICES ASSUME Init PROVE SlotInvariant
  OBVIOUS
<1>1. /\ \A o \in OpId : db.ops[o].state = "absent" /\ db.ops[o].session = NoSession
      /\ \A s \in SessionId : db.sessions[s].state = "absent"
      /\ \A j \in JobId : db.jobs[j].state = "absent"
  BY DEF Init, NoOperation, NoJob
<1>2. Active(db) = {} /\ Running(db) = {} BY <1>1 DEF Active, Running, Waiting
<1>3. Slot(db)
  BY <1>1, <1>2 DEF Slot, Single, Unsent, Unshared, Opened, Carried, Carrying
<1> QED BY <1>2, <1>3 DEF SlotInvariant, Owned

LEMMA SlotNext == TypeOK /\ SlotInvariant /\ [Next]_vars => SlotInvariant'
<1> SUFFICES ASSUME TypeOK, SlotInvariant, [Next]_vars PROVE SlotInvariant'
  OBVIOUS
<1>1. CASE UNCHANGED db
  BY <1>1 DEF SlotInvariant, Slot, Single, Unsent, Unshared, Opened, Carried, Carrying, Owned, Active,
              Running
<1>2. CASE UNCHANGED vars BY <1>1, <1>2 DEF vars
<1>3. CASE Tick BY <1>1, <1>3 DEF Tick
<1>4. \A now \in Times : now \in Nat BY DEF Times, TypeOK
<1>5. ASSUME NEW now \in Times, Receive(now) PROVE SlotInvariant'
  BY <1>4, <1>5, SlotInform, SlotPoll, SlotReply DEF Receive
<1>6. ASSUME NEW now \in Times, Administer(now) PROVE SlotInvariant'
  BY <1>4, <1>6, SlotAdminister
<1> QED BY <1>2, <1>3, <1>5, <1>6 DEF Next

\* Every transaction of the receiver and of the administrators keeps the slot, for any
\* number of operations, sessions, jobs and answers and any lag of their timestamps.
THEOREM SlotCorrect == Spec => []SlotInvariant
<1> QED BY InitType, NextType, SlotInit, SlotNext, PTL DEF Spec

\* A CPE never has two operations pending or dispatched.
THEOREM OneActiveCorrect == Spec => []OneActiveOperation
<1>1. SlotInvariant => OneActiveOperation
  BY DEF SlotInvariant, Slot, Single, OneActiveOperation
<1> QED BY <1>1, SlotCorrect, PTL

\* The session that waits for an answer and the operation it carries are never apart.
THEOREM CarriedCorrect == Spec => []SessionsCarryOperations
<1>1. TypeOK /\ SlotInvariant => SessionsCarryOperations
  BY DEF SlotInvariant, Slot, Carried, Carrying, SessionsCarryOperations
<1> QED BY <1>1, SlotCorrect, TypeCorrect, PTL

\* No session ever carries two RPCs.
THEOREM OneRpcCorrect == Spec => []OneRpcPerSession
<1>1. SlotInvariant => OneRpcPerSession
  BY DEF SlotInvariant, Slot, Unshared, OneRpcPerSession
<1> QED BY <1>1, SlotCorrect, PTL

\* A running job owns the slot and is waiting for the last operation it issued.
THEOREM JobOwnsCorrect == Spec => []JobOwnsSlot
<1>1. SlotInvariant => JobOwnsSlot
  BY DEF SlotInvariant, Owned, JobOwnsSlot
<1> QED BY <1>1, SlotCorrect, PTL

----------------------------------------------------------------------------
(* Progress.                                                               *)

\* From one table to the next, what has ended stays as it is and deadlines are not put off.
OpProgress(a, b) ==
  /\ b.state = "absent" \/ a.state \in Terminal => b = a
  /\ a.state \in Waiting => /\ b.state \in Waiting \cup Terminal
                            /\ b.expires <= a.expires /\ b.ask = a.ask /\ b.key = a.key
  /\ a.session # NoSession => b.session = a.session /\ b.expires = a.expires
Progress(d, e) ==
  /\ \A o \in OpId : OpProgress(d.ops[o], e.ops[o])
  /\ \A j \in JobId : d.jobs[j].state \in {"succeeded", "partial"} => e.jobs[j] = d.jobs[j]
  /\ \A s \in SessionId : d.sessions[s].state = "completed" => e.sessions[s].state = "completed"

\* In addition no RPC leaves, no answer is accepted and nothing is stored: an operation can
\* only be turned down or expire.
TurnedDown(row) == row.state = "failed" /\ row.reason = "profile_changed"
Calm(d, e) ==
  /\ Progress(d, e)
  /\ \A o \in OpId : e.ops[o].state \in {"dispatched"} \cup Answered =>
       e.ops[o] = d.ops[o] \/ TurnedDown(e.ops[o])
  /\ e.catalog = d.catalog /\ e.values = d.values

Fresh(d, id) == d.ops[id].state = "absent" /\ d.ops[id].session = NoSession

\* AnsweredInTime and StoredBeforeSent of any tables, with a bound on what is stored.
InTime(d) ==
  \A o \in OpId : d.ops[o].state = "succeeded" =>
    d.ops[o].sent <= d.ops[o].finished /\ d.ops[o].finished < d.ops[o].expires
Before(d, t) == \A p \in Path : d.catalog[p].at <= t /\ d.values[p].at <= t
Timely(d, t) ==
  /\ InTime(d) /\ Before(d, t)
  /\ \A o \in OpId : d.ops[o].state = "dispatched" => Before(d, d.ops[o].sent)

----------------------------------------------------------------------------
(* The calm steps.                                                         *)

LEMMA CalmSame ==
  ASSUME NEW d \in Tables
  PROVE  Calm(d, d)
<1>1. \A o \in OpId : d.ops[o].expires \in Nat
  BY RowTypes DEF Operation
<1> QED BY <1>1 DEF Calm, Progress, OpProgress

LEMMA ProgressChain ==
  ASSUME NEW c \in Tables, NEW d \in Tables, NEW e \in Tables, Progress(c, d), Progress(d, e)
  PROVE  Progress(c, e)
<1>1. \A o \in OpId : c.ops[o].expires \in Nat /\ d.ops[o].expires \in Nat /\ e.ops[o].expires \in Nat
  BY RowTypes DEF Operation
<1>2. ASSUME NEW o \in OpId PROVE OpProgress(c.ops[o], e.ops[o])
  BY <1>1 DEF Progress, OpProgress
<1>3. \A j \in JobId : c.jobs[j].state \in {"succeeded", "partial"} => e.jobs[j] = c.jobs[j]
  BY DEF Progress
<1> QED BY <1>2, <1>3 DEF Progress

LEMMA CalmChain ==
  ASSUME NEW c \in Tables, NEW d \in Tables, NEW e \in Tables, Calm(c, d), Calm(d, e)
  PROVE  Calm(c, e)
<1>1. Progress(c, e) BY ProgressChain DEF Calm
<1> QED BY <1>1 DEF Calm

LEMMA ExpireCalm ==
  ASSUME NEW d \in Tables, NEW now \in Nat
  PROVE  Calm(d, Expire(d, now))
<1> DEFINE e == Expire(d, now)
<1>1. \A o \in OpId : d.ops[o] \in Operation BY RowTypes
<1>2. \A s \in SessionId : d.sessions[s] \in Session BY RowTypes
<1>3. /\ \A o \in OpId :
           \/ e.ops[o] = d.ops[o]
           \/ /\ d.ops[o].state \in Waiting /\ e.ops[o].state = "expired"
              /\ e.ops[o].expires = d.ops[o].expires /\ e.ops[o].session = d.ops[o].session
              /\ e.ops[o].ask = d.ops[o].ask /\ e.ops[o].key = d.ops[o].key
      /\ \A s \in SessionId : e.sessions[s] = d.sessions[s] \/ e.sessions[s].state = "completed"
      /\ e.jobs = d.jobs /\ e.catalog = d.catalog /\ e.values = d.values
  <2> DEFINE row(o) == [d.ops[o] EXCEPT !.state = "expired", !.reason = "deadline_exceeded",
                                        !.finished = now]
  <2>1. /\ \A o \in OpId : e.ops[o] = IF o \in Due(d, now) THEN row(o) ELSE d.ops[o]
        /\ \A s \in SessionId : e.sessions[s] = d.sessions[s] \/ e.sessions[s].state = "completed"
        /\ e.jobs = d.jobs /\ e.catalog = d.catalog /\ e.values = d.values
    BY <1>2 DEF Expire, Tables, Session
  <2>2. \A o \in OpId : /\ row(o).state = "expired" /\ row(o).expires = d.ops[o].expires
                         /\ row(o).session = d.ops[o].session /\ row(o).ask = d.ops[o].ask
                         /\ row(o).key = d.ops[o].key
    BY <1>1 DEF Operation
  <2>3. \A o \in Due(d, now) : d.ops[o].state \in Waiting BY DEF Due, Active
  <2> HIDE DEF e, row
  <2> QED BY <2>1, <2>2, <2>3
<1>4. \A o \in OpId : d.ops[o].expires \in Nat BY <1>1 DEF Operation
<1> HIDE DEF e
<1> SUFFICES Calm(d, e) BY DEF e
<1> QED BY <1>3, <1>4 DEF Calm, Progress, OpProgress, Waiting, Terminal, Answered

LEMMA FailCalm ==
  ASSUME NEW d \in Tables, NEW o \in OpId, d.ops[o].state \in Waiting, NEW now
  PROVE  Calm(d, Fail(d, o, "profile_changed", now))
<1> DEFINE e == Fail(d, o, "profile_changed", now)
<1>1. \A p \in OpId : d.ops[p] \in Operation BY RowTypes
<1>2. /\ \A p \in OpId : p # o => e.ops[p] = d.ops[p]
      /\ TurnedDown(e.ops[o]) /\ e.ops[o].ask = d.ops[o].ask /\ e.ops[o].key = d.ops[o].key
      /\ e.ops[o].expires = d.ops[o].expires /\ e.ops[o].session = d.ops[o].session
      /\ e.sessions = d.sessions /\ e.jobs = d.jobs /\ e.catalog = d.catalog /\ e.values = d.values
  BY <1>1 DEF Fail, Tables, Operation, TurnedDown
<1>3. \A p \in OpId : d.ops[p].expires \in Nat BY <1>1 DEF Operation
<1> HIDE DEF e
<1> SUFFICES Calm(d, e) BY DEF e
<1> QED BY <1>2, <1>3 DEF Calm, Progress, OpProgress, Waiting, Terminal, Answered, TurnedDown

LEMMA FinishCalm ==
  ASSUME NEW d \in Tables, NEW s \in SessionId
  PROVE  Calm(d, Finish(d, s))
<1> DEFINE e == Finish(d, s)
<1>1. /\ e.ops = d.ops /\ e.jobs = d.jobs /\ e.catalog = d.catalog /\ e.values = d.values
      /\ \A t \in SessionId : e.sessions[t] = d.sessions[t] \/ e.sessions[t].state = "completed"
  BY DEF Finish, Tables, Session
<1>2. \A p \in OpId : d.ops[p].expires \in Nat BY RowTypes DEF Operation
<1> HIDE DEF e
<1> SUFFICES Calm(d, e) BY DEF e
<1> QED BY <1>1, <1>2 DEF Calm, Progress, OpProgress

LEMMA EnqueueCalm ==
  ASSUME NEW d \in Tables, NEW id \in OpId, Fresh(d, id), NEW key, NEW ask, NEW now
  PROVE  Calm(d, Enqueue(d, id, key, ask, now))
<1> DEFINE e == Enqueue(d, id, key, ask, now)
<1>1. /\ \A p \in OpId : p # id => e.ops[p] = d.ops[p]
      /\ e.ops[id].state = "pending"
      /\ e.sessions = d.sessions /\ e.jobs = d.jobs /\ e.catalog = d.catalog /\ e.values = d.values
  BY DEF Enqueue, Tables, NoOperation
<1>2. \A p \in OpId : d.ops[p].expires \in Nat BY RowTypes DEF Operation
<1> HIDE DEF e
<1> SUFFICES Calm(d, e) BY DEF e
<1> QED BY <1>1, <1>2 DEF Fresh, Calm, Progress, OpProgress, Waiting, Terminal, Answered

LEMMA JobCalm ==
  ASSUME NEW d \in Tables, NEW j \in JobId, d.jobs[j].state \notin {"succeeded", "partial"}, NEW row
  PROVE  Calm(d, [d EXCEPT !.jobs[j] = row])
<1> DEFINE e == [d EXCEPT !.jobs[j] = row]
<1>1. /\ e.ops = d.ops /\ e.sessions = d.sessions /\ e.catalog = d.catalog /\ e.values = d.values
      /\ \A i \in JobId : i # j => e.jobs[i] = d.jobs[i]
  BY DEF Tables
<1>2. \A p \in OpId : d.ops[p].expires \in Nat BY RowTypes DEF Operation
<1> HIDE DEF e
<1> SUFFICES Calm(d, e) BY DEF e
<1> QED BY <1>1, <1>2 DEF Calm, Progress, OpProgress

LEMMA ContinueCalm ==
  ASSUME NEW d \in Tables, NEW j \in JobId, d.jobs[j].state = "running",
         NEW id \in OpId, Fresh(d, id), NEW now \in Nat
  PROVE  Calm(d, Continue(d, j, id, now))
<1> DEFINE e == Continue(d, j, id, now)
<1>1. CASE \E row : e = [d EXCEPT !.jobs[j] = row]
  <2>1. PICK row : e = [d EXCEPT !.jobs[j] = row] BY <1>1
  <2>2. Calm(d, [d EXCEPT !.jobs[j] = row]) BY JobCalm
  <2> QED BY ONLY <2>1, <2>2
<1>2. CASE \E ask \in Ask : \E row : e = [Enqueue(d, id, NoKey, ask, now) EXCEPT !.jobs[j] = row]
  <2>1. PICK ask, row : /\ ask \in Ask
                        /\ e = [Enqueue(d, id, NoKey, ask, now) EXCEPT !.jobs[j] = row]
    BY <1>2
  <2> DEFINE queued == Enqueue(d, id, NoKey, ask, now)
  <2>2. queued \in Tables /\ Calm(d, queued) /\ queued.jobs = d.jobs
    BY <2>1, EnqueueType, EnqueueCalm DEF Enqueue, Tables
  <2>3. e \in Tables BY ContinueType
  <2> HIDE DEF queued, e
  <2>4. Calm(queued, [queued EXCEPT !.jobs[j] = row])
    BY <2>2, JobCalm
  <2>5. e = [queued EXCEPT !.jobs[j] = row] BY <2>1 DEF queued
  <2>6. Calm(queued, e) BY ONLY <2>4, <2>5
  <2>7. Calm(d, e) BY <2>2, <2>3, <2>6, CalmChain
  <2> QED BY <2>7 DEF e
<1>3. d.jobs[j] \in Job /\ (d.jobs[j].frontier # <<>> =>
        [kind |-> IF d.jobs[j].spec.kind = "discovery" THEN "names" ELSE "values",
         path |-> Head(d.jobs[j].frontier).path,
         names |-> First(Head(d.jobs[j].frontier).names,
                         d.jobs[j].spec.max_entries - d.jobs[j].entries)] \in Ask)
  BY RowTypes, StepAsk
<1> QED BY <1>1, <1>2, <1>3, Zenon DEF Continue

LEMMA AdvanceCalm ==
  ASSUME NEW d \in Tables, NEW j \in JobId, NEW id \in OpId, Fresh(d, id), NEW now \in Nat
  PROVE  Calm(d, Advance(d, j, id, now))
<1>1. CASE Advance(d, j, id, now) = d BY <1>1, CalmSame
<1>2. CASE d.jobs[j].state = "running"
  <2> DEFINE mid == IF d.jobs[j].current = NoOp THEN d ELSE Absorb(d, j)
  <2>1. d.jobs[j] \in Job /\ d.jobs[j].current \in OpId \cup {NoOp}
    BY RowTypes DEF Job
  <2>2. mid \in Tables BY <2>1, AbsorbType
  <2>3. Calm(d, mid)
    <3>1. CASE mid = d BY <3>1, CalmSame
    <3>2. CASE \E row : mid = [d EXCEPT !.jobs[j] = row]
      <4>1. PICK row : mid = [d EXCEPT !.jobs[j] = row] BY <3>2
      <4>2. Calm(d, [d EXCEPT !.jobs[j] = row]) BY <1>2, JobCalm
      <4> QED BY ONLY <4>1, <4>2
    <3> QED BY <3>1, <3>2, Zenon DEF Absorb
  <2>4. mid.jobs[j].state = "running" /\ mid.ops = d.ops
    BY <1>2, <2>1 DEF Absorb, Tables, Job, Discovered
  <2>5. Advance(d, j, id, now) = d \/ Advance(d, j, id, now) = Continue(mid, j, id, now)
    BY DEF Advance
  <2> HIDE DEF mid
  <2>6. Calm(mid, Continue(mid, j, id, now)) /\ Continue(mid, j, id, now) \in Tables
    BY <2>2, <2>4, ContinueCalm, ContinueType DEF Fresh
  <2>7. Calm(d, Continue(mid, j, id, now))
    BY <2>2, <2>3, <2>6, CalmChain
  <2> QED BY <2>5, <2>7, CalmSame
<1> QED BY <1>1, <1>2 DEF Advance

LEMMA AdvanceActiveCalm ==
  ASSUME NEW d \in Tables, NEW id \in OpId, Fresh(d, id), NEW now \in Nat
  PROVE  Calm(d, AdvanceActive(d, id, now))
<1>1. Running(d) # {} => (CHOOSE j \in Running(d) : TRUE) \in JobId
  BY DEF Running
<1> QED BY <1>1, AdvanceCalm, CalmSame DEF AdvanceActive

\* An identifier that is new to the tables is new to them after the expiry.
LEMMA ExpireFresh ==
  ASSUME db \in Tables, SlotInvariant, NEW id \in NextId, NEW now \in Nat
  PROVE  id \in OpId /\ Fresh(Expire(db, now), id)
<1>1. id \in OpId /\ db.ops[id].state = "absent" BY DEF NextId
<1>2. db.ops[id].session = NoSession BY <1>1 DEF SlotInvariant, Slot, Unsent
<1>3. Expire(db, now).ops[id] = db.ops[id]
  BY <1>1 DEF Expire, Due, Active, Waiting, Tables
<1> QED BY <1>1, <1>2, <1>3 DEF Fresh

LEMMA SettledCalm ==
  ASSUME db \in Tables, SlotInvariant, NEW id \in NextId, NEW now \in Nat
  PROVE  LET d == Settled(id, now)
         IN /\ Calm(db, d)
            /\ \A o \in OpId : d.ops[o].state = "dispatched" => d.ops[o].expires > now
<1> DEFINE e == Expire(db, now)
           d == Settled(id, now)
<1>1. id \in OpId /\ Fresh(e, id) BY ExpireFresh
<1>2. e \in Tables /\ Calm(db, e) BY ExpireType, ExpireCalm
<1>3. \A o \in OpId : e.ops[o].state = "dispatched" => e.ops[o].expires > now
  <2>1. \A o \in OpId : db.ops[o] \in Operation /\ db.ops[o].expires \in Nat
    BY RowTypes DEF Operation
  <2> QED BY <2>1 DEF Expire, Due, Active, Waiting, Operation, Tables
<1>4. d = AdvanceActive(e, id, now) BY DEF Settled
<1> HIDE DEF e, d
<1>5. d \in Tables /\ Calm(e, d) BY <1>1, <1>2, <1>4, AdvanceActiveType, AdvanceActiveCalm
<1>6. Calm(db, d) BY <1>2, <1>5, CalmChain
<1>7. \A o \in OpId : d.ops[o].state = "dispatched" => d.ops[o].expires > now
  BY <1>3, <1>5 DEF Calm, TurnedDown
<1> QED BY <1>6, <1>7 DEF d

LEMMA AdministerCalm ==
  ASSUME db \in Tables, SlotInvariant, NEW now \in Nat, Administer(now), db' \in Tables
  PROVE  Calm(db, db')
<1> DEFINE d == Expire(db, now)
<1>1. d \in Tables /\ Calm(db, d) BY ExpireType, ExpireCalm
<1>2. \A id \in NextId : id \in OpId /\ Fresh(d, id) BY ExpireFresh
<1>3. d.jobs = db.jobs BY DEF Expire, Tables
<1> HIDE DEF d
<1>4. CASE Calm(d, db') BY <1>1, <1>4, CalmChain
<1>5. ASSUME NEW j \in JobId, NEW spec \in Specs, NEW id \in NextId, CreateCollection(j, spec, id, now)
      PROVE  Calm(d, db')
  <2> DEFINE started == [d EXCEPT !.jobs[j] = NewJob(spec)]
  <2>1. NewJob(spec) \in Job
    BY <1>5, NewJobType, InputTypes, PathAssumption DEF CreateCollection, Admissible
  <2>2. started \in Tables BY <1>1, <2>1, PutJob
  <2>3. d.jobs[j].state = "absent" BY <1>3, <1>5 DEF CreateCollection
  <2>4. Calm(d, started) BY <1>1, <2>3, JobCalm
  <2>5. started.ops = d.ops BY <1>1 DEF Tables
  <2>6. db' = Advance(started, j, id, now) BY <1>5 DEF CreateCollection, d
  <2> HIDE DEF started
  <2>7. Calm(started, db') BY <1>2, <2>2, <2>5, <2>6, AdvanceCalm DEF Fresh
  <2> QED BY <1>1, <2>2, <2>4, <2>7, CalmChain
<1>6. ASSUME NEW j \in JobId, NEW id \in NextId, GetCollection(j, id, now) PROVE Calm(d, db')
  BY <1>1, <1>2, <1>6, AdvanceCalm DEF GetCollection, d
<1>7. ASSUME NEW key, NEW ask, NEW id \in NextId,
             CreateQuery(key, ask, id, now) \/ CreateTelemetry(key, ask, id, now)
      PROVE  Calm(d, db')
  <2>1. PICK read : db' = Enqueue(d, id, key, read, now)
    BY <1>7, Zenon DEF CreateQuery, CreateTelemetry, d
  <2> QED BY <1>1, <1>2, <2>1, EnqueueCalm
<1>8. CASE db' = d BY <1>1, <1>8, CalmSame
<1> QED BY <1>4, <1>5, <1>6, <1>7, <1>8, Zenon
        DEF Administer, RepeatCreate, GetQuery, RepeatCollection, d

----------------------------------------------------------------------------
(* The transactions that send, accept and store.                           *)

\* What Conclude does to each row.
AnsweredRow(row, r, now) ==
  [row EXCEPT !.state = IF Reason(row.ask, r) = "none" THEN "succeeded" ELSE "failed",
              !.reason = Reason(row.ask, r), !.finished = now, !.result = Result(row.ask, r)]
Concluded(d, e, o, r, now) ==
  /\ \A p \in OpId : p # o => e.ops[p] = d.ops[p]
  /\ e.ops[o] = AnsweredRow(d.ops[o], r, now)
  /\ \A t \in SessionId : e.sessions[t] = d.sessions[t] \/ e.sessions[t].state = "completed"
  /\ \A j \in JobId : /\ d.jobs[j].state # "running" => e.jobs[j] = d.jobs[j]
                      /\ e.jobs[j].spec = d.jobs[j].spec /\ e.jobs[j].frontier = d.jobs[j].frontier
  /\ e.catalog = Collect(d, o, r, now).catalog /\ e.values = Collect(d, o, r, now).values
  /\ e.jobs = Collect(d, o, r, now).jobs

LEMMA ConcludeRows ==
  ASSUME NEW d \in Tables, NEW s \in SessionId, NEW o \in OpId, NEW r \in Answer, NEW now \in Nat
  PROVE  Concluded(d, Conclude(d, s, o, r, now), o, r, now)
<1> DEFINE e == Conclude(d, s, o, r, now)
           ask == d.ops[o].ask
           collected == Collect(d, o, r, now)
           noted == IF FeedsInventory(ask, r) THEN UpdateInventory(collected, r.content, now)
                                              ELSE collected
           measured == IF Measures(ask, r) THEN UpdateTelemetry(noted, o, r.content, now)
                                           ELSE noted
           row == AnsweredRow(d.ops[o], r, now)
           end == [measured.sessions[s] EXCEPT !.state = "completed"]
<1>1. collected \in Tables /\ noted \in Tables
  BY CollectType, UpdateInventoryType DEF Answer
<1>2. measured \in Tables
  <2> HIDE DEF noted
  <2> QED BY <1>1, UpdateTelemetryType DEF Answer
<1>3. /\ collected.ops = d.ops /\ collected.sessions = d.sessions
      /\ \A j \in JobId : /\ d.jobs[j].state # "running" => collected.jobs[j] = d.jobs[j]
                          /\ collected.jobs[j].spec = d.jobs[j].spec
                          /\ collected.jobs[j].frontier = d.jobs[j].frontier
  <2>1. \A j \in JobId : d.jobs[j] \in Job BY RowTypes
  <2> QED BY <2>1 DEF Collect, Kept, Running, Tables, Job
<1>4. /\ noted.ops = collected.ops /\ noted.sessions = collected.sessions /\ noted.jobs = collected.jobs
      /\ noted.catalog = collected.catalog /\ noted.values = collected.values
  <2> HIDE DEF collected
  <2> QED BY <1>1 DEF UpdateInventory, Tables
<1>5. /\ measured.ops = noted.ops /\ measured.sessions = noted.sessions /\ measured.jobs = noted.jobs
      /\ measured.catalog = noted.catalog /\ measured.values = noted.values
  <2> HIDE DEF noted
  <2> QED BY <1>1 DEF UpdateTelemetry, Tables
<1>6. measured.ops[o] = d.ops[o] BY <1>3, <1>4, <1>5
<1>7. e = [measured EXCEPT !.ops[o] = row, !.sessions[s] = end]
  BY <1>6, Zenon DEF Conclude, AnsweredRow
<1>8. measured.sessions[s] \in Session BY <1>2, RowTypes
<1>9. end.state = "completed" BY <1>8 DEF Session
<1> HIDE DEF e, measured, noted, collected, row, end
<1>10. /\ \A p \in OpId : p # o => e.ops[p] = measured.ops[p]
       /\ e.ops[o] = row
       /\ \A t \in SessionId : e.sessions[t] = measured.sessions[t] \/ e.sessions[t] = end
       /\ e.jobs = measured.jobs /\ e.catalog = measured.catalog /\ e.values = measured.values
  BY <1>2, <1>7 DEF Tables
<1>11. /\ \A p \in OpId : p # o => e.ops[p] = d.ops[p]
       /\ e.ops[o] = row
       /\ \A t \in SessionId : e.sessions[t] = d.sessions[t] \/ e.sessions[t].state = "completed"
       /\ \A j \in JobId : /\ d.jobs[j].state # "running" => e.jobs[j] = d.jobs[j]
                           /\ e.jobs[j].spec = d.jobs[j].spec
                           /\ e.jobs[j].frontier = d.jobs[j].frontier
       /\ e.catalog = collected.catalog /\ e.values = collected.values
       /\ e.jobs = collected.jobs
  BY <1>3, <1>4, <1>5, <1>9, <1>10
<1> QED BY <1>11 DEF e, row, collected, Concluded

LEMMA CollectBefore ==
  ASSUME NEW d \in Tables, NEW o, NEW r, NEW t \in Nat, NEW now \in Nat, now <= t, Before(d, t)
  PROVE  LET e == Collect(d, o, r, now)
         IN \A p \in Path : e.catalog[p].at <= t /\ e.values[p].at <= t
BY DEF Collect, Before, Tables

LEMMA CalmTimely ==
  ASSUME NEW d \in Tables, NEW e \in Tables, Calm(d, e), NEW t \in Nat, Timely(d, t)
  PROVE  Timely(e, t)
BY DEF Calm, Timely, InTime, Before, TurnedDown, Answered

LEMMA ConcludeTimely ==
  ASSUME NEW d \in Tables, Slot(d), NEW s \in SessionId, NEW o \in OpId, NEW r \in Answer,
         NEW now \in Nat, NEW t \in Nat, now <= t, Timely(d, t),
         d.ops[o].state = "dispatched", d.ops[o].sent <= now, now < d.ops[o].expires
  PROVE  LET e == Conclude(d, s, o, r, now)
         IN Progress(d, e) /\ Timely(e, t)
<1> DEFINE e == Conclude(d, s, o, r, now)
<1>1. Concluded(d, e, o, r, now)
  BY ConcludeRows
<1>2. \A p \in OpId : d.ops[p] \in Operation /\ d.ops[p].expires \in Nat
  BY RowTypes DEF Operation
<1> HIDE DEF e
<1>4. /\ e.ops[o].state \in Answered /\ e.ops[o].finished = now
      /\ e.ops[o].sent = d.ops[o].sent /\ e.ops[o].expires = d.ops[o].expires
      /\ e.ops[o].session = d.ops[o].session /\ e.ops[o].ask = d.ops[o].ask
      /\ e.ops[o].key = d.ops[o].key
  BY <1>1, <1>2 DEF Concluded, AnsweredRow, Operation, Answered
<1>5. \A p \in OpId : OpProgress(d.ops[p], e.ops[p])
  <2>1. OpProgress(d.ops[o], e.ops[o])
    BY <1>2, <1>4 DEF OpProgress, Waiting, Terminal, Answered
  <2>2. ASSUME NEW p \in OpId, p # o PROVE OpProgress(d.ops[p], e.ops[p])
    <3>1. e.ops[p] = d.ops[p] BY <1>1, <2>2 DEF Concluded
    <3> QED BY ONLY <1>2, <3>1, <2>2 DEF OpProgress
  <2> QED BY <2>1, <2>2
<1>6. Progress(d, e) BY <1>1, <1>5 DEF Concluded, Progress
<1>7. InTime(e)
  BY <1>1, <1>4 DEF Concluded, Timely, InTime
<1>8. Before(e, t)
  BY <1>1, CollectBefore DEF Concluded, Timely, Before
<1>9. \A p \in OpId : e.ops[p].state # "dispatched"
  <2>1. \A p \in OpId : p # o => d.ops[p].state # "dispatched"
    BY DEF Slot, Single, Active, Waiting
  <2>2. \A p \in OpId : p # o => e.ops[p] = d.ops[p]
    BY <1>1 DEF Concluded
  <2> QED BY ONLY <1>4, <2>1, <2>2 DEF Answered
<1> QED BY <1>6, <1>7, <1>8, <1>9 DEF Timely, e

LEMMA DispatchTimely ==
  ASSUME db \in Tables, clock \in Nat, NEW s \in SessionId, NEW id \in OpId, NEW now \in Nat,
         PollDispatch(s, id, now), Settled(id, now) \in Tables, Slot(Settled(id, now)),
         Timely(Settled(id, now), clock)
  PROVE  Progress(Settled(id, now), db') /\ Timely(db', clock)
<1> DEFINE d == Settled(id, now)
<1>1. PICK o \in OpId :
        LET deadline == IF d.ops[o].expires < now + RpcSeconds THEN d.ops[o].expires
                                                               ELSE now + RpcSeconds
        IN /\ d.ops[o].state = "pending" /\ d.sessions[s].state = "awaiting_empty"
           /\ db' = [d EXCEPT
                !.ops[o] = [@ EXCEPT !.state = "dispatched", !.expires = deadline,
                                     !.session = s, !.sent = clock],
                !.sessions[s] = [state |-> "awaiting_response", expires |-> deadline]]
  BY DEF PollDispatch
<1> DEFINE deadline == IF d.ops[o].expires < now + RpcSeconds THEN d.ops[o].expires
                                                              ELSE now + RpcSeconds
           row == [d.ops[o] EXCEPT !.state = "dispatched", !.expires = deadline,
                                   !.session = s, !.sent = clock]
<1>2. \A p \in OpId : d.ops[p] \in Operation /\ d.ops[p].expires \in Nat
  BY RowTypes DEF Operation
<1>3. deadline <= d.ops[o].expires /\ deadline \in Nat
  BY <1>2, TimeAssumption
<1>4. d.ops[o].session = NoSession
  BY <1>1 DEF Slot, Unsent
<1>5. db' = [d EXCEPT !.ops[o] = row,
                      !.sessions[s] = [state |-> "awaiting_response", expires |-> deadline]]
  BY <1>1, Zenon
<1> HIDE DEF deadline, d
<1>6. /\ row.state = "dispatched" /\ row.expires = deadline /\ row.sent = clock
      /\ row.ask = d.ops[o].ask /\ row.key = d.ops[o].key
  BY <1>2 DEF Operation
<1> HIDE DEF row
<1>7. /\ \A p \in OpId : p # o => db'.ops[p] = d.ops[p]
      /\ db'.ops[o] = row
      /\ \A u \in SessionId : u # s => db'.sessions[u] = d.sessions[u]
      /\ db'.jobs = d.jobs /\ db'.catalog = d.catalog /\ db'.values = d.values
  BY <1>5 DEF Tables, d
<1>8. d.ops[o].state = "pending" /\ d.sessions[s].state = "awaiting_empty"
  BY <1>1
<1>9. \A p \in OpId : OpProgress(d.ops[p], db'.ops[p])
  BY <1>2, <1>3, <1>4, <1>6, <1>7, <1>8 DEF OpProgress, Waiting, Terminal, Answered
<1>10. Progress(d, db')
  BY <1>7, <1>8, <1>9 DEF Progress
<1>11. Timely(db', clock)
  BY <1>6, <1>7 DEF Timely, InTime, Before, d
<1> QED BY <1>10, <1>11 DEF d

LEMMA RefuseCalm ==
  ASSUME NEW d \in Tables, NEW o \in OpId, NEW s \in SessionId, d.ops[o].state \in Waiting,
         NEW now \in Nat
  PROVE  Calm(d, Finish(Fail(d, o, "profile_changed", now), s))
<1> DEFINE e == Fail(d, o, "profile_changed", now)
<1>1. "profile_changed" \in Reasons BY DEF Reasons
<1>2. e \in Tables /\ Calm(d, e) BY <1>1, FailType, FailCalm
<1> HIDE DEF e
<1>3. Finish(e, s) \in Tables /\ Calm(e, Finish(e, s)) BY <1>2, FinishType, FinishCalm
<1>4. Calm(d, Finish(e, s)) BY <1>2, <1>3, CalmChain
<1> QED BY <1>4 DEF e

\* What a handler makes of the settled tables.
Lawful(d, t) == Progress(d, db') /\ Timely(db', t)

LEMMA CalmStep ==
  ASSUME NEW d \in Tables, db' \in Tables, Calm(d, db'), NEW t \in Nat, Timely(d, t)
  PROVE  Lawful(d, t)
BY CalmTimely DEF Lawful, Calm

LEMMA InformCalm ==
  ASSUME db \in Tables, NEW s \in SessionId, NEW inform \in Informs, NEW now \in Nat,
         Inform(s, inform, now)
  PROVE  Calm(db, db')
<1> DEFINE named == [db EXCEPT !.cpe[Manufacturer] = inform.manufacturer]
           noted == UpdateInventory(named, inform.report, now)
<1>1. inform.manufacturer \in Value /\ inform.report \in Content
  BY InputTypes DEF Inform0
<1>2. /\ named \in Tables /\ named.ops = db.ops /\ named.sessions = db.sessions
      /\ named.jobs = db.jobs /\ named.catalog = db.catalog /\ named.values = db.values
  BY <1>1 DEF Tables, Target
<1> HIDE DEF named
<1>3. /\ noted \in Tables /\ noted.ops = named.ops /\ noted.sessions = named.sessions
      /\ noted.jobs = named.jobs /\ noted.catalog = named.catalog /\ noted.values = named.values
  BY <1>1, <1>2, UpdateInventoryType DEF UpdateInventory, Tables
<1>4. db' = [noted EXCEPT !.sessions[s] = [state |-> "awaiting_empty", expires |-> now + SessionSeconds]]
  BY DEF Inform, noted, named
<1>5. db.sessions[s].state = "absent" BY DEF Inform
<1> HIDE DEF noted
<1>6. /\ db'.ops = db.ops /\ db'.jobs = db.jobs /\ db'.catalog = db.catalog /\ db'.values = db.values
      /\ \A u \in SessionId : u # s => db'.sessions[u] = db.sessions[u]
  BY <1>2, <1>3, <1>4 DEF Tables
<1>7. \A o \in OpId : db.ops[o].expires \in Nat BY RowTypes DEF Operation
<1> QED BY <1>5, <1>6, <1>7 DEF Calm, Progress, OpProgress

LEMMA PollStep ==
  ASSUME TypeOK, SlotInvariant, NEW s \in SessionId, NEW id \in NextId, NEW now \in Nat,
         Timely(Settled(id, now), clock), Poll(s, id, now), db' \in Tables
  PROVE  Lawful(Settled(id, now), clock)
<1> DEFINE d == Settled(id, now)
<1>1. /\ id \in OpId /\ d \in Tables /\ Slot(d) /\ clock \in Nat /\ db \in Tables
  BY SlotSettled DEF TypeOK, NextId
<1>2. CASE PollDispatch(s, id, now)
  BY <1>1, <1>2, DispatchTimely DEF Lawful
<1> HIDE DEF d
<1>3. CASE db' = d BY <1>1, <1>3, CalmSame, CalmStep DEF d
<1>4. CASE db' = Finish(d, s) BY <1>1, <1>4, FinishCalm, CalmStep DEF d
<1>5. CASE PollProfileChanged(s, id, now)
  <2>1. PICK o \in OpId :
          /\ IF d.sessions[s].state = "awaiting_response" THEN d.ops[o].session = s
                                                          ELSE d.ops[o].state = "pending"
          /\ db' = Finish(Fail(d, o, "profile_changed", now), s)
    BY <1>5 DEF PollProfileChanged, d
  <2>2. d.ops[o].state \in Waiting
    <3>1. CASE d.ops[o].state = "pending" BY <3>1 DEF Waiting
    <3>2. CASE d.sessions[s].state = "awaiting_response" /\ d.ops[o].session = s
      <4>1. PICK p \in OpId : d.ops[p].state = "dispatched" /\ d.ops[p].session = s
        BY <1>1, <3>2 DEF Slot, Carrying
      <4>2. p = o BY <1>1, <3>2, <4>1, IdAssumption DEF Slot, Unshared
      <4> QED BY <4>1, <4>2 DEF Waiting
    <3> QED BY <2>1, <3>1, <3>2
  <2> QED BY <1>1, <2>1, <2>2, RefuseCalm, CalmStep DEF d
<1> QED BY <1>2, <1>3, <1>4, <1>5 DEF Poll, PollCompleted, PollResend, PollIdle, d

LEMMA ReplyStep ==
  ASSUME TypeOK, SlotInvariant, NEW s \in SessionId, NEW id \in NextId, NEW now \in Nat,
         now <= clock, Timely(Settled(id, now), clock), Reply(s, id, now), db' \in Tables
  PROVE  Lawful(Settled(id, now), clock)
<1> DEFINE d == Settled(id, now)
<1>1. /\ id \in OpId /\ d \in Tables /\ Slot(d) /\ Owned(d) /\ clock \in Nat
      /\ d.ops[id].state \in {"absent", "pending"}
      /\ \A o \in OpId : d.ops[o].state = "dispatched" => d.ops[o].expires > now
  BY SlotSettled, SettledCalm DEF TypeOK, NextId
<1>2. Timely(d, clock) OBVIOUS
<1> HIDE DEF d
<1>3. CASE db' = d BY <1>1, <1>3, CalmSame, CalmStep DEF d
<1>4. CASE db' = Finish(d, s) BY <1>1, <1>4, FinishCalm, CalmStep DEF d
<1>5. CASE ReplyProfileChanged(s, id, now)
  <2>1. PICK o \in OpId : d.ops[o].state = "dispatched"
                          /\ db' = Finish(Fail(d, o, "profile_changed", now), s)
    BY <1>5 DEF ReplyProfileChanged, d
  <2>2. d.ops[o].state \in Waiting BY <2>1 DEF Waiting
  <2> QED BY <1>1, <2>1, <2>2, RefuseCalm, CalmStep DEF d
<1>6. ASSUME NEW r \in Answers, ReplyApplied(s, id, r, now)
      PROVE  Lawful(d, clock)
  <2>1. PICK o \in OpId : /\ d.ops[o].state = "dispatched" /\ d.ops[o].session = s
                          /\ now >= d.ops[o].sent
                          /\ db' = AdvanceActive(Conclude(d, s, o, r, now), id, now)
    BY <1>6 DEF ReplyApplied, Correlated, d
  <2> DEFINE e == Conclude(d, s, o, r, now)
  <2>2. r \in Answer BY InputTypes
  <2>3. e \in Tables /\ Slot(e) /\ \A p \in OpId : p # o => e.ops[p] = d.ops[p]
    BY <1>1, <2>1, <2>2, ConcludeType, SlotConclude
  <2>4. d.ops[o].sent \in Nat /\ d.ops[o].expires \in Nat
    BY <1>1, RowTypes DEF Operation
  <2>5. Progress(d, e) /\ Timely(e, clock)
    BY <1>1, <1>2, <2>1, <2>2, <2>4, ConcludeTimely
  <2>6. d.ops[id].state = "absent" /\ id # o
    BY <1>1, <2>1 DEF Slot, Single, Active, Waiting
  <2>7. db' = AdvanceActive(e, id, now) BY <2>1
  <2> HIDE DEF e
  <2>8. Fresh(e, id)
    BY <1>1, <2>3, <2>6 DEF Fresh, Slot, Unsent
  <2>9. Calm(e, db')
    BY <1>1, <2>3, <2>7, <2>8, AdvanceActiveCalm
  <2>10. Progress(d, db')
    BY <1>1, <2>3, <2>5, <2>9, ProgressChain DEF Calm
  <2>11. Timely(db', clock)
    BY <1>1, <2>3, <2>5, <2>9, CalmTimely
  <2> QED BY <2>10, <2>11 DEF Lawful
<1>7. CASE Lawful(d, clock) BY <1>7 DEF d
<1> QED BY <1>3, <1>4, <1>5, <1>6, <1>7, Zenon DEF Reply, ReplyLate, ReplyRepeated, d

LEMMA NextTimely ==
  ASSUME TypeOK, SlotInvariant, Timely(db, clock), [Next]_vars
  PROVE  Progress(db, db') /\ Timely(db', clock')
<1>1. db \in Tables /\ clock \in Nat /\ db' \in Tables /\ clock' \in Nat
  BY NextType DEF TypeOK
<1>2. \A now \in Times : now \in Nat /\ now <= clock
  BY <1>1 DEF Times
<1>3. CASE Calm(db, db') /\ clock' = clock
  BY <1>1, <1>3, CalmTimely DEF Calm
<1>4. CASE UNCHANGED vars
  BY <1>1, <1>3, <1>4, CalmSame DEF vars
<1>5. CASE Tick
  <2>1. db' = db /\ clock' = clock + 1 BY <1>5 DEF Tick
  <2>2. Timely(db, clock + 1)
    <3>1. \A p \in Path : db.catalog[p].at \in Nat /\ db.values[p].at \in Nat
      BY <1>1 DEF Tables
    <3> QED BY <1>1, <3>1 DEF Timely, Before
  <2> QED BY <1>1, <2>1, <2>2, CalmSame DEF Calm
<1>6. ASSUME NEW now \in Times, Administer(now)
      PROVE  Progress(db, db') /\ Timely(db', clock')
  <2>1. clock' = clock
    BY <1>6 DEF Administer, RepeatCreate, CreateQuery, CreateTelemetry, GetQuery, RepeatCollection,
                CreateCollection, GetCollection
  <2> QED BY <1>1, <1>2, <1>3, <1>6, <2>1, AdministerCalm
<1>7. ASSUME NEW now \in Times, Receive(now)
      PROVE  Progress(db, db') /\ Timely(db', clock')
  <2>1. ASSUME NEW s \in SessionId, NEW inform \in Informs, Inform(s, inform, now)
        PROVE  Progress(db, db') /\ Timely(db', clock')
    BY <1>1, <1>2, <1>3, <2>1, InformCalm DEF Inform
  <2>2. ASSUME NEW s \in SessionId, NEW id \in NextId, Poll(s, id, now) \/ Reply(s, id, now)
        PROVE  Progress(db, db') /\ Timely(db', clock')
    <3> DEFINE d == Settled(id, now)
    <3>1. d \in Tables /\ Calm(db, d) BY <1>1, <1>2, SettledCalm, SlotSettled
    <3>2. clock' = clock BY <2>2 DEF Poll, Reply
    <3> HIDE DEF d
    <3>3. Timely(d, clock) BY <1>1, <3>1, CalmTimely
    <3>4. Lawful(d, clock)
      BY <1>1, <1>2, <2>2, <3>3, PollStep, ReplyStep DEF d
    <3>5. Progress(db, db') BY <1>1, <3>1, <3>4, ProgressChain DEF Calm, Lawful
    <3> QED BY <3>2, <3>3, <3>4, <3>5 DEF Lawful
  <2> QED BY <1>7, <2>1, <2>2 DEF Receive
<1> QED BY <1>4, <1>5, <1>6, <1>7 DEF Next

LEMMA InitTimely == Init => Timely(db, clock)
BY DEF Init, NoOperation, Timely, InTime, Before

LEMMA TimelyCorrect == Spec => []Timely(db, clock) /\ [][Progress(db, db')]_vars
<1>1. TypeOK /\ SlotInvariant /\ Timely(db, clock) /\ [Next]_vars => Timely(db, clock)'
  BY NextTimely DEF Timely, Before, InTime
<1>2. TypeOK /\ SlotInvariant /\ Timely(db, clock) /\ [Next]_vars => [Progress(db, db')]_vars
  BY NextTimely
<1> QED BY <1>1, <1>2, InitTimely, TypeCorrect, SlotCorrect, PTL DEF Spec

\* Whatever the lag of `now`, and in whatever order late and repeated answers, expiries and
\* jobs meet, no transaction reopens, resends or prolongs what another one has concluded.
THEOREM ProgressCorrect == Spec => OperationsOnlyProgress
<1>1. [Progress(db, db')]_vars =>
        [/\ \A o \in OpId :
              /\ db.ops[o].state \in Terminal => db'.ops[o] = db.ops[o]
              /\ db.ops[o].session # NoSession => /\ db'.ops[o].session = db.ops[o].session
                                                 /\ db'.ops[o].expires = db.ops[o].expires
              /\ db.ops[o].state \in Waiting => db'.ops[o].expires <= db.ops[o].expires
         /\ \A j \in JobId : db.jobs[j].state \in {"succeeded", "partial"} => db'.jobs[j] = db.jobs[j]
         /\ \A s \in SessionId :
              db.sessions[s].state = "completed" => db'.sessions[s].state = "completed"]_vars
  BY DEF Progress, OpProgress
<1> QED BY <1>1, TimelyCorrect, PTL DEF OperationsOnlyProgress

\* An answer is only accepted after its RPC has left and before the deadline the dispatch
\* fixed (_expire runs first in every transaction).
THEOREM AnsweredCorrect == Spec => []AnsweredInTime
<1>1. Timely(db, clock) => AnsweredInTime BY DEF Timely, InTime, AnsweredInTime
<1> QED BY <1>1, TimelyCorrect, PTL

\* While an RPC is out, nothing newer than it is stored: the observed_at guards of the upserts
\* never drop part of its answer.
THEOREM StoredCorrect == Spec => []StoredBeforeSent
<1>1. Timely(db, clock) => StoredBeforeSent BY DEF Timely, Before, StoredBeforeSent
<1> QED BY <1>1, TimelyCorrect, PTL

----------------------------------------------------------------------------
(* What is stored, and the operation it came from.                         *)

\* A read of values asks for reviewed leaves and one of names for a concrete object, now or when
\* its job gets there; a telemetry read for leaves of its interface, as select_names has them.
AsksReviewed(ask) ==
  /\ ask.kind = "values" /\ ask.path = NoPath => ask.names \subseteq Readable
  /\ ask.kind = "names" => ask.names = {} /\ ask.path \in (Concrete \cap Object) \cup {NoPath}
  /\ Telemetric(ask) => /\ Selectable(ask.path, ask.names)
                        /\ ask.names \subseteq Selected(ask.path, Path)
StepsReadable(job) ==
  /\ job.spec.kind = "values" =>
       \A i \in DOMAIN job.frontier : /\ job.frontier[i].path = NoPath
                                       /\ job.frontier[i].names \subseteq Readable
  /\ job.spec.kind = "discovery" =>
       \A i \in DOMAIN job.frontier : /\ job.frontier[i].path \in Concrete \cap Object
                                       /\ job.frontier[i].names = {}
Planned(d) ==
  /\ \A o \in OpId : AsksReviewed(d.ops[o].ask)
  /\ \A j \in JobId : StepsReadable(d.jobs[j])

\* DataProvenance of any tables.
CatalogTraced(d) ==
  \A p \in Path :
    LET entry == d.catalog[p]
    IN entry.op # NoOp =>
         /\ d.ops[entry.op].state = "succeeded" /\ d.ops[entry.op].ask.kind = "names"
         /\ d.ops[entry.op].finished = entry.at
         /\ Parent[p] = PlanPath(d.ops[entry.op].ask)
ValuesTraced(d) ==
  \A p \in Path :
    LET entry == d.values[p]
    IN entry.op # NoOp =>
         /\ p \in Readable
         /\ d.ops[entry.op].state = "succeeded" /\ d.ops[entry.op].ask.kind = "values"
         /\ d.ops[entry.op].finished = entry.at
         /\ p \in DOMAIN d.ops[entry.op].result /\ d.ops[entry.op].result[p] = entry.value
Traced(d) == CatalogTraced(d) /\ ValuesTraced(d)

LEMMA ProgressTraced ==
  ASSUME NEW d \in Tables, NEW e, Progress(d, e), e.catalog = d.catalog, e.values = d.values, Traced(d)
  PROVE  Traced(e)
<1>1. \A p \in Path : d.catalog[p].op \in OpId \cup {NoOp} /\ d.values[p].op \in OpId \cup {NoOp}
  BY DEF Tables
<1>2. \A o \in OpId : d.ops[o].state = "succeeded" => e.ops[o] = d.ops[o]
  BY DEF Progress, OpProgress, Terminal, Answered
<1>3. CatalogTraced(e) BY <1>1, <1>2 DEF Traced, CatalogTraced
<1>4. ValuesTraced(e) BY <1>1, <1>2 DEF Traced, ValuesTraced
<1> QED BY <1>3, <1>4 DEF Traced

\* Whatever is stored of a valid answer was asked for, and its operation says the same.
LEMMA ConcludeTraced ==
  ASSUME NEW d \in Tables, NEW s \in SessionId, NEW o \in OpId, NEW r \in Answer, NEW now \in Nat,
         d.ops[o].state = "dispatched", r.kind \in {"fault", d.ops[o].ask.kind},
         AsksReviewed(d.ops[o].ask), Traced(d)
  PROVE  Traced(Conclude(d, s, o, r, now))
<1> DEFINE e == Conclude(d, s, o, r, now)
           ask == d.ops[o].ask
           valid == Reason(ask, r) = "none"
           named == IF r.kind = "names" /\ valid
                    THEN {p \in Kept(d, o, DOMAIN r.content).names : d.catalog[p].at <= now} ELSE {}
           read == IF r.kind = "values" /\ valid /\ ~ Telemetric(ask)
                   THEN {p \in DOMAIN r.content : d.values[p].at <= now} ELSE {}
<1>1. Concluded(d, e, o, r, now) BY ConcludeRows
<1>2. /\ e.catalog = [p \in Path |-> IF p \in named THEN [op |-> o, at |-> now] ELSE d.catalog[p]]
      /\ e.values = [p \in Path |-> IF p \in read THEN [op |-> o, at |-> now, value |-> r.content[p]]
                                                  ELSE d.values[p]]
  <2>1. e.catalog = Collect(d, o, r, now).catalog /\ e.values = Collect(d, o, r, now).values
    BY <1>1 DEF Concluded
  <2> HIDE DEF e
  <2> QED BY <2>1 DEF Collect, Tables
<1>3. ask \in Ask /\ d.ops[o] \in Operation BY RowTypes DEF Operation
<1>4. /\ e.ops[o].ask = ask /\ e.ops[o].finished = now /\ e.ops[o].result = Result(ask, r)
      /\ valid => e.ops[o].state = "succeeded"
  BY <1>1, <1>3 DEF Concluded, AnsweredRow, Operation
<1>5. \A p \in named : valid /\ ask.kind = "names" /\ Parent[p] = PlanPath(ask)
  BY DEF Kept, Reason, Listable
<1>6. ASSUME NEW p \in read
      PROVE  /\ valid /\ ask.kind = "values" /\ p \in Readable
             /\ p \in DOMAIN Result(ask, r) /\ Result(ask, r)[p] = r.content[p]
  <2>1. /\ valid /\ r.kind = "values" /\ ask.kind = "values" /\ ~ Telemetric(ask)
        /\ p \in DOMAIN r.content
    BY <1>6
  <2>2. DOMAIN r.content = PlanNames(ask) /\ \A q \in DOMAIN r.content : Storable(ask, r.content[q])
    BY <2>1 DEF Reason
  <2>3. ask.path = NoPath BY <2>1 DEF Telemetric
  <2>4. p \in Readable BY <2>1, <2>2, <2>3 DEF PlanNames, AsksReviewed
  <2>5. CASE FeedsInventory(ask, r)
    <3>1. r.content[p] \in Value BY <2>1, <2>2, <2>5 DEF Storable, FeedsInventory
    <3>2. Result(ask, r) = [q \in Readable |-> IF r.content[q] \in Value THEN r.content[q] ELSE NoValue]
      BY <2>1, <2>5 DEF Result
    <3> QED BY <2>1, <2>4, <3>1, <3>2
  <2>6. CASE ~ FeedsInventory(ask, r)
    <3>1. Result(ask, r) = r.content BY <2>1, <2>6 DEF Result, Measures
    <3> QED BY <2>1, <2>4, <3>1
  <2> QED BY <2>5, <2>6
<1> HIDE DEF e, named, read, valid, ask
<1>7. \A p \in Path : /\ d.catalog[p].op \in OpId \cup {NoOp} /\ d.values[p].op \in OpId \cup {NoOp}
                      /\ d.catalog[p].op # o /\ d.values[p].op # o
  <2>1. o # NoOp BY IdAssumption
  <2> QED BY <2>1 DEF Tables, Traced, CatalogTraced, ValuesTraced
<1>8. \A q \in OpId : q # o => e.ops[q] = d.ops[q] BY <1>1 DEF Concluded
<1>9. CatalogTraced(e)
  <2> SUFFICES ASSUME NEW p \in Path, e.catalog[p].op # NoOp
               PROVE  LET entry == e.catalog[p]
                      IN /\ e.ops[entry.op].state = "succeeded" /\ e.ops[entry.op].ask.kind = "names"
                         /\ e.ops[entry.op].finished = entry.at
                         /\ Parent[p] = PlanPath(e.ops[entry.op].ask)
    BY DEF CatalogTraced
  <2>1. CASE p \in named
    <3>1. e.catalog[p] = [op |-> o, at |-> now] BY <1>2, <2>1
    <3> QED BY <1>4, <1>5, <2>1, <3>1
  <2>2. CASE p \notin named
    <3>1. e.catalog[p] = d.catalog[p] BY <1>2, <2>2
    <3>2. e.ops[e.catalog[p].op] = d.ops[d.catalog[p].op] BY <1>7, <1>8, <3>1
    <3> QED BY <3>1, <3>2 DEF Traced, CatalogTraced
  <2> QED BY <2>1, <2>2
<1>10. ValuesTraced(e)
  <2> SUFFICES ASSUME NEW p \in Path, e.values[p].op # NoOp
               PROVE  LET entry == e.values[p]
                      IN /\ p \in Readable
                         /\ e.ops[entry.op].state = "succeeded" /\ e.ops[entry.op].ask.kind = "values"
                         /\ e.ops[entry.op].finished = entry.at
                         /\ p \in DOMAIN e.ops[entry.op].result
                         /\ e.ops[entry.op].result[p] = entry.value
    BY DEF ValuesTraced
  <2>1. CASE p \in read
    <3>1. e.values[p] = [op |-> o, at |-> now, value |-> r.content[p]] BY <1>2, <2>1
    <3> QED BY <1>4, <1>6, <2>1, <3>1
  <2>2. CASE p \notin read
    <3>1. e.values[p] = d.values[p] BY <1>2, <2>2
    <3>2. e.ops[e.values[p].op] = d.ops[d.values[p].op] BY <1>7, <1>8, <3>1
    <3> QED BY <3>1, <3>2 DEF Traced, ValuesTraced
  <2> QED BY <2>1, <2>2
<1> QED BY <1>9, <1>10 DEF Traced, e

LEMMA PlannedSame ==
  ASSUME NEW d \in Tables, NEW e \in Tables, Planned(d),
         \A o \in OpId : e.ops[o].ask = d.ops[o].ask,
         \A j \in JobId : /\ e.jobs[j].spec = d.jobs[j].spec
                          /\ e.jobs[j].frontier = d.jobs[j].frontier
  PROVE  Planned(e)
BY DEF Planned, AsksReviewed, StepsReadable

LEMMA FirstOf ==
  ASSUME NEW S \in SUBSET Path, NEW n \in Int
  PROVE  First(S, n) \subseteq S
<1>1. Sorted[S] \in Seq(Path) BY PathAssumption
<1>2. DOMAIN Sorted[S] = 1..Len(Sorted[S]) /\ Len(Sorted[S]) \in Nat BY <1>1, LenProperties
<1>3. {Sorted[S][i] : i \in DOMAIN Sorted[S]} = S BY SortedAssumption
<1> QED BY <1>2, <1>3 DEF First

LEMMA PlannedExpire ==
  ASSUME NEW d \in Tables, Planned(d), NEW now \in Nat
  PROVE  Planned(Expire(d, now))
<1>1. Expire(d, now) \in Tables BY ExpireType
<1>2. \A o \in OpId : d.ops[o] \in Operation BY RowTypes
<1>3. /\ \A o \in OpId : Expire(d, now).ops[o].ask = d.ops[o].ask
      /\ Expire(d, now).jobs = d.jobs
  BY <1>2 DEF Expire, Tables, Operation
<1> QED BY <1>1, <1>3, PlannedSame

LEMMA PlannedJob ==
  ASSUME NEW d \in Tables, Planned(d), NEW j \in JobId, NEW row, StepsReadable(row)
  PROVE  Planned([d EXCEPT !.jobs[j] = row])
<1>1. LET e == [d EXCEPT !.jobs[j] = row]
      IN e.ops = d.ops /\ e.jobs[j] = row /\ \A i \in JobId : i # j => e.jobs[i] = d.jobs[i]
  BY DEF Tables
<1> QED BY <1>1 DEF Planned

LEMMA PlannedEnqueue ==
  ASSUME NEW d \in Tables, Planned(d), NEW id \in OpId, NEW key, NEW ask, AsksReviewed(ask), NEW now
  PROVE  Planned(Enqueue(d, id, key, ask, now))
<1>1. LET e == Enqueue(d, id, key, ask, now)
      IN /\ e.jobs = d.jobs /\ e.ops[id].ask = ask
         /\ \A o \in OpId : o # id => e.ops[o] = d.ops[o]
  BY DEF Enqueue, NoOperation, Tables
<1> QED BY <1>1 DEF Planned

\* The elements of two sequences in a row.
LEMMA Joined ==
  ASSUME NEW S, NEW a \in Seq(S), NEW b \in Seq(S)
  PROVE  /\ a \o b \in Seq(S) /\ Len(a \o b) = Len(a) + Len(b)
         /\ \A j \in 1..Len(a) : (a \o b)[j] = a[j]
         /\ \A k \in 1..Len(b) : (a \o b)[Len(a) + k] = b[k]
         /\ \A i \in DOMAIN (a \o b) : \/ i \in DOMAIN a /\ (a \o b)[i] = a[i]
                                       \/ \E k \in DOMAIN b : (a \o b)[i] = b[k]
<1>1. /\ a \o b \in Seq(S) /\ Len(a \o b) = Len(a) + Len(b)
      /\ \A j \in 1..Len(a) : (a \o b)[j] = a[j]
      /\ \A k \in 1..Len(b) : (a \o b)[Len(a) + k] = b[k]
  OBVIOUS
<1>2. DOMAIN (a \o b) = 1..Len(a \o b) /\ DOMAIN a = 1..Len(a) /\ DOMAIN b = 1..Len(b)
      /\ Len(a) \in Nat /\ Len(b) \in Nat
  BY <1>1
<1>3. ASSUME NEW i \in DOMAIN (a \o b), i \notin 1..Len(a)
      PROVE  \E k \in DOMAIN b : (a \o b)[i] = b[k]
  <2>1. i - Len(a) \in 1..Len(b) /\ Len(a) + (i - Len(a)) = i BY <1>1, <1>2, <1>3
  <2> QED BY <1>1, <1>2, <2>1
<1> QED BY <1>1, <1>2, <1>3

LEMMA PlannedAbsorb ==
  ASSUME NEW d \in Tables, Planned(d), NEW j \in JobId
  PROVE  Planned(Absorb(d, j))
<1> DEFINE job == d.jobs[j]
<1>1. job \in Job /\ StepsReadable(job) BY RowTypes DEF Planned
<1>2. PICK row : /\ Absorb(d, j) = [d EXCEPT !.jobs[j] = row]
                 /\ row.spec = job.spec
                 /\ \/ row.frontier = job.frontier
                    \/ /\ job.spec.kind = "discovery"
                       /\ \E S \in SUBSET (Concrete \cap Object), depth \in Nat :
                            row.frontier = job.frontier \o Branches(Sorted[S], depth)
  <2> DEFINE op == d.ops[job.current]
             ended == [job EXCEPT !.current = NoOp, !.completed = @ + 1]
             row == IF op.state # "succeeded"
                    THEN [ended EXCEPT !.failures = Append(@, [op |-> job.current, reason |-> op.reason])]
                    ELSE IF job.spec.kind = "discovery"
                    THEN Discovered(ended, Entries(d, job.current))
                    ELSE [ended EXCEPT !.entries = @ + Cardinality(DOMAIN op.result)]
  <2>1. Absorb(d, j) = [d EXCEPT !.jobs[j] = row] BY DEF Absorb
  <2>2. CASE op.state = "succeeded" /\ job.spec.kind = "discovery"
    <3> DEFINE S == Deeper(ended, Entries(d, job.current))
    <3>1. ended.frontier = job.frontier /\ ended.depth = job.depth /\ job.depth \in Nat
      BY <1>1 DEF Job
    <3>2. row.spec = job.spec /\ row.frontier = job.frontier \o Branches(Sorted[S], job.depth + 1)
      BY <1>1, <2>2, <3>1 DEF Discovered, Job
    <3>3. S \in SUBSET (Concrete \cap Object) BY DEF Deeper
    <3> HIDE DEF S, row, ended
    <3>4. /\ job.spec.kind = "discovery"
          /\ \E X \in SUBSET (Concrete \cap Object), depth \in Nat :
               row.frontier = job.frontier \o Branches(Sorted[X], depth)
      <4>1. job.depth + 1 \in Nat BY <3>1
      <4> HIDE DEF job
      <4> QED BY <2>2, <3>2, <3>3, <4>1, Zenon
    <3> QED BY <2>1, <3>2, <3>4, Zenon
  <2>3. CASE ~ (op.state = "succeeded" /\ job.spec.kind = "discovery")
    <3>1. row.spec = job.spec /\ row.frontier = job.frontier BY <1>1, <2>3 DEF Job
    <3> HIDE DEF row
    <3> QED BY <2>1, <3>1
  <2> QED BY <2>2, <2>3
<1>3. StepsReadable(row)
  <2>1. CASE row.frontier = job.frontier BY <1>1, <1>2, <2>1 DEF StepsReadable
  <2>2. CASE row.frontier # job.frontier
    <3>1. PICK S \in SUBSET (Concrete \cap Object), depth \in Nat :
            row.frontier = job.frontier \o Branches(Sorted[S], depth)
      BY <1>2, <2>2
    <3> DEFINE more == Branches(Sorted[S], depth)
    <3>2. S \in SUBSET Path /\ Sorted[S] \in Seq(Path) BY PathAssumption
    <3>3. \A i \in 1..Len(Sorted[S]) : Sorted[S][i] \in S
      BY <3>2, SortedAssumption
    <3>4. more \in Seq(Step) /\ job.frontier \in Seq(Step)
      BY <1>1, <3>2, BranchesType DEF Job
    <3>5. \A i \in DOMAIN job.frontier : /\ job.frontier[i].path \in Concrete \cap Object
                                         /\ job.frontier[i].names = {}
      BY <1>1, <1>2, <2>2 DEF StepsReadable
    <3>6. \A i \in DOMAIN more : more[i].path \in Concrete \cap Object /\ more[i].names = {}
      BY <3>3 DEF Branches
    <3> HIDE DEF more, job
    <3>7. \A i \in DOMAIN (job.frontier \o more) :
            /\ (job.frontier \o more)[i].path \in Concrete \cap Object
            /\ (job.frontier \o more)[i].names = {}
      BY <3>4, <3>5, <3>6, Joined
    <3>8. row.frontier = job.frontier \o more BY <3>1 DEF more
    <3>9. row.spec.kind = "discovery" BY <1>2, <2>2
    <3> QED BY <3>7, <3>8, <3>9 DEF StepsReadable
  <2> QED BY <2>1, <2>2
<1>4. Planned([d EXCEPT !.jobs[j] = row]) BY <1>3, PlannedJob
<1> QED BY ONLY <1>2, <1>4

LEMMA PlannedContinue ==
  ASSUME NEW d \in Tables, Planned(d), NEW j \in JobId, NEW id \in OpId, NEW now \in Nat
  PROVE  Planned(Continue(d, j, id, now))
<1> DEFINE job == d.jobs[j]
           step == Head(job.frontier)
           names == First(step.names, job.spec.max_entries - job.entries)
           ask == [kind |-> IF job.spec.kind = "discovery" THEN "names" ELSE "values",
                   path |-> step.path, names |-> names]
           next == [job EXCEPT !.frontier = Tail(@), !.current = id, !.depth = step.depth,
                               !.rpcs = @ + 1, !.issued = Append(@, id),
                               !.limits = @ \cup {l \in {"max_entries"} : names # step.names}]
           stopped == [job EXCEPT !.limits = @ \cup Exhausted(job)]
           queued == Enqueue(d, id, NoKey, ask, now)
<1>1. job \in Job /\ StepsReadable(job) BY RowTypes DEF Planned
<1>2. CASE Continue(d, j, id, now) = [d EXCEPT !.jobs[j] = Ended(stopped)]
  <2>1. Ended(stopped).spec = job.spec /\ Ended(stopped).frontier = job.frontier
    BY <1>1 DEF Ended, Job
  <2>2. StepsReadable(Ended(stopped)) BY <1>1, <2>1 DEF StepsReadable
  <2>3. Planned([d EXCEPT !.jobs[j] = Ended(stopped)]) BY <2>2, PlannedJob
  <2> QED BY ONLY <1>2, <2>3
<1>3. CASE Continue(d, j, id, now) = [d EXCEPT !.jobs[j] = Ended(Refused(job))]
  <2>1. Ended(Refused(job)).frontier = <<>> BY <1>1 DEF Ended, Refused, Job
  <2>2. StepsReadable(Ended(Refused(job))) BY <2>1 DEF StepsReadable
  <2>3. Planned([d EXCEPT !.jobs[j] = Ended(Refused(job))]) BY <2>2, PlannedJob
  <2> QED BY ONLY <1>3, <2>3
<1>4. CASE job.frontier # <<>> /\ Continue(d, j, id, now) = [queued EXCEPT !.jobs[j] = next]
  <2>1. /\ step \in Step /\ step = job.frontier[1] /\ 1 \in DOMAIN job.frontier
        /\ Tail(job.frontier) \in Seq(Step) /\ ask \in Ask
        /\ \A i \in DOMAIN Tail(job.frontier) :
             /\ i + 1 \in DOMAIN job.frontier
             /\ Tail(job.frontier)[i] = job.frontier[i + 1]
    <3>1. job.frontier \in Seq(Step) BY <1>1 DEF Job
    <3> HIDE DEF job
    <3> QED BY <1>1, <1>4, <3>1, StepAsk, HeadTailProperties
  <2>2. job.spec.max_entries - job.entries \in Int BY <1>1 DEF Job, Spec0
  <2>3. names \subseteq step.names BY <2>1, <2>2, FirstOf DEF Step
  <2>4. AsksReviewed(ask)
    <3>1. /\ job.spec.kind = "values" => step.names \subseteq Readable /\ step.path = NoPath
          /\ job.spec.kind = "discovery" => step.names = {} /\ step.path \in Concrete \cap Object
      BY <1>1, <2>1 DEF StepsReadable
    <3>2. job.spec.kind # "values" => job.spec.kind = "discovery" BY <1>1 DEF Job, Spec0
    <3> QED BY <2>3, <3>1, <3>2 DEF AsksReviewed, Telemetric
  <2>5. next.spec = job.spec /\ next.frontier = Tail(job.frontier) BY <1>1 DEF Job
  <2>6. StepsReadable(next) BY <1>1, <2>1, <2>5 DEF StepsReadable
  <2> HIDE DEF next, ask
  <2>7. queued \in Tables /\ Planned(queued) BY <2>1, <2>4, EnqueueType, PlannedEnqueue
  <2> HIDE DEF queued
  <2>8. Planned([queued EXCEPT !.jobs[j] = next]) BY <2>6, <2>7, PlannedJob
  <2> QED BY ONLY <1>4, <2>8
<1> QED BY <1>2, <1>3, <1>4 DEF Continue

LEMMA PlannedAdvance ==
  ASSUME NEW d \in Tables, Planned(d), NEW j \in JobId, NEW id \in OpId, NEW now \in Nat
  PROVE  Planned(Advance(d, j, id, now))
<1>1. d.jobs[j].current \in OpId \cup {NoOp} BY RowTypes DEF Job
<1> QED BY <1>1, AbsorbType, PlannedAbsorb, PlannedContinue DEF Advance

LEMMA PlannedAdvanceActive ==
  ASSUME NEW d \in Tables, Planned(d), NEW id \in OpId, NEW now \in Nat
  PROVE  Planned(AdvanceActive(d, id, now))
<1>1. Running(d) # {} => (CHOOSE j \in Running(d) : TRUE) \in JobId BY DEF Running
<1> QED BY <1>1, PlannedAdvance DEF AdvanceActive

LEMMA PlannedSettled ==
  ASSUME db \in Tables, Planned(db), NEW id \in OpId, NEW now \in Nat
  PROVE  Settled(id, now) \in Tables /\ Planned(Settled(id, now))
BY ExpireType, PlannedExpire, AdvanceActiveType, PlannedAdvanceActive DEF Settled

LEMMA PlannedNewJob ==
  ASSUME NEW spec \in Spec0, spec.kind = "values" => spec.names \subseteq Readable,
         spec.kind = "discovery" => spec.root \in Concrete \cap Object
  PROVE  StepsReadable(NewJob(spec))
<1> DEFINE names == Sorted[spec.names]
           size == spec.batch_size
           count == BatchCount(Len(names), size)
           last(i) == IF i * size < Len(names) THEN i * size ELSE Len(names)
           batch(i) == {names[n] : n \in ((i - 1) * size + 1)..last(i)}
<1>1. names \in Seq(Path) /\ size \in Nat \ {0} /\ {names[n] : n \in DOMAIN names} = spec.names
  BY PathAssumption, SortedAssumption DEF Spec0
<1>2. Len(names) \in Nat /\ DOMAIN names = 1..Len(names)
  BY <1>1, LenProperties
<1>3. count \in Nat
  <2> HIDE DEF names, size
  <2> QED BY <1>1, <1>2 DEF BatchCount
<1>4. \A i \in 1..count : batch(i) \subseteq spec.names
  <2> SUFFICES ASSUME NEW i \in 1..count, NEW n \in ((i - 1) * size + 1)..last(i)
               PROVE  names[n] \in spec.names
    OBVIOUS
  <2>1. (i - 1) * size \in Nat /\ i * size \in Nat
    BY <1>1, <1>3
  <2>2. n \in DOMAIN names
    <3> HIDE DEF names, size
    <3> QED BY <1>2, <2>1
  <2> QED BY <1>1, <2>2
<1>5. Batches(spec) = [i \in 1..count |-> [path |-> NoPath, depth |-> 0, names |-> batch(i)]]
  BY DEF Batches
<1>6. /\ NewJob(spec).spec = spec
      /\ spec.kind = "values" => NewJob(spec).frontier = Batches(spec)
      /\ spec.kind = "discovery" =>
           NewJob(spec).frontier = <<[path |-> spec.root, depth |-> 0, names |-> {}]>>
  BY DEF NewJob, NoJob, Branches
<1> HIDE DEF count, batch
<1>7. spec.kind = "values" => \A i \in DOMAIN Batches(spec) :
        Batches(spec)[i].path = NoPath /\ Batches(spec)[i].names \subseteq Readable
  BY <1>4, <1>5
<1> QED BY <1>6, <1>7 DEF StepsReadable

LEMMA PlannedAdminister ==
  ASSUME db \in Tables, Planned(db), NEW now \in Nat, Administer(now)
  PROVE  Planned(db')
<1> DEFINE d == Expire(db, now)
<1>1. d \in Tables /\ Planned(d) BY ExpireType, PlannedExpire
<1>2. \A id \in NextId : id \in OpId BY DEF NextId
<1> HIDE DEF d
<1>3. CASE db' = d BY <1>1, <1>3
<1>4. ASSUME NEW key, NEW ask, NEW id \in NextId, CreateQuery(key, ask, id, now)
      PROVE  Planned(db')
  <2>1. AsksReviewed(ask) /\ db' = Enqueue(d, id, key, ask, now)
    BY <1>4 DEF CreateQuery, Plannable, AsksReviewed, Telemetric, d
  <2> QED BY <1>1, <1>2, <2>1, PlannedEnqueue
<1>5. ASSUME NEW key, NEW ask \in Asks, NEW id \in NextId, CreateTelemetry(key, ask, id, now)
      PROVE  Planned(db')
  <2>1. PICK names : /\ db' = Enqueue(d, id, key, [ask EXCEPT !.names = Selected(ask.path, names)], now)
                     /\ Selectable(ask.path, Selected(ask.path, names)) /\ names \subseteq Path
    <3>1. PICK evidence \in Evidence(d, now) :
            LET names == IF ask.names = {} THEN Available(d, evidence) ELSE ask.names
            IN /\ names \subseteq Available(d, evidence)
               /\ Selectable(ask.path, Selected(ask.path, names))
               /\ db' = Enqueue(d, id, key, [ask EXCEPT !.names = Selected(ask.path, names)], now)
      BY <1>5, Zenon DEF CreateTelemetry, d
    <3>2. evidence \subseteq OpId /\ \A o \in OpId : DOMAIN d.ops[o].result \subseteq Path
      BY <1>1, RowTypes, ContentDomain DEF Evidence, Newest, Recent, Operation
    <3>3. Available(d, evidence) \subseteq Path BY <3>2 DEF Available
    <3> QED BY <3>1, <3>3
  <2>2. ask \in Ask /\ ask.path # NoPath
    BY <1>5, InputTypes DEF CreateTelemetry, Telemetric
  <2>3. AsksReviewed([ask EXCEPT !.names = Selected(ask.path, names)])
    <3> DEFINE some == Selected(ask.path, names)
               full == [ask EXCEPT !.names = some]
    <3>1. some \subseteq Path /\ Selected(ask.path, some) = some BY <2>1 DEF Selected
    <3>2. some \subseteq Selected(ask.path, Path) BY <2>1 DEF Selected
    <3>3. Selectable(ask.path, some) BY <2>1
    <3> HIDE DEF some
    <3>4. full.kind = "values" /\ full.path = ask.path /\ full.names = some
      BY <1>5, <2>2 DEF Ask, CreateTelemetry, Telemetric
    <3> HIDE DEF full
    <3>5. AsksReviewed(full) BY <2>2, <3>2, <3>3, <3>4 DEF AsksReviewed
    <3> QED BY <3>5 DEF full, some
  <2> QED BY <1>1, <1>2, <2>1, <2>3, PlannedEnqueue
<1>6. ASSUME NEW j \in JobId, NEW spec \in Specs, NEW id \in NextId, CreateCollection(j, spec, id, now)
      PROVE  Planned(db')
  <2> DEFINE started == [d EXCEPT !.jobs[j] = NewJob(spec)]
  <2>1. /\ spec \in Spec0
        /\ spec.kind = "discovery" => spec.root \in Path /\ spec.root \in Concrete \cap Object
        /\ spec.kind = "values" => spec.names \subseteq Readable
    BY <1>6, InputTypes, PathAssumption DEF CreateCollection, Admissible
  <2>2. NewJob(spec) \in Job /\ StepsReadable(NewJob(spec)) BY <2>1, NewJobType, PlannedNewJob
  <2>3. started \in Tables /\ Planned(started) BY <1>1, <2>2, PutJob, PlannedJob
  <2>4. db' = Advance(started, j, id, now) BY <1>6 DEF CreateCollection, d
  <2> HIDE DEF started
  <2> QED BY <1>2, <2>3, <2>4, PlannedAdvance
<1>7. ASSUME NEW j \in JobId, NEW id \in NextId, GetCollection(j, id, now) PROVE Planned(db')
  BY <1>1, <1>2, <1>7, PlannedAdvance DEF GetCollection, d
<1> QED BY <1>3, <1>4, <1>5, <1>6, <1>7, Zenon
        DEF Administer, RepeatCreate, GetQuery, RepeatCollection, d

\* A handler that answers no RPC leaves the requests, the plans and what is stored alone.
Untouched(d, e) ==
  /\ \A o \in OpId :
       /\ e.ops[o].ask = d.ops[o].ask /\ e.ops[o].key = d.ops[o].key
       /\ e.ops[o].state \in Answered => e.ops[o] = d.ops[o] \/ TurnedDown(e.ops[o])
  /\ e.jobs = d.jobs /\ e.catalog = d.catalog /\ e.values = d.values

LEMMA FinishUntouched ==
  ASSUME NEW d \in Tables, NEW s
  PROVE  Untouched(d, Finish(d, s))
BY DEF Untouched, Finish, Tables

LEMMA FailUntouched ==
  ASSUME NEW d \in Tables, NEW o \in OpId, NEW now, NEW s
  PROVE  Untouched(d, Finish(Fail(d, o, "profile_changed", now), s))
<1> DEFINE e == Finish(Fail(d, o, "profile_changed", now), s)
           row == [d.ops[o] EXCEPT !.state = "failed", !.reason = "profile_changed", !.finished = now]
<1>1. d.ops[o] \in Operation BY RowTypes
<1>2. /\ \A p \in OpId : p # o => e.ops[p] = d.ops[p]
      /\ e.ops[o] = row
      /\ e.jobs = d.jobs /\ e.catalog = d.catalog /\ e.values = d.values
  BY DEF Finish, Fail, Tables
<1>3. row.ask = d.ops[o].ask /\ row.key = d.ops[o].key /\ TurnedDown(row) BY <1>1 DEF Operation, TurnedDown
<1> HIDE DEF e, row
<1>4. Untouched(d, e) BY <1>2, <1>3 DEF Untouched
<1> QED BY <1>4 DEF e

LEMMA ReceiveUntouched ==
  ASSUME TypeOK, NEW s \in SessionId, NEW id \in OpId, NEW now \in Nat, Settled(id, now) \in Tables,
         \/ Poll(s, id, now) \/ ReplyProfileChanged(s, id, now) \/ ReplyLate(s, id, now)
         \/ \E r \in Answers : ReplyRepeated(s, id, r, now)
  PROVE  Untouched(Settled(id, now), db')
<1> DEFINE d == Settled(id, now)
<1>1. d \in Tables /\ Untouched(d, d) BY DEF Untouched
<1>2. CASE PollDispatch(s, id, now)
  <2>1. PICK o \in OpId : \E row, end :
          /\ db' = [d EXCEPT !.ops[o] = row, !.sessions[s] = end]
          /\ row.ask = d.ops[o].ask /\ row.key = d.ops[o].key /\ row.state = "dispatched"
    <3>1. \A o \in OpId : d.ops[o] \in Operation BY <1>1, RowTypes
    <3>2. PICK o \in OpId :
            LET deadline == IF d.ops[o].expires < now + RpcSeconds THEN d.ops[o].expires
                                                                   ELSE now + RpcSeconds
            IN db' = [d EXCEPT
                 !.ops[o] = [@ EXCEPT !.state = "dispatched", !.expires = deadline,
                                      !.session = s, !.sent = clock],
                 !.sessions[s] = [state |-> "awaiting_response", expires |-> deadline]]
      BY <1>2 DEF PollDispatch
    <3> DEFINE deadline == IF d.ops[o].expires < now + RpcSeconds THEN d.ops[o].expires
                                                                  ELSE now + RpcSeconds
               row == [d.ops[o] EXCEPT !.state = "dispatched", !.expires = deadline,
                                       !.session = s, !.sent = clock]
    <3>3. row.ask = d.ops[o].ask /\ row.key = d.ops[o].key /\ row.state = "dispatched" BY <3>1 DEF Operation
    <3>4. db' = [d EXCEPT !.ops[o] = row,
                          !.sessions[s] = [state |-> "awaiting_response", expires |-> deadline]]
      BY <3>2, Zenon
    <3> QED BY <3>3, <3>4
  <2>2. PICK row, end : /\ db' = [d EXCEPT !.ops[o] = row, !.sessions[s] = end]
                        /\ row.ask = d.ops[o].ask /\ row.key = d.ops[o].key /\ row.state = "dispatched"
    BY <2>1
  <2> HIDE DEF d
  <2>3. /\ db'.ops[o] = row /\ \A p \in OpId : p # o => db'.ops[p] = d.ops[p]
        /\ db'.jobs = d.jobs /\ db'.catalog = d.catalog /\ db'.values = d.values
    BY <1>1, <2>2 DEF Tables
  <2> QED BY <2>2, <2>3 DEF Untouched, Answered, d
<1> HIDE DEF d
<1>3. CASE db' = d BY <1>1, <1>3 DEF d
<1>4. CASE db' = Finish(d, s) BY <1>1, <1>4, FinishUntouched DEF d
<1>5. ASSUME NEW o \in OpId, db' = Finish(Fail(d, o, "profile_changed", now), s)
      PROVE  Untouched(d, db')
  BY <1>1, <1>5, FailUntouched
<1>6. CASE Untouched(d, db') BY <1>6 DEF d
<1> QED BY <1>2, <1>3, <1>4, <1>5, <1>6, Zenon
        DEF Poll, PollCompleted, PollResend, PollProfileChanged, PollIdle,
            ReplyProfileChanged, ReplyLate, ReplyRepeated, d

\* DataProvenance, with the plans it rests on.
Sourced(d) == Planned(d) /\ Traced(d)

LEMMA UntouchedSourced ==
  ASSUME NEW d \in Tables, NEW e \in Tables, Untouched(d, e), Progress(d, e), Sourced(d)
  PROVE  Sourced(e)
BY ProgressTraced, PlannedSame DEF Untouched, Sourced

LEMMA ConcludeSourced ==
  ASSUME NEW d \in Tables, NEW s \in SessionId, NEW o \in OpId, NEW r \in Answer, NEW now \in Nat,
         d.ops[o].state = "dispatched", r.kind \in {"fault", d.ops[o].ask.kind}, Sourced(d)
  PROVE  Sourced(Conclude(d, s, o, r, now))
<1> DEFINE e == Conclude(d, s, o, r, now)
<1>1. Concluded(d, e, o, r, now) BY ConcludeRows
<1>2. d.ops[o] \in Operation BY RowTypes
<1> HIDE DEF e
<1>3. /\ \A p \in OpId : e.ops[p].ask = d.ops[p].ask
      /\ \A j \in JobId : e.jobs[j].spec = d.jobs[j].spec /\ e.jobs[j].frontier = d.jobs[j].frontier
  <2>1. AnsweredRow(d.ops[o], r, now).ask = d.ops[o].ask BY <1>2 DEF AnsweredRow, Operation
  <2> QED BY <1>1, <2>1 DEF Concluded
<1>4. e \in Tables BY ConcludeType DEF e
<1>5. Planned(e) BY <1>3, <1>4, PlannedSame DEF Sourced
<1>6. Traced(e) BY ConcludeTraced DEF Sourced, Planned, e
<1> QED BY <1>5, <1>6 DEF Sourced, e

LEMMA SettledSourced ==
  ASSUME db \in Tables, SlotInvariant, NEW id \in NextId, NEW now \in Nat, Sourced(db)
  PROVE  Sourced(Settled(id, now))
<1> DEFINE d == Settled(id, now)
<1>1. d \in Tables /\ Calm(db, d) /\ Planned(d)
  BY SlotSettled, SettledCalm, PlannedSettled DEF NextId, Sourced
<1> HIDE DEF d
<1>2. Traced(d) BY <1>1, ProgressTraced DEF Calm, Sourced
<1> QED BY <1>1, <1>2 DEF Sourced, d

LEMMA AppliedSourced ==
  ASSUME TypeOK, SlotInvariant, NEW s \in SessionId, NEW id \in NextId, NEW now \in Nat,
         NEW r \in Answers, ReplyApplied(s, id, r, now), Sourced(db), db' \in Tables
  PROVE  Sourced(db')
<1> DEFINE d == Settled(id, now)
<1>1. id \in OpId /\ d \in Tables /\ Slot(d) /\ Sourced(d) /\ d.ops[id].state \in {"absent", "pending"}
  BY SlotSettled, SettledSourced DEF TypeOK, NextId
<1> HIDE DEF d
<1>2. PICK o \in OpId : /\ d.ops[o].state = "dispatched" /\ d.ops[o].session = s
                        /\ r.kind \in {"fault", d.ops[o].ask.kind}
                        /\ db' = AdvanceActive(Conclude(d, s, o, r, now), id, now)
  BY DEF ReplyApplied, Correlated, d
<1> DEFINE e == Conclude(d, s, o, r, now)
<1>3. r \in Answer BY InputTypes
<1>4. e \in Tables /\ Sourced(e) /\ \A p \in OpId : p # o => e.ops[p] = d.ops[p]
  <2>1. e \in Tables /\ Sourced(e) BY <1>1, <1>2, <1>3, ConcludeType, ConcludeSourced
  <2>2. Concluded(d, e, o, r, now) BY <1>1, <1>2, <1>3, ConcludeRows
  <2> QED BY <2>1, <2>2 DEF Concluded
<1>5. d.ops[id].state = "absent" /\ id # o
  BY <1>1, <1>2 DEF Slot, Single, Active, Waiting
<1>6. db' = AdvanceActive(e, id, now) BY <1>2
<1> HIDE DEF e
<1>7. Fresh(e, id) BY <1>1, <1>4, <1>5 DEF Fresh, Slot, Unsent
<1>8. Calm(e, db') BY <1>1, <1>4, <1>6, <1>7, AdvanceActiveCalm
<1>9. Traced(db') BY <1>4, <1>8, ProgressTraced DEF Calm, Sourced
<1>10. Planned(db') BY <1>1, <1>4, <1>6, PlannedAdvanceActive DEF Sourced
<1> QED BY <1>9, <1>10 DEF Sourced

LEMMA NextSourced ==
  ASSUME TypeOK, SlotInvariant, Timely(db, clock), Sourced(db), [Next]_vars
  PROVE  Sourced(db')
<1>1. db \in Tables /\ clock \in Nat /\ db' \in Tables BY NextType DEF TypeOK
<1>2. \A now \in Times : now \in Nat /\ now <= clock BY <1>1 DEF Times
<1>3. CASE db' = db BY <1>3
<1>4. ASSUME NEW now \in Times, Administer(now) PROVE Sourced(db')
  <2>1. Calm(db, db') BY <1>1, <1>2, <1>4, AdministerCalm
  <2>2. Traced(db') BY <1>1, <2>1, ProgressTraced DEF Calm, Sourced
  <2>3. Planned(db') BY <1>1, <1>2, <1>4, PlannedAdminister DEF Sourced
  <2> QED BY <2>2, <2>3 DEF Sourced
<1>5. ASSUME NEW now \in Times, NEW s \in SessionId, NEW inform \in Informs, Inform(s, inform, now)
      PROVE  Sourced(db')
  <2>1. Calm(db, db') BY <1>1, <1>2, <1>5, InformCalm
  <2>2. db'.ops = db.ops /\ db'.jobs = db.jobs
    BY <1>1, <1>5 DEF Inform, UpdateInventory, Tables
  <2>3. Untouched(db, db') BY <2>1, <2>2 DEF Calm, Untouched
  <2> QED BY <1>1, <2>1, <2>3, UntouchedSourced DEF Calm
<1>6. ASSUME NEW now \in Times, NEW s \in SessionId, NEW id \in NextId,
             Poll(s, id, now) \/ Reply(s, id, now)
      PROVE  Sourced(db')
  <2> DEFINE d == Settled(id, now)
  <2>1. id \in OpId /\ d \in Tables /\ Sourced(d) /\ Calm(db, d)
    BY <1>1, <1>2, SlotSettled, SettledSourced, SettledCalm DEF NextId
  <2>2. ASSUME NEW r \in Answers, ReplyApplied(s, id, r, now) PROVE Sourced(db')
    BY <1>1, <1>2, <2>2, AppliedSourced
  <2>3. Progress(d, db')
    <3>1. Timely(d, clock) BY <1>1, <2>1, CalmTimely
    <3> QED BY <1>1, <1>2, <1>6, <3>1, PollStep, ReplyStep DEF Lawful
  <2>4. CASE Untouched(d, db') BY <1>1, <2>1, <2>3, <2>4, UntouchedSourced
  <2>5. CASE \/ Poll(s, id, now) \/ ReplyProfileChanged(s, id, now) \/ ReplyLate(s, id, now)
             \/ \E r \in Answers : ReplyRepeated(s, id, r, now)
    BY <1>2, <2>1, <2>4, <2>5, ReceiveUntouched
  <2> QED BY <1>6, <2>2, <2>5, Zenon DEF Reply
<1> QED BY <1>3, <1>4, <1>5, <1>6 DEF Next, Receive, Tick, vars

LEMMA InitSourced == Init => Sourced(db)
BY DEF Init, NoOperation, NoAsk, NoJob, NoSpec, Sourced, Planned, AsksReviewed, Telemetric,
       StepsReadable, Traced, CatalogTraced, ValuesTraced

LEMMA SourcedCorrect == Spec => []Sourced(db)
<1>1. TypeOK /\ SlotInvariant /\ Timely(db, clock) /\ Sourced(db) /\ [Next]_vars => Sourced(db)'
  BY NextSourced DEF Sourced, Planned, Traced, CatalogTraced, ValuesTraced
<1> QED BY <1>1, InitSourced, TypeCorrect, SlotCorrect, TimelyCorrect, PTL DEF Spec

\* Every name of the catalog and every stored value comes from the operation it names, which
\* succeeded at the time of the entry and says the same: for any paths, plans and answers.
THEOREM ProvenanceCorrect == Spec => []DataProvenance
<1>1. Sourced(db) => DataProvenance
  BY DEF Sourced, Traced, CatalogTraced, ValuesTraced, DataProvenance, CatalogProvenance,
         ValueProvenance
<1> QED BY <1>1, SourcedCorrect, PTL

============================================================================
