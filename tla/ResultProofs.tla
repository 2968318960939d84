---------------------------- MODULE ResultProofs ----------------------------
(***************************************************************************)
(* What the answers of the queue amount to.  Nothing stored is replaced by *)
(* what is older or forgotten, the telemetry can be traced and is asked    *)
(* for as discovered, the results come from a queue of one place, and the  *)
(* collection jobs account for them: their progress adds up and keeps      *)
(* within their limits, a discovery asks for no object twice, and a job    *)
(* that says it succeeded is complete.                                     *)
(***************************************************************************)
EXTENDS ReadQueueProofs

----------------------------------------------------------------------------
(* Observations never go back in time.                                     *)

\* Two tables with the same observations.
Keeps(d, e) == e.cpe = d.cpe /\ e.observed = d.observed /\ e.telemetry = d.telemetry

\* From one table to the next every observation stays or is replaced by a newer one.
InventoryMoves(d, e) ==
  \A f \in Readable : /\ e.observed[f] >= d.observed[f]
                      /\ e.cpe[f] # d.cpe[f] => e.observed[f] > d.observed[f]
TelemetryMoves(d, e) ==
  \A f \in Field : /\ e.telemetry[f] # d.telemetry[f] => e.telemetry[f].at > d.telemetry[f].at
                   /\ e.telemetry[f].value_at >= d.telemetry[f].value_at
                   /\ e.telemetry[f].value # d.telemetry[f].value =>
                        e.telemetry[f].value_at > d.telemetry[f].value_at
Moves(d, e) == InventoryMoves(d, e) /\ TelemetryMoves(d, e)

\* The last valid value of a field is no newer than its last observation.
Aged(d) == \A f \in Field : d.telemetry[f].value_at <= d.telemetry[f].at

----------------------------------------------------------------------------
(* The steps that touch no observation.                                    *)

LEMMA KeepsChain ==
  ASSUME NEW c, NEW d, NEW e, Keeps(c, d), Keeps(d, e)
  PROVE  Keeps(c, e)
BY DEF Keeps

LEMMA ExpireKeeps ==
  ASSUME NEW d \in Tables, NEW now
  PROVE  Keeps(d, Expire(d, now))
BY DEF Keeps, Tables, Expire

LEMMA EnqueueKeeps ==
  ASSUME NEW d \in Tables, NEW id, NEW key, NEW ask, NEW now
  PROVE  Keeps(d, Enqueue(d, id, key, ask, now))
BY DEF Keeps, Tables, Enqueue

LEMMA FinishKeeps ==
  ASSUME NEW d \in Tables, NEW s \in SessionId
  PROVE  Keeps(d, Finish(d, s))
BY DEF Keeps, Tables, Finish

LEMMA CloseKeeps ==
  ASSUME NEW d \in Tables, NEW o \in OpId, NEW s \in SessionId, NEW reason \in Reasons, NEW now \in Nat
  PROVE  Keeps(d, Finish(Fail(d, o, reason, now), s))
<1>1. Fail(d, o, reason, now) \in Tables /\ Keeps(d, Fail(d, o, reason, now))
  BY FailType DEF Keeps, Tables, Fail
<1> QED BY <1>1, FinishKeeps, KeepsChain

LEMMA JobKeeps ==
  ASSUME NEW d \in Tables, NEW j, NEW row
  PROVE  Keeps(d, [d EXCEPT !.jobs[j] = row])
BY DEF Keeps, Tables

LEMMA AdvanceKeeps ==
  ASSUME NEW d \in Tables, NEW j \in JobId, NEW id \in OpId, NEW now \in Nat
  PROVE  Keeps(d, Advance(d, j, id, now))
<1>1. ASSUME d.jobs[j].current # NoOp
      PROVE  Absorb(d, j) \in Tables /\ Keeps(d, Absorb(d, j))
  <2>1. d.jobs[j].current \in OpId
    BY <1>1, RowTypes DEF Job
  <2>2. PICK row : Absorb(d, j) = [d EXCEPT !.jobs[j] = row]
    BY Zenon DEF Absorb
  <2>3. Keeps(d, Absorb(d, j))
    BY <2>2, JobKeeps
  <2> QED BY <2>1, <2>3, AbsorbType
<1>2. ASSUME NEW c \in Tables
      PROVE  Keeps(c, Continue(c, j, id, now))
  <2>1. CASE \E row : Continue(c, j, id, now) = [c EXCEPT !.jobs[j] = row]
    <3>1. PICK row : Continue(c, j, id, now) = [c EXCEPT !.jobs[j] = row]
      BY <2>1
    <3>2. Keeps(c, [c EXCEPT !.jobs[j] = row])
      BY JobKeeps, Zenon
    <3> QED BY ONLY <3>1, <3>2
  <2>2. CASE \E ask \in Ask : \E row : Continue(c, j, id, now) =
                              [Enqueue(c, id, NoKey, ask, now) EXCEPT !.jobs[j] = row]
    <3>1. PICK ask, row : /\ ask \in Ask
                          /\ Continue(c, j, id, now) =
                               [Enqueue(c, id, NoKey, ask, now) EXCEPT !.jobs[j] = row]
      BY <2>2
    <3>2. Enqueue(c, id, NoKey, ask, now) \in Tables
      BY <3>1, EnqueueType
    <3> QED BY <3>1, <3>2, EnqueueKeeps, JobKeeps, KeepsChain
  <2>3. c.jobs[j] \in Job /\ (c.jobs[j].frontier # <<>> =>
          [kind |-> IF c.jobs[j].spec.kind = "discovery" THEN "names" ELSE "values",
           path |-> Head(c.jobs[j].frontier).path,
           names |-> First(Head(c.jobs[j].frontier).names,
                           c.jobs[j].spec.max_entries - c.jobs[j].entries)] \in Ask)
    BY RowTypes, StepAsk
  <2> QED BY <2>1, <2>2, <2>3, Zenon DEF Continue
<1> QED BY <1>1, <1>2, KeepsChain DEF Advance, Keeps

LEMMA AdvanceActiveKeeps ==
  ASSUME NEW d \in Tables, NEW id \in OpId, NEW now \in Nat
  PROVE  Keeps(d, AdvanceActive(d, id, now))
<1>1. Running(d) # {} => (CHOOSE j \in Running(d) : TRUE) \in JobId
  BY DEF Running
<1> QED BY <1>1, AdvanceKeeps DEF AdvanceActive, Keeps

LEMMA SettledKeeps ==
  ASSUME db \in Tables, NEW id \in OpId, NEW now \in Nat
  PROVE  Keeps(db, Settled(id, now))
BY ExpireType, ExpireKeeps, AdvanceActiveKeeps, KeepsChain DEF Settled

LEMMA CollectKeeps ==
  ASSUME NEW d \in Tables, NEW o, NEW r, NEW now
  PROVE  Keeps(d, Collect(d, o, r, now))
BY DEF Keeps, Tables, Collect

----------------------------------------------------------------------------
(* The steps that observe.                                                 *)

LEMMA KeepsMoves ==
  ASSUME NEW d \in Tables, Aged(d), NEW e, Keeps(d, e)
  PROVE  Moves(d, e) /\ Aged(e)
<1>1. /\ \A f \in Readable : d.observed[f] \in Nat
      /\ \A f \in Field : d.telemetry[f].at \in Nat /\ d.telemetry[f].value_at \in Nat
  BY DEF Tables, TelemetryField
<1> QED BY <1>1 DEF Keeps, Moves, InventoryMoves, TelemetryMoves, Aged

\* What surrounds the observing step of a transaction keeps what that step has moved.
LEMMA MovesBetween ==
  ASSUME NEW c, NEW d, NEW e, NEW f, Keeps(c, d), Moves(d, e), Aged(e), Keeps(e, f)
  PROVE  Moves(c, f) /\ Aged(f)
BY DEF Keeps, Moves, InventoryMoves, TelemetryMoves, Aged

LEMMA InventoryForward ==
  ASSUME NEW d \in Tables, Aged(d), NEW report \in Content, NEW now \in Nat
  PROVE  Moves(d, UpdateInventory(d, report, now)) /\ Aged(UpdateInventory(d, report, now))
<1> DEFINE e == UpdateInventory(d, report, now)
           newer == Newer(d, report, now)
<1>1. \A f \in Readable : d.observed[f] \in Nat
  BY DEF Tables
<1>2. /\ e.observed = [f \in Readable |-> IF f \in newer THEN now ELSE d.observed[f]]
      /\ e.cpe = [a \in Attribute |->
                    IF a \in newer /\ report[a] \in Value THEN report[a] ELSE d.cpe[a]]
      /\ e.telemetry = d.telemetry
  BY DEF UpdateInventory, Tables
<1>3. \A f \in newer : now > d.observed[f]
  BY DEF Newer
<1> HIDE DEF e, newer
<1>4. InventoryMoves(d, e)
  BY <1>1, <1>2, <1>3 DEF InventoryMoves, Attribute
<1>5. TelemetryMoves(d, e) /\ Aged(e)
  <2>1. \A f \in Field : d.telemetry[f].at \in Nat /\ d.telemetry[f].value_at \in Nat
    BY DEF Tables, TelemetryField
  <2> QED BY <1>2, <2>1 DEF TelemetryMoves, Aged
<1> QED BY <1>4, <1>5 DEF Moves, e

LEMMA TelemetryForward ==
  ASSUME NEW d \in Tables, Aged(d), NEW o \in OpId, NEW content \in Content, NEW now \in Nat
  PROVE  Moves(d, UpdateTelemetry(d, o, content, now)) /\ Aged(UpdateTelemetry(d, o, content, now))
<1> DEFINE e == UpdateTelemetry(d, o, content, now)
           late == Outdated(d, content, now)
           seen(f) == Observed(d.telemetry[f], f, o, content, now)
<1>1. \A f \in Field : /\ d.telemetry[f] \in TelemetryField
                       /\ d.telemetry[f].at \in Nat /\ d.telemetry[f].value_at \in Nat
  BY DEF Tables, TelemetryField
<1>2. /\ e.telemetry = [f \in Field |-> IF f \in late THEN seen(f) ELSE d.telemetry[f]]
      /\ e.cpe = d.cpe /\ e.observed = d.observed
  BY DEF UpdateTelemetry, Tables
<1>3. \A f \in late : d.telemetry[f].at < now
  BY DEF Outdated
<1>4. \A f \in Field :
        /\ seen(f).at = now
        /\ \/ seen(f).value_at = now
           \/ seen(f).value_at = d.telemetry[f].value_at /\ seen(f).value = d.telemetry[f].value
  BY <1>1 DEF Observed, TelemetryField
<1> HIDE DEF e, late, seen
<1>5. TelemetryMoves(d, e) /\ Aged(e)
  BY <1>1, <1>2, <1>3, <1>4 DEF TelemetryMoves, Aged
<1>6. InventoryMoves(d, e)
  <2>1. \A f \in Readable : d.observed[f] \in Nat
    BY DEF Tables
  <2> QED BY <1>2, <2>1 DEF InventoryMoves
<1> QED BY <1>5, <1>6 DEF Moves, e

LEMMA ConcludeForward ==
  ASSUME NEW d \in Tables, Aged(d), NEW s \in SessionId, NEW o \in OpId, NEW r \in Answer,
         NEW now \in Nat
  PROVE  Moves(d, Conclude(d, s, o, r, now)) /\ Aged(Conclude(d, s, o, r, now))
<1> DEFINE ask == d.ops[o].ask
           collected == Collect(d, o, r, now)
           noted == IF FeedsInventory(ask, r) THEN UpdateInventory(collected, r.content, now)
                                              ELSE collected
           measured == IF Measures(ask, r) THEN UpdateTelemetry(noted, o, r.content, now) ELSE noted
<1>1. r.content \in Content BY DEF Answer
<1>2. collected \in Tables /\ Keeps(d, collected)
  BY CollectType, CollectKeeps
<1>3. Aged(collected)
  BY <1>2 DEF Keeps, Aged
<1>4. ~ (FeedsInventory(ask, r) /\ Measures(ask, r))
  BY DEF FeedsInventory, Measures
<1> HIDE DEF collected, ask
<1>5. noted \in Tables
  BY <1>1, <1>2, UpdateInventoryType
<1>6. measured \in Tables
  <2> HIDE DEF noted
  <2> QED BY <1>1, <1>5, UpdateTelemetryType
<1>7. Moves(collected, measured) /\ Aged(measured)
  <2>1. Keeps(collected, collected) BY DEF Keeps
  <2>2. CASE Measures(ask, r)
    BY <1>1, <1>2, <1>3, <1>4, <2>2, TelemetryForward
  <2>3. CASE ~ Measures(ask, r) /\ FeedsInventory(ask, r)
    BY <1>1, <1>2, <1>3, <2>3, InventoryForward
  <2>4. CASE ~ Measures(ask, r) /\ ~ FeedsInventory(ask, r)
    BY <1>2, <1>3, <2>1, <2>4, KeepsMoves
  <2> QED BY <2>2, <2>3, <2>4
<1>8. Keeps(measured, Conclude(d, s, o, r, now))
  <2>1. \E row, end : Conclude(d, s, o, r, now) =
                      [measured EXCEPT !.ops[o] = row, !.sessions[s] = end]
    BY Zenon DEF Conclude, measured, noted, collected, ask
  <2> HIDE DEF measured
  <2> QED BY <1>6, <2>1 DEF Keeps, Tables
<1> HIDE DEF measured
<1> QED BY <1>2, <1>7, <1>8, MovesBetween

----------------------------------------------------------------------------
(* Transactions.                                                           *)

\* A session that gets no answer accepted is served without observing anything.
LEMMA StepKeeps ==
  ASSUME NEW s \in SessionId, NEW id \in OpId, NEW now \in Nat, Settled(id, now) \in Tables,
         \/ Poll(s, id, now) \/ ReplyProfileChanged(s, id, now) \/ ReplyLate(s, id, now)
         \/ \E r \in Answers : ReplyRepeated(s, id, r, now)
  PROVE  Keeps(Settled(id, now), db')
<1> DEFINE d == Settled(id, now)
<1>1. CASE db' = d BY <1>1 DEF Keeps
<1>2. CASE db' = Finish(d, s) BY <1>2, FinishKeeps
<1>3. CASE \E o \in OpId : db' = Finish(Fail(d, o, "profile_changed", now), s)
  BY <1>3, CloseKeeps DEF Reasons
<1>4. CASE PollDispatch(s, id, now)
  BY <1>4 DEF PollDispatch, Keeps, Tables
<1> QED BY <1>1, <1>2, <1>3, <1>4, Zenon
        DEF Poll, PollCompleted, PollResend, PollProfileChanged, PollIdle,
            ReplyRepeated, ReplyProfileChanged, ReplyLate

LEMMA ReceiveForward ==
  ASSUME db \in Tables, clock \in Nat, Aged(db), NEW now \in Nat, Receive(now)
  PROVE  Moves(db, db') /\ Aged(db')
<1>1. NextId \subseteq OpId BY DEF NextId
<1>2. ASSUME NEW s \in SessionId, NEW inform \in Informs, Inform(s, inform, now)
      PROVE  Moves(db, db') /\ Aged(db')
  <2> DEFINE named == [db EXCEPT !.cpe[Manufacturer] = inform.manufacturer]
             noted == UpdateInventory(named, inform.report, now)
  <2>1. inform.manufacturer \in Value /\ inform.report \in Content
    BY InputTypes DEF Inform0
  <2>2. named \in Tables
    BY <2>1 DEF Tables, Target
  <2>3. /\ named.observed = db.observed /\ named.telemetry = db.telemetry
        /\ \A f \in Readable : named.cpe[f] = db.cpe[f]
    BY PathAssumption DEF Tables, Target, Attribute
  <2>4. noted \in Tables
    BY <2>1, <2>2, UpdateInventoryType
  <2>5. \E row : db' = [noted EXCEPT !.sessions[s] = row]
    BY <1>2 DEF Inform
  <2>6. Keeps(noted, db')
    <3> HIDE DEF noted
    <3> QED BY <2>4, <2>5 DEF Keeps, Tables
  <2> HIDE DEF named
  <2>7. Aged(named)
    BY <2>3 DEF Aged
  <2>8. Moves(named, noted) /\ Aged(noted)
    BY <2>1, <2>2, <2>7, InventoryForward
  <2>9. Moves(db, noted)
    BY <2>3, <2>8 DEF Moves, InventoryMoves, TelemetryMoves
  <2>10. Keeps(db, db) BY DEF Keeps
  <2> HIDE DEF noted
  <2> QED BY <2>6, <2>8, <2>9, <2>10, MovesBetween
<1>3. ASSUME NEW s \in SessionId, NEW id \in NextId, Poll(s, id, now) \/ Reply(s, id, now)
      PROVE  Moves(db, db') /\ Aged(db')
  <2> DEFINE d == Settled(id, now)
  <2>1. d \in Tables /\ Keeps(db, d)
    BY <1>1, SettledType, SettledKeeps
  <2>2. Aged(d)
    BY <2>1 DEF Keeps, Aged
  <2> HIDE DEF d
  <2>3. CASE Keeps(d, db')
    BY <2>1, <2>3, KeepsChain, KeepsMoves
  <2>4. CASE \E r \in Answers : ReplyApplied(s, id, r, now)
    <3>1. PICK r \in Answers, o \in OpId : db' = AdvanceActive(Conclude(d, s, o, r, now), id, now)
      BY <2>4 DEF ReplyApplied, d
    <3>2. r \in Answer BY InputTypes
    <3>3. Keeps(Conclude(d, s, o, r, now), db')
      BY <1>1, <2>1, <3>1, <3>2, ConcludeType, AdvanceActiveKeeps
    <3> QED BY <2>1, <2>2, <3>2, <3>3, ConcludeForward, MovesBetween
  <2>5. CASE ~ \E r \in Answers : ReplyApplied(s, id, r, now)
    <3>1. \/ Poll(s, id, now) \/ ReplyProfileChanged(s, id, now) \/ ReplyLate(s, id, now)
          \/ \E r \in Answers : ReplyRepeated(s, id, r, now)
      BY <1>3, <2>5, Zenon DEF Reply
    <3> QED BY <1>1, <2>1, <2>3, <3>1, StepKeeps DEF d
  <2> QED BY <2>3, <2>4, <2>5
<1> QED BY <1>2, <1>3 DEF Receive

LEMMA AdministerKeeps ==
  ASSUME db \in Tables, NEW now \in Nat, Administer(now)
  PROVE  Keeps(db, db')
<1> DEFINE d == Expire(db, now)
<1>1. d \in Tables /\ Keeps(db, d)
  BY ExpireType, ExpireKeeps
<1>2. NextId \subseteq OpId BY DEF NextId
<1> HIDE DEF d
<1>3. ASSUME NEW j \in JobId, NEW spec \in Specs, NEW id \in NextId, CreateCollection(j, spec, id, now)
      PROVE  Keeps(db, db')
  <2> DEFINE started == [d EXCEPT !.jobs[j] = NewJob(spec)]
  <2>1. NewJob(spec) \in Job
    BY <1>3, NewJobType, InputTypes, PathAssumption DEF CreateCollection, Admissible
  <2>2. started \in Tables /\ Keeps(d, started)
    BY <1>1, <2>1, PutJob, JobKeeps
  <2>3. db' = Advance(started, j, id, now)
    BY <1>3 DEF CreateCollection, d
  <2> HIDE DEF started
  <2> QED BY <1>1, <1>2, <2>2, <2>3, AdvanceKeeps, KeepsChain
<1>4. ASSUME NEW j \in JobId, NEW id \in NextId, GetCollection(j, id, now)
      PROVE  Keeps(db, db')
  BY <1>1, <1>2, <1>4, AdvanceKeeps, KeepsChain DEF GetCollection, d
<1>5. CASE \E id, key, ask : db' = Enqueue(d, id, key, ask, now)
  BY <1>1, <1>5, EnqueueKeeps, KeepsChain
<1>6. CASE db' = d
  BY <1>1, <1>6
<1> QED BY <1>3, <1>4, <1>5, <1>6, Zenon
        DEF Administer, RepeatCreate, CreateQuery, CreateTelemetry, GetQuery, RepeatCollection, d

LEMMA NextForward ==
  ASSUME TypeOK, Aged(db), [Next]_vars
  PROVE  Moves(db, db') /\ Aged(db')
<1>1. db \in Tables /\ clock \in Nat BY DEF TypeOK
<1>2. \A now \in Times : now \in Nat BY DEF Times
<1>3. CASE Keeps(db, db')
  BY <1>1, <1>3, KeepsMoves
<1>4. CASE UNCHANGED db
  BY <1>3, <1>4 DEF Keeps
<1> QED BY <1>1, <1>2, <1>3, <1>4, ReceiveForward, AdministerKeeps DEF Next, Tick, vars

LEMMA NeverBack ==
  Spec => /\ [][InventoryMoves(db, db')]_vars /\ [][TelemetryMoves(db, db')]_vars
<1>1. Init => Aged(db)
  BY DEF Init, Aged, NoTelemetry
<1>2. TypeOK /\ Aged(db) /\ [Next]_vars => Aged(db)'
  <2> SUFFICES ASSUME TypeOK, Aged(db), [Next]_vars PROVE Aged(db')
    BY DEF Aged
  <2> QED BY NextForward
<1>3. TypeOK /\ Aged(db) /\ [Next]_vars =>
        [InventoryMoves(db, db')]_vars /\ [TelemetryMoves(db, db')]_vars
  BY NextForward DEF Moves
<1> QED BY <1>1, <1>2, <1>3, TypeCorrect, PTL DEF Spec

\* Whatever the lag of `now`, and in whatever order Informs and answers commit, no field of
\* the inventory goes back to an older observation (update_inventory).
THEOREM InventoryForwardOnly == Spec => InventoryNeverRegresses
<1>1. [InventoryMoves(db, db')]_vars =>
        [\A f \in Readable :
           /\ db'.observed[f] >= db.observed[f]
           /\ db'.cpe[f] # db.cpe[f] => db'.observed[f] > db.observed[f]]_vars
  BY DEF InventoryMoves
<1> QED BY <1>1, NeverBack, PTL DEF InventoryNeverRegresses

\* Nor does a field of the WAN or optical telemetry, nor its last valid value
\* (update_telemetry).
THEOREM TelemetryForwardOnly == Spec => TelemetryNeverRegresses
<1>1. [TelemetryMoves(db, db')]_vars =>
        [\A f \in Field :
           /\ db'.telemetry[f] # db.telemetry[f] => db'.telemetry[f].at > db.telemetry[f].at
           /\ db'.telemetry[f].value_at >= db.telemetry[f].value_at
           /\ db'.telemetry[f].value # db.telemetry[f].value =>
                db'.telemetry[f].value_at > db.telemetry[f].value_at]_vars
  BY DEF TelemetryMoves
<1> QED BY <1>1, NeverBack, PTL DEF TelemetryNeverRegresses

----------------------------------------------------------------------------
(* A transaction accepts one answer, or stores nothing.                    *)

\* Nothing is stored, and no operation is answered but those that are turned down.
Quiet(d, e) ==
  /\ Progress(d, e)
  /\ \A o \in OpId : e.ops[o].state \in Answered => e.ops[o] = d.ops[o] \/ TurnedDown(e.ops[o])
  /\ e.catalog = d.catalog /\ e.values = d.values /\ e.telemetry = d.telemetry

\* The telemetry after an answer.
Measured(d, o, r, now) ==
  IF Measures(d.ops[o].ask, r)
  THEN [f \in Field |-> IF f \in Outdated(d, r.content, now)
                        THEN Observed(d.telemetry[f], f, o, r.content, now)
                        ELSE d.telemetry[f]]
  ELSE d.telemetry

\* d accepts the answer r to the operation o, which was asked for as planned, and becomes e.
Accepts(d, e, o, r, now) ==
  /\ d \in Tables /\ e \in Tables /\ Progress(d, e) /\ Planned(d)
  /\ d.ops[o].state = "dispatched" /\ r.kind \in {"fault", d.ops[o].ask.kind}
  /\ Concluded(d, e, o, r, now) /\ e.telemetry = Measured(d, o, r, now)

LEMMA CalmQuiet ==
  ASSUME NEW d, NEW e, Calm(d, e), Keeps(d, e)
  PROVE  Quiet(d, e)
BY DEF Calm, Keeps, Quiet

LEMMA ConcludeMeasured ==
  ASSUME NEW d \in Tables, NEW s \in SessionId, NEW o \in OpId, NEW r \in Answer, NEW now \in Nat
  PROVE  Conclude(d, s, o, r, now).telemetry = Measured(d, o, r, now)
<1> DEFINE ask == d.ops[o].ask
           collected == Collect(d, o, r, now)
           noted == IF FeedsInventory(ask, r) THEN UpdateInventory(collected, r.content, now)
                                              ELSE collected
           measured == IF Measures(ask, r) THEN UpdateTelemetry(noted, o, r.content, now) ELSE noted
<1>1. r.content \in Content BY DEF Answer
<1>2. collected \in Tables /\ collected.telemetry = d.telemetry
  BY CollectType, CollectKeeps DEF Keeps
<1> HIDE DEF collected, ask
<1>3. noted \in Tables /\ noted.telemetry = d.telemetry
  BY <1>1, <1>2, UpdateInventoryType DEF UpdateInventory, Tables
<1>4. measured \in Tables
  <2> HIDE DEF noted
  <2> QED BY <1>1, <1>3, UpdateTelemetryType
<1>5. measured.telemetry =
        IF Measures(ask, r)
        THEN [f \in Field |-> IF f \in Outdated(noted, r.content, now)
                              THEN Observed(noted.telemetry[f], f, o, r.content, now)
                              ELSE noted.telemetry[f]]
        ELSE noted.telemetry
  <2> HIDE DEF noted
  <2> QED BY <1>3 DEF UpdateTelemetry, Tables
<1>6. measured.telemetry = Measured(d, o, r, now)
  <2>1. Outdated(noted, r.content, now) = Outdated(d, r.content, now) BY <1>3 DEF Outdated
  <2> HIDE DEF noted, measured
  <2> QED BY <1>3, <1>5, <2>1 DEF Measured, ask
<1>7. \E row, end : Conclude(d, s, o, r, now) = [measured EXCEPT !.ops[o] = row, !.sessions[s] = end]
  BY Zenon DEF Conclude, measured, noted, collected, ask
<1> HIDE DEF measured
<1>8. Conclude(d, s, o, r, now).telemetry = measured.telemetry BY <1>4, <1>7 DEF Tables
<1> QED BY <1>6, <1>8

LEMMA AppliedShape ==
  ASSUME TypeOK, SlotInvariant, Timely(db, clock), Sourced(db),
         NEW s \in SessionId, NEW id \in NextId, NEW now \in Nat, now <= clock,
         NEW r \in Answers, ReplyApplied(s, id, r, now), db' \in Tables
  PROVE  \E d, e : \E o \in OpId :
           /\ Calm(db, d) /\ Keeps(db, d) /\ Accepts(d, e, o, r, now) /\ Calm(e, db') /\ Keeps(e, db')
<1> DEFINE d == Settled(id, now)
<1>1. /\ id \in OpId /\ d \in Tables /\ Slot(d) /\ Sourced(d) /\ Calm(db, d) /\ Keeps(db, d)
      /\ d.ops[id].state \in {"absent", "pending"}
      /\ \A o \in OpId : d.ops[o].state = "dispatched" => d.ops[o].expires > now
  BY SlotSettled, SettledSourced, SettledCalm, SettledKeeps DEF TypeOK, NextId
<1> HIDE DEF d
<1>2. PICK o \in OpId : /\ d.ops[o].state = "dispatched" /\ d.ops[o].session = s
                        /\ now >= d.ops[o].sent
                        /\ r.kind \in {"fault", d.ops[o].ask.kind}
                        /\ db' = AdvanceActive(Conclude(d, s, o, r, now), id, now)
  BY DEF ReplyApplied, Correlated, d
<1> DEFINE e == Conclude(d, s, o, r, now)
<1>3. r \in Answer BY InputTypes
<1>4. e \in Tables /\ Concluded(d, e, o, r, now) /\ e.telemetry = Measured(d, o, r, now)
  BY <1>1, <1>3, ConcludeType, ConcludeRows, ConcludeMeasured
<1>5. d.ops[o].sent \in Nat /\ d.ops[o].expires \in Nat BY <1>1, RowTypes DEF Operation
<1>6. Timely(d, clock) BY <1>1, CalmTimely DEF TypeOK
<1>7. Progress(d, e) BY <1>1, <1>2, <1>3, <1>5, <1>6, ConcludeTimely DEF TypeOK
<1>8. d.ops[id].state = "absent" /\ id # o
  BY <1>1, <1>2 DEF Slot, Single, Active, Waiting
<1>9. db' = AdvanceActive(e, id, now) BY <1>2
<1> HIDE DEF e
<1>10. Fresh(e, id) BY <1>1, <1>4, <1>8 DEF Fresh, Slot, Unsent, Concluded
<1>11. Calm(e, db') /\ Keeps(e, db')
  BY <1>1, <1>4, <1>9, <1>10, AdvanceActiveCalm, AdvanceActiveKeeps
<1>12. Accepts(d, e, o, r, now) BY <1>1, <1>2, <1>4, <1>7 DEF Accepts, Sourced
<1> QED BY <1>1, <1>11, <1>12

\* An exchange that applies no answer.
LEMMA ReceiveQuiet ==
  ASSUME TypeOK, SlotInvariant, Timely(db, clock), db' \in Tables,
         NEW now \in Nat, now <= clock, NEW s \in SessionId, NEW id \in NextId,
         Poll(s, id, now) \/ Reply(s, id, now),
         \/ Poll(s, id, now) \/ ReplyProfileChanged(s, id, now) \/ ReplyLate(s, id, now)
         \/ \E r \in Answers : ReplyRepeated(s, id, r, now)
  PROVE  Quiet(db, db')
<1> DEFINE d == Settled(id, now)
<1>1. id \in OpId /\ db \in Tables /\ clock \in Nat /\ d \in Tables /\ Calm(db, d) /\ Keeps(db, d)
  BY SlotSettled, SettledCalm, SettledKeeps DEF NextId, TypeOK
<1>2. Progress(d, db')
  <2>1. Timely(d, clock) BY <1>1, CalmTimely
  <2> QED BY <1>1, <2>1, PollStep, ReplyStep DEF Lawful
<1>3. Untouched(d, db') BY <1>1, ReceiveUntouched
<1>4. db'.telemetry = d.telemetry BY <1>1, StepKeeps DEF Keeps
<1> HIDE DEF d
<1>5. Progress(db, db') BY <1>1, <1>2, ProgressChain DEF Calm
<1>6. \A o \in OpId : db'.ops[o].state \in Answered => db'.ops[o] = db.ops[o] \/ TurnedDown(db'.ops[o])
  BY <1>1, <1>3 DEF Untouched, Calm, TurnedDown, Answered
<1>7. db'.catalog = db.catalog /\ db'.values = db.values /\ db'.telemetry = db.telemetry
  BY <1>1, <1>3, <1>4 DEF Untouched, Calm, Keeps
<1> QED BY <1>5, <1>6, <1>7 DEF Quiet

\* What every step of the specification is.
LEMMA NextShape ==
  ASSUME TypeOK, SlotInvariant, Timely(db, clock), Sourced(db), [Next]_vars
  PROVE  \/ Quiet(db, db')
         \/ \E d, e : \E o \in OpId, r \in Answers, now \in Nat :
              /\ Calm(db, d) /\ Keeps(db, d) /\ Accepts(d, e, o, r, now)
              /\ Calm(e, db') /\ Keeps(e, db')
<1>1. db \in Tables /\ clock \in Nat /\ db' \in Tables BY NextType DEF TypeOK
<1>2. \A now \in Times : now \in Nat /\ now <= clock BY <1>1 DEF Times
<1>3. CASE db' = db BY <1>1, <1>3, CalmSame, CalmQuiet DEF Keeps
<1>4. ASSUME NEW now \in Times, Administer(now) PROVE Quiet(db, db')
  BY <1>1, <1>2, <1>4, AdministerCalm, AdministerKeeps, CalmQuiet
<1>5. ASSUME NEW now \in Times, NEW s \in SessionId, NEW inform \in Informs, Inform(s, inform, now)
      PROVE  Quiet(db, db')
  <2>1. Calm(db, db') BY <1>1, <1>2, <1>5, InformCalm
  <2>2. db'.telemetry = db.telemetry BY <1>1, <1>5 DEF Inform, UpdateInventory, Tables
  <2> QED BY <2>1, <2>2 DEF Calm, Quiet
<1>6. ASSUME NEW now \in Times, NEW s \in SessionId, NEW id \in NextId,
             Poll(s, id, now) \/ Reply(s, id, now),
             ~ \E r \in Answers : ReplyApplied(s, id, r, now)
      PROVE  Quiet(db, db')
  <2>1. \/ Poll(s, id, now) \/ ReplyProfileChanged(s, id, now) \/ ReplyLate(s, id, now)
        \/ \E r \in Answers : ReplyRepeated(s, id, r, now)
    BY <1>6, Zenon DEF Reply
  <2> QED BY <1>1, <1>2, <1>6, <2>1, ReceiveQuiet
<1>7. ASSUME NEW now \in Times, NEW s \in SessionId, NEW id \in NextId, NEW r \in Answers,
             ReplyApplied(s, id, r, now)
      PROVE  \E d, e : \E o \in OpId :
               /\ Calm(db, d) /\ Keeps(db, d) /\ Accepts(d, e, o, r, now)
               /\ Calm(e, db') /\ Keeps(e, db')
  BY <1>1, <1>2, <1>7, AppliedShape
<1>8. CASE \E now \in Times : Receive(now)
  BY <1>2, <1>5, <1>6, <1>7, <1>8, Zenon DEF Receive
<1> QED BY <1>3, <1>4, <1>8 DEF Next, Tick, vars

\* Catalog, values and telemetry are written by the first answer of a dispatched operation
\* and by nothing else (_collect, update_telemetry).
THEOREM WritingCorrect == Spec => WrittenByFirstAnswer
<1> DEFINE Catalogued(d, e) == \A p \in Path : e.catalog[p] # d.catalog[p] =>
             d.ops[e.catalog[p].op].state = "dispatched" /\ e.ops[e.catalog[p].op].state = "succeeded"
           Valued(d, e) == \A p \in Path : e.values[p] # d.values[p] =>
             d.ops[e.values[p].op].state = "dispatched" /\ e.ops[e.values[p].op].state = "succeeded"
           Metered(d, e) == \A f \in Field : e.telemetry[f] # d.telemetry[f] =>
             d.ops[e.telemetry[f].op].state = "dispatched" /\ e.ops[e.telemetry[f].op].state \in Answered
<1>1. ASSUME TypeOK, SlotInvariant, Timely(db, clock), Sourced(db), [Next]_vars
      PROVE  Catalogued(db, db') /\ Valued(db, db') /\ Metered(db, db')
  <2>1. CASE Quiet(db, db') BY <2>1 DEF Quiet
  <2>2. ASSUME NEW d, NEW e, NEW o \in OpId, NEW r \in Answers, NEW now \in Nat,
               Calm(db, d), Keeps(db, d), Accepts(d, e, o, r, now), Calm(e, db'), Keeps(e, db')
        PROVE  Catalogued(db, db') /\ Valued(db, db') /\ Metered(db, db')
    <3> DEFINE valid == Reason(d.ops[o].ask, r) = "none"
    <3>1. db.ops[o].state = "dispatched"
      <4>1. d.ops[o].state = "dispatched" BY <2>2 DEF Accepts
      <4> QED BY <2>2, <4>1 DEF Calm, TurnedDown
    <3>2. /\ e.ops[o].state \in Answered /\ (valid => e.ops[o].state = "succeeded")
          /\ \A p \in Path : /\ e.catalog[p] # d.catalog[p] => valid /\ e.catalog[p].op = o
                             /\ e.values[p] # d.values[p] => valid /\ e.values[p].op = o
      <4>1. d \in Tables /\ d.ops[o] \in Operation /\ Concluded(d, e, o, r, now)
        BY <2>2, RowTypes DEF Accepts
      <4>2. /\ e.ops[o].state \in Answered /\ (valid => e.ops[o].state = "succeeded")
        BY <4>1 DEF Concluded, AnsweredRow, Operation, Answered
      <4>3. e.catalog = Collect(d, o, r, now).catalog /\ e.values = Collect(d, o, r, now).values
        BY <4>1 DEF Concluded
      <4> DEFINE named == IF r.kind = "names" /\ valid
                          THEN {p \in Kept(d, o, DOMAIN r.content).names : d.catalog[p].at <= now} ELSE {}
                 read == IF r.kind = "values" /\ valid /\ ~ Telemetric(d.ops[o].ask)
                         THEN {p \in DOMAIN r.content : d.values[p].at <= now} ELSE {}
      <4>4. /\ e.catalog = [p \in Path |-> IF p \in named THEN [op |-> o, at |-> now] ELSE d.catalog[p]]
            /\ e.values = [p \in Path |-> IF p \in read THEN [op |-> o, at |-> now, value |-> r.content[p]]
                                                        ELSE d.values[p]]
        BY <4>1, <4>3 DEF Collect, Tables
      <4>5. (named # {} => valid) /\ (read # {} => valid) OBVIOUS
      <4> HIDE DEF named, read, valid
      <4> QED BY <4>2, <4>4, <4>5
    <3>3. \A f \in Field : e.telemetry[f] # d.telemetry[f] => e.telemetry[f].op = o
      <4>1. d \in Tables /\ e.telemetry = Measured(d, o, r, now) BY <2>2 DEF Accepts
      <4>2. \A f \in Field : d.telemetry[f] \in TelemetryField BY <4>1 DEF Tables
      <4>3. \A f \in Field : Observed(d.telemetry[f], f, o, r.content, now).op = o
        BY <4>2 DEF Observed, TelemetryField
      <4> QED BY <4>1, <4>3 DEF Measured
    <3>4. db'.ops[o] = e.ops[o]
      BY <2>2, <3>2 DEF Calm, Progress, OpProgress, Terminal
    <3>5. /\ d.catalog = db.catalog /\ d.values = db.values /\ d.telemetry = db.telemetry
          /\ db'.catalog = e.catalog /\ db'.values = e.values /\ db'.telemetry = e.telemetry
      BY <2>2 DEF Calm, Keeps
    <3> HIDE DEF valid
    <3> QED BY <3>1, <3>2, <3>3, <3>4, <3>5
  <2> HIDE DEF Catalogued, Valued, Metered
  <2> QED BY <1>1, <2>1, <2>2, NextShape
<1>2. TypeOK /\ SlotInvariant /\ Timely(db, clock) /\ Sourced(db) /\ [Next]_vars =>
        [/\ \A p \in Path :
           /\ db'.catalog[p] # db.catalog[p] =>
                db.ops[db'.catalog[p].op].state = "dispatched" /\ db'.ops[db'.catalog[p].op].state = "succeeded"
           /\ db'.values[p] # db.values[p] =>
                db.ops[db'.values[p].op].state = "dispatched" /\ db'.ops[db'.values[p].op].state = "succeeded"
         /\ \A f \in Field : db'.telemetry[f] # db.telemetry[f] =>
                db.ops[db'.telemetry[f].op].state = "dispatched" /\ db'.ops[db'.telemetry[f].op].state \in Answered]_vars
  BY <1>1, Zenon
<1> QED BY <1>2, TypeCorrect, SlotCorrect, TimelyCorrect, SourcedCorrect, PTL DEF Spec, WrittenByFirstAnswer

----------------------------------------------------------------------------
(* Where the telemetry comes from.                                         *)

\* TelemetryProvenance of any tables; the operations it names have been answered.
FieldTraced(row, f, ops) ==
  /\ row.value_at <= row.at
  /\ row.op # NoOp =>
       /\ ops[row.op].state \in Answered /\ ops[row.op].finished = row.at
       /\ (row.state = "valid") <=> (row.value_op = row.op)
  /\ row.value_op # NoOp =>
       /\ ops[row.value_op].state \in Answered
       /\ ops[row.value_op].ask.path = Interface[f]
       /\ ops[row.value_op].finished = row.value_at
       /\ row.value = {ops[row.value_op].result[p] :
                        p \in {q \in DOMAIN ops[row.value_op].result : FieldOf[q] = f}} \ {NoValue}
       /\ row.value # {}
       /\ \A p \in Selected(Interface[f], DOMAIN Internet) :
            /\ p \in DOMAIN ops[row.value_op].result
            /\ ops[row.value_op].result[p] \in Internet[p]
FieldsTraced(d) == \A f \in Field : FieldTraced(d.telemetry[f], f, d.ops)

\* TelemetryKeepsUp of any tables.
Understood(row) ==
  /\ Telemetric(row.ask) /\ row.state \in Answered
  /\ row.reason \in {"none", "invalid_values", "unverified_units"}
KeepsUp(d) ==
  \A o \in OpId : Understood(d.ops[o]) =>
    \A p \in d.ops[o].ask.names : d.telemetry[FieldOf[p]].at >= d.ops[o].finished

LEMMA QuietMetered ==
  ASSUME NEW d \in Tables, NEW e, Quiet(d, e), FieldsTraced(d), KeepsUp(d)
  PROVE  FieldsTraced(e) /\ KeepsUp(e)
<1>1. \A f \in Field : /\ d.telemetry[f].op \in OpId \cup {NoOp}
                       /\ d.telemetry[f].value_op \in OpId \cup {NoOp}
  BY DEF Tables, TelemetryField
<1>2. \A o \in OpId : d.ops[o].state \in Answered => e.ops[o] = d.ops[o]
  BY DEF Quiet, Progress, OpProgress, Terminal
<1>3. e.telemetry = d.telemetry BY DEF Quiet
<1>4. FieldsTraced(e)
  <2> SUFFICES ASSUME NEW f \in Field PROVE FieldTraced(e.telemetry[f], f, e.ops) BY DEF FieldsTraced
  <2> DEFINE row == d.telemetry[f]
  <2>1. FieldTraced(row, f, d.ops) BY DEF FieldsTraced
  <2>2. row.op # NoOp => e.ops[row.op] = d.ops[row.op] BY <1>1, <1>2, <2>1 DEF FieldTraced
  <2>3. row.value_op # NoOp => e.ops[row.value_op] = d.ops[row.value_op]
    BY <1>1, <1>2, <2>1 DEF FieldTraced
  <2> HIDE DEF row
  <2>4. FieldTraced(row, f, e.ops) BY <2>1, <2>2, <2>3 DEF FieldTraced
  <2> QED BY <1>3, <2>4 DEF row
<1>5. KeepsUp(e)
  BY <1>3 DEF KeepsUp, Understood, Quiet, TurnedDown
<1> QED BY <1>4, <1>5

\* An answer that measures says what was planned, and classifies its interface.
LEMMA MeasuresPlanned ==
  ASSUME NEW ask \in Ask, AsksReviewed(ask), NEW r \in Answer, Measures(ask, r)
  PROVE  /\ DOMAIN r.content = ask.names
         /\ \A p \in ask.names : /\ p \in Path /\ FieldOf[p] \in Field
                                 /\ Interface[FieldOf[p]] = ask.path
         /\ Selected(ask.path, DOMAIN Internet) \subseteq ask.names
         /\ \A p \in ask.names \cap DOMAIN Internet : r.content[p] \in Internet[p]
         /\ Result(ask, r) = TelemetryResult(r.content)
<1>1. /\ r.kind = "values" /\ Telemetric(ask) /\ DOMAIN r.content = PlanNames(ask)
      /\ Classified(r.content)
  BY DEF Measures
<1>2. /\ ask.names # {} /\ ask.names \subseteq Selected(ask.path, Path)
      /\ Selected(ask.path, DOMAIN Internet) \subseteq ask.names
  BY <1>1 DEF AsksReviewed, Selectable
<1>3. DOMAIN r.content = ask.names BY <1>1, <1>2 DEF PlanNames
<1>4. \A p \in ask.names : /\ p \in Path /\ FieldOf[p] \in Field /\ Interface[FieldOf[p]] = ask.path
  BY <1>2, TelemetryAssumption DEF Selected
<1>5. \A p \in ask.names \cap DOMAIN Internet : r.content[p] \in Internet[p]
  BY <1>1, <1>3 DEF Classified
<1>6. Result(ask, r) = TelemetryResult(r.content) BY <1>1 DEF Result, FeedsInventory, Measures
<1> QED BY <1>2, <1>3, <1>4, <1>5, <1>6

\* A valid observation is made of all the texts the answer has for the field, and a text that
\* classifies the interface is among those kept.
LEMMA ValidObservation ==
  ASSUME NEW content \in Content, NEW f \in Field
  PROVE  /\ FieldState(f, content) = "valid" =>
              /\ Reported(f, content) # {}
              /\ Reported(f, content) =
                   {TelemetryResult(content)[p] :
                      p \in {q \in DOMAIN TelemetryResult(content) : FieldOf[q] = f}} \ {NoValue}
         /\ DOMAIN TelemetryResult(content) = DOMAIN content
         /\ \A p \in DOMAIN content : content[p] \in Value => TelemetryResult(content)[p] = content[p]
<1> DEFINE kept == TelemetryResult(content)
           leaves == {q \in DOMAIN content : FieldOf[q] = f}
<1>1. /\ DOMAIN kept = DOMAIN content
      /\ \A p \in DOMAIN content :
           kept[p] = IF LeafState(p, content[p]) \in {"valid", "unverified"} THEN content[p] ELSE NoValue
  BY DEF TelemetryResult
<1>2. \A p \in DOMAIN content : content[p] \in Value => LeafState(p, content[p]) = "valid"
  BY ValueAssumption DEF LeafState
<1>3. \A p \in DOMAIN content : LeafState(p, content[p]) = "valid" => content[p] \in Value
  BY ValueAssumption DEF LeafState
<1>4. NoValue \notin Value BY ValueAssumption
<1>5. ASSUME FieldState(f, content) = "valid"
      PROVE  Reported(f, content) # {} /\ Reported(f, content) = {kept[p] : p \in leaves} \ {NoValue}
  <2>1. /\ \A p \in leaves : LeafState(p, content[p]) \notin {"invalid", "unverified"}
        /\ \E p \in leaves : LeafState(p, content[p]) = "valid"
    BY <1>5 DEF FieldState
  <2>2. \A p \in leaves : kept[p] = IF content[p] \in Value THEN content[p] ELSE NoValue
    BY <1>1, <1>2, <1>3, <2>1
  <2>3. Reported(f, content) = {content[p] : p \in {q \in leaves : content[q] \in Value}}
    BY DEF Reported
  <2> HIDE DEF kept
  <2>4. Reported(f, content) # {} BY <1>3, <2>1, <2>3
  <2> QED BY <1>4, <2>2, <2>3, <2>4
<1> QED BY <1>1, <1>2, <1>5

LEMMA AcceptedMetered ==
  ASSUME NEW d, NEW e, NEW o \in OpId, NEW r \in Answer, NEW now \in Nat, Accepts(d, e, o, r, now),
         FieldsTraced(d), KeepsUp(d)
  PROVE  FieldsTraced(e) /\ KeepsUp(e)
<1> DEFINE ask == d.ops[o].ask
           late == Outdated(d, r.content, now)
<1>1. /\ d \in Tables /\ Concluded(d, e, o, r, now) /\ e.telemetry = Measured(d, o, r, now)
      /\ d.ops[o].state = "dispatched" /\ r.kind \in {"fault", ask.kind}
      /\ ask \in Ask /\ AsksReviewed(ask) /\ d.ops[o] \in Operation
  BY RowTypes DEF Accepts, Planned, Operation
<1>2. /\ e.ops[o].ask = ask /\ e.ops[o].state \in Answered /\ e.ops[o].finished = now
      /\ e.ops[o].reason = Reason(ask, r) /\ e.ops[o].result = Result(ask, r)
      /\ \A p \in OpId : p # o => e.ops[p] = d.ops[p]
  BY <1>1 DEF Concluded, AnsweredRow, Operation, Answered
<1>3. \A f \in Field : /\ d.telemetry[f] \in TelemetryField /\ FieldTraced(d.telemetry[f], f, d.ops)
                       /\ d.telemetry[f].at \in Nat /\ d.telemetry[f].value_at \in Nat
                       /\ d.telemetry[f].op \in OpId \cup {NoOp}
                       /\ d.telemetry[f].value_op \in OpId \cup {NoOp}
  BY <1>1 DEF Tables, TelemetryField, FieldsTraced
<1>4. \A f \in Field : d.telemetry[f].op # o /\ d.telemetry[f].value_op # o
  <2>1. o # NoOp BY IdAssumption
  <2>2. d.ops[o].state \notin Answered BY <1>1 DEF Answered
  <2> QED BY <1>3, <2>1, <2>2 DEF FieldTraced
<1>5. \A f \in Field : FieldTraced(d.telemetry[f], f, e.ops)
  <2> SUFFICES ASSUME NEW f \in Field PROVE FieldTraced(d.telemetry[f], f, e.ops) OBVIOUS
  <2> DEFINE row == d.telemetry[f]
  <2>1. row.op # NoOp => e.ops[row.op] = d.ops[row.op] BY <1>2, <1>3, <1>4
  <2>2. row.value_op # NoOp => e.ops[row.value_op] = d.ops[row.value_op] BY <1>2, <1>3, <1>4
  <2>3. FieldTraced(row, f, d.ops) BY <1>3
  <2> HIDE DEF row
  <2>4. FieldTraced(row, f, e.ops) BY <2>1, <2>2, <2>3 DEF FieldTraced
  <2> QED BY <2>4 DEF row
<1>6. r.content \in Content BY DEF Answer
<1> HIDE DEF ask, late
<1>7. CASE ~ Measures(ask, r)
  <2>1. e.telemetry = d.telemetry BY <1>1, <1>7 DEF Measured, ask
  <2>2. ~ Understood(e.ops[o])
    <3> SUFFICES ASSUME Telemetric(ask), Reason(ask, r) \in {"none", "invalid_values", "unverified_units"}
                 PROVE  FALSE
      BY <1>2 DEF Understood
    <3>1. r.kind \in {"fault", "values"} BY <1>1 DEF Telemetric
    <3>2. r.kind # "fault" BY DEF Reason
    <3>3. r.kind = "values" BY <3>1, <3>2
    <3>4. DOMAIN r.content = PlanNames(ask) BY <3>3 DEF Reason
    <3>5. Classified(r.content) BY <3>3, <3>4 DEF Reason, TelemetryReason
    <3> QED BY <1>7, <3>3, <3>4, <3>5 DEF Measures
  <2> QED BY <1>2, <1>5, <2>1, <2>2 DEF FieldsTraced, KeepsUp
<1>8. CASE Measures(ask, r)
  <2> DEFINE seen(f) == Observed(d.telemetry[f], f, o, r.content, now)
  <2>1. e.telemetry = [f \in Field |-> IF f \in late THEN seen(f) ELSE d.telemetry[f]]
    BY <1>1, <1>8 DEF Measured, ask, late
  <2>2. /\ DOMAIN r.content = ask.names
        /\ \A p \in ask.names : /\ p \in Path /\ FieldOf[p] \in Field
                                /\ Interface[FieldOf[p]] = ask.path
        /\ Selected(ask.path, DOMAIN Internet) \subseteq ask.names
        /\ \A p \in ask.names \cap DOMAIN Internet : r.content[p] \in Internet[p]
        /\ e.ops[o].result = TelemetryResult(r.content)
    BY <1>1, <1>2, <1>8, MeasuresPlanned DEF ask
  <2>3. ASSUME NEW f \in late
        PROVE  seen(f).at = now /\ FieldTraced(seen(f), f, e.ops)
    <3> DEFINE old == d.telemetry[f]
               valid == FieldState(f, r.content) = "valid"
               row == seen(f)
    <3>1. /\ f \in Field /\ old.at < now /\ \E p \in ask.names : FieldOf[p] = f
      BY <2>2 DEF late, Outdated
    <3>2. /\ row.state = FieldState(f, r.content) /\ row.op = o /\ row.at = now
          /\ valid => row.value = Reported(f, r.content) /\ row.value_op = o /\ row.value_at = now
          /\ ~ valid => /\ row.value = old.value /\ row.value_op = old.value_op
                        /\ row.value_at = old.value_at
      BY <1>3, <3>1 DEF Observed, TelemetryField
    <3>3. FieldTraced(old, f, e.ops) /\ old.value_op # o /\ old.at \in Nat /\ old.value_at \in Nat
      BY <1>3, <1>4, <1>5, <3>1
    <3>4. Interface[f] = ask.path BY <2>2, <3>1
    <3>5. valid => /\ Reported(f, r.content) # {}
                   /\ Reported(f, r.content) =
                        {e.ops[o].result[p] : p \in {q \in DOMAIN e.ops[o].result : FieldOf[q] = f}}
                          \ {NoValue}
      BY <1>6, <2>2, <3>1, ValidObservation
    <3>6. \A p \in Selected(Interface[f], DOMAIN Internet) :
            p \in DOMAIN e.ops[o].result /\ e.ops[o].result[p] \in Internet[p]
      <4> SUFFICES ASSUME NEW p \in Selected(ask.path, DOMAIN Internet)
                   PROVE  p \in DOMAIN e.ops[o].result /\ e.ops[o].result[p] \in Internet[p]
        BY <3>4
      <4>1. p \in ask.names /\ p \in DOMAIN Internet BY <2>2 DEF Selected
      <4>2. r.content[p] \in Internet[p] /\ r.content[p] \in Value
        BY <2>2, <4>1, TelemetryAssumption
      <4> QED BY <1>6, <2>2, <3>1, <4>1, <4>2, ValidObservation
    <3> SUFFICES FieldTraced(row, f, e.ops) BY <3>2
    <3> HIDE DEF row, old, valid, seen
    <3>7. row.value_at <= row.at BY <3>1, <3>2, <3>3 DEF FieldTraced
    <3>8. CASE valid
      BY <1>2, <3>2, <3>4, <3>5, <3>6, <3>7, <3>8 DEF FieldTraced, valid
    <3>9. CASE ~ valid
      BY <1>2, <3>2, <3>3, <3>7, <3>9 DEF FieldTraced, valid
    <3> QED BY <3>8, <3>9
  <2> HIDE DEF seen
  <2>4. FieldsTraced(e) BY <1>5, <2>1, <2>3 DEF FieldsTraced
  <2>5. KeepsUp(e)
    <3> SUFFICES ASSUME NEW q \in OpId, Understood(e.ops[q]), NEW p \in e.ops[q].ask.names
                 PROVE  e.telemetry[FieldOf[p]].at >= e.ops[q].finished
      BY DEF KeepsUp
    <3>1. CASE q = o
      <4>1. p \in ask.names /\ FieldOf[p] \in Field /\ e.ops[q].finished = now
        BY <1>2, <2>2, <3>1
      <4>2. CASE FieldOf[p] \in late BY <2>1, <2>3, <4>1, <4>2
      <4>3. CASE FieldOf[p] \notin late
        <5>1. ~ d.telemetry[FieldOf[p]].at < now BY <2>2, <4>1, <4>3 DEF late, Outdated
        <5> QED BY <1>3, <2>1, <4>1, <4>3, <5>1
      <4> QED BY <4>2, <4>3
    <3>2. CASE q # o
      <4>1. e.ops[q] = d.ops[q] BY <1>2, <3>2
      <4>2. FieldOf[p] \in Field
        <5>1. d.ops[q].ask \in Ask /\ AsksReviewed(d.ops[q].ask)
          BY <1>1, RowTypes DEF Accepts, Planned, Operation
        <5>2. p \in Selected(d.ops[q].ask.path, Path)
          BY <4>1, <5>1 DEF AsksReviewed, Selectable, Understood
        <5> QED BY <5>2, TelemetryAssumption DEF Selected
      <4>3. d.telemetry[FieldOf[p]].at >= d.ops[q].finished BY <4>1 DEF KeepsUp
      <4>4. d.ops[q].finished \in Nat BY <1>1, RowTypes DEF Operation
      <4>5. \/ e.telemetry[FieldOf[p]].at = now /\ d.telemetry[FieldOf[p]].at < now
            \/ e.telemetry[FieldOf[p]] = d.telemetry[FieldOf[p]]
        BY <2>1, <2>3, <4>2 DEF late, Outdated
      <4> QED BY <1>3, <4>1, <4>2, <4>3, <4>4, <4>5
    <3> QED BY <3>1, <3>2
  <2> QED BY <2>4, <2>5
<1> QED BY <1>7, <1>8

Metered(d) == FieldsTraced(d) /\ KeepsUp(d)

LEMMA InitMetered == Init => Metered(db)
<1> SUFFICES ASSUME Init PROVE Metered(db) OBVIOUS
<1>1. /\ \A o \in OpId : db.ops[o].state = "absent"
      /\ \A f \in Field : db.telemetry[f] = NoTelemetry
  BY DEF Init, NoOperation
<1>2. NoTelemetry.at = 0 /\ NoTelemetry.value_at = 0 /\ NoTelemetry.op = NoOp /\ NoTelemetry.value_op = NoOp
  BY DEF NoTelemetry
<1>3. FieldsTraced(db) BY <1>1, <1>2 DEF FieldsTraced, FieldTraced
<1>4. KeepsUp(db) BY <1>1 DEF KeepsUp, Understood, Answered
<1> QED BY <1>3, <1>4 DEF Metered

LEMMA NextMetered ==
  ASSUME TypeOK, SlotInvariant, Timely(db, clock), Sourced(db), Metered(db), [Next]_vars
  PROVE  Metered(db')
<1>1. db \in Tables BY DEF TypeOK
<1>2. CASE Quiet(db, db') BY <1>1, <1>2, QuietMetered DEF Metered
<1>3. ASSUME NEW d, NEW e, NEW o \in OpId, NEW r \in Answers, NEW now \in Nat,
             Calm(db, d), Keeps(db, d), Accepts(d, e, o, r, now), Calm(e, db'), Keeps(e, db')
      PROVE  Metered(db')
  <2>1. d \in Tables /\ e \in Tables /\ r \in Answer BY <1>3, InputTypes DEF Accepts
  <2>2. Metered(d) BY <1>1, <1>3, CalmQuiet, QuietMetered DEF Metered
  <2>3. Metered(e) BY <1>3, <2>1, <2>2, AcceptedMetered DEF Metered
  <2> QED BY <1>3, <2>1, <2>3, CalmQuiet, QuietMetered DEF Metered
<1> QED BY <1>2, <1>3, NextShape

LEMMA MeteredCorrect == Spec => []Metered(db)
<1>1. TypeOK /\ SlotInvariant /\ Timely(db, clock) /\ Sourced(db) /\ Metered(db) /\ [Next]_vars
      => Metered(db)'
  BY NextMetered DEF Metered, FieldsTraced, FieldTraced, KeepsUp, Understood
<1> QED BY <1>1, InitMetered, TypeCorrect, SlotCorrect, TimelyCorrect, SourcedCorrect, PTL DEF Spec

\* Every valid value of the telemetry is what one answered read of its interface reported, and
\* that answer also classified the interface: for any leaves, fields and answers.
THEOREM MeasuredCorrect == Spec => []TelemetryProvenance
<1>1. Metered(db) => TelemetryProvenance
  BY DEF Metered, FieldsTraced, FieldTraced, TelemetryProvenance
<1> QED BY <1>1, MeteredCorrect, PTL

\* No answer that update_telemetry was called with is lost, whatever the lag of its `now` and
\* whether its readings are valid or not.
THEOREM NothingForgotten == Spec => []TelemetryKeepsUp
<1>1. Metered(db) => TelemetryKeepsUp
  BY DEF Metered, KeepsUp, Understood, TelemetryKeepsUp
<1> QED BY <1>1, MeteredCorrect, PTL

----------------------------------------------------------------------------
(* What a telemetry read asks for.                                         *)

\* An object read that succeeded lists children of the object.
Lists(d) ==
  \A o \in OpId :
    /\ d.ops[o].state = "succeeded" /\ d.ops[o].ask.kind = "names" /\ d.ops[o].ask.path # NoPath
    => \A p \in DOMAIN d.ops[o].result : Parent[p] = d.ops[o].ask.path

\* A row that was never inserted asks for nothing.
Blank(d) == \A o \in OpId : d.ops[o].state = "absent" => ~ Telemetric(d.ops[o].ask)

\* No telemetry read is queued.
Unmetered(d, e) == \A o \in OpId : Telemetric(e.ops[o].ask) => Telemetric(d.ops[o].ask)

LEMMA NextLists ==
  ASSUME TypeOK, SlotInvariant, Timely(db, clock), Sourced(db), Lists(db), [Next]_vars
  PROVE  Lists(db')
<1>1. CASE Quiet(db, db')
  BY <1>1 DEF Quiet, Lists, Answered, TurnedDown
<1>2. ASSUME NEW d, NEW e, NEW o \in OpId, NEW r \in Answers, NEW now \in Nat,
             Calm(db, d), Keeps(db, d), Accepts(d, e, o, r, now), Calm(e, db'), Keeps(e, db')
      PROVE  Lists(db')
  <2> DEFINE ask == d.ops[o].ask
  <2>1. Lists(d) BY <1>2 DEF Calm, Lists, Answered, TurnedDown
  <2>2. /\ e.ops[o].ask = ask /\ e.ops[o].result = Result(ask, r)
        /\ e.ops[o].state = "succeeded" => Reason(ask, r) = "none"
        /\ \A q \in OpId : q # o => e.ops[q] = d.ops[q]
        /\ r.kind \in {"fault", ask.kind}
    <3>1. d.ops[o] \in Operation /\ Concluded(d, e, o, r, now) /\ r.kind \in {"fault", ask.kind}
      BY <1>2, RowTypes DEF Accepts
    <3> QED BY <3>1 DEF Concluded, AnsweredRow, Operation
  <2> HIDE DEF ask
  <2>3. ASSUME e.ops[o].state = "succeeded", ask.kind = "names", ask.path # NoPath,
               NEW p \in DOMAIN Result(ask, r)
        PROVE  Parent[p] = ask.path
    <3>1. Reason(ask, r) = "none" BY <2>2, <2>3
    <3>2. r.kind = "names" BY <2>2, <2>3, <3>1 DEF Reason
    <3>3. p \in DOMAIN r.content BY <2>3, <3>1, <3>2 DEF Result
    <3>4. Listable(ask, p) BY <3>1, <3>2, <3>3 DEF Reason
    <3> QED BY <2>3, <3>4 DEF Listable, PlanPath
  <2>4. Lists(e) BY <2>1, <2>2, <2>3 DEF Lists
  <2> QED BY <1>2, <2>4 DEF Calm, Lists, Answered, TurnedDown
<1> QED BY <1>1, <1>2, NextShape

LEMMA ListsCorrect == Spec => []Lists(db) /\ []Blank(db)
<1>1. Init => Lists(db) /\ Blank(db)
  BY DEF Init, NoOperation, NoAsk, Lists, Blank, Telemetric
<1>2. TypeOK /\ SlotInvariant /\ Timely(db, clock) /\ Sourced(db) /\ Lists(db) /\ [Next]_vars
      => Lists(db)'
  BY NextLists DEF Lists
<1>3. Blank(db) /\ [Progress(db, db')]_vars => Blank(db)'
  <2>1. CASE Progress(db, db') BY <2>1 DEF Blank, Progress, OpProgress
  <2>2. CASE UNCHANGED vars BY <2>2 DEF Blank, vars
  <2> QED BY <2>1, <2>2
<1> QED BY <1>1, <1>2, <1>3, TypeCorrect, SlotCorrect, TimelyCorrect, SourcedCorrect, PTL DEF Spec

LEMMA ExpireUnmetered ==
  ASSUME NEW d \in Tables, NEW now
  PROVE  Unmetered(d, Expire(d, now))
<1> SUFFICES ASSUME NEW o \in OpId PROVE Expire(d, now).ops[o].ask = d.ops[o].ask
  BY DEF Unmetered
<1>1. d.ops[o] \in Operation BY RowTypes
<1> DEFINE row == [d.ops[o] EXCEPT !.state = "expired", !.reason = "deadline_exceeded", !.finished = now]
<1>2. Expire(d, now).ops[o] = IF o \in Due(d, now) THEN row ELSE d.ops[o]
  BY DEF Expire, Tables
<1>3. row.ask = d.ops[o].ask BY <1>1 DEF Operation
<1> HIDE DEF row
<1> QED BY <1>2, <1>3

\* A job reads objects, or reviewed leaves by name.
LEMMA AdvanceUnmetered ==
  ASSUME NEW d \in Tables, Planned(d), NEW j \in JobId, NEW id \in OpId, NEW now \in Nat
  PROVE  Unmetered(d, Advance(d, j, id, now))
<1> DEFINE mid == IF d.jobs[j].current = NoOp THEN d ELSE Absorb(d, j)
<1>1. d.jobs[j].current \in OpId \cup {NoOp} BY RowTypes DEF Job
<1>2. mid \in Tables /\ mid.ops = d.ops /\ Planned(mid)
  <2>1. \E row : Absorb(d, j) = [d EXCEPT !.jobs[j] = row] BY Zenon DEF Absorb
  <2>2. Absorb(d, j).ops = d.ops BY <2>1 DEF Tables
  <2> QED BY <1>1, <2>2, AbsorbType, PlannedAbsorb
<1> HIDE DEF mid
<1> DEFINE c == Continue(mid, j, id, now)
           job == mid.jobs[j]
           ask == [kind |-> IF job.spec.kind = "discovery" THEN "names" ELSE "values",
                   path |-> Head(job.frontier).path,
                   names |-> First(Head(job.frontier).names, job.spec.max_entries - job.entries)]
<1>3. job \in Job BY <1>2, RowTypes
<1>4. job.frontier # <<>> => ~ Telemetric(ask)
  <2>1. job.frontier # <<>> => Head(job.frontier) = job.frontier[1] /\ 1 \in DOMAIN job.frontier
    BY <1>3 DEF Job
  <2>2. job.spec.kind \in {"discovery", "values"} BY <1>3 DEF Job, Spec0
  <2>3. job.frontier # <<>> /\ job.spec.kind = "values" => Head(job.frontier).path = NoPath
    BY <1>2, <2>1 DEF Planned, StepsReadable
  <2> HIDE DEF job
  <2> QED BY <2>2, <2>3 DEF Telemetric
<1>5. \/ c.ops = mid.ops
      \/ job.frontier # <<>> /\ \E row : c = [Enqueue(mid, id, NoKey, ask, now) EXCEPT !.jobs[j] = row]
  <2>1. CASE \E row : c = [mid EXCEPT !.jobs[j] = row] BY <1>2, <2>1 DEF Tables
  <2> QED BY <2>1, Zenon DEF Continue
<1> HIDE DEF job, ask, c
<1>6. \A o \in OpId : c.ops[o].ask = mid.ops[o].ask \/ ~ Telemetric(c.ops[o].ask)
  <2>1. CASE c.ops = mid.ops BY <2>1
  <2>2. CASE job.frontier # <<>> /\ \E row : c = [Enqueue(mid, id, NoKey, ask, now) EXCEPT !.jobs[j] = row]
    <3>1. c.ops = Enqueue(mid, id, NoKey, ask, now).ops BY <1>2, <2>2 DEF Enqueue, Tables
    <3>2. /\ Enqueue(mid, id, NoKey, ask, now).ops[id].ask = ask
          /\ \A o \in OpId : o # id => Enqueue(mid, id, NoKey, ask, now).ops[o] = mid.ops[o]
      BY <1>2 DEF Enqueue, Tables, NoOperation
    <3> QED BY <1>4, <2>2, <3>1, <3>2
  <2> QED BY <1>5, <2>1, <2>2
<1>7. Advance(d, j, id, now) = d \/ Advance(d, j, id, now) = c BY DEF Advance, c, mid
<1> QED BY <1>2, <1>6, <1>7 DEF Unmetered

LEMMA AdvanceActiveUnmetered ==
  ASSUME NEW d \in Tables, Planned(d), NEW id \in OpId, NEW now \in Nat
  PROVE  Unmetered(d, AdvanceActive(d, id, now))
<1>1. Running(d) # {} => (CHOOSE j \in Running(d) : TRUE) \in JobId
  BY DEF Running
<1> QED BY <1>1, AdvanceUnmetered DEF AdvanceActive, Unmetered

\* A new telemetry read is one that CreateTelemetry has just queued.
Requested(now) ==
  \E key \in Key, ask \in Asks, id \in NextId : CreateTelemetry(key, ask, id, now)

LEMMA AdministerUnmetered ==
  ASSUME db \in Tables, Planned(db), NEW now \in Nat, Administer(now), ~ Requested(now)
  PROVE  Unmetered(db, db')
<1> DEFINE d == Expire(db, now)
<1>1. d \in Tables /\ Planned(d) /\ Unmetered(db, d) BY ExpireType, PlannedExpire, ExpireUnmetered
<1>2. \A id \in NextId : id \in OpId BY DEF NextId
<1> HIDE DEF d
<1>3. CASE db' = d BY <1>1, <1>3
<1>4. ASSUME NEW key, NEW ask, NEW id \in NextId, CreateQuery(key, ask, id, now)
      PROVE  Unmetered(db, db')
  <2>1. ~ Telemetric(ask) /\ db' = Enqueue(d, id, key, ask, now)
    BY <1>4 DEF CreateQuery, Plannable, Telemetric, d
  <2>2. /\ db'.ops[id].ask = ask
        /\ \A o \in OpId : o # id => db'.ops[o] = d.ops[o]
    BY <1>1, <1>2, <2>1 DEF Enqueue, Tables, NoOperation
  <2> QED BY <1>1, <2>1, <2>2 DEF Unmetered
<1>5. ASSUME NEW j \in JobId, NEW spec \in Specs, NEW id \in NextId, CreateCollection(j, spec, id, now)
      PROVE  Unmetered(db, db')
  <2> DEFINE started == [d EXCEPT !.jobs[j] = NewJob(spec)]
  <2>1. /\ spec \in Spec0
        /\ spec.kind = "discovery" => spec.root \in Path /\ spec.root \in Concrete \cap Object
        /\ spec.kind = "values" => spec.names \subseteq Readable
    BY <1>5, InputTypes, PathAssumption DEF CreateCollection, Admissible
  <2>2. NewJob(spec) \in Job /\ StepsReadable(NewJob(spec)) BY <2>1, NewJobType, PlannedNewJob
  <2>3. started \in Tables /\ Planned(started) BY <1>1, <2>2, PutJob, PlannedJob
  <2>4. started.ops = d.ops BY <1>1 DEF Tables
  <2>5. db' = Advance(started, j, id, now) BY <1>5 DEF CreateCollection, d
  <2> HIDE DEF started
  <2>6. Unmetered(started, db') BY <1>2, <2>3, <2>5, AdvanceUnmetered
  <2> QED BY <1>1, <2>4, <2>6 DEF Unmetered
<1>6. ASSUME NEW j \in JobId, NEW id \in NextId, GetCollection(j, id, now) PROVE Unmetered(db, db')
  <2>1. Unmetered(d, db') BY <1>1, <1>2, <1>6, AdvanceUnmetered DEF GetCollection, d
  <2> QED BY <1>1, <2>1 DEF Unmetered
<1> QED BY <1>3, <1>4, <1>5, <1>6, Zenon
        DEF Administer, RepeatCreate, GetQuery, RepeatCollection, Requested, d

LEMMA ReceiveUnmetered ==
  ASSUME TypeOK, SlotInvariant, Sourced(db), NEW now \in Nat, Receive(now)
  PROVE  Unmetered(db, db')
<1>1. db \in Tables BY DEF TypeOK
<1>2. ASSUME NEW s \in SessionId, NEW inform \in Informs, Inform(s, inform, now)
      PROVE  Unmetered(db, db')
  BY <1>1, <1>2 DEF Inform, UpdateInventory, Tables, Unmetered
<1>3. ASSUME NEW s \in SessionId, NEW id \in NextId, Poll(s, id, now) \/ Reply(s, id, now)
      PROVE  Unmetered(db, db')
  <2> DEFINE e == Expire(db, now)
             d == Settled(id, now)
  <2>1. id \in OpId /\ e \in Tables /\ Planned(e) /\ Unmetered(db, e) /\ d \in Tables /\ Planned(d)
    BY <1>1, ExpireType, PlannedExpire, ExpireUnmetered, SettledType, SettledSourced DEF NextId, Sourced
  <2>2. d = AdvanceActive(e, id, now) BY DEF Settled
  <2> HIDE DEF e, d
  <2>3. Unmetered(e, d) BY <2>1, <2>2, AdvanceActiveUnmetered
  <2>4. Unmetered(db, d) BY <2>1, <2>3 DEF Unmetered
  <2>5. ASSUME NEW r \in Answers, ReplyApplied(s, id, r, now) PROVE Unmetered(d, db')
    <3>1. PICK o \in OpId : /\ d.ops[o].state = "dispatched" /\ r.kind \in {"fault", d.ops[o].ask.kind}
                            /\ db' = AdvanceActive(Conclude(d, s, o, r, now), id, now)
      BY <2>5 DEF ReplyApplied, Correlated, d
    <3> DEFINE c == Conclude(d, s, o, r, now)
    <3>2. r \in Answer BY InputTypes
    <3>3. c \in Tables /\ Planned(c) /\ Concluded(d, c, o, r, now)
      BY <2>1, <3>1, <3>2, SettledSourced, ConcludeType, ConcludeSourced, ConcludeRows, <1>1 DEF Sourced, d
    <3>4. d.ops[o] \in Operation BY <2>1, RowTypes
    <3>5. db' = AdvanceActive(c, id, now) BY <3>1
    <3> HIDE DEF c
    <3>6. Unmetered(d, c)
      <4>1. AnsweredRow(d.ops[o], r, now).ask = d.ops[o].ask BY <3>4 DEF AnsweredRow, Operation
      <4> QED BY <3>3, <4>1 DEF Unmetered, Concluded
    <3>7. Unmetered(c, db') BY <2>1, <3>3, <3>5, AdvanceActiveUnmetered
    <3> QED BY <3>6, <3>7 DEF Unmetered
  <2>6. ASSUME \/ Poll(s, id, now) \/ ReplyProfileChanged(s, id, now) \/ ReplyLate(s, id, now)
               \/ \E r \in Answers : ReplyRepeated(s, id, r, now)
        PROVE  Unmetered(d, db')
    BY <2>1, <2>6, ReceiveUntouched DEF Untouched, Unmetered, d
  <2>7. Unmetered(d, db') BY <1>3, <2>5, <2>6, Zenon DEF Reply
  <2> QED BY <2>4, <2>7 DEF Unmetered
<1> QED BY <1>2, <1>3 DEF Receive

\* What CreateTelemetry asks for, discovery has listed last.
LEMMA RequestDiscovered ==
  ASSUME db \in Tables, Lists(db), NEW now \in Nat, NEW key \in Key, NEW ask \in Asks,
         NEW id \in NextId, CreateTelemetry(key, ask, id, now),
         NEW o \in OpId, Telemetric(db'.ops[o].ask), ~ Telemetric(db.ops[o].ask),
         NEW p \in db'.ops[o].ask.names
  PROVE  \E q \in Discoveries(Parent[p]) :
           /\ p \in DOMAIN db.ops[q].result
           /\ db.ops[q].finished + FreshSeconds >= db'.ops[o].expires - PendingSeconds
           /\ \A later \in Discoveries(Parent[p]) : db.ops[later].finished <= db.ops[q].finished
<1> DEFINE d == Expire(db, now)
<1>1. /\ id \in OpId /\ d \in Tables /\ Calm(db, d) /\ Unmetered(db, d)
  BY ExpireType, ExpireCalm, ExpireUnmetered DEF NextId
<1>2. ask \in Ask BY InputTypes
<1>3. PICK evidence \in Evidence(d, now) :
        LET names == IF ask.names = {} THEN Available(d, evidence) ELSE ask.names
        IN /\ names \subseteq Available(d, evidence)
           /\ db' = Enqueue(d, id, key, [ask EXCEPT !.names = Selected(ask.path, names)], now)
  BY Zenon DEF CreateTelemetry, d
<1> DEFINE names == IF ask.names = {} THEN Available(d, evidence) ELSE ask.names
           read == [ask EXCEPT !.names = Selected(ask.path, names)]
<1> HIDE DEF d
<1>4. /\ db'.ops[id] = [NoOperation EXCEPT !.state = "pending", !.key = key, !.ask = read,
                                            !.expires = now + PendingSeconds]
      /\ \A q \in OpId : q # id => db'.ops[q] = d.ops[q]
  BY <1>1, <1>3 DEF Enqueue, Tables
<1>5. db'.ops[id].ask = read /\ db'.ops[id].expires = now + PendingSeconds
  BY <1>4 DEF NoOperation
<1>6. o = id BY <1>1, <1>4 DEF Unmetered
<1>7. p \in names BY <1>2, <1>5, <1>6 DEF Selected, Ask
<1>8. PICK q \in evidence : p \in DOMAIN d.ops[q].result
  BY <1>3, <1>7 DEF Available
<1>9. /\ q \in Newest(d, now) /\ q \in Recent(d, now) /\ q \in OpId /\ d.ops[q].state = "succeeded"
      /\ d.ops[q].ask.kind = "names" /\ d.ops[q].ask.path # NoPath
      /\ d.ops[q].finished + FreshSeconds >= now
  BY <1>3 DEF Evidence, Newest, Recent
<1>10. \A c \in OpId : d.ops[c].state = "succeeded" <=> db.ops[c].state = "succeeded"
  BY <1>1 DEF Calm, Progress, OpProgress, Answered, Terminal, TurnedDown
<1>11. \A c \in OpId : db.ops[c].state = "succeeded" => d.ops[c] = db.ops[c]
  BY <1>1 DEF Calm, Progress, OpProgress, Answered, Terminal
<1>12. q \in Discoveries(Parent[p]) /\ d.ops[q] = db.ops[q] /\ db.ops[q].ask.path = Parent[p]
  BY <1>8, <1>9, <1>10, <1>11 DEF Lists, Discoveries
<1>13. ASSUME NEW later \in Discoveries(Parent[p])
       PROVE  db.ops[later].finished <= db.ops[q].finished
  <2>1. /\ later \in OpId /\ db.ops[later].state = "succeeded" /\ d.ops[later] = db.ops[later]
        /\ db.ops[later].ask.kind = "names" /\ db.ops[later].ask.path = Parent[p]
    BY <1>11 DEF Discoveries
  <2>2. CASE later \in Recent(d, now)
    BY <1>9, <1>12, <2>1, <2>2 DEF Newest
  <2>3. CASE later \notin Recent(d, now)
    <3>1. ~ db.ops[later].finished + FreshSeconds >= now
      BY <1>9, <1>12, <2>1, <2>3 DEF Recent
    <3>2. db.ops[later].finished \in Nat /\ db.ops[q].finished \in Nat
      BY <1>9, <2>1, RowTypes DEF Operation
    <3> QED BY <1>9, <1>12, <3>1, <3>2, TimeAssumption
  <2> QED BY <2>2, <2>3
<1>14. db.ops[q].finished + FreshSeconds >= db'.ops[o].expires - PendingSeconds
  BY <1>5, <1>6, <1>9, <1>12, TimeAssumption
<1> QED BY <1>8, <1>12, <1>13, <1>14

\* A telemetry read asks only for what the newest discovery of each parent listed within the
\* last day (create, _names): whatever discoveries, policies and requests there are.
THEOREM AskingCorrect == Spec => AskedAsDiscovered
<1>1. ASSUME TypeOK, SlotInvariant, Timely(db, clock), Sourced(db), Lists(db), Blank(db), [Next]_vars,
             NEW o \in OpId, db.ops[o].state = "absent", Telemetric(db'.ops[o].ask),
             NEW p \in db'.ops[o].ask.names
      PROVE  \E q \in Discoveries(Parent[p]) :
               /\ p \in DOMAIN db.ops[q].result
               /\ db.ops[q].finished + FreshSeconds >= db'.ops[o].expires - PendingSeconds
               /\ \A later \in Discoveries(Parent[p]) : db.ops[later].finished <= db.ops[q].finished
  <2>1. db \in Tables /\ Planned(db) /\ \A now \in Times : now \in Nat
    BY <1>1 DEF TypeOK, Times, Sourced
  <2>2. ~ Telemetric(db.ops[o].ask) BY <1>1 DEF Blank
  <2>3. ~ Unmetered(db, db') BY <1>1, <2>2 DEF Unmetered
  <2>4. db' # db BY <1>1, <2>2
  <2>5. PICK now \in Times : Receive(now) \/ Administer(now)
    BY <1>1, <2>4 DEF Next, Tick, vars
  <2>6. Requested(now)
    BY <1>1, <2>1, <2>3, <2>5, ReceiveUnmetered, AdministerUnmetered
  <2>7. PICK key \in Key, ask \in Asks, id \in NextId : CreateTelemetry(key, ask, id, now)
    BY <2>6 DEF Requested
  <2> QED BY <1>1, <2>1, <2>2, <2>7, RequestDiscovered
<1>2. TypeOK /\ SlotInvariant /\ Timely(db, clock) /\ Sourced(db) /\ Lists(db) /\ Blank(db) /\ [Next]_vars
      => [\A o \in OpId : db.ops[o].state = "absent" /\ Telemetric(db'.ops[o].ask) =>
            \A p \in db'.ops[o].ask.names : \E q \in Discoveries(Parent[p]) :
              /\ p \in DOMAIN db.ops[q].result
              /\ db.ops[q].finished + FreshSeconds >= db'.ops[o].expires - PendingSeconds
              /\ \A later \in Discoveries(Parent[p]) : db.ops[later].finished <= db.ops[q].finished]_vars
  BY <1>1, Zenon
<1> QED BY <1>2, TypeCorrect, SlotCorrect, TimelyCorrect, SourcedCorrect, ListsCorrect, PTL
        DEF Spec, AskedAsDiscovered

----------------------------------------------------------------------------
(* The queue as one slot.                                                  *)

\* Nothing is over that was not queued before.
Born(d, e) == \A o \in OpId : d.ops[o].state = "absent" => e.ops[o].state \notin Terminal

\* At most, operations are queued under that key.
Adds(d, e, key) ==
  \A o \in OpId : \/ e.ops[o] = d.ops[o]
                  \/ /\ d.ops[o].state = "absent"
                     /\ e.ops[o].state = "pending" /\ e.ops[o].key = key

LEMMA ExpireBorn ==
  ASSUME NEW d \in Tables, NEW now
  PROVE  \A o \in OpId : \/ Expire(d, now).ops[o] = d.ops[o]
                         \/ /\ d.ops[o].state \in Waiting /\ Expire(d, now).ops[o].state = "expired"
                            /\ Expire(d, now).ops[o].key = d.ops[o].key
<1> SUFFICES ASSUME NEW o \in OpId
             PROVE  \/ Expire(d, now).ops[o] = d.ops[o]
                    \/ /\ d.ops[o].state \in Waiting /\ Expire(d, now).ops[o].state = "expired"
                       /\ Expire(d, now).ops[o].key = d.ops[o].key
  OBVIOUS
<1>1. d.ops[o] \in Operation BY RowTypes
<1> DEFINE row == [d.ops[o] EXCEPT !.state = "expired", !.reason = "deadline_exceeded", !.finished = now]
<1>2. Expire(d, now).ops[o] = IF o \in Due(d, now) THEN row ELSE d.ops[o]
  BY DEF Expire, Tables
<1>3. row.state = "expired" /\ row.key = d.ops[o].key BY <1>1 DEF Operation
<1>4. o \in Due(d, now) => d.ops[o].state \in Waiting BY DEF Due, Active
<1> HIDE DEF row
<1> QED BY <1>2, <1>3, <1>4

LEMMA EnqueueAdds ==
  ASSUME NEW d \in Tables, NEW id \in OpId, Fresh(d, id), NEW key, NEW ask, NEW now
  PROVE  Adds(d, Enqueue(d, id, key, ask, now), key)
<1>1. /\ Enqueue(d, id, key, ask, now).ops[id].state = "pending"
      /\ Enqueue(d, id, key, ask, now).ops[id].key = key
      /\ \A o \in OpId : o # id => Enqueue(d, id, key, ask, now).ops[o] = d.ops[o]
  BY DEF Enqueue, Tables, NoOperation
<1> QED BY <1>1 DEF Adds, Fresh

\* advance queues only for a CPE that the policy accepts.
LEMMA AdvanceAdds ==
  ASSUME NEW d \in Tables, NEW j \in JobId, NEW id \in OpId, Fresh(d, id), NEW now \in Nat
  PROVE  /\ Adds(d, Advance(d, j, id, now), NoKey)
         /\ ~ Eligible(d) => Advance(d, j, id, now).ops = d.ops
<1> DEFINE mid == IF d.jobs[j].current = NoOp THEN d ELSE Absorb(d, j)
<1>1. d.jobs[j].current \in OpId \cup {NoOp} BY RowTypes DEF Job
<1>2. mid \in Tables /\ mid.ops = d.ops /\ mid.cpe = d.cpe
  <2>1. \E row : Absorb(d, j) = [d EXCEPT !.jobs[j] = row] BY Zenon DEF Absorb
  <2>2. Absorb(d, j).ops = d.ops /\ Absorb(d, j).cpe = d.cpe BY <2>1 DEF Tables
  <2> QED BY <1>1, <2>2, AbsorbType
<1> HIDE DEF mid
<1> DEFINE c == Continue(mid, j, id, now)
<1>3. \/ c.ops = mid.ops
      \/ Eligible(mid) /\ \E ask, row : c = [Enqueue(mid, id, NoKey, ask, now) EXCEPT !.jobs[j] = row]
  <2>1. CASE \E row : c = [mid EXCEPT !.jobs[j] = row] BY <1>2, <2>1 DEF Tables
  <2> QED BY <2>1, Zenon DEF Continue
<1> HIDE DEF c
<1>4. Adds(mid, c, NoKey) /\ (~ Eligible(mid) => c.ops = mid.ops)
  <2>1. CASE c.ops = mid.ops BY <2>1 DEF Adds
  <2>2. CASE Eligible(mid) /\ \E ask, row : c = [Enqueue(mid, id, NoKey, ask, now) EXCEPT !.jobs[j] = row]
    <3>1. PICK ask, row : c = [Enqueue(mid, id, NoKey, ask, now) EXCEPT !.jobs[j] = row] BY <2>2
    <3>2. c.ops = Enqueue(mid, id, NoKey, ask, now).ops BY <1>2, <3>1 DEF Enqueue, Tables
    <3>3. Adds(mid, Enqueue(mid, id, NoKey, ask, now), NoKey) BY <1>2, EnqueueAdds DEF Fresh
    <3> QED BY <2>2, <3>2, <3>3 DEF Adds
  <2> QED BY <1>3, <2>1, <2>2
<1>5. Advance(d, j, id, now) = d \/ Advance(d, j, id, now) = c BY DEF Advance, c, mid
<1> QED BY <1>2, <1>4, <1>5 DEF Adds, Eligible

LEMMA AdvanceActiveAdds ==
  ASSUME NEW d \in Tables, NEW id \in OpId, Fresh(d, id), NEW now \in Nat
  PROVE  /\ Adds(d, AdvanceActive(d, id, now), NoKey)
         /\ ~ Eligible(d) => AdvanceActive(d, id, now).ops = d.ops
<1>1. Running(d) # {} => (CHOOSE j \in Running(d) : TRUE) \in JobId BY DEF Running
<1>2. Adds(d, d, NoKey) BY DEF Adds
<1> QED BY <1>1, <1>2, AdvanceAdds DEF AdvanceActive

\* Before a session is served, what waits and is not new waited already.
LEMMA SettledBorn ==
  ASSUME db \in Tables, SlotInvariant, NEW id \in NextId, NEW now \in Nat
  PROVE  LET d == Settled(id, now)
         IN /\ Born(db, d) /\ \A o \in OpId : d.ops[o].key \in {db.ops[o].key, NoKey}
            /\ \A o \in OpId : d.ops[o].state = "dispatched" => db.ops[o].state = "dispatched"
            /\ ~ Eligible(d) => \A o \in OpId : d.ops[o].state = "pending" => db.ops[o].state = "pending"
<1> DEFINE e == Expire(db, now)
           d == Settled(id, now)
<1>1. id \in OpId /\ Fresh(e, id) /\ e \in Tables /\ Keeps(db, e)
  BY ExpireFresh, ExpireType, ExpireKeeps
<1>2. d = AdvanceActive(e, id, now) BY DEF Settled
<1>3. \A o \in OpId : \/ e.ops[o] = db.ops[o]
                      \/ /\ db.ops[o].state \in Waiting /\ e.ops[o].state = "expired"
                         /\ e.ops[o].key = db.ops[o].key
  BY ExpireBorn
<1> HIDE DEF e, d
<1>4. Adds(e, d, NoKey) /\ (~ Eligible(e) => d.ops = e.ops) /\ Keeps(e, d)
  BY <1>1, <1>2, AdvanceActiveAdds, AdvanceActiveKeeps
<1>5. Eligible(d) <=> Eligible(e) BY <1>4 DEF Keeps, Eligible
<1>6. Born(db, d) /\ \A o \in OpId : d.ops[o].key \in {db.ops[o].key, NoKey}
  BY <1>3, <1>4 DEF Born, Adds, Waiting, Terminal, Answered
<1>7. \A o \in OpId : d.ops[o].state = "dispatched" => db.ops[o].state = "dispatched"
  BY <1>3, <1>4 DEF Adds
<1>8. ~ Eligible(d) => \A o \in OpId : d.ops[o].state = "pending" => db.ops[o].state = "pending"
  BY <1>3, <1>4, <1>5
<1> QED BY <1>6, <1>7, <1>8 DEF d

\* Serving a session ends only what was out, or waited for a CPE that is no longer accepted.
LEMMA ServedBorn ==
  ASSUME NEW s \in SessionId, NEW id \in OpId, NEW now \in Nat,
         Settled(id, now) \in Tables, Slot(Settled(id, now)),
         Poll(s, id, now) \/ Reply(s, id, now), ~ \E r \in Answers : ReplyApplied(s, id, r, now)
  PROVE  \A o \in OpId : db'.ops[o].state \in Terminal =>
           \/ Settled(id, now).ops[o].state \in Terminal \cup {"dispatched"}
           \/ Settled(id, now).ops[o].state = "pending" /\ ~ Eligible(Settled(id, now))
<1> DEFINE d == Settled(id, now)
           Ends(o) == \/ d.ops[o].state \in Terminal \cup {"dispatched"}
                      \/ d.ops[o].state = "pending" /\ ~ Eligible(d)
<1>1. CASE db' = d \/ db' = Finish(d, s)
  BY <1>1 DEF Finish, Tables
<1>2. ASSUME NEW o \in OpId, Ends(o), db' = Finish(Fail(d, o, "profile_changed", now), s)
      PROVE  \A p \in OpId : db'.ops[p].state \in Terminal => Ends(p)
  BY <1>2 DEF Finish, Fail, Tables
<1>3. CASE PollProfileChanged(s, id, now)
  <2>1. PICK o \in OpId :
          /\ IF d.sessions[s].state = "awaiting_response" THEN d.ops[o].session = s
                                                         ELSE d.ops[o].state = "pending"
          /\ db' = Finish(Fail(d, o, "profile_changed", now), s)
    BY <1>3 DEF PollProfileChanged
  <2>2. ~ Eligible(d) BY <1>3 DEF PollProfileChanged
  <2>3. CASE d.sessions[s].state = "awaiting_response"
    <3>1. PICK p \in OpId : d.ops[p].state = "dispatched" /\ d.ops[p].session = s
      BY <2>3 DEF Slot, Carrying
    <3>2. d.ops[o].session = s BY <2>1, <2>3
    <3>3. s # NoSession BY IdAssumption
    <3> HIDE DEF d
    <3>4. o = p BY <3>1, <3>2, <3>3 DEF Slot, Unshared, d
    <3> QED BY <1>2, <2>1, <3>1, <3>4 DEF d
  <2>4. CASE d.sessions[s].state # "awaiting_response"
    BY <1>2, <2>1, <2>2, <2>4
  <2> QED BY <2>3, <2>4
<1>4. CASE PollDispatch(s, id, now)
  <2>1. PICK o \in OpId : /\ d.ops[o].state = "pending"
                          /\ \E row, end : db' = [d EXCEPT !.ops[o] = row, !.sessions[s] = end]
                          /\ db'.ops[o].state = "dispatched"
    <3>1. PICK o \in OpId :
            LET deadline == IF d.ops[o].expires < now + RpcSeconds THEN d.ops[o].expires
                                                                   ELSE now + RpcSeconds
            IN /\ d.ops[o].state = "pending"
               /\ db' = [d EXCEPT
                    !.ops[o] = [@ EXCEPT !.state = "dispatched", !.expires = deadline,
                                         !.session = s, !.sent = clock],
                    !.sessions[s] = [state |-> "awaiting_response", expires |-> deadline]]
      BY <1>4 DEF PollDispatch
    <3> DEFINE deadline == IF d.ops[o].expires < now + RpcSeconds THEN d.ops[o].expires
                                                                  ELSE now + RpcSeconds
               row == [d.ops[o] EXCEPT !.state = "dispatched", !.expires = deadline,
                                       !.session = s, !.sent = clock]
               end == [state |-> "awaiting_response", expires |-> deadline]
    <3>2. d.ops[o] \in Operation BY RowTypes
    <3>3. row.state = "dispatched" BY <3>2 DEF Operation
    <3>4. d.ops[o].state = "pending" /\ db' = [d EXCEPT !.ops[o] = row, !.sessions[s] = end]
      BY <3>1, Zenon
    <3> HIDE DEF row, end, d
    <3>5. db'.ops[o] = row BY <3>4 DEF Tables, d
    <3> QED BY <3>3, <3>4, <3>5
  <2> HIDE DEF d
  <2>2. \A p \in OpId : p # o => db'.ops[p] = d.ops[p] BY <2>1 DEF Tables, d
  <2> QED BY <2>1, <2>2 DEF Terminal, Answered, d
<1>5. ASSUME NEW o \in OpId, d.ops[o].state = "dispatched",
             db' = Finish(Fail(d, o, "profile_changed", now), s)
      PROVE  \A p \in OpId : db'.ops[p].state \in Terminal => Ends(p)
  BY <1>2, <1>5
<1>6. CASE \A p \in OpId : db'.ops[p].state \in Terminal => Ends(p)
  BY <1>6
<1> QED BY <1>1, <1>3, <1>4, <1>5, <1>6, Zenon
        DEF Poll, PollCompleted, PollResend, PollIdle,
            Reply, ReplyRepeated, ReplyProfileChanged, ReplyLate

\* A key is given to one operation: what a transaction queues is a step of a job, which has
\* no key, or has a key that no operation had before.
KeyedBy(d, e) ==
  \A o \in OpId : e.ops[o].key \in {d.ops[o].key, NoKey} \/ \A p \in OpId : d.ops[p].key # e.ops[o].key

LEMMA NextBorn ==
  ASSUME TypeOK, SlotInvariant, [Next]_vars
  PROVE  Born(db, db') /\ KeyedBy(db, db')
<1>1. db \in Tables /\ db' \in Tables BY NextType DEF TypeOK
<1>2. \A now \in Times : now \in Nat BY <1>1 DEF Times, TypeOK
<1>3. CASE db' = db BY <1>3 DEF Born, KeyedBy, Terminal, Answered
<1>4. ASSUME NEW now \in Times, Administer(now) PROVE Born(db, db') /\ KeyedBy(db, db')
  <2> DEFINE d == Expire(db, now)
  <2>1. d \in Tables /\ d.jobs = db.jobs /\ \A id \in NextId : id \in OpId /\ Fresh(d, id)
    <3>1. d \in Tables BY <1>1, <1>2, ExpireType
    <3>2. d.jobs = db.jobs BY <1>1 DEF Expire, Tables
    <3>3. \A id \in NextId : id \in OpId /\ Fresh(d, id) BY <1>1, <1>2, ExpireFresh
    <3> QED BY <3>1, <3>2, <3>3
  <2>2. \A o \in OpId : \/ d.ops[o] = db.ops[o]
                        \/ /\ db.ops[o].state \in Waiting /\ d.ops[o].state = "expired"
                           /\ d.ops[o].key = db.ops[o].key
    BY <1>1, ExpireBorn
  <2> HIDE DEF d
  <2>3. ASSUME NEW key, key = NoKey \/ \A o \in OpId : db.ops[o].key # key, Adds(d, db', key)
        PROVE  Born(db, db') /\ KeyedBy(db, db')
    <3>1. Born(db, db') BY <2>2, <2>3 DEF Adds, Born, Waiting, Terminal, Answered
    <3>2. \A o \in OpId : db'.ops[o].key \in {db.ops[o].key, key} BY <2>2, <2>3 DEF Adds
    <3>3. KeyedBy(db, db') BY <2>3, <3>2 DEF KeyedBy
    <3> QED BY <3>1, <3>3
  <2>4. CASE db' = d
    <3>1. Adds(d, db', NoKey) BY <2>4 DEF Adds
    <3> QED BY <2>3, <3>1
  <2>5. ASSUME NEW key, NEW ask, NEW id \in NextId,
               CreateQuery(key, ask, id, now) \/ CreateTelemetry(key, ask, id, now)
        PROVE  Born(db, db') /\ KeyedBy(db, db')
    <3>1. PICK read : db' = Enqueue(d, id, key, read, now)
      BY <2>5, Zenon DEF CreateQuery, CreateTelemetry, d
    <3>2. \A o \in OpId : db.ops[o].key # key BY <2>5 DEF CreateQuery, CreateTelemetry
    <3>3. Adds(d, db', key) BY <2>1, <3>1, EnqueueAdds
    <3> QED BY <2>3, <3>2, <3>3
  <2>6. ASSUME NEW j \in JobId, NEW spec \in Specs, NEW id \in NextId, CreateCollection(j, spec, id, now)
        PROVE  Born(db, db') /\ KeyedBy(db, db')
    <3> DEFINE started == [d EXCEPT !.jobs[j] = NewJob(spec)]
    <3>1. NewJob(spec) \in Job
      BY <2>6, NewJobType, InputTypes, PathAssumption DEF CreateCollection, Admissible
    <3>2. started \in Tables /\ started.ops = d.ops BY <2>1, <3>1, PutJob DEF Tables
    <3>3. db' = Advance(started, j, id, now) BY <2>6 DEF CreateCollection, d
    <3> HIDE DEF started
    <3>4. Adds(started, db', NoKey) BY <1>2, <2>1, <3>2, <3>3, AdvanceAdds DEF Fresh
    <3>5. Adds(d, db', NoKey) BY <3>2, <3>4 DEF Adds
    <3> QED BY <2>3, <3>5
  <2>7. ASSUME NEW j \in JobId, NEW id \in NextId, GetCollection(j, id, now)
        PROVE  Born(db, db') /\ KeyedBy(db, db')
    <3>1. Adds(d, db', NoKey) BY <1>2, <2>1, <2>7, AdvanceAdds DEF GetCollection, d
    <3> QED BY <2>3, <3>1
  <2> QED BY <1>4, <2>4, <2>5, <2>6, <2>7, Zenon
          DEF Administer, RepeatCreate, GetQuery, RepeatCollection, d
<1>5. ASSUME NEW now \in Times, NEW s \in SessionId, NEW inform \in Informs, Inform(s, inform, now)
      PROVE  Born(db, db') /\ KeyedBy(db, db')
  <2>1. db'.ops = db.ops BY <1>1, <1>5 DEF Inform, UpdateInventory, Tables
  <2> QED BY <2>1 DEF Born, KeyedBy, Terminal, Answered
<1>6. ASSUME NEW now \in Times, NEW s \in SessionId, NEW id \in NextId,
             Poll(s, id, now) \/ Reply(s, id, now)
      PROVE  Born(db, db') /\ KeyedBy(db, db')
  <2> DEFINE d == Settled(id, now)
  <2>1. /\ id \in OpId /\ d \in Tables /\ Slot(d) /\ Born(db, d)
        /\ d.ops[id].state \in {"absent", "pending"}
        /\ \A o \in OpId : d.ops[o].key \in {db.ops[o].key, NoKey}
        /\ \A o \in OpId : d.ops[o].state = "dispatched" => db.ops[o].state = "dispatched"
        /\ ~ Eligible(d) => \A o \in OpId : d.ops[o].state = "pending" => db.ops[o].state = "pending"
    BY <1>1, <1>2, SlotSettled, SettledBorn DEF NextId, TypeOK
  <2>2. CASE ~ \E r \in Answers : ReplyApplied(s, id, r, now)
    <3>1. \A o \in OpId : db'.ops[o].state \in Terminal =>
            \/ d.ops[o].state \in Terminal \cup {"dispatched"}
            \/ d.ops[o].state = "pending" /\ ~ Eligible(d)
      BY <1>2, <1>6, <2>1, <2>2, ServedBorn
    <3>2. \/ Poll(s, id, now) \/ ReplyProfileChanged(s, id, now) \/ ReplyLate(s, id, now)
          \/ \E r \in Answers : ReplyRepeated(s, id, r, now)
      BY <1>6, <2>2, Zenon DEF Reply
    <3>3. \A o \in OpId : db'.ops[o].key = d.ops[o].key
      BY <1>2, <2>1, <3>2, ReceiveUntouched DEF Untouched
    <3> HIDE DEF d
    <3>4. KeyedBy(db, db') BY <2>1, <3>3 DEF KeyedBy
    <3> QED BY <2>1, <3>1, <3>4 DEF Born
  <2>3. ASSUME NEW r \in Answers, ReplyApplied(s, id, r, now) PROVE Born(db, db') /\ KeyedBy(db, db')
    <3>1. PICK o \in OpId : /\ d.ops[o].state = "dispatched"
                            /\ db' = AdvanceActive(Conclude(d, s, o, r, now), id, now)
      BY <2>3 DEF ReplyApplied
    <3> DEFINE e == Conclude(d, s, o, r, now)
    <3> HIDE DEF d
    <3>2. r \in Answer BY InputTypes
    <3>3. e \in Tables /\ Concluded(d, e, o, r, now)
      BY <1>2, <2>1, <3>2, ConcludeType, ConcludeRows
    <3>4. d.ops[id].state = "absent" /\ id # o
      BY <2>1, <3>1 DEF Slot, Single, Active, Waiting
    <3>5. db' = AdvanceActive(e, id, now) BY <3>1
    <3> HIDE DEF e
    <3>6. Fresh(e, id) BY <2>1, <3>3, <3>4 DEF Fresh, Slot, Unsent, Concluded
    <3>7. Adds(e, db', NoKey) BY <1>2, <2>1, <3>3, <3>5, <3>6, AdvanceActiveAdds
    <3>8. \A p \in OpId : p # o => e.ops[p] = d.ops[p] BY <3>3 DEF Concluded
    <3>9. db.ops[o].state = "dispatched" BY <2>1, <3>1
    <3>10. e.ops[o].key = d.ops[o].key
      <4>1. d.ops[o] \in Operation BY <2>1, RowTypes
      <4> QED BY <3>3, <4>1 DEF Concluded, AnsweredRow, Operation
    <3>11. KeyedBy(db, db')
      <4>1. \A p \in OpId : e.ops[p].key = d.ops[p].key BY <3>8, <3>10
      <4> QED BY <2>1, <3>7, <4>1 DEF Adds, KeyedBy
    <3> QED BY <3>11, <2>1, <3>7, <3>8, <3>9 DEF Born, Adds, Terminal, Answered
  <2> QED BY <2>2, <2>3
<1> QED BY <1>3, <1>4, <1>5, <1>6 DEF Next, Receive, Tick, vars

HeldIn(d) == IF Active(d) = {} THEN NoOp ELSE CHOOSE o \in Active(d) : TRUE
Sending(d) == \E o \in OpId : d.ops[o].state = "dispatched"
Over(d) == {o \in OpId : d.ops[o].state \in Terminal}

\* The slot holds the operation that is active, if there is one.
LEMMA HeldIsActive ==
  ASSUME NEW d, Single(d)
  PROVE  /\ HeldIn(d) \in Active(d) \cup {NoOp}
         /\ \A o \in Active(d) : HeldIn(d) = o
         /\ \A o \in Active(d) : o \in OpId /\ o # NoOp
<1>1. \A o \in Active(d) : o \in OpId /\ o # NoOp BY IdAssumption DEF Active
<1>2. CASE Active(d) = {} BY <1>1, <1>2 DEF HeldIn
<1>3. ASSUME NEW o \in Active(d) PROVE HeldIn(d) \in Active(d) /\ HeldIn(d) = o
  <2>1. (CHOOSE p \in Active(d) : TRUE) \in Active(d) BY <1>3
  <2> QED BY <1>3, <2>1 DEF HeldIn, Single
<1> QED BY <1>1, <1>2, <1>3

\* A transaction sends the RPC of the operation held, gives the slot to another, or neither.
LEMMA OneTurn ==
  ASSUME NEW d \in Tables, NEW e \in Tables, Slot(d), Slot(e), Progress(d, e), Born(d, e)
  PROVE  \/ HeldIn(e) = HeldIn(d) /\ Sending(e) = Sending(d) /\ Over(e) = Over(d)
         \/ /\ HeldIn(d) # NoOp /\ ~ Sending(d) /\ Sending(e)
            /\ HeldIn(e) = HeldIn(d) /\ Over(e) = Over(d)
         \/ /\ HeldIn(e) \in OpId \cup {NoOp} /\ HeldIn(e) # HeldIn(d) /\ HeldIn(e) \notin Over(d)
            /\ Over(e) = Over(d) \cup ({HeldIn(d)} \ {NoOp})
            /\ HeldIn(e) = NoOp => ~ Sending(e)
<1>1. \A o \in OpId : /\ d.ops[o].state \in {"absent"} \cup Waiting \cup Terminal
                      /\ o \in Active(d) <=> d.ops[o].state \in Waiting
                      /\ o \in Active(e) <=> e.ops[o].state \in Waiting
                      /\ o \in Over(d) <=> d.ops[o].state \in Terminal
                      /\ o \in Over(e) <=> e.ops[o].state \in Terminal
  BY RowTypes DEF Operation, Active, Over, Waiting, Terminal, Answered
<1>2. /\ HeldIn(d) \in Active(d) \cup {NoOp} /\ HeldIn(e) \in Active(e) \cup {NoOp}
      /\ \A o \in Active(d) : HeldIn(d) = o /\ o \in OpId /\ o # NoOp
      /\ \A o \in Active(e) : HeldIn(e) = o /\ o \in OpId /\ o # NoOp
  BY HeldIsActive DEF Slot
<1>3. \A o \in OpId : d.ops[o].state \in Terminal => e.ops[o].state \in Terminal
  BY DEF Progress, OpProgress
<1>4. \A o \in OpId : d.ops[o].state \in Waiting => e.ops[o].state \in Waiting \cup Terminal
  BY DEF Progress, OpProgress
<1>5. \A o \in OpId : d.ops[o].state = "absent" => e.ops[o].state \notin Terminal
  BY DEF Born
<1>6. \A o \in OpId : e.ops[o].state \in Waiting => e.ops[o].state \notin Terminal
  BY DEF Waiting, Terminal, Answered
<1>7. \A o \in OpId : d.ops[o].state = "dispatched" /\ e.ops[o].state \in Waiting =>
        e.ops[o].state = "dispatched"
  <2>1. SUFFICES ASSUME NEW o \in OpId, d.ops[o].state = "dispatched", e.ops[o].state = "pending"
                 PROVE  FALSE
    BY DEF Waiting
  <2>2. d.ops[o].session # NoSession BY <2>1, IdAssumption DEF Slot, Carried
  <2>3. e.ops[o].session = d.ops[o].session BY <2>1, <2>2 DEF Progress, OpProgress
  <2> QED BY <2>1, <2>2, <2>3 DEF Slot, Unsent
<1>8. /\ Sending(d) => \E o \in Active(d) : d.ops[o].state = "dispatched"
      /\ Sending(e) => \E o \in Active(e) : e.ops[o].state = "dispatched"
  BY DEF Sending, Active, Waiting
<1>9. CASE HeldIn(e) = HeldIn(d)
  <2>1. Over(e) = Over(d)
    <3>1. ASSUME NEW o \in Over(e), o \notin Over(d) PROVE FALSE
      <4>1. o \in OpId BY DEF Over
      <4>2. o \in Active(d) BY <1>1, <1>5, <3>1, <4>1
      <4>3. o \in Active(e) BY <1>2, <1>9, <4>2
      <4> QED BY <1>1, <1>6, <3>1, <4>1, <4>3
    <3>2. \A o \in Over(d) : o \in Over(e) BY <1>3 DEF Over
    <3> QED BY <3>1, <3>2
  <2>2. Sending(d) => Sending(e)
    <3>1. SUFFICES ASSUME NEW o \in Active(d), d.ops[o].state = "dispatched" PROVE Sending(e)
      BY <1>8
    <3>2. o \in OpId /\ o \in Active(e) BY <1>2, <1>9, <3>1
    <3> QED BY <1>1, <1>7, <3>1, <3>2 DEF Sending
  <2>3. Sending(e) => HeldIn(d) # NoOp BY <1>2, <1>8, <1>9
  <2>4. Sending(d) \in BOOLEAN /\ Sending(e) \in BOOLEAN BY DEF Sending
  <2> QED BY <1>9, <2>1, <2>2, <2>3, <2>4
<1>10. CASE HeldIn(e) # HeldIn(d)
  <2>1. HeldIn(e) \in OpId \cup {NoOp} /\ HeldIn(e) \notin Over(d)
    <3>1. HeldIn(e) # NoOp => HeldIn(e) \in OpId /\ HeldIn(e) \notin Over(d)
      BY <1>1, <1>2, <1>3, <1>6
    <3>2. NoOp \notin Over(d) BY IdAssumption DEF Over
    <3> QED BY <3>1, <3>2
  <2>2. HeldIn(d) # NoOp => HeldIn(d) \in Over(e)
    <3>1. SUFFICES ASSUME HeldIn(d) # NoOp PROVE HeldIn(d) \in Over(e)
      OBVIOUS
    <3>2. HeldIn(d) \in Active(d) /\ HeldIn(d) \in OpId BY <1>2, <3>1
    <3>3. HeldIn(d) \notin Active(e) BY <1>2, <1>10
    <3> QED BY <1>1, <1>4, <3>2, <3>3
  <2>3. Over(e) = Over(d) \cup ({HeldIn(d)} \ {NoOp})
    <3>1. ASSUME NEW o \in Over(e), o \notin Over(d) PROVE o = HeldIn(d) /\ o # NoOp
      <4>1. o \in OpId BY DEF Over
      <4>2. o \in Active(d) BY <1>1, <1>5, <3>1, <4>1
      <4> QED BY <1>2, <4>2
    <3>2. \A o \in Over(d) : o \in Over(e) BY <1>3 DEF Over
    <3> QED BY <2>2, <3>1, <3>2
  <2>4. HeldIn(e) = NoOp => ~ Sending(e) BY <1>2, <1>8
  <2> QED BY <1>10, <2>1, <2>3, <2>4
<1> QED BY <1>9, <1>10

\* The read queue implements the one-slot queue: every behaviour of the tables, through
\* expiry, changes of profile, replays and jobs that queue their next read in the
\* transaction that ends the last, is one of SerialQueue with the active operation in the slot.
THEOREM QueueIsSerial == Spec => SerialSpec
<1>1. Held = HeldIn(db) /\ Held' = HeldIn(db')
  BY DEF Held, HeldIn
<1>2. Init => Serial!Init
  <2>1. SUFFICES ASSUME Init PROVE Serial!Init
    OBVIOUS
  <2>2. \A o \in OpId : db.ops[o].state = "absent" BY <2>1 DEF Init, NoOperation
  <2>3. Active(db) = {} BY <2>2 DEF Active, Waiting
  <2>4. ~ \E o \in OpId : db.ops[o].state = "dispatched" BY <2>2
  <2>5. {o \in OpId : db.ops[o].state \in Terminal} = {} BY <2>2 DEF Terminal, Answered
  <2> QED BY <2>3, <2>4, <2>5 DEF Serial!Init, Held
<1>3. TypeOK /\ TypeOK' /\ SlotInvariant /\ SlotInvariant' /\ [Progress(db, db')]_vars /\ [Next]_vars
        => [Serial!Next]_(Serial!svars)
  <2>1. SUFFICES ASSUME TypeOK, TypeOK', SlotInvariant, SlotInvariant', [Progress(db, db')]_vars, [Next]_vars
                 PROVE  [Serial!Next]_(Serial!svars)
    OBVIOUS
  <2>2. CASE db' = db
    <3>1. UNCHANGED Serial!svars BY <1>1, <2>2 DEF Serial!svars
    <3> QED BY <3>1
  <2>3. CASE db' # db
    <3>1. db \in Tables /\ db' \in Tables /\ Slot(db) /\ Slot(db')
      BY <2>1 DEF TypeOK, SlotInvariant
    <3>2. Progress(db, db') BY <2>1, <2>3 DEF vars
    <3>3. Born(db, db') BY <2>1, NextBorn
    <3>4. /\ Sending(db) = (\E o \in OpId : db.ops[o].state = "dispatched")
          /\ Sending(db') = (\E o \in OpId : db.ops[o].state = "dispatched")'
          /\ Over(db) = {o \in OpId : db.ops[o].state \in Terminal}
          /\ Over(db') = {o \in OpId : db.ops[o].state \in Terminal}'
      BY DEF Sending, Over
    <3>5. Sending(db') \in BOOLEAN BY DEF Sending
    <3> QED BY <1>1, <3>1, <3>2, <3>3, <3>4, <3>5, OneTurn
            DEF Serial!Next, Serial!Send, Serial!Turn, Serial!svars
  <2> QED BY <2>2, <2>3
<1> QED BY <1>2, <1>3, TypeCorrect, SlotCorrect, TimelyCorrect, PTL DEF Spec, SerialSpec, Serial!Spec

----------------------------------------------------------------------------
(* The collection jobs: one inductive invariant carries their properties.  *)

\* The operations a job has accounted for, and where its failures name one.
Done(job) == JobRange(job.issued) \ {job.current}
Failed(job) == {i \in DOMAIN job.failures : job.failures[i].op # NoOp}

\* Every operation is issued once, and is over when it has been accounted for ...
Ledger(job, ops) ==
  /\ job.rpcs = Len(job.issued)
  /\ \A i, k \in DOMAIN job.issued : i # k => job.issued[i] # job.issued[k]
  /\ \A o \in JobRange(job.issued) : ops[o].state # "absent"
  /\ job.current # NoOp => job.current \in JobRange(job.issued)
  /\ job.completed = Cardinality(Done(job))
  /\ \A o \in Done(job) : ops[o].state \in Terminal

\* ... with one failure for each that did not succeed ...
Blamed(job, ops) ==
  /\ \A i \in Failed(job) : /\ job.failures[i].op \in Done(job)
                            /\ ops[job.failures[i].op].state # "succeeded"
  /\ \A o \in Done(job) : ops[o].state # "succeeded" => \E i \in Failed(job) : job.failures[i].op = o
  /\ \A i, k \in Failed(job) : i # k => job.failures[i].op # job.failures[k].op

\* ... within the limits, which the steps still to be taken respect too.
Bounded(job) ==
  /\ job.rpcs <= job.spec.max_rpcs
  /\ job.entries <= job.spec.max_entries
  /\ job.depth <= job.spec.max_depth
  /\ \A i \in DOMAIN job.frontier : job.frontier[i].depth <= job.spec.max_depth

\* The reads of a values job ask for parts of its selection, for all of it unless some limit
\* or failure is recorded, and for no more than the budget allows.
Batched(job, ops) ==
  job.spec.kind = "values" =>
    /\ \A i \in DOMAIN job.frontier : job.frontier[i].names # {} /\ job.frontier[i].names \subseteq job.spec.names
    /\ \A o \in JobRange(job.issued) :
         /\ ops[o].ask.kind = "values" /\ ops[o].ask.path = NoPath
         /\ ops[o].ask.names # {} /\ ops[o].ask.names \subseteq job.spec.names
    /\ job.current # NoOp => Cardinality(ops[job.current].ask.names) <= job.spec.max_entries - job.entries
    /\ job.limits = {} /\ job.failures = <<>> => \A p \in job.spec.names :
         \/ \E i \in DOMAIN job.frontier : p \in job.frontier[i].names
         \/ \E o \in JobRange(job.issued) : p \in ops[o].ask.names

\* p comes before q in path order.
Precedes(p, q) == \E i, k \in DOMAIN Sorted[Path] : Sorted[Path][i] = p /\ Sorted[Path][k] = q /\ i < k

\* The reads of a discovery job walk a tree: each asks for an object of its own, which is the
\* root or was listed by a read that has been accounted for.
Rooted(job, ops, p) ==
  \/ p = job.spec.root
  \/ /\ Precedes(job.spec.root, p)
     /\ \E o \in Done(job) : ops[o].ask.path = Parent[p]
Walked(job, ops) ==
  job.spec.kind = "discovery" =>
    /\ job.spec.root \in Path
    /\ \A o \in JobRange(job.issued) : /\ ops[o].ask.kind = "names" /\ ops[o].ask.path \in Path
                                       /\ Rooted(job, ops, ops[o].ask.path)
    /\ \A i \in DOMAIN job.frontier : /\ job.frontier[i].path \in Path
                                      /\ Rooted(job, ops, job.frontier[i].path)
    /\ \A o, q \in JobRange(job.issued) : o # q => ops[o].ask.path # ops[q].ask.path
    /\ \A i, k \in DOMAIN job.frontier : i # k => job.frontier[i].path # job.frontier[k].path
    /\ \A o \in JobRange(job.issued), i \in DOMAIN job.frontier : ops[o].ask.path # job.frontier[i].path

\* And none of the objects listed is left out unless some limit or failure is recorded.
Covered(job, ops) ==
  job.spec.kind = "discovery" /\ job.limits = {} /\ job.failures = <<>> =>
    \A o \in Done(job) : \A p \in DOMAIN ops[o].result \cap Object :
      \/ \E q \in JobRange(job.issued) : ops[q].ask.path = p
      \/ \E i \in DOMAIN job.frontier : job.frontier[i].path = p

\* A job succeeds with nothing left to do and nothing to report.
Whole(job) ==
  job.state = "succeeded" =>
    job.current = NoOp /\ job.frontier = <<>> /\ job.limits = {} /\ job.failures = <<>>

Sound(job, ops) ==
  /\ Ledger(job, ops) /\ Blamed(job, ops) /\ Bounded(job) /\ Batched(job, ops)
  /\ Walked(job, ops) /\ Covered(job, ops) /\ Whole(job)

\* The result of a read of named leaves has them all.
Answering(d) ==
  \A o \in OpId :
    /\ d.ops[o].state = "succeeded" /\ d.ops[o].ask.kind = "values"
    /\ d.ops[o].ask.path = NoPath /\ d.ops[o].ask.names # {}
    => DOMAIN d.ops[o].result = d.ops[o].ask.names

\* A transaction that accepts an answer accounts for it before it commits.
Absorbed(d) ==
  \A j \in Running(d) : d.jobs[j].current # NoOp => d.ops[d.jobs[j].current].state # "succeeded"

JobsSound(d) == \A j \in JobId : Sound(d.jobs[j], d.ops)
JobsKept(d) == JobsSound(d) /\ Answering(d) /\ Absorbed(d)

----------------------------------------------------------------------------
(* The records of a job, whatever happens to it.                           *)

LEMMA IssuedOps ==
  ASSUME NEW job \in Job
  PROVE  /\ job.issued \in [1..Len(job.issued) -> OpId] /\ Len(job.issued) \in Nat
         /\ JobRange(job.issued) \subseteq OpId /\ IsFiniteSet(JobRange(job.issued))
         /\ Done(job) \subseteq OpId /\ IsFiniteSet(Done(job)) /\ Cardinality(Done(job)) \in Nat
<1>1. job.issued \in [1..Len(job.issued) -> OpId] /\ Len(job.issued) \in Nat
  BY LenProperties DEF Job
<1>2. JobRange(job.issued) \subseteq OpId BY <1>1 DEF JobRange
<1>3. job.issued \in Surjection(1..Len(job.issued), JobRange(job.issued))
  BY <1>1 DEF JobRange, Surjection
<1>4. IsFiniteSet(JobRange(job.issued)) BY <1>1, <1>3, FS_Interval, FS_Surjection
<1>5. IsFiniteSet(Done(job)) /\ Cardinality(Done(job)) \in Nat
  BY <1>4, FS_Difference, FS_CardinalityType DEF Done
<1> QED BY <1>1, <1>2, <1>4, <1>5 DEF Done

\* Nothing that other transactions do to the operations disturbs them.
LEMMA SoundKept ==
  ASSUME NEW d \in Tables, NEW e \in Tables, Progress(d, e), NEW job \in Job, Sound(job, d.ops)
  PROVE  Sound(job, e.ops)
<1>1. JobRange(job.issued) \subseteq OpId /\ Done(job) \subseteq JobRange(job.issued)
  BY IssuedOps DEF Done
<1>2. \A o \in JobRange(job.issued) : d.ops[o].state # "absent" BY DEF Sound, Ledger
<1>3. \A o \in OpId : d.ops[o] \in Operation BY RowTypes
<1>4. \A o \in JobRange(job.issued) : e.ops[o].state # "absent" /\ e.ops[o].ask = d.ops[o].ask
  BY <1>1, <1>2, <1>3 DEF Progress, OpProgress, Operation
<1>5. \A o \in Done(job) : e.ops[o] = d.ops[o] /\ d.ops[o].state \in Terminal
  BY <1>1 DEF Progress, OpProgress, Sound, Ledger
<1>6. Ledger(job, e.ops) BY <1>4, <1>5 DEF Sound, Ledger
<1>7. Blamed(job, e.ops) BY <1>5 DEF Sound, Blamed
<1>8. Batched(job, e.ops)
  <2>1. Batched(job, d.ops) /\ Ledger(job, d.ops) BY DEF Sound
  <2> QED BY <1>4, <2>1 DEF Batched, Ledger
<1>9. Walked(job, e.ops)
  <2>1. Walked(job, d.ops) BY DEF Sound
  <2> QED BY <1>1, <1>4, <2>1 DEF Walked, Rooted
<1>10. Covered(job, e.ops)
  <2>1. Covered(job, d.ops) BY DEF Sound
  <2> QED BY <1>4, <1>5, <2>1 DEF Covered
<1> QED BY <1>6, <1>7, <1>8, <1>9, <1>10 DEF Sound

\* Recording a limit, which a job that has not ended may always do.
Limited(job, row) ==
  /\ row.spec = job.spec /\ row.frontier = job.frontier /\ row.current = job.current
  /\ row.depth = job.depth /\ row.rpcs = job.rpcs /\ row.completed = job.completed
  /\ row.entries = job.entries /\ row.failures = job.failures /\ row.issued = job.issued
  /\ job.limits \subseteq row.limits

LEMMA SoundLimited ==
  ASSUME NEW job, NEW row, NEW ops, Sound(job, ops), Limited(job, row), Whole(row)
  PROVE  Sound(row, ops)
<1>1. Done(row) = Done(job) /\ Failed(row) = Failed(job) /\ (row.limits = {} => job.limits = {})
  BY DEF Limited, Done, Failed
<1>2. Ledger(row, ops) BY <1>1 DEF Sound, Limited, Ledger
<1>3. Blamed(row, ops) BY <1>1 DEF Sound, Limited, Blamed
<1>4. Bounded(row) BY DEF Sound, Limited, Bounded
<1>5. Batched(row, ops) BY <1>1 DEF Sound, Limited, Batched
<1>6. Walked(row, ops) BY <1>1 DEF Sound, Limited, Walked, Rooted
<1>7. Covered(row, ops) BY <1>1 DEF Sound, Limited, Covered
<1> QED BY <1>2, <1>3, <1>4, <1>5, <1>6, <1>7 DEF Sound

----------------------------------------------------------------------------
(* Accounting for the operation that has ended.                            *)

\* What a job can expect of a successful operation it is about to count.
Fitting(d, job) ==
  job.spec.kind = "discovery" /\ d.ops[job.current].state = "succeeded" =>
    /\ Cardinality(Entries(d, job.current)) <= job.spec.max_entries - job.entries
    /\ job.limits = {} => DOMAIN d.ops[job.current].result \subseteq Entries(d, job.current)

\* The rows Absorb makes: each ends the wait, and then records a failure, what an answer to a
\* discovery read lists, or how many values were read.
Counted(job, row) ==
  /\ row.spec = job.spec /\ row.issued = job.issued /\ row.rpcs = job.rpcs
  /\ row.depth = job.depth /\ row.state = job.state
  /\ row.current = NoOp /\ row.completed = job.completed + 1
Blames(job, op, row) ==
  /\ row.frontier = job.frontier /\ row.entries = job.entries /\ row.limits = job.limits
  /\ row.failures = Append(job.failures, [op |-> job.current, reason |-> op.reason])
Extends(job, entries, row) ==
  /\ row.failures = job.failures
  /\ row.entries = job.entries + Cardinality(entries)
  /\ row.frontier = job.frontier \o Branches(Sorted[Deeper(job, entries)], job.depth + 1)
  /\ row.limits = job.limits \cup Left(job, entries)
Reads(job, op, row) ==
  /\ row.frontier = job.frontier /\ row.limits = job.limits /\ row.failures = job.failures
  /\ row.entries = job.entries + Cardinality(DOMAIN op.result)

LEMMA AbsorbRow ==
  ASSUME NEW d \in Tables, NEW j \in JobId, d.jobs[j].current \in OpId
  PROVE  LET job == d.jobs[j]
             op == d.ops[job.current]
             row == Absorb(d, j).jobs[j]
         IN /\ Absorb(d, j) \in Tables /\ Absorb(d, j).ops = d.ops
            /\ \A i \in JobId : i # j => Absorb(d, j).jobs[i] = d.jobs[i]
            /\ Counted(job, row)
            /\ op.state # "succeeded" => Blames(job, op, row)
            /\ op.state = "succeeded" /\ job.spec.kind = "discovery" =>
                 Extends(job, Entries(d, job.current), row)
            /\ op.state = "succeeded" /\ job.spec.kind = "values" => Reads(job, op, row)
<1> DEFINE job == d.jobs[j]
           op == d.ops[job.current]
           entries == Entries(d, job.current)
           ended == [job EXCEPT !.current = NoOp, !.completed = @ + 1]
           failed == [ended EXCEPT !.failures = Append(@, [op |-> job.current, reason |-> op.reason])]
           found == Discovered(ended, entries)
           read == [ended EXCEPT !.entries = @ + Cardinality(DOMAIN op.result)]
           row == IF op.state # "succeeded" THEN failed
                  ELSE IF job.spec.kind = "discovery" THEN found ELSE read
<1>1. job \in Job BY RowTypes
<1>2. Absorb(d, j) = [d EXCEPT !.jobs[j] = row] BY DEF Absorb
<1>3. /\ ended.spec = job.spec /\ ended.issued = job.issued /\ ended.rpcs = job.rpcs
      /\ ended.depth = job.depth /\ ended.state = job.state /\ ended.frontier = job.frontier
      /\ ended.entries = job.entries /\ ended.limits = job.limits /\ ended.failures = job.failures
      /\ ended.current = NoOp /\ ended.completed = job.completed + 1
      /\ DOMAIN ended = DOMAIN job
  BY <1>1 DEF Job
<1>4. Deeper(ended, entries) = Deeper(job, entries) /\ Left(ended, entries) = Left(job, entries)
  BY <1>3 DEF Deeper, Left
<1> HIDE DEF ended
<1>5. DOMAIN ended = {"state", "spec", "frontier", "current", "depth", "rpcs", "completed",
                      "entries", "failures", "limits", "issued"}
  BY <1>1, <1>3 DEF Job
<1>6. Counted(job, failed) /\ Blames(job, op, failed) BY <1>3, <1>5 DEF Counted, Blames
<1>7. Counted(job, found) /\ Extends(job, entries, found)
  BY <1>3, <1>4, <1>5 DEF Counted, Extends, Discovered
<1>8. Counted(job, read) /\ Reads(job, op, read) BY <1>3, <1>5 DEF Counted, Reads
<1> HIDE DEF failed, found, read
<1>9. /\ Counted(job, row)
      /\ op.state # "succeeded" => Blames(job, op, row)
      /\ op.state = "succeeded" /\ job.spec.kind = "discovery" => Extends(job, entries, row)
      /\ op.state = "succeeded" /\ job.spec.kind = "values" => Reads(job, op, row)
  BY <1>6, <1>7, <1>8
<1>10. Absorb(d, j) \in Tables BY AbsorbType
<1> HIDE DEF row
<1>11. /\ Absorb(d, j).ops = d.ops /\ Absorb(d, j).jobs[j] = row
       /\ \A i \in JobId : i # j => Absorb(d, j).jobs[i] = d.jobs[i]
  BY <1>2 DEF Tables
<1> QED BY ONLY <1>9, <1>10, <1>11

\* Every outcome settles the account of the operation.
LEMMA CountedLedger ==
  ASSUME NEW job \in Job, NEW row, NEW ops, Ledger(job, ops), Counted(job, row),
         job.current \in OpId, ops[job.current].state \in Terminal
  PROVE  /\ Ledger(row, ops)
         /\ Done(row) = Done(job) \cup {job.current} /\ job.current \notin Done(job)
         /\ Done(row) = JobRange(job.issued) /\ JobRange(row.issued) = JobRange(job.issued)
<1>1. /\ JobRange(job.issued) \subseteq OpId /\ IsFiniteSet(Done(job))
      /\ Cardinality(Done(job)) \in Nat
  BY IssuedOps
<1>2. NoOp \notin OpId /\ job.current # NoOp BY IdAssumption
<1>3. job.current \in JobRange(job.issued) BY <1>2 DEF Ledger
<1>4. /\ Done(row) = JobRange(job.issued) /\ Done(row) = Done(job) \cup {job.current}
      /\ job.current \notin Done(job)
  BY <1>1, <1>2, <1>3 DEF Done, Counted
<1>5. Cardinality(Done(row)) = job.completed + 1
  <2>1. Cardinality(Done(job) \cup {job.current}) = Cardinality(Done(job)) + 1
    BY <1>1, <1>4, FS_AddElement
  <2>2. job.completed = Cardinality(Done(job)) BY DEF Ledger
  <2> QED BY ONLY <1>4, <2>1, <2>2
<1>6. Ledger(row, ops)
  <2>1. row.issued = job.issued /\ row.rpcs = job.rpcs /\ row.current = NoOp
        /\ row.completed = job.completed + 1
    BY DEF Counted
  <2>2. \A o \in Done(row) : ops[o].state \in Terminal
    <3>1. \A o \in Done(job) : ops[o].state \in Terminal BY DEF Ledger
    <3> QED BY ONLY <1>4, <3>1, ops[job.current].state \in Terminal
  <2>3. row.completed = Cardinality(Done(row)) BY <1>5, <2>1
  <2> QED BY ONLY <2>1, <2>2, <2>3, Ledger(job, ops) DEF Ledger
<1> QED BY <1>4, <1>6 DEF Counted

LEMMA BlamedSame ==
  ASSUME NEW job, NEW row, NEW ops, Blamed(job, ops), row.failures = job.failures,
         Done(row) = Done(job) \cup {job.current}, ops[job.current].state = "succeeded"
  PROVE  Blamed(row, ops)
<1>1. Failed(row) = Failed(job) BY DEF Failed
<1> QED BY <1>1 DEF Blamed

LEMMA BlamedMore ==
  ASSUME NEW job \in Job, NEW row, NEW ops, NEW op, Blamed(job, ops), Blames(job, op, row),
         Done(row) = Done(job) \cup {job.current}, job.current \notin Done(job),
         job.current # NoOp, op.reason \in Reasons,
         job.current \in OpId, ops[job.current].state # "succeeded"
  PROVE  Blamed(row, ops) /\ row.failures # <<>>
<1> DEFINE Failure == [op : OpId \cup {NoOp}, reason : Reasons]
           last == [op |-> job.current, reason |-> op.reason]
           n == Len(job.failures)
<1>1. job.failures \in Seq(Failure) /\ last \in Failure BY DEF Job
<1>2. n \in Nat /\ DOMAIN job.failures = 1..n BY <1>1, LenProperties
<1>3. /\ DOMAIN row.failures = 1..n + 1 /\ row.failures[n + 1] = last
      /\ \A i \in 1..n : row.failures[i] = job.failures[i]
  <2> HIDE DEF Failure, last
  <2> QED BY <1>1, <1>2, AppendProperties, LenProperties DEF Blames, last
<1>4. last.op = job.current OBVIOUS
<1> HIDE DEF last, n
<1>5. Failed(row) = Failed(job) \cup {n + 1} /\ n + 1 \notin Failed(job)
  BY <1>2, <1>3, <1>4 DEF Failed
<1>6. \A i \in Failed(job) : /\ row.failures[i] = job.failures[i]
                             /\ row.failures[i].op \in Done(job)
                             /\ ops[row.failures[i].op].state # "succeeded"
  BY <1>2, <1>3 DEF Failed, Blamed
<1>7. row.failures[n + 1].op = job.current BY <1>3, <1>4
<1>8. \A i \in Failed(row) : /\ row.failures[i].op \in Done(row)
                             /\ ops[row.failures[i].op].state # "succeeded"
  BY <1>5, <1>6, <1>7
<1>9. \A o \in Done(row) : ops[o].state # "succeeded" => \E i \in Failed(row) : row.failures[i].op = o
  BY <1>5, <1>6, <1>7 DEF Blamed
<1>10. \A i, k \in Failed(row) : i # k => row.failures[i].op # row.failures[k].op
  BY <1>5, <1>6, <1>7 DEF Blamed
<1>11. row.failures # <<>>
  BY <1>2, <1>3, EmptySeq
<1> QED BY <1>8, <1>9, <1>10, <1>11 DEF Blamed

\* Path order puts an object before what it holds.
LEMMA PathOrder ==
  /\ \A p, q, r : Precedes(p, q) /\ Precedes(q, r) => Precedes(p, r)
  /\ \A p : ~ Precedes(p, p)
  /\ \A p \in Path : Parent[p] \in Path => Precedes(Parent[p], p)
<1> DEFINE order == Sorted[Path]
<1>1. /\ order \in Seq(Path) /\ {order[i] : i \in DOMAIN order} = Path
      /\ \A i, k \in DOMAIN order : i # k => order[i] # order[k]
      /\ \A i, k \in DOMAIN order : Parent[order[k]] = order[i] => i < k
  BY PathAssumption, SortedAssumption
<1>2. DOMAIN order = 1..Len(order) /\ Len(order) \in Nat BY <1>1, LenProperties
<1> HIDE DEF order
<1>3. \A p, q : Precedes(p, q) <=> \E i, k \in DOMAIN order : order[i] = p /\ order[k] = q /\ i < k
  BY DEF Precedes, order
<1>4. \A p, q, r : Precedes(p, q) /\ Precedes(q, r) => Precedes(p, r)
  <2> SUFFICES ASSUME NEW p, NEW q, NEW r, Precedes(p, q), Precedes(q, r) PROVE Precedes(p, r)
    OBVIOUS
  <2>1. PICK i, k \in DOMAIN order : order[i] = p /\ order[k] = q /\ i < k BY <1>3
  <2>2. PICK l, m \in DOMAIN order : order[l] = q /\ order[m] = r /\ l < m BY <1>3
  <2>3. k = l BY <1>1, <2>1, <2>2
  <2>4. i < m BY <1>2, <2>1, <2>2, <2>3
  <2> QED BY <1>3, <2>1, <2>2, <2>4
<1>5. \A p : ~ Precedes(p, p)
  <2> SUFFICES ASSUME NEW p, Precedes(p, p) PROVE FALSE OBVIOUS
  <2>1. PICK i, k \in DOMAIN order : order[i] = p /\ order[k] = p /\ i < k BY <1>3
  <2>2. i = k BY <1>1, <2>1
  <2> QED BY <1>2, <2>1, <2>2
<1>6. \A p \in Path : Parent[p] \in Path => Precedes(Parent[p], p)
  <2> SUFFICES ASSUME NEW p \in Path, Parent[p] \in Path PROVE Precedes(Parent[p], p)
    OBVIOUS
  <2>1. PICK i \in DOMAIN order : order[i] = Parent[p] BY <1>1
  <2>2. PICK k \in DOMAIN order : order[k] = p BY <1>1
  <2> QED BY <1>1, <1>3, <2>1, <2>2
<1> QED BY <1>4, <1>5, <1>6

\* What the frontier holds once an answer has extended it: what it held, and then a branch
\* for each path found, n and m of them.
Grown(job, found, row, paths, n, m) ==
  /\ n \in Nat /\ DOMAIN job.frontier = 1..n /\ m \in Nat
  /\ DOMAIN row.frontier = 1..n + m
  /\ \A i \in 1..n : row.frontier[i] = job.frontier[i]
  /\ \A i \in 1..m : /\ row.frontier[n + i].path = paths[i]
                     /\ row.frontier[n + i].depth = job.depth + 1
  /\ \A i \in 1..m : paths[i] \in found
  /\ \A p \in found : \E i \in 1..m : paths[i] = p
  /\ \A i, k \in 1..m : i # k => paths[i] # paths[k]

LEMMA FrontierGrown ==
  ASSUME NEW job \in Job, NEW entries \in SUBSET Path, NEW row, Extends(job, entries, row)
  PROVE  LET paths == Sorted[Deeper(job, entries)]
         IN Grown(job, Deeper(job, entries), row, paths, Len(job.frontier), Len(paths))
<1> DEFINE n == Len(job.frontier)
           found == Deeper(job, entries)
           paths == Sorted[found]
           more == Branches(paths, job.depth + 1)
<1>1. job.frontier \in Seq(Step) /\ job.depth + 1 \in Nat BY DEF Job
<1>2. n \in Nat /\ DOMAIN job.frontier = 1..n BY <1>1, LenProperties
<1>3. found \subseteq Path BY DEF Deeper
<1> HIDE DEF found
<1>4. /\ paths \in Seq(Path) /\ {paths[i] : i \in DOMAIN paths} = found
      /\ \A i, k \in DOMAIN paths : i # k => paths[i] # paths[k]
  BY <1>3, PathAssumption, SortedAssumption
<1>5. DOMAIN paths = 1..Len(paths) /\ Len(paths) \in Nat BY <1>4, LenProperties
<1> HIDE DEF paths
<1>6. more \in Seq(Step) BY <1>1, <1>4, BranchesType
<1>7. /\ DOMAIN more = 1..Len(paths)
      /\ \A i \in 1..Len(paths) : more[i] = [path |-> paths[i], depth |-> job.depth + 1, names |-> {}]
  BY DEF Branches
<1>8. Len(more) = Len(paths) BY <1>5, <1>6, <1>7, LenProperties
<1>9. row.frontier = job.frontier \o more BY DEF Extends, paths, found
<1> HIDE DEF more
<1>10. /\ row.frontier \in Seq(Step) /\ Len(row.frontier) = n + Len(paths)
       /\ \A i \in 1..n + Len(paths) : row.frontier[i] = IF i <= n THEN job.frontier[i] ELSE more[i - n]
  <2> DEFINE both == job.frontier \o more
  <2>1. /\ both \in Seq(Step) /\ Len(both) = n + Len(more)
        /\ \A i \in 1..n + Len(more) : both[i] = IF i <= n THEN job.frontier[i] ELSE more[i - n]
    BY <1>1, <1>6, ConcatProperties
  <2>2. row.frontier = both BY <1>9
  <2> HIDE DEF both, n
  <2> QED BY ONLY <1>8, <2>1, <2>2
<1>11. DOMAIN row.frontier = 1..n + Len(paths) BY <1>10, LenProperties
<1> HIDE DEF n
<1>12. \A i \in 1..n : row.frontier[i] = job.frontier[i] BY <1>2, <1>5, <1>10
<1>13. \A i \in 1..Len(paths) : row.frontier[n + i] = more[i]
  <2> SUFFICES ASSUME NEW i \in 1..Len(paths) PROVE row.frontier[n + i] = more[i] OBVIOUS
  <2>1. n + i \in 1..n + Len(paths) /\ ~ (n + i <= n) /\ (n + i) - n = i BY <1>2, <1>5
  <2> QED BY <1>10, <2>1
<1>14. \A i \in 1..Len(paths) : /\ row.frontier[n + i].path = paths[i]
                                /\ row.frontier[n + i].depth = job.depth + 1
  <2> SUFFICES ASSUME NEW i \in 1..Len(paths)
               PROVE  /\ row.frontier[n + i].path = paths[i]
                      /\ row.frontier[n + i].depth = job.depth + 1
    OBVIOUS
  <2>1. row.frontier[n + i] = [path |-> paths[i], depth |-> job.depth + 1, names |-> {}]
    BY <1>7, <1>13
  <2> QED BY <2>1
<1>15. /\ \A i \in 1..Len(paths) : paths[i] \in found
       /\ \A p \in found : \E i \in 1..Len(paths) : paths[i] = p
  BY <1>4, <1>5
<1>16. Grown(job, found, row, paths, n, Len(paths))
  BY ONLY <1>2, <1>4, <1>5, <1>11, <1>12, <1>14, <1>15 DEF Grown
<1> QED BY <1>16 DEF n, paths, found

\* A failed read is recorded; what it left out need not be covered any more.
LEMMA SoundBlamed ==
  ASSUME NEW job \in Job, NEW row, NEW ops, Sound(job, ops), Counted(job, row),
         Blames(job, ops[job.current], row), ops[job.current].reason \in Reasons,
         job.current \in OpId, job.state = "running",
         ops[job.current].state \in Terminal, ops[job.current].state # "succeeded"
  PROVE  Sound(row, ops)
<1>1. /\ Ledger(row, ops) /\ Done(row) = Done(job) \cup {job.current}
      /\ job.current \notin Done(job) /\ job.current # NoOp
      /\ JobRange(row.issued) = JobRange(job.issued)
  BY CountedLedger, IdAssumption DEF Sound
<1>2. Blamed(row, ops) /\ row.failures # <<>>
  BY <1>1, BlamedMore DEF Sound
<1>3. Bounded(row) BY DEF Sound, Bounded, Counted, Blames
<1>4. Batched(row, ops)
  <2>1. /\ Batched(job, ops) /\ row.spec = job.spec /\ row.frontier = job.frontier
        /\ row.current = NoOp
    BY DEF Sound, Counted, Blames
  <2> QED BY ONLY <1>1, <1>2, <2>1 DEF Batched
<1>5. Walked(row, ops)
  <2>1. \A p : Rooted(job, ops, p) => Rooted(row, ops, p) BY <1>1 DEF Rooted, Counted
  <2>2. Walked(job, ops) /\ row.spec = job.spec /\ row.frontier = job.frontier
    BY DEF Sound, Counted, Blames
  <2> QED BY <1>1, <2>1, <2>2 DEF Walked
<1>6. Covered(row, ops) BY <1>2 DEF Covered
<1>7. Whole(row) BY DEF Whole, Counted
<1> QED BY <1>1, <1>2, <1>3, <1>4, <1>5, <1>6, <1>7 DEF Sound

\* The answer to a read of values holds the leaves it asked for, which the budget allowed.
LEMMA SoundRead ==
  ASSUME NEW job \in Job, NEW row, NEW ops, Sound(job, ops), Counted(job, row),
         Reads(job, ops[job.current], row), job.spec.kind = "values", job.current \in OpId,
         job.state = "running", ops[job.current].state = "succeeded",
         DOMAIN ops[job.current].result = ops[job.current].ask.names,
         ops[job.current].ask.names \subseteq Path
  PROVE  Sound(row, ops)
<1> DEFINE op == ops[job.current]
<1>1. /\ Ledger(row, ops) /\ Done(row) = Done(job) \cup {job.current}
      /\ JobRange(row.issued) = JobRange(job.issued) /\ job.current # NoOp
  BY CountedLedger, IdAssumption DEF Sound, Terminal, Answered
<1>2. Blamed(row, ops) BY <1>1, BlamedSame DEF Sound, Reads
<1>3. Bounded(row)
  <2>1. Cardinality(op.ask.names) <= job.spec.max_entries - job.entries
    BY <1>1 DEF Sound, Batched
  <2>2. Cardinality(op.ask.names) \in Nat /\ job.spec.max_entries \in Nat /\ job.entries \in Nat
    BY PathsFinite DEF Job, Spec0
  <2>3. row.entries = job.entries + Cardinality(op.ask.names) BY DEF Reads
  <2>4. row.entries <= job.spec.max_entries BY ONLY <2>1, <2>2, <2>3
  <2> QED BY <2>4 DEF Sound, Bounded, Counted, Reads
<1>4. Batched(row, ops)
  <2>1. /\ Batched(job, ops) /\ row.spec = job.spec /\ row.frontier = job.frontier
        /\ row.limits = job.limits /\ row.failures = job.failures /\ row.current = NoOp
    BY DEF Sound, Counted, Reads
  <2> QED BY ONLY <1>1, <2>1 DEF Batched
<1>5. Walked(row, ops) /\ Covered(row, ops) /\ Whole(row) BY DEF Walked, Covered, Whole, Counted
<1> QED BY <1>1, <1>2, <1>3, <1>4, <1>5 DEF Sound

\* The answer to a discovery read adds branches of its own to the walk.
LEMMA WalkedFurther ==
  ASSUME NEW job \in Job, NEW row, NEW ops, NEW entries \in SUBSET Path,
         Walked(job, ops), Ledger(job, ops), Counted(job, row), Extends(job, entries, row),
         job.spec.kind = "discovery", job.current \in JobRange(job.issued),
         job.current \notin Done(job), Done(row) = Done(job) \cup {job.current},
         \A p \in entries : Parent[p] = ops[job.current].ask.path
  PROVE  Walked(row, ops)
<1> DEFINE n == Len(job.frontier)
           root == job.spec.root
           a == ops[job.current].ask.path
           paths == Sorted[Deeper(job, entries)]
           m == Len(paths)
<1>1. Grown(job, Deeper(job, entries), row, paths, n, m) /\ Deeper(job, entries) \subseteq entries
  BY FrontierGrown DEF Deeper
<1>2. /\ root \in Path /\ a \in Path /\ Rooted(job, ops, a)
      /\ row.spec = job.spec /\ row.issued = job.issued
      /\ \A p : Rooted(job, ops, p) => Rooted(row, ops, p)
  BY DEF Walked, Counted, Rooted
<1> HIDE DEF n, paths, m
<1>0. /\ n \in Nat /\ DOMAIN job.frontier = 1..n /\ m \in Nat
      /\ DOMAIN row.frontier = 1..n + m
      /\ \A i \in 1..n : row.frontier[i] = job.frontier[i]
      /\ \A i \in 1..m : row.frontier[n + i].path = paths[i]
      /\ \A i \in 1..m : paths[i] \in entries
      /\ \A i, k \in 1..m : i # k => paths[i] # paths[k]
  BY <1>1 DEF Grown
<1>3. ASSUME NEW i \in 1..m
      PROVE  /\ paths[i] \in Path /\ Parent[paths[i]] = a
             /\ Precedes(root, paths[i]) /\ Rooted(row, ops, paths[i])
  <2>1. paths[i] \in entries BY <1>0
  <2>2. Precedes(a, paths[i]) BY <1>2, <2>1, PathOrder
  <2>3. Precedes(root, paths[i]) BY <1>2, <2>2, PathOrder DEF Rooted
  <2> QED BY <1>2, <2>1, <2>3 DEF Rooted
<1>4. \A p, i : i \in 1..m /\ Rooted(job, ops, p) => p # paths[i]
  <2> SUFFICES ASSUME NEW i \in 1..m, Rooted(job, ops, paths[i]) PROVE FALSE OBVIOUS
  <2>1. paths[i] # root BY <1>3, PathOrder
  <2>2. PICK o \in Done(job) : ops[o].ask.path = a BY <1>3, <2>1 DEF Rooted
  <2>3. o \in JobRange(job.issued) /\ o # job.current BY <2>2 DEF Done
  <2> QED BY <2>2, <2>3 DEF Walked
<1>5. \A i \in 1..n + m : i \notin 1..n => i - n \in 1..m /\ n + (i - n) = i
  BY <1>0
<1> DEFINE path(i) == row.frontier[i].path
<1>6. \A i \in 1..n : path(i) = job.frontier[i].path
  BY <1>0
<1>7. \A i \in 1..n + m : i \notin 1..n => path(i) = paths[i - n] /\ i - n \in 1..m
  <2> SUFFICES ASSUME NEW i \in 1..n + m, i \notin 1..n PROVE path(i) = paths[i - n] /\ i - n \in 1..m
    OBVIOUS
  <2>1. i - n \in 1..m /\ row.frontier[n + (i - n)].path = paths[i - n] BY <1>0, <1>5
  <2> QED BY <1>5, <2>1
<1>8. \A i \in 1..n : path(i) \in Path /\ Rooted(job, ops, path(i))
  BY <1>0, <1>6 DEF Walked
<1> HIDE DEF path
<1>9. \A i \in 1..n + m : path(i) \in Path /\ Rooted(row, ops, path(i))
  BY <1>2, <1>3, <1>7, <1>8
<1>10. ASSUME NEW i \in 1..n + m, NEW k \in 1..n + m, i # k
       PROVE  path(i) # path(k)
  <2>1. CASE i \in 1..n /\ k \in 1..n
    <3>1. job.frontier[i].path # job.frontier[k].path BY <1>0, <1>10, <2>1 DEF Walked
    <3> QED BY <1>6, <2>1, <3>1
  <2>2. CASE i \in 1..n /\ k \notin 1..n BY <1>4, <1>7, <1>8, <2>2
  <2>3. CASE i \notin 1..n /\ k \in 1..n BY <1>4, <1>7, <1>8, <2>3
  <2>4. CASE i \notin 1..n /\ k \notin 1..n
    <3>1. i - n # k - n BY <1>0, <1>10
    <3>2. path(i) = paths[i - n] /\ path(k) = paths[k - n] /\ i - n \in 1..m /\ k - n \in 1..m
      BY <1>7, <2>4
    <3> QED BY ONLY <1>0, <3>1, <3>2
  <2> QED BY <2>1, <2>2, <2>3, <2>4
<1>11. ASSUME NEW o \in JobRange(job.issued), NEW i \in 1..n + m
       PROVE  ops[o].ask.path # path(i)
  <2>1. CASE i \in 1..n BY <1>0, <1>6, <2>1 DEF Walked
  <2>2. CASE i \notin 1..n BY <1>4, <1>7, <2>2 DEF Walked
  <2> QED BY <2>1, <2>2
<1>12. \A o \in JobRange(row.issued) : /\ ops[o].ask.kind = "names" /\ ops[o].ask.path \in Path
                                       /\ Rooted(row, ops, ops[o].ask.path)
  BY <1>2 DEF Walked
<1>13. \A o, q \in JobRange(row.issued) : o # q => ops[o].ask.path # ops[q].ask.path
  BY <1>2 DEF Walked
<1> QED BY <1>0, <1>2, <1>9, <1>10, <1>11, <1>12, <1>13 DEF Walked, path

\* And covers all the objects it lists, or says what it leaves out.
LEMMA CoveredFurther ==
  ASSUME NEW job \in Job, NEW row, NEW ops, NEW entries \in SUBSET Path,
         Covered(job, ops), Counted(job, row), Extends(job, entries, row), job.spec.kind = "discovery",
         Done(row) = Done(job) \cup {job.current}, job.depth <= job.spec.max_depth,
         job.limits = {} => DOMAIN ops[job.current].result \subseteq entries
  PROVE  Covered(row, ops)
<1> DEFINE n == Len(job.frontier)
           paths == Sorted[Deeper(job, entries)]
           m == Len(paths)
<1>1. Grown(job, Deeper(job, entries), row, paths, n, m) BY FrontierGrown
<1> HIDE DEF n, paths, m
<1> SUFFICES ASSUME row.limits = {}, row.failures = <<>>,
                    NEW o \in Done(row), NEW p \in DOMAIN ops[o].result \cap Object
             PROVE  \/ \E q \in JobRange(row.issued) : ops[q].ask.path = p
                    \/ \E i \in DOMAIN row.frontier : row.frontier[i].path = p
  BY DEF Covered
<1>2. /\ job.limits = {} /\ job.failures = <<>> /\ Left(job, entries) = {}
      /\ row.issued = job.issued
  BY DEF Extends, Counted
<1>3. CASE o \in Done(job)
  <2>1. \/ \E q \in JobRange(job.issued) : ops[q].ask.path = p
        \/ \E i \in DOMAIN job.frontier : job.frontier[i].path = p
    BY <1>2, <1>3 DEF Covered
  <2>2. \A i \in DOMAIN job.frontier : i \in DOMAIN row.frontier /\ row.frontier[i] = job.frontier[i]
    BY <1>1 DEF Grown
  <2> QED BY ONLY <1>2, <2>1, <2>2
<1>4. CASE o = job.current
  <2>1. p \in entries /\ p \in Object BY <1>2, <1>4
  <2>2. p \in Deeper(job, entries)
    <3>1. CASE job.depth < job.spec.max_depth
      <4>1. "unsupported_branch" \notin Left(job, entries) BY <1>2
      <4>2. entries \cap Object \subseteq Concrete BY <3>1, <4>1 DEF Left
      <4> QED BY <2>1, <3>1, <4>2 DEF Deeper
    <3>2. CASE ~ job.depth < job.spec.max_depth
      <4>1. "max_depth" \notin Left(job, entries) BY <1>2
      <4> QED BY <2>1, <3>2, <4>1 DEF Left
    <3> QED BY <3>1, <3>2
  <2>3. PICK i \in 1..m : paths[i] = p
    <3>1. \A q \in Deeper(job, entries) : \E i \in 1..m : paths[i] = q BY <1>1, Zenon DEF Grown
    <3> QED BY <2>2, <3>1
  <2>4. n + i \in DOMAIN row.frontier /\ row.frontier[n + i].path = p
    BY <1>1, <2>3 DEF Grown
  <2> QED BY <2>4
<1> QED BY <1>2, <1>3, <1>4

LEMMA SoundExtended ==
  ASSUME NEW job \in Job, NEW row, NEW ops, NEW entries \in SUBSET Path,
         Sound(job, ops), Counted(job, row), Extends(job, entries, row),
         job.spec.kind = "discovery", job.current \in OpId, job.state = "running",
         ops[job.current].state = "succeeded",
         \A p \in entries : Parent[p] = ops[job.current].ask.path,
         Cardinality(entries) <= job.spec.max_entries - job.entries,
         job.limits = {} => DOMAIN ops[job.current].result \subseteq entries
  PROVE  Sound(row, ops)
<1>1. /\ Ledger(row, ops) /\ Done(row) = Done(job) \cup {job.current}
      /\ job.current \notin Done(job) /\ job.current # NoOp
      /\ JobRange(row.issued) = JobRange(job.issued) /\ job.current \in JobRange(job.issued)
  BY CountedLedger, IdAssumption DEF Sound, Terminal, Answered, Ledger
<1>2. Blamed(row, ops) BY <1>1, BlamedSame DEF Sound, Extends
<1>3. Bounded(row)
  <2>1. /\ Cardinality(entries) \in Nat /\ job.spec.max_entries \in Nat /\ job.entries \in Nat
        /\ job.depth \in Nat /\ job.spec.max_depth \in Nat
    BY PathsFinite DEF Job, Spec0
  <2>2. row.entries = job.entries + Cardinality(entries) BY DEF Extends
  <2>3. row.entries <= job.spec.max_entries BY <2>1, <2>2
  <2>4. \A i \in DOMAIN row.frontier : row.frontier[i].depth <= job.spec.max_depth
    <3> DEFINE n == Len(job.frontier)
               paths == Sorted[Deeper(job, entries)]
               m == Len(paths)
    <3>1. Grown(job, Deeper(job, entries), row, paths, n, m) BY FrontierGrown
    <3> HIDE DEF n, paths, m
    <3>2. \A i \in 1..m : job.depth < job.spec.max_depth
      BY <3>1 DEF Deeper, Grown
    <3> SUFFICES ASSUME NEW i \in 1..n + m PROVE row.frontier[i].depth <= job.spec.max_depth
      BY <3>1 DEF Grown
    <3>3. CASE i \in 1..n
      <4>1. row.frontier[i] = job.frontier[i] /\ i \in DOMAIN job.frontier
        BY <3>1, <3>3 DEF Grown
      <4> QED BY <4>1 DEF Sound, Bounded
    <3>4. CASE i \notin 1..n
      <4>1. n \in Nat /\ m \in Nat BY <3>1 DEF Grown
      <4>2. i - n \in 1..m /\ n + (i - n) = i BY <3>4, <4>1
      <4>3. row.frontier[n + (i - n)].depth = job.depth + 1 BY ONLY <3>1, <4>2 DEF Grown
      <4>4. job.depth + 1 <= job.spec.max_depth BY <2>1, <3>2, <4>2
      <4> QED BY <4>2, <4>3, <4>4
    <3> QED BY <3>3, <3>4
  <2> QED BY <2>3, <2>4 DEF Sound, Bounded, Counted
<1>4. Batched(row, ops) /\ Whole(row) BY DEF Batched, Whole, Counted
<1>5. Walked(row, ops) BY <1>1, WalkedFurther DEF Sound
<1>6. Covered(row, ops) BY <1>1, CoveredFurther DEF Sound, Bounded
<1> QED BY <1>1, <1>2, <1>3, <1>4, <1>5, <1>6 DEF Sound

LEMMA AbsorbSound ==
  ASSUME NEW d \in Tables, NEW j \in JobId, d.jobs[j].state = "running",
         d.jobs[j].current \in OpId, d.jobs[j].current \notin Active(d),
         Sound(d.jobs[j], d.ops), CatalogTraced(d), Answering(d), Fitting(d, d.jobs[j])
  PROVE  LET row == Absorb(d, j).jobs[j]
         IN Sound(row, d.ops) /\ row.state = "running" /\ row.current = NoOp
<1> DEFINE job == d.jobs[j]
           o == job.current
           op == d.ops[o]
           row == Absorb(d, j).jobs[j]
<1>1. job \in Job /\ op \in Operation /\ op.reason \in Reasons /\ op.ask.names \subseteq Path
  BY RowTypes DEF Operation, Ask
<1>2. /\ Counted(job, row)
      /\ op.state # "succeeded" => Blames(job, op, row)
      /\ op.state = "succeeded" /\ job.spec.kind = "discovery" => Extends(job, Entries(d, o), row)
      /\ op.state = "succeeded" /\ job.spec.kind = "values" => Reads(job, op, row)
  BY AbsorbRow
<1>3. o # NoOp /\ o \in JobRange(job.issued) BY IdAssumption DEF Sound, Ledger
<1>4. op.state \in Terminal
  <2>1. op.state # "absent" BY <1>3 DEF Sound, Ledger
  <2> QED BY <1>1, <2>1 DEF Active, Operation
<1> DEFINE ops == d.ops
<1>5. /\ Sound(job, ops) /\ o = job.current /\ job.current \in OpId /\ op = ops[job.current]
      /\ job.state = "running" /\ Fitting(d, job) /\ ops = d.ops /\ op = d.ops[o]
  OBVIOUS
<1> HIDE DEF row, job, o, op, ops
<1>0. row.state = "running" /\ row.current = NoOp BY <1>2, <1>5 DEF Counted
<1> SUFFICES Sound(row, ops) BY <1>0 DEF row, job, ops
<1>6. CASE op.state # "succeeded"
  <2>1. /\ Blames(job, ops[job.current], row) /\ ops[job.current].reason \in Reasons
        /\ ops[job.current].state \in Terminal /\ ops[job.current].state # "succeeded"
    BY ONLY <1>1, <1>2, <1>4, <1>5, <1>6
  <2> QED BY ONLY <1>1, <1>2, <1>5, <2>1, SoundBlamed
<1>7. CASE op.state = "succeeded" /\ job.spec.kind = "values"
  <2>1. Batched(job, ops) BY <1>5 DEF Sound
  <2>2. DOMAIN op.result = op.ask.names BY <1>3, <1>5, <1>7, <2>1 DEF Batched, Answering
  <2>3. /\ Reads(job, ops[job.current], row) /\ ops[job.current].state = "succeeded"
        /\ DOMAIN ops[job.current].result = ops[job.current].ask.names
        /\ ops[job.current].ask.names \subseteq Path
    BY ONLY <1>1, <1>2, <1>5, <1>7, <2>2
  <2> QED BY ONLY <1>1, <1>2, <1>5, <1>7, <2>3, SoundRead
<1>8. CASE op.state = "succeeded" /\ job.spec.kind = "discovery"
  <2>1. op.ask.path \in Path
    <3>1. Walked(job, ops) BY <1>5 DEF Sound
    <3> QED BY <1>3, <1>5, <1>8, <3>1 DEF Walked
  <2>2. \A p \in Entries(d, o) : p \in Path /\ Parent[p] = op.ask.path
    BY <1>3, <1>5, <2>1, PathAssumption DEF Entries, CatalogTraced, PlanPath
  <2>3. Entries(d, o) \in SUBSET Path BY DEF Entries
  <2>4. /\ Cardinality(Entries(d, o)) <= job.spec.max_entries - job.entries
        /\ job.limits = {} => DOMAIN op.result \subseteq Entries(d, o)
    BY <1>5, <1>8 DEF Fitting
  <2> DEFINE entries == Entries(d, o)
  <2>5. /\ Extends(job, entries, row) /\ ops[job.current].state = "succeeded"
        /\ entries \in SUBSET Path
        /\ \A p \in entries : Parent[p] = ops[job.current].ask.path
        /\ Cardinality(entries) <= job.spec.max_entries - job.entries
        /\ job.limits = {} => DOMAIN ops[job.current].result \subseteq entries
    BY ONLY <1>1, <1>2, <1>5, <1>8, <2>2, <2>3, <2>4
  <2> HIDE DEF entries
  <2> QED BY ONLY <1>1, <1>2, <1>5, <1>8, <2>5, SoundExtended
<1>9. job.spec.kind \in {"discovery", "values"} BY <1>1 DEF Job, Spec0
<1> QED BY <1>6, <1>7, <1>8, <1>9

----------------------------------------------------------------------------
(* Queueing the next step, or ending the job.                              *)

\* A budget that is left takes at least one leaf of a step, and no more than it allows.
LEMMA FirstFew ==
  ASSUME NEW S \in SUBSET Path, NEW n \in Nat
  PROVE  /\ First(S, n) \subseteq S /\ Cardinality(First(S, n)) <= n
         /\ S # {} /\ n # 0 => First(S, n) # {}
<1> DEFINE s == Sorted[S]
           k == IF n < Len(s) THEN n ELSE Len(s)
           f == [i \in 1..k |-> s[i]]
<1>1. s \in Seq(Path) /\ {s[i] : i \in DOMAIN s} = S BY PathAssumption, SortedAssumption
<1>2. DOMAIN s = 1..Len(s) /\ Len(s) \in Nat BY <1>1, LenProperties
<1>3. k \in Nat /\ k <= n /\ k <= Len(s) /\ (Len(s) # 0 /\ n # 0 => k # 0) BY <1>2
<1>4. First(S, n) = {s[i] : i \in 1..k} BY DEF First
<1>5. f \in Surjection(1..k, First(S, n)) BY <1>4 DEF Surjection
<1>6. Cardinality(First(S, n)) <= n
  <2>1. IsFiniteSet(1..k) /\ Cardinality(1..k) = k BY <1>3, FS_Interval
  <2>2. IsFiniteSet(First(S, n)) /\ Cardinality(First(S, n)) <= Cardinality(1..k)
    BY <1>5, <2>1, FS_Surjection
  <2>3. Cardinality(First(S, n)) \in Nat BY <2>2, FS_CardinalityType
  <2> HIDE DEF k
  <2> QED BY <1>3, <2>1, <2>2, <2>3
<1>7. S # {} /\ n # 0 => First(S, n) # {}
  <2> SUFFICES ASSUME S # {}, n # 0 PROVE First(S, n) # {} OBVIOUS
  <2>1. Len(s) # 0 BY <1>1, <1>2
  <2>2. 1 \in 1..k BY <1>2, <1>3, <2>1
  <2> QED BY <1>4, <2>2
<1> QED BY <1>6, <1>7, FirstOf

\* The first step of a frontier, and the n - 1 that follow.
Split(frontier, step, rest, n) ==
  /\ n \in Nat \ {0} /\ DOMAIN frontier = 1..n /\ DOMAIN rest = 1..n - 1
  /\ step = frontier[1] /\ \A i \in 1..n - 1 : rest[i] = frontier[i + 1]

LEMMA FrontierSplit ==
  ASSUME NEW job \in Job, job.frontier # <<>>
  PROVE  Split(job.frontier, Head(job.frontier), Tail(job.frontier), Len(job.frontier))
<1>1. job.frontier \in Seq(Step) BY DEF Job
<1>2. Len(job.frontier) \in Nat \ {0} /\ DOMAIN job.frontier = 1..Len(job.frontier)
  BY <1>1, LenProperties, EmptySeq
<1>3. /\ Tail(job.frontier) \in Seq(Step) /\ Len(Tail(job.frontier)) = Len(job.frontier) - 1
      /\ \A i \in 1..Len(Tail(job.frontier)) : Tail(job.frontier)[i] = job.frontier[i + 1]
  BY <1>1, HeadTailProperties
<1>4. DOMAIN Tail(job.frontier) = 1..Len(job.frontier) - 1 BY <1>3, LenProperties
<1>5. Head(job.frontier) = job.frontier[1] BY <1>1, <1>2
<1> QED BY <1>2, <1>3, <1>4, <1>5 DEF Split

LEMMA SplitCases ==
  ASSUME NEW frontier, NEW step, NEW rest, NEW n, Split(frontier, step, rest, n)
  PROVE  /\ 1 \in DOMAIN frontier /\ step = frontier[1]
         /\ \A i \in DOMAIN rest : /\ i + 1 \in DOMAIN frontier /\ i + 1 # 1
                                   /\ rest[i] = frontier[i + 1]
         /\ \A i, k \in DOMAIN rest : i # k => i + 1 # k + 1
         /\ \A i \in DOMAIN frontier : i # 1 => /\ i - 1 \in DOMAIN rest
                                                /\ rest[i - 1] = frontier[i]
<1>1. \A i \in DOMAIN frontier : i # 1 => i - 1 \in DOMAIN rest /\ rest[i - 1] = frontier[i]
  <2> SUFFICES ASSUME NEW i \in DOMAIN frontier, i # 1
               PROVE  i - 1 \in DOMAIN rest /\ rest[i - 1] = frontier[i]
    OBVIOUS
  <2>1. i - 1 \in 1..n - 1 /\ (i - 1) + 1 = i BY DEF Split
  <2>2. rest[i - 1] = frontier[(i - 1) + 1] BY <2>1 DEF Split
  <2> QED BY <2>1, <2>2 DEF Split
<1> QED BY <1>1 DEF Split

\* The operation a step becomes, and the row that issued it.
Becomes(job, step, ask) ==
  /\ ask.kind = IF job.spec.kind = "discovery" THEN "names" ELSE "values"
  /\ ask.path = step.path
  /\ ask.names = First(step.names, job.spec.max_entries - job.entries)
Issues(job, id, step, rest, ask, row) ==
  /\ row.spec = job.spec /\ row.state = job.state /\ row.completed = job.completed
  /\ row.entries = job.entries /\ row.failures = job.failures
  /\ row.frontier = rest /\ row.current = id /\ row.depth = step.depth
  /\ row.rpcs = job.rpcs + 1 /\ row.issued = Append(job.issued, id)
  /\ row.limits = job.limits \cup {l \in {"max_entries"} : ask.names # step.names}

\* An operation that joins the others, and what a job that issues it has.
Joins(ops, more, id) ==
  /\ ops[id].state = "absent" /\ more[id].state # "absent"
  /\ \A o \in OpId : o # id => more[o] = ops[o]
Issued(job, row, ops, more, id) ==
  /\ JobRange(row.issued) = JobRange(job.issued) \cup {id} /\ id \notin JobRange(job.issued)
  /\ Done(row) = Done(job) /\ Done(job) = JobRange(job.issued)
  /\ \A o \in JobRange(job.issued) : more[o] = ops[o]

LEMMA IssuedLedger ==
  ASSUME NEW job \in Job, NEW row, NEW ops, NEW more, NEW id \in OpId,
         Ledger(job, ops), job.current = NoOp, Joins(ops, more, id),
         row.issued = Append(job.issued, id), row.rpcs = job.rpcs + 1, row.current = id,
         row.completed = job.completed
  PROVE  Ledger(row, more) /\ Issued(job, row, ops, more, id)
<1> DEFINE n == Len(job.issued)
           new == Append(job.issued, id)
<1>1. job.issued \in Seq(OpId) /\ JobRange(job.issued) \subseteq OpId BY IssuedOps DEF Job
<1>2. DOMAIN job.issued = 1..n /\ n \in Nat BY <1>1, LenProperties
<1>3. new \in Seq(OpId) /\ Len(new) = n + 1
      /\ (\A i \in 1..n : new[i] = job.issued[i]) /\ new[n + 1] = id
  BY <1>1, AppendProperties
<1>4. DOMAIN new = 1..n + 1 BY <1>3, LenProperties
<1> HIDE DEF n, new
<1>5. row.issued = new /\ Len(row.issued) = n + 1 /\ DOMAIN row.issued = 1..n + 1
      /\ (\A i \in 1..n : row.issued[i] = job.issued[i]) /\ row.issued[n + 1] = id
  BY <1>3, <1>4 DEF new
<1>6. id \notin JobRange(job.issued) /\ \A o \in JobRange(job.issued) : more[o] = ops[o]
  BY <1>1 DEF Ledger, Joins
<1>7. JobRange(row.issued) = JobRange(job.issued) \cup {id}
  <2>1. 1..n + 1 = (1..n) \cup {n + 1} BY <1>2
  <2>2. JobRange(row.issued) = {row.issued[i] : i \in 1..n + 1} BY <1>5 DEF JobRange
  <2>3. JobRange(job.issued) = {job.issued[i] : i \in 1..n} BY <1>2 DEF JobRange
  <2> QED BY ONLY <1>5, <2>1, <2>2, <2>3
<1>8. Done(job) = JobRange(job.issued) /\ Done(row) = JobRange(job.issued)
  <2>1. NoOp \notin OpId BY IdAssumption
  <2> QED BY <1>1, <1>6, <1>7, <2>1 DEF Done
<1>9. Ledger(row, more)
  <2>1. row.rpcs = Len(row.issued) BY <1>2, <1>5 DEF Ledger, n
  <2>2. ASSUME NEW i \in DOMAIN row.issued, NEW k \in DOMAIN row.issued, i # k
        PROVE  row.issued[i] # row.issued[k]
    <3>1. \A l \in 1..n : row.issued[l] \in JobRange(job.issued) BY <1>2, <1>5 DEF JobRange
    <3>2. \A l \in DOMAIN row.issued : l \in 1..n \/ l = n + 1 BY <1>2, <1>5
    <3>3. CASE i \in 1..n /\ k \in 1..n BY <1>2, <1>5, <2>2, <3>3 DEF Ledger
    <3>4. CASE i = n + 1 \/ k = n + 1 BY <1>5, <1>6, <2>2, <3>1, <3>2, <3>4
    <3> QED BY <3>2, <3>3, <3>4
  <2>3. \A o \in JobRange(row.issued) : more[o].state # "absent" BY <1>6, <1>7 DEF Ledger, Joins
  <2>4. row.current \in JobRange(row.issued) BY <1>7
  <2>5. row.completed = Cardinality(Done(row)) BY <1>8 DEF Ledger
  <2>6. \A o \in Done(row) : more[o].state \in Terminal BY <1>6, <1>8 DEF Ledger
  <2> QED BY <2>1, <2>2, <2>3, <2>4, <2>5, <2>6 DEF Ledger
<1> QED BY <1>6, <1>7, <1>8, <1>9 DEF Issued

\* A step that is queued belongs to the job as much as it did in the frontier.
LEMMA IssueSound ==
  ASSUME NEW job \in Job, NEW row, NEW ops, NEW more, NEW id \in OpId, NEW step, NEW rest,
         Sound(job, ops), job.state = "running", job.current = NoOp, StepsReadable(job),
         job.rpcs < job.spec.max_rpcs, job.entries < job.spec.max_entries,
         Split(job.frontier, step, rest, Len(job.frontier)),
         Becomes(job, step, more[id].ask), Issues(job, id, step, rest, more[id].ask, row),
         Joins(ops, more, id)
  PROVE  Sound(row, more)
<1> DEFINE ask == more[id].ask
<1>0. Ledger(row, more) /\ Issued(job, row, ops, more, id)
  <2>1. Ledger(job, ops) /\ row.issued = Append(job.issued, id) /\ row.rpcs = job.rpcs + 1
        /\ row.current = id /\ row.completed = job.completed
    BY DEF Sound, Issues
  <2> QED BY <2>1, IssuedLedger
<1>1. /\ JobRange(row.issued) = JobRange(job.issued) \cup {id} /\ id \notin JobRange(job.issued)
      /\ Done(row) = Done(job) /\ Done(job) = JobRange(job.issued)
      /\ \A o \in JobRange(job.issued) : more[o] = ops[o]
  BY <1>0 DEF Issued
<1>2. /\ row.spec = job.spec /\ row.state = "running" /\ row.failures = job.failures
      /\ row.frontier = rest /\ row.current = id
      /\ row.limits = {} => job.limits = {} /\ ask.names = step.names
  BY DEF Issues
<1>3. /\ 1 \in DOMAIN job.frontier /\ step = job.frontier[1]
      /\ \A i \in DOMAIN rest : /\ i + 1 \in DOMAIN job.frontier /\ i + 1 # 1
                                /\ rest[i] = job.frontier[i + 1]
      /\ \A i, k \in DOMAIN rest : i # k => i + 1 # k + 1
      /\ \A i \in DOMAIN job.frontier : i # 1 => i - 1 \in DOMAIN rest /\ rest[i - 1] = job.frontier[i]
  BY SplitCases
<1>4. Blamed(row, more)
  <2>1. Blamed(job, ops) /\ Failed(row) = Failed(job) BY <1>2 DEF Sound, Failed
  <2> QED BY <1>1, <1>2, <2>1 DEF Blamed
<1>5. Bounded(row)
  <2>1. Bounded(job) /\ job.rpcs \in Nat /\ job.spec.max_rpcs \in Nat BY DEF Sound, Job, Spec0
  <2>2. row.rpcs = job.rpcs + 1 /\ row.entries = job.entries /\ row.depth = step.depth
    BY DEF Issues
  <2> QED BY <1>2, <1>3, <2>1, <2>2 DEF Bounded
<1>6. Batched(row, more)
  <2> SUFFICES ASSUME job.spec.kind = "values" PROVE Batched(row, more) BY <1>2 DEF Batched
  <2>1. Batched(job, ops) BY DEF Sound
  <2>2. /\ step.path = NoPath /\ step.names # {} /\ step.names \subseteq job.spec.names
        /\ step.names \subseteq Readable
    BY <1>3, <2>1 DEF Batched, StepsReadable
  <2>3. /\ job.spec.max_entries - job.entries \in Nat \ {0} /\ step.names \in SUBSET Path
    BY <2>2, PathAssumption DEF Job, Spec0
  <2>4. /\ ask.kind = "values" /\ ask.path = NoPath /\ ask.names \subseteq step.names
        /\ ask.names # {} /\ Cardinality(ask.names) <= job.spec.max_entries - job.entries
    BY <2>2, <2>3, FirstFew DEF Becomes
  <2>5. row.entries = job.entries BY DEF Issues
  <2>6. ASSUME row.limits = {}, row.failures = <<>>, NEW p \in job.spec.names
        PROVE  \/ \E i \in DOMAIN row.frontier : p \in row.frontier[i].names
               \/ \E o \in JobRange(row.issued) : p \in more[o].ask.names
    <3>1. CASE \E o \in JobRange(job.issued) : p \in ops[o].ask.names BY <1>1, <3>1
    <3>2. CASE \E i \in DOMAIN job.frontier : p \in job.frontier[i].names
      <4>1. PICK i \in DOMAIN job.frontier : p \in job.frontier[i].names BY <3>2
      <4>2. CASE i = 1 BY <1>1, <1>2, <1>3, <2>6, <4>1, <4>2
      <4>3. CASE i # 1 BY <1>2, <1>3, <4>1, <4>3
      <4> QED BY <4>2, <4>3
    <3> QED BY <1>2, <2>1, <2>6, <3>1, <3>2 DEF Batched
  <2>7. \A i \in DOMAIN row.frontier :
          row.frontier[i].names # {} /\ row.frontier[i].names \subseteq job.spec.names
    BY <1>2, <1>3, <2>1 DEF Batched
  <2>8. \A o \in JobRange(row.issued) :
          /\ more[o].ask.kind = "values" /\ more[o].ask.path = NoPath
          /\ more[o].ask.names # {} /\ more[o].ask.names \subseteq job.spec.names
    BY <1>1, <2>1, <2>2, <2>4 DEF Batched
  <2> QED BY <1>2, <2>4, <2>5, <2>6, <2>7, <2>8 DEF Batched
<1>7. Walked(row, more)
  <2> SUFFICES ASSUME job.spec.kind = "discovery" PROVE Walked(row, more) BY <1>2 DEF Walked
  <2>1. Walked(job, ops) BY DEF Sound
  <2>2. \A p : Rooted(job, ops, p) => Rooted(row, more, p) BY <1>1, <1>2 DEF Rooted
  <2>3. ask.kind = "names" /\ ask.path = step.path BY DEF Becomes
  <2>4. step.path \in Path /\ Rooted(row, more, step.path) BY <1>3, <2>1, <2>2 DEF Walked
  <2>5. \A o \in JobRange(row.issued) : /\ more[o].ask.kind = "names" /\ more[o].ask.path \in Path
                                        /\ Rooted(row, more, more[o].ask.path)
    BY <1>1, <2>1, <2>2, <2>3, <2>4 DEF Walked
  <2>6. \A i \in DOMAIN row.frontier : /\ row.frontier[i].path \in Path
                                       /\ Rooted(row, more, row.frontier[i].path)
    BY <1>2, <1>3, <2>1, <2>2 DEF Walked
  <2>7. \A o \in JobRange(job.issued) : ops[o].ask.path # step.path BY <1>3, <2>1 DEF Walked
  <2>8. \A o, q \in JobRange(row.issued) : o # q => more[o].ask.path # more[q].ask.path
    BY <1>1, <2>1, <2>3, <2>7 DEF Walked
  <2>9. ASSUME NEW i \in DOMAIN row.frontier, NEW k \in DOMAIN row.frontier, i # k
        PROVE  row.frontier[i].path # row.frontier[k].path
    <3>1. /\ i + 1 \in DOMAIN job.frontier /\ k + 1 \in DOMAIN job.frontier /\ i + 1 # k + 1
          /\ rest[i] = job.frontier[i + 1] /\ rest[k] = job.frontier[k + 1]
      BY <1>2, <1>3, <2>9
    <3> QED BY <1>2, <2>1, <3>1 DEF Walked
  <2>10. \A i \in DOMAIN row.frontier : row.frontier[i].path # step.path
    BY <1>2, <1>3, <2>1 DEF Walked
  <2>11. \A o \in JobRange(row.issued), i \in DOMAIN row.frontier :
           more[o].ask.path # row.frontier[i].path
    BY <1>1, <1>2, <1>3, <2>1, <2>3, <2>10 DEF Walked
  <2>12. row.spec.root \in Path BY <1>2, <2>1 DEF Walked
  <2> QED BY <2>5, <2>6, <2>8, <2>9, <2>11, <2>12 DEF Walked
<1>8. Covered(row, more)
  <2> SUFFICES ASSUME job.spec.kind = "discovery", row.limits = {}, row.failures = <<>>,
                      NEW o \in Done(row), NEW p \in DOMAIN more[o].result \cap Object
               PROVE  \/ \E q \in JobRange(row.issued) : more[q].ask.path = p
                      \/ \E i \in DOMAIN row.frontier : row.frontier[i].path = p
    BY <1>2 DEF Covered
  <2>1. Covered(job, ops) BY DEF Sound
  <2>2. o \in Done(job) /\ more[o] = ops[o] BY <1>1
  <2>3. \/ \E q \in JobRange(job.issued) : ops[q].ask.path = p
        \/ \E i \in DOMAIN job.frontier : job.frontier[i].path = p
    BY <1>2, <2>1, <2>2 DEF Covered
  <2>4. CASE \E q \in JobRange(job.issued) : ops[q].ask.path = p BY <1>1, <2>4
  <2>5. CASE \E i \in DOMAIN job.frontier : job.frontier[i].path = p
    <3>1. PICK i \in DOMAIN job.frontier : job.frontier[i].path = p BY <2>5
    <3>2. CASE i = 1
      <4>1. ask.path = p BY <1>3, <3>1, <3>2 DEF Becomes
      <4> QED BY <1>1, <4>1
    <3>3. CASE i # 1 BY <1>2, <1>3, <3>1, <3>3
    <3> QED BY <3>2, <3>3
  <2> QED BY <2>3, <2>4, <2>5
<1>9. Whole(row) BY <1>2 DEF Whole
<1> QED BY <1>0, <1>4, <1>5, <1>6, <1>7, <1>8, <1>9 DEF Sound

\* A job that stops for want of steps or budget, or because a limit is reached.
LEMMA StopSound ==
  ASSUME NEW job \in Job, NEW ops, NEW stop, Sound(job, ops), job.current = NoOp,
         job.frontier = <<>> \/ stop # {}
  PROVE  Sound(Ended([job EXCEPT !.limits = job.limits \cup stop]), ops)
<1> DEFINE kept == [job EXCEPT !.limits = job.limits \cup stop]
           row == Ended(kept)
<1>1. /\ kept.spec = job.spec /\ kept.frontier = job.frontier /\ kept.current = job.current
      /\ kept.depth = job.depth /\ kept.rpcs = job.rpcs /\ kept.completed = job.completed
      /\ kept.entries = job.entries /\ kept.failures = job.failures /\ kept.issued = job.issued
      /\ kept.limits = job.limits \cup stop /\ DOMAIN kept = DOMAIN job
  BY DEF Job
<1> HIDE DEF kept
<1>2. /\ row.spec = kept.spec /\ row.frontier = kept.frontier /\ row.current = kept.current
      /\ row.depth = kept.depth /\ row.rpcs = kept.rpcs /\ row.completed = kept.completed
      /\ row.entries = kept.entries /\ row.failures = kept.failures /\ row.issued = kept.issued
      /\ row.limits = kept.limits
      /\ row.state = "succeeded" => kept.failures = <<>> /\ kept.limits = {}
  BY <1>1 DEF Ended, Job
<1> HIDE DEF row
<1>3. Limited(job, row) BY <1>1, <1>2 DEF Limited
<1>4. Whole(row) BY <1>1, <1>2 DEF Whole
<1>5. Sound(row, ops) BY <1>3, <1>4, SoundLimited
<1> QED BY <1>5 DEF row, kept

\* A job that the policy refuses drops the steps it has left, and says so.
LEMMA RefusedRow ==
  ASSUME NEW job \in Job, job.frontier # <<>>
  PROVE  LET row == Refused(job)
         IN /\ row.spec = job.spec /\ row.current = job.current /\ row.depth = job.depth
            /\ row.rpcs = job.rpcs /\ row.completed = job.completed /\ row.entries = job.entries
            /\ row.issued = job.issued /\ row.state = job.state /\ row.frontier = <<>>
            /\ row.failures # <<>> /\ Failed(row) = Failed(job)
            /\ \A i \in Failed(job) : row.failures[i] = job.failures[i]
            /\ DOMAIN row = DOMAIN job
<1> DEFINE Failure == [op : OpId \cup {NoOp}, reason : Reasons]
           blank == [op |-> NoOp, reason |-> "unsupported_branch_or_profile"]
           f == job.failures
           g == [i \in DOMAIN job.frontier |-> blank]
           row == Refused(job)
           n == Len(f)
           m == Len(job.frontier)
           both == f \o g
<1>1. /\ row.spec = job.spec /\ row.current = job.current /\ row.depth = job.depth
      /\ row.rpcs = job.rpcs /\ row.completed = job.completed /\ row.entries = job.entries
      /\ row.issued = job.issued /\ row.state = job.state /\ row.frontier = <<>>
      /\ row.failures = both /\ DOMAIN row = DOMAIN job
  BY DEF Job, Refused
<1>2. f \in Seq(Failure) /\ job.frontier \in Seq(Step) BY DEF Job
<1>3. /\ n \in Nat /\ DOMAIN f = 1..n /\ m \in Nat \ {0} /\ DOMAIN job.frontier = 1..m
  BY <1>2, LenProperties, EmptySeq
<1>4. g \in Seq(Failure)
  <2>1. blank \in Failure BY DEF Reasons
  <2> HIDE DEF Failure, blank
  <2> QED BY <1>3, <2>1, IsASeq
<1>5. DOMAIN g = 1..m /\ \A i \in 1..m : g[i] = blank BY <1>3
<1>6. Len(g) = m BY <1>3, <1>4, <1>5, LenProperties
<1>7. blank.op = NoOp OBVIOUS
<1> HIDE DEF Failure, blank, f, g, n, m, row
<1>8. /\ both \in Seq(Failure) /\ Len(both) = n + m
      /\ \A i \in 1..n + m : both[i] = IF i <= n THEN f[i] ELSE g[i - n]
  BY <1>2, <1>4, <1>6, ConcatProperties DEF n
<1>9. DOMAIN both = 1..n + m BY <1>8, LenProperties
<1> HIDE DEF both
<1>10. \A i \in 1..n : i \in 1..n + m /\ both[i] = f[i] BY <1>3, <1>8
<1>11. \A i \in 1..n + m : i \notin 1..n => both[i].op = NoOp
  <2> SUFFICES ASSUME NEW i \in 1..n + m, i \notin 1..n PROVE both[i].op = NoOp OBVIOUS
  <2>1. ~ (i <= n) /\ i - n \in 1..m BY <1>3
  <2> QED BY <1>5, <1>7, <1>8, <2>1
<1>12. Failed(row) = Failed(job)
  <2>1. Failed(row) = {i \in 1..n + m : both[i].op # NoOp} BY <1>1, <1>9 DEF Failed
  <2>2. Failed(job) = {i \in 1..n : f[i].op # NoOp} BY <1>3 DEF Failed, f
  <2> QED BY ONLY <1>10, <1>11, <2>1, <2>2
<1>13. \A i \in Failed(job) : row.failures[i] = job.failures[i]
  BY <1>1, <1>3, <1>10 DEF Failed, f
<1>14. row.failures # <<>> BY <1>1, <1>2, <1>3, <1>8, EmptySeq
<1> QED BY <1>1, <1>12, <1>13, <1>14 DEF row

LEMMA RefusedSound ==
  ASSUME NEW job \in Job, NEW ops, Sound(job, ops), job.current = NoOp, job.frontier # <<>>
  PROVE  Sound(Ended(Refused(job)), ops)
<1> DEFINE kept == Refused(job)
           row == Ended(kept)
<1>1. /\ kept.spec = job.spec /\ kept.current = job.current /\ kept.depth = job.depth
      /\ kept.rpcs = job.rpcs /\ kept.completed = job.completed /\ kept.entries = job.entries
      /\ kept.issued = job.issued /\ kept.frontier = <<>> /\ kept.failures # <<>>
      /\ Failed(kept) = Failed(job) /\ DOMAIN kept = DOMAIN job
      /\ \A i \in Failed(job) : kept.failures[i] = job.failures[i]
  BY RefusedRow
<1> HIDE DEF kept
<1>2. /\ row.spec = kept.spec /\ row.frontier = kept.frontier /\ row.current = kept.current
      /\ row.depth = kept.depth /\ row.rpcs = kept.rpcs /\ row.completed = kept.completed
      /\ row.entries = kept.entries /\ row.failures = kept.failures /\ row.issued = kept.issued
      /\ row.limits = kept.limits
      /\ row.state # "succeeded"
  BY <1>1 DEF Ended, Job
<1> HIDE DEF row
<1>3. /\ Done(row) = Done(job) /\ Failed(row) = Failed(job) /\ row.spec = job.spec
      /\ row.issued = job.issued /\ row.frontier = <<>> /\ row.current = NoOp
      /\ row.failures # <<>>
  BY <1>1, <1>2 DEF Done, Failed
<1>4. Ledger(row, ops) BY <1>1, <1>2, <1>3 DEF Sound, Ledger
<1>5. Blamed(row, ops)
  <2>1. \A i \in Failed(job) : row.failures[i] = job.failures[i] BY <1>1, <1>2
  <2> QED BY <1>3, <2>1 DEF Sound, Blamed
<1>6. DOMAIN row.frontier = {} BY <1>3
<1>7. Bounded(row) BY <1>1, <1>2, <1>6 DEF Sound, Bounded
<1>8. Batched(row, ops)
  <2>1. Batched(job, ops) BY DEF Sound
  <2> QED BY ONLY <1>3, <1>6, <2>1 DEF Batched
<1>9. Walked(row, ops)
  <2>1. Walked(job, ops) BY DEF Sound
  <2>2. \A p : Rooted(job, ops, p) => Rooted(row, ops, p) BY <1>3 DEF Rooted
  <2> QED BY ONLY <1>3, <1>6, <2>1, <2>2 DEF Walked
<1>10. Covered(row, ops) BY <1>3 DEF Covered
<1>11. Whole(row) BY <1>2 DEF Whole
<1>12. Sound(row, ops) BY <1>4, <1>5, <1>7, <1>8, <1>9, <1>10, <1>11 DEF Sound
<1> QED BY <1>12 DEF row, kept

\* What the second half of advance leaves: a job that has ended, or one that waits for the
\* operation it has just queued.
Queued(e, j, id) ==
  e.jobs[j].state = "running" => e.jobs[j].current = id /\ e.ops[id].state = "pending"

LEMMA ContinueSound ==
  ASSUME NEW d \in Tables, NEW j \in JobId, NEW id \in OpId, Fresh(d, id), NEW now \in Nat,
         d.jobs[j].state = "running", d.jobs[j].current = NoOp,
         Sound(d.jobs[j], d.ops), StepsReadable(d.jobs[j])
  PROVE  LET e == Continue(d, j, id, now)
         IN /\ Sound(e.jobs[j], e.ops) /\ Queued(e, j, id)
            /\ \A i \in JobId : i # j => e.jobs[i] = d.jobs[i]
<1> DEFINE e == Continue(d, j, id, now)
           job == d.jobs[j]
           ops == d.ops
           stop == Exhausted(job)
           step == Head(job.frontier)
           names == First(step.names, job.spec.max_entries - job.entries)
           ask == [kind |-> IF job.spec.kind = "discovery" THEN "names" ELSE "values",
                   path |-> step.path, names |-> names]
           next == [job EXCEPT !.frontier = Tail(@), !.current = id, !.depth = step.depth,
                               !.rpcs = @ + 1, !.issued = Append(@, id),
                               !.limits = @ \cup {l \in {"max_entries"} : names # step.names}]
<1>1. job \in Job /\ Sound(job, ops) /\ job.current = NoOp /\ job.state = "running"
      /\ StepsReadable(job)
  BY RowTypes
<1> SUFFICES /\ Sound(e.jobs[j], e.ops) /\ Queued(e, j, id)
             /\ \A i \in JobId : i # j => e.jobs[i] = d.jobs[i]
  OBVIOUS
<1>2. ASSUME NEW row, e = [d EXCEPT !.jobs[j] = row], Sound(row, ops), row.state # "running"
      PROVE  /\ Sound(e.jobs[j], e.ops) /\ Queued(e, j, id)
             /\ \A i \in JobId : i # j => e.jobs[i] = d.jobs[i]
  <2>1. e.jobs[j] = row /\ e.ops = ops /\ \A i \in JobId : i # j => e.jobs[i] = d.jobs[i]
    BY ONLY <1>2, d \in Tables, j \in JobId DEF Tables
  <2> HIDE DEF e, ops
  <2> QED BY <1>2, <2>1 DEF Queued
<1>3. CASE job.frontier = <<>> \/ stop # {}
  <2> DEFINE row == Ended([job EXCEPT !.limits = job.limits \cup stop])
  <2>1. e = [d EXCEPT !.jobs[j] = row] BY <1>3 DEF Continue
  <2>2. row.state # "running" BY <1>1 DEF Ended, Job
  <2>3. Sound(row, ops)
    <3> HIDE DEF job, stop, ops
    <3> QED BY <1>1, <1>3, StopSound
  <2> HIDE DEF e, row, job, ops
  <2> QED BY <1>2, <2>1, <2>2, <2>3
<1>4. CASE ~ (job.frontier = <<>> \/ stop # {}) /\ ~ Eligible(d)
  <2> DEFINE row == Ended(Refused(job))
  <2>1. e = [d EXCEPT !.jobs[j] = row] BY <1>4 DEF Continue
  <2>2. row.state # "running" BY <1>1 DEF Ended, Refused, Job
  <2>3. Sound(row, ops)
    <3> HIDE DEF job, stop, ops
    <3> QED BY <1>1, <1>4, RefusedSound
  <2> HIDE DEF e, row, job, ops
  <2> QED BY <1>2, <2>1, <2>2, <2>3
<1>5. CASE ~ (job.frontier = <<>> \/ stop # {}) /\ Eligible(d)
  <2> DEFINE queued == Enqueue(d, id, NoKey, ask, now)
             rest == Tail(job.frontier)
  <2>1. e = [queued EXCEPT !.jobs[j] = next] BY <1>5 DEF Continue
  <2>2. /\ next.spec = job.spec /\ next.state = job.state /\ next.completed = job.completed
        /\ next.entries = job.entries /\ next.failures = job.failures
        /\ next.frontier = rest /\ next.current = id /\ next.depth = step.depth
        /\ next.rpcs = job.rpcs + 1 /\ next.issued = Append(job.issued, id)
        /\ next.limits = job.limits \cup {l \in {"max_entries"} : names # step.names}
    <3> HIDE DEF step, names, ask, job
    <3>1. job.rpcs + 1 \in Nat BY <1>1 DEF Job
    <3> QED BY <1>1, <3>1 DEF Job
  <2>3. ask.kind = (IF job.spec.kind = "discovery" THEN "names" ELSE "values")
        /\ ask.path = step.path /\ ask.names = names
    OBVIOUS
  <2>4. ask \in Ask BY <1>1, <1>5, StepAsk
  <2>5. /\ queued \in Tables /\ queued.jobs = d.jobs
        /\ queued.ops[id].ask = ask /\ queued.ops[id].state = "pending"
        /\ \A o \in OpId : o # id => queued.ops[o] = ops[o]
    <3> DEFINE new == [NoOperation EXCEPT !.state = "pending", !.key = NoKey, !.ask = ask,
                                          !.expires = now + PendingSeconds]
    <3> HIDE DEF ask
    <3>1. queued \in Tables BY <2>4, EnqueueType
    <3>2. new.ask = ask /\ new.state = "pending" BY DEF NoOperation
    <3>3. queued = [d EXCEPT !.ops[id] = new] BY DEF Enqueue
    <3> HIDE DEF queued, new
    <3> QED BY <3>1, <3>2, <3>3 DEF Tables
  <2>6. Becomes(job, step, ask) BY <2>3 DEF Becomes
  <2>7. Issues(job, id, step, rest, ask, next) BY ONLY <2>2, <2>3 DEF Issues
  <2>8. job.rpcs < job.spec.max_rpcs /\ job.entries < job.spec.max_entries
    <3>1. job.rpcs \in Nat /\ job.spec.max_rpcs \in Nat /\ job.entries \in Nat
          /\ job.spec.max_entries \in Nat
      BY <1>1 DEF Job, Spec0
    <3>2. job.frontier # <<>> /\ Exhausted(job) = {} BY <1>5
    <3> HIDE DEF job
    <3>3. ~ (job.rpcs >= job.spec.max_rpcs) /\ ~ (job.entries >= job.spec.max_entries)
      BY ONLY <3>2 DEF Exhausted
    <3> QED BY ONLY <3>1, <3>3
  <2>9. Split(job.frontier, step, rest, Len(job.frontier)) BY <1>1, <1>5, FrontierSplit
  <2> HIDE DEF queued, next, ask, names, step, rest
  <2>10. /\ e.jobs[j] = next /\ e.ops = queued.ops
         /\ \A i \in JobId : i # j => e.jobs[i] = d.jobs[i]
    BY ONLY <2>1, <2>5, j \in JobId DEF Tables
  <2> DEFINE more == e.ops
  <2>11. more[id].ask = ask /\ more[id].state = "pending" /\ Joins(ops, more, id)
    BY <2>5, <2>10 DEF Joins, Fresh
  <2> HIDE DEF job, ops, e, stop
  <2>12. Sound(next, more)
    <3>1. Becomes(job, step, more[id].ask) /\ Issues(job, id, step, rest, more[id].ask, next)
      BY ONLY <2>6, <2>7, <2>11
    <3> HIDE DEF more
    <3> QED BY ONLY <1>1, <2>8, <2>9, <2>11, <3>1, IssueSound, id \in OpId
  <2>13. next.current = id BY <2>2
  <2> QED BY ONLY <2>10, <2>11, <2>12, <2>13 DEF Queued, more
<1> QED BY <1>3, <1>4, <1>5

----------------------------------------------------------------------------
(* advance.                                                                *)

\* What advance needs: an answer that is about to be counted fits the job, and every other
\* answer has been.
Settling(d, j) ==
  \A i \in Running(d) :
    /\ d.jobs[i].current \in OpId /\ i = j => Fitting(d, d.jobs[i])
    /\ d.jobs[i].current \in OpId /\ i # j => d.ops[d.jobs[i].current].state # "succeeded"

\* A transaction that commits no answer accepts none.
LEMMA CalmAnswering ==
  ASSUME NEW d, NEW e, Calm(d, e), Answering(d)
  PROVE  Answering(e)
BY DEF Calm, Answering, Answered, TurnedDown

LEMMA AdvanceJob ==
  ASSUME NEW d \in Tables, NEW j \in JobId, NEW id \in OpId, Fresh(d, id), NEW now \in Nat,
         JobsSound(d), Answering(d), Planned(d), CatalogTraced(d), Settling(d, j)
  PROVE  LET e == Advance(d, j, id, now)
         IN /\ Sound(e.jobs[j], e.ops)
            /\ e.jobs[j].state = "running" => e.jobs[j].current \in Active(e)
            /\ \A i \in JobId : i # j => e.jobs[i] = d.jobs[i]
<1> DEFINE e == Advance(d, j, id, now)
           job == d.jobs[j]
           mid == IF job.current = NoOp THEN d ELSE Absorb(d, j)
<1>1. job \in Job /\ Sound(job, d.ops) /\ StepsReadable(job) /\ job.current \in OpId \cup {NoOp}
  BY RowTypes DEF JobsSound, Planned, Job
<1>2. CASE job.state # "running" \/ job.current \in Active(d)
  BY <1>1, <1>2 DEF Advance
<1>3. CASE job.state = "running" /\ job.current \notin Active(d)
  <2>1. /\ mid \in Tables /\ mid.ops = d.ops /\ Sound(mid.jobs[j], mid.ops)
        /\ mid.jobs[j].state = "running" /\ mid.jobs[j].current = NoOp
        /\ StepsReadable(mid.jobs[j])
        /\ \A i \in JobId : i # j => mid.jobs[i] = d.jobs[i]
    <3>1. CASE job.current = NoOp BY <1>1, <1>3, <3>1
    <3>2. CASE job.current \in OpId
      <4>1. mid = Absorb(d, j) BY <3>2, IdAssumption
      <4>2. Fitting(d, job) BY <1>3, <3>2 DEF Settling, Running
      <4>3. /\ Sound(Absorb(d, j).jobs[j], d.ops) /\ Absorb(d, j).jobs[j].state = "running"
            /\ Absorb(d, j).jobs[j].current = NoOp
        BY <1>1, <1>3, <3>2, <4>2, AbsorbSound
      <4>4. /\ Absorb(d, j) \in Tables /\ Absorb(d, j).ops = d.ops
            /\ \A i \in JobId : i # j => Absorb(d, j).jobs[i] = d.jobs[i]
        BY <3>2, AbsorbRow
      <4>5. StepsReadable(Absorb(d, j).jobs[j])
        BY PlannedAbsorb DEF Planned
      <4> HIDE DEF mid
      <4> QED BY ONLY <4>1, <4>3, <4>4, <4>5
    <3> QED BY <1>1, <3>1, <3>2
  <2>2. e = Continue(mid, j, id, now) BY <1>3 DEF Advance
  <2>3. Fresh(mid, id) BY <2>1 DEF Fresh
  <2> HIDE DEF mid
  <2> DEFINE c == Continue(mid, j, id, now)
  <2>4. /\ Sound(c.jobs[j], c.ops) /\ Queued(c, j, id)
        /\ \A i \in JobId : i # j => c.jobs[i] = mid.jobs[i]
    BY <2>1, <2>3, ContinueSound
  <2> HIDE DEF c, job
  <2>5. e = c BY <2>2 DEF c
  <2> HIDE DEF e
  <2>6. /\ Sound(e.jobs[j], e.ops)
        /\ e.jobs[j].state = "running" => e.jobs[j].current \in Active(e)
        /\ \A i \in JobId : i # j => e.jobs[i] = d.jobs[i]
    BY <2>1, <2>4, <2>5 DEF Queued, Active, Waiting
  <2> QED BY <2>6 DEF e
<1> QED BY <1>2, <1>3

LEMMA AdvanceJobs ==
  ASSUME NEW d \in Tables, NEW j \in JobId, NEW id \in OpId, Fresh(d, id), NEW now \in Nat,
         JobsSound(d), Answering(d), Planned(d), CatalogTraced(d), Settling(d, j)
  PROVE  LET e == Advance(d, j, id, now)
         IN JobsSound(e) /\ Answering(e) /\ Absorbed(e)
<1> DEFINE e == Advance(d, j, id, now)
<1>1. /\ Sound(e.jobs[j], e.ops)
      /\ e.jobs[j].state = "running" => e.jobs[j].current \in Active(e)
      /\ \A i \in JobId : i # j => e.jobs[i] = d.jobs[i]
  BY AdvanceJob
<1>2. e \in Tables /\ Calm(d, e) BY AdvanceType, AdvanceCalm
<1> HIDE DEF e
<1>3. JobsSound(e)
  <2> SUFFICES ASSUME NEW i \in JobId, i # j PROVE Sound(e.jobs[i], e.ops) BY <1>1 DEF JobsSound
  <2>1. e.jobs[i] = d.jobs[i] /\ d.jobs[i] \in Job /\ Sound(d.jobs[i], d.ops)
    BY <1>1, RowTypes DEF JobsSound
  <2>2. Progress(d, e) BY <1>2 DEF Calm
  <2>3. Sound(d.jobs[i], e.ops) BY <1>2, <2>1, <2>2, SoundKept
  <2> QED BY <2>1, <2>3
<1>4. Absorbed(e)
  <2> SUFFICES ASSUME NEW i \in Running(e), e.jobs[i].current # NoOp
               PROVE  e.ops[e.jobs[i].current].state # "succeeded"
    BY DEF Absorbed
  <2>1. i \in JobId /\ e.jobs[i].state = "running" BY DEF Running
  <2>2. e.jobs[i].current \in OpId BY <1>2, <2>1, RowTypes DEF Job
  <2>3. CASE i = j BY <1>1, <2>1, <2>3 DEF Active, Waiting
  <2>4. CASE i # j
    <3>1. e.jobs[i] = d.jobs[i] /\ i \in Running(d) BY <1>1, <2>1, <2>4 DEF Running
    <3>2. d.ops[e.jobs[i].current].state # "succeeded" BY <2>2, <2>4, <3>1 DEF Settling
    <3> QED BY <1>2, <2>2, <3>2 DEF Calm, TurnedDown, Answered
  <2> QED BY <2>3, <2>4
<1>5. Answering(e) BY <1>2, CalmAnswering
<1> QED BY <1>3, <1>4, <1>5 DEF e

LEMMA AdvanceActiveJobs ==
  ASSUME NEW d \in Tables, NEW id \in OpId, Fresh(d, id), NEW now \in Nat,
         JobsSound(d), Answering(d), Planned(d), CatalogTraced(d),
         \A i, k \in Running(d) : i = k,
         \A i \in Running(d) : d.jobs[i].current \in OpId => Fitting(d, d.jobs[i])
  PROVE  LET e == AdvanceActive(d, id, now)
         IN JobsSound(e) /\ Answering(e) /\ Absorbed(e)
<1>1. CASE Running(d) = {} BY <1>1 DEF AdvanceActive, Absorbed
<1>2. CASE Running(d) # {}
  <2> DEFINE j == CHOOSE i \in Running(d) : TRUE
  <2>1. j \in Running(d) /\ j \in JobId BY <1>2 DEF Running
  <2>2. AdvanceActive(d, id, now) = Advance(d, j, id, now) BY <1>2 DEF AdvanceActive
  <2> HIDE DEF j
  <2>3. Settling(d, j) BY <2>1 DEF Settling
  <2> QED BY <2>1, <2>2, <2>3, AdvanceJobs
<1> QED BY <1>1, <1>2

\* Between transactions every answer has been counted, so there is nothing to fit.
LEMMA AbsorbedSettling ==
  ASSUME NEW d \in Tables, Absorbed(d)
  PROVE  /\ \A j : Settling(d, j)
         /\ \A i \in Running(d) : d.jobs[i].current \in OpId => Fitting(d, d.jobs[i])
BY IdAssumption DEF Absorbed, Settling, Fitting

----------------------------------------------------------------------------
(* The job as it is created.                                               *)

LEMMA Division ==
  ASSUME NEW a \in Nat, NEW b \in Nat \ {0}
  PROVE  /\ a \div b \in Nat /\ (a \div b) * b <= a /\ a < (a \div b) * b + b
OBVIOUS

LEMMA Products ==
  ASSUME NEW a \in Nat, NEW b \in Nat, NEW c \in Nat, a <= b
  PROVE  a * c \in Nat /\ b * c \in Nat /\ a * c <= b * c
OBVIOUS

\* The batches of a list of leaves leave none out, and none of them is empty.
LEMMA BatchBounds ==
  ASSUME NEW n \in Nat, NEW size \in Nat \ {0}
  PROVE  /\ BatchCount(n, size) \in Nat
         /\ \A k \in 1..n : \E i \in 1..BatchCount(n, size) :
              (i - 1) * size + 1 <= k /\ k <= i * size
         /\ \A i \in 1..BatchCount(n, size) :
              (i - 1) * size + 1 <= n /\ (i - 1) * size + 1 <= i * size
<1> DEFINE count == BatchCount(n, size)
<1>1. n + size - 1 \in Nat /\ count = (n + size - 1) \div size BY DEF BatchCount
<1>2. count \in Nat /\ count * size <= n + size - 1 /\ n + size - 1 < count * size + size
      /\ count * size \in Nat
  BY <1>1, Division
<1> HIDE DEF count
<1>3. ASSUME NEW i \in 1..count
      PROVE  /\ (i - 1) * size + 1 <= n /\ (i - 1) * size + 1 <= i * size
  <2>1. i * size = (i - 1) * size + size /\ (i - 1) * size \in Nat BY <1>2
  <2>2. i * size <= count * size BY <1>2, Products
  <2> HIDE DEF count
  <2> QED BY <1>2, <2>1, <2>2
<1>4. ASSUME NEW k \in 1..n
      PROVE  \E i \in 1..count : (i - 1) * size + 1 <= k /\ k <= i * size
  <2> DEFINE q == (k - 1) \div size
  <2>1. k - 1 \in Nat BY <1>4
  <2>2. q \in Nat /\ q * size <= k - 1 /\ k - 1 < q * size + size BY <2>1, Division
  <2> HIDE DEF q
  <2>3. (q + 1) * size = q * size + size /\ (q + 1) - 1 = q /\ q * size \in Nat BY <2>2
  <2>4. q < count
    <3> SUFFICES ASSUME count <= q PROVE FALSE BY <1>2, <2>2
    <3>1. count * size <= q * size BY <1>2, <2>2, Products
    <3> QED BY <1>2, <2>2, <2>3, <3>1
  <2>5. q + 1 \in 1..count BY <1>2, <2>2, <2>4
  <2>6. ((q + 1) - 1) * size + 1 <= k /\ k <= (q + 1) * size BY <2>2, <2>3
  <2> QED BY <2>5, <2>6
<1> QED BY <1>2, <1>3, <1>4 DEF count

LEMMA BatchesCover ==
  ASSUME NEW spec \in Spec0
  PROVE  /\ \A i \in DOMAIN Batches(spec) :
              /\ Batches(spec)[i].names # {} /\ Batches(spec)[i].names \subseteq spec.names
              /\ Batches(spec)[i].depth = 0
         /\ \A p \in spec.names : \E i \in DOMAIN Batches(spec) : p \in Batches(spec)[i].names
<1> DEFINE names == Sorted[spec.names]
           size == spec.batch_size
           n == Len(names)
           count == BatchCount(n, size)
           last(i) == IF i * size < n THEN i * size ELSE n
           batch(i) == {names[k] : k \in ((i - 1) * size + 1)..last(i)}
<1>1. names \in Seq(Path) /\ size \in Nat \ {0} /\ {names[k] : k \in DOMAIN names} = spec.names
  BY PathAssumption, SortedAssumption DEF Spec0
<1>2. n \in Nat /\ DOMAIN names = 1..n BY <1>1, LenProperties
<1>3. Batches(spec) = [i \in 1..count |-> [path |-> NoPath, depth |-> 0, names |-> batch(i)]]
  BY DEF Batches
<1> HIDE DEF names, size, n
<1>4. /\ count \in Nat
      /\ \A k \in 1..n : \E i \in 1..count : (i - 1) * size + 1 <= k /\ k <= i * size
      /\ \A i \in 1..count : (i - 1) * size + 1 <= n /\ (i - 1) * size + 1 <= i * size
  BY <1>1, <1>2, BatchBounds
<1> HIDE DEF count
<1>5. \A i \in 1..count : (i - 1) * size \in Nat /\ i * size \in Nat BY <1>1, <1>4
<1>6. ASSUME NEW i \in 1..count
      PROVE  batch(i) # {} /\ batch(i) \subseteq spec.names
  <2>0. /\ (i - 1) * size \in Nat /\ i * size \in Nat
        /\ (i - 1) * size + 1 <= n /\ (i - 1) * size + 1 <= i * size
    BY <1>4, <1>5
  <2>1. (i - 1) * size + 1 \in ((i - 1) * size + 1)..last(i) BY ONLY <1>2, <2>0
  <2>2. ((i - 1) * size + 1)..last(i) \subseteq 1..n BY <1>2, <1>5
  <2> QED BY <1>1, <1>2, <2>1, <2>2
<1>7. ASSUME NEW p \in spec.names PROVE \E i \in 1..count : p \in batch(i)
  <2>1. PICK k \in 1..n : names[k] = p BY <1>1, <1>2
  <2>2. PICK i \in 1..count : (i - 1) * size + 1 <= k /\ k <= i * size BY <1>4
  <2>3. k \in ((i - 1) * size + 1)..last(i) BY <1>2, <1>5, <2>2
  <2> QED BY <2>1, <2>3
<1> HIDE DEF batch
<1> QED BY <1>3, <1>6, <1>7

LEMMA NewJobSound ==
  ASSUME NEW spec \in Spec0, NEW ops, spec.kind = "discovery" => spec.root \in Path
  PROVE  Sound(NewJob(spec), ops) /\ NewJob(spec).state = "running" /\ NewJob(spec).current = NoOp
<1> DEFINE job == NewJob(spec)
<1>1. /\ job.state = "running" /\ job.spec = spec /\ job.current = NoOp /\ job.depth = 0
      /\ job.rpcs = 0 /\ job.completed = 0 /\ job.entries = 0 /\ job.failures = <<>>
      /\ job.limits = {} /\ job.issued = <<>>
      /\ job.frontier = IF spec.kind = "discovery" THEN Branches(<<spec.root>>, 0) ELSE Batches(spec)
  BY DEF NewJob, NoJob
<1> HIDE DEF job
<1>2. /\ JobRange(job.issued) = {} /\ Done(job) = {} /\ Failed(job) = {}
      /\ DOMAIN job.issued = {} /\ Len(job.issued) = 0 /\ Cardinality(Done(job)) = 0
  <2>1. DOMAIN job.issued = {} /\ DOMAIN job.failures = {} /\ Len(job.issued) = 0 BY <1>1
  <2>2. JobRange(job.issued) = {} BY <2>1 DEF JobRange
  <2>3. Done(job) = {} /\ Failed(job) = {} BY <2>1, <2>2 DEF Done, Failed
  <2> QED BY <2>1, <2>2, <2>3, FS_EmptySet
<1>3. Ledger(job, ops) BY <1>1, <1>2 DEF Ledger
<1>4. Blamed(job, ops) BY <1>2 DEF Blamed
<1>5. spec.kind = "discovery" => /\ DOMAIN job.frontier = 1..1
                                  /\ job.frontier[1].path = spec.root /\ job.frontier[1].depth = 0
  <2>1. Len(<<spec.root>>) = 1 /\ <<spec.root>>[1] = spec.root OBVIOUS
  <2> QED BY <1>1, <2>1 DEF Branches
<1>6. Bounded(job)
  <2>1. \A i \in DOMAIN job.frontier : job.frontier[i].depth = 0
    <3>1. CASE spec.kind = "discovery" BY <1>5, <3>1
    <3>2. CASE spec.kind # "discovery" BY <1>1, <3>2, BatchesCover
    <3> QED BY <3>1, <3>2
  <2> QED BY <1>1, <2>1 DEF Bounded, Spec0
<1>7. Batched(job, ops) BY <1>1, <1>2, BatchesCover DEF Batched
<1>8. Walked(job, ops) BY <1>1, <1>2, <1>5 DEF Walked, Rooted
<1>9. Covered(job, ops) /\ Whole(job) BY <1>1, <1>2 DEF Covered, Whole
<1>10. Sound(job, ops) BY <1>3, <1>4, <1>6, <1>7, <1>8, <1>9 DEF Sound
<1> QED BY <1>1, <1>10 DEF job

----------------------------------------------------------------------------
(* The answer that is accepted.                                            *)

LEMMA ConcludeAnswering ==
  ASSUME NEW d \in Tables, NEW e, NEW o \in OpId, NEW r \in Answer, NEW now \in Nat,
         Concluded(d, e, o, r, now), r.kind \in {"fault", d.ops[o].ask.kind}, Answering(d)
  PROVE  Answering(e)
<1> DEFINE ask == d.ops[o].ask
<1>1. /\ \A p \in OpId : p # o => e.ops[p] = d.ops[p]
      /\ e.ops[o].state = (IF Reason(ask, r) = "none" THEN "succeeded" ELSE "failed")
      /\ e.ops[o].ask = ask /\ e.ops[o].result = Result(ask, r)
  <2>1. d.ops[o] \in Operation BY RowTypes
  <2> QED BY <2>1 DEF Concluded, AnsweredRow, Operation
<1>2. ASSUME e.ops[o].state = "succeeded", ask.kind = "values", ask.path = NoPath, ask.names # {}
      PROVE  DOMAIN Result(ask, r) = ask.names
  <2>1. Reason(ask, r) = "none" BY <1>1, <1>2
  <2> HIDE DEF ask
  <2>2. r.kind = "values" BY <1>2, <2>1 DEF Reason, ask
  <2>3. DOMAIN r.content = ask.names BY <1>2, <2>1, <2>2 DEF Reason, PlanNames
  <2>4. ~ FeedsInventory(ask, r) /\ ~ Measures(ask, r)
    BY <1>2 DEF FeedsInventory, Measures, Telemetric
  <2>5. Result(ask, r) = r.content BY <2>1, <2>2, <2>4 DEF Result
  <2> QED BY <2>3, <2>5
<1> QED BY <1>1, <1>2 DEF Answering

\* The catalog takes from the answer to a discovery read what the budget of its job allows,
\* and all of it otherwise.
LEMMA ConcludeFitting ==
  ASSUME NEW d \in Tables, NEW e, NEW o \in OpId, NEW r \in Answer, NEW now \in Nat,
         Concluded(d, e, o, r, now), r.kind \in {"fault", d.ops[o].ask.kind},
         d.ops[o].state = "dispatched", CatalogTraced(d), Before(d, now),
         NEW j \in JobId, d.jobs[j].state = "running", d.jobs[j].current \in OpId,
         \A i \in Running(d) : i = j, Sound(d.jobs[j], d.ops),
         d.ops[d.jobs[j].current].state # "succeeded"
  PROVE  Fitting(e, e.jobs[j])
<1> DEFINE job == d.jobs[j]
           row == e.jobs[j]
           ask == d.ops[o].ask
           names == DOMAIN r.content
           left == job.spec.max_entries - job.entries
           kept == Kept(d, o, names)
           valid == Reason(ask, r) = "none"
<1>1. job \in Job /\ d.ops[o] \in Operation BY RowTypes
<1>2. row = IF r.kind = "names" /\ valid /\ j \in kept.jobs
            THEN [job EXCEPT !.limits = job.limits \cup {"max_entries"}] ELSE job
  <2>1. e.jobs = Collect(d, o, r, now).jobs BY DEF Concluded
  <2>2. Collect(d, o, r, now).jobs =
          [k \in JobId |->
             IF r.kind = "names" /\ valid /\ k \in kept.jobs
             THEN [d.jobs[k] EXCEPT !.limits = @ \cup {"max_entries"}] ELSE d.jobs[k]]
    BY DEF Collect, Tables
  <2> HIDE DEF kept, valid
  <2> QED BY <2>1, <2>2
<1>3. /\ row.spec = job.spec /\ row.entries = job.entries /\ row.current = job.current
      /\ r.kind = "names" /\ valid /\ j \in kept.jobs => row.limits # {}
      /\ row.limits = {} => job.limits = {}
  <2> DEFINE more == [job EXCEPT !.limits = job.limits \cup {"max_entries"}]
  <2>1. row = IF r.kind = "names" /\ valid /\ j \in kept.jobs THEN more ELSE job BY <1>2
  <2> HIDE DEF kept, valid, row, job
  <2>2. /\ more.spec = job.spec /\ more.entries = job.entries /\ more.current = job.current
        /\ more.limits # {}
    BY <1>1 DEF Job
  <2> HIDE DEF more
  <2> QED BY <2>1, <2>2
<1> SUFFICES ASSUME job.spec.kind = "discovery", e.ops[job.current].state = "succeeded"
             PROVE  /\ Cardinality(Entries(e, job.current)) <= left
                    /\ row.limits = {} => DOMAIN e.ops[job.current].result \subseteq Entries(e, job.current)
  BY <1>3 DEF Fitting
<1>4. job.current = o BY DEF Concluded
<1>5. e.ops[o].result = Result(ask, r) /\ valid
  BY <1>1, <1>4 DEF Concluded, AnsweredRow, Operation
<1>6. ask.kind = "names" /\ ask.path # NoPath
  <2>1. Ledger(job, d.ops) /\ Walked(job, d.ops) BY DEF Sound
  <2>2. o \in JobRange(job.issued) BY <1>4, <2>1, IdAssumption DEF Ledger
  <2>3. ask.kind = "names" /\ ask.path \in Path BY <2>1, <2>2 DEF Walked
  <2> QED BY <2>3, PathAssumption
<1>7. r.kind = "names"
  <2>1. r.kind # "fault"
    <3> SUFFICES ASSUME r.kind = "fault" PROVE FALSE OBVIOUS
    <3>1. Reason(ask, r) = "cpe_fault" BY DEF Reason
    <3> QED BY <1>5, <3>1
  <2> QED BY <1>6, <2>1
<1>8. names \in SUBSET Path /\ r.content \in Content BY ContentDomain DEF Answer
<1>9. Entries(e, o) = kept.names
  <2> DEFINE named == {p \in kept.names : d.catalog[p].at <= now}
  <2>1. kept.names \subseteq names BY DEF Kept
  <2>2. named = kept.names BY <1>8, <2>1 DEF Before
  <2>3. Collect(d, o, r, now).catalog =
          [p \in Path |-> IF p \in named THEN [op |-> o, at |-> now] ELSE d.catalog[p]]
    BY <1>5, <1>7 DEF Collect, Tables
  <2>4. e.catalog = Collect(d, o, r, now).catalog BY DEF Concluded
  <2>5. \A p \in Path : d.catalog[p].op # o BY IdAssumption DEF CatalogTraced
  <2> HIDE DEF kept, named, names
  <2>6. \A p \in Path : e.catalog[p].op = o <=> p \in named BY <2>3, <2>4, <2>5
  <2> QED BY <1>8, <2>1, <2>2, <2>6 DEF Entries
<1>10. left \in Nat /\ Cardinality(names) \in Nat
  <2>1. Bounded(job) BY DEF Sound
  <2>2. left \in Nat BY <1>1, <2>1 DEF Bounded, Job, Spec0
  <2> QED BY <1>8, <2>2, PathsFinite
<1>11. CASE Cardinality(names) > left
  <2>1. j \in kept.jobs BY <1>4, <1>11 DEF Kept, Running
  <2>2. kept.names \subseteq First(names, left) BY <2>1 DEF Kept
  <2>3. First(names, left) \subseteq names /\ Cardinality(First(names, left)) <= left
    BY <1>8, <1>10, FirstFew
  <2>4. Cardinality(kept.names) <= left
    <3>1. IsFiniteSet(First(names, left)) /\ Cardinality(First(names, left)) \in Nat
          /\ Cardinality(kept.names) \in Nat
      BY <1>8, <2>2, <2>3, PathsFinite, FS_Subset
    <3>2. Cardinality(kept.names) <= Cardinality(First(names, left))
      BY <2>2, <3>1, FS_Subset
    <3> QED BY ONLY <1>10, <2>3, <3>1, <3>2
  <2> QED BY <1>3, <1>4, <1>5, <1>7, <1>9, <2>1, <2>4
<1>12. CASE ~ Cardinality(names) > left
  <2>1. kept.jobs = {}
    <3>1. \A i \in kept.jobs : i \in Running(d) /\ Cardinality(names) > d.jobs[i].spec.max_entries - d.jobs[i].entries
      BY DEF Kept
    <3> QED BY <1>12, <3>1
  <2>2. kept.names = names BY <2>1 DEF Kept
  <2>3. DOMAIN Result(ask, r) \subseteq names BY <1>5, <1>7 DEF Result
  <2>4. Cardinality(names) <= left BY <1>10, <1>12
  <2> QED BY ONLY <1>4, <1>5, <1>9, <2>2, <2>3, <2>4
<1> QED BY <1>11, <1>12

LEMMA ConcludeSound ==
  ASSUME NEW d \in Tables, NEW e \in Tables, NEW o \in OpId, NEW r \in Answer, NEW now \in Nat,
         Concluded(d, e, o, r, now), Progress(d, e), JobsSound(d)
  PROVE  JobsSound(e) /\ Running(e) = Running(d) /\ \A j \in JobId : e.jobs[j].current = d.jobs[j].current
<1> DEFINE changed(j) == /\ r.kind = "names" /\ Reason(d.ops[o].ask, r) = "none"
                         /\ j \in Kept(d, o, DOMAIN r.content).jobs
           more(j) == [d.jobs[j] EXCEPT !.limits = @ \cup {"max_entries"}]
<1>1. \A j \in JobId : e.jobs[j] = IF changed(j) THEN more(j) ELSE d.jobs[j]
  BY DEF Concluded, Collect, Tables
<1>2. \A j \in JobId : d.jobs[j] \in Job BY RowTypes
<1>3. \A j \in JobId : Limited(d.jobs[j], more(j)) /\ more(j).state = d.jobs[j].state
  BY <1>2 DEF Limited, Job
<1>4. \A j \in JobId : changed(j) => d.jobs[j].state = "running" BY DEF Kept, Running
<1> HIDE DEF changed, more
<1>5. ASSUME NEW j \in JobId
      PROVE  /\ Sound(e.jobs[j], e.ops) /\ e.jobs[j].state = d.jobs[j].state
             /\ e.jobs[j].current = d.jobs[j].current
  <2>1. Sound(d.jobs[j], e.ops) BY <1>2, SoundKept DEF JobsSound
  <2>2. CASE changed(j)
    <3>1. e.jobs[j] = more(j) BY <1>1, <2>2
    <3>2. Limited(d.jobs[j], more(j)) /\ more(j).state = d.jobs[j].state BY <1>3
    <3>3. Whole(more(j)) BY <1>4, <2>2, <3>2 DEF Whole
    <3>4. Sound(more(j), e.ops) BY <2>1, <3>2, <3>3, SoundLimited
    <3> QED BY <3>1, <3>2, <3>4 DEF Limited
  <2>3. CASE ~ changed(j) BY <1>1, <2>1, <2>3
  <2> QED BY <2>2, <2>3
<1>6. Running(e) = Running(d) BY <1>5 DEF Running
<1> QED BY <1>5, <1>6 DEF JobsSound

----------------------------------------------------------------------------
(* The transactions.                                                       *)

LEMMA UntouchedJobs ==
  ASSUME NEW d \in Tables, NEW e \in Tables, Progress(d, e), e.jobs = d.jobs, JobsKept(d),
         \A o \in OpId : e.ops[o].state \in Answered => e.ops[o] = d.ops[o] \/ TurnedDown(e.ops[o])
  PROVE  JobsKept(e)
<1>1. JobsSound(e)
  <2> SUFFICES ASSUME NEW j \in JobId PROVE Sound(e.jobs[j], e.ops) BY DEF JobsSound
  <2>1. d.jobs[j] \in Job /\ Sound(d.jobs[j], d.ops) BY RowTypes DEF JobsKept, JobsSound
  <2>2. Sound(d.jobs[j], e.ops) BY <2>1, SoundKept
  <2> QED BY <2>2
<1>2. Answering(e) BY DEF JobsKept, Answering, Answered, TurnedDown
<1>3. Absorbed(e)
  <2>1. \A j \in Running(e) : j \in Running(d) /\ e.jobs[j].current \in OpId \cup {NoOp}
    BY RowTypes DEF Running, Job
  <2> QED BY <2>1 DEF JobsKept, Absorbed, Answered, TurnedDown
<1> QED BY <1>1, <1>2, <1>3 DEF JobsKept

LEMMA ExpireJobs ==
  ASSUME NEW d \in Tables, NEW now \in Nat, JobsKept(d)
  PROVE  JobsKept(Expire(d, now))
<1> DEFINE e == Expire(d, now)
<1>1. e \in Tables /\ Calm(d, e) BY ExpireType, ExpireCalm
<1>2. e.jobs = d.jobs BY DEF Expire, Tables
<1> HIDE DEF e
<1>3. JobsKept(e) BY <1>1, <1>2, UntouchedJobs DEF Calm
<1> QED BY <1>3 DEF e

\* What a transaction starts from, once overdue operations have been put away.
LEMMA ExpiredJobs ==
  ASSUME db \in Tables, SlotInvariant, Sourced(db), JobsKept(db), NEW id \in NextId, NEW now \in Nat
  PROVE  LET d == Expire(db, now)
         IN /\ id \in OpId /\ d \in Tables /\ Fresh(d, id)
            /\ JobsSound(d) /\ Answering(d) /\ Absorbed(d) /\ Planned(d) /\ CatalogTraced(d)
            /\ Running(d) = Running(db) /\ \A i, k \in Running(d) : i = k
<1> DEFINE d == Expire(db, now)
<1>1. id \in OpId /\ Fresh(d, id) BY ExpireFresh
<1>2. d \in Tables /\ Calm(db, d) BY ExpireType, ExpireCalm
<1>3. d.jobs = db.jobs BY DEF Expire, Tables
<1>4. JobsKept(d) BY ExpireJobs
<1>5. Planned(d) BY PlannedExpire DEF Sourced
<1> HIDE DEF d
<1>6. CatalogTraced(d)
  <2>1. Traced(d) BY <1>2, ProgressTraced DEF Calm, Sourced
  <2> QED BY <2>1 DEF Traced
<1>7. Running(d) = Running(db) BY <1>3 DEF Running
<1>8. \A i, k \in Running(d) : i = k BY <1>7 DEF SlotInvariant, Owned
<1> QED BY <1>1, <1>2, <1>4, <1>5, <1>6, <1>7, <1>8 DEF JobsKept, d

LEMMA SettledJobs ==
  ASSUME db \in Tables, SlotInvariant, Sourced(db), JobsKept(db), NEW id \in NextId, NEW now \in Nat
  PROVE  JobsKept(Settled(id, now))
<1> DEFINE d == Expire(db, now)
<1>1. /\ id \in OpId /\ d \in Tables /\ Fresh(d, id)
      /\ JobsSound(d) /\ Answering(d) /\ Absorbed(d) /\ Planned(d) /\ CatalogTraced(d)
      /\ \A i, k \in Running(d) : i = k
  BY ExpiredJobs
<1>2. Settled(id, now) = AdvanceActive(d, id, now) BY DEF Settled
<1> HIDE DEF d
<1>3. \A i \in Running(d) : d.jobs[i].current \in OpId => Fitting(d, d.jobs[i])
  BY <1>1, AbsorbedSettling
<1> QED BY <1>1, <1>2, <1>3, AdvanceActiveJobs DEF JobsKept

LEMMA AppliedJobs ==
  ASSUME TypeOK, SlotInvariant, Timely(db, clock), Sourced(db), JobsKept(db),
         NEW s \in SessionId, NEW id \in NextId, NEW now \in Nat, now <= clock,
         NEW r \in Answers, ReplyApplied(s, id, r, now), db' \in Tables
  PROVE  JobsKept(db')
<1> DEFINE d == Settled(id, now)
<1>1. /\ id \in OpId /\ d \in Tables /\ Slot(d) /\ Owned(d) /\ Sourced(d) /\ clock \in Nat
      /\ d.ops[id].state \in {"absent", "pending"} /\ JobsKept(d) /\ Calm(db, d)
      /\ \A o \in OpId : d.ops[o].state = "dispatched" => d.ops[o].expires > now
  BY SlotSettled, SettledSourced, SettledJobs, SettledCalm DEF TypeOK, NextId
<1> HIDE DEF d
<1>2. PICK o \in OpId : /\ d.ops[o].state = "dispatched" /\ d.ops[o].session = s
                        /\ now >= d.ops[o].sent
                        /\ r.kind \in {"fault", d.ops[o].ask.kind}
                        /\ db' = AdvanceActive(Conclude(d, s, o, r, now), id, now)
  BY DEF ReplyApplied, Correlated, d
<1> DEFINE e == Conclude(d, s, o, r, now)
<1>3. r \in Answer BY InputTypes
<1>4. e \in Tables /\ Concluded(d, e, o, r, now) /\ Sourced(e)
  BY <1>1, <1>2, <1>3, ConcludeType, ConcludeRows, ConcludeSourced
<1>5. d.ops[o].sent \in Nat /\ d.ops[o].expires \in Nat BY <1>1, RowTypes DEF Operation
<1>6. Timely(d, clock) BY <1>1, CalmTimely DEF TypeOK
<1>7. Progress(d, e) BY <1>1, <1>2, <1>3, <1>5, <1>6, ConcludeTimely
<1>8. Before(d, now)
  <2>1. Before(d, d.ops[o].sent) BY <1>2, <1>6 DEF Timely
  <2>2. \A p \in Path : d.catalog[p].at \in Nat /\ d.values[p].at \in Nat BY <1>1 DEF Tables
  <2> QED BY <1>2, <1>5, <2>1, <2>2 DEF Before
<1>9. d.ops[id].state = "absent" /\ id # o
  BY <1>1, <1>2 DEF Slot, Single, Active, Waiting
<1>10. db' = AdvanceActive(e, id, now) BY <1>2
<1> HIDE DEF e
<1>11. Fresh(e, id) BY <1>1, <1>4, <1>9 DEF Fresh, Slot, Unsent, Concluded
<1>12. Answering(e) BY <1>1, <1>2, <1>3, <1>4, ConcludeAnswering DEF JobsKept
<1>13. /\ JobsSound(e) /\ Running(e) = Running(d)
       /\ \A j \in JobId : e.jobs[j].current = d.jobs[j].current
  BY <1>1, <1>3, <1>4, <1>7, ConcludeSound DEF JobsKept
<1>14. \A i, k \in Running(e) : i = k BY <1>1, <1>13 DEF Owned
<1>15. ASSUME NEW j \in Running(e), e.jobs[j].current \in OpId
       PROVE  Fitting(e, e.jobs[j])
  <2>1. j \in JobId /\ j \in Running(d) /\ d.jobs[j].state = "running" BY <1>13 DEF Running
  <2>2. d.jobs[j].current \in OpId BY <1>13, <1>15, <2>1
  <2>3. Sound(d.jobs[j], d.ops) /\ d.ops[d.jobs[j].current].state # "succeeded"
    BY <1>1, <2>1, <2>2, IdAssumption DEF JobsKept, JobsSound, Absorbed
  <2>4. CatalogTraced(d) /\ \A i \in Running(d) : i = j
    BY <1>1, <2>1 DEF Sourced, Traced, Owned
  <2> QED BY <1>1, <1>2, <1>3, <1>4, <1>8, <2>1, <2>2, <2>3, <2>4, ConcludeFitting
<1>16. Planned(e) /\ CatalogTraced(e) BY <1>4 DEF Sourced, Traced
<1> QED BY <1>1, <1>4, <1>10, <1>11, <1>12, <1>13, <1>14, <1>15, <1>16, AdvanceActiveJobs DEF JobsKept

LEMMA AdministerJobs ==
  ASSUME db \in Tables, db' \in Tables, SlotInvariant, Sourced(db), JobsKept(db),
         NEW now \in Nat, Administer(now)
  PROVE  JobsKept(db')
<1> DEFINE d == Expire(db, now)
<1>1. d \in Tables /\ JobsKept(d) BY ExpireType, ExpireJobs
<1>2. ASSUME NEW id \in NextId
      PROVE  /\ id \in OpId /\ Fresh(d, id) /\ Planned(d) /\ CatalogTraced(d)
             /\ Running(d) = Running(db)
  BY <1>2, ExpiredJobs
<1>3. d.jobs = db.jobs BY DEF Expire, Tables
<1> HIDE DEF d
<1>4. CASE db' = d BY <1>1, <1>4
<1>5. ASSUME NEW key, NEW ask, NEW id \in NextId,
             CreateQuery(key, ask, id, now) \/ CreateTelemetry(key, ask, id, now)
      PROVE  JobsKept(db')
  <2>1. PICK read : db' = Enqueue(d, id, key, read, now)
    BY <1>5, Zenon DEF CreateQuery, CreateTelemetry, d
  <2>2. Calm(d, db') BY <1>1, <1>2, <2>1, EnqueueCalm
  <2>3. db'.jobs = d.jobs BY <1>1, <2>1 DEF Enqueue, Tables
  <2> QED BY <1>1, <2>2, <2>3, UntouchedJobs DEF Calm
<1>6. ASSUME NEW j \in JobId, NEW id \in NextId, GetCollection(j, id, now) PROVE JobsKept(db')
  <2>1. db' = Advance(d, j, id, now) BY <1>6 DEF GetCollection, d
  <2>2. Settling(d, j) BY <1>1, AbsorbedSettling DEF JobsKept
  <2> QED BY <1>1, <1>2, <2>1, <2>2, AdvanceJobs DEF JobsKept
<1>7. ASSUME NEW j \in JobId, NEW spec \in Specs, NEW id \in NextId, CreateCollection(j, spec, id, now)
      PROVE  JobsKept(db')
  <2> DEFINE started == [d EXCEPT !.jobs[j] = NewJob(spec)]
  <2>1. /\ spec \in Spec0
        /\ spec.kind = "discovery" => spec.root \in Path /\ spec.root \in Concrete \cap Object
        /\ spec.kind = "values" => spec.names \subseteq Readable
        /\ Running(d) = {}
    BY <1>7, InputTypes, PathAssumption DEF CreateCollection, Admissible, Idle, d
  <2>2. NewJob(spec) \in Job /\ StepsReadable(NewJob(spec)) BY <2>1, NewJobType, PlannedNewJob
  <2>3. started \in Tables /\ Planned(started) BY <1>1, <1>2, <2>2, PutJob, PlannedJob
  <2>4. /\ started.ops = d.ops /\ started.catalog = d.catalog
        /\ started.jobs[j] = NewJob(spec)
        /\ \A i \in JobId : i # j => started.jobs[i] = d.jobs[i]
    BY <1>1 DEF Tables
  <2>5. db' = Advance(started, j, id, now) BY <1>7 DEF CreateCollection, d
  <2> HIDE DEF started
  <2>6. JobsSound(started)
    <3>1. \A ops : Sound(NewJob(spec), ops) BY <2>1, NewJobSound
    <3> QED BY <1>1, <2>4, <3>1 DEF JobsKept, JobsSound
  <2>7. Answering(started) BY <1>1, <2>4 DEF JobsKept, Answering
  <2>8. CatalogTraced(started) BY <1>2, <2>4 DEF CatalogTraced
  <2>9. Settling(started, j)
    <3>1. Running(started) \subseteq {j} BY <2>1, <2>4 DEF Running
    <3>2. started.jobs[j].current \notin OpId
      BY <2>1, <2>4, NewJobSound, IdAssumption
    <3> QED BY <3>1, <3>2 DEF Settling
  <2>10. Fresh(started, id) BY <1>2, <2>4 DEF Fresh
  <2> QED BY <1>2, <2>3, <2>5, <2>6, <2>7, <2>8, <2>9, <2>10, AdvanceJobs DEF JobsKept
<1> QED BY <1>4, <1>5, <1>6, <1>7, Zenon
        DEF Administer, RepeatCreate, GetQuery, RepeatCollection, d

LEMMA NextJobs ==
  ASSUME TypeOK, SlotInvariant, Timely(db, clock), Sourced(db), JobsKept(db), [Next]_vars
  PROVE  JobsKept(db')
<1>1. db \in Tables /\ clock \in Nat /\ db' \in Tables BY NextType DEF TypeOK
<1>2. \A now \in Times : now \in Nat /\ now <= clock BY <1>1 DEF Times
<1>3. CASE db' = db BY <1>3
<1>4. ASSUME NEW now \in Times, Administer(now) PROVE JobsKept(db')
  BY <1>1, <1>2, <1>4, AdministerJobs
<1>5. ASSUME NEW now \in Times, NEW s \in SessionId, NEW inform \in Informs, Inform(s, inform, now)
      PROVE  JobsKept(db')
  <2>1. Calm(db, db') BY <1>1, <1>2, <1>5, InformCalm
  <2>2. db'.jobs = db.jobs BY <1>1, <1>5 DEF Inform, UpdateInventory, Tables
  <2> QED BY <1>1, <2>1, <2>2, UntouchedJobs DEF Calm
<1>6. ASSUME NEW now \in Times, NEW s \in SessionId, NEW id \in NextId,
             Poll(s, id, now) \/ Reply(s, id, now)
      PROVE  JobsKept(db')
  <2> DEFINE d == Settled(id, now)
  <2>1. id \in OpId /\ d \in Tables /\ JobsKept(d) /\ Calm(db, d)
    BY <1>1, <1>2, SlotSettled, SettledJobs, SettledCalm DEF NextId
  <2>2. ASSUME NEW r \in Answers, ReplyApplied(s, id, r, now) PROVE JobsKept(db')
    BY <1>1, <1>2, <2>2, AppliedJobs
  <2>3. Progress(d, db')
    <3>1. Timely(d, clock) BY <1>1, <2>1, CalmTimely
    <3> QED BY <1>1, <1>2, <1>6, <3>1, PollStep, ReplyStep DEF Lawful
  <2>4. CASE Untouched(d, db') BY <1>1, <2>1, <2>3, <2>4, UntouchedJobs DEF Untouched
  <2>5. CASE \/ Poll(s, id, now) \/ ReplyProfileChanged(s, id, now) \/ ReplyLate(s, id, now)
             \/ \E r \in Answers : ReplyRepeated(s, id, r, now)
    BY <1>2, <2>1, <2>4, <2>5, ReceiveUntouched
  <2> QED BY <1>6, <2>2, <2>5, Zenon DEF Reply
<1> QED BY <1>3, <1>4, <1>5, <1>6 DEF Next, Receive, Tick, vars

LEMMA InitJobs == Init => JobsKept(db)
<1> SUFFICES ASSUME Init PROVE JobsKept(db) OBVIOUS
<1>1. /\ \A o \in OpId : db.ops[o].state = "absent"
      /\ \A j \in JobId : db.jobs[j] = NoJob
  BY DEF Init, NoOperation
<1>2. NoJob.state = "absent" /\ NoJob.spec = NoSpec /\ NoJob.issued = <<>>
  BY DEF NoJob
<1>3. \A j \in JobId : Sound(NoJob, db.ops)
  <2>1. /\ NoJob.frontier = <<>> /\ NoJob.failures = <<>> /\ NoJob.current = NoOp
        /\ NoJob.rpcs = 0 /\ NoJob.completed = 0 /\ NoJob.entries = 0 /\ NoJob.depth = 0
    BY DEF NoJob
  <2>2. NoSpec.kind = "values" /\ NoSpec.names = {} /\ NoSpec.max_rpcs = 0
        /\ NoSpec.max_entries = 0 /\ NoSpec.max_depth = 0
    BY DEF NoSpec
  <2>3. /\ JobRange(NoJob.issued) = {} /\ Done(NoJob) = {} /\ Failed(NoJob) = {}
        /\ DOMAIN NoJob.issued = {} /\ Len(NoJob.issued) = 0 /\ Cardinality(Done(NoJob)) = 0
        /\ DOMAIN NoJob.frontier = {}
    <3>1. DOMAIN NoJob.issued = {} /\ DOMAIN NoJob.failures = {} /\ Len(NoJob.issued) = 0
          /\ DOMAIN NoJob.frontier = {}
      BY <1>2, <2>1
    <3>2. JobRange(NoJob.issued) = {} BY <3>1 DEF JobRange
    <3>3. Done(NoJob) = {} /\ Failed(NoJob) = {} BY <3>1, <3>2 DEF Done, Failed
    <3> QED BY <3>1, <3>2, <3>3, FS_EmptySet
  <2> HIDE DEF NoJob
  <2> QED BY <1>2, <2>1, <2>2, <2>3
          DEF Sound, Ledger, Blamed, Bounded, Batched, Walked, Covered, Whole
<1> QED BY <1>1, <1>2, <1>3 DEF JobsKept, JobsSound, Answering, Absorbed, Running

LEMMA JobsCorrect == Spec => []JobsKept(db)
<1>1. TypeOK /\ SlotInvariant /\ Timely(db, clock) /\ Sourced(db) /\ JobsKept(db) /\ [Next]_vars
      => JobsKept(db)'
  BY NextJobs DEF JobsKept, JobsSound, Answering, Absorbed, Sound, Ledger, Blamed, Bounded, Batched,
                  Walked, Covered, Whole, Rooted, Done, Failed, Running
<1> QED BY <1>1, InitJobs, TypeCorrect, SlotCorrect, TimelyCorrect, SourcedCorrect, PTL DEF Spec

\* A job without repetitions among what it issued has issued as many operations as there are.
LEMMA IssuedCount ==
  ASSUME NEW job \in Job, \A i, k \in DOMAIN job.issued : i # k => job.issued[i] # job.issued[k]
  PROVE  Cardinality(JobRange(job.issued)) = Len(job.issued)
<1> DEFINE s == job.issued
           n == Len(job.issued)
<1>1. s \in [1..n -> OpId] /\ n \in Nat /\ \A i, k \in DOMAIN s : i # k => s[i] # s[k]
  BY IssuedOps
<1> HIDE DEF s, n
<1>2. DOMAIN s = 1..n BY <1>1
<1>3. s \in Surjection(1..n, JobRange(s)) BY <1>1, <1>2 DEF JobRange, Surjection
<1>4. s \in Injection(1..n, JobRange(s)) BY <1>1, <1>2, <1>3 DEF Injection, IsInjective, Surjection
<1>5. IsFiniteSet(1..n) /\ Cardinality(1..n) = n BY <1>1, FS_Interval
<1>6. Cardinality(JobRange(s)) = n BY <1>3, <1>4, <1>5, FS_Surjection
<1> QED BY <1>6 DEF s, n

\* One failure is recorded for each operation that did not succeed.
LEMMA FailedCount ==
  ASSUME NEW job \in Job, NEW ops, Blamed(job, ops)
  PROVE  Cardinality(Failed(job)) = Cardinality({o \in Done(job) : ops[o].state # "succeeded"})
<1> DEFINE failed == Failed(job)
           bad == {o \in Done(job) : ops[o].state # "succeeded"}
           named == [i \in failed |-> job.failures[i].op]
<1>1. IsFiniteSet(failed)
  <2>1. job.failures \in Seq([op : OpId \cup {NoOp}, reason : Reasons]) BY DEF Job
  <2>2. Len(job.failures) \in Nat /\ DOMAIN job.failures = 1..Len(job.failures) BY <2>1
  <2>3. IsFiniteSet(1..Len(job.failures)) BY <2>2, FS_Interval
  <2> QED BY <2>2, <2>3, FS_Subset DEF Failed
<1>2. named \in Surjection(failed, bad) /\ named \in Injection(failed, bad)
  <2>1. named \in [failed -> bad] BY DEF Blamed
  <2>2. \A i, k \in failed : named[i] = named[k] => i = k BY DEF Blamed
  <2>3. \A o \in bad : \E i \in failed : named[i] = o BY DEF Blamed
  <2> HIDE DEF named, failed, bad
  <2> QED BY <2>1, <2>2, <2>3 DEF Injection, IsInjective, Surjection
<1> HIDE DEF named, failed, bad
<1>3. Cardinality(failed) = Cardinality(bad) BY <1>1, <1>2, FS_Surjection
<1> QED BY <1>3 DEF failed, bad

\* Whatever the CPE answers and however often a job is polled, its counters agree with the
\* operations it issued and stay within the limits it was created with.
THEOREM JobsAddUp == Spec => []JobAccounting
<1>1. ASSUME TypeOK, JobsKept(db), NEW j \in JobId
      PROVE  LET job == db.jobs[j]
                 done == JobRange(job.issued) \ {job.current}
                 failed == {i \in DOMAIN job.failures : job.failures[i].op # NoOp}
             IN /\ job.rpcs = Len(job.issued)
                /\ job.rpcs = Cardinality(JobRange(job.issued))
                /\ job.completed = Cardinality(done)
                /\ {job.failures[i].op : i \in failed} = {o \in done : db.ops[o].state # "succeeded"}
                /\ Cardinality(failed) = Cardinality({o \in done : db.ops[o].state # "succeeded"})
                /\ job.rpcs <= job.spec.max_rpcs
                /\ job.entries <= job.spec.max_entries
                /\ job.depth <= job.spec.max_depth
  <2> DEFINE job == db.jobs[j]
  <2>1. job \in Job /\ Ledger(job, db.ops) /\ Blamed(job, db.ops) /\ Bounded(job)
    BY <1>1, RowTypes DEF TypeOK, JobsKept, JobsSound, Sound
  <2> HIDE DEF job
  <2>2. job.rpcs = Len(job.issued) /\ job.rpcs = Cardinality(JobRange(job.issued))
        /\ job.completed = Cardinality(Done(job))
    BY <2>1, IssuedCount DEF Ledger
  <2>3. Cardinality(Failed(job)) = Cardinality({o \in Done(job) : db.ops[o].state # "succeeded"})
    BY <2>1, FailedCount
  <2>4. {job.failures[i].op : i \in Failed(job)} = {o \in Done(job) : db.ops[o].state # "succeeded"}
    BY <2>1 DEF Blamed
  <2>5. job.rpcs <= job.spec.max_rpcs /\ job.entries <= job.spec.max_entries
        /\ job.depth <= job.spec.max_depth
    BY <2>1 DEF Bounded
  <2> QED BY <2>2, <2>3, <2>4, <2>5 DEF Done, Failed, job
<1>2. TypeOK /\ JobsKept(db) => JobAccounting BY <1>1, Zenon DEF JobAccounting
<1> QED BY <1>2, JobsCorrect, TypeCorrect, PTL

\* A discovery never walks an object twice, whatever the objects the CPE lists.
THEOREM WalksOnce == Spec => []NoBranchTwice
<1>1. ASSUME JobsKept(db), NEW j \in JobId
      PROVE  LET job == db.jobs[j]
                 asked(i) == db.ops[job.issued[i]].ask.path
             IN job.spec.kind = "discovery" =>
                  /\ \A i, k \in DOMAIN job.issued : i # k => asked(i) # asked(k)
                  /\ \A i, k \in DOMAIN job.frontier :
                       i # k => job.frontier[i].path # job.frontier[k].path
                  /\ \A i \in DOMAIN job.issued, k \in DOMAIN job.frontier :
                       asked(i) # job.frontier[k].path
  <2> DEFINE job == db.jobs[j]
  <2>1. Ledger(job, db.ops) /\ Walked(job, db.ops) BY <1>1 DEF JobsKept, JobsSound, Sound
  <2>2. \A i \in DOMAIN job.issued : job.issued[i] \in JobRange(job.issued) BY DEF JobRange
  <2> HIDE DEF job
  <2>3. job.spec.kind = "discovery" =>
          /\ \A i, k \in DOMAIN job.issued :
               i # k => db.ops[job.issued[i]].ask.path # db.ops[job.issued[k]].ask.path
          /\ \A i, k \in DOMAIN job.frontier : i # k => job.frontier[i].path # job.frontier[k].path
          /\ \A i \in DOMAIN job.issued, k \in DOMAIN job.frontier :
               db.ops[job.issued[i]].ask.path # job.frontier[k].path
    BY <2>1, <2>2 DEF Ledger, Walked, job
  <2> QED BY <2>3 DEF job
<1>2. JobsKept(db) => NoBranchTwice BY <1>1, Zenon DEF NoBranchTwice
<1> QED BY <1>2, JobsCorrect, PTL

\* A job that reports success has left nothing out: for any tree of objects and any selection.
THEOREM SuccessIsComplete == Spec => []SucceededIsComplete
<1>1. ASSUME TypeOK, JobsKept(db), NEW j \in JobId, db.jobs[j].state = "succeeded"
      PROVE  LET job == db.jobs[j]
                 issued == JobRange(job.issued)
             IN /\ \A o \in issued : db.ops[o].state = "succeeded"
                /\ IF job.spec.kind = "discovery"
                   THEN \A o \in issued : \A p \in DOMAIN db.ops[o].result \cap Object :
                          \E q \in issued : db.ops[q].ask.path = p
                   ELSE UNION {DOMAIN db.ops[o].result : o \in issued} = job.spec.names
  <2> DEFINE job == db.jobs[j]
             issued == JobRange(job.issued)
  <2>1. job \in Job /\ Sound(job, db.ops)
    BY <1>1, RowTypes DEF TypeOK, JobsKept, JobsSound
  <2>2. issued \subseteq OpId
    <3>1. job.issued \in Seq(OpId) BY <2>1 DEF Job
    <3> QED BY <3>1 DEF JobRange
  <2>3. job.state = "succeeded" /\ job.spec.kind \in {"discovery", "values"}
    BY <1>1, <2>1 DEF Job, Spec0
  <2> HIDE DEF job
  <2>4. job.current = NoOp /\ job.frontier = <<>> /\ job.limits = {} /\ job.failures = <<>>
    BY <2>1, <2>3 DEF Sound, Whole
  <2>5. Done(job) = issued BY <2>2, <2>4, IdAssumption DEF Done
  <2>6. DOMAIN job.frontier = {} /\ Failed(job) = {} BY <2>4 DEF Failed
  <2>7. \A o \in issued : db.ops[o].state = "succeeded"
    BY <2>1, <2>5, <2>6 DEF Sound, Blamed
  <2>8. CASE job.spec.kind = "discovery"
    <3>1. \A o \in issued : \A p \in DOMAIN db.ops[o].result \cap Object :
            \E q \in issued : db.ops[q].ask.path = p
      BY <2>1, <2>4, <2>5, <2>6, <2>8 DEF Sound, Covered
    <3> QED BY <2>7, <2>8, <3>1 DEF job
  <2>9. CASE job.spec.kind = "values"
    <3>1. \A o \in issued : /\ db.ops[o].ask.kind = "values" /\ db.ops[o].ask.path = NoPath
                            /\ db.ops[o].ask.names # {} /\ db.ops[o].ask.names \subseteq job.spec.names
      BY <2>1, <2>9 DEF Sound, Batched
    <3>2. \A p \in job.spec.names : \E o \in issued : p \in db.ops[o].ask.names
      BY <2>1, <2>4, <2>6, <2>9 DEF Sound, Batched
    <3>3. \A o \in issued : DOMAIN db.ops[o].result = db.ops[o].ask.names
      BY <1>1, <2>2, <2>7, <3>1 DEF JobsKept, Answering
    <3>4. UNION {DOMAIN db.ops[o].result : o \in issued} = job.spec.names
      BY <3>1, <3>2, <3>3
    <3> QED BY <2>7, <2>9, <3>4 DEF job
  <2> QED BY <2>3, <2>8, <2>9
<1>2. TypeOK /\ JobsKept(db) => SucceededIsComplete BY <1>1, Zenon DEF SucceededIsComplete
<1> QED BY <1>2, JobsCorrect, TypeCorrect, PTL
=============================================================================
