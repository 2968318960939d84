-------------------------- MODULE ValidationProofs --------------------------
(***************************************************************************)
(* An approval of ProfileValidation holds only while the registered        *)
(* firmware is the approved one: every transaction of the queue leaves the *)
(* CPE and its approval alone, except where an observation updates the     *)
(* inventory, and that update withdraws the approval itself.  It is only   *)
(* granted on evidence, and stays with the operation it was granted on:    *)
(* what a call carries from one transaction to the next remains true.      *)
(***************************************************************************)
EXTENDS ProfileValidation, ResultProofs

Call ==
  [step : {"idle", "lookup", "create", "record", "status", "grant", "collect"},
   key : Key \cup {NoKey}, op : OpId \cup {NoOp}]
ValidationTypeOK == TypeOK /\ calls \in [Caller -> Call]

\* An approval of these tables is of the registered firmware.
Matching(d) ==
  d.approval.approved =>
    /\ Recorded(d)
    /\ d.approval.expected = Draft[Firmware]
    /\ d.cpe[Firmware] = Draft[Firmware]

\* Of an approval a, these tables have kept what they have not withdrawn.
Following(a, d) == Matching(d) /\ d.approval \in {a, Withdrawn(a)}

Unmoved(d, e) == e.cpe = d.cpe /\ e.approval = d.approval

Rows(d, o, row, s, session) == [d EXCEPT !.ops[o] = row, !.sessions[s] = session]

----------------------------------------------------------------------------
(* The queue leaves the CPE and the approval alone.                        *)

LEMMA UnmovedExpire ==
  ASSUME NEW d \in Tables, NEW now
  PROVE  Unmoved(d, Expire(d, now))
BY DEF Unmoved, Expire, Tables

LEMMA UnmovedEnqueue ==
  ASSUME NEW d \in Tables, NEW id, NEW key, NEW ask, NEW now
  PROVE  Unmoved(d, Enqueue(d, id, key, ask, now))
BY DEF Unmoved, Enqueue, Tables

LEMMA UnmovedRefuse ==
  ASSUME NEW d \in Tables, NEW s, NEW o, NEW reason, NEW now
  PROVE  Unmoved(d, Finish(d, s)) /\ Unmoved(d, Finish(Fail(d, o, reason, now), s))
BY DEF Unmoved, Finish, Fail, Tables

LEMMA UnmovedJob ==
  ASSUME NEW d \in Tables, NEW j, NEW row
  PROVE  Unmoved(d, [d EXCEPT !.jobs[j] = row])
BY DEF Unmoved, Tables

LEMMA UnmovedRows ==
  ASSUME NEW d \in Tables, NEW o, NEW row, NEW s, NEW session
  PROVE  Unmoved(d, Rows(d, o, row, s, session))
BY DEF Unmoved, Rows, Tables

LEMMA UnmovedContinue ==
  ASSUME NEW d \in Tables, NEW j \in JobId, NEW id \in OpId, NEW now \in Nat
  PROVE  Unmoved(d, Continue(d, j, id, now))
<1>1. ASSUME NEW row PROVE Unmoved(d, [d EXCEPT !.jobs[j] = row])
  BY UnmovedJob
<1>2. ASSUME NEW ask, NEW row
      PROVE  Unmoved(d, [Enqueue(d, id, NoKey, ask, now) EXCEPT !.jobs[j] = row])
  BY DEF Unmoved, Enqueue, Tables
<1> QED BY <1>1, <1>2, Zenon DEF Continue

LEMMA UnmovedAdvance ==
  ASSUME NEW d \in Tables, NEW j \in JobId, NEW id \in OpId, NEW now \in Nat
  PROVE  Unmoved(d, Advance(d, j, id, now))
<1>1. d.jobs[j].current \in OpId \cup {NoOp} BY DEF Tables, Job
<1>2. CASE d.jobs[j].state # "running" \/ d.jobs[j].current \in Active(d)
  BY <1>2 DEF Advance, Unmoved
<1>3. CASE d.jobs[j].state = "running" /\ d.jobs[j].current \notin Active(d)
  <2>1. CASE d.jobs[j].current = NoOp
    BY <1>3, <2>1, UnmovedContinue DEF Advance
  <2>2. CASE d.jobs[j].current # NoOp
    <3>1. Absorb(d, j) \in Tables BY <1>1, <2>2, AbsorbType
    <3>2. Unmoved(d, Absorb(d, j)) BY UnmovedJob, Zenon DEF Absorb
    <3>3. Unmoved(Absorb(d, j), Continue(Absorb(d, j), j, id, now))
      BY <3>1, UnmovedContinue
    <3> QED BY <1>3, <2>2, <3>2, <3>3 DEF Advance, Unmoved
  <2> QED BY <2>1, <2>2
<1> QED BY <1>2, <1>3

LEMMA UnmovedActive ==
  ASSUME NEW d \in Tables, NEW id \in OpId, NEW now \in Nat
  PROVE  Unmoved(d, AdvanceActive(d, id, now))
<1>1. Running(d) # {} => (CHOOSE j \in Running(d) : TRUE) \in JobId
  BY DEF Running
<1> QED BY <1>1, UnmovedAdvance DEF AdvanceActive, Unmoved

LEMMA UnmovedSettled ==
  ASSUME db \in Tables, NEW id \in OpId, NEW now \in Nat
  PROVE  Unmoved(db, Settled(id, now))
<1>1. Expire(db, now) \in Tables BY ExpireType
<1>2. Unmoved(db, Expire(db, now)) BY UnmovedExpire
<1> QED BY <1>1, <1>2, UnmovedActive DEF Settled, Unmoved

LEMMA UnmovedCollect ==
  ASSUME NEW d \in Tables, NEW o, NEW r, NEW now
  PROVE  Unmoved(d, Collect(d, o, r, now))
BY DEF Unmoved, Collect, Tables

----------------------------------------------------------------------------
(* Observations withdraw what they contradict.                             *)

LEMMA MatchingUnmoved ==
  ASSUME NEW a \in Approval, NEW d, NEW e, Following(a, d), Unmoved(d, e)
  PROVE  Following(a, e)
BY DEF Following, Matching, Recorded, Unmoved

LEMMA MatchingUpdate ==
  ASSUME NEW a \in Approval, NEW d \in Tables, NEW report \in Content, NEW now \in Nat, Following(a, d)
  PROVE  Following(a, UpdateInventory(d, report, now))
<1> DEFINE e == UpdateInventory(d, report, now)
           seen == Firmware \in Newer(d, report, now) /\ report[Firmware] \in Value
<1>1. Firmware \in Attribute BY PathAssumption DEF Attribute
<1>2. e.cpe[Firmware] = IF seen THEN report[Firmware] ELSE d.cpe[Firmware]
  BY <1>1 DEF UpdateInventory, Tables
<1>3. e.approval = IF d.approval.op # NoOp /\ seen /\ report[Firmware] # d.approval.expected
                   THEN Withdrawn(d.approval) ELSE d.approval
  BY DEF UpdateInventory, Tables
<1>4. d.approval.approved => d.approval.op # NoOp
  BY DEF Following, Matching, Recorded
<1>5. Withdrawn(Withdrawn(a)) = Withdrawn(a) BY DEF Withdrawn, Approval
<1>6. e.approval \in {a, Withdrawn(a)} BY <1>3, <1>5 DEF Following
<1>7. Matching(e)
  BY <1>2, <1>3, <1>4 DEF Following, Matching, Recorded, Withdrawn, Tables, Approval
<1> QED BY <1>6, <1>7 DEF Following

LEMMA MatchingConclude ==
  ASSUME NEW a \in Approval, NEW d \in Tables, NEW s \in SessionId, NEW o \in OpId, NEW r \in Answer, NEW now \in Nat,
         Following(a, d)
  PROVE  Following(a, Conclude(d, s, o, r, now))
<1> DEFINE ask == d.ops[o].ask
           collected == Collect(d, o, r, now)
           noted == IF FeedsInventory(ask, r) THEN UpdateInventory(collected, r.content, now)
                                              ELSE collected
           measured == IF Measures(ask, r) THEN UpdateTelemetry(noted, o, r.content, now)
                                           ELSE noted
<1>1. collected \in Tables /\ r.content \in Content BY CollectType DEF Answer
<1>2. Following(a, collected) BY UnmovedCollect, MatchingUnmoved
<1>3. noted \in Tables /\ Following(a, noted)
  BY <1>1, <1>2, MatchingUpdate, UpdateInventoryType
<1> HIDE DEF noted
<1>6. measured \in Tables BY <1>1, <1>3, UpdateTelemetryType
<1>7. Following(a, measured)
  <2>1. Unmoved(noted, measured) BY <1>3 DEF Unmoved, UpdateTelemetry, Tables
  <2> QED BY <1>3, <2>1, MatchingUnmoved
<1>4. PICK row, session : Conclude(d, s, o, r, now) = Rows(measured, o, row, s, session)
  BY Zenon DEF Conclude, Rows, noted
<1> HIDE DEF measured
<1>5. Unmoved(measured, Conclude(d, s, o, r, now)) BY <1>4, <1>6, UnmovedRows
<1> QED BY <1>5, <1>7, MatchingUnmoved

LEMMA MatchingPoll ==
  ASSUME NEW a \in Approval, db \in Tables, Following(a, db), NEW s \in SessionId, NEW id \in OpId, NEW now \in Nat,
         Poll(s, id, now)
  PROVE  Following(a, db')
<1> DEFINE d == Settled(id, now)
<1>1. d \in Tables BY SettledType
<1>2. Following(a, d) BY UnmovedSettled, MatchingUnmoved
<1>3. CASE PollCompleted(s, id, now) \/ PollResend(s, id, now)
  BY <1>2, <1>3 DEF PollCompleted, PollResend
<1>4. CASE PollProfileChanged(s, id, now)
  BY <1>1, <1>2, <1>4, UnmovedRefuse, MatchingUnmoved DEF PollProfileChanged
<1>5. CASE PollDispatch(s, id, now)
  <2>1. PICK o \in OpId : \E deadline :
          db' = [d EXCEPT
                   !.ops[o] = [@ EXCEPT !.state = "dispatched", !.expires = deadline,
                                        !.session = s, !.sent = clock],
                   !.sessions[s] = [state |-> "awaiting_response", expires |-> deadline]]
    BY <1>5, Zenon DEF PollDispatch, d
  <2>2. \E row, session : db' = Rows(d, o, row, s, session)
    BY <2>1, Zenon DEF Rows
  <2> HIDE DEF d
  <2>3. Unmoved(d, db') BY <1>1, <2>2, UnmovedRows
  <2> QED BY <1>2, <2>3, MatchingUnmoved
<1>6. CASE PollIdle(s, id, now)
  BY <1>1, <1>2, <1>6, UnmovedRefuse, MatchingUnmoved DEF PollIdle
<1> QED BY <1>3, <1>4, <1>5, <1>6 DEF Poll

LEMMA MatchingReply ==
  ASSUME NEW a \in Approval, db \in Tables, Following(a, db), NEW s \in SessionId, NEW id \in OpId, NEW now \in Nat,
         Reply(s, id, now)
  PROVE  Following(a, db')
<1> DEFINE d == Settled(id, now)
<1>1. d \in Tables BY SettledType
<1>2. Following(a, d) BY UnmovedSettled, MatchingUnmoved
<1>3. ASSUME NEW r \in Answers, ReplyApplied(s, id, r, now) PROVE Following(a, db')
  <2>1. PICK o \in OpId : db' = AdvanceActive(Conclude(d, s, o, r, now), id, now)
    BY <1>3 DEF ReplyApplied
  <2>2. r \in Answer BY InputTypes
  <2> HIDE DEF d
  <2>3. Conclude(d, s, o, r, now) \in Tables /\ Following(a, Conclude(d, s, o, r, now))
    BY <1>1, <1>2, <2>2, ConcludeType, MatchingConclude
  <2> QED BY <2>1, <2>3, UnmovedActive, MatchingUnmoved
<1>4. ASSUME NEW r \in Answers, ReplyRepeated(s, id, r, now) PROVE Following(a, db')
  BY <1>2, <1>4 DEF ReplyRepeated
<1>5. CASE ReplyProfileChanged(s, id, now)
  BY <1>1, <1>2, <1>5, UnmovedRefuse, MatchingUnmoved DEF ReplyProfileChanged
<1>6. CASE ReplyLate(s, id, now)
  BY <1>1, <1>2, <1>6, UnmovedRefuse, MatchingUnmoved DEF ReplyLate
<1> QED BY <1>3, <1>4, <1>5, <1>6 DEF Reply

LEMMA MatchingInform ==
  ASSUME NEW a \in Approval, db \in Tables, Following(a, db), NEW s \in SessionId, NEW inform \in Informs, NEW now \in Nat,
         Inform(s, inform, now)
  PROVE  Following(a, db')
<1> DEFINE named == [db EXCEPT !.cpe[Manufacturer] = inform.manufacturer]
           e == UpdateInventory(named, inform.report, now)
<1>1. inform.manufacturer \in Value /\ inform.report \in Content
  BY InputTypes DEF Inform0
<1>2. named \in Tables BY <1>1 DEF Tables, Target
<1>3. Manufacturer # Firmware /\ Firmware \in Attribute BY PathAssumption DEF Attribute
<1>4. named.cpe[Firmware] = db.cpe[Firmware] /\ named.approval = db.approval
  BY <1>3 DEF Tables, Target
<1>5. Following(a, named) BY <1>4 DEF Following, Matching, Recorded
<1> HIDE DEF named
<1>6. e \in Tables /\ Following(a, e) BY <1>1, <1>2, <1>5, UpdateInventoryType, MatchingUpdate
<1>7. \E session : db' = [e EXCEPT !.sessions[s] = session]
  BY DEF Inform, named
<1> HIDE DEF e
<1>8. Unmoved(e, db') BY <1>6, <1>7 DEF Unmoved, Tables
<1> QED BY <1>6, <1>8, MatchingUnmoved

LEMMA MatchingExpire ==
  ASSUME NEW a \in Approval, db \in Tables, Following(a, db), NEW now \in Nat
  PROVE  Following(a, Expire(db, now)) /\ Expire(db, now) \in Tables
BY ExpireType, UnmovedExpire, MatchingUnmoved

LEMMA MatchingCreate ==
  ASSUME NEW a \in Approval, db \in Tables, Following(a, db), NEW key, NEW ask, NEW id, NEW now \in Nat,
         CreateQuery(key, ask, id, now) \/ CreateTelemetry(key, ask, id, now)
  PROVE  Following(a, db')
<1>1. PICK read : db' = Enqueue(Expire(db, now), id, key, read, now)
  BY Zenon DEF CreateQuery, CreateTelemetry
<1> QED BY <1>1, MatchingExpire, UnmovedEnqueue, MatchingUnmoved

LEMMA MatchingAdminister ==
  ASSUME NEW a \in Approval, db \in Tables, Following(a, db), NEW now \in Nat, Administer(now)
  PROVE  Following(a, db')
<1> DEFINE e == Expire(db, now)
<1>1. e \in Tables /\ Following(a, e) BY MatchingExpire
<1>2. NextId \subseteq OpId BY DEF NextId
<1>3. ASSUME NEW key \in Key, NEW ask \in Asks, RepeatCreate(key, ask, now) PROVE Following(a, db')
  BY <1>1, <1>3 DEF RepeatCreate
<1>4. ASSUME NEW o \in OpId, GetQuery(o, now) PROVE Following(a, db')
  BY <1>1, <1>4 DEF GetQuery
<1>5. ASSUME NEW j \in JobId, NEW spec \in Specs, RepeatCollection(j, spec, now) PROVE Following(a, db')
  BY <1>1, <1>5 DEF RepeatCollection
<1>6. ASSUME NEW j \in JobId, NEW spec \in Specs, NEW id \in NextId, CreateCollection(j, spec, id, now)
      PROVE  Following(a, db')
  <2> DEFINE f == [e EXCEPT !.jobs[j] = NewJob(spec)]
  <2>1. db' = Advance(f, j, id, now) BY <1>6 DEF CreateCollection
  <2>2. NewJob(spec) \in Job
    BY <1>6, NewJobType, InputTypes, PathAssumption DEF CreateCollection, Admissible
  <2> HIDE DEF e
  <2>3. f \in Tables BY <1>1, <2>2, PutJob
  <2>4. Following(a, f) BY <1>1, UnmovedJob, MatchingUnmoved
  <2> HIDE DEF f
  <2> QED BY <1>2, <2>1, <2>3, <2>4, UnmovedAdvance, MatchingUnmoved
<1>7. ASSUME NEW j \in JobId, NEW id \in NextId, GetCollection(j, id, now) PROVE Following(a, db')
  BY <1>1, <1>2, <1>7, UnmovedAdvance, MatchingUnmoved DEF GetCollection
<1>8. ASSUME NEW key \in Key, NEW ask \in Asks, NEW id \in NextId,
             CreateQuery(key, ask, id, now) \/ CreateTelemetry(key, ask, id, now)
      PROVE  Following(a, db')
  BY <1>8, MatchingCreate
<1> QED BY <1>3, <1>4, <1>5, <1>6, <1>7, <1>8 DEF Administer

LEMMA MatchingNext ==
  ASSUME TypeOK, Matching(db), [Next]_vars
  PROVE  Following(db.approval, db')
<1>1. PICK a : a = db.approval /\ db \in Tables /\ a \in Approval /\ Following(a, db)
  BY DEF TypeOK, Tables, Following
<1>2. ASSUME UNCHANGED db PROVE Following(a, db') BY <1>1, <1>2
<1>3. \A now \in Times : now \in Nat BY DEF Times, TypeOK
<1>4. NextId \subseteq OpId BY DEF NextId
<1>5. ASSUME NEW now \in Times, Receive(now) PROVE Following(a, db')
  BY <1>1, <1>3, <1>4, <1>5, MatchingInform, MatchingPoll, MatchingReply DEF Receive
<1>6. ASSUME NEW now \in Times, Administer(now) PROVE Following(a, db')
  BY <1>1, <1>3, <1>6, MatchingAdminister
<1>7. Following(a, db') BY <1>2, <1>5, <1>6 DEF Next, Tick, vars
<1> QED BY <1>1, <1>7

----------------------------------------------------------------------------
(* The transactions of an approval.                                        *)

Approving == ValidationTypeOK /\ SlotInvariant /\ Matching(db)

LEMMA ApprovalKept ==
  ASSUME Approving
  PROVE  db.approval \in Approval /\ Following(db.approval, db)
BY DEF Approving, ValidationTypeOK, TypeOK, Tables, Following

LEMMA DraftAskType == DraftAsk \in Ask
BY DraftAssumption, PathAssumption DEF DraftAsk, Ask

\* A call that only moves on, or that also expires what is overdue.
LEMMA ApprovingMoves ==
  ASSUME Approving, calls' \in [Caller -> Call], UNCHANGED clock, NEW now \in Nat,
         db' = db \/ db' = Expire(db, now)
  PROVE  Approving'
<1>1. CASE db' = db
  <2>1. SlotInvariant' BY <1>1, SlotNext DEF Approving, ValidationTypeOK, vars
  <2> QED BY <1>1, <2>1 DEF Approving, ValidationTypeOK, TypeOK
<1>2. CASE db' = Expire(db, now)
  <2>1. SlotInvariant' BY <1>2, SlotOverdue DEF Approving, ValidationTypeOK
  <2>2. Matching(db') /\ db' \in Tables
    BY <1>2, ApprovalKept, MatchingExpire DEF Following, Approving, ValidationTypeOK, TypeOK
  <2> QED BY <2>1, <2>2 DEF Approving, ValidationTypeOK, TypeOK
<1> QED BY <1>1, <1>2

\* A call that queues its read.
LEMMA ApprovingQueues ==
  ASSUME Approving, calls' \in [Caller -> Call], NEW key \in Key \cup {NoKey}, NEW now \in Nat,
         NEW id \in NextId,
         CreateQuery(key, DraftAsk, id, now) \/ RepeatCreate(key, DraftAsk, now)
  PROVE  Approving'
<1>1. CASE RepeatCreate(key, DraftAsk, now)
  BY <1>1, ApprovingMoves DEF RepeatCreate
<1>2. CASE CreateQuery(key, DraftAsk, id, now)
  <2>1. SlotInvariant' BY <1>2, SlotCreate DEF CreateQuery, Approving, ValidationTypeOK
  <2>2. Matching(db') BY <1>2, ApprovalKept, MatchingCreate DEF Following, Approving, ValidationTypeOK, TypeOK
  <2>3. Expire(db, now) \in Tables BY ExpireType DEF Approving, ValidationTypeOK, TypeOK
  <2>4. db' \in Tables
    BY <1>2, <2>3, DraftAskType, EnqueueType DEF CreateQuery, NextId
  <2>5. UNCHANGED clock BY <1>2 DEF CreateQuery
  <2> QED BY <2>1, <2>2, <2>4, <2>5 DEF Approving, ValidationTypeOK, TypeOK
<1> QED BY <1>1, <1>2

\* A call that writes the approval.
LEMMA ApprovingWrites ==
  ASSUME Approving, calls' \in [Caller -> Call], UNCHANGED clock, NEW approval \in Approval,
         db' = [db EXCEPT !.approval = approval], Matching(db')
  PROVE  Approving'
<1>1. db' \in Tables /\ db'.ops = db.ops /\ db'.sessions = db.sessions /\ db'.jobs = db.jobs
  BY DEF Approving, ValidationTypeOK, TypeOK, Tables
<1>2. Slot(db') /\ Active(db') = Active(db) BY <1>1, SlotSame DEF Approving, SlotInvariant
<1>3. Owned(db') BY <1>1, <1>2, OwnedSame DEF Approving, SlotInvariant
<1> QED BY <1>1, <1>2, <1>3 DEF Approving, ValidationTypeOK, TypeOK, SlotInvariant

LEMMA ApprovingValidate ==
  ASSUME Approving, NEW c \in Caller, Validate(c)
  PROVE  Approving'
<1>1. \A now \in Times : now \in Nat BY DEF Times, Approving, ValidationTypeOK, TypeOK
<1>2. /\ calls[c] \in Call /\ NextId \subseteq OpId /\ Idling \in Call
      /\ db \in Tables /\ db.approval \in Approval
  BY DEF Approving, ValidationTypeOK, TypeOK, Tables, NextId, Idling, Call
<1>3. ASSUME NEW row \in Call, calls' = [calls EXCEPT ![c] = row]
      PROVE  calls' \in [Caller -> Call]
  BY <1>3 DEF Approving, ValidationTypeOK
<1>4. ASSUME NEW step \in {"lookup", "create", "record", "status", "grant", "collect"},
             NEW key \in Key \cup {NoKey}, NEW o \in OpId \cup {NoOp}, Go(c, step, key, o)
      PROVE  calls' \in [Caller -> Call]
  <2>1. [step |-> step, key |-> key, op |-> o] \in Call BY DEF Call
  <2> QED BY <1>3, <1>4, <2>1 DEF Go
<1>5. calls[c].key \in Key \cup {NoKey} /\ calls[c].op \in OpId \cup {NoOp}
  BY <1>2 DEF Call
<1>6. ASSUME NEW key \in Key, StartIdentity(c, key) PROVE Approving'
  <2>1. calls' \in [Caller -> Call] BY <1>4, <1>6 DEF StartIdentity
  <2> QED BY <1>6, <2>1, ApprovingMoves DEF StartIdentity, vars
<1>7. CASE StartLookup(c)
  <2>1. calls' \in [Caller -> Call] BY <1>4, <1>5, <1>7 DEF StartLookup
  <2> QED BY <1>7, <2>1, ApprovingMoves DEF StartLookup, vars
<1>8. CASE Abandon(c)
  <2>1. calls' \in [Caller -> Call] BY <1>2, <1>3, <1>8 DEF Abandon
  <2> QED BY <1>8, <2>1, ApprovingMoves DEF Abandon, vars
<1>9. ASSUME NEW now \in Times, Status(c, now) PROVE Approving'
  <2>1. calls' \in [Caller -> Call] BY <1>2, <1>3, <1>9 DEF Status
  <2> QED BY <1>1, <1>9, <2>1, ApprovingMoves DEF Status
<1>10. ASSUME NEW now \in Times, ApproveCheck(c, now) PROVE Approving'
  <2>1. Expire(db, now).approval.op \in OpId \cup {NoOp}
    BY <1>1, <1>2, ExpireType DEF Tables, Approval
  <2>2. calls' \in [Caller -> Call] BY <1>4, <1>10, <2>1 DEF ApproveCheck
  <2> QED BY <1>1, <1>10, <2>2, ApprovingMoves DEF ApproveCheck
<1>11. ASSUME NEW now \in Times, NEW key \in Key, CollectCheck(c, key, now) PROVE Approving'
  <2>1. calls' \in [Caller -> Call] BY <1>4, <1>11 DEF CollectCheck
  <2> QED BY <1>1, <1>11, <2>1, ApprovingMoves DEF CollectCheck
<1>12. ASSUME NEW now \in Times, NEW id \in NextId, StartCreate(c, id, now) PROVE Approving'
  <2>1. calls' \in [Caller -> Call]
    BY <1>2, <1>4, <1>5, <1>12 DEF StartCreate
  <2>2. CreateQuery(calls[c].key, DraftAsk, id, now) \/ RepeatCreate(calls[c].key, DraftAsk, now)
    BY <1>12 DEF StartCreate
  <2> QED BY <1>1, <1>5, <2>1, <2>2, ApprovingQueues
<1>13. ASSUME NEW now \in Times, NEW id \in NextId, CollectCreate(c, id, now) PROVE Approving'
  <2>1. calls' \in [Caller -> Call] BY <1>2, <1>3, <1>13 DEF CollectCreate
  <2>2. CreateQuery(calls[c].key, DraftAsk, id, now) \/ RepeatCreate(calls[c].key, DraftAsk, now)
    BY <1>13 DEF CollectCreate
  <2> QED BY <1>1, <1>5, <2>1, <2>2, ApprovingQueues
<1>14. CASE StartRecord(c)
  <2> DEFINE new == IF db.approval.op = calls[c].op THEN db.approval
                    ELSE [op |-> calls[c].op, key |-> calls[c].key, expected |-> Draft[Firmware],
                          approved |-> FALSE]
  <2>1. calls' \in [Caller -> Call] BY <1>4, <1>5, <1>14 DEF StartRecord
  <2>2. new \in Approval BY <1>2, <1>5, DraftAssumption DEF Approval
  <2>3. db' = [db EXCEPT !.approval = new] BY <1>2, <1>14 DEF StartRecord, Tables
  <2>4. new.approved => new = db.approval
    OBVIOUS
  <2> HIDE DEF new
  <2>5. db'.approval = new /\ db'.cpe = db.cpe BY <1>2, <2>3 DEF Tables
  <2>6. Matching(db') BY <2>4, <2>5 DEF Approving, Matching, Recorded
  <2>7. UNCHANGED clock BY <1>14 DEF StartRecord
  <2> QED BY <2>1, <2>2, <2>3, <2>6, <2>7, ApprovingWrites
<1>15. CASE ApproveGrant(c)
  <2> DEFINE new == [db.approval EXCEPT !.approved = TRUE]
  <2>1. calls' \in [Caller -> Call] BY <1>4, <1>5, <1>15 DEF ApproveGrant
  <2>2. new \in Approval BY <1>2 DEF Approval
  <2>3. db' = [db EXCEPT !.approval = new] BY <1>2, <1>15 DEF ApproveGrant, Tables
  <2>4. new.op = db.approval.op /\ new.expected = db.approval.expected
    BY <1>2 DEF Approval
  <2> HIDE DEF new
  <2>5. db'.approval = new /\ db'.cpe = db.cpe BY <1>2, <2>3 DEF Tables
  <2>6. Matching(db')
    BY <1>15, <2>4, <2>5 DEF ApproveGrant, Grantable, Matches, Matching, Recorded
  <2>7. UNCHANGED clock BY <1>15 DEF ApproveGrant
  <2> QED BY <2>1, <2>2, <2>3, <2>6, <2>7, ApprovingWrites
<1> QED BY <1>6, <1>7, <1>8, <1>9, <1>10, <1>11, <1>12, <1>13, <1>14, <1>15 DEF Validate

LEMMA ApprovingInit == ValidationInit => Approving
<1> SUFFICES ASSUME ValidationInit PROVE Approving
  OBVIOUS
<1>1. TypeOK /\ SlotInvariant BY InitType, SlotInit DEF ValidationInit
<1>2. calls \in [Caller -> Call] BY DEF ValidationInit, Idling, Call
<1>3. Matching(db) BY DEF ValidationInit, Init, NoApproval, Matching
<1> QED BY <1>1, <1>2, <1>3 DEF Approving, ValidationTypeOK

LEMMA ApprovingNext == Approving /\ [ValidationNext]_pvars => Approving'
<1> SUFFICES ASSUME Approving, [ValidationNext]_pvars PROVE Approving'
  OBVIOUS
<1>1. CASE [Next]_vars /\ UNCHANGED calls
  <2>1. TypeOK' BY <1>1, NextType DEF Approving, ValidationTypeOK
  <2>2. SlotInvariant' BY <1>1, SlotNext DEF Approving, ValidationTypeOK
  <2>3. Matching(db') BY <1>1, MatchingNext DEF Following, Approving, ValidationTypeOK
  <2> QED BY <1>1, <2>1, <2>2, <2>3 DEF Approving, ValidationTypeOK
<1>2. ASSUME NEW c \in Caller, Validate(c) PROVE Approving'
  BY <1>2, ApprovingValidate
<1> QED BY <1>1, <1>2 DEF ValidationNext, pvars

\* Whatever commits between the transactions of start and approve, an approval is of the
\* firmware the CPE is registered with.
THEOREM ApprovalCorrect == ValidationSpec => []ApprovedMatchesFirmware
<1>1. Approving => ApprovedMatchesFirmware
  BY DEF Approving, Matching, ApprovedMatchesFirmware
<1> QED BY <1>1, ApprovingInit, ApprovingNext, PTL DEF ValidationSpec

\* The slot stays consistent when validations and their collections use it as well.
THEOREM ValidationSlotCorrect == ValidationSpec => []SlotInvariant
<1>1. Approving => SlotInvariant
  BY DEF Approving
<1> QED BY <1>1, ApprovingInit, ApprovingNext, PTL DEF ValidationSpec

----------------------------------------------------------------------------
(* What the queue promises, it promises to validations as well.            *)

\* A row that was never inserted has no key, and a key names one operation.
Keyed(d) ==
  /\ \A o \in OpId : d.ops[o].state = "absent" => d.ops[o].key = NoKey
  /\ \A o, p \in OpId : d.ops[o].key = d.ops[p].key /\ d.ops[o].key # NoKey => o = p

LEMMA KeyedStep ==
  ASSUME NEW d \in Tables, NEW e \in Tables, Slot(e), Keyed(d), Progress(d, e), Born(d, e), KeyedBy(d, e)
  PROVE  Keyed(e)
<1>1. \A o \in OpId : d.ops[o].state # "absent" => e.ops[o].key = d.ops[o].key
  <2>1. \A o \in OpId : d.ops[o].state \in {"absent"} \cup Waiting \cup Terminal
    BY RowTypes DEF Operation, Waiting, Terminal, Answered
  <2> QED BY <2>1 DEF Progress, OpProgress
<1>2. \A o \in OpId : e.ops[o].state = "absent" => e.ops[o].key = NoKey
  BY DEF Progress, OpProgress, Keyed
<1>3. \A o \in OpId : d.ops[o].state = "absent" /\ e.ops[o].key # NoKey => o \in Active(e)
  <2>1. \A o \in OpId : e.ops[o].state \in {"absent"} \cup Waiting \cup Terminal
    BY RowTypes DEF Operation, Waiting, Terminal, Answered
  <2> QED BY <1>2, <2>1 DEF Born, Active
<1>4. ASSUME NEW o \in OpId, NEW p \in OpId, e.ops[o].key = e.ops[p].key, e.ops[o].key # NoKey,
             d.ops[o].state # "absent"
      PROVE  o = p
  <2>1. e.ops[o].key = d.ops[o].key BY <1>1, <1>4
  <2>2. CASE d.ops[p].state # "absent" BY <1>1, <1>4, <2>1, <2>2 DEF Keyed
  <2>3. CASE d.ops[p].state = "absent"
    <3>1. d.ops[p].key = NoKey BY <2>3 DEF Keyed
    <3>2. \A q \in OpId : d.ops[q].key # e.ops[p].key BY <1>4, <3>1 DEF KeyedBy
    <3> QED BY <1>4, <2>1, <3>2
  <2> QED BY <2>2, <2>3
<1>5. ASSUME NEW o \in OpId, NEW p \in OpId, e.ops[o].key = e.ops[p].key, e.ops[o].key # NoKey
      PROVE  o = p
  <2>1. CASE d.ops[o].state # "absent" BY <1>4, <1>5, <2>1
  <2>2. CASE d.ops[p].state # "absent" BY <1>4, <1>5, <2>2
  <2>3. CASE d.ops[o].state = "absent" /\ d.ops[p].state = "absent"
    <3>1. o \in Active(e) /\ p \in Active(e) BY <1>3, <1>5, <2>3
    <3> QED BY <3>1 DEF Slot, Single
  <2> QED BY <2>1, <2>2, <2>3
<1> QED BY <1>2, <1>5 DEF Keyed

\* A transaction of a validation writes the approval, expires what is overdue, or queues the
\* read of the draft.
Modest ==
  /\ UNCHANGED clock
  /\ \/ \E approval : db' = [db EXCEPT !.approval = approval]
     \/ \E now \in Nat : db' = Expire(db, now)
     \/ \E now \in Nat : \E key : \E id \in NextId : CreateQuery(key, DraftAsk, id, now)

LEMMA ValidateShape ==
  ASSUME Approving, NEW c \in Caller, Validate(c)
  PROVE  Modest
<1>1. \A now \in Times : now \in Nat BY DEF Times, Approving, ValidationTypeOK, TypeOK
<1>2. db = [db EXCEPT !.approval = db.approval]
  BY DEF Approving, ValidationTypeOK, TypeOK, Tables
<1>3. CASE UNCHANGED vars BY <1>2, <1>3 DEF vars, Modest
<1>4. CASE StartRecord(c)
  <2>1. PICK row : db' = [db EXCEPT !.approval = row] BY <1>4, Zenon DEF StartRecord
  <2> QED BY <1>4, <2>1 DEF StartRecord, Modest
<1>5. CASE ApproveGrant(c)
  <2>1. db' = [db EXCEPT !.approval = [db.approval EXCEPT !.approved = TRUE]]
    BY <1>5, Zenon DEF ApproveGrant, Approving, ValidationTypeOK, TypeOK, Tables
  <2> QED BY <1>5, <2>1 DEF ApproveGrant, Modest
<1>6. ASSUME NEW now \in Times, db' = Expire(db, now), UNCHANGED clock
      PROVE  Modest
  BY <1>1, <1>6 DEF Modest
<1>7. ASSUME NEW now \in Times, NEW key, NEW id \in NextId, CreateQuery(key, DraftAsk, id, now)
      PROVE  Modest
  <2>1. UNCHANGED clock BY <1>7 DEF CreateQuery
  <2> QED BY <1>1, <1>7, <2>1 DEF Modest
<1>8. ASSUME NEW now \in Times, Status(c, now) \/ ApproveCheck(c, now) PROVE Modest
  BY <1>6, <1>8 DEF Status, ApproveCheck
<1>9. ASSUME NEW now \in Times, NEW key \in Key, CollectCheck(c, key, now) PROVE Modest
  BY <1>6, <1>9 DEF CollectCheck
<1>10. ASSUME NEW now \in Times, NEW id \in NextId, StartCreate(c, id, now) \/ CollectCreate(c, id, now)
       PROVE  Modest
  <2>1. CASE CreateQuery(calls[c].key, DraftAsk, id, now) BY <1>7, <2>1
  <2>2. CASE RepeatCreate(calls[c].key, DraftAsk, now) BY <1>6, <2>2 DEF RepeatCreate
  <2> QED BY <1>10, <2>1, <2>2 DEF StartCreate, CollectCreate
<1> QED BY <1>3, <1>4, <1>5, <1>8, <1>9, <1>10, Zenon
        DEF Validate, StartIdentity, StartLookup, Abandon

LEMMA ValidateCalm ==
  ASSUME Approving, Sourced(db), NEW c \in Caller, Validate(c), db' \in Tables
  PROVE  Calm(db, db') /\ Born(db, db') /\ KeyedBy(db, db') /\ Sourced(db')
<1>1. db \in Tables /\ SlotInvariant BY DEF Approving, ValidationTypeOK, TypeOK
<1>2. ASSUME Calm(db, db'), Planned(db') PROVE Sourced(db')
  BY <1>1, <1>2, ProgressTraced DEF Calm, Sourced
<1>3. ASSUME NEW approval, db' = [db EXCEPT !.approval = approval]
      PROVE  Calm(db, db') /\ Born(db, db') /\ KeyedBy(db, db') /\ Sourced(db')
  <2>1. /\ db'.ops = db.ops /\ db'.sessions = db.sessions /\ db'.jobs = db.jobs
        /\ db'.catalog = db.catalog /\ db'.values = db.values
    BY <1>1, <1>3 DEF Tables
  <2>2. Calm(db, db')
    <3>1. Calm(db, db) BY <1>1, CalmSame
    <3> QED BY <2>1, <3>1 DEF Calm, Progress
  <2>3. Planned(db') BY <2>1 DEF Sourced, Planned
  <2>4. Born(db, db') /\ KeyedBy(db, db') BY <2>1 DEF Born, KeyedBy, Terminal, Answered
  <2> QED BY <1>2, <2>2, <2>3, <2>4
<1>4. ASSUME NEW now \in Nat
      PROVE  /\ Expire(db, now) \in Tables /\ Calm(db, Expire(db, now)) /\ Planned(Expire(db, now))
             /\ \A o \in OpId : \/ Expire(db, now).ops[o] = db.ops[o]
                                \/ /\ db.ops[o].state \in Waiting
                                   /\ Expire(db, now).ops[o].key = db.ops[o].key
  BY <1>1, ExpireType, ExpireCalm, PlannedExpire, ExpireBorn DEF Sourced
<1>5. ASSUME NEW now \in Nat, db' = Expire(db, now)
      PROVE  Calm(db, db') /\ Born(db, db') /\ KeyedBy(db, db') /\ Sourced(db')
  <2>1. Born(db, db') /\ KeyedBy(db, db')
    BY <1>4, <1>5 DEF Born, KeyedBy, Waiting, Terminal, Answered
  <2> QED BY <1>2, <1>4, <1>5, <2>1
<1>6. ASSUME NEW now \in Nat, NEW key, NEW id \in NextId, CreateQuery(key, DraftAsk, id, now)
      PROVE  Calm(db, db') /\ Born(db, db') /\ KeyedBy(db, db') /\ Sourced(db')
  <2> DEFINE d == Expire(db, now)
  <2>1. db' = Enqueue(d, id, key, DraftAsk, now) /\ \A o \in OpId : db.ops[o].key # key
    BY <1>6 DEF CreateQuery
  <2>2. id \in OpId /\ Fresh(d, id) BY <1>1, ExpireFresh
  <2>3. d \in Tables /\ Calm(db, d) /\ Planned(d) BY <1>4
  <2>4. \A o \in OpId : \/ d.ops[o] = db.ops[o]
                        \/ db.ops[o].state \in Waiting /\ d.ops[o].key = db.ops[o].key
    BY <1>4
  <2>5. AsksReviewed(DraftAsk) BY DraftAssumption DEF AsksReviewed, DraftAsk, Telemetric
  <2> HIDE DEF d
  <2>6. Calm(d, db') /\ Adds(d, db', key) /\ Planned(db')
    BY <2>1, <2>2, <2>3, <2>5, EnqueueCalm, EnqueueAdds, PlannedEnqueue
  <2>7. Calm(db, db') BY <1>1, <2>3, <2>6, CalmChain
  <2>8. Born(db, db') BY <2>4, <2>6 DEF Adds, Born, Waiting, Terminal, Answered
  <2>9. \A o \in OpId : db'.ops[o].key \in {db.ops[o].key, key} BY <2>4, <2>6 DEF Adds
  <2>10. KeyedBy(db, db') BY <2>1, <2>9 DEF KeyedBy
  <2> QED BY <1>2, <2>6, <2>7, <2>8, <2>10
<1> QED BY <1>3, <1>5, <1>6, ValidateShape, Zenon DEF Modest

\* The tables can be traced, whoever queued the reads.
Traceable == Approving /\ Timely(db, clock) /\ Sourced(db) /\ Keyed(db)

LEMMA TraceableInit == ValidationInit => Traceable
<1> SUFFICES ASSUME ValidationInit PROVE Traceable
  OBVIOUS
<1>1. Approving BY ApprovingInit
<1>2. Timely(db, clock) /\ Sourced(db) BY InitTimely, InitSourced DEF ValidationInit
<1>3. Keyed(db) BY DEF ValidationInit, Init, NoOperation, Keyed
<1> QED BY <1>1, <1>2, <1>3 DEF Traceable

LEMMA TraceableNext ==
  ASSUME Traceable, [ValidationNext]_pvars
  PROVE  Traceable' /\ Progress(db, db')
<1>1. Approving' BY ApprovingNext DEF Traceable
<1>2. /\ db \in Tables /\ db' \in Tables /\ Slot(db') /\ clock \in Nat
      /\ TypeOK /\ SlotInvariant /\ Timely(db, clock) /\ Sourced(db) /\ Keyed(db)
  BY <1>1 DEF Traceable, Approving, ValidationTypeOK, TypeOK, SlotInvariant
<1>3. CASE [Next]_vars
  <2>1. Progress(db, db') /\ Timely(db', clock') /\ Sourced(db') BY <1>2, <1>3, NextTimely, NextSourced
  <2>2. Born(db, db') /\ KeyedBy(db, db') BY <1>2, <1>3, NextBorn
  <2>3. Keyed(db') BY <1>2, <2>1, <2>2, KeyedStep
  <2>4. Timely(db, clock)' BY <2>1 DEF Timely, Before, InTime
  <2> QED BY <1>1, <2>1, <2>3, <2>4 DEF Traceable
<1>4. ASSUME NEW c \in Caller, Validate(c) PROVE Traceable' /\ Progress(db, db')
  <2>1. Calm(db, db') /\ Born(db, db') /\ KeyedBy(db, db') /\ Sourced(db')
    BY <1>2, <1>4, ValidateCalm DEF Traceable
  <2>2. UNCHANGED clock BY <1>4, ValidateShape DEF Traceable, Modest
  <2>3. Timely(db', clock) BY <1>2, <2>1, CalmTimely
  <2>4. Keyed(db') /\ Progress(db, db') BY <1>2, <2>1, KeyedStep DEF Calm
  <2> QED BY <1>1, <2>1, <2>2, <2>3, <2>4 DEF Traceable
<1>5. [Next]_vars \/ \E c \in Caller : Validate(c) BY DEF ValidationNext, pvars, vars
<1> QED BY <1>3, <1>4, <1>5

----------------------------------------------------------------------------
(* The evidence of an approval.                                            *)

\* A read of the draft's leaves that was queued under that key ...
Asked(row, key) == row.state # "absent" /\ row.ask = DraftAsk /\ row.key = key

\* ... and one that reported the firmware of the draft.
Reports(row) == row.state = "succeeded" /\ row.result[Firmware] = Draft[Firmware]

\* The approval is of such a read, and what a call carries from one transaction to the next
\* is still true in the next.
Evident(d) ==
  /\ Recorded(d) => Asked(d.ops[d.approval.op], d.approval.key)
  /\ d.approval.approved => Recorded(d) /\ Reports(d.ops[d.approval.op])
Carry(call, d) ==
  /\ call.step \in {"lookup", "create"} => call.key # NoKey
  /\ call.step = "record" => call.op # NoOp /\ Asked(d.ops[call.op], call.key)
  /\ call.step = "grant" => call.op # NoOp /\ Reports(d.ops[call.op])
GrantInvariant == Traceable /\ Evident(db) /\ \A c \in Caller : Carry(calls[c], db)

LEMMA RowsLast ==
  ASSUME NEW d \in Tables, NEW e \in Tables, Progress(d, e), NEW o \in OpId
  PROVE  /\ \A key : Asked(d.ops[o], key) => Asked(e.ops[o], key)
         /\ Reports(d.ops[o]) => Reports(e.ops[o])
<1>1. d.ops[o].state \in {"absent"} \cup Waiting \cup Terminal
  BY RowTypes DEF Operation, Waiting, Terminal, Answered
<1>2. OpProgress(d.ops[o], e.ops[o]) BY DEF Progress
<1>3. d.ops[o].state # "absent" => /\ e.ops[o].state # "absent" /\ e.ops[o].ask = d.ops[o].ask
                                   /\ e.ops[o].key = d.ops[o].key
  BY <1>1, <1>2 DEF OpProgress, Waiting, Terminal, Answered
<1>4. d.ops[o].state = "succeeded" => e.ops[o] = d.ops[o]
  BY <1>2 DEF OpProgress, Terminal, Answered
<1> QED BY <1>3, <1>4 DEF Asked, Reports

LEMMA EvidentLasts ==
  ASSUME NEW d \in Tables, NEW e \in Tables, Progress(d, e), Evident(d),
         e.approval \in {d.approval, Withdrawn(d.approval)}
  PROVE  Evident(e)
<1>1. d.approval \in Approval BY DEF Tables
<1>2. /\ e.approval.op = d.approval.op /\ e.approval.key = d.approval.key
      /\ e.approval.approved => d.approval.approved
  BY <1>1 DEF Withdrawn, Approval
<1>3. d.approval.op \in OpId \cup {NoOp} BY <1>1 DEF Approval
<1> QED BY <1>2, <1>3, RowsLast DEF Evident, Recorded

LEMMA CarryLasts ==
  ASSUME NEW d \in Tables, NEW e \in Tables, Progress(d, e), NEW call \in Call, Carry(call, d)
  PROVE  Carry(call, e)
<1>1. call.op \in OpId \cup {NoOp} BY DEF Call
<1> QED BY <1>1, RowsLast DEF Carry

LEMMA CallsMove ==
  ASSUME GrantInvariant, db' \in Tables, Progress(db, db'), NEW c \in Caller, NEW row,
         calls' = [calls EXCEPT ![c] = row], Carry(row, db')
  PROVE  \A b \in Caller : Carry(calls'[b], db')
<1>1. db \in Tables /\ calls \in [Caller -> Call]
  BY DEF GrantInvariant, Traceable, Approving, ValidationTypeOK, TypeOK
<1>2. \A b \in Caller : Carry(calls[b], db') BY <1>1, CarryLasts DEF GrantInvariant
<1>3. \A b \in Caller : calls'[b] = IF b = c THEN row ELSE calls[b] BY <1>1
<1> QED BY <1>2, <1>3

\* What a status in the transaction of approve says of the operation.
LEMMA StatusEvident ==
  ASSUME NEW d \in Tables, Traced(d), Recorded(d), Effective(d) \in {"validated", "approved"}
  PROVE  Reports(d.ops[d.approval.op])
<1>1. Valid(d) BY DEF Effective
<1>2. Firmware \in DraftNames /\ Firmware \in Path BY DraftAssumption, PathAssumption
<1>3. /\ d.ops[d.approval.op].state = "succeeded"
      /\ d.values[Firmware].op = d.approval.op /\ d.values[Firmware].value = Draft[Firmware]
  BY <1>1, <1>2 DEF Valid
<1>4. d.values[Firmware].op # NoOp BY <1>3 DEF Recorded
<1>5. d.ops[d.values[Firmware].op].result[Firmware] = d.values[Firmware].value
  BY <1>2, <1>4 DEF Traced, ValuesTraced
<1> QED BY <1>3, <1>5 DEF Reports

\* What start carries to the transaction that records it.
LEMMA CreatedAsked ==
  ASSUME Traceable, db' \in Tables, Progress(db, db'), NEW key \in Key \cup {NoKey}, key # NoKey,
         NEW id \in NextId, NEW now \in Nat, NEW o,
         \/ CreateQuery(key, DraftAsk, id, now) /\ o = id
         \/ RepeatCreate(key, DraftAsk, now) /\ o \in OpId /\ db.ops[o].key = key
  PROVE  o \in OpId /\ o # NoOp /\ Asked(db'.ops[o], key)
<1>1. db \in Tables /\ Keyed(db) BY DEF Traceable, Approving, ValidationTypeOK, TypeOK
<1>2. id \in OpId /\ \A p \in OpId : p # NoOp BY IdAssumption DEF NextId
<1>3. CASE CreateQuery(key, DraftAsk, id, now) /\ o = id
  <2>1. Expire(db, now) \in Tables BY <1>1, ExpireType
  <2>2. db' = Enqueue(Expire(db, now), id, key, DraftAsk, now) BY <1>3 DEF CreateQuery
  <2>3. db'.ops[id].state = "pending" /\ db'.ops[id].ask = DraftAsk /\ db'.ops[id].key = key
    BY <1>2, <2>1, <2>2 DEF Enqueue, Tables, NoOperation
  <2> QED BY <1>2, <1>3, <2>3 DEF Asked
<1>4. CASE RepeatCreate(key, DraftAsk, now) /\ o \in OpId /\ db.ops[o].key = key
  <2>1. PICK p \in OpId : db.ops[p].key = key /\ SameRequest(db.ops[p].ask, DraftAsk)
    BY <1>4 DEF RepeatCreate
  <2>2. p = o BY <1>1, <1>4, <2>1 DEF Keyed
  <2>3. db.ops[o].state # "absent" BY <1>1, <1>4 DEF Keyed
  <2>4. db.ops[o].ask \in Ask BY <1>1, <1>4, RowTypes DEF Operation
  <2>5. DraftAsk \in Ask /\ ~ Telemetric(DraftAsk) BY DraftAskType DEF DraftAsk, Telemetric
  <2>6. db.ops[o].ask = DraftAsk BY <2>1, <2>2, <2>4, <2>5 DEF SameRequest, Ask
  <2>7. Asked(db.ops[o], key) BY <1>4, <2>3, <2>6 DEF Asked
  <2> QED BY <1>1, <1>2, <1>4, <2>7, RowsLast
<1> QED BY <1>3, <1>4

LEMMA GrantInit == ValidationInit => GrantInvariant
<1> SUFFICES ASSUME ValidationInit PROVE GrantInvariant
  OBVIOUS
<1>1. Traceable BY TraceableInit
<1>2. Evident(db) BY DEF ValidationInit, Init, NoApproval, Evident, Recorded
<1>3. \A c \in Caller : Carry(calls[c], db) BY DEF ValidationInit, Idling, Carry
<1> QED BY <1>1, <1>2, <1>3 DEF GrantInvariant

\* What a step preserves, and what it may not do to the approval.
GrantStep ==
  /\ GrantInvariant'
  /\ db'.approval.approved => /\ db.approval.op = db'.approval.op
                              /\ db.ops[db.approval.op].state = "succeeded"

LEMMA GrantValidate ==
  ASSUME GrantInvariant, db' \in Tables, Progress(db, db'), Traceable', NEW c \in Caller, Validate(c)
  PROVE  GrantStep
<1>1. /\ Traceable /\ Evident(db) /\ Carry(calls[c], db) /\ db \in Tables /\ Traced(db)
      /\ calls[c] \in Call /\ db.approval \in Approval
  BY DEF GrantInvariant, Traceable, Approving, ValidationTypeOK, TypeOK, Sourced, Tables
<1>2. ASSUME NEW row, calls' = [calls EXCEPT ![c] = row], Carry(row, db'), Evident(db'),
             db'.approval.approved => /\ db.approval.op = db'.approval.op
                                      /\ db.ops[db.approval.op].state = "succeeded"
      PROVE  GrantStep
  <2>1. \A b \in Caller : Carry(calls'[b], db') BY <1>2, CallsMove
  <2>2. GrantInvariant' BY <1>2, <2>1 DEF GrantInvariant, Evident, Carry, Recorded
  <2> QED BY <1>2, <2>2 DEF GrantStep
<1>3. ASSUME NEW row, calls' = [calls EXCEPT ![c] = row], Carry(row, db'), db'.approval = db.approval
      PROVE  GrantStep
  <2>1. Evident(db') BY <1>1, <1>3, EvidentLasts
  <2>2. db.approval.approved => db.ops[db.approval.op].state = "succeeded"
    BY <1>1 DEF Evident, Reports
  <2> QED BY <1>2, <1>3, <2>1, <2>2
<1>4. ASSUME calls' = [calls EXCEPT ![c] = Idling], db'.approval = db.approval PROVE GrantStep
  <2>1. Carry(Idling, db') BY DEF Carry, Idling
  <2> QED BY <1>3, <1>4, <2>1
<1>5. ASSUME NEW now \in Times
      PROVE  /\ Expire(db, now).approval = db.approval /\ Expire(db, now) \in Tables
             /\ Progress(db, Expire(db, now)) /\ Traced(Expire(db, now))
  <2>1. now \in Nat BY <1>1 DEF Times, Traceable, Approving, ValidationTypeOK, TypeOK
  <2>2. Expire(db, now) \in Tables /\ Calm(db, Expire(db, now)) BY <1>1, <2>1, ExpireType, ExpireCalm
  <2>3. Expire(db, now).approval = db.approval BY <1>1 DEF Expire, Tables
  <2> QED BY <1>1, <2>2, <2>3, ProgressTraced DEF Calm
<1>6. ASSUME NEW key \in Key, StartIdentity(c, key) PROVE GrantStep
  <2> DEFINE row == [step |-> "lookup", key |-> key, op |-> NoOp]
  <2>1. calls' = [calls EXCEPT ![c] = row] /\ db'.approval = db.approval BY <1>6 DEF StartIdentity, Go, vars
  <2>2. Carry(row, db') BY IdAssumption DEF Carry
  <2> QED BY <1>3, <2>1, <2>2
<1>7. CASE StartLookup(c)
  <2> DEFINE row == [step |-> IF Recorded(db) /\ db.approval.key = calls[c].key THEN "status" ELSE "create",
                     key |-> calls[c].key, op |-> NoOp]
  <2>1. calls' = [calls EXCEPT ![c] = row] /\ db'.approval = db.approval BY <1>7 DEF StartLookup, Go, vars
  <2>2. Carry(row, db') BY <1>1, <1>7 DEF StartLookup, At, Carry
  <2> QED BY <1>3, <2>1, <2>2
<1>8. CASE Abandon(c)
  BY <1>4, <1>8 DEF Abandon, vars
<1>9. ASSUME NEW now \in Times, Status(c, now) PROVE GrantStep
  BY <1>4, <1>5, <1>9 DEF Status
<1>10. ASSUME NEW now \in Times, NEW key \in Key, CollectCheck(c, key, now) PROVE GrantStep
  <2> DEFINE row == [step |-> "collect", key |-> key, op |-> NoOp]
  <2>1. calls' = [calls EXCEPT ![c] = row] /\ db'.approval = db.approval BY <1>5, <1>10 DEF CollectCheck, Go
  <2>2. Carry(row, db') BY DEF Carry
  <2> QED BY <1>3, <2>1, <2>2
<1>11. ASSUME NEW now \in Times, ApproveCheck(c, now) PROVE GrantStep
  <2> DEFINE d == Expire(db, now)
             row == [step |-> "grant", key |-> NoKey, op |-> d.approval.op]
  <2>1. calls' = [calls EXCEPT ![c] = row] /\ db' = d BY <1>11 DEF ApproveCheck, Go
  <2>2. Recorded(d) /\ Effective(d) \in {"validated", "approved"}
    BY <1>5, <1>11 DEF ApproveCheck, Recorded
  <2>3. Reports(d.ops[d.approval.op]) BY <1>5, <2>2, StatusEvident
  <2>4. Carry(row, db') BY <2>1, <2>2, <2>3 DEF Carry, Recorded
  <2> QED BY <1>3, <1>5, <2>1, <2>4
<1>12. ASSUME NEW now \in Times, NEW id \in NextId, StartCreate(c, id, now) PROVE GrantStep
  <2>1. PICK o : /\ \/ CreateQuery(calls[c].key, DraftAsk, id, now) /\ o = id
                    \/ RepeatCreate(calls[c].key, DraftAsk, now) /\ o \in OpId /\ db.ops[o].key = calls[c].key
                 /\ Go(c, "record", calls[c].key, o)
    BY <1>12 DEF StartCreate
  <2> DEFINE row == [step |-> "record", key |-> calls[c].key, op |-> o]
  <2>2. calls' = [calls EXCEPT ![c] = row] BY <2>1 DEF Go
  <2>3. now \in Nat BY <1>1 DEF Times, Traceable, Approving, ValidationTypeOK, TypeOK
  <2>4. calls[c].key \in Key \cup {NoKey} /\ calls[c].key # NoKey
    BY <1>1, <1>12 DEF StartCreate, At, Carry, Call
  <2>5. o # NoOp /\ Asked(db'.ops[o], calls[c].key) BY <1>1, <2>1, <2>3, <2>4, CreatedAsked
  <2>6. Carry(row, db') BY <2>5 DEF Carry
  <2>7. db'.approval = db.approval
    <3>1. db' = Enqueue(Expire(db, now), id, calls[c].key, DraftAsk, now) \/ db' = Expire(db, now)
      BY <2>1 DEF CreateQuery, RepeatCreate
    <3> QED BY <1>5, <3>1 DEF Enqueue, Tables
  <2> QED BY <1>3, <2>2, <2>6, <2>7
<1>13. ASSUME NEW now \in Times, NEW id \in NextId, CollectCreate(c, id, now) PROVE GrantStep
  <2>1. db' = Enqueue(Expire(db, now), id, calls[c].key, DraftAsk, now) \/ db' = Expire(db, now)
    BY <1>13 DEF CollectCreate, CreateQuery, RepeatCreate
  <2>2. db'.approval = db.approval BY <1>5, <2>1 DEF Enqueue, Tables
  <2> QED BY <1>4, <1>13, <2>2 DEF CollectCreate
<1>14. CASE StartRecord(c)
  <2> DEFINE row == [step |-> "status", key |-> calls[c].key, op |-> calls[c].op]
             new == [op |-> calls[c].op, key |-> calls[c].key, expected |-> Draft[Firmware],
                     approved |-> FALSE]
  <2>1. calls' = [calls EXCEPT ![c] = row] /\ Carry(row, db') BY <1>14 DEF StartRecord, Go, Carry
  <2>2. CASE db.approval.op = calls[c].op
    <3>1. db'.approval = db.approval BY <1>1, <1>14, <2>2 DEF StartRecord, Tables
    <3> QED BY <1>3, <2>1, <3>1
  <2>3. CASE db.approval.op # calls[c].op
    <3>1. db'.approval = new /\ db'.ops = db.ops BY <1>1, <1>14, <2>3 DEF StartRecord, Tables
    <3>2. Asked(db.ops[calls[c].op], calls[c].key) BY <1>1, <1>14 DEF StartRecord, At, Carry
    <3>3. Evident(db') /\ ~ db'.approval.approved BY <3>1, <3>2 DEF Evident
    <3> QED BY <1>2, <2>1, <3>3
  <2> QED BY <2>2, <2>3
<1>15. CASE ApproveGrant(c)
  <2> DEFINE row == [step |-> "status", key |-> NoKey, op |-> calls[c].op]
             new == [db.approval EXCEPT !.approved = TRUE]
  <2>1. calls' = [calls EXCEPT ![c] = row] /\ Carry(row, db') BY <1>15 DEF ApproveGrant, Go, Carry
  <2>2. db'.approval = new /\ db'.ops = db.ops BY <1>1, <1>15 DEF ApproveGrant, Tables
  <2>3. new.op = db.approval.op /\ new.key = db.approval.key BY <1>1 DEF Approval
  <2>4. Recorded(db) /\ Reports(db.ops[db.approval.op])
    BY <1>1, <1>15 DEF ApproveGrant, At, Grantable, Carry
  <2> HIDE DEF new
  <2>5. Evident(db') BY <1>1, <2>2, <2>3, <2>4 DEF Evident, Recorded
  <2>6. db.ops[db.approval.op].state = "succeeded" /\ db.approval.op = db'.approval.op
    BY <2>2, <2>3, <2>4 DEF Reports
  <2> QED BY <1>2, <2>1, <2>5, <2>6
<1> QED
  BY <1>6, <1>7, <1>8, <1>9, <1>10, <1>11, <1>12, <1>13, <1>14, <1>15, Zenon DEF Validate

LEMMA GrantNext ==
  ASSUME GrantInvariant, [ValidationNext]_pvars
  PROVE  GrantStep
<1>1. Traceable' /\ Progress(db, db') BY TraceableNext DEF GrantInvariant
<1>2. /\ db \in Tables /\ db' \in Tables /\ db.approval \in Approval /\ calls \in [Caller -> Call]
      /\ TypeOK /\ Matching(db) /\ Evident(db)
  BY <1>1 DEF GrantInvariant, Traceable, Approving, ValidationTypeOK, TypeOK, Tables
<1>3. CASE [Next]_vars /\ UNCHANGED calls
  <2>1. db'.approval \in {db.approval, Withdrawn(db.approval)}
    BY <1>2, <1>3, MatchingNext DEF Following
  <2>2. Evident(db') BY <1>1, <1>2, <2>1, EvidentLasts
  <2>3. \A b \in Caller : Carry(calls'[b], db')
    BY <1>1, <1>2, <1>3, CarryLasts DEF GrantInvariant
  <2>4. db'.approval.approved => db'.approval = db.approval BY <1>2, <2>1 DEF Withdrawn, Approval
  <2>5. db'.approval.approved => db.ops[db.approval.op].state = "succeeded"
    BY <1>2, <2>4 DEF Evident, Reports
  <2>6. GrantInvariant' BY <1>1, <2>2, <2>3 DEF GrantInvariant, Evident, Carry, Recorded
  <2> QED BY <2>4, <2>5, <2>6 DEF GrantStep
<1>4. ASSUME NEW c \in Caller, Validate(c)
      PROVE  GrantStep
  BY <1>1, <1>2, <1>4, GrantValidate
<1>5. ([Next]_vars /\ UNCHANGED calls) \/ \E c \in Caller : Validate(c)
  BY DEF ValidationNext, pvars, vars
<1> QED BY <1>3, <1>4, <1>5

\* An approval is granted on evidence that is still there: its operation, queued for the leaves
\* of the draft under the key of the approval, succeeded and reported the draft's firmware.
THEOREM GrantCorrect == ValidationSpec => []GrantedOnEvidence
<1>1. GrantInvariant /\ [ValidationNext]_pvars => GrantInvariant'
  BY GrantNext DEF GrantStep
<1>2. GrantInvariant => GrantedOnEvidence
  BY DEF GrantInvariant, Evident, Asked, Reports, GrantedOnEvidence
<1> QED BY <1>1, <1>2, GrantInit, PTL DEF ValidationSpec

\* No approval passes from one operation to another, and none appears for an operation that
\* has not succeeded, whatever calls of start and approve interleave.
THEOREM ApprovalStays == ValidationSpec => ApprovalStaysWithOperation
<1>1. GrantInvariant /\ [ValidationNext]_pvars => GrantInvariant'
  BY GrantNext DEF GrantStep
<1>2. GrantInvariant /\ [ValidationNext]_pvars =>
        [db'.approval.approved =>
           /\ db.approval.op = db'.approval.op
           /\ db.ops[db.approval.op].state = "succeeded"]_pvars
  BY GrantNext DEF GrantStep
<1> QED BY <1>1, <1>2, GrantInit, PTL DEF ValidationSpec, ApprovalStaysWithOperation
=============================================================================
