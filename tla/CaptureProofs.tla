--------------------------- MODULE CaptureProofs ---------------------------
(***************************************************************************)
(* What the path names is complete, one attempt is made by each process,   *)
(* and the outcomes tell the truth, for any number of processes, requests, *)
(* restarts and power failures.                                            *)
(***************************************************************************)
EXTENDS InformCapture, TLAPS

\* Before its attempt a request has no thread; the attempt is of the selected CPE.
Untried(r) ==
  /\ requests[r].step \in {"new", "refused"} => requests[r].process = "nobody"
  /\ requests[r].step \in {"new", "refused", "locking"} =>
       threads[r].step = "none" /\ requests[r].outcome = "none"
  /\ requests[r].step = "publishing" => threads[r].step # "none"
  /\ requests[r].step \in {"locking", "publishing"} => requests[r].process \in Process /\ r \in Selected
  /\ threads[r].step # "none" \/ requests[r].outcome # "none" => r \in Selected

\* Only a file that was synchronized is linked, and only then does the path name it.  A loss
\* of power can bring back only what once had a name.
Linked(r) ==
  /\ threads[r].step = "link" => content[r] = "durable"
  /\ threads[r].step \in Unpublished => threads[r].result = "none" /\ output # r
  /\ output = r => content[r] = "durable"
  /\ threads[r].step \in {"none", "create"} => r \notin temporaries \cup unsure
  /\ threads[r].step = "done" => r \notin temporaries \/ r \in lost

\* What a thread found is what its request logs, if it logs anything.
Logged(r) ==
  /\ requests[r].outcome \in {"saved", "already_exists"} =>
       threads[r].step \in Finished /\ threads[r].result = requests[r].outcome
  /\ requests[r].outcome = "expired" => threads[r].step = "none"
  /\ threads[r].result # "expired"
  /\ threads[r].result = "saved" => output = r \/ "output" \in lost
  /\ threads[r].result = "already_exists" => output # r

CaptureInvariant ==
  /\ \A r \in Request : Untried(r)
  /\ \A r \in Request : Linked(r)
  /\ \A r \in Request : Logged(r)
  /\ OneAttempt

----------------------------------------------------------------------------
\* The rows a step writes.
LEMMA RequestRow ==
  ASSUME TypeOK, NEW r \in Request, NEW step \in {"new", "refused", "locking", "publishing", "ended"},
         NEW process \in Process \cup {"nobody"},
         requests' = [requests EXCEPT ![r] = [@ EXCEPT !.step = step, !.process = process]]
  PROVE  requests' \in [Request -> RequestState]
BY DEF TypeOK, RequestState

LEMMA RequestEnds ==
  ASSUME TypeOK, NEW r \in Request, NEW outcome \in Outcome, End(r, outcome)
  PROVE  requests' \in [Request -> RequestState]
<1>1. requests[r] \in RequestState BY DEF TypeOK
<1> QED BY <1>1 DEF TypeOK, End, RequestState

LEMMA ThreadMoves ==
  ASSUME TypeOK, NEW r \in Request, NEW from, NEW to \in Unpublished \cup {"unlink"} \cup Finished,
         NEW result \in Outcome, Moves(r, from, to, result)
  PROVE  /\ collectors' \in [Process -> Collector] /\ requests' \in [Request -> RequestState]
         /\ threads' \in [Request -> ThreadState] /\ stops' \in Nat
         /\ lost' \in SUBSET (Request \cup {"output"})
BY DEF TypeOK, Moves, ThreadState, faults

LEMMA Attempted ==
  ASSUME TypeOK, NEW p \in Process, Attempt(p)
  PROVE  collectors' \in [Process -> Collector]
BY DEF TypeOK, Attempt, Collector

LEMMA EnterType ==
  ASSUME TypeOK, NEW r \in Request, Enter(r)
  PROVE  TypeOK'
<1> USE DEF TypeOK, files, names, faults
<1>1. PICK p \in Process : \/ EnterDone(r, p) \/ EnterLate(r, p)
                           \/ EnterUnserializable(r, p) \/ EnterPublish(r, p)
  BY DEF Enter
<1>2. CASE EnterDone(r, p) BY <1>2, RequestEnds DEF EnterDone, Outcome
<1>3. CASE EnterLate(r, p) BY <1>3, RequestEnds, Attempted DEF EnterLate, Outcome
<1>4. CASE EnterUnserializable(r, p)
  BY <1>4, RequestEnds, Attempted DEF EnterUnserializable, Outcome
<1>5. CASE EnterPublish(r, p)
  <2>1. requests' \in [Request -> RequestState]
    BY <1>5 DEF EnterPublish, RequestState
  <2>2. threads' \in [Request -> ThreadState]
    BY <1>5 DEF EnterPublish, ThreadState, Unpublished
  <2> QED BY <1>5, <2>1, <2>2, Attempted DEF EnterPublish
<1> QED BY <1>1, <1>2, <1>3, <1>4, <1>5

LEMMA PublishType ==
  ASSUME TypeOK, NEW r \in Request, Publish(r)
  PROVE  TypeOK'
<1> USE DEF Unpublished, Outcome, Finished
<1>1. CASE CreateTemporary(r) BY <1>1, ThreadMoves DEF CreateTemporary, TypeOK
<1>2. CASE WriteTemporary(r) BY <1>2, ThreadMoves DEF WriteTemporary, TypeOK, names
<1>3. CASE SyncTemporary(r) BY <1>3, ThreadMoves DEF SyncTemporary, TypeOK, names
<1>4. CASE LinkOutput(r) BY <1>4, ThreadMoves DEF LinkOutput, TypeOK
<1>5. CASE Unlink(r)
  <2>1. threads[r].result \in Outcome BY DEF TypeOK, ThreadState
  <2> QED BY <1>5, <2>1, ThreadMoves DEF Unlink, TypeOK
<1>6. CASE FailPublish(r) BY <1>6, ThreadMoves DEF FailPublish, TypeOK, files, names
<1> QED BY <1>1, <1>2, <1>3, <1>4, <1>5, <1>6 DEF Publish

LEMMA StoppedType ==
  ASSUME TypeOK, NEW P \in SUBSET Process, Stopped(P)
  PROVE  /\ collectors' \in [Process -> Collector] /\ requests' \in [Request -> RequestState]
         /\ threads' \in [Request -> ThreadState] /\ stops' \in Nat
<1> DEFINE gone == {r \in Request : requests[r].process \in P}
<1>1. collectors' \in [Process -> Collector]
  BY DEF TypeOK, Stopped, NewCollector, Collector
<1>2. ASSUME NEW r \in Request PROVE requests'[r] \in RequestState
  <2>1. requests[r] \in RequestState BY DEF TypeOK
  <2>2. requests'[r] = IF r \in gone
                       THEN [step |-> "ended", process |-> "nobody", outcome |-> requests[r].outcome]
                       ELSE requests[r]
    BY DEF Stopped
  <2> HIDE DEF gone
  <2> QED BY <2>1, <2>2 DEF RequestState
<1>3. ASSUME NEW r \in Request PROVE threads'[r] \in ThreadState
  <2>1. threads[r] \in ThreadState BY DEF TypeOK
  <2>2. \/ threads'[r] = threads[r]
        \/ threads'[r] = [threads[r] EXCEPT !.step = "left"]
    BY DEF Stopped
  <2> QED BY <2>1, <2>2 DEF ThreadState, Finished
<1>4. DOMAIN requests' = Request /\ DOMAIN threads' = Request BY DEF Stopped
<1>5. /\ requests' = [r \in Request |-> requests'[r]]
      /\ threads' = [r \in Request |-> threads'[r]]
  BY DEF Stopped
<1> QED BY <1>1, <1>2, <1>3, <1>5 DEF TypeOK, Stopped

LEMMA CaptureType == TypeOK /\ [Next]_cvars => TypeOK'
<1> SUFFICES ASSUME TypeOK, [Next]_cvars PROVE TypeOK'
  OBVIOUS
<1>1. CASE UNCHANGED cvars BY <1>1 DEF cvars, TypeOK
<1>2. ASSUME NEW r \in Request, Refuse(r) PROVE TypeOK'
  <2>1. requests' \in [Request -> RequestState] BY <1>2 DEF Refuse, TypeOK, RequestState
  <2> QED BY <1>2, <2>1 DEF Refuse, TypeOK, files, names, faults
<1>3. ASSUME NEW r \in Request, NEW p \in Process, Accept(r, p) PROVE TypeOK'
  <2> DEFINE step == IF r \in Selected THEN "locking" ELSE "ended"
  <2>1. requests' = [requests EXCEPT ![r] = [@ EXCEPT !.step = step, !.process = p]]
    BY <1>3 DEF Accept
  <2>2. step \in {"locking", "ended"} OBVIOUS
  <2> HIDE DEF step
  <2>3. requests' \in [Request -> RequestState] BY <2>1, <2>2, RequestRow
  <2> QED BY <1>3, <2>3 DEF Accept, TypeOK, files, names, faults
<1>4. ASSUME NEW r \in Request, Enter(r) PROVE TypeOK'
  BY <1>4, EnterType
<1>5. ASSUME NEW r \in Request, Settle(r) PROVE TypeOK'
  <2>1. threads[r].result \in Outcome BY DEF TypeOK, ThreadState
  <2> QED BY <1>5, <2>1, RequestEnds DEF Settle, TypeOK, files, names, faults
<1>6. ASSUME NEW r \in Request, Cancel(r) PROVE TypeOK'
  <2>1. threads' \in [Request -> ThreadState]
    BY <1>6 DEF Cancel, TypeOK, ThreadState, Finished
  <2>2. requests' \in [Request -> RequestState]
    BY <1>6, RequestEnds DEF Cancel, Outcome
  <2> QED BY <1>6, <2>1, <2>2 DEF Cancel, TypeOK, files, names, faults
<1>7. ASSUME NEW r \in Request, Publish(r) PROVE TypeOK'
  BY <1>7, PublishType
<1>8. ASSUME NEW p \in Process, Expire(p) PROVE TypeOK'
  <2>1. collectors' \in [Process -> Collector] BY <1>8 DEF Expire, TypeOK, Collector
  <2> QED BY <1>8, <2>1 DEF Expire, TypeOK, files, names, faults
<1>9. ASSUME NEW p \in Process, Restart(p) PROVE TypeOK'
  BY <1>9, StoppedType DEF Restart, TypeOK, files, names
<1>10. CASE PowerLoss
  <2>1. PICK undone \in SUBSET unsure :
          /\ temporaries' = (temporaries \ undone) \cup ((undone \cap Request) \ temporaries)
          /\ output' = IF "output" \in undone THEN "nobody" ELSE output
          /\ lost' = lost \cup undone
    BY <1>10 DEF PowerLoss
  <2>2. content' \in [Request -> {"none", "partial", "cached", "durable"}] /\ unsure' = {}
    BY <1>10 DEF PowerLoss, TypeOK
  <2>3. Stopped(Process) BY <1>10 DEF PowerLoss
  <2> QED BY <2>1, <2>2, <2>3, StoppedType DEF TypeOK
<1> QED BY <1>1, <1>2, <1>3, <1>4, <1>5, <1>6, <1>7, <1>8, <1>9, <1>10 DEF Next

----------------------------------------------------------------------------
(* The parts of the invariant, in one state and the next.                  *)

\* What a step of one request leaves alone.
Elsewhere(r) ==
  \A q \in Request \ {r} :
    /\ requests'[q] = requests[q] /\ threads'[q] = threads[q] /\ content'[q] = content[q]
    /\ (q \in temporaries' <=> q \in temporaries) /\ (q \in unsure' <=> q \in unsure)

\* The parts hold of every other request if the path changes for nobody else's content.
LEMMA OthersKeep ==
  ASSUME CaptureInvariant, NEW r \in Request, Elsewhere(r), lost' = lost,
         output' = output \/ (output = "nobody" /\ output' = r), "nobody" \notin Request
  PROVE  \A q \in Request \ {r} : Untried(q)' /\ Linked(q)' /\ Logged(q)'
BY DEF Elsewhere, CaptureInvariant, Untried, Linked, Logged

LEMMA CaptureInit == Init => CaptureInvariant
<1> SUFFICES ASSUME Init PROVE CaptureInvariant
  OBVIOUS
<1>1. \A r \in Request : Untried(r) /\ Linked(r) /\ Logged(r)
  BY CaptureAssumption DEF Init, NewRequest, NewThread, Untried, Linked, Logged
<1>2. OneAttempt
  <2>1. \A p \in Process : Tried(p) = {} /\ ~ collectors[p].done
    BY CaptureAssumption DEF Init, NewRequest, NewThread, NewCollector, Tried
  <2> QED BY <2>1 DEF OneAttempt
<1> QED BY <1>1, <1>2 DEF CaptureInvariant

\* A step that adds no attempt, and ends none.
LEMMA AttemptsSame ==
  ASSUME CaptureInvariant,
         \A p \in Process : Tried(p)' = Tried(p) /\ collectors'[p].done = collectors[p].done
  PROVE  OneAttempt'
BY DEF CaptureInvariant, OneAttempt

\* A step that begins the attempt of p.
LEMMA AttemptsOne ==
  ASSUME CaptureInvariant, NEW r \in Selected, NEW p \in Process, ~ collectors[p].done,
         Tried(p)' = Tried(p) \cup {r}, collectors'[p].done,
         \A t \in Process \ {p} : Tried(t)' = Tried(t) /\ collectors'[t] = collectors[t]
  PROVE  OneAttempt'
BY DEF CaptureInvariant, OneAttempt

LEMMA OneRequest ==
  ASSUME CaptureInvariant, NEW r \in Request, Elsewhere(r), lost' = lost,
         output' = output \/ (output = "nobody" /\ output' = r),
         Untried(r)', Linked(r)', Logged(r)', OneAttempt'
  PROVE  CaptureInvariant'
<1>1. \A q \in Request \ {r} : Untried(q)' /\ Linked(q)' /\ Logged(q)'
  BY OthersKeep, CaptureAssumption
<1> QED BY <1>1 DEF CaptureInvariant

----------------------------------------------------------------------------
(* The steps of a request.                                                 *)

LEMMA RequestStep ==
  ASSUME TypeOK, CaptureInvariant, NEW r \in Request, NEW p \in Process,
         Refuse(r) \/ Accept(r, p) \/ EnterDone(r, p)
  PROVE  CaptureInvariant'
<1> USE DEF TypeOK, RequestState, files, names, faults
<1>1. /\ threads' = threads /\ content' = content /\ temporaries' = temporaries
      /\ output' = output /\ unsure' = unsure /\ lost' = lost /\ collectors' = collectors
      /\ \A q \in Request \ {r} : requests'[q] = requests[q]
  BY DEF Refuse, Accept, EnterDone, End
<1>2. Elsewhere(r) BY <1>1 DEF Elsewhere
<1>3. Untried(r) /\ Linked(r) /\ Logged(r) BY DEF CaptureInvariant
<1>4. /\ requests[r].step \in {"new", "locking"}
      /\ threads[r].step = "none" /\ requests[r].outcome = "none" /\ requests'[r].outcome = "none"
  <2>1. CASE Refuse(r) BY <1>1, <1>3, <2>1 DEF Refuse, Untried
  <2>2. CASE Accept(r, p) BY <1>1, <1>3, <2>2 DEF Accept, Untried
  <2>3. CASE EnterDone(r, p) BY <1>1, <1>3, <2>3 DEF EnterDone, Enters, End, Untried
  <2> QED BY <2>1, <2>2, <2>3
<1>5. Untried(r)'
  <2>1. CASE Refuse(r) BY <1>1, <1>3, <1>4, <2>1 DEF Refuse, Untried
  <2>2. CASE Accept(r, p)
    <3>1. requests'[r].process = p
      BY <2>2 DEF Accept
    <3>2. requests'[r].step = IF r \in Selected THEN "locking" ELSE "ended"
      BY <2>2 DEF Accept
    <3> QED BY <1>1, <1>3, <1>4, <3>1, <3>2 DEF Untried
  <2>3. CASE EnterDone(r, p) BY <1>1, <1>3, <1>4, <2>3 DEF EnterDone, Enters, End, Untried
  <2> QED BY <2>1, <2>2, <2>3
<1>6. Linked(r)' /\ Logged(r)'
  BY <1>1, <1>3, <1>4 DEF Linked, Logged
<1>7. \A q \in Process : Tried(q)' = Tried(q)
  BY <1>1, <1>4 DEF Tried
<1> QED BY <1>1, <1>2, <1>5, <1>6, <1>7, AttemptsSame, OneRequest

LEMMA AttemptStep ==
  ASSUME TypeOK, CaptureInvariant, NEW r \in Request, NEW p \in Process,
         EnterLate(r, p) \/ EnterUnserializable(r, p) \/ EnterPublish(r, p)
  PROVE  CaptureInvariant'
<1> USE DEF TypeOK, RequestState, ThreadState, Collector, files, names, faults
<1>1. /\ content' = content /\ temporaries' = temporaries /\ output' = output
      /\ unsure' = unsure /\ lost' = lost
      /\ \A q \in Request \ {r} : requests'[q] = requests[q] /\ threads'[q] = threads[q]
  BY DEF EnterLate, EnterUnserializable, EnterPublish, End
<1>2. Elsewhere(r) BY <1>1 DEF Elsewhere
<1>3. Untried(r) /\ Linked(r) /\ Logged(r) BY DEF CaptureInvariant
<1>4. /\ requests[r].step = "locking" /\ requests[r].process = p /\ requests'[r].process = p
      /\ threads[r].step = "none" /\ requests[r].outcome = "none" /\ r \in Selected
  <2>1. CASE EnterPublish(r, p) BY <1>3, <2>1 DEF EnterPublish, Enters, Untried
  <2>2. CASE EnterLate(r, p) BY <1>3, <2>2 DEF EnterLate, Enters, End, Untried
  <2>3. CASE EnterUnserializable(r, p)
    BY <1>3, <2>3 DEF EnterUnserializable, Enters, End, Untried
  <2> QED BY <2>1, <2>2, <2>3
<1>5. \/ /\ requests'[r].step = "ended" /\ requests'[r].outcome \in {"expired", "failed"}
         /\ threads'[r] = threads[r]
      \/ /\ requests'[r].step = "publishing" /\ requests'[r].outcome = "none"
         /\ threads'[r].step = "create" /\ threads'[r].result = threads[r].result
  <2>1. CASE EnterPublish(r, p) BY <1>4, <2>1 DEF EnterPublish
  <2>2. CASE EnterLate(r, p) BY <1>4, <2>2 DEF EnterLate, End
  <2>3. CASE EnterUnserializable(r, p) BY <1>4, <2>3 DEF EnterUnserializable, End
  <2> QED BY <2>1, <2>2, <2>3
<1>6. Untried(r)' BY <1>1, <1>4, <1>5 DEF Untried
<1>7. Linked(r)' /\ Logged(r)'
  BY <1>1, <1>3, <1>4, <1>5 DEF Linked, Logged, Unpublished
<1>8. /\ ~ collectors[p].done /\ collectors'[p].done
      /\ \A t \in Process \ {p} : collectors'[t] = collectors[t]
  BY DEF EnterLate, EnterUnserializable, EnterPublish, Attempt
<1>9. Tried(p)' = Tried(p) \cup {r} /\ \A t \in Process \ {p} : Tried(t)' = Tried(t)
  BY <1>1, <1>4, <1>5 DEF Tried
<1>10. OneAttempt' BY <1>4, <1>8, <1>9, AttemptsOne
<1> QED BY <1>1, <1>2, <1>6, <1>7, <1>10, OneRequest

LEMMA EndStep ==
  ASSUME TypeOK, CaptureInvariant, NEW r \in Request, Settle(r) \/ Cancel(r)
  PROVE  CaptureInvariant'
<1> USE DEF TypeOK, RequestState, ThreadState, Collector, files, names, faults
<1>1. /\ content' = content /\ temporaries' = temporaries /\ output' = output
      /\ unsure' = unsure /\ lost' = lost
      /\ collectors' = collectors
      /\ \A q \in Request \ {r} : requests'[q] = requests[q] /\ threads'[q] = threads[q]
  BY DEF Settle, Cancel, End
<1>2. Elsewhere(r) BY <1>1 DEF Elsewhere
<1>3. Untried(r) /\ Linked(r) /\ Logged(r) BY DEF CaptureInvariant
<1>4. /\ requests'[r].step = "ended" /\ requests'[r].process = requests[r].process
      /\ requests[r].step \in {"locking", "publishing"}
      /\ \/ requests'[r].outcome = "none"
         \/ /\ threads[r].step \in Finished /\ threads'[r] = threads[r]
            /\ requests'[r].outcome = threads[r].result
  <2>1. CASE Settle(r) BY <2>1 DEF Settle, End
  <2>2. CASE Cancel(r) BY <2>2 DEF Cancel, End
  <2> QED BY <2>1, <2>2
<1>5. /\ threads'[r].result = threads[r].result
      /\ threads'[r].step = threads[r].step \/ (threads[r].step = "create" /\ threads'[r].step = "done")
  BY DEF Settle, Cancel
<1>6. Untried(r)' BY <1>3, <1>4, <1>5 DEF Untried, Finished
<1>7. Linked(r)'
  BY <1>1, <1>3, <1>5 DEF Linked, Unpublished
<1>8. Logged(r)'
  BY <1>1, <1>3, <1>4, <1>5 DEF Logged, Finished, Linked, Unpublished
<1>9. requests[r].step = "locking" => requests'[r].outcome = "none" /\ threads'[r].step = "none"
  BY <1>3, <1>4, <1>5 DEF Untried, Finished
<1>10. requests[r].step = "publishing" => threads[r].step # "none" /\ threads'[r].step # "none"
  BY <1>3, <1>5 DEF Untried
<1>11. requests[r].step = "locking" => requests[r].outcome = "none" /\ threads[r].step = "none"
  BY <1>3 DEF Untried
<1>12. \A q \in Process : Tried(q)' = Tried(q)
  BY <1>1, <1>4, <1>9, <1>10, <1>11 DEF Tried
<1> QED BY <1>1, <1>2, <1>6, <1>7, <1>8, <1>12, AttemptsSame, OneRequest

----------------------------------------------------------------------------
(* The steps of a thread.                                                  *)

LEMMA PublishStep ==
  ASSUME TypeOK, CaptureInvariant, NEW r \in Request, Publish(r)
  PROVE  CaptureInvariant'
<1> USE DEF TypeOK, ThreadState, files, names, faults
<1>1. /\ requests' = requests /\ collectors' = collectors /\ lost' = lost
      /\ threads[r].step \in {"create", "write", "sync", "link", "unlink"}
      /\ threads'[r].step \in {"write", "sync", "link", "unlink", "done", "left"}
      /\ \A q \in Request \ {r} : threads'[q] = threads[q] /\ content'[q] = content[q]
  BY DEF Publish, CreateTemporary, WriteTemporary, SyncTemporary, LinkOutput, Unlink, FailPublish,
         Moves
<1>2. Elsewhere(r)
  <2>1. \A q \in Request \ {r} :
          (q \in temporaries' <=> q \in temporaries) /\ (q \in unsure' <=> q \in unsure)
    BY CaptureAssumption DEF Publish, CreateTemporary, WriteTemporary, SyncTemporary, LinkOutput, Unlink, FailPublish
  <2> QED BY <1>1, <2>1 DEF Elsewhere
<1>3. Untried(r) /\ Linked(r) /\ Logged(r) BY DEF CaptureInvariant
<1>4. Untried(r)' BY <1>1, <1>3 DEF Untried
<1>5. requests[r].outcome \notin {"saved", "already_exists", "expired"}
  BY <1>1, <1>3 DEF Logged, Finished
<1>6. /\ output' = output \/ (output = "nobody" /\ output' = r)
      /\ Linked(r)' /\ Logged(r)'
  <2> USE DEF Linked, Logged, Unpublished
  <2>1. CASE CreateTemporary(r) BY <1>1, <1>3, <1>5, <2>1 DEF CreateTemporary, Moves
  <2>2. CASE WriteTemporary(r) BY <1>1, <1>3, <1>5, <2>2 DEF WriteTemporary, Moves
  <2>3. CASE SyncTemporary(r) BY <1>1, <1>3, <1>5, <2>3 DEF SyncTemporary, Moves
  <2>4. CASE LinkOutput(r)
    BY <1>1, <1>3, <1>5, <2>4, CaptureAssumption DEF LinkOutput, Moves
  <2>5. CASE Unlink(r)
    <3>1. threads'[r].step = "done" /\ threads'[r].result = threads[r].result
      BY <2>5 DEF Unlink, Moves
    <3>2. r \notin temporaries' /\ content' = content /\ output' = output
      BY <2>5 DEF Unlink
    <3> QED BY <1>1, <1>3, <1>5, <3>1, <3>2
  <2>6. CASE FailPublish(r)
    <3>1. /\ threads'[r].result = "failed" /\ UNCHANGED <<content, temporaries, output, unsure>>
          /\ \/ threads[r].step = "create" /\ threads'[r].step = "done"
             \/ threads'[r].step = "unlink"
             \/ threads'[r].step = "left"
      BY <2>6 DEF FailPublish, Moves
    <3> QED BY <1>1, <1>3, <1>5, <3>1
  <2> QED BY <2>1, <2>2, <2>3, <2>4, <2>5, <2>6 DEF Publish
<1>7. \A q \in Process : Tried(q)' = Tried(q)
  BY <1>1 DEF Tried
<1> QED BY <1>1, <1>2, <1>4, <1>6, <1>7, AttemptsSame, OneRequest

----------------------------------------------------------------------------
(* Deadlines, restarts and power failures.                                 *)

LEMMA ExpireStep ==
  ASSUME TypeOK, CaptureInvariant, NEW p \in Process, Expire(p)
  PROVE  CaptureInvariant'
<1>1. /\ \A r \in Request : Untried(r)' /\ Linked(r)' /\ Logged(r)'
      /\ \A q \in Process : Tried(q)' = Tried(q)
  BY DEF Expire, files, names, faults, CaptureInvariant, Untried, Linked, Logged, Tried
<1>2. \A q \in Process : collectors'[q].done = collectors[q].done
  BY DEF TypeOK, Collector, Expire
<1> QED BY <1>1, <1>2, AttemptsSame DEF CaptureInvariant

\* A process that has stopped leaves its requests ended, and nobody's.
LEMMA StoppedStep ==
  ASSUME TypeOK, CaptureInvariant, NEW P \in SUBSET Process, Stopped(P),
         \A r \in Request : content[r] = "durable" => content'[r] = "durable",
         unsure' \subseteq unsure, lost \subseteq lost',
         \A r \in Request : r \in temporaries' => r \in temporaries \/ r \in unsure \cap lost',
         output' = output \/ (output' = "nobody" /\ "output" \in lost')
  PROVE  CaptureInvariant'
<1> USE DEF TypeOK, RequestState, ThreadState
<1>1. ASSUME NEW r \in Request
      PROVE  /\ requests'[r].outcome = requests[r].outcome /\ threads'[r].result = threads[r].result
             /\ \/ requests'[r].step = "ended" /\ requests'[r].process = "nobody"
                \/ requests'[r] = requests[r] /\ requests[r].process \notin P
             /\ \/ threads'[r].step = threads[r].step
                \/ /\ threads'[r].step = "left" /\ threads[r].step \notin {"none", "done"}
                   /\ requests'[r].step = "ended"
  <2>1. CASE requests[r].process \in P
    <3>1. requests'[r] = [step |-> "ended", process |-> "nobody", outcome |-> requests[r].outcome]
      BY <2>1 DEF Stopped
    <3>2. threads'[r] = IF threads[r].step \notin {"none", "done"}
                        THEN [threads[r] EXCEPT !.step = "left"] ELSE threads[r]
      BY <2>1 DEF Stopped
    <3> QED BY <3>1, <3>2
  <2>2. CASE requests[r].process \notin P
    BY <2>2 DEF Stopped
  <2> QED BY <2>1, <2>2
<1>2. ASSUME NEW r \in Request PROVE Untried(r)' /\ Linked(r)' /\ Logged(r)'
  <2>1. Untried(r) /\ Linked(r) /\ Logged(r) BY DEF CaptureInvariant
  <2>2. Untried(r)' BY <1>1, <2>1 DEF Untried
  <2>3. Linked(r)' BY <1>1, <2>1, CaptureAssumption DEF Linked, Unpublished
  <2>4. Logged(r)' BY <1>1, <2>1, CaptureAssumption DEF Logged, Finished
  <2> QED BY <2>2, <2>3, <2>4
<1>3. OneAttempt'
  <2>1. ASSUME NEW p \in P PROVE Tried(p)' = {} /\ ~ collectors'[p].done
    <3>1. \A r \in Request : requests'[r].process # p
      BY <1>1, CaptureAssumption
    <3> QED BY <3>1 DEF Tried, Stopped, NewCollector
  <2>2. ASSUME NEW p \in Process \ P PROVE Tried(p)' = Tried(p) /\ collectors'[p] = collectors[p]
    <3>1. collectors'[p] = collectors[p] BY DEF Stopped
    <3>2. ASSUME NEW r \in Request PROVE (r \in Tried(p)) <=> (r \in Tried(p)')
      <4>1. CASE requests[r].process = p
        BY <4>1 DEF Stopped, Tried
      <4>2. CASE requests[r].process # p
        BY <1>1, <4>2, CaptureAssumption DEF Tried
      <4> QED BY <4>1, <4>2
    <3>3. Tried(p) \subseteq Request /\ Tried(p)' \subseteq Request BY DEF Tried
    <3> QED BY <3>1, <3>2, <3>3
  <2> QED BY <2>1, <2>2 DEF CaptureInvariant, OneAttempt
<1> QED BY <1>2, <1>3 DEF CaptureInvariant

LEMMA CaptureNext == TypeOK /\ CaptureInvariant /\ [Next]_cvars => CaptureInvariant'
<1> SUFFICES ASSUME TypeOK, CaptureInvariant, [Next]_cvars PROVE CaptureInvariant'
  OBVIOUS
<1>1. CASE UNCHANGED cvars
  BY <1>1 DEF cvars, CaptureInvariant, Untried, Linked, Logged, OneAttempt, Tried
<1>2. ASSUME NEW r \in Request, Refuse(r) PROVE CaptureInvariant'
  <2>1. CASE Process = {}
    <3>1. \A q \in Process : Tried(q)' = Tried(q) /\ collectors'[q].done = collectors[q].done
      BY <2>1
    <3>2. Elsewhere(r) /\ lost' = lost /\ output' = output
      BY <1>2 DEF Refuse, Elsewhere, files, names, faults
    <3>3. Untried(r) /\ Linked(r) /\ Logged(r) BY DEF CaptureInvariant
    <3>4. Untried(r)' /\ Linked(r)' /\ Logged(r)'
      BY <1>2, <3>3 DEF Refuse, files, names, faults, TypeOK, RequestState, Untried, Linked, Logged
    <3> QED BY <3>1, <3>2, <3>4, AttemptsSame, OneRequest
  <2>2. CASE Process # {}
    BY <1>2, <2>2, RequestStep
  <2> QED BY <2>1, <2>2
<1>3. ASSUME NEW r \in Request, NEW p \in Process, Accept(r, p) PROVE CaptureInvariant'
  BY <1>3, RequestStep
<1>4. ASSUME NEW r \in Request, Enter(r) PROVE CaptureInvariant'
  BY <1>4, RequestStep, AttemptStep DEF Enter
<1>5. ASSUME NEW r \in Request, Settle(r) \/ Cancel(r) PROVE CaptureInvariant'
  BY <1>5, EndStep
<1>6. ASSUME NEW r \in Request, Publish(r) PROVE CaptureInvariant'
  BY <1>6, PublishStep
<1>7. ASSUME NEW p \in Process, Expire(p) PROVE CaptureInvariant'
  BY <1>7, ExpireStep
<1>8. ASSUME NEW p \in Process, Restart(p) PROVE CaptureInvariant'
  BY <1>8, StoppedStep DEF Restart, files, names
<1>9. CASE PowerLoss
  <2>1. \A r \in Request : content[r] = "durable" => content'[r] = "durable"
    BY <1>9 DEF PowerLoss
  <2>2. /\ unsure' = {} /\ lost \subseteq lost'
        /\ \A r \in Request : r \in temporaries' => r \in temporaries \/ r \in unsure \cap lost'
        /\ output' = output \/ (output' = "nobody" /\ "output" \in lost')
    BY <1>9 DEF PowerLoss
  <2>3. Stopped(Process) BY <1>9 DEF PowerLoss
  <2> QED BY <2>1, <2>2, <2>3, StoppedStep
<1> QED BY <1>1, <1>2, <1>3, <1>4, <1>5, <1>6, <1>7, <1>8, <1>9 DEF Next

\* However often processes stop and the power fails, and whatever changes of the directory a
\* loss of power undoes, the path names a whole file, a process makes one attempt, and the
\* outcomes tell the truth.
THEOREM CaptureCorrect == Spec => [](PublishedComplete /\ OneAttempt /\ OutcomesTruthful)
<1>1. Init => TypeOK
  <2>1. NewCollector \in Collector BY DEF NewCollector, Collector
  <2>2. NewRequest \in RequestState BY DEF NewRequest, RequestState, Outcome
  <2>3. NewThread \in ThreadState
    BY DEF NewThread, ThreadState, Outcome, Unpublished, Finished
  <2>4. 0 \in Nat OBVIOUS
  <2> QED BY <2>1, <2>2, <2>3, <2>4, Zenon DEF Init, TypeOK
<1>2. TypeOK /\ CaptureInvariant => PublishedComplete /\ OneAttempt /\ OutcomesTruthful
  BY DEF TypeOK, CaptureInvariant, Untried, Linked, Logged, PublishedComplete, OutcomesTruthful,
         Unpublished, ThreadState, RequestState
<1> QED BY <1>1, <1>2, CaptureType, CaptureInit, CaptureNext, PTL DEF Spec

\* The path only ever names what an accepted Inform of the selected CPE wrote whole; and a
\* temporary file stays only behind a thread that was stopped or failed to unlink it, or is
\* back because a loss of power undid the unlink.
THEOREM PublishedCorrect == Spec => []PublishedComplete
BY CaptureCorrect, PTL

\* No request logs that it saved what another one did, or that it saved nothing when it did,
\* as long as no loss of power has undone the link of a published file.
THEOREM OutcomesCorrect == Spec => []OutcomesTruthful
BY CaptureCorrect, PTL
=============================================================================
