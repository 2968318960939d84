--------------------------- MODULE InformCapture ---------------------------
(***************************************************************************)
(* FileInformCapture behind InformService.receive: the receivers, each a   *)
(* process with a collector of its own, that keep the first Inform of one  *)
(* CPE in one file.                                                        *)
(*                                                                         *)
(* A coroutine holds the lock of its collector while a thread publishes    *)
(* the file, system call by system call.  The request may be cancelled     *)
(* while the thread goes on, each call may fail, a process may stop        *)
(* anywhere and start again, and the machine may lose its power.           *)
(***************************************************************************)
EXTENDS Naturals, FiniteSets

CONSTANTS
  Process,    \* receivers that share the output path
  Request,    \* requests that carry an Inform
  Selected,   \* those of the CPE the collection is for
  MaxStops    \* bound: how often a process stops or the power fails

ASSUME CaptureAssumption ==
  /\ Selected \subseteq Request /\ MaxStops \in Nat
  /\ "nobody" \notin Request \cup Process /\ {"foreign", "output"} \cap Request = {}

VARIABLES
  collectors,   \* done and the deadline of each process
  requests,     \* where each request is, its process and the outcome it logged
  threads,      \* the publication each request has given to a thread
  content,      \* what the temporary file of each request holds
  temporaries,  \* the requests whose temporary file has a name
  output,       \* whose content the output path names
  unsure,       \* the names whose last change the disk may not have: temporaries, "output"
  stops,        \* how often something stopped
  lost          \* history: the names whose last change a loss of power undid
cvars == <<collectors, requests, threads, content, temporaries, output, unsure, stops, lost>>

NewCollector == [done |-> FALSE, late |-> FALSE]
NewRequest == [step |-> "new", process |-> "nobody", outcome |-> "none"]
NewThread == [step |-> "none", result |-> "none"]

\* The path may name a file of an earlier collection.
Init ==
  /\ collectors = [p \in Process |-> NewCollector]
  /\ requests = [r \in Request |-> NewRequest]
  /\ threads = [r \in Request |-> NewThread]
  /\ content = [r \in Request |-> "none"]
  /\ temporaries = {} /\ output \in {"nobody", "foreign"}
  /\ unsure = {} /\ stops = 0 /\ lost = {}

names == <<temporaries, output, unsure>>
files == <<content, names>>
faults == <<stops, lost>>

----------------------------------------------------------------------------
(* receive and capture.                                                    *)

End(r, outcome) ==
  requests' = [requests EXCEPT ![r] = [@ EXCEPT !.step = "ended", !.outcome = outcome]]

\* The Inform is refused or cannot be stored: it never reaches the collector.
Refuse(r) ==
  /\ requests[r].step = "new"
  /\ requests' = [requests EXCEPT ![r].step = "refused"]
  /\ UNCHANGED <<collectors, threads, files, faults>>

Accept(r, p) ==
  /\ requests[r].step = "new"
  /\ requests' = [requests EXCEPT ![r] =
       [@ EXCEPT !.step = IF r \in Selected THEN "locking" ELSE "ended", !.process = p]]
  /\ UNCHANGED <<collectors, threads, files, faults>>

Locked(p) == \E r \in Request : requests[r].process = p /\ requests[r].step = "publishing"

Enters(r, p) == requests[r].step = "locking" /\ requests[r].process = p /\ ~ Locked(p)

EnterDone(r, p) ==
  /\ Enters(r, p) /\ collectors[p].done
  /\ End(r, "none")
  /\ UNCHANGED <<collectors, threads, files, faults>>

\* The only attempt begins, whatever becomes of it.
Mutant_AttemptUnmarked(p) == UNCHANGED collectors
Attempt(p) == collectors' = [collectors EXCEPT ![p].done = TRUE]

EnterLate(r, p) ==
  /\ Enters(r, p) /\ ~ collectors[p].done /\ collectors[p].late
  /\ Attempt(p) /\ End(r, "expired")
  /\ UNCHANGED <<threads, files, faults>>

\* The Inform cannot be serialized.
EnterUnserializable(r, p) ==
  /\ Enters(r, p) /\ ~ collectors[p].done /\ ~ collectors[p].late
  /\ Attempt(p) /\ End(r, "failed")
  /\ UNCHANGED <<threads, files, faults>>

EnterPublish(r, p) ==
  /\ Enters(r, p) /\ ~ collectors[p].done /\ ~ collectors[p].late
  /\ Attempt(p)
  /\ requests' = [requests EXCEPT ![r].step = "publishing"]
  /\ threads' = [threads EXCEPT ![r].step = "create"]
  /\ UNCHANGED <<files, faults>>

Enter(r) ==
  \E p \in Process :
    EnterDone(r, p) \/ EnterLate(r, p) \/ EnterUnserializable(r, p) \/ EnterPublish(r, p)

Finished == {"done", "left"}

Settle(r) ==
  /\ requests[r].step = "publishing" /\ threads[r].step \in Finished
  /\ End(r, threads[r].result)
  /\ UNCHANGED <<collectors, threads, files, faults>>

\* A cancelled request logs nothing and leaves its thread behind, unless that has not started.
Cancel(r) ==
  /\ requests[r].step \in {"locking", "publishing"}
  /\ End(r, "none")
  /\ \/ UNCHANGED threads
     \/ /\ threads[r].step = "create"
        /\ threads' = [threads EXCEPT ![r].step = "done"]
  /\ UNCHANGED <<collectors, files, faults>>

Expire(p) ==
  /\ ~ collectors[p].late
  /\ collectors' = [collectors EXCEPT ![p].late = TRUE]
  /\ UNCHANGED <<requests, threads, files, faults>>

----------------------------------------------------------------------------
(* _publish, in its thread: the calls that succeed, and the one that fails. *)

Moves(r, from, to, result) ==
  /\ threads[r].step = from
  /\ threads' = [threads EXCEPT ![r] = [step |-> to, result |-> result]]
  /\ UNCHANGED <<collectors, requests, faults>>

CreateTemporary(r) ==
  /\ Moves(r, "create", "write", "none")
  /\ content' = [content EXCEPT ![r] = "partial"]
  /\ temporaries' = temporaries \cup {r} /\ unsure' = unsure \cup {r}
  /\ UNCHANGED output

WriteTemporary(r) ==
  /\ Moves(r, "write", "sync", "none")
  /\ content' = [content EXCEPT ![r] = "cached"]
  /\ UNCHANGED names

Mutant_SyncNothing(r) == Moves(r, "sync", "link", "none") /\ UNCHANGED files
SyncTemporary(r) ==
  /\ Moves(r, "sync", "link", "none")
  /\ content' = [content EXCEPT ![r] = "durable"]
  /\ UNCHANGED names

\* A link never replaces: neither a file, nor a symbolic link.
Mutant_LinkReplaces(r) ==
  /\ Moves(r, "link", "unlink", "saved") /\ output' = r /\ unsure' = unsure \cup {"output"}
  /\ UNCHANGED <<content, temporaries>>
LinkOutput(r) ==
  /\ \/ /\ output = "nobody" /\ output' = r /\ unsure' = unsure \cup {"output"}
        /\ Moves(r, "link", "unlink", "saved")
     \/ /\ output # "nobody" /\ UNCHANGED <<output, unsure>>
        /\ Moves(r, "link", "unlink", "already_exists")
  /\ UNCHANGED <<content, temporaries>>

Unlink(r) ==
  /\ Moves(r, "unlink", "done", threads[r].result)
  /\ temporaries' = temporaries \ {r} /\ unsure' = unsure \cup {r}
  /\ UNCHANGED <<content, output>>

FailPublish(r) ==
  /\ \/ Moves(r, "create", "done", "failed")
     \/ \E from \in {"write", "sync", "link"} : Moves(r, from, "unlink", "failed")
     \/ Moves(r, "unlink", "left", "failed")
  /\ UNCHANGED files

Publish(r) ==
  CreateTemporary(r) \/ WriteTemporary(r) \/ SyncTemporary(r) \/ LinkOutput(r) \/ Unlink(r)
    \/ FailPublish(r)

----------------------------------------------------------------------------
(* Processes stop and start again; what was not synchronized may be lost.  *)

Stopped(P) ==
  LET gone == {r \in Request : requests[r].process \in P}
  IN /\ stops < MaxStops /\ stops' = stops + 1
     /\ collectors' = [p \in Process |-> IF p \in P THEN NewCollector ELSE collectors[p]]
     /\ requests' = [r \in Request |->
          IF r \in gone THEN [step |-> "ended", process |-> "nobody", outcome |-> requests[r].outcome]
          ELSE requests[r]]
     /\ threads' = [r \in Request |->
          IF r \in gone /\ threads[r].step \notin {"none", "done"}
          THEN [threads[r] EXCEPT !.step = "left"] ELSE threads[r]]

Restart(p) == Stopped({p}) /\ UNCHANGED <<files, lost>>

\* The directory is never synchronized: a name that was created may vanish, one that was
\* removed may be back.  What is there after a loss of power is on the disk.
PowerLoss ==
  /\ Stopped(Process)
  /\ \E kept \in SUBSET {r \in Request : content[r] = "cached"} :
       content' = [r \in Request |->
         IF content[r] = "cached" /\ r \notin kept THEN "partial" ELSE content[r]]
  /\ \E undone \in SUBSET unsure :
       /\ temporaries' = (temporaries \ undone) \cup ((undone \cap Request) \ temporaries)
       /\ output' = IF "output" \in undone THEN "nobody" ELSE output
       /\ lost' = lost \cup undone
  /\ unsure' = {}

----------------------------------------------------------------------------
Next ==
  \/ \E r \in Request :
       \/ Refuse(r) \/ (\E p \in Process : Accept(r, p)) \/ Enter(r)
       \/ Settle(r) \/ Cancel(r) \/ Publish(r)
  \/ \E p \in Process : Expire(p) \/ Restart(p)
  \/ PowerLoss

Spec == Init /\ [][Next]_cvars

----------------------------------------------------------------------------
Outcome == {"none", "saved", "already_exists", "expired", "failed"}
Unpublished == {"none", "create", "write", "sync", "link"}

Collector == [done : BOOLEAN, late : BOOLEAN]
RequestState == [step : {"new", "refused", "locking", "publishing", "ended"},
                 process : Process \cup {"nobody"}, outcome : Outcome]
ThreadState == [step : Unpublished \cup {"unlink"} \cup Finished, result : Outcome]

\* The shape of the variables.
TypeOK ==
  /\ collectors \in [Process -> Collector]
  /\ requests \in [Request -> RequestState]
  /\ threads \in [Request -> ThreadState]
  /\ content \in [Request -> {"none", "partial", "cached", "durable"}]
  /\ temporaries \in SUBSET Request
  /\ output \in Request \cup {"nobody", "foreign"}
  /\ unsure \in SUBSET (Request \cup {"output"})
  /\ stops \in Nat /\ lost \in SUBSET (Request \cup {"output"})

\* What the path names was written whole and synchronized by an accepted Inform of the
\* selected CPE, also when the process stops or the power fails in the middle; and a
\* temporary file outlives its thread only where that was stopped, or could not unlink it,
\* or where a loss of power undid the unlink.
PublishedComplete ==
  /\ output \in Request =>
       /\ output \in Selected /\ content[output] = "durable"
       /\ requests[output].step \notin {"new", "refused"}
  /\ \A r \in temporaries : threads[r].step # "done" \/ r \in lost

\* A process makes one attempt, however its requests are cancelled (INFORM_CAPTURE.md:13-14:
\* after one attempt for the selected CPE the collection ends; other CPEs do not use it up).
Tried(p) ==
  {r \in Request : /\ requests[r].process = p
                   /\ threads[r].step # "none" \/ requests[r].outcome # "none"}
OneAttempt ==
  \A p \in Process :
    /\ \A r, t \in Tried(p) : r = t
    /\ Tried(p) \subseteq Selected /\ (collectors[p].done <=> Tried(p) # {})

\* The logged outcomes tell the truth about the path (INFORM_CAPTURE.md:74-79): saved is said
\* of the file that is there, by one process at most, and it is never replaced by another,
\* unless a loss of power took back the name of a published file;
\* the outcomes that say that nothing new was saved are said of requests that saved nothing.
OutcomesTruthful ==
  /\ "output" \in lost \/ \A r \in Request : requests[r].outcome = "saved" => output = r
  /\ \A r \in Request : requests[r].outcome \in {"already_exists", "expired"} => output # r
=============================================================================
