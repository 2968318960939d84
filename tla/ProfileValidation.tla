------------------------- MODULE ProfileValidation -------------------------
(***************************************************************************)
(* The approval of a draft profile, over the read queue of its CPE.        *)
(*                                                                         *)
(* A call of ProfileValidationRepository is several transactions: it looks *)
(* at the CPE, queues a read, and records or grants in another, and the    *)
(* calls of other administrators, the answers and the Informs of the CPE   *)
(* commit in between.  Each action is one transaction of one call; calls   *)
(* remembers what the call carries from one to the next.  A status is read *)
(* in one step: what an approval decides on it is checked again under the  *)
(* lock of the CPE.                                                        *)
(***************************************************************************)
EXTENDS ReadQueueProps

CONSTANTS
  Caller,      \* concurrent calls of administrators
  Draft,       \* IDENTITY: the manufacturer, model and firmware of the draft
  Model,       \* the leaf that feeds the model of the CPE
  DraftNames   \* NAMES: the leaves a validation reads, Firmware among them

ASSUME DraftAssumption ==
  /\ Model \in Readable
  /\ DraftNames \subseteq Readable /\ Firmware \in DraftNames
  /\ Draft \in [{Manufacturer, Model, Firmware} -> Value]

VARIABLE calls   \* where each call is, and what it carries
pvars == <<vars, calls>>

Idling == [step |-> "idle", key |-> NoKey, op |-> NoOp]
ValidationInit == Init /\ calls = [c \in Caller |-> Idling]

DraftAsk == [kind |-> "values", path |-> NoPath, names |-> DraftNames]

At(c, step) == calls[c].step = step
Go(c, step, key, op) == calls' = [calls EXCEPT ![c] = [step |-> step, key |-> key, op |-> op]]

Matches(d) == \A a \in {Manufacturer, Firmware} : d.cpe[a] = Draft[a]
Recorded(d) == d.approval.op # NoOp

----------------------------------------------------------------------------
(* status: what the rows say of the approval.                              *)

\* The required fields are valid: the model registered, the others as the operation of
\* the approval observed them.
Mutant_ValidAnswered(d) ==
  /\ d.ops[d.approval.op].state \in Answered /\ d.cpe[Model] = Draft[Model]
Valid(d) ==
  /\ d.ops[d.approval.op].state = "succeeded"
  /\ d.cpe[Model] = Draft[Model]
  /\ \A p \in DraftNames : d.values[p].op = d.approval.op
  /\ d.values[Firmware].value = Draft[Firmware]

Effective(d) ==
  CASE ~ Matches(d) \/ d.approval.expected # Draft[Firmware] -> "needs_revalidation"
    [] OTHER -> CASE Valid(d) -> IF d.approval.approved THEN "approved" ELSE "validated"
                  [] OTHER -> IF d.ops[d.approval.op].state \in Waiting THEN "validating"
                                                                       ELSE "invalid"

\* status ends every call of start and approve, and expires what is overdue.
Status(c, now) ==
  /\ At(c, "status") /\ Recorded(db)
  /\ db' = Expire(db, now)
  /\ calls' = [calls EXCEPT ![c] = Idling]
  /\ UNCHANGED clock

----------------------------------------------------------------------------
(* start.                                                                  *)

StartIdentity(c, key) ==
  /\ At(c, "idle") /\ Matches(db)
  /\ Go(c, "lookup", key, NoOp)
  /\ UNCHANGED vars

StartLookup(c) ==
  /\ At(c, "lookup")
  /\ Go(c, IF Recorded(db) /\ db.approval.key = calls[c].key THEN "status" ELSE "create",
        calls[c].key, NoOp)
  /\ UNCHANGED vars

\* The call to the queue, which commits before the approval is touched.
StartCreate(c, id, now) ==
  /\ At(c, "create")
  /\ \/ CreateQuery(calls[c].key, DraftAsk, id, now) /\ Go(c, "record", calls[c].key, id)
     \/ /\ RepeatCreate(calls[c].key, DraftAsk, now)
        /\ \E o \in OpId : db.ops[o].key = calls[c].key /\ Go(c, "record", calls[c].key, o)

StartRecord(c) ==
  /\ At(c, "record")
  /\ db' = [db EXCEPT !.approval =
              IF @.op = calls[c].op THEN @
              ELSE [op |-> calls[c].op, key |-> calls[c].key, expected |-> Draft[Firmware],
                    approved |-> FALSE]]
  /\ Go(c, "status", calls[c].key, calls[c].op)
  /\ UNCHANGED clock

----------------------------------------------------------------------------
(* approve and collect.                                                    *)

ApproveCheck(c, now) ==
  LET d == Expire(db, now)
  IN /\ At(c, "idle") /\ Recorded(db)
     /\ Effective(d) \in {"validated", "approved"}
     /\ db' = d
     /\ Go(c, "grant", NoKey, d.approval.op)
     /\ UNCHANGED clock

\* What the status said may have changed: identity, firmware and operation are compared
\* again under the locks of the CPE and of the approval.
Mutant_GrantAnyOperation(c, approval) == approval.expected = Draft[Firmware]
Grantable(c, approval) == approval.expected = Draft[Firmware] /\ approval.op = calls[c].op

Mutant_GrantUnchecked(c) ==
  /\ At(c, "grant")
  /\ db' = [db EXCEPT !.approval.approved = TRUE]
  /\ Go(c, "status", NoKey, calls[c].op)
  /\ UNCHANGED clock
ApproveGrant(c) ==
  /\ At(c, "grant") /\ Recorded(db) /\ Matches(db) /\ Grantable(c, db.approval)
  /\ db' = [db EXCEPT !.approval.approved = TRUE]
  /\ Go(c, "status", NoKey, calls[c].op)
  /\ UNCHANGED clock

CollectCheck(c, key, now) ==
  LET d == Expire(db, now)
  IN /\ At(c, "idle") /\ Recorded(db)
     /\ Effective(d) = "approved"
     /\ db' = d
     /\ Go(c, "collect", key, NoOp)
     /\ UNCHANGED clock

CollectCreate(c, id, now) ==
  /\ At(c, "collect")
  /\ CreateQuery(calls[c].key, DraftAsk, id, now) \/ RepeatCreate(calls[c].key, DraftAsk, now)
  /\ calls' = [calls EXCEPT ![c] = Idling]

\* A call ends early: refused with a conflict, cancelled, or without its database.
Abandon(c) ==
  /\ ~ At(c, "idle")
  /\ calls' = [calls EXCEPT ![c] = Idling]
  /\ UNCHANGED vars

----------------------------------------------------------------------------
Validate(c) ==
  \/ \E key \in Key : StartIdentity(c, key)
  \/ StartLookup(c) \/ StartRecord(c) \/ ApproveGrant(c) \/ Abandon(c)
  \/ \E now \in Times :
       \/ Status(c, now) \/ ApproveCheck(c, now)
       \/ \E key \in Key : CollectCheck(c, key, now)
       \/ \E id \in NextId : StartCreate(c, id, now) \/ CollectCreate(c, id, now)

ValidationNext == (Next /\ UNCHANGED calls) \/ \E c \in Caller : Validate(c)
ValidationSpec == ValidationInit /\ [][ValidationNext]_pvars

----------------------------------------------------------------------------
(* What an approval promises.                                              *)

\* An approval is granted on evidence: the operation it names is a read of the draft's
\* leaves, it succeeded, and it reported the firmware of the draft, although the status
\* that said so was read in an earlier transaction.
GrantedOnEvidence ==
  db.approval.approved =>
    LET op == db.ops[db.approval.op]
    IN /\ op.state = "succeeded" /\ op.ask = DraftAsk /\ op.key = db.approval.key
       /\ op.result[Firmware] = Draft[Firmware]

\* An approval holds only while the registered firmware is the approved one, whatever
\* Informs and answers commit between the steps of start and approve.
ApprovedMatchesFirmware ==
  db.approval.approved =>
    db.approval.expected = Draft[Firmware] /\ db.cpe[Firmware] = Draft[Firmware]

\* A new validation withdraws the approval of the previous one: no approval passes from
\* one operation to another, and none appears without its operation having been validated.
ApprovalStaysWithOperation ==
  [][db'.approval.approved =>
       /\ db.approval.op = db'.approval.op
       /\ db.ops[db.approval.op].state = "succeeded"]_pvars

----------------------------------------------------------------------------
(* What the documentation says and the code does not do.                   *)

\* PROFILE_VALIDATION.md:42-43: only a new validation operation clears the signal that a
\* change of firmware set.  Operations are numbered in the order of their creation.
OnlyNewOperationClears ==
  [][(Recorded(db) /\ db.approval.expected = Revalidate /\ db'.approval.expected # Revalidate) =>
       db'.approval.op > db.approval.op]_pvars

\* PROFILE_VALIDATION.md:36-45: an approval ends with a new validation or a change of
\* firmware or identity; the collections it permits do not end it.
ApprovalLasts ==
  db.approval.approved => Effective(db) \in {"approved", "needs_revalidation"}
=============================================================================
