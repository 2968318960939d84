---------------------------- MODULE Verification ----------------------------
(***************************************************************************)
(* PostgresAuthenticator: the password verifications of one process, each  *)
(* holding one of a few slots while its account is read and a worker       *)
(* thread derives the key, beside the commands that change the accounts.   *)
(*                                                                         *)
(* A call suspends where the code awaits: for a slot (at most one second), *)
(* for the database, for the thread.  It may be cancelled at each of these *)
(* points, and everybody else runs in between.                             *)
(***************************************************************************)
EXTENDS Naturals, FiniteSets

CONSTANTS
  Request,     \* calls of authenticate
  User,        \* user names of one kind of account
  Secret,      \* passwords
  Slots,       \* the initial value of the semaphore: 4
  Workers,     \* the threads of the default executor
  MaxCancels   \* bound: how often a call may be cancelled

ASSUME SlotAssumption ==
  IsFiniteSet(Request) /\ Slots \in Nat \ {0} /\ Workers \in Nat \ {0} /\ MaxCancels \in Nat

VARIABLES
  accounts,   \* the auth_accounts row of each user
  free,       \* the value of the semaphore
  calls,      \* where each call is, and what it carries
  threads     \* the derivation each call has given to the executor
vvars == <<accounts, free, calls, threads>>

NoSecret == "no_secret"
NoAccount == [state |-> "absent", secret |-> NoSecret]

\* A call is justified once its credentials were those of an enabled account at some
\* moment since it arrived.  The code has no such field: it states a property.
NewCall == [step |-> "new", user |-> "nobody", secret |-> NoSecret, account |-> NoAccount,
            ticket |-> 0, cancels |-> 0, justified |-> FALSE]

Init ==
  /\ accounts = [u \in User |-> NoAccount]
  /\ free = Slots
  /\ calls = [r \in Request |-> NewCall]
  /\ threads = [r \in Request |-> "none"]

In(steps) == {r \in Request : calls[r].step \in steps}
Held == {"granted", "reading", "verifying", "draining"}
Ended == {"accepted", "failed", "busy", "unavailable", "cancelled"}

Grants(account, secret) == account.state = "enabled" /\ account.secret = secret

----------------------------------------------------------------------------
(* The semaphore of asyncio, as of Python 3.13.                            *)

\* locked(): a newcomer waits behind those who wait, even if a slot is on its way to them.
Locked == free = 0 \/ In({"waiting", "granted"}) # {}

\* The n calls that have waited longest are woken, with a slot each.
Longest(W, rest, n) ==
  /\ Cardinality(W) = IF n < Cardinality(rest) THEN n ELSE Cardinality(rest)
  /\ \A w \in W, v \in rest \ W : calls[w].ticket < calls[v].ticket

Granted(w) == [calls[w] EXCEPT !.step = "granted", !.ticket = 0]

\* Call r becomes `call` and leaves `value` slots, of which up to n are handed over.
HandOver(r, call, value, n) ==
  LET rest == In({"waiting"}) \ {r}
  IN \E W \in SUBSET rest :
       /\ Longest(W, rest, n)
       /\ free' = value - Cardinality(W)
       /\ calls' = [q \in Request |->
            IF q = r THEN call ELSE IF q \in W THEN Granted(q) ELSE calls[q]]

\* What is left of a call that has ended.
Closed(r, step) == [NewCall EXCEPT !.step = step, !.justified = calls[r].justified]

\* release() wakes one call that waits.
GiveBack(r, step) == HandOver(r, Closed(r, step), free + 1, 1)

\* acquire() wakes, however it ends, as many as there are slots: newcomers wait behind a
\* granted call even when a slot is free.
Leave(r, call, back) == HandOver(r, call, free + back, free + back)

----------------------------------------------------------------------------
(* authenticate.                                                           *)

Arrive(r, user, secret) ==
  /\ calls[r].step = "new"
  /\ calls' = [calls EXCEPT ![r] =
       [@ EXCEPT !.step = IF Locked THEN "waiting" ELSE "reading",
                 !.user = user, !.secret = secret,
                 !.ticket = IF Locked THEN Cardinality(Request \ In({"new"})) ELSE 0,
                 !.justified = Grants(accounts[user], secret)]]
  /\ free' = IF Locked THEN free ELSE free - 1
  /\ UNCHANGED <<accounts, threads>>

Resume(r) ==
  /\ calls[r].step = "granted"
  /\ Leave(r, [calls[r] EXCEPT !.step = "reading"], 0)
  /\ UNCHANGED <<accounts, threads>>

\* acquire() is abandoned: a slot granted in the meantime goes to the next who waits.
Abandon(r, step) ==
  \/ calls[r].step = "waiting" /\ Leave(r, Closed(r, step), 0)
  \/ calls[r].step = "granted" /\ Leave(r, Closed(r, step), 1)

\* The second is over.
TimeOut(r) == Abandon(r, "busy") /\ UNCHANGED <<accounts, threads>>

\* The account is read, then the derivation begins, for an unknown account too.
Read(r) ==
  /\ calls[r].step = "reading"
  /\ calls' = [calls EXCEPT ![r] = [@ EXCEPT !.step = "verifying", !.account = accounts[calls[r].user]]]
  /\ threads' = [threads EXCEPT ![r] = "queued"]
  /\ UNCHANGED <<accounts, free>>

Mutant_StoreFailsKeeping(r) ==
  /\ calls[r].step = "reading"
  /\ calls' = [calls EXCEPT ![r] = Closed(r, "unavailable")]
  /\ UNCHANGED <<accounts, free, threads>>
StoreFails(r) ==
  /\ calls[r].step = "reading"
  /\ GiveBack(r, "unavailable")
  /\ UNCHANGED <<accounts, threads>>

Mutant_AcceptsDisabled(call) == call.account.secret = call.secret
Accepts(call) == call.account.secret = call.secret /\ call.account.state = "enabled"

Verdict(r) ==
  /\ calls[r].step = "verifying" /\ threads[r] = "done"
  /\ GiveBack(r, IF Accepts(calls[r]) THEN "accepted" ELSE "failed")
  /\ UNCHANGED <<accounts, threads>>

\* A cancelled call that verifies waits for its thread, shielded, and keeps its slot.
Drained(r) ==
  /\ calls[r].step = "draining" /\ threads[r] = "done"
  /\ GiveBack(r, "cancelled")
  /\ UNCHANGED <<accounts, threads>>

CancelWaiting(r) ==
  /\ \/ Abandon(r, "cancelled")
     \/ calls[r].step = "reading" /\ GiveBack(r, "cancelled")
  /\ UNCHANGED <<accounts, threads>>

Mutant_CancelUnshielded(r) ==
  /\ calls[r].step = "verifying"
  /\ GiveBack(r, "cancelled")
  /\ UNCHANGED <<accounts, threads>>
CancelVerifying(r) ==
  /\ calls[r].step = "verifying"
  /\ calls' = [calls EXCEPT ![r] = [@ EXCEPT !.step = "draining", !.cancels = calls[r].cancels + 1]]
  /\ UNCHANGED <<accounts, free, threads>>

\* Cancelled while it waits for its thread: the task ends, a thread that runs does not.
CancelDraining(r) ==
  /\ calls[r].step = "draining" /\ threads[r] # "done"
  /\ GiveBack(r, "cancelled")
  /\ threads' = [threads EXCEPT ![r] = IF @ = "queued" THEN "done" ELSE @]
  /\ UNCHANGED accounts

Cancel(r) ==
  /\ calls[r].cancels < MaxCancels
  /\ CancelWaiting(r) \/ CancelVerifying(r) \/ CancelDraining(r)

----------------------------------------------------------------------------
(* The executor: a thread derives the key, and ends whatever its call does. *)

Running == {r \in Request : threads[r] = "running"}

StartThread(r) ==
  /\ threads[r] = "queued" /\ Cardinality(Running) < Workers
  /\ threads' = [threads EXCEPT ![r] = "running"]
  /\ UNCHANGED <<accounts, free, calls>>

EndThread(r) ==
  /\ threads[r] = "running"
  /\ threads' = [threads EXCEPT ![r] = "done"]
  /\ UNCHANGED <<accounts, free, calls>>

----------------------------------------------------------------------------
(* acs-account and the temporary routes of CPE accounts.                   *)

Store(u, account) ==
  /\ accounts' = [accounts EXCEPT ![u] = account]
  /\ calls' = [r \in Request |->
       IF calls[r].user = u /\ Grants(account, calls[r].secret)
       THEN [calls[r] EXCEPT !.justified = TRUE] ELSE calls[r]]
  /\ UNCHANGED <<free, threads>>

CreateAccount(u, secret) ==
  accounts[u].state = "absent" /\ Store(u, [state |-> "enabled", secret |-> secret])

\* A new password does not enable an account that was disabled.
RotateAccount(u, secret) ==
  accounts[u].state # "absent" /\ Store(u, [accounts[u] EXCEPT !.secret = secret])

DisableAccount(u) ==
  accounts[u].state # "absent" /\ Store(u, [accounts[u] EXCEPT !.state = "disabled"])

DeleteAccount(u) == accounts[u].state # "absent" /\ Store(u, NoAccount)

----------------------------------------------------------------------------
Authenticate(r) ==
  \/ \E user \in User, secret \in Secret : Arrive(r, user, secret)
  \/ Resume(r) \/ TimeOut(r) \/ Read(r) \/ StoreFails(r) \/ Verdict(r) \/ Drained(r) \/ Cancel(r)

Execute(r) == StartThread(r) \/ EndThread(r)

Manage ==
  \E u \in User :
    \/ \E secret \in Secret : CreateAccount(u, secret) \/ RotateAccount(u, secret)
    \/ DisableAccount(u) \/ DeleteAccount(u)

Next == (\E r \in Request : Authenticate(r) \/ Execute(r)) \/ Manage

Spec == Init /\ [][Next]_vvars

\* The event loop runs what is ready, the executor runs what it is given, and the database
\* answers or fails.  Nothing is assumed of the timer: the slots come back without it.
Fairness ==
  \A r \in Request :
    /\ WF_vvars(Resume(r)) /\ WF_vvars(Read(r) \/ StoreFails(r))
    /\ WF_vvars(Verdict(r)) /\ WF_vvars(Drained(r))
    /\ WF_vvars(StartThread(r)) /\ WF_vvars(EndThread(r))
FairSpec == Spec /\ Fairness

----------------------------------------------------------------------------
Account == [state : {"absent", "enabled", "disabled"}, secret : Secret \cup {NoSecret}]
Call == [step : {"new", "waiting"} \cup Held \cup Ended, user : User \cup {"nobody"},
         secret : Secret \cup {NoSecret}, account : Account, ticket : Nat, cancels : Nat,
         justified : BOOLEAN]

\* The shape of the variables.
TypeOK ==
  /\ accounts \in [User -> Account]
  /\ free \in Nat
  /\ calls \in [Request -> Call]
  /\ threads \in [Request -> {"none", "queued", "running", "done"}]

\* No slot is lost or made: whatever way a call ends, timed out, cancelled, refused or
\* without a database, its slot is free again or in the hands of another.
SlotsConserved == free + Cardinality(In(Held)) = Slots

\* At most Slots derivations are queued or running (AUTHENTICATION.md:21-23), although a
\* cancelled request leaves its thread behind.
BoundedVerifications ==
  Cardinality({r \in Request : threads[r] \in {"queued", "running"}}) <= Slots

\* A call is accepted only on credentials that an enabled account had while it ran: a
\* disabled or changed account is refused from the next request on (AUTHENTICATION.md:52-53).
AcceptedWasValid == \A r \in In({"accepted"}) : calls[r].justified

\* Every call ends, and none waits for a slot that never comes back.
EveryCallEnds == \A r \in Request : calls[r].step # "new" ~> calls[r].step \in Ended
=============================================================================
