------------------------- MODULE VerificationProofs -------------------------
(***************************************************************************)
(* Password verification, for any number of calls, slots, threads and      *)
(* passwords: no slot is lost, every acceptance is justified and, if a     *)
(* call is cancelled once at most, no derivation runs without a slot.      *)
(***************************************************************************)
EXTENDS Verification, FiniteSetTheorems, TLAPS

\* A call that goes on names a user.  It is justified if the account it has read, or would
\* read now, grants its credentials, and if it is accepted.
Going == {"waiting"} \cup Held
HonestCall(call, table) ==
  /\ call.step \in Going =>
       /\ call.user \in User
       /\ Grants(table[call.user], call.secret) => call.justified
  /\ call.step \in {"verifying", "draining"} /\ Grants(call.account, call.secret) =>
       call.justified
  /\ call.step = "accepted" => call.justified
Honest == \A r \in Request : HonestCall(calls[r], accounts)

Sound == TypeOK /\ SlotsConserved /\ Honest

\* Calls are finitely many, so that those in the hands of a slot can be counted.
LEMMA HeldFinite == IsFiniteSet(In(Held)) /\ Cardinality(In(Held)) \in Nat
<1>1. In(Held) \subseteq Request
  BY DEF In
<1> QED
  BY <1>1, SlotAssumption, FS_Subset, FS_CardinalityType

\* A call that waits is a call when it is woken.
LEMMA GrantedType ==
  ASSUME TypeOK, NEW w \in Request
  PROVE  /\ Granted(w) \in Call /\ Granted(w).step = "granted"
         /\ Granted(w) = [calls[w] EXCEPT !.step = "granted", !.ticket = 0]
         /\ Granted(w).user = calls[w].user /\ Granted(w).secret = calls[w].secret
         /\ Granted(w).justified = calls[w].justified /\ Granted(w).cancels = calls[w].cancels
BY DEF TypeOK, Granted, Call, Held

\* A call that has ended is a call.
LEMMA ClosedType ==
  ASSUME TypeOK, NEW r \in Request, NEW step \in Ended
  PROVE  /\ Closed(r, step) \in Call /\ Closed(r, step).step = step
         /\ Closed(r, step).justified = calls[r].justified
BY DEF TypeOK, Closed, NewCall, Call, Account, NoAccount

\* What a hand-over does to each call.
LEMMA HandOverCalls ==
  ASSUME TypeOK, NEW r \in Request, NEW call \in Call, NEW value, NEW n,
         HandOver(r, call, value, n)
  PROVE  /\ calls' \in [Request -> Call] /\ calls'[r] = call
         /\ \A q \in Request \ {r} :
              \/ calls'[q] = calls[q]
              \/ calls[q].step = "waiting" /\ calls'[q] = Granted(q)
<1>1. PICK W \in SUBSET (In({"waiting"}) \ {r}) :
        calls' = [q \in Request |->
          IF q = r THEN call ELSE IF q \in W THEN Granted(q) ELSE calls[q]]
  BY DEF HandOver
<1>2. \A q \in W : q \in Request /\ calls[q].step = "waiting" /\ q # r
  BY <1>1 DEF In
<1>3. \A q \in Request : Granted(q) \in Call
  BY GrantedType
<1>4. \A q \in Request : calls[q] \in Call
  BY DEF TypeOK
<1> QED
  BY <1>1, <1>2, <1>3, <1>4

\* A hand-over keeps the account of the slots, if what it leaves is what call r leaves.
LEMMA HandOverConserves ==
  ASSUME TypeOK, NEW r \in Request, NEW call \in Call, call.step # "waiting",
         NEW value \in Nat, NEW n \in Nat, n <= value, HandOver(r, call, value, n),
         NEW kept, kept = IF call.step \in Held THEN In(Held) \cup {r} ELSE In(Held) \ {r},
         value + Cardinality(kept) = Slots
  PROVE  free' \in Nat /\ SlotsConserved'
<1> DEFINE rest == In({"waiting"}) \ {r}
<1>1. PICK W \in SUBSET rest :
        /\ Longest(W, rest, n)
        /\ free' = value - Cardinality(W)
        /\ calls' = [q \in Request |->
             IF q = r THEN call ELSE IF q \in W THEN Granted(q) ELSE calls[q]]
  BY DEF HandOver
<1>2. rest \subseteq Request /\ W \subseteq Request /\ kept \subseteq Request
  BY <1>1 DEF In
<1>3. IsFiniteSet(rest) /\ IsFiniteSet(W) /\ IsFiniteSet(kept)
  BY <1>2, SlotAssumption, FS_Subset
<1>4. Cardinality(rest) \in Nat /\ Cardinality(W) \in Nat /\ Cardinality(kept) \in Nat
  BY <1>3, FS_CardinalityType
<1>5. Cardinality(W) <= n
  BY <1>1, <1>4 DEF Longest
<1>6. free' \in Nat
  BY <1>1, <1>4, <1>5
<1>7. \A q \in W : q # r /\ calls[q].step = "waiting"
  BY <1>1 DEF In
<1>8. W \cap kept = {}
  BY <1>7 DEF In, Held
<1>9. \A q \in Request : Granted(q).step = "granted"
  BY GrantedType
<1>10. In(Held)' = kept \cup W
  BY <1>1, <1>2, <1>7, <1>9 DEF In, Held
<1> HIDE DEF rest
<1>11. Cardinality(kept \cup W) = Cardinality(kept) + Cardinality(W) - Cardinality(kept \cap W)
  BY <1>3, FS_Union
<1>12. Cardinality(kept \cap W) = 0
  BY <1>8, FS_EmptySet
<1>13. Cardinality(In(Held)') = Cardinality(kept) + Cardinality(W)
  BY <1>4, <1>10, <1>11, <1>12
<1>14. free' + Cardinality(In(Held)') = Slots
  BY <1>1, <1>4, <1>13
<1> QED
  BY <1>6, <1>14 DEF SlotsConserved

\* A hand-over of a sound call is sound.
LEMMA HandOverSound ==
  ASSUME Sound, NEW r \in Request, NEW call \in Call, call.step # "waiting",
         NEW value \in Nat, NEW n \in Nat, n <= value, HandOver(r, call, value, n),
         NEW kept, kept = IF call.step \in Held THEN In(Held) \cup {r} ELSE In(Held) \ {r},
         value + Cardinality(kept) = Slots,
         HonestCall(call, accounts), UNCHANGED accounts,
         threads' \in [Request -> {"none", "queued", "running", "done"}]
  PROVE  Sound'
<1>1. free' \in Nat /\ SlotsConserved'
  BY HandOverConserves DEF Sound
<1>2. /\ calls' \in [Request -> Call] /\ calls'[r] = call
      /\ \A q \in Request \ {r} :
           \/ calls'[q] = calls[q]
           \/ calls[q].step = "waiting" /\ calls'[q] = Granted(q)
  BY HandOverCalls DEF Sound
<1>3. TypeOK'
  BY <1>1, <1>2 DEF Sound, TypeOK
<1>4. ASSUME NEW q \in Request PROVE HonestCall(calls'[q], accounts)
  <2>1. CASE q = r \/ calls'[q] = calls[q]
    BY <1>2, <2>1 DEF Sound, Honest
  <2>2. CASE calls[q].step = "waiting" /\ calls'[q] = Granted(q)
    BY <2>2, GrantedType DEF Sound, Honest, HonestCall, Going, Held
  <2> QED
    BY <1>2, <2>1, <2>2
<1>5. Honest'
  BY <1>4 DEF Honest
<1> QED
  BY <1>1, <1>3, <1>5 DEF Sound

\* release(): a call that ends gives its slot back.
LEMMA GiveBackSound ==
  ASSUME Sound, NEW r \in Request, NEW step \in Ended, calls[r].step \in Held,
         GiveBack(r, step), UNCHANGED accounts,
         step = "accepted" => calls[r].justified,
         threads' \in [Request -> {"none", "queued", "running", "done"}]
  PROVE  Sound'
<1>1. /\ Closed(r, step) \in Call /\ Closed(r, step).step = step
      /\ Closed(r, step).justified = calls[r].justified
  BY ClosedType DEF Sound
<1>2. step # "waiting" /\ step \notin Held /\ step \notin Going /\ r \in In(Held)
  BY DEF Ended, Held, Going, In
<1>3. Cardinality(In(Held) \ {r}) = Cardinality(In(Held)) - 1
  BY <1>2, HeldFinite, FS_RemoveElement
<1>4. free \in Nat /\ free + Cardinality(In(Held)) = Slots
  BY DEF Sound, TypeOK, SlotsConserved
<1>5. (free + 1) + Cardinality(In(Held) \ {r}) = Slots
  BY <1>3, <1>4, HeldFinite
<1>6. HonestCall(Closed(r, step), accounts)
  BY <1>1, <1>2 DEF HonestCall, Going, Held, Ended
<1>7. free + 1 \in Nat /\ 1 \in Nat /\ 1 <= free + 1
  BY <1>4
<1>8. HandOver(r, Closed(r, step), free + 1, 1)
  BY DEF GiveBack
<1> QED
  BY <1>1, <1>2, <1>5, <1>6, <1>7, <1>8, HandOverSound

\* acquire() abandoned by a call that waits, or that was granted a slot.
LEMMA AbandonSound ==
  ASSUME Sound, NEW r \in Request, NEW step \in Ended, step # "accepted",
         Abandon(r, step), UNCHANGED <<accounts, threads>>
  PROVE  Sound'
<1>1. /\ Closed(r, step) \in Call /\ Closed(r, step).step = step
  BY ClosedType DEF Sound
<1>2. step # "waiting" /\ step \notin Held
  BY DEF Ended, Held
<1>3. HonestCall(Closed(r, step), accounts)
  BY <1>1 DEF HonestCall, Going, Held, Ended
<1>4. /\ free \in Nat /\ free + Cardinality(In(Held)) = Slots
      /\ threads' \in [Request -> {"none", "queued", "running", "done"}]
  BY DEF Sound, TypeOK, SlotsConserved
<1>5. CASE calls[r].step = "waiting" /\ Leave(r, Closed(r, step), 0)
  <2>1. In(Held) \ {r} = In(Held)
    BY <1>5 DEF In, Held
  <2>2. HandOver(r, Closed(r, step), free, free)
    BY <1>4, <1>5 DEF Leave
  <2> QED
    BY <1>1, <1>2, <1>3, <1>4, <2>1, <2>2, HandOverSound
<1>6. CASE calls[r].step = "granted" /\ Leave(r, Closed(r, step), 1)
  <2>1. r \in In(Held)
    BY <1>6 DEF In, Held
  <2>2. Cardinality(In(Held) \ {r}) = Cardinality(In(Held)) - 1
    BY <2>1, HeldFinite, FS_RemoveElement
  <2>3. (free + 1) + Cardinality(In(Held) \ {r}) = Slots /\ free + 1 \in Nat
    BY <1>4, <2>2, HeldFinite
  <2>4. HandOver(r, Closed(r, step), free + 1, free + 1)
    BY <1>6 DEF Leave
  <2> QED
    BY <1>1, <1>2, <1>3, <1>4, <2>3, <2>4, HandOverSound
<1> QED
  BY <1>5, <1>6 DEF Abandon

\* Where a step moves no call into or out of a slot, none is lost.
LEMMA StillConserves ==
  ASSUME SlotsConserved, UNCHANGED free,
         \A q \in Request : calls'[q].step \in Held <=> calls[q].step \in Held
  PROVE  SlotsConserved'
<1>1. In(Held)' = In(Held)
  BY DEF In
<1> QED
  BY <1>1 DEF SlotsConserved

\* A call that moves on keeps its slot, or has none before and after.
LEMMA MoveSound ==
  ASSUME Sound, NEW r \in Request, NEW call \in Call,
         calls' = [calls EXCEPT ![r] = call], UNCHANGED <<accounts, free>>,
         call.step \in Held <=> calls[r].step \in Held,
         threads' \in [Request -> {"none", "queued", "running", "done"}],
         HonestCall(call, accounts)
  PROVE  Sound'
<1>1. /\ calls' \in [Request -> Call] /\ calls'[r] = call
      /\ \A q \in Request \ {r} : calls'[q] = calls[q]
  BY DEF Sound, TypeOK
<1>2. SlotsConserved'
  BY <1>1, StillConserves DEF Sound
<1>3. TypeOK'
  BY <1>1 DEF Sound, TypeOK
<1>4. Honest'
  BY <1>1 DEF Sound, Honest
<1> QED
  BY <1>2, <1>3, <1>4 DEF Sound

LEMMA ArriveSound ==
  ASSUME Sound, NEW r \in Request, NEW user \in User, NEW secret \in Secret,
         Arrive(r, user, secret)
  PROVE  Sound'
<1> DEFINE ticket == IF Locked THEN Cardinality(Request \ In({"new"})) ELSE 0
           call == [calls[r] EXCEPT !.step = IF Locked THEN "waiting" ELSE "reading",
                      !.user = user, !.secret = secret, !.ticket = ticket,
                      !.justified = Grants(accounts[user], secret)]
<1>1. ticket \in Nat
  <2>1. IsFiniteSet(Request \ In({"new"}))
    BY SlotAssumption, FS_Subset
  <2> QED
    BY <2>1, FS_CardinalityType
<1>2. Grants(accounts[user], secret) \in BOOLEAN
  BY DEF Grants
<1>3. calls' = [calls EXCEPT ![r] = call] /\ calls[r].step = "new"
  BY DEF Arrive
<1> HIDE DEF ticket
<1>4. /\ call \in Call /\ call.step = (IF Locked THEN "waiting" ELSE "reading")
      /\ call.user = user /\ call.secret = secret
      /\ call.justified = Grants(accounts[user], secret)
  BY <1>1, <1>2 DEF Sound, TypeOK, Call, Held
<1> HIDE DEF call
<1>5. /\ calls' \in [Request -> Call] /\ calls'[r] = call
      /\ \A q \in Request \ {r} : calls'[q] = calls[q]
  BY <1>3, <1>4 DEF Sound, TypeOK
<1>6. HonestCall(call, accounts)
  BY <1>4 DEF HonestCall
<1>7. UNCHANGED <<accounts, threads>>
  BY DEF Arrive
<1>8. CASE Locked
  <2>1. UNCHANGED free /\ (call.step \in Held <=> calls[r].step \in Held)
    BY <1>3, <1>4, <1>8 DEF Arrive, Held
  <2> QED
    BY <1>3, <1>4, <1>6, <1>7, <2>1, MoveSound DEF Sound, TypeOK
<1>9. CASE ~ Locked
  <2>1. free' = free - 1 /\ free' \in Nat
    BY <1>9 DEF Arrive, Locked, Sound, TypeOK
  <2>2. In(Held)' = In(Held) \cup {r} /\ r \notin In(Held)
    BY <1>3, <1>4, <1>5, <1>9 DEF In, Held
  <2>3. Cardinality(In(Held) \cup {r}) = Cardinality(In(Held)) + 1
    BY <2>2, HeldFinite, FS_AddElement
  <2>4. SlotsConserved'
    BY <2>1, <2>2, <2>3, HeldFinite DEF SlotsConserved, Sound, TypeOK
  <2>5. Honest'
    BY <1>5, <1>6, <1>7 DEF Sound, Honest
  <2>6. TypeOK'
    BY <1>5, <1>7, <2>1 DEF Sound, TypeOK
  <2> QED
    BY <2>4, <2>5, <2>6 DEF Sound
<1> QED
  BY <1>8, <1>9

LEMMA ResumeSound ==
  ASSUME Sound, NEW r \in Request, Resume(r)
  PROVE  Sound'
<1> DEFINE call == [calls[r] EXCEPT !.step = "reading"]
<1>1. /\ call \in Call /\ call.step = "reading" /\ call.user = calls[r].user
      /\ call.secret = calls[r].secret /\ call.justified = calls[r].justified
  BY DEF Sound, TypeOK, Call, Held
<1>2. /\ calls[r].step = "granted" /\ Leave(r, call, 0) /\ UNCHANGED <<accounts, threads>>
  BY DEF Resume
<1> HIDE DEF call
<1>3. free \in Nat /\ free + Cardinality(In(Held)) = Slots
  BY DEF Sound, TypeOK, SlotsConserved
<1>4. HandOver(r, call, free, free)
  BY <1>2, <1>3 DEF Leave
<1>5. In(Held) \cup {r} = In(Held) /\ call.step # "waiting" /\ call.step \in Held
  BY <1>1, <1>2 DEF In, Held
<1>6. HonestCall(calls[r], accounts)
  BY DEF Sound, Honest
<1>7. HonestCall(call, accounts)
  BY <1>1, <1>2, <1>6 DEF HonestCall, Going, Held
<1>8. threads' \in [Request -> {"none", "queued", "running", "done"}]
  BY <1>2 DEF Sound, TypeOK
<1> QED
  BY <1>1, <1>2, <1>3, <1>4, <1>5, <1>7, <1>8, HandOverSound

LEMMA ReadSound ==
  ASSUME Sound, NEW r \in Request, Read(r)
  PROVE  Sound'
<1> DEFINE call == [calls[r] EXCEPT !.step = "verifying", !.account = accounts[calls[r].user]]
<1>1. /\ calls' = [calls EXCEPT ![r] = call] /\ calls[r].step = "reading"
      /\ threads' = [threads EXCEPT ![r] = "queued"] /\ UNCHANGED <<accounts, free>>
  BY DEF Read
<1>2. HonestCall(calls[r], accounts) /\ calls[r] \in Call
  BY DEF Sound, Honest, TypeOK
<1>3. calls[r].user \in User /\ accounts[calls[r].user] \in Account
  BY <1>1, <1>2 DEF HonestCall, Going, Held, Sound, TypeOK
<1>4. /\ call \in Call /\ call.step = "verifying" /\ call.user = calls[r].user
      /\ call.secret = calls[r].secret /\ call.justified = calls[r].justified
      /\ call.account = accounts[calls[r].user]
  BY <1>2, <1>3 DEF Call, Held
<1> HIDE DEF call
<1>5. HonestCall(call, accounts) /\ (call.step \in Held <=> calls[r].step \in Held)
  BY <1>1, <1>2, <1>4 DEF HonestCall, Going, Held
<1>6. threads' \in [Request -> {"none", "queued", "running", "done"}]
  BY <1>1 DEF Sound, TypeOK
<1> QED
  BY <1>1, <1>4, <1>5, <1>6, MoveSound

LEMMA CancelVerifyingSound ==
  ASSUME Sound, NEW r \in Request, CancelVerifying(r)
  PROVE  Sound'
<1> DEFINE call == [calls[r] EXCEPT !.step = "draining", !.cancels = calls[r].cancels + 1]
<1>1. calls' = [calls EXCEPT ![r] = call] /\ calls[r].step = "verifying"
      /\ UNCHANGED <<accounts, free, threads>>
  BY DEF CancelVerifying
<1>2. HonestCall(calls[r], accounts) /\ calls[r] \in Call
  BY DEF Sound, Honest, TypeOK
<1>3. calls[r].cancels \in Nat /\ calls[r].cancels + 1 \in Nat
  BY <1>2 DEF Call
<1>4. /\ call \in Call /\ call.step = "draining" /\ call.user = calls[r].user
      /\ call.secret = calls[r].secret /\ call.justified = calls[r].justified
      /\ call.account = calls[r].account
  BY <1>2, <1>3 DEF Call, Held
<1> HIDE DEF call
<1>5. HonestCall(call, accounts) /\ (call.step \in Held <=> calls[r].step \in Held)
  BY <1>1, <1>2, <1>4 DEF HonestCall, Going, Held
<1>6. threads' \in [Request -> {"none", "queued", "running", "done"}]
  BY <1>1 DEF Sound, TypeOK
<1> QED
  BY <1>1, <1>4, <1>5, <1>6, MoveSound

LEMMA CallSound ==
  ASSUME Sound, NEW r \in Request, Authenticate(r)
  PROVE  Sound'
<1>1. /\ HonestCall(calls[r], accounts) /\ calls[r] \in Call
      /\ threads \in [Request -> {"none", "queued", "running", "done"}]
  BY DEF Sound, Honest, TypeOK
<1>2. CASE TimeOut(r)
  BY <1>2, AbandonSound DEF TimeOut, Ended
<1>3. CASE StoreFails(r)
  BY <1>1, <1>3, GiveBackSound DEF StoreFails, Ended, Held
<1>4. CASE Verdict(r)
  <2>1. Accepts(calls[r]) => calls[r].justified
    BY <1>1, <1>4 DEF Verdict, Accepts, HonestCall, Grants
  <2> DEFINE step == IF Accepts(calls[r]) THEN "accepted" ELSE "failed"
  <2>2. step \in Ended /\ (step = "accepted" => calls[r].justified)
    BY <2>1 DEF Ended
  <2>3. /\ calls[r].step \in Held /\ GiveBack(r, step) /\ UNCHANGED accounts
        /\ threads' \in [Request -> {"none", "queued", "running", "done"}]
    BY <1>1, <1>4 DEF Verdict, Held
  <2> HIDE DEF step
  <2> QED
    BY <2>2, <2>3, GiveBackSound
<1>5. CASE Drained(r)
  BY <1>1, <1>5, GiveBackSound DEF Drained, Ended, Held
<1>6. CASE CancelWaiting(r)
  <2>1. CASE Abandon(r, "cancelled")
    BY <1>6, <2>1, AbandonSound DEF CancelWaiting, Ended
  <2>2. CASE calls[r].step = "reading" /\ GiveBack(r, "cancelled")
    BY <1>1, <1>6, <2>2, GiveBackSound DEF CancelWaiting, Ended, Held
  <2> QED
    BY <1>6, <2>1, <2>2 DEF CancelWaiting
<1>7. CASE CancelDraining(r)
  <2>1. threads' \in [Request -> {"none", "queued", "running", "done"}]
    BY <1>1, <1>7 DEF CancelDraining
  <2> QED
    BY <1>7, <2>1, GiveBackSound DEF CancelDraining, Ended, Held
<1> QED
  BY <1>2, <1>3, <1>4, <1>5, <1>6, <1>7, ArriveSound, ResumeSound, ReadSound,
     CancelVerifyingSound
  DEF Authenticate, Cancel

LEMMA ThreadSound ==
  ASSUME Sound, NEW r \in Request, Execute(r)
  PROVE  Sound'
<1>1. calls' = calls /\ free' = free /\ accounts' = accounts
  BY DEF Execute, StartThread, EndThread
<1>2. SlotsConserved' /\ Honest'
  BY <1>1 DEF Sound, SlotsConserved, Honest, In
<1>3. TypeOK'
  BY <1>1 DEF Sound, TypeOK, Execute, StartThread, EndThread
<1> QED
  BY <1>2, <1>3 DEF Sound

\* Whatever becomes of an account, the calls it grants from then on are justified.
LEMMA StoreSound ==
  ASSUME Sound, NEW u \in User, NEW account \in Account, Store(u, account)
  PROVE  /\ Sound' /\ threads' = threads
         /\ \A r \in Request : /\ calls'[r].step = calls[r].step
                               /\ calls'[r].cancels = calls[r].cancels
<1>1. /\ accounts' = [accounts EXCEPT ![u] = account] /\ free' = free /\ threads' = threads
      /\ calls' = [r \in Request |->
           IF calls[r].user = u /\ Grants(account, calls[r].secret)
           THEN [calls[r] EXCEPT !.justified = TRUE] ELSE calls[r]]
  BY DEF Store
<1>2. \A r \in Request :
        /\ calls'[r] \in Call /\ calls'[r].step = calls[r].step
        /\ calls'[r].cancels = calls[r].cancels /\ calls'[r].user = calls[r].user
        /\ calls'[r].secret = calls[r].secret /\ calls'[r].account = calls[r].account
        /\ calls[r].justified => calls'[r].justified
        /\ calls[r].user = u /\ Grants(account, calls[r].secret) => calls'[r].justified
  BY <1>1 DEF Sound, TypeOK, Call
<1>3. TypeOK'
  <2>1. calls' \in [Request -> Call]
    BY <1>1, <1>2
  <2>2. accounts' \in [User -> Account]
    BY <1>1 DEF Sound, TypeOK
  <2> QED
    BY <1>1, <2>1, <2>2 DEF Sound, TypeOK
<1>4. SlotsConserved'
  BY <1>1, <1>2, StillConserves DEF Sound
<1>5. Honest'
  <2> SUFFICES ASSUME NEW r \in Request PROVE HonestCall(calls'[r], accounts')
    BY DEF Honest
  <2>1. HonestCall(calls[r], accounts)
    BY DEF Sound, Honest
  <2>2. \A v \in User : accounts'[v] = IF v = u THEN account ELSE accounts[v]
    BY <1>1 DEF Sound, TypeOK
  <2>3. calls[r].step \in Going => calls[r].user \in User
    BY <2>1 DEF HonestCall
  <2> QED
    BY <1>2, <2>1, <2>2, <2>3 DEF HonestCall
<1> QED
  BY <1>1, <1>2, <1>3, <1>4, <1>5 DEF Sound

LEMMA ManageStores ==
  ASSUME TypeOK, Manage
  PROVE  \E u \in User, account \in Account : Store(u, account)
<1>1. PICK u \in User :
        \/ \E secret \in Secret : CreateAccount(u, secret) \/ RotateAccount(u, secret)
        \/ DisableAccount(u) \/ DeleteAccount(u)
  BY DEF Manage
<1>2. accounts[u] \in Account
  BY DEF TypeOK
<1> QED
  BY <1>1, <1>2
  DEF CreateAccount, RotateAccount, DisableAccount, DeleteAccount, NoAccount, Account

LEMMA SoundInit == Init => Sound
<1> SUFFICES ASSUME Init PROVE Sound
  OBVIOUS
<1>1. TypeOK
  BY SlotAssumption DEF Init, TypeOK, NewCall, Call, Account, NoAccount, NoSecret
<1>2. In(Held) = {}
  BY DEF Init, In, Held, NewCall
<1>3. SlotsConserved
  BY <1>2, SlotAssumption, FS_EmptySet DEF Init, SlotsConserved
<1>4. Honest
  BY DEF Init, Honest, HonestCall, Going, Held, NewCall
<1> QED
  BY <1>1, <1>3, <1>4 DEF Sound

LEMMA SoundStep == Sound /\ [Next]_vvars => Sound'
<1> SUFFICES ASSUME Sound, [Next]_vvars PROVE Sound'
  OBVIOUS
<1>1. CASE \E r \in Request : Authenticate(r) \/ Execute(r)
  BY <1>1, CallSound, ThreadSound
<1>2. CASE Manage
  BY <1>2, ManageStores, StoreSound DEF Sound
<1>3. CASE UNCHANGED vvars
  BY <1>3 DEF vvars, Sound, TypeOK, SlotsConserved, Honest, In
<1> QED
  BY <1>1, <1>2, <1>3 DEF Next

\* Every slot is free or held by one call, whatever way calls end and however often they
\* are cancelled.
THEOREM SlotsCorrect == Spec => []SlotsConserved
<1>1. Sound => SlotsConserved
  BY DEF Sound
<1> QED
  BY <1>1, SoundInit, SoundStep, PTL DEF Spec

\* A call is accepted only if an enabled account had its credentials while it ran, for any
\* passwords and however accounts change meanwhile.
THEOREM AcceptedCorrect == Spec => []AcceptedWasValid
<1>1. Sound => AcceptedWasValid
  BY DEF Sound, Honest, HonestCall, AcceptedWasValid, In
<1> QED
  BY <1>1, SoundInit, SoundStep, PTL DEF Spec

\* A derivation that has not ended belongs to a call that still has its slot, and a call
\* that drains has been cancelled.
ShieldedCall(call, thread) ==
  /\ thread \in {"queued", "running"} => call.step \in {"verifying", "draining"}
  /\ call.step = "draining" => call.cancels >= 1
Shielded == \A r \in Request : ShieldedCall(calls[r], threads[r])

\* A call that ends, when its derivation has ended, leaves none behind; a call that resumes
\* has none.
LEMMA HandOverShielded ==
  ASSUME Sound, Shielded, NEW r \in Request, NEW call \in Call, NEW value, NEW n,
         HandOver(r, call, value, n), UNCHANGED threads, ShieldedCall(call, threads[r])
  PROVE  Shielded'
<1>1. /\ calls'[r] = call
      /\ \A q \in Request \ {r} :
           \/ calls'[q] = calls[q]
           \/ calls[q].step = "waiting" /\ calls'[q] = Granted(q)
  BY HandOverCalls DEF Sound
<1>2. ASSUME NEW q \in Request PROVE ShieldedCall(calls'[q], threads[q])
  <2>1. CASE q = r \/ calls'[q] = calls[q]
    BY <1>1, <2>1 DEF Shielded
  <2>2. CASE calls[q].step = "waiting" /\ calls'[q] = Granted(q)
    BY <2>2, GrantedType DEF Sound, Shielded, ShieldedCall
  <2> QED
    BY <1>1, <2>1, <2>2
<1> QED
  BY <1>2 DEF Shielded

LEMMA EndShielded ==
  ASSUME Sound, Shielded, NEW r \in Request, NEW step \in Ended, NEW value, NEW n,
         HandOver(r, Closed(r, step), value, n), UNCHANGED threads,
         calls[r].step \in {"verifying", "draining"} => threads[r] = "done"
  PROVE  Shielded'
<1>1. Closed(r, step) \in Call /\ Closed(r, step).step = step
  BY ClosedType DEF Sound
<1>2. ShieldedCall(Closed(r, step), threads[r])
  BY <1>1 DEF Shielded, ShieldedCall, Ended
<1> QED
  BY <1>1, <1>2, HandOverShielded

LEMMA CallShielded ==
  ASSUME Sound, Shielded, MaxCancels <= 1, NEW r \in Request, Authenticate(r)
  PROVE  Shielded'
<1>1. /\ ShieldedCall(calls[r], threads[r]) /\ calls[r] \in Call
      /\ calls \in [Request -> Call]
      /\ threads \in [Request -> {"none", "queued", "running", "done"}]
  BY DEF Sound, Shielded, TypeOK
<1>2. ASSUME NEW call, calls' = [calls EXCEPT ![r] = call],
             \A q \in Request \ {r} : threads'[q] = threads[q],
             ShieldedCall(call, threads'[r])
      PROVE  Shielded'
  BY <1>1, <1>2 DEF Shielded
<1>3. CASE \E user \in User, secret \in Secret : Arrive(r, user, secret)
  <2>1. PICK user \in User, secret \in Secret : Arrive(r, user, secret)
    BY <1>3
  <2> DEFINE ticket == IF Locked THEN Cardinality(Request \ In({"new"})) ELSE 0
             call == [calls[r] EXCEPT !.step = IF Locked THEN "waiting" ELSE "reading",
                        !.user = user, !.secret = secret, !.ticket = ticket,
                        !.justified = Grants(accounts[user], secret)]
  <2>2. /\ calls' = [calls EXCEPT ![r] = call] /\ threads' = threads
        /\ calls[r].step = "new"
    BY <2>1 DEF Arrive
  <2>3. call.step \in {"waiting", "reading"}
    BY <1>1 DEF Call
  <2> HIDE DEF call
  <2>4. ShieldedCall(call, threads'[r])
    BY <1>1, <2>2, <2>3 DEF ShieldedCall
  <2> QED
    BY <1>2, <2>2, <2>4
<1>4. CASE Resume(r)
  <2> DEFINE call == [calls[r] EXCEPT !.step = "reading"]
  <2>1. call \in Call /\ call.step = "reading"
    BY <1>1 DEF Call, Held
  <2>2. HandOver(r, call, free + 0, free + 0) /\ threads' = threads /\ calls[r].step = "granted"
    BY <1>4 DEF Resume, Leave
  <2> HIDE DEF call
  <2>3. ShieldedCall(call, threads[r])
    BY <1>1, <2>1, <2>2 DEF ShieldedCall
  <2> QED
    BY <2>1, <2>2, <2>3, HandOverShielded
<1>5. CASE TimeOut(r)
  BY <1>5, EndShielded DEF TimeOut, Abandon, Leave, Ended
<1>6. CASE Read(r)
  <2> DEFINE call == [calls[r] EXCEPT !.step = "verifying", !.account = accounts[calls[r].user]]
  <2>1. /\ calls' = [calls EXCEPT ![r] = call]
        /\ threads' = [threads EXCEPT ![r] = "queued"]
    BY <1>6 DEF Read
  <2>2. call.step = "verifying"
    BY <1>1 DEF Call
  <2> HIDE DEF call
  <2>3. ShieldedCall(call, threads'[r]) /\ \A q \in Request \ {r} : threads'[q] = threads[q]
    BY <1>1, <2>1, <2>2 DEF ShieldedCall
  <2> QED
    BY <1>2, <2>1, <2>3
<1>7. CASE StoreFails(r)
  BY <1>7, EndShielded DEF StoreFails, GiveBack, Ended
<1>8. CASE Verdict(r)
  BY <1>8, EndShielded DEF Verdict, GiveBack, Ended
<1>9. CASE Drained(r)
  BY <1>9, EndShielded DEF Drained, GiveBack, Ended
<1>10. CASE CancelWaiting(r)
  BY <1>10, EndShielded DEF CancelWaiting, Abandon, Leave, GiveBack, Ended
<1>11. CASE CancelVerifying(r)
  <2> DEFINE call == [calls[r] EXCEPT !.step = "draining", !.cancels = calls[r].cancels + 1]
  <2>1. calls[r].cancels \in Nat /\ calls[r].cancels + 1 >= 1
    BY <1>1 DEF Call
  <2>2. call.step = "draining" /\ call.cancels >= 1
    BY <1>1, <2>1 DEF Call
  <2>3. calls' = [calls EXCEPT ![r] = call] /\ threads' = threads /\ calls[r].step = "verifying"
    BY <1>11 DEF CancelVerifying
  <2> HIDE DEF call
  <2>4. ShieldedCall(call, threads'[r])
    BY <2>2 DEF ShieldedCall
  <2> QED
    BY <1>2, <2>3, <2>4
<1>12. CASE calls[r].cancels < MaxCancels /\ CancelDraining(r)
  BY <1>1, <1>12, SlotAssumption DEF CancelDraining, Call, ShieldedCall
<1> QED
  BY <1>3, <1>4, <1>5, <1>6, <1>7, <1>8, <1>9, <1>10, <1>11, <1>12 DEF Authenticate, Cancel

LEMMA ThreadShielded ==
  ASSUME Sound, Shielded, NEW r \in Request, Execute(r)
  PROVE  Shielded'
BY DEF Execute, StartThread, EndThread, Sound, TypeOK, Shielded, ShieldedCall

LEMMA ShieldedStep ==
  ASSUME MaxCancels <= 1
  PROVE  Sound /\ Shielded /\ [Next]_vvars => Shielded'
<1> SUFFICES ASSUME Sound, Shielded, [Next]_vvars PROVE Shielded'
  OBVIOUS
<1>1. CASE \E r \in Request : Authenticate(r) \/ Execute(r)
  BY <1>1, CallShielded, ThreadShielded
<1>2. CASE Manage
  <2>1. PICK u \in User, account \in Account : Store(u, account)
    BY <1>2, ManageStores DEF Sound
  <2>2. /\ threads' = threads
        /\ \A r \in Request : /\ calls'[r].step = calls[r].step
                              /\ calls'[r].cancels = calls[r].cancels
    BY <2>1, StoreSound
  <2> QED
    BY <2>2 DEF Shielded, ShieldedCall
<1>3. CASE UNCHANGED vvars
  BY <1>3 DEF vvars, Shielded
<1> QED
  BY <1>1, <1>2, <1>3 DEF Next

\* At most Slots derivations are queued or running, for any number of calls and threads, if
\* a call is cancelled at most once: a derivation holds the slot of its call until it ends.
THEOREM VerificationsBounded ==
  ASSUME MaxCancels <= 1
  PROVE  Spec => []BoundedVerifications
<1>1. ASSUME Sound, Shielded PROVE BoundedVerifications
  <2> DEFINE derived == {r \in Request : threads[r] \in {"queued", "running"}}
  <2>1. derived \subseteq In(Held)
    BY <1>1 DEF Shielded, ShieldedCall, In, Held
  <2>2. Cardinality(derived) \in Nat /\ Cardinality(derived) <= Cardinality(In(Held))
    BY <2>1, HeldFinite, FS_Subset, FS_CardinalityType
  <2>3. Cardinality(In(Held)) <= Slots
    BY <1>1, HeldFinite, SlotAssumption DEF Sound, TypeOK, SlotsConserved
  <2> HIDE DEF derived
  <2>4. Cardinality(derived) <= Slots
    BY <2>2, <2>3, HeldFinite, SlotAssumption
  <2> QED
    BY <2>4 DEF derived, BoundedVerifications
<1>2. Init => Shielded
  BY DEF Init, Shielded, ShieldedCall, NewCall
<1>3. Sound /\ Shielded /\ [Next]_vvars => Shielded'
  BY ShieldedStep
<1> QED
  BY <1>1, <1>2, <1>3, SoundInit, SoundStep, PTL DEF Spec
=============================================================================
