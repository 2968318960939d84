---------------------------- MODULE SerialQueue ----------------------------
(***************************************************************************)
(* What the read queue of a CPE promises to its callers, whoever queued    *)
(* the reads: a slot that holds one operation at a time.  The operation it *)
(* holds may go out on the wire once; when it is over it leaves the slot   *)
(* for good, and the slot may be given to another in the same transaction. *)
(***************************************************************************)
CONSTANTS
  Op,    \* the operations that may ever be held
  None   \* none of them

VARIABLES
  slot,   \* the operation being read, or None
  out,    \* whether its RPC has been sent
  done    \* the operations that are over
svars == <<slot, out, done>>

Init == slot = None /\ out = FALSE /\ done = {}

Send == slot # None /\ ~ out /\ out' = TRUE /\ UNCHANGED <<slot, done>>

Turn ==
  \E next \in Op \cup {None} :
    /\ next # slot /\ next \notin done
    /\ slot' = next
    /\ done' = done \cup ({slot} \ {None})
    /\ out' \in IF next = None THEN {FALSE} ELSE BOOLEAN

Next == Send \/ Turn
Spec == Init /\ [][Next]_svars
=============================================================================
