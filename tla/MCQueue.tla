------------------------------ MODULE MCQueue ------------------------------
(***************************************************************************)
(* An instance of ReadQueue for operations an administrator queues one by  *)
(* one: two keys, two sessions, a firmware that changes under the queue, *)
(* answers of every kind, and no collection job.                           *)
(***************************************************************************)
EXTENDS ReadQueueProps, TLC

CONSTANTS k1, k2, s1, s2

Software == "DeviceInfo.SoftwareVersion"
Hardware == "DeviceInfo.HardwareVersion"
Root == "DeviceInfo."

MCPath == {Root, Software, Hardware}
MCSorted == [S \in SUBSET MCPath |->
  SelectSeq(<<Root, Hardware, Software>>, LAMBDA p : p \in S)]
MCParent == [p \in MCPath |-> IF p = Root THEN "no_path" ELSE Root]
MCValue == {"R1", "R2"}

\* No telemetry interface.
MCFieldOf == [p \in MCPath |-> "no_field"]
MCNone == <<>>

MCTarget == [{"manufacturer", Software, Hardware} -> MCValue \cup {"no_value"}]
MCReviewed == {t \in MCTarget : t["manufacturer"] = "R1" /\ t[Software] = "R1"}

Read(kind, names) == [kind |-> kind, path |-> "no_path", names |-> names]
MCAsks == {Read("values", {}), Read("values", {Software}), Read("names", {})}
MCInforms == {[manufacturer |-> "R1", report |-> Software :> v] : v \in MCValue}
MCAnswers ==
  {[kind |-> "fault", content |-> Nothing],
   [kind |-> "names", content |-> [p \in {Software, Hardware} |-> "listed"]],
   [kind |-> "names", content |-> Root :> "listed"],
   [kind |-> "values", content |-> Software :> "R1"],
   [kind |-> "values", content |-> Software :> "R1" @@ Hardware :> "R1"],
   [kind |-> "values", content |-> Software :> "R2" @@ Hardware :> "unsafe"],
   [kind |-> "values", content |-> Software :> "untyped" @@ Hardware :> "R1"]}

Symmetry == Permutations(Key) \cup Permutations(SessionId)
=============================================================================
