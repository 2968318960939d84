------------------------------ MODULE MCValues ------------------------------
(***************************************************************************)
(* An instance of ReadQueue with one job: of values, split in batches,     *)
(* over the leaves a names read has put in the catalog, or of discovery;   *)
(* the firmware, read by the job itself or by an Inform, may make the      *)
(* profile inapplicable.  Liveness is checked: there is no symmetry.       *)
(***************************************************************************)
EXTENDS ReadQueueProps, TLC

CONSTANTS k1, j1, s1, s2, s3

Software == "DeviceInfo.SoftwareVersion"
Hardware == "DeviceInfo.HardwareVersion"
Root == "DeviceInfo."

MCPath == {Root, Software, Hardware}
MCSorted == [S \in SUBSET MCPath |-> SelectSeq(<<Root, Hardware, Software>>, LAMBDA p : p \in S)]
MCParent == [p \in MCPath |-> IF p = Root THEN "no_path" ELSE Root]
MCValue == {"R1", "R2"}

\* No telemetry interface.
MCFieldOf == [p \in MCPath |-> "no_field"]
MCNone == <<>>

MCTarget == [{"manufacturer", Software, Hardware} -> MCValue \cup {"no_value"}]
MCReviewed == {t \in MCTarget : t["manufacturer"] = "R1" /\ t[Software] = "R1"}

MCAsks == {[kind |-> "names", path |-> "no_path", names |-> {}]}
Selection(names, size, rpcs, entries) ==
  [kind |-> "values", root |-> "no_path", names |-> names, max_depth |-> 3, max_rpcs |-> rpcs,
   max_entries |-> entries, batch_size |-> size]
Both == {Software, Hardware}
Discovery == [kind |-> "discovery", root |-> Root, names |-> {}, max_depth |-> 1, max_rpcs |-> 2,
              max_entries |-> 9, batch_size |-> 8]
MCSpecs == {Discovery, Selection(Both, 1, 2, 9), Selection(Both, 2, 2, 1), Selection(Both, 1, 1, 9)}
MCInforms == {[manufacturer |-> "R1", report |-> Software :> v] : v \in MCValue}
MCAnswers ==
  {[kind |-> "fault", content |-> Nothing],
   [kind |-> "names", content |-> [p \in Both |-> "listed"]],
   [kind |-> "values", content |-> Software :> "R1"],
   [kind |-> "values", content |-> Hardware :> "R1"],
   [kind |-> "values", content |-> Hardware :> "unsafe"]}
=============================================================================
