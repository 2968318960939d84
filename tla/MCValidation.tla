--------------------------- MODULE MCValidation ---------------------------
(* A CPE whose firmware may leave the one of the draft and return, with two *)
(* administrators that validate, approve and collect at once.               *)
EXTENDS ProfileValidation, TLC

CONSTANTS k1, k2, c1, c2, s1, s2, s3

Software == "DeviceInfo.SoftwareVersion"
Hardware == "DeviceInfo.HardwareVersion"
Product == "DeviceInfo.ModelName"
Root == "DeviceInfo."

MCPath == {Root, Software, Hardware, Product}
MCSorted == [S \in SUBSET MCPath |->
  SelectSeq(<<Root, Hardware, Product, Software>>, LAMBDA p : p \in S)]
MCParent == [p \in MCPath |-> IF p = Root THEN "no_path" ELSE Root]
MCReadable == {Software, Hardware, Product}
MCValue == {"R1", "R2"}

\* No telemetry interface.
MCFieldOf == [p \in MCPath |-> "no_field"]
MCNone == <<>>

MCReviewed ==
  {t \in [MCReadable \cup {"manufacturer"} -> MCValue \cup {"no_value"}] :
     t["manufacturer"] = "R1" /\ t[Software] = "R1"}
MCDraft == [a \in {"manufacturer", Product, Software} |-> "R1"]
MCNames == {Hardware, Software}

MCInforms ==
  {[manufacturer |-> "R1", report |-> Software :> v @@ Product :> "R1"] : v \in MCValue}
MCAnswers ==
  {[kind |-> "fault", content |-> Nothing],
   [kind |-> "values", content |-> Software :> "R1" @@ Hardware :> "R1"],
   [kind |-> "values", content |-> Software :> "R2" @@ Hardware :> "R1"]}

Symmetry == Permutations(Caller) \cup Permutations(SessionId) \cup Permutations(Key)
=============================================================================
