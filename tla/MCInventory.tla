---------------------------- MODULE MCInventory ----------------------------
(***************************************************************************)
(* An instance of Inventory: a CPE of a reviewed class and, in the lists,  *)
(* one that is not; messages that agree, conflict, are refused or partial. *)
(***************************************************************************)
EXTENDS Inventory, TLC

CONSTANTS o1, r1

Old == "V5R021"
New == "V5R022"
Reviewed == "EG8145X6-10"

MCRaw == {"V5R021", "V5R022", " V5R022", "", "EG8145X6-10", "7B"}
MCValue == {Old, New, Reviewed, "HG8010", "7B"}
MCStrip == [x \in MCRaw |-> IF x = " V5R022" THEN New ELSE IF x = "" THEN Old ELSE x]
MCDefect == [x \in MCRaw |-> IF x = "" THEN "empty" ELSE "none"]
MCRank == [x \in MCRaw |-> CASE x = "" -> 1 [] x = " V5R022" -> 2 [] x = "EG8145X6-10" -> 3
                             [] x = Old -> 4 [] OTHER -> 5]
MCClassOf == [c \in Cpe |-> IF c = 1 THEN Reviewed ELSE "HG8010"]
MCProfiles == {[id |-> "huawei", priority |-> 100, class |-> Reviewed, firmware |-> New,
                models |-> {Reviewed}, manufacturer |-> "huawei"]}
MCLegacy == [c \in Cpe |-> [f \in Field |-> IF c = 2 /\ f = "model" THEN "7B" ELSE "no_value"]]

Igd(f, raw) == [root |-> "InternetGatewayDevice", field |-> f, raw |-> raw]
Dev(f, raw) == [root |-> "Device", field |-> f, raw |-> raw]
Told(maker, params, events) == [manufacturer |-> maker, params |-> params, events |-> events]
MCInforms ==
  {Told("huawei", {Igd("firmware", " V5R022"), Dev("firmware", New)}, 2),
   Told("huawei", {Igd("firmware", New), Dev("firmware", Old)}, 1),
   Told("huawei", {Igd("firmware", ""), Dev("firmware", New), Igd("model", "7B")}, 1),
   Told("other", {Igd("model", Reviewed)}, 0)}
Answer(model, firmware) ==
  {Igd("model", model), Igd("firmware", firmware), Igd("hardware", "7B")}
MCReads == {Answer(Reviewed, New), Answer("", New), Answer(Reviewed, Old)}
=============================================================================
