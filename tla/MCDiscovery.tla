---------------------------- MODULE MCDiscovery ----------------------------
(***************************************************************************)
(* An instance of ReadQueue with one discovery job over a tree of three    *)
(* levels, while transactions commit with old timestamps.  The limits of   *)
(* the four specifications each bind in some behaviour.                    *)
(***************************************************************************)
EXTENDS ReadQueueProps, TLC

CONSTANTS k1, j1, s1, s2, s3

Software == "Device.DeviceInfo.SoftwareVersion"
Root == "Device."
A == "Device.A."
B == "Device.B."
C == "Device.A.C."
Template == "Device.{i}."
Info == "Device.DeviceInfo."

MCPath == {Root, A, B, C, Template, Info, Software}
MCOrder == <<Root, A, C, B, Info, Software, Template>>
MCSorted == [S \in SUBSET MCPath |-> SelectSeq(MCOrder, LAMBDA p : p \in S)]
MCParent == [p \in MCPath |-> CASE p = Root -> "no_path" [] p = C -> A [] p = Software -> Info
                                [] OTHER -> Root]
MCObject == MCPath \ {Software}
MCConcrete == MCPath \ {Template}
MCValue == {"R1", "R2"}

\* No telemetry interface.
MCFieldOf == [p \in MCPath |-> "no_field"]
MCNone == <<>>

MCTarget == [{"manufacturer", Software} -> MCValue \cup {"no_value"}]
MCReviewed == {t \in MCTarget : t["manufacturer"] = "R1" /\ t[Software] = "R1"}

Discovery(depth, rpcs, entries) ==
  [kind |-> "discovery", root |-> Root, names |-> {}, max_depth |-> depth, max_rpcs |-> rpcs,
   max_entries |-> entries, batch_size |-> 8]
MCSpecs == {Discovery(2, 3, 9), Discovery(1, 2, 9), Discovery(2, 3, 1), Discovery(0, 3, 9)}
MCInforms == {[manufacturer |-> "R1", report |-> Software :> v] : v \in MCValue}
Listing(S) == [kind |-> "names", content |-> [p \in S |-> "listed"]]
MCAnswers == {[kind |-> "fault", content |-> Nothing], Listing({}), Listing({A}), Listing({A, B}),
              Listing({A, Template}), Listing({C})}

Symmetry == Permutations(SessionId)
=============================================================================
