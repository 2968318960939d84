---------------------------- MODULE MCTelemetry ----------------------------
(***************************************************************************)
(* Instances of ReadQueue for the wan and optical scopes: jobs discover a  *)
(* WAN interface and an optical one, and reads of what they found follow.  *)
(***************************************************************************)
EXTENDS ReadQueueProps, TLC

CONSTANTS k1, k2, j1, s1, s2, s3

Software == "DeviceInfo.SoftwareVersion"
Info == "DeviceInfo."
Wan == "WANPPPConnection.1."
Service == "WANPPPConnection.1.X_HW_SERVICELIST"
External == "WANPPPConnection.1.ExternalIPAddress"
Optical == "X_GponInterafceConfig."
Power == "X_GponInterafceConfig.RXPower"

MCOrder == <<Info, Software, Wan, External, Service, Optical, Power>>
MCLinkPath == {Info, Software, Wan, Service, External, Optical, Power}
MCObject == Path \cap {Info, Wan, Optical}
MCSorted == [S \in SUBSET Path |-> SelectSeq(MCOrder, LAMBDA p : p \in S)]
MCParent ==
  [p \in Path |-> CASE p = Software -> Info
                    [] p \in {Service, External} -> Wan
                    [] p = Power -> Optical
                    [] OTHER -> "no_path"]
MCValue == {"R1", "R2"}
MCReviewed == {t \in [{"manufacturer", Software} -> MCValue \cup {"no_value"}] :
                 t["manufacturer"] = "R1" /\ t[Software] = "R1"}

MCFieldOf ==
  [p \in Path |-> CASE p = Service -> "service"
                    [] p = External -> "ipv4"
                    [] p = Power -> "power"
                    [] OTHER -> "no_field"]
MCInterface == [f \in Field |-> IF f = "power" THEN Optical ELSE Wan]
MCInternet == [p \in Path \cap {Service} |-> {"R1"}]

Measure(path, names) == [kind |-> "values", path |-> path, names |-> names]
MCAskLinks == {[kind |-> "names", path |-> Wan, names |-> {}], Measure(Wan, {}),
               Measure(Wan, {Service, External}), Measure(Optical, {})}
Discovery(root, depth, rpcs) ==
  [kind |-> "discovery", root |-> root, names |-> {}, max_depth |-> depth, max_rpcs |-> rpcs,
   max_entries |-> 9, batch_size |-> 8]
MCDiscoverLinks == {Discovery(Wan, 0, 1), Discovery(Optical, 0, 1)}
MCInforms == {[manufacturer |-> "R1", report |-> Software :> "R1"]}

Listing(S) == [kind |-> "names", content |-> [p \in S |-> "listed"]]
Values(content) == [kind |-> "values", content |-> content]
MCLinkAnswers ==
  {Listing({Service}), Listing({Service, External}), Listing({Power}),
   Values(Service :> "R1"), Values(Service :> "R1" @@ External :> "R2"),
   Values(Service :> "R1" @@ External :> "unsafe"), Values(Service :> "R2" @@ External :> "R1"),
   Values(Power :> "R1"), Values(Power :> "untyped"), Values(Power :> "no_value")}

Symmetry == Permutations(Key) \cup Permutations(SessionId)
=============================================================================
