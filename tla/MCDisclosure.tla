---------------------------- MODULE MCDisclosure ----------------------------
(***************************************************************************)
(* An instance of Disclosure: a WAN interface whose address and DNS        *)
(* servers may be one and the same, reads of it and of DeviceInfo, and one *)
(* export.                                                                 *)
(***************************************************************************)
EXTENDS Disclosure, TLC

CONSTANTS k1, k2, k3, s1, s2

Software == "DeviceInfo.SoftwareVersion"
Info == "DeviceInfo."
Wan == "WANPPPConnection.1."
Service == "WANPPPConnection.1.X_HW_SERVICELIST"
External == "WANPPPConnection.1.ExternalIPAddress"
Servers == "WANPPPConnection.1.DNSServers"

MCPath == {Info, Software, Wan, Service, External, Servers}
MCOrder == <<Info, Software, Wan, Servers, External, Service>>
MCSorted == [S \in SUBSET MCPath |-> SelectSeq(MCOrder, LAMBDA p : p \in S)]
MCParent ==
  [p \in MCPath |-> IF p = Software THEN Info
                    ELSE IF p \in {Service, External, Servers} THEN Wan ELSE "no_path"]
MCValue == {"R1", "R2"}
MCReviewed == {t \in [{"manufacturer", Software} -> MCValue \cup {"no_value"}] :
                 t["manufacturer"] = "R1"}

MCFieldOf ==
  [p \in MCPath |-> CASE p = Service -> "service" [] p = External -> "ipv4" [] p = Servers -> "dns"
                      [] OTHER -> "no_field"]
MCInterface == [f \in {"service", "ipv4", "dns"} |-> Wan]
MCInternet == Service :> {"R1"}

\* The second text names two addresses, the one of the first text last.
MCAddresses == "R1" :> <<[version |-> 4, index |-> 101]>>
               @@ "R2" :> <<[version |-> 6, index |-> 102], [version |-> 4, index |-> 103],
                            [version |-> 4, index |-> 101]>>
MCUnder == "" :> MCPath

Ask0(kind, path) == [kind |-> kind, path |-> path, names |-> {}]
MCAsks == {Ask0("names", Wan), Ask0("values", Wan), Ask0("values", "no_path")}
MCInforms == {[manufacturer |-> "R1", report |-> Software :> "R1"]}
Values(content) == [kind |-> "values", content |-> content]
Listing(S) == [kind |-> "names", content |-> [p \in S |-> "listed"]]
MCAnswers ==
  {[kind |-> "fault", content |-> Nothing], Listing({Service, External, Servers}),
   Values(Software :> "R1"), Values(Software :> "unsafe"), Values(Service :> "R1"),
   Values(Service :> "R1" @@ External :> "R1" @@ Servers :> "R2"),
   Values(Service :> "R1" @@ External :> "unsafe" @@ Servers :> "no_value")}

Symmetry == Permutations(SessionId) \cup Permutations(EvidenceKeys)
=============================================================================
