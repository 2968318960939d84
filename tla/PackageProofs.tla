--------------------------- MODULE PackageProofs ---------------------------
(***************************************************************************)
(* The evidence packages of EvidencePackage, for any number of create and  *)
(* verify commands, failures, interruptions and losses of power.  The      *)
(* invariant says what each step of a publisher leaves in its directory,   *)
(* and what of it survives when the publisher does not go on.              *)
(***************************************************************************)
EXTENDS EvidencePackage, TLAPS

Early == {"build", "reserve"}
Busy == {"directory", "create", "write", "sync", "link", "unlink", "sync_directory", "sync_parent"}
Cleaning == Name \cup {"rmdir"}
Making == Busy \cup Cleaning
Failure == "evidence_invalid_or_unavailable"

PublisherState ==
  [step : Early \cup Making \cup {"ended"}, file : File, faults : Nat,
   outcome : {"none", "created", "evidence_already_exists", Failure}]
ReaderState ==
  [step : {"open", "list", "manifest", "xml", "ended"}, of : Publisher \cup {"nothing"},
   outcome : {"none", "invalid", "verified"}]

Typed ==
  /\ publishers \in [Publisher -> PublisherState]
  /\ readers \in [Reader -> ReaderState]
  /\ content \in [Publisher -> [File -> {"none", "partial", "cached", "durable"}]]
  /\ names \in [Publisher -> SUBSET Name] /\ unsure \in [Publisher -> SUBSET Name]
  /\ losses \in Nat

----------------------------------------------------------------------------
(* Where a publisher is, and what it has made.                             *)

At(p, step, file) == publishers[p].step = step /\ publishers[p].file = file
Has(p, xml, manifest) == content[p]["xml"] = xml /\ content[p]["manifest"] = manifest

\* Before mkdir nothing of the publisher exists, and nothing can come up after a loss of power.
Unmade(p) ==
  publishers[p].step \in Early =>
    /\ publishers[p].file = "xml" /\ publishers[p].faults = 0 /\ publishers[p].outcome = "none"
    /\ path # p /\ p \notin disk
    /\ names[p] = {} /\ unsure[p] = {} /\ Has(p, "none", "none")

\* While it works the path is its own: mkdir of another publisher fails.
Working(p) == publishers[p].step \in Making => path = p /\ publishers[p].outcome = "none"

\* The files come one after the other: each is named, written and synchronized in turn.
FirstFile(p) ==
  /\ publishers[p].step = "directory" \/ At(p, "create", "xml") =>
       names[p] = {} /\ Has(p, "none", "none")
  /\ publishers[p].step = "directory" => publishers[p].file = "xml"
  /\ At(p, "write", "xml") => names[p] = {"inform.xml"} /\ Has(p, "partial", "none")
  /\ At(p, "sync", "xml") => names[p] = {"inform.xml"} /\ Has(p, "cached", "none")
  /\ publishers[p].step \in {"directory", "create", "write", "sync"} => "manifest.json" \notin unsure[p]

SecondFile(p) ==
  LET temporary == {"inform.xml", ".manifest.tmp"}
  IN /\ At(p, "create", "manifest") => names[p] = {"inform.xml"} /\ Has(p, "durable", "none")
     /\ At(p, "write", "manifest") => names[p] = temporary /\ Has(p, "durable", "partial")
     /\ At(p, "sync", "manifest") => names[p] = temporary /\ Has(p, "durable", "cached")
     /\ publishers[p].step = "link" => names[p] = temporary /\ Whole(p)

\* Only then is there a manifest.json, and at last the disk agrees.
Named(p) ==
  /\ publishers[p].step = "unlink" => names[p] = Name /\ Whole(p)
  /\ publishers[p].step = "sync_directory" => names[p] = Complete /\ Whole(p)
  /\ publishers[p].step = "sync_parent" => names[p] = Complete /\ Whole(p) /\ unsure[p] = {}
  /\ "manifest.json" \in names[p] \cup unsure[p] => Whole(p)

\* A package that was reported is all there is of the path, in memory and on the disk.
Created(p) ==
  publishers[p].outcome = "created" =>
    /\ publishers[p].step = "ended"
    /\ path = p /\ disk = {p} /\ names[p] = Complete /\ unsure[p] = {} /\ Whole(p)

\* The clean-up removes the names in order; without a second failure it removes all of them.
Cleaned(p) ==
  /\ publishers[p].step \in Cleaning => publishers[p].faults >= 1
  /\ publishers[p].step = ".manifest.tmp" => "manifest.json" \notin names[p]
  /\ publishers[p].step = "inform.xml" => names[p] \subseteq {"inform.xml"}
  /\ publishers[p].step = "rmdir" => names[p] = {}
  /\ publishers[p].outcome = Failure =>
       /\ publishers[p].step = "ended"
       /\ publishers[p].faults <= 1 /\ losses = 0 => path # p /\ names[p] = {}

\* A reader that has read the manifest has a whole package in its hands.
ReadWhole(r) ==
  /\ readers[r].step \in {"list", "manifest", "xml"} => readers[r].of \in Publisher
  /\ readers[r].step # "ended" => readers[r].outcome = "none"
  /\ readers[r].step = "xml" \/ readers[r].outcome = "verified" =>
       readers[r].of \in Publisher /\ Whole(readers[r].of)

Row(p) ==
  /\ Unmade(p) /\ Working(p) /\ FirstFile(p) /\ SecondFile(p)
  /\ Named(p) /\ Created(p) /\ Cleaned(p)

PackageInvariant ==
  /\ Typed
  /\ path \in disk /\ disk \subseteq Publisher \cup {"nothing", "foreign"}
  /\ \A p \in Publisher : Row(p)
  /\ \A r \in Reader : ReadWhole(r)
----------------------------------------------------------------------------
(* What a publisher does leaves the rows of the others alone.              *)

Same(p) ==
  /\ publishers'[p] = publishers[p] /\ content'[p] = content[p]
  /\ names'[p] = names[p] /\ unsure'[p] = unsure[p]

\* The path and the disk change for p only as far as they concern somebody else.
Steady(p) ==
  /\ (path' = p) <=> (path = p)
  /\ p \in disk' => p \in disk
  /\ publishers[p].outcome = "created" => disk' = disk

LEMMA RowSame ==
  ASSUME NEW p \in Publisher, Row(p), Same(p), Steady(p), losses' = losses
  PROVE  Row(p)'
<1> USE DEF Same, Steady, Has, Whole, At
<1>1. Unmade(p)' BY DEF Row, Unmade
<1>2. Working(p)' BY DEF Row, Working
<1>3. FirstFile(p)' /\ SecondFile(p)' BY DEF Row, FirstFile, SecondFile
<1>4. Named(p)' BY DEF Row, Named
<1>5. Created(p)' BY DEF Row, Created
<1>6. Cleaned(p)' BY DEF Row, Cleaned
<1> QED BY <1>1, <1>2, <1>3, <1>4, <1>5, <1>6 DEF Row

\* The record a call of publisher p leaves, and the rows it does not touch.
LEMMA GoesRow ==
  ASSUME Typed, NEW p \in Publisher, NEW from, NEW to \in PublisherState, Goes(p, from, to)
  PROVE  /\ publishers' \in [Publisher -> PublisherState]
         /\ publishers'[p] = to /\ publishers[p].step = from
         /\ \A q \in Publisher \ {p} : publishers'[q] = publishers[q]
         /\ readers' = readers /\ losses' = losses
BY DEF Typed, Goes

LEMMA ToRow ==
  ASSUME Typed, NEW p \in Publisher, NEW step \in Early \cup Making \cup {"ended"},
         NEW outcome \in {"none", "created", "evidence_already_exists", Failure}
  PROVE  /\ To(p, step) \in PublisherState /\ To(p, step).step = step
         /\ To(p, step).file = publishers[p].file /\ To(p, step).faults = publishers[p].faults
         /\ To(p, step).outcome = publishers[p].outcome
         /\ Ends(p, outcome) \in PublisherState /\ Ends(p, outcome).step = "ended"
         /\ Ends(p, outcome).outcome = outcome /\ Ends(p, outcome).faults = publishers[p].faults
<1>1. publishers[p] \in PublisherState BY DEF Typed
<1> QED BY <1>1 DEF To, Ends, PublisherState

\* What the calls do to the files of the directory of p.
LEMMA PublishFiles ==
  ASSUME Typed, NEW p \in Publisher, Publish(p)
  PROVE  /\ names' \in [Publisher -> SUBSET Name] /\ unsure' \in [Publisher -> SUBSET Name]
         /\ content' \in [Publisher -> [File -> {"none", "partial", "cached", "durable"}]]
         /\ \A q \in Publisher \ {p} :
              content'[q] = content[q] /\ names'[q] = names[q] /\ unsure'[q] = unsure[q]
<1> USE DEF Typed, files
<1>1. publishers[p].file \in File BY DEF PublisherState
<1>2. ASSUME NEW S \in SUBSET Name, Renamed(p, S)
      PROVE  /\ names' \in [Publisher -> SUBSET Name] /\ unsure' \in [Publisher -> SUBSET Name]
             /\ \A q \in Publisher \ {p} : names'[q] = names[q] /\ unsure'[q] = unsure[q]
  BY <1>2 DEF Renamed
<1>3. ASSUME NEW what \in {"none", "partial", "cached", "durable"}, Holds(p, what)
      PROVE  /\ content' \in [Publisher -> [File -> {"none", "partial", "cached", "durable"}]]
             /\ \A q \in Publisher \ {p} : content'[q] = content[q]
  BY <1>1, <1>3 DEF Holds
<1>4. CASE Create(p)
  <2>1. names[p] \cup {NameOf(publishers[p].file)} \in SUBSET Name BY DEF NameOf, Name
  <2> QED BY <1>2, <1>3, <1>4, <2>1 DEF Create
<1>5. CASE Write(p) BY <1>3, <1>5 DEF Write
<1>6. CASE Sync(p) BY <1>3, <1>6 DEF Sync
<1>7. CASE Link(p)
  <2>1. names[p] \cup {"manifest.json"} \in SUBSET Name BY DEF Name
  <2> QED BY <1>2, <1>7, <2>1 DEF Link
<1>8. CASE Unlink(p)
  <2>1. names[p] \ {".manifest.tmp"} \in SUBSET Name OBVIOUS
  <2> QED BY <1>2, <1>8, <2>1 DEF Unlink
<1>9. CASE SyncDirectory(p) BY <1>9 DEF SyncDirectory
<1>10. CASE Drop(p)
  <2>1. names[p] \ {publishers[p].step} \in SUBSET Name OBVIOUS
  <2> QED BY <1>2, <1>10, <2>1 DEF Drop
<1>11. CASE Build(p) \/ Reserve(p) \/ OpenDirectory(p) \/ SyncParent(p)
  BY <1>11 DEF Build, Reserve, OpenDirectory, SyncParent
<1>12. CASE Fail(p) \/ RemoveDirectory(p) \/ FailCleanup(p)
  BY <1>12 DEF Fail, RemoveDirectory, FailCleanup
<1> QED BY <1>4, <1>5, <1>6, <1>7, <1>8, <1>9, <1>10, <1>11, <1>12 DEF Publish

\* What they do to the record of p, and that no other record changes.
LEMMA PublishRows ==
  ASSUME Typed, NEW p \in Publisher, Publish(p)
  PROVE  /\ publishers' \in [Publisher -> PublisherState]
         /\ publishers[p].step \in Early \cup Making
         /\ \A q \in Publisher \ {p} : publishers'[q] = publishers[q]
         /\ readers' = readers /\ losses' = losses
<1> DEFINE Claim == /\ publishers' \in [Publisher -> PublisherState]
                    /\ publishers[p].step \in Early \cup Making
                    /\ \A q \in Publisher \ {p} : publishers'[q] = publishers[q]
                    /\ readers' = readers /\ losses' = losses
<1>1. publishers[p] \in PublisherState BY DEF Typed
<1>faults. publishers[p].faults + 1 \in Nat BY <1>1 DEF PublisherState
<1>2. ASSUME NEW from \in Early \cup Making, NEW step \in Early \cup Making \cup {"ended"},
             Goes(p, from, To(p, step))
      PROVE  Claim
  BY <1>2, ToRow, GoesRow
<1>3. ASSUME NEW from \in Early \cup Making, NEW outcome \in {"created", "evidence_already_exists", Failure},
             Goes(p, from, Ends(p, outcome))
      PROVE  Claim
  BY <1>3, ToRow, GoesRow
<1>4. CASE Build(p) BY <1>2, <1>3, <1>4 DEF Build, Early, Making, Failure
<1>5. CASE Reserve(p)
  <2> USE DEF Early, Making, Busy, Failure
  <2> QED BY <1>2, <1>3, <1>5 DEF Reserve
<1>6. CASE OpenDirectory(p) \/ Create(p) \/ Write(p)
  BY <1>2, <1>6 DEF OpenDirectory, Create, Write, Making, Busy
<1>7. CASE Sync(p)
  <2>1. Written(p) \in PublisherState
    BY <1>1 DEF Written, To, PublisherState, File, Making, Busy
  <2> QED BY <1>7, <2>1, GoesRow DEF Sync, Making, Busy
<1>8. CASE Link(p) \/ Unlink(p) \/ SyncDirectory(p)
  BY <1>2, <1>8 DEF Link, Unlink, SyncDirectory, Making, Busy
<1>9. CASE SyncParent(p) BY <1>3, <1>9 DEF SyncParent, Making, Busy
<1>10. CASE Fail(p)
  <2> DEFINE row == [publishers[p] EXCEPT
                       !.step = IF publishers[p].step = "directory" THEN "rmdir" ELSE "manifest.json",
                       !.faults = publishers[p].faults + 1]
  <2>1. row \in PublisherState BY <1>1, <1>faults DEF PublisherState, Making, Cleaning, Name
  <2>2. publishers' = [publishers EXCEPT ![p] = row] /\ publishers[p].step \in Making
    BY <1>10 DEF Fail, Making, Busy
  <2>3. readers' = readers /\ losses' = losses BY <1>10 DEF Fail
  <2> HIDE DEF row
  <2> QED BY <2>1, <2>2, <2>3 DEF Typed
<1>11. CASE Drop(p)
  <2>1. AfterDrop(publishers[p].step) \in Making BY DEF AfterDrop, Making, Cleaning, Name
  <2> QED BY <1>2, <1>11, <2>1 DEF Drop, Making, Cleaning
<1>12. CASE RemoveDirectory(p) BY <1>3, <1>12 DEF RemoveDirectory, Making, Cleaning, Failure
<1>13. CASE FailCleanup(p)
  <2> DEFINE row == [Ends(p, Failure) EXCEPT !.faults = publishers[p].faults + 1]
  <2>1. row \in PublisherState BY <1>1, <1>faults DEF Ends, PublisherState
  <2>2. publishers' = [publishers EXCEPT ![p] = row] /\ publishers[p].step \in Making
    BY <1>13 DEF FailCleanup, Making, Cleaning, Failure
  <2>3. readers' = readers /\ losses' = losses BY <1>13 DEF FailCleanup
  <2> HIDE DEF row
  <2> QED BY <2>1, <2>2, <2>3 DEF Typed
<1> QED BY <1>4, <1>5, <1>6, <1>7, <1>8, <1>9, <1>10, <1>11, <1>12, <1>13 DEF Publish

\* Only mkdir, rmdir and the synchronization of the parent concern the path.
LEMMA PublishPlace ==
  ASSUME PackageInvariant, NEW p \in Publisher, Publish(p)
  PROVE  /\ path' \in disk' /\ disk' \subseteq Publisher \cup {"nothing", "foreign"}
         /\ \A q \in Publisher \ {p} : Steady(q)
<1> USE PackageAssumption DEF PackageInvariant, place
<1>1. CASE UNCHANGED place BY <1>1 DEF Steady
<1>2. CASE Reserve(p)
  <2>1. CASE path = "nothing" /\ path' = p /\ disk' = disk \cup {p}
    <3>1. \A q \in Publisher \ {p} : publishers[q].outcome # "created" BY <2>1 DEF Row, Created
    <3> QED BY <2>1, <3>1 DEF Steady
  <2> QED BY <1>1, <1>2, <2>1 DEF Reserve
<1>3. CASE SyncParent(p) \/ RemoveDirectory(p)
  <2>1. path = p
    BY <1>3 DEF Row, Working, SyncParent, RemoveDirectory, Goes, Making, Busy, Cleaning
  <2>2. \A q \in Publisher \ {p} : publishers[q].outcome # "created" BY <2>1 DEF Row, Created
  <2> QED BY <1>3, <2>1, <2>2 DEF SyncParent, RemoveDirectory, Steady
<1> QED BY <1>1, <1>2, <1>3 DEF Publish, Build, OpenDirectory, Create, Write, Sync, Link, Unlink,
                                SyncDirectory, Fail, Drop, FailCleanup

\* The record of p after a call that goes on, and after one that ends the command.
Becomes(p, step, outcome) ==
  /\ publishers'[p].step = step /\ publishers'[p].outcome = outcome
  /\ publishers'[p].file = publishers[p].file /\ publishers'[p].faults = publishers[p].faults
  /\ losses' = losses

LEMMA GoesOn ==
  ASSUME Typed, NEW p \in Publisher, NEW from, NEW step \in Early \cup Making \cup {"ended"},
         Goes(p, from, To(p, step))
  PROVE  publishers[p].step = from /\ Becomes(p, step, publishers[p].outcome)
BY GoesRow, ToRow DEF Becomes

LEMMA GoesEnd ==
  ASSUME Typed, NEW p \in Publisher, NEW from,
         NEW outcome \in {"created", "evidence_already_exists", Failure},
         Goes(p, from, Ends(p, outcome))
  PROVE  publishers[p].step = from /\ Becomes(p, "ended", outcome)
<1>1. publishers[p] \in PublisherState BY DEF Typed
<1>2. Ends(p, outcome).file = publishers[p].file BY <1>1 DEF Ends, PublisherState
<1> QED BY <1>2, GoesRow, ToRow DEF Becomes

\* Each call takes the row of p from the picture of its step to that of the next.
LEMMA PublishRow ==
  ASSUME PackageInvariant, NEW p \in Publisher, Publish(p)
  PROVE  Row(p)'
<1>1. /\ publishers[p] \in PublisherState /\ Typed
      /\ content[p] \in [File -> {"none", "partial", "cached", "durable"}]
      /\ names[p] \subseteq Name /\ unsure[p] \subseteq Name /\ p \notin {"nothing", "foreign"}
  BY PackageAssumption DEF PackageInvariant, Typed
<1>2. Unmade(p) /\ Working(p) /\ FirstFile(p) /\ SecondFile(p) /\ Named(p) /\ Created(p) /\ Cleaned(p)
  BY DEF Row, PackageInvariant
<1> DEFINE outcome == publishers[p].outcome
<1> USE <1>1, <1>2 DEF Row, Unmade, Working, FirstFile, SecondFile, Named, Created, Cleaned, Has, At, Whole,
        Becomes, files, place, Early, Making, Busy, Cleaning, Name, Complete, File, Failure
<1>3. CASE Build(p)
  <2>1. Becomes(p, "reserve", outcome) \/ Becomes(p, "ended", Failure)
    BY <1>3, GoesOn, GoesEnd DEF Build
  <2>2. publishers[p].step = "build" /\ UNCHANGED <<files, place>> BY <1>3 DEF Build, Goes
  <2> QED BY <2>1, <2>2
<1>4. CASE Reserve(p)
  <2>1. \/ Becomes(p, "directory", outcome) /\ path' = p
        \/ Becomes(p, "ended", "evidence_already_exists") /\ UNCHANGED place
        \/ Becomes(p, "ended", Failure) /\ UNCHANGED place
    BY <1>4, GoesOn, GoesEnd DEF Reserve
  <2>2. publishers[p].step = "reserve" /\ UNCHANGED files BY <1>4 DEF Reserve, Goes
  <2> QED BY <2>1, <2>2
<1>5. CASE OpenDirectory(p)
  <2>1. publishers[p].step = "directory" /\ Becomes(p, "create", outcome)
    BY <1>5, GoesOn DEF OpenDirectory
  <2>2. UNCHANGED <<files, place>> BY <1>5 DEF OpenDirectory
  <2> QED BY <2>1, <2>2
<1>6. CASE Create(p)
  <2>1. publishers[p].step = "create" /\ Becomes(p, "write", outcome) BY <1>6, GoesOn DEF Create
  <2>2. names'[p] = names[p] \cup {NameOf(publishers[p].file)} /\ UNCHANGED place
    BY <1>6 DEF Create, Renamed, Typed
  <2>3. unsure'[p] \subseteq unsure[p] \cup {NameOf(publishers[p].file)}
    BY <1>6 DEF Create, Renamed, Typed
  <2>4. content'[p] = [content[p] EXCEPT ![publishers[p].file] = "partial"]
    BY <1>6 DEF Create, Holds, Typed
  <2> QED BY <2>1, <2>2, <2>3, <2>4 DEF NameOf, PublisherState
<1>7. CASE Write(p)
  <2>1. publishers[p].step = "write" /\ Becomes(p, "sync", outcome) BY <1>7, GoesOn DEF Write
  <2>2. UNCHANGED <<names, unsure, place>> BY <1>7 DEF Write
  <2>3. content'[p] = [content[p] EXCEPT ![publishers[p].file] = "cached"]
    BY <1>7 DEF Write, Holds, Typed
  <2> QED BY <2>1, <2>2, <2>3 DEF PublisherState
<1>8. CASE Sync(p)
  <2>1. Written(p) \in PublisherState BY DEF Written, To, PublisherState
  <2>2. publishers[p].step = "sync" /\ publishers'[p] = Written(p) /\ losses' = losses
    BY <1>8, <2>1, GoesRow DEF Sync
  <2>3. /\ Written(p).outcome = outcome /\ Written(p).faults = publishers[p].faults
        /\ Written(p).file = "manifest"
        /\ Written(p).step = IF publishers[p].file = "xml" THEN "create" ELSE "link"
    BY DEF Written, To, PublisherState
  <2>4. UNCHANGED <<names, unsure, place>> BY <1>8 DEF Sync
  <2>5. content'[p] = [content[p] EXCEPT ![publishers[p].file] = "durable"]
    BY <1>8 DEF Sync, Holds, Typed
  <2> QED BY <2>2, <2>3, <2>4, <2>5 DEF PublisherState
<1>9. CASE Link(p)
  <2>1. publishers[p].step = "link" /\ Becomes(p, "unlink", outcome) BY <1>9, GoesOn DEF Link
  <2>2. names'[p] = names[p] \cup {"manifest.json"} /\ UNCHANGED <<content, place>>
    BY <1>9 DEF Link, Renamed, Typed
  <2> QED BY <2>1, <2>2
<1>10. CASE Unlink(p)
  <2>1. publishers[p].step = "unlink" /\ Becomes(p, "sync_directory", outcome) BY <1>10, GoesOn DEF Unlink
  <2>2. names'[p] = names[p] \ {".manifest.tmp"} /\ UNCHANGED <<content, place>>
    BY <1>10 DEF Unlink, Renamed, Typed
  <2> QED BY <2>1, <2>2
<1>11. CASE SyncDirectory(p)
  <2>1. publishers[p].step = "sync_directory" /\ Becomes(p, "sync_parent", outcome)
    BY <1>11, GoesOn DEF SyncDirectory
  <2>2. unsure'[p] = {} /\ UNCHANGED <<content, names, place>> BY <1>11 DEF SyncDirectory, Typed
  <2> QED BY <2>1, <2>2
<1>12. CASE SyncParent(p)
  <2>1. publishers[p].step = "sync_parent" /\ Becomes(p, "ended", "created")
    BY <1>12, GoesEnd DEF SyncParent
  <2>2. disk' = {path} /\ UNCHANGED <<files, path>> BY <1>12 DEF SyncParent
  <2> QED BY <2>1, <2>2
<1>13. CASE Fail(p)
  <2>1. publishers'[p] = [publishers[p] EXCEPT
                            !.step = IF publishers[p].step = "directory" THEN "rmdir" ELSE "manifest.json",
                            !.faults = publishers[p].faults + 1]
    BY <1>13 DEF Fail, Typed
  <2>2. /\ publishers'[p].step = IF publishers[p].step = "directory" THEN "rmdir" ELSE "manifest.json"
        /\ publishers'[p].faults >= 1 /\ publishers'[p].outcome = outcome
    BY <2>1 DEF PublisherState
  <2>3. publishers[p].step \in Busy /\ UNCHANGED <<losses, files, place>> BY <1>13 DEF Fail
  <2> QED BY <2>2, <2>3
<1>14. CASE Drop(p)
  <2>1. publishers[p].step \in Name /\ Becomes(p, AfterDrop(publishers[p].step), outcome)
    BY <1>14, GoesOn DEF Drop, AfterDrop
  <2>2. names'[p] = names[p] \ {publishers[p].step} /\ UNCHANGED <<content, place>>
    BY <1>14 DEF Drop, Renamed, Typed
  <2>3. unsure'[p] \subseteq unsure[p] \cup names[p] BY <1>14 DEF Drop, Renamed, Typed
  <2> QED BY <2>1, <2>2, <2>3 DEF AfterDrop
<1>15. CASE RemoveDirectory(p)
  <2>1. publishers[p].step = "rmdir" /\ Becomes(p, "ended", Failure) BY <1>15, GoesEnd DEF RemoveDirectory
  <2>2. /\ path = p /\ p \in Publisher /\ names[p] = {} => path' = "nothing"
        /\ UNCHANGED files
    BY <1>15 DEF RemoveDirectory
  <2> QED BY <2>1, <2>2
<1>16. CASE FailCleanup(p)
  <2>1. publishers'[p] = [Ends(p, Failure) EXCEPT !.faults = publishers[p].faults + 1]
    BY <1>16 DEF FailCleanup, Typed
  <2>2. /\ publishers'[p].step = "ended" /\ publishers'[p].outcome = Failure
        /\ publishers'[p].faults = publishers[p].faults + 1 /\ publishers[p].faults \in Nat
    BY <2>1 DEF Ends, PublisherState
  <2>3. publishers[p].step \in Cleaning /\ UNCHANGED <<losses, files, place>> BY <1>16 DEF FailCleanup
  <2> QED BY <2>2, <2>3
<1> QED
  BY <1>3, <1>4, <1>5, <1>6, <1>7, <1>8, <1>9, <1>10, <1>11, <1>12, <1>13, <1>14, <1>15, <1>16 DEF Publish

\* What is whole is not written to any more.
LEMMA WholeStays ==
  ASSUME PackageInvariant, NEW p \in Publisher, NEW q \in Publisher, Publish(p), Whole(q)
  PROVE  Whole(q)'
<1>1. Typed /\ Row(p) BY DEF PackageInvariant
<1>2. CASE p # q BY <1>1, <1>2, PublishFiles DEF Whole
<1>3. CASE p = q
  <2>1. publishers[p].file \in File /\ FirstFile(p) /\ SecondFile(p)
    BY <1>1 DEF Typed, PublisherState, Row
  <2>2. ~ Create(p) /\ ~ Write(p) /\ ~ Sync(p)
    BY <1>3, <2>1 DEF Create, Write, Sync, Goes, FirstFile, SecondFile, At, Has, Whole, File
  <2>3. content' = content
    BY <2>2 DEF Publish, Build, Reserve, OpenDirectory, Link, Unlink, SyncDirectory, SyncParent,
                Fail, Drop, RemoveDirectory, FailCleanup, files
  <2> QED BY <1>3, <2>3 DEF Whole
<1> QED BY <1>2, <1>3

LEMMA PublishInvariant ==
  ASSUME PackageInvariant, NEW p \in Publisher, Publish(p)
  PROVE  PackageInvariant'
<1>1. Typed BY DEF PackageInvariant
<1>2. Typed' BY <1>1, PublishRows, PublishFiles DEF Typed
<1>3. path' \in disk' /\ disk' \subseteq Publisher \cup {"nothing", "foreign"} BY PublishPlace
<1>4. ASSUME NEW q \in Publisher PROVE Row(q)'
  <2>1. CASE q = p BY <2>1, PublishRow
  <2>2. CASE q # p
    <3>1. Same(q) BY <1>1, <2>2, PublishRows, PublishFiles DEF Same
    <3>2. Row(q) /\ Steady(q) /\ losses' = losses
      BY <1>1, <2>2, PublishRows, PublishPlace DEF PackageInvariant
    <3> QED BY <3>1, <3>2, RowSame
  <2> QED BY <2>1, <2>2
<1>5. ASSUME NEW r \in Reader PROVE ReadWhole(r)'
  <2>1. readers' = readers BY <1>1, PublishRows
  <2>2. ReadWhole(r) BY DEF PackageInvariant
  <2> QED BY <2>1, <2>2, WholeStays DEF ReadWhole
<1> QED BY <1>2, <1>3, <1>4, <1>5 DEF PackageInvariant

----------------------------------------------------------------------------
(* Readers, operators and losses of power.                                 *)

LEMMA VerifyInvariant ==
  ASSUME PackageInvariant, NEW r \in Reader, Verify(r)
  PROVE  PackageInvariant'
<1>1. readers[r] \in ReaderState /\ Typed /\ ReadWhole(r) BY DEF PackageInvariant, Typed
<1>2. UNCHANGED <<publishers, losses, files, place>>
  BY DEF Verify, OpenPackage, List, ReadManifest, ReadXml, Reads
<1>3. ASSUME NEW to \in ReaderState, NEW from, NEW ok \in BOOLEAN, Reads(r, from, ok, to),
             ok => /\ to.step \in {"list", "manifest", "xml"} => to.of \in Publisher
                   /\ to.step # "ended" => to.outcome = "none"
                   /\ to.step = "xml" \/ to.outcome = "verified" => to.of \in Publisher /\ Whole(to.of)
      PROVE  readers' \in [Reader -> ReaderState] /\ \A q \in Reader : ReadWhole(q)'
  <2> DEFINE refused == [readers[r] EXCEPT !.step = "ended", !.outcome = "invalid"]
             row == IF ok THEN to ELSE refused
  <2>1. readers' = [readers EXCEPT ![r] = row] BY <1>3 DEF Reads
  <2>2. refused \in ReaderState /\ refused.step = "ended" /\ refused.outcome = "invalid"
    BY <1>1 DEF ReaderState
  <2>3. row \in ReaderState BY <2>2
  <2>4. \A q \in Reader : readers'[q] = IF q = r THEN row ELSE readers[q] BY <1>1, <2>1 DEF Typed
  <2>5. ASSUME NEW q \in Reader, q # r PROVE ReadWhole(q)'
    BY <1>2, <2>4, <2>5 DEF ReadWhole, Whole, files, PackageInvariant
  <2>6. ReadWhole(r)' BY <1>2, <1>3, <2>2, <2>4 DEF ReadWhole, Whole, files
  <2>7. readers' \in [Reader -> ReaderState] BY <1>1, <2>1, <2>3 DEF Typed
  <2> QED BY <2>5, <2>6, <2>7
<1>4. readers' \in [Reader -> ReaderState] /\ \A q \in Reader : ReadWhole(q)'
  <2>1. CASE OpenPackage(r)
    <3> DEFINE to == [readers[r] EXCEPT !.step = "list", !.of = path]
    <3>1. readers[r].step = "open" BY <2>1 DEF OpenPackage, Reads
    <3>2. CASE path \in Publisher
      <4>1. to \in ReaderState /\ to.step = "list" /\ to.of = path /\ to.outcome = "none"
        BY <1>1, <3>1, <3>2 DEF ReaderState, ReadWhole
      <4> QED BY <1>3, <2>1, <3>2, <4>1 DEF OpenPackage
    <3>3. CASE path \notin Publisher
      <4>1. Reads(r, "open", FALSE, readers[r]) BY <2>1, <3>3 DEF OpenPackage, Reads
      <4> QED BY <1>1, <1>3, <4>1
    <3> QED BY <3>2, <3>3
  <2>2. CASE List(r)
    <3> DEFINE to == [readers[r] EXCEPT !.step = "manifest"]
    <3>1. readers[r].step = "list" BY <2>2 DEF List, Reads
    <3>2. to \in ReaderState /\ to.step = "manifest" /\ to.of \in Publisher /\ to.outcome = "none"
      BY <1>1, <3>1 DEF ReaderState, ReadWhole
    <3> QED BY <1>3, <2>2, <3>2 DEF List
  <2>3. CASE ReadManifest(r)
    <3> DEFINE to == [readers[r] EXCEPT !.step = "xml"]
    <3>1. readers[r].step = "manifest" BY <2>3 DEF ReadManifest, Reads
    <3>2. /\ to \in ReaderState /\ to.step = "xml" /\ to.of = readers[r].of /\ to.outcome = "none"
          /\ to.of \in Publisher
      BY <1>1, <3>1 DEF ReaderState, ReadWhole
    <3>3. Legible(r, "manifest", "manifest.json") => Whole(to.of)
      BY <3>2 DEF Legible, PackageInvariant, Row, Named
    <3>4. Legible(r, "manifest", "manifest.json") \in BOOLEAN BY DEF Legible
    <3> QED BY <1>3, <2>3, <3>2, <3>3, <3>4 DEF ReadManifest
  <2>4. CASE ReadXml(r)
    <3> DEFINE to == [readers[r] EXCEPT !.step = "ended", !.outcome = "verified"]
    <3>1. readers[r].step = "xml" BY <2>4 DEF ReadXml, Reads
    <3>2. to \in ReaderState /\ to.step = "ended" /\ to.of \in Publisher /\ Whole(to.of)
      BY <1>1, <3>1 DEF ReaderState, ReadWhole
    <3>3. Legible(r, "xml", "inform.xml") \in BOOLEAN BY DEF Legible
    <3> QED BY <1>3, <2>4, <3>2, <3>3 DEF ReadXml
  <2> QED BY <2>1, <2>2, <2>3, <2>4 DEF Verify
<1>5. \A p \in Publisher : Row(p)'
  BY <1>2, RowSame DEF PackageInvariant, Same, Steady, files, place
<1> QED BY <1>2, <1>4, <1>5 DEF PackageInvariant, Typed, files, place

LEMMA InterruptInvariant ==
  ASSUME PackageInvariant, NEW p \in Publisher, Interrupt(p)
  PROVE  PackageInvariant'
<1>1. Typed /\ Row(p) /\ publishers[p] \in PublisherState BY DEF PackageInvariant, Typed
<1>2. UNCHANGED <<readers, losses, files, place>> /\ publishers[p].step # "ended" BY DEF Interrupt
<1>3. publishers' = [publishers EXCEPT ![p] = [publishers[p] EXCEPT !.step = "ended"]]
  BY DEF Interrupt
<1>4. /\ publishers'[p].step = "ended" /\ publishers'[p].outcome = publishers[p].outcome
      /\ publishers'[p].faults = publishers[p].faults /\ publishers' \in [Publisher -> PublisherState]
  BY <1>1, <1>3 DEF Typed, PublisherState
<1>5. Row(p)'
  BY <1>1, <1>2, <1>4
  DEF Row, Unmade, Working, FirstFile, SecondFile, Named, Created, Cleaned, Has, At, Whole,
      files, place, Early, Making, Busy, Cleaning, Name
<1>6. ASSUME NEW q \in Publisher, q # p PROVE Row(q)'
  <2>1. Same(q) /\ Steady(q) BY <1>1, <1>2, <1>3, <1>6 DEF Same, Steady, files, place, Typed
  <2> QED BY <1>2, <2>1, RowSame DEF PackageInvariant
<1>7. \A r \in Reader : ReadWhole(r)' BY <1>2 DEF PackageInvariant, ReadWhole, Whole, files
<1> QED BY <1>2, <1>4, <1>5, <1>6, <1>7 DEF PackageInvariant, Typed, files, place

LEMMA DiscardInvariant ==
  ASSUME PackageInvariant, NEW p \in Publisher, Discard(p)
  PROVE  PackageInvariant'
<1> USE PackageAssumption
<1>1. Typed /\ Row(p) BY DEF PackageInvariant
<1>2. /\ path = p /\ publishers[p].step = "ended" /\ publishers[p].outcome # "created"
      /\ path' = "nothing" /\ disk' = disk \cup {"nothing"}
      /\ UNCHANGED <<publishers, readers, content, losses>>
  BY DEF Discard
<1>3. /\ names' \in [Publisher -> SUBSET Name] /\ unsure' \in [Publisher -> SUBSET Name]
      /\ names'[p] = {} /\ unsure'[p] = unsure[p] \cup names[p]
      /\ \A q \in Publisher \ {p} : names'[q] = names[q] /\ unsure'[q] = unsure[q]
  BY <1>1 DEF Discard, Renamed, Typed
<1>4. Row(p)'
  BY <1>1, <1>2, <1>3
  DEF Row, Unmade, Working, FirstFile, SecondFile, Named, Created, Cleaned, Has, At, Whole,
      Early, Making, Busy, Cleaning, Name
<1>5. ASSUME NEW q \in Publisher, q # p PROVE Row(q)'
  <2>1. publishers[q].outcome # "created" BY <1>2, <1>5 DEF PackageInvariant, Row, Created
  <2>2. Same(q) /\ Steady(q) BY <1>2, <1>3, <1>5, <2>1 DEF Same, Steady
  <2> QED BY <1>2, <2>2, RowSame DEF PackageInvariant
<1>6. \A r \in Reader : ReadWhole(r)' BY <1>2 DEF PackageInvariant, ReadWhole, Whole
<1> QED BY <1>1, <1>2, <1>3, <1>4, <1>5, <1>6 DEF PackageInvariant, Typed

\* A loss of power stops everybody who has begun, and takes only what was not synchronized.
LEMMA LossInvariant ==
  ASSUME PackageInvariant, PowerLoss
  PROVE  PackageInvariant'
<1> USE PackageAssumption
<1>1. Typed BY DEF PackageInvariant
<1>2. /\ publishers' = Stopped(publishers, Publisher, "build")
      /\ readers' = Stopped(readers, Reader, "open")
      /\ path' \in disk /\ disk' = {path'} /\ losses' = losses + 1
      /\ unsure' = [p \in Publisher |-> {}]
  BY DEF PowerLoss
<1>3. PICK found \in SUBSET Name :
        names' = [p \in Publisher |->
          IF p = path' THEN (names[p] \ unsure[p]) \cup (found \cap unsure[p]) ELSE {}]
  BY DEF PowerLoss
<1>4. PICK kept \in SUBSET File :
        content' = [p \in Publisher |-> [f \in File |->
          IF content[p][f] # "cached" THEN content[p][f]
          ELSE IF f \in kept THEN "durable" ELSE "partial"]]
  BY DEF PowerLoss
<1>5. ASSUME NEW p \in Publisher
      PROVE  /\ publishers'[p] \in PublisherState
             /\ publishers'[p].outcome = publishers[p].outcome
             /\ \/ publishers'[p].step = "ended" /\ publishers[p].step # "build"
                \/ publishers'[p] = publishers[p] /\ publishers[p].step = "build"
             /\ publishers'[p].faults = publishers[p].faults
  <2>1. publishers[p] \in PublisherState BY <1>1 DEF Typed
  <2>2. \/ publishers'[p] = [publishers[p] EXCEPT !.step = "ended"] /\ publishers[p].step # "build"
        \/ publishers'[p] = publishers[p] /\ publishers[p].step = "build"
    BY <1>2 DEF Stopped
  <2> QED BY <2>1, <2>2 DEF PublisherState
<1>6. ASSUME NEW r \in Reader
      PROVE  /\ readers'[r] \in ReaderState
             /\ readers'[r].step = "ended" \/ readers'[r] = readers[r]
             /\ readers'[r].outcome = readers[r].outcome /\ readers'[r].of = readers[r].of
  <2>1. readers[r] \in ReaderState BY <1>1 DEF Typed
  <2>2. readers'[r] = [readers[r] EXCEPT !.step = "ended"] \/ readers'[r] = readers[r]
    BY <1>2 DEF Stopped
  <2> QED BY <2>1, <2>2 DEF ReaderState
<1>7. \A p \in Publisher : Whole(p) => Whole(p)' BY <1>4 DEF Whole
<1>8. Typed'
  <2>1. publishers' \in [Publisher -> PublisherState] /\ readers' \in [Reader -> ReaderState]
    BY <1>2, <1>5, <1>6 DEF Stopped
  <2>2. content' \in [Publisher -> [File -> {"none", "partial", "cached", "durable"}]]
    BY <1>1, <1>4 DEF Typed
  <2>3. names' \in [Publisher -> SUBSET Name] /\ unsure' \in [Publisher -> SUBSET Name] /\ losses' \in Nat
    BY <1>1, <1>2, <1>3 DEF Typed
  <2> QED BY <2>1, <2>2, <2>3 DEF Typed
<1>9. ASSUME NEW p \in Publisher PROVE Row(p)'
  <2>1. Row(p) /\ losses' # 0 BY <1>1, <1>2 DEF PackageInvariant, Typed
  <2>2. unsure'[p] = {} /\ names'[p] \subseteq names[p] \cup unsure[p] BY <1>2, <1>3
  <2>3. Named(p)' BY <1>5, <1>7, <2>1, <2>2 DEF Row, Named
  <2>4. Created(p)'
    <3> SUFFICES ASSUME publishers'[p].outcome = "created" PROVE Created(p)'
      BY DEF Created
    <3>1. /\ publishers[p].step = "ended"
          /\ path = p /\ disk = {p} /\ names[p] = Complete /\ unsure[p] = {} /\ Whole(p)
      BY <1>5, <2>1 DEF Row, Created
    <3>2. names'[p] = Complete BY <1>2, <1>3, <3>1
    <3> QED BY <1>2, <1>5, <1>7, <2>2, <3>1, <3>2 DEF Created
  <2>5. Cleaned(p)' BY <1>5, <2>1, <1>2 DEF Row, Cleaned, Cleaning, Name
  <2>6. Working(p)' /\ FirstFile(p)' /\ SecondFile(p)'
    BY <1>5 DEF Working, FirstFile, SecondFile, At, Making, Busy, Cleaning, Name
  <2>7. Unmade(p)'
    <3>1. CASE publishers'[p].step = "ended" BY <3>1 DEF Unmade, Early
    <3>2. CASE publishers'[p] = publishers[p] /\ publishers[p].step = "build"
      <4>1. /\ publishers[p].file = "xml" /\ publishers[p].faults = 0 /\ publishers[p].outcome = "none"
            /\ p \notin disk /\ names[p] = {} /\ unsure[p] = {} /\ Has(p, "none", "none")
        BY <2>1, <3>2 DEF Row, Unmade, Early
      <4>2. path' # p /\ p \notin disk' BY <1>2, <4>1
      <4>3. Has(p, "none", "none")' BY <1>4, <4>1 DEF Has, File
      <4> QED BY <2>2, <3>2, <4>1, <4>2, <4>3 DEF Unmade
    <3> QED BY <1>5, <3>1, <3>2
  <2> QED BY <2>3, <2>4, <2>5, <2>6, <2>7 DEF Row
<1>10. ASSUME NEW r \in Reader PROVE ReadWhole(r)'
  BY <1>6, <1>7 DEF PackageInvariant, ReadWhole
<1> QED BY <1>2, <1>8, <1>9, <1>10 DEF PackageInvariant

LEMMA InitPackage == Init => PackageInvariant
<1> SUFFICES ASSUME Init PROVE PackageInvariant
  OBVIOUS
<1> USE PackageAssumption DEF Init
<1>1. NewPublisher \in PublisherState /\ NewReader \in ReaderState
  BY DEF NewPublisher, NewReader, PublisherState, ReaderState, File, Early
<1>2. Typed BY <1>1 DEF Typed
<1>3. ASSUME NEW p \in Publisher PROVE Row(p)
  BY DEF NewPublisher, Row, Unmade, Working, FirstFile, SecondFile, Named, Created, Cleaned, Has, At,
         Early, Making, Busy, Cleaning, Name, File, Failure
<1>4. \A r \in Reader : ReadWhole(r) BY DEF ReadWhole, NewReader
<1> QED BY <1>2, <1>3, <1>4 DEF PackageInvariant

LEMMA NextPackage == PackageInvariant /\ [Next]_pvars => PackageInvariant'
<1> SUFFICES ASSUME PackageInvariant, [Next]_pvars PROVE PackageInvariant'
  OBVIOUS
<1>1. CASE UNCHANGED pvars
  BY <1>1 DEF pvars, PackageInvariant, Typed, Row, Unmade, Working, FirstFile, SecondFile, Named,
              Created, Cleaned, ReadWhole, Has, At, Whole
<1>2. CASE Next
  BY <1>2, PublishInvariant, VerifyInvariant, InterruptInvariant, DiscardInvariant, LossInvariant DEF Next
<1> QED BY <1>1, <1>2

LEMMA PackageCorrect == Spec => []PackageInvariant
BY InitPackage, NextPackage, PTL DEF Spec

----------------------------------------------------------------------------
(* What the commands promise.                                              *)

\* A directory with the two final names holds both files, synchronized: the manifest is
\* linked last, and no failure, interruption or loss of power names it before.
THEOREM CommitMarkerCorrect == Spec => []CommitMarker
<1>1. PackageInvariant => CommitMarker
  BY DEF PackageInvariant, Row, Named, CommitMarker, Complete
<1> QED BY <1>1, PackageCorrect, PTL

\* What create reported stays where it is, complete, whatever the other commands do and
\* however often the power fails.
THEOREM CreatedCorrect == Spec => []CreatedLasts
<1>1. PackageInvariant => CreatedLasts BY DEF PackageInvariant, Row, Created, CreatedLasts
<1> QED BY <1>1, PackageCorrect, PTL

\* A create that failed in one call has removed its files and its directory.
THEOREM FailuresCorrect == Spec => []FailuresClean
<1>1. PackageInvariant => FailuresClean
  BY DEF PackageInvariant, Row, Cleaned, FailuresClean, Failure
<1> QED BY <1>1, PackageCorrect, PTL

\* What verify accepts was whole when it was read, and no loss of power can tear it.
THEOREM VerifiedCorrect == Spec => []VerifiedWasWhole
<1>1. PackageInvariant => VerifiedWasWhole BY DEF PackageInvariant, ReadWhole, VerifiedWasWhole
<1> QED BY <1>1, PackageCorrect, PTL
=============================================================================
