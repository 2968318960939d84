-------------------------- MODULE EvidencePackage --------------------------
(***************************************************************************)
(* The evidence packages of evidence_cli: commands that publish a private  *)
(* directory with a reconstruction of an Inform and its manifest, and      *)
(* commands that verify the one they find, all under one output path.      *)
(*                                                                         *)
(* A publisher reserves the path with mkdir, writes both files and links   *)
(* the manifest under its final name last; if a call fails it removes what *)
(* it made.  Every call may fail, a command may be interrupted at any of   *)
(* them, and the machine may lose its power.  Two files, one directory a   *)
(* publisher: a directory is called by its publisher.                      *)
(***************************************************************************)
EXTENDS Naturals

CONSTANTS
  Publisher,  \* create commands with this output path
  Reader,     \* verify commands
  MaxLosses   \* bound: how often the power fails

ASSUME PackageAssumption ==
  MaxLosses \in Nat /\ {"nothing", "foreign"} \cap Publisher = {}

VARIABLES
  publishers,  \* where each create command is, the calls that failed it, what it printed
  readers,     \* where each verify command is, the directory it opened, what it printed
  content,     \* what the two files of each directory hold
  names,       \* the names each directory has
  unsure,      \* those the disk may still have or lack
  path,        \* the directory the output path names
  disk,        \* the directories it may name after a loss of power
  losses
pvars == <<publishers, readers, content, names, unsure, path, disk, losses>>
files == <<content, names, unsure>>
place == <<path, disk>>

File == {"xml", "manifest"}
Name == {"inform.xml", ".manifest.tmp", "manifest.json"}
Complete == {"inform.xml", "manifest.json"}
NameOf(file) == IF file = "xml" THEN "inform.xml" ELSE ".manifest.tmp"

NewPublisher == [step |-> "build", file |-> "xml", faults |-> 0, outcome |-> "none"]
NewReader == [step |-> "open", of |-> "nothing", outcome |-> "none"]

\* The path may name a directory or a file of somebody else.
Init ==
  /\ publishers = [p \in Publisher |-> NewPublisher]
  /\ readers = [r \in Reader |-> NewReader]
  /\ content = [p \in Publisher |-> [f \in File |-> "none"]]
  /\ names = [p \in Publisher |-> {}] /\ unsure = [p \in Publisher |-> {}]
  /\ path \in {"nothing", "foreign"} /\ disk = {path}
  /\ losses = 0

----------------------------------------------------------------------------
(* create: publish_package, call by call.                                  *)

Goes(p, from, to) ==
  /\ publishers[p].step = from
  /\ publishers' = [publishers EXCEPT ![p] = to]
  /\ UNCHANGED <<readers, losses>>
To(p, step) == [publishers[p] EXCEPT !.step = step]
Ends(p, outcome) == [publishers[p] EXCEPT !.step = "ended", !.outcome = outcome]

\* build_package, its own verification and the checks of the parent directory.
Build(p) ==
  /\ \/ Goes(p, "build", To(p, "reserve"))
     \/ Goes(p, "build", Ends(p, "evidence_invalid_or_unavailable"))
  /\ UNCHANGED <<files, place>>

Reserve(p) ==
  \/ /\ path = "nothing" /\ path' = p /\ disk' = disk \cup {p}
     /\ Goes(p, "reserve", To(p, "directory"))
     /\ UNCHANGED files
  \/ /\ \/ path # "nothing" /\ Goes(p, "reserve", Ends(p, "evidence_already_exists"))
        \/ Goes(p, "reserve", Ends(p, "evidence_invalid_or_unavailable"))
     /\ UNCHANGED <<files, place>>

OpenDirectory(p) == Goes(p, "directory", To(p, "create")) /\ UNCHANGED <<files, place>>

Renamed(p, S) ==
  /\ names' = [names EXCEPT ![p] = S]
  /\ unsure' = [unsure EXCEPT ![p] = @ \cup (names[p] \ S) \cup (S \ names[p])]
Holds(p, what) == content' = [content EXCEPT ![p][publishers[p].file] = what]

Mutant_CreateFinal(p) ==
  /\ Goes(p, "create", To(p, "write")) /\ Holds(p, "partial")
  /\ Renamed(p, names[p] \cup {IF publishers[p].file = "xml" THEN "inform.xml" ELSE "manifest.json"})
  /\ UNCHANGED place
Create(p) ==
  /\ Goes(p, "create", To(p, "write")) /\ Holds(p, "partial")
  /\ Renamed(p, names[p] \cup {NameOf(publishers[p].file)})
  /\ UNCHANGED place

Write(p) ==
  /\ Goes(p, "write", To(p, "sync")) /\ Holds(p, "cached")
  /\ UNCHANGED <<names, unsure, place>>

Written(p) ==
  IF publishers[p].file = "xml" THEN [publishers[p] EXCEPT !.step = "create", !.file = "manifest"]
  ELSE To(p, "link")
Mutant_SyncNothing(p) == Goes(p, "sync", Written(p)) /\ UNCHANGED <<files, place>>
Sync(p) ==
  /\ Goes(p, "sync", Written(p)) /\ Holds(p, "durable")
  /\ UNCHANGED <<names, unsure, place>>

Link(p) ==
  /\ Goes(p, "link", To(p, "unlink")) /\ Renamed(p, names[p] \cup {"manifest.json"})
  /\ UNCHANGED <<content, place>>

Unlink(p) ==
  /\ Goes(p, "unlink", To(p, "sync_directory")) /\ Renamed(p, names[p] \ {".manifest.tmp"})
  /\ UNCHANGED <<content, place>>

SyncDirectory(p) ==
  /\ Goes(p, "sync_directory", To(p, "sync_parent"))
  /\ unsure' = [unsure EXCEPT ![p] = {}]
  /\ UNCHANGED <<content, names, place>>

Mutant_SyncParentNever(p) ==
  Goes(p, "sync_parent", Ends(p, "created")) /\ UNCHANGED <<files, place>>
SyncParent(p) ==
  /\ Goes(p, "sync_parent", Ends(p, "created"))
  /\ disk' = {path}
  /\ UNCHANGED <<files, path>>

\* The clean-up unlinks the three names in order, those that are there, and the directory,
\* unless it could not be opened.
Fail(p) ==
  /\ publishers[p].step \in {"directory", "create", "write", "sync", "link", "unlink",
                             "sync_directory", "sync_parent"}
  /\ publishers' = [publishers EXCEPT ![p] =
       [publishers[p] EXCEPT !.step = IF publishers[p].step = "directory" THEN "rmdir" ELSE "manifest.json",
                             !.faults = publishers[p].faults + 1]]
  /\ UNCHANGED <<readers, losses, files, place>>

Mutant_DropTwo(name) == IF name = "manifest.json" THEN "inform.xml" ELSE "rmdir"
AfterDrop(name) ==
  CASE name = "manifest.json" -> ".manifest.tmp"
    [] name = ".manifest.tmp" -> "inform.xml"
    [] OTHER -> "rmdir"
Drop(p) ==
  LET name == publishers[p].step
  IN /\ name \in Name
     /\ Goes(p, name, To(p, AfterDrop(name))) /\ Renamed(p, names[p] \ {name})
     /\ UNCHANGED <<content, place>>

\* rmdir goes by the name of the path, and only removes an empty directory.
RemoveDirectory(p) ==
  /\ Goes(p, "rmdir", Ends(p, "evidence_invalid_or_unavailable"))
  /\ IF path \in Publisher /\ names[path] = {}
     THEN path' = "nothing" /\ disk' = disk \cup {"nothing"}
     ELSE UNCHANGED place
  /\ UNCHANGED files

FailCleanup(p) ==
  /\ publishers[p].step \in Name \cup {"rmdir"}
  /\ publishers' = [publishers EXCEPT ![p] =
       [Ends(p, "evidence_invalid_or_unavailable") EXCEPT !.faults = publishers[p].faults + 1]]
  /\ UNCHANGED <<readers, losses, files, place>>

Publish(p) ==
  \/ Build(p) \/ Reserve(p) \/ OpenDirectory(p) \/ Create(p) \/ Write(p) \/ Sync(p) \/ Link(p)
  \/ Unlink(p) \/ SyncDirectory(p) \/ SyncParent(p)
  \/ Fail(p) \/ Drop(p) \/ RemoveDirectory(p) \/ FailCleanup(p)

----------------------------------------------------------------------------
(* verify: load_package, through the directory it has opened.              *)

Reads(r, from, ok, to) ==
  /\ readers[r].step = from
  /\ readers' = [readers EXCEPT ![r] =
       IF ok THEN to ELSE [readers[r] EXCEPT !.step = "ended", !.outcome = "invalid"]]
  /\ UNCHANGED <<publishers, losses, files, place>>

OpenPackage(r) ==
  Reads(r, "open", path \in Publisher, [readers[r] EXCEPT !.step = "list", !.of = path])

List(r) ==
  Reads(r, "list", names[readers[r].of] = Complete, [readers[r] EXCEPT !.step = "manifest"])

\* A file that is there can be read, whole or not; verify_package accepts what is whole.
Legible(r, file, name) ==
  name \in names[readers[r].of] /\ content[readers[r].of][file] \in {"cached", "durable"}

ReadManifest(r) ==
  Reads(r, "manifest", Legible(r, "manifest", "manifest.json"), [readers[r] EXCEPT !.step = "xml"])

ReadXml(r) ==
  Reads(r, "xml", Legible(r, "xml", "inform.xml"),
        [readers[r] EXCEPT !.step = "ended", !.outcome = "verified"])

Verify(r) == OpenPackage(r) \/ List(r) \/ ReadManifest(r) \/ ReadXml(r)

----------------------------------------------------------------------------
(* What happens around the commands.                                       *)

\* Commands end; those that have not begun are given later.
Stopped(row, P, begin) ==
  [p \in P |-> IF row[p].step = begin THEN row[p] ELSE [row[p] EXCEPT !.step = "ended"]]

Interrupt(p) ==
  /\ publishers[p].step # "ended"
  /\ publishers' = [publishers EXCEPT ![p].step = "ended"]
  /\ UNCHANGED <<readers, losses, files, place>>

\* Names and data that were not synchronized may or may not be on the disk.
PowerLoss ==
  /\ losses < MaxLosses /\ losses' = losses + 1
  /\ publishers' = Stopped(publishers, Publisher, "build")
  /\ readers' = Stopped(readers, Reader, "open")
  /\ path' \in disk /\ disk' = {path'}
  /\ \E found \in SUBSET Name :
       names' = [p \in Publisher |->
         IF p = path' THEN (names[p] \ unsure[p]) \cup (found \cap unsure[p]) ELSE {}]
  /\ unsure' = [p \in Publisher |-> {}]
  /\ \E kept \in SUBSET File :
       content' = [p \in Publisher |-> [f \in File |->
         IF content[p][f] # "cached" THEN content[p][f]
         ELSE IF f \in kept THEN "durable" ELSE "partial"]]

\* The operator removes what a command left behind, to try again.
Discard(p) ==
  /\ path = p /\ publishers[p].step = "ended" /\ publishers[p].outcome # "created"
  /\ path' = "nothing" /\ disk' = disk \cup {"nothing"}
  /\ Renamed(p, {})
  /\ UNCHANGED <<publishers, readers, content, losses>>

Next ==
  \/ \E p \in Publisher : Publish(p) \/ Interrupt(p) \/ Discard(p)
  \/ \E r \in Reader : Verify(r)
  \/ PowerLoss

Spec == Init /\ [][Next]_pvars

----------------------------------------------------------------------------
Whole(p) == \A f \in File : content[p][f] = "durable"

\* manifest.json is the commit marker (EVIDENCE_PACKAGE.md:78-81): a directory with the two
\* final names is whole and on the disk, also after an interruption or a loss of power.
CommitMarker == \A p \in Publisher : names[p] = Complete => Whole(p)

\* A package reported as created stays at its path, complete, whatever other commands do
\* and though the power fails: existing destinations are never overwritten
\* (EVIDENCE_PACKAGE.md:22-23).
CreatedLasts ==
  \A p \in Publisher : publishers[p].outcome = "created" =>
    path = p /\ names[p] = Complete /\ Whole(p)

\* Ordinary failures remove the files and the directory (EVIDENCE_PACKAGE.md:81): after one
\* failed call nothing of the publisher is left.
FailuresClean ==
  \A p \in Publisher :
    /\ publishers[p].outcome = "evidence_invalid_or_unavailable"
    /\ publishers[p].faults <= 1 /\ losses = 0
    => path # p /\ names[p] = {}

\* What a verify command accepts was read whole from one directory whose two files no loss
\* of power can tear, even if its publisher is removing it at the same time.
VerifiedWasWhole ==
  \A r \in Reader : readers[r].outcome = "verified" => Whole(readers[r].of)
=============================================================================
