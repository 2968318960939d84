----------------------------- MODULE Disclosure -----------------------------
(***************************************************************************)
(* What leaves the server of the reads of a CPE: the anonymised evidence   *)
(* that is stored with the answer of an operation created for it, and is   *)
(* verified off line, and the export of the stored results, which several  *)
(* statements read under one snapshot while the queue goes on.             *)
(***************************************************************************)
EXTENDS ReadQueue

Seqs == INSTANCE SequencesExt

CONSTANTS
  EvidenceKeys,   \* the keys whose operations are created with capture_evidence
  Private,        \* the fields whose texts are addresses: ipv4, ipv6, dns, mac
  Addresses,      \* the addresses a text of such a field names, in its order
  Padded,         \* the telemetry leaves this CPE may end with a carriage return
  OutOfRange,     \* the optical leaves whose unsafe text is a number, but out of range
  Prefixes,       \* the prefixes exports are asked for
  Under,          \* the paths that start with a prefix
  HistoryLimit,   \* how many recent operations an export lists: 256
  MaxEntries,     \* how many entries of the catalog, or values, it may have: 4096
  MaxReferences   \* how many operations it may refer to: 512

Alias == "alias"          \* a text of addresses reserved for documentation
Address == [version : {4, 6, 48}, index : Nat]
NoBundle == [made |-> FALSE]

\* No text of a CPE is the one that stands for its addresses.  The names it lists have no
\* text, and a fault names nothing.
ASSUME DisclosureAssumption ==
  /\ EvidenceKeys \subseteq Key /\ Private \subseteq Field /\ Alias \notin Value
  /\ Addresses \in [Value -> Seq(Address)]
  /\ Padded \subseteq {p \in Path : FieldOf[p] # NoField /\ FieldOf[p] \notin Private}
  /\ OutOfRange \subseteq Path /\ Under \in [Prefixes -> SUBSET Path]
  /\ HistoryLimit \in Nat /\ MaxEntries \in Nat /\ MaxReferences \in Nat
  /\ \A r \in Answers : /\ r.kind = "fault" => r.content = Nothing
                        /\ r.kind = "names" => \A p \in DOMAIN r.content : r.content[p] = Listed

VARIABLES
  evidence,  \* of each operation: when it was created, and its evidence_payload
  export     \* the request for an export: where it is and what it has read
disclosed == <<db, clock, evidence, export>>

NoExport == [at |-> "idle", prefix |-> NoPath, snapshot |-> [none |-> TRUE],
             catalog |-> <<>>, values |-> <<>>, recent |-> {}, operations |-> <<>>]

DisclosureInit ==
  /\ Init
  /\ evidence = [o \in OpId |-> [created |-> 0, bundle |-> NoBundle]]
  /\ export = NoExport

----------------------------------------------------------------------------
(* build_query_evidence.                                                   *)

\* A parameter of a reply: its text, the addresses that stand for it, and whether the text
\* ends with a carriage return, which nothing but the XML of a bundle tells apart.
Received(content, padded) ==
  [p \in DOMAIN content |-> [text |-> content[p], aliases |-> <<>>, padded |-> p \in padded]]

\* The plan of a read, with the CPE it was made for.
PlanOf(ask, cpe) ==
  [target |-> cpe, kind |-> ask.kind, path |-> ask.path,
   names |-> IF ask.path # NoPath THEN ask.names ELSE PlanNames(ask)]

\* Safe strings of device_info, what observe accepts of a WAN interface, numbers of an
\* optical one; every approved name of a discovery.
Legible(plan, p, text) ==
  \/ plan.kind = "names"
  \/ text \in Value \cup {Alias}
  \/ text = NoValue /\ (plan.path = NoPath \/ OfWan(p))
  \/ /\ plan.path # NoPath /\ ~ OfWan(p)
     /\ text = Untyped \/ (text = Unsafe /\ p \in OutOfRange)

Replaced(plan, p, text) ==
  plan.kind = "values" /\ plan.path # NoPath /\ FieldOf[p] \in Private /\ text \in Value \cup {Alias}

Named(item) == IF item.text = Alias THEN item.aliases ELSE Addresses[item.text]

\* The parameters are taken by name, in whatever order the CPE sent them.
Mutant_AsSent(paths, sent) == SelectSeq(sent, LAMBDA p : p \in paths)
InOrder(paths, sent) == Sorted[paths]

\* address: the distinct addresses of each version are numbered as they appear.
Mutant_OneAlias(seen, a) == [version |-> a.version, index |-> 1]
AliasOf(seen, a) ==
  LET first == CHOOSE i \in DOMAIN seen : seen[i] = a /\ \A k \in 1..(i - 1) : seen[k] # a
  IN [version |-> a.version,
      index |-> Cardinality({seen[k] : k \in {i \in 1..first : seen[i].version = a.version}})]

Build(plan, kind, items, sent, at, count) ==
  LET retained == {p \in DOMAIN items : Legible(plan, p, items[p].text)}
      replaced == {p \in retained : Replaced(plan, p, items[p].text)}
      order == InOrder(replaced, sent)
      seen == Seqs!FlattenSeq([i \in DOMAIN order |-> Named(items[order[i]])])
      aliases(p) == [i \in DOMAIN Named(items[p]) |-> AliasOf(seen, Named(items[p])[i])]
  IN [made |-> TRUE, plan |-> plan, kind |-> kind, at |-> at, count |-> count,
      response |-> [p \in retained |->
        IF p \in replaced THEN [text |-> Alias, aliases |-> aliases(p), padded |-> FALSE]
                          ELSE items[p]],
      omitted |-> IF kind = "values" THEN plan.names \ retained ELSE {},
      substituted |-> replaced]

\* policy.evidence: what a discovery lists is reduced to the approved names first.
Approved(plan, items) ==
  {p \in DOMAIN items : plan.kind = "names" =>
     p \in IF plan.path = NoPath THEN plan.names ELSE Retained}
Projected(plan, items) == [p \in Approved(plan, items) |-> items[p]]

Capturable(key, reason) == key \in EvidenceKeys /\ reason # "unexpected_parameters"

\* verify_query_evidence: the plan is made again, the XML of the response is read, where a
\* carriage return has become a line feed, and the bundle built of both must be the same.
Replanned(plan) ==
  /\ plan.target \in Reviewed
  /\ IF plan.path = NoPath THEN plan.names \subseteq Readable
     ELSE IF plan.kind = "names" THEN plan.path \in Concrete \cap Object
     ELSE Selected(plan.path, plan.names) = plan.names /\ Selectable(plan.path, plan.names)

Verified(bundle) ==
  LET plan == bundle.plan
      items == [p \in DOMAIN bundle.response |-> [bundle.response[p] EXCEPT !.padded = FALSE]]
  IN /\ Replanned(plan)
     /\ bundle.kind \in {plan.kind, "fault"}
     /\ Cardinality(DOMAIN items) <= bundle.count
     /\ bundle.kind = "values" => bundle.count = Cardinality(plan.names)
     /\ bundle.kind = "names" => \A p \in DOMAIN items : Parent[p] = PlanPath(plan)
     /\ bundle.kind = "values" => DOMAIN items \subseteq plan.names
     /\ bundle = Build(plan, bundle.kind, Projected(plan, items), Sorted[DOMAIN items],
                       bundle.at, bundle.count)

----------------------------------------------------------------------------
(* The queue, and what its transactions record for evidence.               *)

Created(now) ==
  [o \in OpId |-> IF db.ops[o].state = "absent" /\ db'.ops[o].state # "absent"
                  THEN [evidence[o] EXCEPT !.created = now] ELSE evidence[o]]

\* The answer of a captured operation is stored as evidence in the same transaction.
AcceptReply(s, id, r, now) ==
  /\ ReplyApplied(s, id, r, now)
  /\ \E o \in OpId, sent \in Seqs!SetToSeqs(DOMAIN r.content),
        padded \in SUBSET {p \in Padded \cap DOMAIN r.content : r.kind = "values"} :
       LET plan == PlanOf(db.ops[o].ask, db.cpe)
           items == Projected(plan, Received(r.content, padded))
       IN /\ db.ops[o].state = "dispatched" /\ db.ops[o].session = s
          /\ IF Capturable(db.ops[o].key, Reason(db.ops[o].ask, r))
             THEN /\ r.kind = "values" => DOMAIN items \subseteq plan.names
                  /\ evidence' = [Created(now) EXCEPT ![o].bundle =
                       Build(plan, r.kind, items, sent, now, Cardinality(DOMAIN r.content))]
             ELSE evidence' = Created(now)
  /\ UNCHANGED <<clock, export>>

Receives(now) ==
  /\ \E s \in SessionId :
       \/ \E inform \in Informs : Inform(s, inform, now)
       \/ \E id \in NextId :
            \/ Poll(s, id, now)
            \/ /\ \/ ReplyProfileChanged(s, id, now) \/ ReplyLate(s, id, now)
                  \/ \E r \in Answers : ReplyRepeated(s, id, r, now)
               /\ UNCHANGED clock
  /\ evidence' = Created(now)
  /\ UNCHANGED export

Administers(now) ==
  /\ Administer(now)
  /\ evidence' = Created(now)
  /\ UNCHANGED export

----------------------------------------------------------------------------
(* snapshot: one read-only transaction of five statements.                 *)

Existing(d) == {o \in OpId : d.ops[o].state # "absent"}

\* REPEATABLE READ: every statement sees the tables the first one saw.
Mutant_SeenCommitted(e) == db
Seen(e) == e.snapshot

OpenExport(prefix) ==
  /\ export.at = "idle" /\ db.cpe[Manufacturer] # NoValue
  /\ export' = [export EXCEPT !.at = "catalog", !.prefix = prefix, !.snapshot = db]
  /\ UNCHANGED <<db, clock, evidence>>

Matching(rows, prefix) == {p \in Under[prefix] : rows[p].op # NoOp}
Restricted(rows, prefix) == [p \in Matching(rows, prefix) |-> rows[p]]

ReadCatalog ==
  /\ export.at = "catalog"
  /\ export' = [export EXCEPT !.at = "values",
                              !.catalog = Restricted(Seen(export).catalog, export.prefix)]
  /\ UNCHANGED <<db, clock, evidence>>

ReadValues ==
  LET values == Restricted(Seen(export).values, export.prefix)
      excess == \/ Cardinality(DOMAIN export.catalog) > MaxEntries
                \/ Cardinality(DOMAIN values) > MaxEntries
  IN /\ export.at = "values"
     /\ export' = IF excess THEN [NoExport EXCEPT !.at = "refused"]
                  ELSE [export EXCEPT !.at = "history", !.values = values]
     /\ UNCHANGED <<db, clock, evidence>>

\* The operations created last; those of one instant are told apart by random identifiers.
Latest(d, n) ==
  {R \in SUBSET Existing(d) :
     /\ Cardinality(R) = IF Cardinality(Existing(d)) < n THEN Cardinality(Existing(d)) ELSE n
     /\ \A o \in R, p \in Existing(d) \ R : evidence[p].created <= evidence[o].created}

Referenced(e) ==
  {e.catalog[p].op : p \in DOMAIN e.catalog} \cup {e.values[p].op : p \in DOMAIN e.values}

ReadHistory ==
  /\ export.at = "history"
  /\ \E recent \in Latest(Seen(export), HistoryLimit) :
       export' = IF Cardinality(Referenced(export) \cup recent) > MaxReferences
                 THEN [NoExport EXCEPT !.at = "refused"]
                 ELSE [export EXCEPT !.at = "operations", !.recent = recent]
  /\ UNCHANGED <<db, clock, evidence>>

\* The document is a function of what was read: what was seen of the tables is given up.
ReadOperations ==
  /\ export.at = "operations"
  /\ export' = [export EXCEPT !.at = "done", !.snapshot = NoExport.snapshot,
       !.operations = [o \in (Referenced(export) \cup export.recent) \cap Existing(Seen(export)) |->
                         Seen(export).ops[o]]]
  /\ UNCHANGED <<db, clock, evidence>>

\* export_document: what an answer reported and no retained value says any more.
Omitted(e) ==
  {entry \in (DOMAIN e.operations) \X Under[e.prefix] :
     LET o == entry[1]
         p == entry[2]
     IN /\ e.operations[o].ask.kind = "values" /\ p \in DOMAIN e.operations[o].result
        /\ p \in DOMAIN e.values => e.values[p].op # o}

\* export_xml: the entries an operation has a response for.  A fault is told by its code
\* only, and the kind of the operation chooses between names and values.
Responded(e, o) ==
  IF e.operations[o].reason = "cpe_fault" THEN {}
  ELSE IF e.operations[o].ask.kind = "names"
  THEN {p \in DOMAIN e.catalog : e.catalog[p].op = o}
  ELSE {p \in DOMAIN e.values : e.values[p].op = o}

----------------------------------------------------------------------------
DisclosureNext ==
  \/ Tick /\ UNCHANGED <<evidence, export>>
  \/ \E now \in Times :
       \/ Receives(now) \/ Administers(now)
       \/ \E s \in SessionId, id \in NextId, r \in Answers : AcceptReply(s, id, r, now)
  \/ \E prefix \in Prefixes : OpenExport(prefix)
  \/ ReadCatalog \/ ReadValues \/ ReadHistory \/ ReadOperations

DisclosureSpec == DisclosureInit /\ [][DisclosureNext]_disclosed

----------------------------------------------------------------------------
(* Properties.                                                             *)

\* Every bundle the server stored is accepted by its own verifier: numbering the addresses
\* again gives the same numbers, whatever order the CPE sent them in.  The only exception
\* are telemetry texts that end with a carriage return: XML does not keep it.
EvidenceVerifies ==
  \A o \in OpId :
    LET bundle == evidence[o].bundle
    IN bundle.made =>
         (Verified(bundle) <=> \A p \in DOMAIN bundle.response : ~ bundle.response[p].padded)

\* A leaf of an optical interface.
Optical(ask, p) == Telemetric(ask) /\ ~ OfWan(p)

\* An operation created for it has evidence exactly if an answer ended it that was
\* correlated and named what was asked: of that answer and instant, whatever is repeated
\* after it.  What the bundle says of a leaf is what the result says, where two texts name
\* one address if and only if they share an alias.  Of an optical leaf the bundle leaves out
\* what is empty, and has the number of what is out of range.
EvidenceFaithful ==
  \A o \in OpId :
    LET op == db.ops[o]
        bundle == evidence[o].bundle
        shared == DOMAIN bundle.response \cap DOMAIN op.result
        raw(p) == Addresses[op.result[p]]
        unread == {p \in DOMAIN op.result : Optical(op.ask, p) /\ op.result[p] = NoValue}
    IN /\ bundle.made <=> /\ op.key \in EvidenceKeys /\ op.state \in Answered
                          /\ op.reason \notin {"unexpected_parameters", "profile_changed"}
       /\ bundle.made =>
            /\ bundle.at = op.finished
            /\ op.state = "succeeded" => DOMAIN bundle.response = DOMAIN op.result \ unread
            /\ \A p \in shared \ (bundle.substituted \cup unread) :
                 bundle.response[p].text = op.result[p]
            /\ \A p, q \in shared \cap bundle.substituted :
                 \A i \in DOMAIN raw(p), k \in DOMAIN raw(q) :
                   raw(p)[i] = raw(q)[k] <=>
                     bundle.response[p].aliases[i] = bundle.response[q].aliases[k]

\* An export is of one moment.  The operation each entry refers to is in it, succeeded when
\* the entry was observed, and has a response that holds the entry; and what a successful
\* read of DeviceInfo reported is only omitted if a later reading replaced it.
ExportCoherent ==
  export.at = "done" =>
    LET ops == export.operations
    IN /\ \A rows \in {export.catalog, export.values} : \A p \in DOMAIN rows :
            /\ rows[p].op \in DOMAIN ops
            /\ ops[rows[p].op].state = "succeeded" /\ ops[rows[p].op].finished = rows[p].at
            /\ p \in Responded(export, rows[p].op)
       /\ \A entry \in Omitted(export) :
            LET op == ops[entry[1]]
            IN op.state = "succeeded" /\ op.ask.path = NoPath =>
                 /\ entry[2] \in DOMAIN export.values
                 /\ export.values[entry[2]].at >= op.finished
=============================================================================
