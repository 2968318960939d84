----------------------------- MODULE Inventory -----------------------------
(***************************************************************************)
(* The inventory of registered CPEs: what the normalisers make of the      *)
(* parameters of an Inform or of a device_info read, how update_inventory  *)
(* stores an observation and the last valid value with their provenance,   *)
(* and the views that PostgresCpeInventoryRepository reads in several      *)
(* statements while Informs keep arriving.                                 *)
(*                                                                         *)
(* A writer is one transaction that locks the row of its CPE: one step.    *)
(* It carries the `now` of its receiver, taken before the lock, so commits *)
(* are up to MaxLag out of order.  A reader takes a step per statement.    *)
(* The approval that a change of firmware withdraws, and the sessions that *)
(* wait for an answer, are in ReadQueue.  The envelopes are of version 1.0 *)
(* and the fields are reported under DeviceInfo of either root.            *)
(***************************************************************************)
EXTENDS Naturals, FiniteSets

CONSTANTS
  Cpe,             \* identities: OUI, product class and serial number
  ClassOf,         \* the product class of an identity
  SessionId,       \* identifiers of cwmp_sessions rows
  OpId,            \* identifiers of device_info reads
  Reader,          \* clients of the inventory views
  Raw,             \* texts as a CPE sends them
  Value,           \* texts as they are stored
  Strip,           \* the text without its outer spaces
  Defect,          \* why a text is refused: "none" if it is not
  Rank,            \* the order of the texts
  Manufacturer,    \* what Informs name as their manufacturer
  Profiles,        \* the reviewed profiles
  Legacy,          \* the values CPEs had before provenance was recorded
  Informs,         \* the Informs a CPE may send
  Reads,           \* what a CPE may answer to a device_info read
  SessionSeconds,  \* how long a session lives: 60 seconds
  PageLimit,       \* the limit of a page
  Offsets,         \* the offsets clients ask for
  MaxClock,        \* bound of the clock
  MaxLag           \* bound: how old the `now` of a commit may be

Field == {"model", "firmware", "hardware"}
Root == {"Device", "InternetGatewayDevice"}
ProductClass == "DeviceId.ProductClass"
Generic == "generic-device-info"
Reason == {"empty", "too_long", "control_character", "conflicting_values"}
NoValue == "no_value"
NoSource == "no_source"
NoProfile == "no_profile"
NoOp == "no_operation"
NoCpe == 0
Anyone == "any_manufacturer"

Parameter == [root : Root, field : Field, raw : Raw]

ASSUME InventoryIds ==
  /\ NoOp \notin OpId /\ Cpe \subseteq Nat \ {NoCpe} /\ SessionId \subseteq Nat
  /\ IsFiniteSet(Cpe) /\ IsFiniteSet(SessionId)
  /\ NoValue \notin Value /\ Anyone \notin Manufacturer
  /\ ClassOf \in [Cpe -> Value]
  /\ Legacy \in [Cpe -> [Field -> Value \cup {NoValue}]]
ASSUME InventoryTexts ==
  /\ Strip \in [Raw -> Value] /\ Rank \in [Raw -> Nat]
  /\ Defect \in [Raw -> {"none"} \cup (Reason \ {"conflicting_values"})]
  /\ Generic \notin {p.id : p \in Profiles} /\ NoProfile \notin {p.id : p \in Profiles}
  /\ \A p \in Profiles : /\ p.class \in Value /\ p.firmware \in Value /\ p.priority \in Nat
                         /\ p.models \subseteq {p.class, NoValue}
  /\ \A p, q \in Profiles : p.priority = q.priority => p = q
ASSUME InventoryInputs ==
  /\ \A i \in Informs : i.manufacturer \in Manufacturer /\ i.params \subseteq Parameter
                        /\ i.events \in Nat
  /\ \A r \in Reads : /\ r \subseteq Parameter /\ {q.field : q \in r} = Field
                      /\ \A q \in r : q.root = "InternetGatewayDevice"
ASSUME InventoryTimes ==
  SessionSeconds \in Nat \ {0} /\ PageLimit \in Nat \ {0} /\ Offsets \subseteq Nat
  /\ MaxClock \in Nat /\ MaxLag \in Nat

VARIABLES
  db,      \* the committed rows
  clock,   \* the clock of the servers
  reader,  \* what each client of the views has read so far
  heard    \* history: the messages that were committed
vars == <<db, clock, reader, heard>>

Times == {t \in 1..clock : clock - t <= MaxLag}

----------------------------------------------------------------------------
(* Normalisation.  A ParameterList is the set of its entries: the code     *)
(* sorts them, and a repeated entry changes nothing.                       *)

NotReported == [state |-> "not_reported", value |-> NoValue, source |-> NoSource, reason |-> "none"]
Invalid(source, reason) ==
  [state |-> "invalid", value |-> NoValue, source |-> source, reason |-> reason]
Valid(value, source) == [state |-> "valid", value |-> value, source |-> source, reason |-> "none"]

\* The path that comes first, and of its entries the one whose text does.
Source(said) == IF \E p \in said : p.root = "Device" THEN "Device" ELSE "InternetGatewayDevice"
First(said) ==
  CHOOSE p \in said : /\ p.root = Source(said)
                      /\ \A q \in said : q.root = p.root => Rank[p.raw] <= Rank[q.raw]

Said(params, f) == {p \in params : p.field = f}
Refused(said) == {p \in said : Defect[p.raw] # "none"}

\* _text: one refused entry refuses the field, and so do entries that differ.
Mutant_TextIgnoresRefused(params, f) ==
  LET said == Said(params, f) \ Refused(Said(params, f))
  IN IF said = {} THEN NotReported ELSE Valid(Strip[First(said).raw], Source(said))
Text(params, f) ==
  LET said == Said(params, f)
      refused == Refused(said)
  IN IF said = {} THEN NotReported
     ELSE IF refused # {} THEN Invalid(Source(refused), Defect[First(refused).raw])
     ELSE IF \E p, q \in said : Strip[p.raw] # Strip[q.raw]
          THEN Invalid(NoSource, "conflicting_values")
          ELSE Valid(Strip[(CHOOSE p \in said : TRUE).raw], Source(said))

Normalized(params) == [f \in Field |-> Text(params, f)]

\* HuaweiEG8145X6Profile.matches: the same message names the reviewed firmware, and no other model.
Agrees(p, fields) ==
  /\ fields["firmware"].state = "valid" /\ fields["firmware"].value = p.firmware
  /\ fields["model"].state = "valid" => fields["model"].value = p.class
Matches(p, c, inform, fields) ==
  /\ p.manufacturer = inform.manufacturer /\ p.class = ClassOf[c]
  /\ Agrees(p, fields)
  /\ \E q \in inform.params : q.root = "InternetGatewayDevice" /\ q.field = "firmware"

\* The matching profile that no other outranks, if any matches.
Best(c, inform, fields) ==
  {p \in Profiles : /\ Matches(p, c, inform, fields)
                    /\ \A q \in Profiles : Matches(q, c, inform, fields) => q.priority <= p.priority}

\* ProfileInventoryNormalizer.normalize: the best profile completes what was reported, and
\* without one the generic normaliser has the last word.
WithClass(c, fields) ==
  [fields EXCEPT !["model"] = IF @.state = "not_reported" THEN Valid(ClassOf[c], ProductClass) ELSE @]
NormalizeInform(c, inform) ==
  LET fields == Normalized(inform.params)
      best == Best(c, inform, fields)
  IN IF best = {} THEN [profile |-> Generic, fields |-> fields]
     ELSE [profile |-> (CHOOSE p \in best : TRUE).id, fields |-> WithClass(c, fields)]

\* HuaweiQueryPolicy.normalize: the answer of a read that profile p planned.
NormalizeRead(p, params) ==
  LET fields == Normalized(params)
  IN [profile |-> IF Agrees(p, fields) THEN p.id ELSE Generic, fields |-> fields]

----------------------------------------------------------------------------
(* Writers.                                                                *)

NoOrigin == [source |-> NoSource, profile |-> NoProfile, at |-> 0, op |-> NoOp]
NoRow == [state |-> "absent", reason |-> "none", last |-> NoOrigin, value |-> NoOrigin]
NoSession == [state |-> "absent", cpe |-> NoCpe, started |-> 0, expires |-> 0, events |-> 0]

Registered(d, c) == d.cpes[c].last_seen > 0

Init ==
  /\ clock = 1 /\ heard = {}
  /\ db = [cpes |-> [c \in Cpe |->
                      [manufacturer |-> CHOOSE m \in Manufacturer : TRUE, columns |-> Legacy[c],
                       last_seen |-> IF \E f \in Field : Legacy[c][f] # NoValue THEN 1 ELSE 0]],
           rows |-> [c \in Cpe |-> [f \in Field |-> NoRow]],
           sessions |-> [s \in SessionId |-> NoSession]]
  /\ reader = [r \in Reader |-> [at |-> "idle"]]

\* update_inventory: an observation counts if it is newer than the last one of its field; the
\* value, and what is known of it, changes with a valid one only.
Mutant_CountsTie(d, c, fields, now) ==
  {f \in Field : fields[f].state # "not_reported" /\ now >= d.rows[c][f].last.at}
Counts(d, c, fields, now) ==
  {f \in Field : fields[f].state # "not_reported" /\ now > d.rows[c][f].last.at}

Stored(row, observation, profile, op, now) ==
  LET origin == [source |-> observation.source, profile |-> profile, at |-> now, op |-> op]
  IN [state |-> observation.state, reason |-> observation.reason, last |-> origin,
      value |-> IF observation.state = "valid" THEN origin ELSE row.value]

UpdateInventory(d, c, inventory, op, now) ==
  LET counts == Counts(d, c, inventory.fields, now)
      valid == {f \in counts : inventory.fields[f].state = "valid"}
  IN [d EXCEPT
        !.rows[c] = [f \in Field |->
           IF f \in counts
           THEN Stored(d.rows[c][f], inventory.fields[f], inventory.profile, op, now)
           ELSE d.rows[c][f]],
        !.cpes[c] = [@ EXCEPT !.columns = [f \in Field |->
           IF f \in valid THEN inventory.fields[f].value ELSE d.cpes[c].columns[f]]]]

\* The upsert of accept.
Upsert(d, c, inform, now) ==
  LET seen == d.cpes[c].last_seen
  IN [d EXCEPT !.cpes[c] = [@ EXCEPT !.manufacturer = inform.manufacturer,
                                     !.last_seen = IF now > seen THEN now ELSE seen]]

Message(c, params, maker, op, now) ==
  [cpe |-> c, params |-> params, manufacturer |-> maker, op |-> op, at |-> now]

\* accept, for an Inform without a cookie: the CPE, its inventory, the session and its
\* events in one transaction.  With a cookie it only checks the session.
Inform(c, s, inform, now) ==
  LET inventory == NormalizeInform(c, inform)
  IN /\ db.sessions[s].state = "absent"
     /\ db' = [UpdateInventory(Upsert(db, c, inform, now), c, inventory, NoOp, now)
               EXCEPT !.sessions[s] = [state |-> "awaiting_empty", cpe |-> c, started |-> now,
                                       expires |-> now + SessionSeconds, events |-> inform.events]]
     /\ heard' = heard \cup {Message(c, inform.params, inform.manufacturer, NoOp, now)}
     /\ UNCHANGED <<clock, reader>>

\* target = TARGET: what is stored of the CPE is what the profile was reviewed on.
Eligible(d, c, p) ==
  /\ Registered(d, c) /\ p.class = ClassOf[c] /\ p.manufacturer = d.cpes[c].manufacturer
  /\ d.cpes[c].columns["firmware"] = p.firmware /\ d.cpes[c].columns["model"] \in p.models

\* The part of _reply that hands a device_info answer to update_inventory; each read once.
Read(c, o, p, params, now) ==
  /\ Eligible(db, c, p)
  /\ \A m \in heard : m.op # o
  /\ db' = UpdateInventory(db, c, NormalizeRead(p, params), o, now)
  /\ heard' = heard \cup {Message(c, params, p.manufacturer, o, now)}
  /\ UNCHANGED <<clock, reader>>

\* InformService.finish: the empty POST to a receiver without a query service.  The client has
\* the cookie of the session since its Inform was committed.
Complete(s, now) ==
  /\ db.sessions[s].state = "awaiting_empty" /\ now < db.sessions[s].expires
  /\ now >= db.sessions[s].started
  /\ db' = [db EXCEPT !.sessions[s] = [@ EXCEPT !.state = "completed"]]
  /\ UNCHANGED <<clock, reader, heard>>

Tick == clock < MaxClock /\ clock' = clock + 1 /\ UNCHANGED <<db, reader, heard>>

----------------------------------------------------------------------------
(* Readers.  Each view is one REPEATABLE READ transaction: the snapshot is *)
(* taken by its first statement, and the later ones read it.               *)

Idle == [at |-> "idle"]

\* What a page lists, as sort keys: the newest first, then by identifier and position.
Listed(d, q) ==
  LET mine == {s \in SessionId : d.sessions[s].state # "absent" /\ d.sessions[s].cpe = q.cpe}
  IN CASE q.kind = "sessions" -> {<<d.sessions[s].started, s, 0>> : s \in mine}
       [] q.kind = "events" ->
            UNION {{<<d.sessions[s].started, s, i>> : i \in 1..d.sessions[s].events} : s \in mine}
       [] q.kind = "cpes" ->
            {<<d.cpes[c].last_seen, c, 0>> : c \in
               {e \in Cpe : Registered(d, e) /\ q.maker \in {Anyone, d.cpes[e].manufacturer}}}

Precedes(x, y) ==
  \/ x[1] > y[1]
  \/ x[1] = y[1] /\ x[2] < y[2]
  \/ x[1] = y[1] /\ x[2] = y[2] /\ x[3] < y[3]

Page(d, q) ==
  LET listed == Listed(d, q)
      before(x) == Cardinality({y \in listed : Precedes(y, x)})
  IN {x \in listed : q.offset <= before(x) /\ before(x) < q.offset + PageLimit}

Query(kind, c, maker, offset) == [kind |-> kind, cpe |-> c, maker |-> maker, offset |-> offset]

\* _cpe_snapshot: the first statement finds the CPE.
Open(r, q) ==
  /\ reader[r].at = "idle" /\ Registered(db, q.cpe)
  /\ reader' = [reader EXCEPT ![r] = [at |-> "open", query |-> q, snapshot |-> db]]
  /\ UNCHANGED <<db, clock, heard>>

\* What a statement of an open transaction sees.
Mutant_SeenCommitted(r) == db
Seen(r) == reader[r].snapshot

\* get_inventory reads the CPE, then the rows of its fields; a list counts, then reads a page.
Head(d, q) == IF q.kind = "inventory" THEN d.cpes[q.cpe].columns ELSE Cardinality(Listed(d, q))
Body(d, q) == IF q.kind = "inventory" THEN d.rows[q.cpe] ELSE Page(d, q)

ReadHead(r) ==
  /\ reader[r].at = "open"
  /\ reader' = [reader EXCEPT ![r] =
       [at |-> "half", query |-> reader[r].query, snapshot |-> reader[r].snapshot,
        head |-> Head(Seen(r), reader[r].query)]]
  /\ UNCHANGED <<db, clock, heard>>

\* list_cpes looks for no CPE: its first statement is the count.
CountCpes(r, q) ==
  /\ reader[r].at = "idle" /\ q.kind = "cpes"
  /\ reader' = [reader EXCEPT ![r] =
       [at |-> "half", query |-> q, snapshot |-> db, head |-> Head(db, q)]]
  /\ UNCHANGED <<db, clock, heard>>

ReadBody(r) ==
  /\ reader[r].at = "half"
  /\ reader' = [reader EXCEPT ![r] =
       [at |-> "done", query |-> reader[r].query, head |-> reader[r].head,
        body |-> Body(Seen(r), reader[r].query)]]
  /\ UNCHANGED <<db, clock, heard>>

Respond(r) ==
  /\ reader[r].at = "done"
  /\ reader' = [reader EXCEPT ![r] = Idle]
  /\ UNCHANGED <<db, clock, heard>>

Write ==
  \/ \E c \in Cpe, now \in Times :
       \/ \E s \in SessionId, inform \in Informs : Inform(c, s, inform, now)
       \/ \E o \in OpId, p \in Profiles, params \in Reads : Read(c, o, p, params, now)
  \/ \E s \in SessionId, now \in Times : Complete(s, now)

View ==
  \E r \in Reader :
    \/ \E c \in Cpe : Open(r, Query("inventory", c, Anyone, 0))
    \/ \E c \in Cpe, kind \in {"sessions", "events"}, offset \in Offsets :
         Open(r, Query(kind, c, Anyone, offset))
    \/ \E maker \in Manufacturer \cup {Anyone}, offset \in Offsets :
         CountCpes(r, Query("cpes", NoCpe, maker, offset))
    \/ ReadHead(r) \/ ReadBody(r) \/ Respond(r)

Next == Write \/ View \/ Tick
Spec == Init /\ [][Next]_vars

----------------------------------------------------------------------------
(* What the inventory says can be traced to a message that said it.        *)

\* Message m gives cause to name profile id: it came from, or was planned for, a CPE of the
\* manufacturer and class of the profile, and said itself that it runs the reviewed firmware.
Evidenced(m, id) ==
  \/ id = Generic
  \/ \E p \in Profiles :
       /\ p.id = id /\ p.class = ClassOf[m.cpe] /\ p.manufacturer = m.manufacturer
       /\ Said(m.params, "firmware") # {}
       /\ \A q \in Said(m.params, "firmware") : Defect[q.raw] = "none" /\ Strip[q.raw] = p.firmware

\* Message m said that field f of c has this value, at the path, time and operation of origin.
Reported(m, c, f, value, origin) ==
  LET said == Said(m.params, f)
  IN /\ m.cpe = c /\ m.at = origin.at /\ m.op = origin.op /\ Evidenced(m, origin.profile)
     /\ \A p \in said : Defect[p.raw] = "none" /\ Strip[p.raw] = value
     /\ IF origin.source = ProductClass
        THEN f = "model" /\ said = {} /\ value = ClassOf[c] /\ m.op = NoOp /\ origin.profile # Generic
        ELSE \E p \in said : p.root = origin.source

\* A value and what is shown of its origin: either nothing was recorded and it is the value
\* the CPE had before provenance was, or one of the messages h said just that.
Traced(h, c, f, value, origin) ==
  IF origin = NoOrigin THEN value = Legacy[c][f]
  ELSE \E m \in h : Reported(m, c, f, value, origin)

\* The stored value of every field was reported by one message, at the path, time, method and
\* operation recorded for it, under a profile that the same message justified; whatever
\* invalid, conflicting, old or partial messages came in between.
ValuesTraced ==
  \A c \in Cpe, f \in Field : Traced(heard, c, f, db.cpes[c].columns[f], db.rows[c][f].value)

\* A client is shown no value with the origin of another, although it reads them with two
\* statements while messages are committed.
ViewsTraced ==
  \A r \in Reader : reader[r].at = "done" /\ reader[r].query.kind = "inventory" =>
    \A f \in Field :
      Traced(heard, reader[r].query.cpe, f, reader[r].head[f], reader[r].body[f].value)

Observation(m) ==
  IF m.op = NoOp THEN NormalizeInform(m.cpe, m).fields ELSE Normalized(m.params)

\* The last observation of a field is a newest one of those reported, a value is kept through
\* later invalid ones, and a valid report is only ever passed over for an invalid one that is
\* at least as new; last_seen is the time of the newest Inform.
LatestKept ==
  \A c \in Cpe :
    /\ \A m \in heard : m.cpe = c /\ m.op = NoOp => m.at <= db.cpes[c].last_seen
    /\ \A f \in Field :
         LET row == db.rows[c][f]
             told == {m \in heard : m.cpe = c /\ Observation(m)[f].state # "not_reported"}
             says(m, state) == Observation(m)[f].state = state
         IN /\ (row.state = "absent") <=> (told = {})
            /\ \A m \in told : m.at <= row.last.at
            /\ told # {} => \E m \in told : /\ m.at = row.last.at /\ m.op = row.last.op
                                            /\ says(m, row.state)
            /\ row.state = "valid" => row.value = row.last
            /\ row.state = "invalid" => row.value.at < row.last.at
            /\ \A m \in told : says(m, "valid") /\ m.at > row.value.at =>
                 \E n \in told : n.at >= m.at /\ says(n, "invalid")

\* The total of a page and its items are of one moment: the page is as long as the total says.
PagesCoherent ==
  \A r \in Reader : reader[r].at = "done" /\ reader[r].query.kind # "inventory" =>
    LET left == IF reader[r].head > reader[r].query.offset
                THEN reader[r].head - reader[r].query.offset ELSE 0
    IN Cardinality(reader[r].body) = IF left < PageLimit THEN left ELSE PageLimit
=============================================================================
