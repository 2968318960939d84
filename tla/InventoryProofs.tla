-------------------------- MODULE InventoryProofs --------------------------
(***************************************************************************)
(* What Inventory promises of the values it stores and shows, for any set  *)
(* of CPEs, readers, messages and texts: the values go back to messages,   *)
(* the rows hold the newest observations, and the views are of one moment. *)
(* Each is an inductive invariant; the first and the last also follow the  *)
(* snapshots of the views.                                                 *)
(***************************************************************************)
EXTENDS Inventory, FiniteSetTheorems, TLAPS

----------------------------------------------------------------------------
(* Normalisation.                                                          *)

\* An observation of one field in the messages of one parameter list.
Faithful(params, f, observation) ==
  LET said == Said(params, f)
  IN /\ observation.state = "not_reported" => said = {}
     /\ observation.state = "valid" =>
          /\ \A p \in said : Defect[p.raw] = "none" /\ Strip[p.raw] = observation.value
          /\ \E p \in said : p.root = observation.source
          /\ observation.source \in Root

LEMMA SourceSaid ==
  ASSUME NEW said \in SUBSET Parameter, said # {}
  PROVE  /\ Source(said) \in Root
         /\ \E p \in said : p.root = Source(said)
BY DEF Source, Root, Parameter

LEMMA TextFaithful ==
  ASSUME NEW params \in SUBSET Parameter, NEW f \in Field
  PROVE  Faithful(params, f, Text(params, f))
<1> DEFINE said == Said(params, f)
<1>1. said \in SUBSET Parameter BY DEF Said
<1>2. CASE said = {}
  BY <1>2 DEF Text, Faithful, NotReported
<1>3. CASE said # {} /\ Refused(said) # {}
  BY <1>3 DEF Text, Faithful, Invalid
<1>4. CASE said # {} /\ Refused(said) = {} /\ \E p, q \in said : Strip[p.raw] # Strip[q.raw]
  BY <1>4 DEF Text, Faithful, Invalid
<1>5. CASE said # {} /\ Refused(said) = {} /\ ~ \E p, q \in said : Strip[p.raw] # Strip[q.raw]
  <2>1. Text(params, f) = Valid(Strip[(CHOOSE p \in said : TRUE).raw], Source(said))
    BY <1>5 DEF Text
  <2>2. (CHOOSE p \in said : TRUE) \in said BY <1>5
  <2>3. \A p \in said : Defect[p.raw] = "none" BY <1>5 DEF Refused
  <2>4. \A p \in said : Strip[p.raw] = Strip[(CHOOSE q \in said : TRUE).raw] BY <1>5, <2>2
  <2>5. Source(said) \in Root /\ \E p \in said : p.root = Source(said) BY <1>1, <1>5, SourceSaid
  <2> QED BY <2>1, <2>3, <2>4, <2>5 DEF Faithful, Valid
<1> QED BY <1>2, <1>3, <1>4, <1>5

\* A profile whose class and firmware the fields agree with was named by the message itself.
LEMMA AgreesEvidenced ==
  ASSUME NEW p \in Profiles, NEW m, m.params \in SUBSET Parameter, p.class = ClassOf[m.cpe],
         p.manufacturer = m.manufacturer, Agrees(p, Normalized(m.params))
  PROVE  Evidenced(m, p.id)
<1>1. "firmware" \in Field BY DEF Field
<1>2. Normalized(m.params)["firmware"] = Text(m.params, "firmware") BY <1>1 DEF Normalized
<1>3. /\ Text(m.params, "firmware").state = "valid"
      /\ Text(m.params, "firmware").value = p.firmware
  BY <1>2 DEF Agrees
<1>4. Faithful(m.params, "firmware", Text(m.params, "firmware")) BY <1>1, TextFaithful
<1>5. /\ \A q \in Said(m.params, "firmware") : Defect[q.raw] = "none" /\ Strip[q.raw] = p.firmware
      /\ Said(m.params, "firmware") # {}
  BY <1>3, <1>4 DEF Faithful
<1> QED BY <1>5 DEF Evidenced

\* What a valid observation at time now leaves behind.
Origin(observation, profile, op, now) ==
  [source |-> observation.source, profile |-> profile, at |-> now, op |-> op]

\* Every valid observation of an inventory is one that message m reported.
Backed(m, c, inventory) ==
  \A f \in Field : inventory.fields[f].state = "valid" =>
    /\ Reported(m, c, f, inventory.fields[f].value,
                Origin(inventory.fields[f], inventory.profile, m.op, m.at))
    /\ inventory.fields[f].source # NoSource

LEMMA TextReported ==
  ASSUME NEW m, NEW f \in Field, NEW id, m.params \in SUBSET Parameter, Evidenced(m, id),
         Text(m.params, f).state = "valid"
  PROVE  /\ Reported(m, m.cpe, f, Text(m.params, f).value, Origin(Text(m.params, f), id, m.op, m.at))
         /\ Text(m.params, f).source # NoSource
<1> DEFINE text == Text(m.params, f)
           origin == Origin(text, id, m.op, m.at)
<1>1. Faithful(m.params, f, text) BY TextFaithful
<1>2. /\ \A p \in Said(m.params, f) : Defect[p.raw] = "none" /\ Strip[p.raw] = text.value
      /\ \E p \in Said(m.params, f) : p.root = text.source
      /\ text.source \in Root
  BY <1>1 DEF Faithful
<1>3. text.source # ProductClass /\ text.source # NoSource
  BY <1>2 DEF Root, ProductClass, NoSource
<1>4. origin.source = text.source /\ origin.profile = id /\ origin.op = m.op /\ origin.at = m.at
  BY DEF Origin
<1> HIDE DEF text, origin
<1>5. Reported(m, m.cpe, f, text.value, origin) BY <1>2, <1>3, <1>4 DEF Reported
<1> QED BY <1>3, <1>5 DEF text, origin

LEMMA ReadBacked ==
  ASSUME NEW c \in Cpe, NEW o \in OpId, NEW p \in Profiles, NEW params \in Reads, NEW now \in Nat,
         p.class = ClassOf[c]
  PROVE  Backed(Message(c, params, p.manufacturer, o, now), c, NormalizeRead(p, params))
<1> DEFINE m == Message(c, params, p.manufacturer, o, now)
           inventory == NormalizeRead(p, params)
<1>1. m.cpe = c /\ m.params = params /\ m.manufacturer = p.manufacturer /\ m.op = o /\ m.at = now
  BY DEF Message
<1>2. params \in SUBSET Parameter BY InventoryInputs
<1>3. inventory.fields = Normalized(params) BY DEF NormalizeRead
<1> HIDE DEF m
<1>4. Evidenced(m, inventory.profile)
  <2>1. CASE Agrees(p, Normalized(params))
    <3>1. inventory.profile = p.id BY <2>1 DEF NormalizeRead
    <3> QED BY <1>1, <1>2, <2>1, <3>1, AgreesEvidenced
  <2>2. CASE ~ Agrees(p, Normalized(params))
    BY <2>2 DEF NormalizeRead, Evidenced
  <2> QED BY <2>1, <2>2
<1> HIDE DEF inventory
<1>5. \A f \in Field : inventory.fields[f] = Text(params, f) BY <1>3 DEF Normalized
<1>6. Backed(m, c, inventory)
  BY <1>1, <1>2, <1>4, <1>5, TextReported DEF Backed
<1> QED BY <1>6 DEF m, inventory

LEMMA InformBacked ==
  ASSUME NEW c \in Cpe, NEW inform \in Informs, NEW now \in Nat
  PROVE  Backed(Message(c, inform.params, inform.manufacturer, NoOp, now), c, NormalizeInform(c, inform))
<1> DEFINE m == Message(c, inform.params, inform.manufacturer, NoOp, now)
           inventory == NormalizeInform(c, inform)
           fields == Normalized(inform.params)
           best == Best(c, inform, fields)
<1>1. /\ m.cpe = c /\ m.params = inform.params /\ m.manufacturer = inform.manufacturer
      /\ m.op = NoOp /\ m.at = now
  BY DEF Message
<1>2. inform.params \in SUBSET Parameter BY InventoryInputs
<1>3. \A f \in Field : fields[f] = Text(inform.params, f) BY DEF Normalized
<1> HIDE DEF m
<1>4. CASE best = {}
  <2>1. inventory.profile = Generic /\ inventory.fields = fields BY <1>4 DEF NormalizeInform
  <2>2. Evidenced(m, inventory.profile) BY <2>1 DEF Evidenced
  <2> HIDE DEF inventory, fields
  <2>3. Backed(m, c, inventory) BY <1>1, <1>2, <1>3, <2>1, <2>2, TextReported DEF Backed
  <2> QED BY <2>3 DEF m, inventory
<1>5. CASE best # {}
  <2>1. PICK p \in best : p = CHOOSE q \in best : TRUE BY <1>5
  <2>2. inventory.profile = p.id /\ inventory.fields = WithClass(c, fields)
    BY <1>5, <2>1 DEF NormalizeInform
  <2>3. p \in Profiles /\ Matches(p, c, inform, fields) BY DEF Best
  <2>4. Evidenced(m, p.id)
    BY <1>1, <1>2, <2>3, AgreesEvidenced DEF Matches
  <2>5. p.id # Generic BY <2>3, InventoryTexts
  <2>6. "model" \in Field /\ fields = [f \in Field |-> fields[f]] BY DEF Field, Normalized
  <2>7. /\ \A f \in Field \ {"model"} : inventory.fields[f] = Text(inform.params, f)
        /\ inventory.fields["model"] = IF Text(inform.params, "model").state = "not_reported"
                                       THEN Valid(ClassOf[c], ProductClass)
                                       ELSE Text(inform.params, "model")
    BY <1>3, <2>2, <2>6 DEF WithClass
  <2> HIDE DEF inventory, fields
  <2>8. CASE Text(inform.params, "model").state = "not_reported"
    <3> DEFINE origin == Origin(inventory.fields["model"], inventory.profile, m.op, m.at)
    <3>1. inventory.fields["model"] = Valid(ClassOf[c], ProductClass) BY <2>7, <2>8
    <3>2. /\ inventory.fields["model"].value = ClassOf[c]
          /\ inventory.fields["model"].source = ProductClass
      BY <3>1 DEF Valid
    <3>3. Said(inform.params, "model") = {}
      BY <1>2, <2>6, <2>8, TextFaithful DEF Faithful
    <3>4. origin.source = ProductClass /\ origin.profile = p.id /\ origin.op = NoOp /\ origin.at = now
      BY <1>1, <2>2, <3>2 DEF Origin
    <3> HIDE DEF origin
    <3>5. Reported(m, c, "model", inventory.fields["model"].value, origin)
      BY <1>1, <2>4, <2>5, <3>2, <3>3, <3>4 DEF Reported
    <3>6. \A f \in Field \ {"model"} : inventory.fields[f].state = "valid" =>
            /\ Reported(m, c, f, inventory.fields[f].value,
                        Origin(inventory.fields[f], inventory.profile, m.op, m.at))
            /\ inventory.fields[f].source # NoSource
      BY <1>1, <1>2, <2>2, <2>4, <2>7, TextReported
    <3>7. ProductClass # NoSource BY DEF ProductClass, NoSource
    <3>8. Backed(m, c, inventory) BY <3>2, <3>5, <3>6, <3>7 DEF Backed, origin
    <3> QED BY <3>8 DEF m, inventory
  <2>9. CASE Text(inform.params, "model").state # "not_reported"
    <3>1. \A f \in Field : inventory.fields[f] = Text(inform.params, f) BY <2>7, <2>9
    <3>2. Backed(m, c, inventory)
      BY <1>1, <1>2, <2>2, <2>4, <3>1, TextReported DEF Backed
    <3> QED BY <3>2 DEF m, inventory
  <2> QED BY <2>8, <2>9
<1> QED BY <1>4, <1>5

----------------------------------------------------------------------------
(* Tables.                                                                 *)

\* The rows have the columns the statements name.
Shaped(d) ==
  /\ d = [cpes |-> d.cpes, rows |-> d.rows, sessions |-> d.sessions]
  /\ d.cpes = [c \in Cpe |-> d.cpes[c]]
  /\ \A c \in Cpe : d.cpes[c] = [manufacturer |-> d.cpes[c].manufacturer,
                                columns |-> d.cpes[c].columns, last_seen |-> d.cpes[c].last_seen]
  /\ d.rows = [c \in Cpe |-> d.rows[c]]
  /\ d.sessions = [s \in SessionId |-> d.sessions[s]]

\* Every value of the tables goes back to one of the messages h.
Stated(h, d) ==
  \A c \in Cpe, f \in Field : Traced(h, c, f, d.cpes[c].columns[f], d.rows[c][f].value)

LEMMA TracedGrows ==
  ASSUME NEW h, NEW g, h \subseteq g, NEW c, NEW f, NEW value, NEW origin,
         Traced(h, c, f, value, origin)
  PROVE  Traced(g, c, f, value, origin)
BY DEF Traced

LEMMA StatedGrows ==
  ASSUME NEW h, NEW g, h \subseteq g, NEW d, Stated(h, d)
  PROVE  Stated(g, d)
BY TracedGrows DEF Stated

\* What update_inventory does to one field.
LEMMA UpdateRows ==
  ASSUME NEW d, Shaped(d), NEW c \in Cpe, NEW inventory, NEW op, NEW now
  PROVE  LET u == UpdateInventory(d, c, inventory, op, now)
             o(f) == inventory.fields[f]
             kept(e, f) == /\ u.cpes[e].columns[f] = d.cpes[e].columns[f]
                           /\ u.rows[e][f].value = d.rows[e][f].value
         IN /\ Shaped(u)
            /\ \A e \in Cpe \ {c}, f \in Field : kept(e, f)
            /\ \A f \in Field :
                 \/ kept(c, f)
                 \/ /\ o(f).state = "valid" /\ u.cpes[c].columns[f] = o(f).value
                    /\ u.rows[c][f].value = Origin(o(f), inventory.profile, op, now)
<1> DEFINE counts == Counts(d, c, inventory.fields, now)
           valid == {f \in counts : inventory.fields[f].state = "valid"}
           columns == [f \in Field |-> IF f \in valid THEN inventory.fields[f].value
                                                     ELSE d.cpes[c].columns[f]]
           rows == [f \in Field |-> IF f \in counts
                      THEN Stored(d.rows[c][f], inventory.fields[f], inventory.profile, op, now)
                      ELSE d.rows[c][f]]
           u == UpdateInventory(d, c, inventory, op, now)
<1>1. u = [d EXCEPT !.rows[c] = rows, !.cpes[c] = [@ EXCEPT !.columns = columns]]
  BY DEF UpdateInventory
<1>2. /\ \A f \in Field : columns[f] = IF f \in valid THEN inventory.fields[f].value
                                                     ELSE d.cpes[c].columns[f]
      /\ \A f \in Field : rows[f] = IF f \in counts
           THEN Stored(d.rows[c][f], inventory.fields[f], inventory.profile, op, now)
           ELSE d.rows[c][f]
  OBVIOUS
<1>3. /\ valid \subseteq counts
      /\ \A f \in valid : inventory.fields[f].state = "valid"
      /\ \A f \in counts : inventory.fields[f].state = "valid" => f \in valid
  OBVIOUS
<1> HIDE DEF counts, valid, columns, rows, u
<1>4. /\ u = [cpes |-> u.cpes, rows |-> u.rows, sessions |-> u.sessions]
      /\ u.sessions = d.sessions
      /\ u.rows = [d.rows EXCEPT ![c] = rows]
      /\ u.cpes = [d.cpes EXCEPT ![c] = [d.cpes[c] EXCEPT !.columns = columns]]
  BY <1>1 DEF Shaped
<1>5. /\ \A e \in Cpe \ {c} : u.cpes[e] = d.cpes[e] /\ u.rows[e] = d.rows[e]
      /\ u.rows[c] = rows
      /\ u.cpes[c] = [manufacturer |-> d.cpes[c].manufacturer, columns |-> columns,
                      last_seen |-> d.cpes[c].last_seen]
      /\ u.cpes = [e \in Cpe |-> u.cpes[e]]
      /\ u.rows = [e \in Cpe |-> u.rows[e]]
  BY <1>4 DEF Shaped
<1>6. Shaped(u)
  BY <1>4, <1>5 DEF Shaped
<1>7. ASSUME NEW f \in Field
      PROVE  \/ u.cpes[c].columns[f] = d.cpes[c].columns[f] /\ u.rows[c][f].value = d.rows[c][f].value
             \/ /\ inventory.fields[f].state = "valid"
                /\ u.cpes[c].columns[f] = inventory.fields[f].value
                /\ u.rows[c][f].value = Origin(inventory.fields[f], inventory.profile, op, now)
  <2>1. u.cpes[c].columns[f] = columns[f] /\ u.rows[c][f] = rows[f] BY <1>5
  <2>2. CASE f \notin counts
    BY <1>2, <1>3, <2>1, <2>2
  <2>3. CASE f \in counts /\ f \notin valid
    <3>1. inventory.fields[f].state # "valid" BY <1>3, <2>3
    <3>2. rows[f] = Stored(d.rows[c][f], inventory.fields[f], inventory.profile, op, now)
      BY <1>2, <2>3
    <3>3. rows[f].value = d.rows[c][f].value BY <3>1, <3>2 DEF Stored
    <3> QED BY <1>2, <2>1, <2>3, <3>3
  <2>4. CASE f \in valid
    <3>1. f \in counts /\ inventory.fields[f].state = "valid" BY <1>3, <2>4
    <3>2. rows[f] = Stored(d.rows[c][f], inventory.fields[f], inventory.profile, op, now)
      BY <1>2, <3>1
    <3>3. rows[f].value = Origin(inventory.fields[f], inventory.profile, op, now)
      BY <3>1, <3>2 DEF Stored, Origin
    <3>4. columns[f] = inventory.fields[f].value BY <1>2, <2>4
    <3> QED BY <2>1, <3>1, <3>3, <3>4
  <2> QED BY <2>2, <2>3, <2>4
<1> QED BY <1>5, <1>6, <1>7 DEF u

LEMMA UpdateStated ==
  ASSUME NEW d, Shaped(d), NEW h, Stated(h, d), NEW c \in Cpe, NEW inventory, NEW m,
         Backed(m, c, inventory)
  PROVE  LET u == UpdateInventory(d, c, inventory, m.op, m.at)
         IN Shaped(u) /\ Stated(h \cup {m}, u)
<1> DEFINE u == UpdateInventory(d, c, inventory, m.op, m.at)
           g == h \cup {m}
<1>1. Shaped(u) BY UpdateRows
<1>2. ASSUME NEW e \in Cpe, NEW f \in Field,
             u.cpes[e].columns[f] = d.cpes[e].columns[f], u.rows[e][f].value = d.rows[e][f].value
      PROVE  Traced(g, e, f, u.cpes[e].columns[f], u.rows[e][f].value)
  <2>1. Traced(h, e, f, d.cpes[e].columns[f], d.rows[e][f].value) BY DEF Stated
  <2> QED BY <1>2, <2>1, TracedGrows
<1>3. ASSUME NEW f \in Field, inventory.fields[f].state = "valid",
             u.cpes[c].columns[f] = inventory.fields[f].value,
             u.rows[c][f].value = Origin(inventory.fields[f], inventory.profile, m.op, m.at)
      PROVE  Traced(g, c, f, u.cpes[c].columns[f], u.rows[c][f].value)
  <2> DEFINE origin == Origin(inventory.fields[f], inventory.profile, m.op, m.at)
  <2>1. Reported(m, c, f, inventory.fields[f].value, origin) /\ inventory.fields[f].source # NoSource
    BY <1>3 DEF Backed
  <2>2. origin # NoOrigin BY <2>1 DEF Origin, NoOrigin
  <2> HIDE DEF origin
  <2>3. Traced(g, c, f, inventory.fields[f].value, origin) BY <2>1, <2>2 DEF Traced
  <2> QED BY <1>3, <2>3 DEF origin
<1> HIDE DEF u, g
<1>4. /\ \A e \in Cpe \ {c}, f \in Field :
           u.cpes[e].columns[f] = d.cpes[e].columns[f] /\ u.rows[e][f].value = d.rows[e][f].value
      /\ \A f \in Field :
           \/ u.cpes[c].columns[f] = d.cpes[c].columns[f] /\ u.rows[c][f].value = d.rows[c][f].value
           \/ /\ inventory.fields[f].state = "valid"
              /\ u.cpes[c].columns[f] = inventory.fields[f].value
              /\ u.rows[c][f].value = Origin(inventory.fields[f], inventory.profile, m.op, m.at)
  BY UpdateRows DEF u
<1>5. Stated(g, u) BY <1>2, <1>3, <1>4 DEF Stated
<1> QED BY <1>1, <1>5 DEF u, g

\* The upsert touches no value.
LEMMA UpsertStated ==
  ASSUME NEW d, Shaped(d), NEW h, Stated(h, d), NEW c \in Cpe, NEW inform, NEW now
  PROVE  Shaped(Upsert(d, c, inform, now)) /\ Stated(h, Upsert(d, c, inform, now))
<1> DEFINE u == Upsert(d, c, inform, now)
           seen == IF now > d.cpes[c].last_seen THEN now ELSE d.cpes[c].last_seen
<1>1. u = [d EXCEPT !.cpes[c] = [@ EXCEPT !.manufacturer = inform.manufacturer, !.last_seen = seen]]
  BY DEF Upsert
<1> HIDE DEF u, seen
<1>2. /\ u = [cpes |-> u.cpes, rows |-> u.rows, sessions |-> u.sessions]
      /\ u.sessions = d.sessions /\ u.rows = d.rows
      /\ u.cpes = [d.cpes EXCEPT ![c] =
                     [d.cpes[c] EXCEPT !.manufacturer = inform.manufacturer, !.last_seen = seen]]
  BY <1>1 DEF Shaped
<1>3. /\ \A e \in Cpe \ {c} : u.cpes[e] = d.cpes[e]
      /\ u.cpes[c] = [manufacturer |-> inform.manufacturer, columns |-> d.cpes[c].columns,
                      last_seen |-> seen]
      /\ u.cpes = [e \in Cpe |-> u.cpes[e]]
  BY <1>2 DEF Shaped
<1>4. Shaped(u) BY <1>2, <1>3 DEF Shaped
<1>5. \A e \in Cpe : u.cpes[e].columns = d.cpes[e].columns BY <1>3
<1>6. Stated(h, u) BY <1>2, <1>5 DEF Stated
<1> QED BY <1>4, <1>6 DEF u

----------------------------------------------------------------------------
(* The inductive invariant: the committed tables, and what every view has  *)
(* read so far, go back to messages that were committed.                   *)

Followed(h, v) ==
  /\ v.at \in {"open", "half"} => Stated(h, v.snapshot)
  /\ v.at \in {"open", "half", "done"} /\ v.query.kind = "inventory" => v.query.cpe \in Cpe
  /\ v.at = "half" /\ v.query.kind = "inventory" => v.head = v.snapshot.cpes[v.query.cpe].columns
  /\ v.at = "done" /\ v.query.kind = "inventory" =>
       \A f \in Field : Traced(h, v.query.cpe, f, v.head[f], v.body[f].value)

Inv ==
  /\ Shaped(db) /\ Stated(heard, db)
  /\ clock \in Nat
  /\ reader = [r \in Reader |-> reader[r]]
  /\ \A r \in Reader : Followed(heard, reader[r])

LEMMA FollowedGrows ==
  ASSUME NEW h, NEW g, h \subseteq g, NEW v, Followed(h, v)
  PROVE  Followed(g, v)
BY StatedGrows, TracedGrows DEF Followed

LEMMA InitInv == Init => Inv
<1> SUFFICES ASSUME Init PROVE Inv
  OBVIOUS
<1>1. /\ \A c \in Cpe : db.cpes[c].columns = Legacy[c] /\ \A f \in Field : db.rows[c][f] = NoRow
      /\ heard = {} /\ clock = 1
      /\ reader = [r \in Reader |-> [at |-> "idle"]]
  BY DEF Init
<1>2. Shaped(db) BY DEF Init, Shaped
<1>3. NoRow.value = NoOrigin BY DEF NoRow
<1>4. Stated(heard, db) BY <1>1, <1>3 DEF Stated, Traced
<1>5. \A r \in Reader : Followed(heard, reader[r]) BY <1>1 DEF Followed
<1>6. clock \in Nat BY <1>1
<1> QED BY <1>1, <1>2, <1>4, <1>5, <1>6 DEF Inv

\* A writer whose tables are sound leaves the views as sound as they were.
LEMMA WriterInv ==
  ASSUME Inv, heard \subseteq heard', Shaped(db'), Stated(heard', db'), UNCHANGED <<clock, reader>>
  PROVE  Inv'
<1>1. \A r \in Reader : Followed(heard', reader'[r]) BY FollowedGrows DEF Inv
<1> QED BY <1>1 DEF Inv

LEMMA TimesType == ASSUME Inv, NEW now \in Times PROVE now \in Nat
BY DEF Times, Inv

\* A session row changes; the values do not.
LEMMA SessionStated ==
  ASSUME NEW d, Shaped(d), NEW h, Stated(h, d), NEW s \in SessionId, NEW row
  PROVE  Shaped([d EXCEPT !.sessions[s] = row]) /\ Stated(h, [d EXCEPT !.sessions[s] = row])
<1> DEFINE u == [d EXCEPT !.sessions[s] = row]
<1>1. /\ u = [cpes |-> d.cpes, rows |-> d.rows, sessions |-> [d.sessions EXCEPT ![s] = row]]
      /\ u.cpes = d.cpes /\ u.rows = d.rows /\ u.sessions = [d.sessions EXCEPT ![s] = row]
  BY DEF Shaped
<1> HIDE DEF u
<1>2. u.sessions = [t \in SessionId |-> u.sessions[t]] BY <1>1 DEF Shaped
<1>3. Shaped(u) BY <1>1, <1>2 DEF Shaped
<1>4. Stated(h, u) BY <1>1 DEF Stated
<1> QED BY <1>3, <1>4 DEF u

LEMMA InformInv ==
  ASSUME Inv, NEW c \in Cpe, NEW s \in SessionId, NEW inform \in Informs, NEW now \in Times,
         Inform(c, s, inform, now)
  PROVE  Inv'
<1> DEFINE m == Message(c, inform.params, inform.manufacturer, NoOp, now)
           inventory == NormalizeInform(c, inform)
           d == Upsert(db, c, inform, now)
           u == UpdateInventory(d, c, inventory, NoOp, now)
           row == [state |-> "awaiting_empty", cpe |-> c, started |-> now,
                   expires |-> now + SessionSeconds, events |-> inform.events]
<1>1. /\ db' = [u EXCEPT !.sessions[s] = row] /\ heard' = heard \cup {m}
      /\ UNCHANGED <<clock, reader>>
  BY DEF Inform
<1>2. now \in Nat BY TimesType
<1>3. m.op = NoOp /\ m.at = now BY DEF Message
<1>4. Backed(m, c, inventory) BY <1>2, InformBacked
<1>5. Shaped(d) /\ Stated(heard, d) BY UpsertStated DEF Inv
<1> HIDE DEF m, inventory, d, row
<1>6. Shaped(u) /\ Stated(heard \cup {m}, u) BY <1>3, <1>4, <1>5, UpdateStated
<1> HIDE DEF u
<1>7. Shaped(db') /\ Stated(heard', db') BY <1>1, <1>6, SessionStated
<1>8. heard \subseteq heard' BY <1>1
<1> QED BY <1>1, <1>7, <1>8, WriterInv

LEMMA ReadInv ==
  ASSUME Inv, NEW c \in Cpe, NEW o \in OpId, NEW p \in Profiles, NEW params \in Reads,
         NEW now \in Times, Read(c, o, p, params, now)
  PROVE  Inv'
<1> DEFINE m == Message(c, params, p.manufacturer, o, now)
           inventory == NormalizeRead(p, params)
<1>1. /\ db' = UpdateInventory(db, c, inventory, o, now) /\ heard' = heard \cup {m}
      /\ UNCHANGED <<clock, reader>> /\ p.class = ClassOf[c]
  BY DEF Read, Eligible
<1>2. now \in Nat BY TimesType
<1>3. m.op = o /\ m.at = now BY DEF Message
<1>4. Backed(m, c, inventory) BY <1>1, <1>2, ReadBacked
<1> HIDE DEF m, inventory
<1>5. Shaped(db) /\ Stated(heard, db) BY DEF Inv
<1>6. Shaped(db') /\ Stated(heard', db') BY <1>1, <1>3, <1>4, <1>5, UpdateStated
<1>7. heard \subseteq heard' BY <1>1
<1> QED BY <1>1, <1>6, <1>7, WriterInv

LEMMA CompleteInv ==
  ASSUME Inv, NEW s \in SessionId, NEW now \in Times, Complete(s, now)
  PROVE  Inv'
<1> DEFINE row == [db.sessions[s] EXCEPT !.state = "completed"]
<1>1. /\ db' = [db EXCEPT !.sessions[s] = row] /\ UNCHANGED <<clock, reader, heard>>
  BY DEF Complete
<1>2. Shaped(db) /\ Stated(heard, db) BY DEF Inv
<1> HIDE DEF row
<1>3. Shaped(db') /\ Stated(heard', db') BY <1>1, <1>2, SessionStated
<1> QED BY <1>1, <1>3, WriterInv

\* A step of one reader needs to be sound only for what that reader has read.
LEMMA ReaderInv ==
  ASSUME Inv, UNCHANGED <<db, clock, heard>>, NEW r \in Reader, NEW v, Followed(heard, v),
         reader' = [reader EXCEPT ![r] = v]
  PROVE  Inv'
<1>1. /\ reader' = [q \in Reader |-> reader'[q]]
      /\ reader'[r] = v /\ \A q \in Reader \ {r} : reader'[q] = reader[q]
  BY DEF Inv
<1>2. \A q \in Reader : Followed(heard, reader'[q]) BY <1>1 DEF Inv
<1> QED BY <1>1, <1>2 DEF Inv

LEMMA OpenInv ==
  ASSUME Inv, NEW r \in Reader, NEW q, q.kind = "inventory" => q.cpe \in Cpe, Open(r, q)
  PROVE  Inv'
<1> DEFINE v == [at |-> "open", query |-> q, snapshot |-> db]
<1>1. reader' = [reader EXCEPT ![r] = v] /\ UNCHANGED <<db, clock, heard>> BY DEF Open
<1>2. Followed(heard, v) BY DEF Followed, Inv
<1> HIDE DEF v
<1> QED BY <1>1, <1>2, ReaderInv

LEMMA CountInv ==
  ASSUME Inv, NEW r \in Reader, NEW q, CountCpes(r, q)
  PROVE  Inv'
<1> DEFINE v == [at |-> "half", query |-> q, snapshot |-> db, head |-> Head(db, q)]
<1>1. /\ reader' = [reader EXCEPT ![r] = v] /\ UNCHANGED <<db, clock, heard>> /\ q.kind = "cpes"
  BY DEF CountCpes
<1>2. Followed(heard, v) BY <1>1 DEF Followed, Inv
<1> HIDE DEF v
<1> QED BY <1>1, <1>2, ReaderInv

LEMMA ReadHeadInv ==
  ASSUME Inv, NEW r \in Reader, ReadHead(r)
  PROVE  Inv'
<1> DEFINE v == [at |-> "half", query |-> reader[r].query, snapshot |-> reader[r].snapshot,
                 head |-> Head(reader[r].snapshot, reader[r].query)]
<1>1. /\ reader' = [reader EXCEPT ![r] = v] /\ UNCHANGED <<db, clock, heard>> /\ reader[r].at = "open"
  BY DEF ReadHead, Seen
<1>2. Followed(heard, reader[r]) BY DEF Inv
<1>3. Followed(heard, v) BY <1>1, <1>2 DEF Followed, Head
<1> HIDE DEF v
<1> QED BY <1>1, <1>3, ReaderInv

LEMMA ReadBodyInv ==
  ASSUME Inv, NEW r \in Reader, ReadBody(r)
  PROVE  Inv'
<1> DEFINE q == reader[r].query
           d == reader[r].snapshot
           v == [at |-> "done", query |-> q, head |-> reader[r].head, body |-> Body(d, q)]
<1>1. /\ reader' = [reader EXCEPT ![r] = v] /\ UNCHANGED <<db, clock, heard>> /\ reader[r].at = "half"
  BY DEF ReadBody, Seen
<1>2. /\ Stated(heard, d)
      /\ q.kind = "inventory" => q.cpe \in Cpe /\ reader[r].head = d.cpes[q.cpe].columns
  BY <1>1 DEF Inv, Followed
<1>3. /\ v.at = "done" /\ v.query = q /\ v.head = reader[r].head /\ v.body = Body(d, q)
  OBVIOUS
<1> HIDE DEF q, d, v
<1>4. ASSUME q.kind = "inventory", NEW f \in Field
      PROVE  Traced(heard, q.cpe, f, v.head[f], v.body[f].value)
  <2>1. v.body = d.rows[q.cpe] BY <1>3, <1>4 DEF Body
  <2> QED BY <1>2, <1>3, <1>4, <2>1 DEF Stated
<1>5. Followed(heard, v) BY <1>2, <1>3, <1>4 DEF Followed
<1> QED BY <1>1, <1>5, ReaderInv

LEMMA RespondInv ==
  ASSUME Inv, NEW r \in Reader, Respond(r)
  PROVE  Inv'
<1>1. reader' = [reader EXCEPT ![r] = Idle] /\ UNCHANGED <<db, clock, heard>> BY DEF Respond
<1>2. Followed(heard, Idle) BY DEF Followed, Idle
<1> QED BY <1>1, <1>2, ReaderInv

LEMMA TickInv == ASSUME Inv, Tick PROVE Inv'
BY DEF Inv, Tick

LEMMA NextInv == ASSUME Inv, [Next]_vars PROVE Inv'
<1>1. CASE Write
  <2>1. CASE \E c \in Cpe, now \in Times, s \in SessionId, inform \in Informs : Inform(c, s, inform, now)
    BY <2>1, InformInv
  <2>2. CASE \E c \in Cpe, now \in Times, o \in OpId, p \in Profiles, params \in Reads :
               Read(c, o, p, params, now)
    BY <2>2, ReadInv
  <2>3. CASE \E s \in SessionId, now \in Times : Complete(s, now)
    BY <2>3, CompleteInv
  <2> QED BY <1>1, <2>1, <2>2, <2>3 DEF Write
<1>2. CASE View
  <2>1. PICK r \in Reader :
          \/ \E c \in Cpe : Open(r, Query("inventory", c, Anyone, 0))
          \/ \E c \in Cpe, kind \in {"sessions", "events"}, offset \in Offsets :
               Open(r, Query(kind, c, Anyone, offset))
          \/ \E maker \in Manufacturer \cup {Anyone}, offset \in Offsets :
               CountCpes(r, Query("cpes", NoCpe, maker, offset))
          \/ ReadHead(r) \/ ReadBody(r) \/ Respond(r)
    BY <1>2 DEF View
  <2>2. ASSUME NEW c \in Cpe, NEW kind, NEW offset, Open(r, Query(kind, c, Anyone, offset))
        PROVE  Inv'
    <3>1. Query(kind, c, Anyone, offset).cpe = c BY DEF Query
    <3> QED BY <2>2, <3>1, OpenInv
  <2>3. ASSUME NEW maker, NEW offset, CountCpes(r, Query("cpes", NoCpe, maker, offset)) PROVE Inv'
    BY <2>3, CountInv
  <2> QED BY <2>1, <2>2, <2>3, ReadHeadInv, ReadBodyInv, RespondInv
<1>3. CASE Tick
  BY <1>3, TickInv
<1>4. CASE UNCHANGED vars
  BY <1>4 DEF Inv, vars
<1> QED BY <1>1, <1>2, <1>3, <1>4 DEF Next

LEMMA InvHolds == Spec => []Inv
BY InitInv, NextInv, PTL DEF Spec

\* Every value in the inventory, with the path, profile, time and operation it is stored with,
\* is what one message reported, for any CPEs, texts, profiles, and any order and lag of commits.
THEOREM ValuesCorrect == Spec => []ValuesTraced
<1>1. Inv => ValuesTraced BY DEF Inv, Stated, ValuesTraced
<1> QED BY <1>1, InvHolds, PTL

\* Nor does any view of an inventory show a value with the origin of another, however many
\* messages are committed between its statements.
THEOREM ViewsCorrect == Spec => []ViewsTraced
<1>1. Inv => ViewsTraced BY DEF Inv, Followed, ViewsTraced
<1> QED BY <1>1, InvHolds, PTL

----------------------------------------------------------------------------
(* The newest observation of each field, and the valid ones it outlives.   *)

\* The messages that said anything of field f of c.
Told(h, c, f) == {m \in h : m.cpe = c /\ Observation(m)[f].state # "not_reported"}

\* What a row says of the messages told about its field.
RowKept(row, told, f) ==
  /\ row.last.at \in Nat /\ row.value.at \in Nat
  /\ row.state \in {"absent", "valid", "invalid"}
  /\ row.state = "absent" => row = NoRow
  /\ (row.state = "absent") <=> (told = {})
  /\ \A m \in told : /\ m.at \in Nat /\ m.at <= row.last.at
                     /\ Observation(m)[f].state \in {"valid", "invalid"}
  /\ told # {} => \E m \in told : /\ m.at = row.last.at /\ m.op = row.last.op
                                  /\ Observation(m)[f].state = row.state
  /\ row.state = "valid" => row.value = row.last
  /\ row.state = "invalid" => row.value.at < row.last.at
  /\ \A m \in told : Observation(m)[f].state = "valid" /\ m.at > row.value.at =>
       \E n \in told : n.at >= m.at /\ Observation(n)[f].state = "invalid"

CpeKept(h, d, c) ==
  /\ d.cpes[c].last_seen \in Nat
  /\ \A m \in h : m.cpe = c /\ m.op = NoOp => m.at <= d.cpes[c].last_seen
  /\ \A f \in Field : RowKept(d.rows[c][f], Told(h, c, f), f)

Kept(h, d) == \A c \in Cpe : CpeKept(h, d, c)

KeptInvariant == (\A m \in heard : m.at \in Nat) /\ Kept(heard, db)

\* A message about f that is not newer than the row changes nothing, and the row accounts for it.
LEMMA OlderKept ==
  ASSUME NEW row, NEW told, NEW f, RowKept(row, told, f), NEW m, m.at \in Nat \ {0},
         Observation(m)[f].state \in {"valid", "invalid"}, m.at <= row.last.at
  PROVE  RowKept(row, told \cup {m}, f)
<1>1. row.state # "absent" BY DEF RowKept, NoRow, NoOrigin
<1>2. PICK l \in told : l.at = row.last.at /\ Observation(l)[f].state = row.state
  BY <1>1 DEF RowKept
<1>3. CASE row.state = "valid"
  BY <1>2, <1>3 DEF RowKept
<1>4. CASE row.state = "invalid"
  BY <1>2, <1>4 DEF RowKept
<1> QED BY <1>1, <1>3, <1>4 DEF RowKept

\* A newer one is what the row then says.
LEMMA NewerKept ==
  ASSUME NEW row, NEW told, NEW f, RowKept(row, told, f), NEW m, m.at \in Nat \ {0},
         NEW observation, observation = Observation(m)[f],
         observation.state \in {"valid", "invalid"}, m.at > row.last.at, NEW profile
  PROVE  RowKept(Stored(row, observation, profile, m.op, m.at), told \cup {m}, f)
<1> DEFINE origin == Origin(observation, profile, m.op, m.at)
           u == Stored(row, observation, profile, m.op, m.at)
<1>1. /\ u.state = observation.state /\ u.last = origin
      /\ u.value = IF observation.state = "valid" THEN origin ELSE row.value
  BY DEF Stored, Origin
<1>2. origin.at = m.at /\ origin.op = m.op BY DEF Origin
<1> HIDE DEF origin, u
<1>3. \A n \in told : n.at \in Nat /\ n.at < m.at /\ Observation(n)[f].state \in {"valid", "invalid"}
  BY DEF RowKept
<1>4. row.value.at < m.at BY DEF RowKept, NoRow, NoOrigin
<1>5. CASE observation.state = "valid"
  <2>1. u.value = origin /\ u.state = "valid" BY <1>1, <1>5
  <2>2. \A n \in told \cup {m} : ~ n.at > u.value.at BY <1>2, <1>3, <2>1
  <2>3. u.last.at = m.at /\ u.last.op = m.op /\ u.value = u.last BY <1>1, <1>2, <2>1
  <2>4. \A n \in told \cup {m} : /\ n.at \in Nat /\ n.at <= u.last.at
                                   /\ Observation(n)[f].state \in {"valid", "invalid"}
    BY <1>3, <2>3
  <2>5. Observation(m)[f].state = u.state BY <1>5, <2>1
  <2>6. told \cup {m} # {} /\ u.last.at \in Nat /\ u.value.at \in Nat BY <2>3
  <2>7. RowKept(u, told \cup {m}, f) BY <2>1, <2>2, <2>3, <2>4, <2>5, <2>6 DEF RowKept
  <2> QED BY <2>7 DEF u
<1>6. CASE observation.state = "invalid"
  <2>1. u.value = row.value /\ u.state = "invalid" BY <1>1, <1>6
  <2>2. \A n \in told \cup {m} : Observation(n)[f].state = "valid" => n \in told BY <1>6
  <2>3. u.last.at = m.at /\ u.last.op = m.op BY <1>1, <1>2
  <2>4. \A n \in told \cup {m} : Observation(n)[f].state = "valid" /\ n.at > u.value.at =>
          m.at >= n.at
    BY <1>3, <2>2
  <2>5. \A n \in told \cup {m} : /\ n.at \in Nat /\ n.at <= u.last.at
                                   /\ Observation(n)[f].state \in {"valid", "invalid"}
    BY <1>3, <2>3
  <2>6. Observation(m)[f].state = u.state BY <1>6, <2>1
  <2>7. /\ told \cup {m} # {} /\ u.last.at \in Nat /\ u.value.at \in Nat
        /\ u.value.at < u.last.at
    BY <1>4, <2>1, <2>3 DEF RowKept
  <2>8. RowKept(u, told \cup {m}, f) BY <2>1, <2>3, <2>4, <2>5, <2>6, <2>7 DEF RowKept
  <2> QED BY <2>8 DEF u
<1> QED BY <1>5, <1>6 DEF u

\* An observation is one of three kinds.
LEMMA TextStates ==
  ASSUME NEW params, NEW f
  PROVE  Text(params, f).state \in {"not_reported", "valid", "invalid"}
BY DEF Text, NotReported, Valid, Invalid

Judged(fields) == \A f \in Field : fields[f].state \in {"not_reported", "valid", "invalid"}

LEMMA NormalizedJudged == ASSUME NEW params PROVE Judged(Normalized(params))
BY TextStates DEF Judged, Normalized

LEMMA InformJudged == ASSUME NEW c, NEW inform PROVE Judged(NormalizeInform(c, inform).fields)
<1> DEFINE fields == Normalized(inform.params)
<1>1. Judged(fields) BY NormalizedJudged
<1>2. Judged(WithClass(c, fields))
  <2>1. fields = [f \in Field |-> fields[f]] /\ "model" \in Field BY DEF Normalized, Field
  <2>2. Valid(ClassOf[c], ProductClass).state = "valid" BY DEF Valid
  <2> HIDE DEF fields
  <2> QED BY <1>1, <2>1, <2>2 DEF WithClass, Judged
<1> QED BY <1>1, <1>2 DEF NormalizeInform

\* The row of a field that a message counts for becomes its observation, and nothing else moves.
LEMMA UpdateFields ==
  ASSUME NEW d, Shaped(d), NEW c \in Cpe, NEW inventory, NEW op, NEW now
  PROVE  LET u == UpdateInventory(d, c, inventory, op, now)
         IN /\ \A e \in Cpe : u.cpes[e].last_seen = d.cpes[e].last_seen
            /\ \A e \in Cpe \ {c} : u.rows[e] = d.rows[e]
            /\ \A f \in Field : u.rows[c][f] =
                 IF f \in Counts(d, c, inventory.fields, now)
                 THEN Stored(d.rows[c][f], inventory.fields[f], inventory.profile, op, now)
                 ELSE d.rows[c][f]
<1> DEFINE counts == Counts(d, c, inventory.fields, now)
           valid == {f \in counts : inventory.fields[f].state = "valid"}
           columns == [f \in Field |-> IF f \in valid THEN inventory.fields[f].value
                                                     ELSE d.cpes[c].columns[f]]
           rows == [f \in Field |-> IF f \in counts
                      THEN Stored(d.rows[c][f], inventory.fields[f], inventory.profile, op, now)
                      ELSE d.rows[c][f]]
           u == UpdateInventory(d, c, inventory, op, now)
<1>1. u = [d EXCEPT !.rows[c] = rows, !.cpes[c] = [@ EXCEPT !.columns = columns]]
  BY DEF UpdateInventory
<1>2. \A f \in Field : rows[f] = IF f \in counts
           THEN Stored(d.rows[c][f], inventory.fields[f], inventory.profile, op, now)
           ELSE d.rows[c][f]
  OBVIOUS
<1> HIDE DEF counts, valid, columns, rows, u
<1>3. /\ u.rows = [d.rows EXCEPT ![c] = rows]
      /\ u.cpes = [d.cpes EXCEPT ![c] = [d.cpes[c] EXCEPT !.columns = columns]]
  BY <1>1 DEF Shaped
<1>4. \A e \in Cpe : u.cpes[e].last_seen = d.cpes[e].last_seen BY <1>3 DEF Shaped
<1>5. u.rows[c] = rows /\ \A e \in Cpe \ {c} : u.rows[e] = d.rows[e] BY <1>3 DEF Shaped
<1> QED BY <1>2, <1>4, <1>5 DEF u, counts

\* A writer of message m: its observations are what it stores, and last_seen has seen it.
LEMMA UpdateKept ==
  ASSUME NEW d, Shaped(d), NEW h, Kept(h, d), NEW c \in Cpe, NEW inventory, NEW m,
         m.cpe = c, m.at \in Nat \ {0}, Observation(m) = inventory.fields, Judged(inventory.fields),
         m.op = NoOp => m.at <= d.cpes[c].last_seen
  PROVE  Kept(h \cup {m}, UpdateInventory(d, c, inventory, m.op, m.at))
<1> DEFINE u == UpdateInventory(d, c, inventory, m.op, m.at)
           g == h \cup {m}
           counts == Counts(d, c, inventory.fields, m.at)
<1>1. /\ \A e \in Cpe : u.cpes[e].last_seen = d.cpes[e].last_seen
      /\ \A e \in Cpe \ {c} : u.rows[e] = d.rows[e]
      /\ \A f \in Field : u.rows[c][f] =
           IF f \in counts
           THEN Stored(d.rows[c][f], inventory.fields[f], inventory.profile, m.op, m.at)
           ELSE d.rows[c][f]
  BY UpdateFields
<1>2. \A f \in Field : f \in counts <=>
        inventory.fields[f].state # "not_reported" /\ m.at > d.rows[c][f].last.at
  BY DEF Counts
<1> HIDE DEF u, counts
<1>3. ASSUME NEW e \in Cpe
      PROVE  /\ u.cpes[e].last_seen \in Nat
             /\ \A n \in g : n.cpe = e /\ n.op = NoOp => n.at <= u.cpes[e].last_seen
  BY <1>1 DEF Kept, CpeKept
<1>4. ASSUME NEW e \in Cpe \ {c}, NEW f \in Field
      PROVE  RowKept(u.rows[e][f], Told(g, e, f), f)
  <2>1. Told(g, e, f) = Told(h, e, f) BY DEF Told
  <2> QED BY <1>1, <2>1 DEF Kept, CpeKept
<1>5. ASSUME NEW f \in Field
      PROVE  RowKept(u.rows[c][f], Told(g, c, f), f)
  <2> DEFINE row == d.rows[c][f]
             told == Told(h, c, f)
             observation == inventory.fields[f]
  <2>1. RowKept(row, told, f) BY DEF Kept, CpeKept
  <2>2. observation.state \in {"not_reported", "valid", "invalid"} BY DEF Judged
  <2>3. observation = Observation(m)[f] OBVIOUS
  <2>4. Told(g, c, f) = IF observation.state # "not_reported" THEN told \cup {m} ELSE told
    BY DEF Told
  <2>5. u.rows[c][f] = IF observation.state # "not_reported" /\ m.at > row.last.at
                       THEN Stored(row, observation, inventory.profile, m.op, m.at) ELSE row
    BY <1>1, <1>2
  <2>6. row.last.at \in Nat BY <2>1 DEF RowKept
  <2> HIDE DEF row, told, observation
  <2>7. CASE observation.state = "not_reported"
    BY <2>1, <2>4, <2>5, <2>7
  <2>8. CASE observation.state # "not_reported" /\ m.at > row.last.at
    <3>1. RowKept(Stored(row, observation, inventory.profile, m.op, m.at), told \cup {m}, f)
      BY <2>1, <2>2, <2>3, <2>8, NewerKept
    <3> QED BY <2>4, <2>5, <2>8, <3>1
  <2>9. CASE observation.state # "not_reported" /\ ~ (m.at > row.last.at)
    <3>1. RowKept(row, told \cup {m}, f)
      BY <2>1, <2>2, <2>3, <2>6, <2>9, OlderKept
    <3> QED BY <2>4, <2>5, <2>9, <3>1
  <2> QED BY <2>7, <2>8, <2>9
<1>6. Kept(g, u)
  <2>1. \A e \in Cpe : \A f \in Field : RowKept(u.rows[e][f], Told(g, e, f), f)
    BY <1>4, <1>5
  <2> HIDE DEF g
  <2> QED BY <1>3, <2>1 DEF Kept, CpeKept
<1> QED BY <1>6 DEF u, g

\* What is kept depends on the rows and on last_seen, which only grows.
LEMMA KeptLasts ==
  ASSUME NEW d, NEW u, NEW h, Kept(h, d),
         \A e \in Cpe : /\ u.rows[e] = d.rows[e] /\ u.cpes[e].last_seen \in Nat
                        /\ u.cpes[e].last_seen >= d.cpes[e].last_seen,
         \A m \in h : m.at \in Nat
  PROVE  Kept(h, u)
<1> SUFFICES ASSUME NEW e \in Cpe PROVE CpeKept(h, u, e)
  BY DEF Kept
<1>1. CpeKept(h, d, e) BY DEF Kept
<1>2. \A m \in h : m.cpe = e /\ m.op = NoOp => m.at <= u.cpes[e].last_seen
  BY <1>1 DEF CpeKept
<1> QED BY <1>1, <1>2 DEF CpeKept

LEMMA KeptInit == Init => KeptInvariant
<1> SUFFICES ASSUME Init PROVE KeptInvariant
  OBVIOUS
<1>1. \A c \in Cpe : db.cpes[c].last_seen \in Nat /\ \A f \in Field : db.rows[c][f] = NoRow
  BY DEF Init
<1>2. heard = {} BY DEF Init
<1>3. \A c \in Cpe, f \in Field : Told(heard, c, f) = {} BY <1>2 DEF Told
<1>4. \A f \in Field : RowKept(NoRow, {}, f) BY DEF RowKept, NoRow, NoOrigin
<1> QED BY <1>1, <1>2, <1>3, <1>4 DEF KeptInvariant, Kept, CpeKept

\* The message of an Inform is normalised as the Inform was.
LEMMA InformObserved ==
  ASSUME NEW c \in Cpe, NEW inform, NEW now
  PROVE  Observation(Message(c, inform.params, inform.manufacturer, NoOp, now)) =
           NormalizeInform(c, inform).fields
<1> DEFINE m == Message(c, inform.params, inform.manufacturer, NoOp, now)
           fields == Normalized(inform.params)
<1>1. /\ m.cpe = c /\ m.params = inform.params /\ m.manufacturer = inform.manufacturer
      /\ m.op = NoOp
  BY DEF Message
<1> HIDE DEF m
<1>2. \A p \in Profiles : Matches(p, c, m, fields) <=> Matches(p, c, inform, fields)
  BY <1>1 DEF Matches
<1>3. Best(c, m, fields) = Best(c, inform, fields) BY <1>2 DEF Best
<1>4. NormalizeInform(c, m) = NormalizeInform(c, inform) BY <1>1, <1>3 DEF NormalizeInform
<1>5. Observation(m) = NormalizeInform(c, inform).fields BY <1>1, <1>4 DEF Observation
<1> QED BY <1>5 DEF m

\* The upsert only moves last_seen, to the newer of the two times.
LEMMA UpsertSeen ==
  ASSUME NEW d, Shaped(d), NEW c \in Cpe, NEW inform, NEW now
  PROVE  LET u == Upsert(d, c, inform, now)
         IN /\ \A e \in Cpe : u.rows[e] = d.rows[e]
            /\ \A e \in Cpe \ {c} : u.cpes[e].last_seen = d.cpes[e].last_seen
            /\ u.cpes[c].last_seen = IF now > d.cpes[c].last_seen THEN now ELSE d.cpes[c].last_seen
<1> DEFINE u == Upsert(d, c, inform, now)
           seen == IF now > d.cpes[c].last_seen THEN now ELSE d.cpes[c].last_seen
<1>1. u = [d EXCEPT !.cpes[c] = [@ EXCEPT !.manufacturer = inform.manufacturer, !.last_seen = seen]]
  BY DEF Upsert
<1> HIDE DEF u, seen
<1>2. /\ u.rows = d.rows
      /\ u.cpes = [d.cpes EXCEPT ![c] =
                     [d.cpes[c] EXCEPT !.manufacturer = inform.manufacturer, !.last_seen = seen]]
  BY <1>1 DEF Shaped
<1>3. u.cpes[c].last_seen = seen /\ \A e \in Cpe \ {c} : u.cpes[e] = d.cpes[e]
  BY <1>2 DEF Shaped
<1> QED BY <1>2, <1>3 DEF u, seen

LEMMA InformKept ==
  ASSUME Inv, KeptInvariant, NEW c \in Cpe, NEW s \in SessionId, NEW inform \in Informs,
         NEW now \in Times, Inform(c, s, inform, now)
  PROVE  KeptInvariant'
<1> DEFINE m == Message(c, inform.params, inform.manufacturer, NoOp, now)
           inventory == NormalizeInform(c, inform)
           d == Upsert(db, c, inform, now)
           u == UpdateInventory(d, c, inventory, NoOp, now)
           row == [state |-> "awaiting_empty", cpe |-> c, started |-> now,
                   expires |-> now + SessionSeconds, events |-> inform.events]
<1>1. db' = [u EXCEPT !.sessions[s] = row] /\ heard' = heard \cup {m}
  BY DEF Inform
<1>2. now \in Nat \ {0} BY DEF Times, Inv
<1>3. m.cpe = c /\ m.op = NoOp /\ m.at = now BY DEF Message
<1>4. Observation(m) = inventory.fields BY InformObserved
<1>5. Judged(inventory.fields) BY InformJudged
<1>6. Shaped(d) BY UpsertStated DEF Inv
<1>7. /\ \A e \in Cpe : d.rows[e] = db.rows[e]
      /\ \A e \in Cpe \ {c} : d.cpes[e].last_seen = db.cpes[e].last_seen
      /\ d.cpes[c].last_seen = IF now > db.cpes[c].last_seen THEN now ELSE db.cpes[c].last_seen
  BY UpsertSeen DEF Inv
<1> HIDE DEF m, inventory, d, row
<1>8. \A e \in Cpe : db.cpes[e].last_seen \in Nat BY DEF KeptInvariant, Kept, CpeKept
<1>9. \A e \in Cpe : d.cpes[e].last_seen \in Nat /\ d.cpes[e].last_seen >= db.cpes[e].last_seen
  BY <1>2, <1>7, <1>8
<1>10. Kept(heard, d) BY <1>7, <1>9, KeptLasts DEF KeptInvariant
<1>11. now <= d.cpes[c].last_seen BY <1>2, <1>7, <1>8
<1>12. Kept(heard \cup {m}, u) BY <1>2, <1>3, <1>4, <1>5, <1>6, <1>10, <1>11, UpdateKept
<1>13. Shaped(u) BY <1>6, UpdateRows
<1> HIDE DEF u
<1>14. db'.rows = u.rows /\ db'.cpes = u.cpes BY <1>1, <1>13 DEF Shaped
<1>15. Kept(heard', db') BY <1>1, <1>12, <1>14 DEF Kept, CpeKept
<1> QED BY <1>1, <1>2, <1>3, <1>15 DEF KeptInvariant

LEMMA ReadKept ==
  ASSUME Inv, KeptInvariant, NEW c \in Cpe, NEW o \in OpId, NEW p \in Profiles,
         NEW params \in Reads, NEW now \in Times, Read(c, o, p, params, now)
  PROVE  KeptInvariant'
<1> DEFINE m == Message(c, params, p.manufacturer, o, now)
           inventory == NormalizeRead(p, params)
<1>1. db' = UpdateInventory(db, c, inventory, o, now) /\ heard' = heard \cup {m}
  BY DEF Read
<1>2. now \in Nat \ {0} BY DEF Times, Inv
<1>3. m.cpe = c /\ m.op = o /\ m.at = now /\ m.params = params BY DEF Message
<1>4. o # NoOp BY InventoryIds
<1>5. Observation(m) = inventory.fields BY <1>3, <1>4 DEF Observation, NormalizeRead
<1>6. Judged(inventory.fields) BY NormalizedJudged DEF NormalizeRead
<1>7. Shaped(db) /\ Kept(heard, db) BY DEF Inv, KeptInvariant
<1> HIDE DEF m, inventory
<1>8. Kept(heard', db') BY <1>1, <1>2, <1>3, <1>4, <1>5, <1>6, <1>7, UpdateKept
<1> QED BY <1>1, <1>2, <1>3, <1>8 DEF KeptInvariant

LEMMA KeptNext == ASSUME Inv, KeptInvariant, [Next]_vars PROVE KeptInvariant'
<1>1. CASE Write
  <2>1. CASE \E c \in Cpe, now \in Times, s \in SessionId, inform \in Informs : Inform(c, s, inform, now)
    BY <2>1, InformKept
  <2>2. CASE \E c \in Cpe, now \in Times, o \in OpId, p \in Profiles, params \in Reads :
               Read(c, o, p, params, now)
    BY <2>2, ReadKept
  <2>3. CASE \E s \in SessionId, now \in Times : Complete(s, now)
    <3>1. db'.rows = db.rows /\ db'.cpes = db.cpes /\ heard' = heard
      BY <2>3 DEF Complete, Inv, Shaped
    <3> QED BY <3>1 DEF KeptInvariant, Kept, CpeKept
  <2> QED BY <1>1, <2>1, <2>2, <2>3 DEF Write
<1>2. CASE UNCHANGED <<db, heard>>
  BY <1>2 DEF KeptInvariant
<1>3. CASE View \/ Tick
  <2>1. UNCHANGED <<db, heard>>
    BY <1>3 DEF View, Tick, Open, CountCpes, ReadHead, ReadBody, Respond
  <2> QED BY <1>2, <2>1
<1> QED BY <1>1, <1>2, <1>3 DEF Next, vars

\* The row of every field holds a newest observation of it, a valid value outlives whatever is
\* refused later, none is passed over but for a refusal that is as new, and last_seen is as new
\* as every Inform: for any CPEs and messages, in any order and with any lag of their commits.
THEOREM LatestCorrect == Spec => []LatestKept
<1>1. KeptInvariant => LatestKept
  BY DEF KeptInvariant, Kept, CpeKept, RowKept, Told, LatestKept
<1> QED BY <1>1, KeptInit, KeptNext, InvHolds, PTL DEF Spec

----------------------------------------------------------------------------
(* The pages of a list: what Precedes orders has ranks 0..n-1, and a page  *)
(* is an interval of them.                                                 *)

\* A set of sort keys.
Keys(listed) == IsFiniteSet(listed) /\ listed \subseteq Nat \X Nat \X Nat

Before(listed, x) == {y \in listed : Precedes(y, x)}
RankOf(listed) == [x \in listed |-> Cardinality(Before(listed, x))]

LEMMA PrecedesOrders ==
  ASSUME NEW listed, listed \subseteq Nat \X Nat \X Nat
  PROVE  /\ \A x \in listed : ~ Precedes(x, x)
         /\ \A x, y \in listed : x # y => Precedes(x, y) \/ Precedes(y, x)
         /\ \A x, y, z \in listed : Precedes(x, y) /\ Precedes(y, z) => Precedes(x, z)
<1>1. \A x \in listed : x = <<x[1], x[2], x[3]>> /\ x[1] \in Nat /\ x[2] \in Nat /\ x[3] \in Nat
  OBVIOUS
<1>2. \A x, y \in listed : x[1] = y[1] /\ x[2] = y[2] /\ x[3] = y[3] => x = y
  BY <1>1
<1>3. \A x \in listed : ~ Precedes(x, x) BY <1>1 DEF Precedes
<1>4. \A x, y \in listed : x # y => Precedes(x, y) \/ Precedes(y, x)
  BY <1>1, <1>2 DEF Precedes
<1>5. \A x, y, z \in listed : Precedes(x, y) /\ Precedes(y, z) => Precedes(x, z)
  BY <1>1 DEF Precedes
<1> QED BY <1>3, <1>4, <1>5

\* Ranks tell keys apart, and none is missing.
LEMMA RanksFill ==
  ASSUME NEW listed, Keys(listed)
  PROVE  LET n == Cardinality(listed)
         IN /\ n \in Nat
            /\ RankOf(listed) \in [listed -> 0..(n - 1)]
            /\ \A x, y \in listed : RankOf(listed)[x] = RankOf(listed)[y] => x = y
            /\ \A i \in 0..(n - 1) : \E x \in listed : RankOf(listed)[x] = i
<1> DEFINE n == Cardinality(listed)
           rank == RankOf(listed)
<1>1. IsFiniteSet(listed) /\ n \in Nat BY FS_CardinalityType DEF Keys
<1>2. \A x \in listed : rank[x] = Cardinality(Before(listed, x)) BY DEF RankOf
<1>3. \A x \in listed : Before(listed, x) \in SUBSET listed BY DEF Before
<1>4. ASSUME NEW x \in listed
      PROVE  rank[x] \in 0..(n - 1)
  <2> DEFINE before == Before(listed, x)
  <2>1. before # listed BY <1>4, PrecedesOrders DEF Before, Keys
  <2>2. before \in SUBSET listed BY <1>3
  <2> HIDE DEF before
  <2>3. IsFiniteSet(before) /\ Cardinality(before) <= n /\ Cardinality(before) # n
    BY <1>1, <2>1, <2>2, FS_Subset
  <2>4. Cardinality(before) \in Nat BY <2>3, FS_CardinalityType
  <2>5. Cardinality(before) \in 0..(n - 1) BY <1>1, <2>3, <2>4
  <2> QED BY <1>2, <2>5 DEF before
<1>5. ASSUME NEW x \in listed, NEW y \in listed, Precedes(x, y)
      PROVE  rank[x] # rank[y]
  <2> DEFINE a == Before(listed, x)
             b == Before(listed, y)
  <2>1. a \subseteq b BY <1>5, PrecedesOrders DEF Before, Keys
  <2>2. x \in b /\ x \notin a BY <1>5, PrecedesOrders DEF Before, Keys
  <2>3. b \in SUBSET listed BY <1>3
  <2> HIDE DEF a, b
  <2>4. IsFiniteSet(b) BY <1>1, <2>3, FS_Subset
  <2>5. a \in SUBSET b /\ a # b BY <2>1, <2>2
  <2>6. Cardinality(a) # Cardinality(b) BY <2>4, <2>5, FS_Subset
  <2> QED BY <1>2, <2>6 DEF a, b
<1>6. \A x, y \in listed : rank[x] = rank[y] => x = y
  BY <1>5, PrecedesOrders DEF Keys
<1>7. rank \in [listed -> 0..(n - 1)] BY <1>4 DEF RankOf
<1> HIDE DEF n, rank
<1>8. rank \in Injection(listed, 0..(n - 1)) BY <1>6, <1>7 DEF Injection, IsInjective
<1>9. IsFiniteSet(0..(n - 1)) /\ Cardinality(0..(n - 1)) = n
  <2>1. /\ IsFiniteSet(0..(n - 1))
        /\ Cardinality(0..(n - 1)) = IF 0 > n - 1 THEN 0 ELSE (n - 1) - 0 + 1
    BY <1>1, FS_Interval
  <2> QED BY <1>1, <2>1
<1>10. rank \in Surjection(listed, 0..(n - 1))
  BY <1>8, <1>9, FS_Injection DEF n
<1>11. \A i \in 0..(n - 1) : \E x \in listed : rank[x] = i BY <1>10 DEF Surjection
<1> QED BY <1>1, <1>6, <1>7, <1>11 DEF n, rank

\* A page is as long as its limit and what is left after its offset allow.
LEMMA PageSize ==
  ASSUME NEW listed, Keys(listed), NEW offset \in Nat,
         NEW page, page = {x \in listed : /\ offset <= Cardinality(Before(listed, x))
                                          /\ Cardinality(Before(listed, x)) < offset + PageLimit}
  PROVE  LET n == Cardinality(listed)
             left == IF n > offset THEN n - offset ELSE 0
         IN Cardinality(page) = IF left < PageLimit THEN left ELSE PageLimit
<1> DEFINE n == Cardinality(listed)
           left == IF n > offset THEN n - offset ELSE 0
           size == IF left < PageLimit THEN left ELSE PageLimit
           hi == offset + size - 1
           rank == RankOf(listed)
           g == [x \in page |-> rank[x]]
<1>1. /\ n \in Nat /\ rank \in [listed -> 0..(n - 1)]
      /\ \A x, y \in listed : rank[x] = rank[y] => x = y
      /\ \A i \in 0..(n - 1) : \E x \in listed : rank[x] = i
  BY RanksFill
<1>2. PageLimit \in Nat \ {0} BY InventoryTimes
<1>3. \A x \in listed : x \in page <=> offset <= rank[x] /\ rank[x] < offset + PageLimit
  BY DEF RankOf
<1>4. page \subseteq listed OBVIOUS
<1>5. \A x \in page : g[x] = rank[x] OBVIOUS
<1>6. g = [x \in page |-> g[x]] OBVIOUS
<1>7. /\ size \in Nat /\ hi \in Int
      /\ \A i \in 0..(n - 1) : i \in offset..hi <=> offset <= i /\ i < offset + PageLimit
      /\ offset..hi \subseteq 0..(n - 1)
  BY <1>1, <1>2
<1>8. IsFiniteSet(offset..hi) /\ Cardinality(offset..hi) = size
  <2>1. hi = offset + size - 1 /\ offset \in Int OBVIOUS
  <2> HIDE DEF size, hi
  <2>2. /\ IsFiniteSet(offset..hi)
        /\ Cardinality(offset..hi) = IF offset > hi THEN 0 ELSE hi - offset + 1
    BY <1>7, <2>1, FS_Interval
  <2> QED BY <1>7, <2>1, <2>2
<1> HIDE DEF n, left, size, hi, rank, g
<1>9. \A x \in listed : rank[x] \in 0..(n - 1) BY <1>1
<1>10. \A x \in page : g[x] \in offset..hi BY <1>3, <1>4, <1>5, <1>7, <1>9
<1>11. \A x, y \in page : g[x] = g[y] => x = y BY <1>1, <1>4, <1>5
<1>12. \A i \in offset..hi : \E x \in page : g[x] = i
  <2> SUFFICES ASSUME NEW i \in offset..hi PROVE \E x \in page : g[x] = i
    OBVIOUS
  <2>1. i \in 0..(n - 1) BY <1>7
  <2>2. PICK x \in listed : rank[x] = i BY <1>1, <2>1
  <2>3. x \in page BY <1>3, <1>7, <2>1, <2>2
  <2> QED BY <1>5, <2>2, <2>3
<1>13. g \in [page -> offset..hi] BY <1>6, <1>10
<1>14. g \in Injection(page, offset..hi) /\ g \in Surjection(page, offset..hi)
  BY <1>11, <1>12, <1>13 DEF Injection, IsInjective, Surjection
<1>15. Cardinality(page) = size BY <1>8, <1>14, FS_Injection
<1> QED BY <1>15 DEF size, left, n

\* What the sort keys of a list are made of.
Timed(d) ==
  /\ \A c \in Cpe : d.cpes[c].last_seen \in Nat
  /\ \A s \in SessionId : d.sessions[s].started \in Nat /\ d.sessions[s].events \in Nat

Lists == {"sessions", "events", "cpes"}

LEMMA ListedKeys ==
  ASSUME NEW d, Timed(d), NEW q, q.kind \in Lists
  PROVE  Keys(Listed(d, q))
<1> DEFINE mine == {s \in SessionId : d.sessions[s].state # "absent" /\ d.sessions[s].cpe = q.cpe}
           shown == {c \in Cpe : Registered(d, c) /\ q.maker \in {Anyone, d.cpes[c].manufacturer}}
           key(s, i) == <<d.sessions[s].started, s, i>>
<1>1. /\ mine \in SUBSET SessionId /\ shown \in SUBSET Cpe
      /\ IsFiniteSet(SessionId) /\ IsFiniteSet(Cpe)
      /\ SessionId \subseteq Nat /\ Cpe \subseteq Nat
  BY InventoryIds
<1>2. IsFiniteSet(mine) /\ IsFiniteSet(shown) BY <1>1, FS_Subset
<1>3. CASE q.kind = "sessions"
  <2> DEFINE listed == {key(s, 0) : s \in mine}
             f == [s \in mine |-> key(s, 0)]
  <2>1. Listed(d, q) = listed BY <1>3 DEF Listed
  <2>2. f \in Surjection(mine, listed) BY DEF Surjection
  <2>3. listed \subseteq Nat \X Nat \X Nat
    <3>1. \A s \in mine : d.sessions[s].started \in Nat /\ s \in Nat BY <1>1 DEF Timed
    <3> HIDE DEF mine
    <3>2. \A s \in mine : key(s, 0) \in Nat \X Nat \X Nat BY <3>1
    <3> QED BY <3>2
  <2> HIDE DEF mine, listed, f
  <2>4. IsFiniteSet(listed) BY <1>2, <2>2, FS_Surjection
  <2> QED BY <2>1, <2>3, <2>4 DEF Keys
<1>4. CASE q.kind = "events"
  <2> DEFINE events(s) == {key(s, i) : i \in 1..d.sessions[s].events}
             all == {events(s) : s \in mine}
             f == [s \in mine |-> events(s)]
  <2>1. Listed(d, q) = UNION all BY <1>4 DEF Listed
  <2>2. f \in Surjection(mine, all) BY DEF Surjection
  <2>3. UNION all \subseteq Nat \X Nat \X Nat
    <3>1. \A s \in mine : /\ d.sessions[s].started \in Nat /\ s \in Nat
                          /\ d.sessions[s].events \in Nat
      BY <1>1 DEF Timed
    <3> HIDE DEF mine
    <3>2. \A s \in mine : \A i \in 1..d.sessions[s].events : key(s, i) \in Nat \X Nat \X Nat
      BY <3>1
    <3>3. \A s \in mine : events(s) \subseteq Nat \X Nat \X Nat BY <3>2
    <3> QED BY <3>3
  <2>4. ASSUME NEW s \in mine PROVE IsFiniteSet(events(s))
    <3> DEFINE n == d.sessions[s].events
               g == [i \in 1..n |-> key(s, i)]
    <3>1. n \in Nat BY <1>1 DEF Timed
    <3>2. g \in Surjection(1..n, events(s)) BY DEF Surjection
    <3> HIDE DEF n, g, events
    <3>3. IsFiniteSet(1..n) BY <3>1, FS_Interval
    <3> QED BY <3>2, <3>3, FS_Surjection
  <2>5. \A e \in all : IsFiniteSet(e) BY <2>4
  <2> HIDE DEF mine, all, f
  <2>6. IsFiniteSet(all) BY <1>2, <2>2, FS_Surjection
  <2>7. IsFiniteSet(UNION all) BY <2>5, <2>6, FS_UNION
  <2> QED BY <2>1, <2>3, <2>7 DEF Keys
<1>5. CASE q.kind = "cpes"
  <2> DEFINE listed == {<<d.cpes[c].last_seen, c, 0>> : c \in shown}
             f == [c \in shown |-> <<d.cpes[c].last_seen, c, 0>>]
  <2>1. Listed(d, q) = listed BY <1>5 DEF Listed
  <2>2. f \in Surjection(shown, listed) BY DEF Surjection
  <2>3. listed \subseteq Nat \X Nat \X Nat
    <3>1. \A c \in shown : d.cpes[c].last_seen \in Nat /\ c \in Nat BY <1>1 DEF Timed
    <3> HIDE DEF shown
    <3>2. \A c \in shown : <<d.cpes[c].last_seen, c, 0>> \in Nat \X Nat \X Nat BY <3>1
    <3> QED BY <3>2
  <2> HIDE DEF shown, listed, f
  <2>4. IsFiniteSet(listed) BY <1>2, <2>2, FS_Surjection
  <2> QED BY <2>1, <2>3, <2>4 DEF Keys
<1> QED BY <1>3, <1>4, <1>5 DEF Lists

\* The page of a list is as long as the count of the same tables says.
Fits(v) ==
  LET left == IF v.head > v.query.offset THEN v.head - v.query.offset ELSE 0
  IN Cardinality(v.body) = IF left < PageLimit THEN left ELSE PageLimit

LEMMA PageFits ==
  ASSUME NEW d, Timed(d), NEW v, v.query.kind \in Lists, v.query.offset \in Nat,
         v.head = Cardinality(Listed(d, v.query)), v.body = Page(d, v.query)
  PROVE  Fits(v)
<1> DEFINE listed == Listed(d, v.query)
<1>1. Keys(listed) BY ListedKeys
<1>2. v.body = {x \in listed : /\ v.query.offset <= Cardinality(Before(listed, x))
                               /\ Cardinality(Before(listed, x)) < v.query.offset + PageLimit}
  BY DEF Page, Before
<1> HIDE DEF listed
<1> QED BY <1>1, <1>2, PageSize DEF Fits, listed

\* What a view of a list has read is of the tables of its first statement.
Paged(v) ==
  /\ v.at \in {"open", "half", "done"} =>
       v.query.kind \in Lists \cup {"inventory"} /\ v.query.offset \in Nat
  /\ v.at \in {"open", "half"} => Timed(v.snapshot)
  /\ v.at = "half" /\ v.query.kind # "inventory" =>
       v.head = Cardinality(Listed(v.snapshot, v.query))
  /\ v.at = "done" /\ v.query.kind # "inventory" => Fits(v)

PagesInvariant == Timed(db) /\ \A r \in Reader : Paged(reader[r])

LEMMA PagesInit == Init => PagesInvariant
<1> SUFFICES ASSUME Init PROVE PagesInvariant
  OBVIOUS
<1>1. Timed(db) BY DEF Init, Timed, NoSession
<1>2. \A r \in Reader : reader[r].at = "idle" BY DEF Init
<1> QED BY <1>1, <1>2 DEF PagesInvariant, Paged

\* A writer leaves the views alone, and stores times and counts.
LEMMA WriterPages ==
  ASSUME PagesInvariant, KeptInvariant', UNCHANGED reader,
         \A s \in SessionId : db'.sessions[s].started \in Nat /\ db'.sessions[s].events \in Nat
  PROVE  PagesInvariant'
<1>1. \A c \in Cpe : db'.cpes[c].last_seen \in Nat BY DEF KeptInvariant, Kept, CpeKept
<1> QED BY <1>1 DEF PagesInvariant, Timed

\* update_inventory and the upsert touch no session.
LEMMA SessionsStay ==
  ASSUME NEW d, Shaped(d), NEW c \in Cpe, NEW inventory, NEW op, NEW now, NEW inform
  PROVE  /\ UpdateInventory(d, c, inventory, op, now).sessions = d.sessions
         /\ Upsert(d, c, inform, now).sessions = d.sessions
<1>1. Upsert(d, c, inform, now).sessions = d.sessions BY DEF Upsert, Shaped
<1>2. UpdateInventory(d, c, inventory, op, now).sessions = d.sessions BY DEF UpdateInventory, Shaped
<1> QED BY <1>1, <1>2

LEMMA InformPages ==
  ASSUME Inv, PagesInvariant, KeptInvariant', NEW c \in Cpe, NEW s \in SessionId,
         NEW inform \in Informs, NEW now \in Times, Inform(c, s, inform, now)
  PROVE  PagesInvariant'
<1> DEFINE inventory == NormalizeInform(c, inform)
           d == Upsert(db, c, inform, now)
           u == UpdateInventory(d, c, inventory, NoOp, now)
           row == [state |-> "awaiting_empty", cpe |-> c, started |-> now,
                   expires |-> now + SessionSeconds, events |-> inform.events]
<1>1. db' = [u EXCEPT !.sessions[s] = row] /\ UNCHANGED reader BY DEF Inform
<1>2. row.started \in Nat /\ row.events \in Nat BY TimesType, InventoryInputs
<1>3. Shaped(d) /\ d.sessions = db.sessions BY UpsertStated, SessionsStay DEF Inv
<1> HIDE DEF inventory, d, row
<1>4. Shaped(u) /\ u.sessions = d.sessions BY <1>3, UpdateRows, SessionsStay
<1> HIDE DEF u
<1>5. db'.sessions = [u.sessions EXCEPT ![s] = row] BY <1>1, <1>4 DEF Shaped
<1>6. \A t \in SessionId : db'.sessions[t] = IF t = s THEN row ELSE db.sessions[t]
  BY <1>3, <1>4, <1>5 DEF Inv, Shaped
<1> QED BY <1>1, <1>2, <1>6, WriterPages DEF PagesInvariant, Timed

\* A step of one reader needs to be sound only for what that reader has read.
LEMMA ReaderPages ==
  ASSUME Inv, PagesInvariant, UNCHANGED db, NEW r \in Reader, NEW v, Paged(v),
         reader' = [reader EXCEPT ![r] = v]
  PROVE  PagesInvariant'
<1>1. \A q \in Reader : reader'[q] = IF q = r THEN v ELSE reader[q] BY DEF Inv
<1>2. \A q \in Reader : Paged(reader'[q]) BY <1>1 DEF PagesInvariant
<1> QED BY <1>2 DEF PagesInvariant

LEMMA OpenPages ==
  ASSUME Inv, PagesInvariant, NEW r \in Reader, NEW q, q.kind \in Lists \cup {"inventory"},
         q.offset \in Nat, Open(r, q) \/ CountCpes(r, q)
  PROVE  PagesInvariant'
<1>1. CASE Open(r, q)
  <2> DEFINE v == [at |-> "open", query |-> q, snapshot |-> db]
  <2>1. reader' = [reader EXCEPT ![r] = v] /\ UNCHANGED db BY <1>1 DEF Open
  <2>2. Paged(v) BY DEF Paged, PagesInvariant
  <2> HIDE DEF v
  <2> QED BY <2>1, <2>2, ReaderPages
<1>2. CASE CountCpes(r, q)
  <2> DEFINE v == [at |-> "half", query |-> q, snapshot |-> db, head |-> Head(db, q)]
  <2>1. reader' = [reader EXCEPT ![r] = v] /\ UNCHANGED db BY <1>2 DEF CountCpes
  <2>2. Head(db, q) = Cardinality(Listed(db, q)) BY <1>2 DEF CountCpes, Head
  <2>3. Paged(v) BY <2>2 DEF Paged, PagesInvariant
  <2> HIDE DEF v
  <2> QED BY <2>1, <2>3, ReaderPages
<1> QED BY <1>1, <1>2

LEMMA ReadHeadPages ==
  ASSUME Inv, PagesInvariant, NEW r \in Reader, ReadHead(r)
  PROVE  PagesInvariant'
<1> DEFINE q == reader[r].query
           d == reader[r].snapshot
           v == [at |-> "half", query |-> q, snapshot |-> d, head |-> Head(d, q)]
<1>1. reader' = [reader EXCEPT ![r] = v] /\ UNCHANGED db /\ reader[r].at = "open"
  BY DEF ReadHead, Seen
<1>2. Timed(d) /\ q.kind \in Lists \cup {"inventory"} /\ q.offset \in Nat
  BY <1>1 DEF PagesInvariant, Paged
<1>3. q.kind # "inventory" => Head(d, q) = Cardinality(Listed(d, q)) BY DEF Head
<1>4. Paged(v) BY <1>2, <1>3 DEF Paged
<1> HIDE DEF v
<1> QED BY <1>1, <1>4, ReaderPages

LEMMA ReadBodyPages ==
  ASSUME Inv, PagesInvariant, NEW r \in Reader, ReadBody(r)
  PROVE  PagesInvariant'
<1> DEFINE q == reader[r].query
           d == reader[r].snapshot
           v == [at |-> "done", query |-> q, head |-> reader[r].head, body |-> Body(d, q)]
<1>1. reader' = [reader EXCEPT ![r] = v] /\ UNCHANGED db /\ reader[r].at = "half"
  BY DEF ReadBody, Seen
<1>2. /\ Timed(d) /\ q.kind \in Lists \cup {"inventory"} /\ q.offset \in Nat
      /\ q.kind # "inventory" => reader[r].head = Cardinality(Listed(d, q))
  BY <1>1 DEF PagesInvariant, Paged
<1>3. v.at = "done" /\ v.query = q /\ v.head = reader[r].head /\ v.body = Body(d, q)
  OBVIOUS
<1> HIDE DEF q, d, v
<1>4. ASSUME q.kind # "inventory" PROVE Fits(v)
  <2>1. v.body = Page(d, q) BY <1>3, <1>4 DEF Body
  <2>2. q.kind \in Lists BY <1>2, <1>4
  <2> QED BY <1>2, <1>3, <1>4, <2>1, <2>2, PageFits
<1>5. Paged(v) BY <1>2, <1>3, <1>4 DEF Paged
<1> QED BY <1>1, <1>5, ReaderPages

LEMMA PagesNext ==
  ASSUME Inv, PagesInvariant, KeptInvariant', [Next]_vars
  PROVE  PagesInvariant'
<1>1. CASE Write
  <2>1. CASE \E c \in Cpe, now \in Times, s \in SessionId, inform \in Informs : Inform(c, s, inform, now)
    BY <2>1, InformPages
  <2>2. CASE \E c \in Cpe, now \in Times, o \in OpId, p \in Profiles, params \in Reads :
               Read(c, o, p, params, now)
    <3>1. PICK c \in Cpe, now \in Times, o \in OpId, p \in Profiles, params \in Reads :
            Read(c, o, p, params, now)
      BY <2>2
    <3>2. db' = UpdateInventory(db, c, NormalizeRead(p, params), o, now) /\ UNCHANGED reader
      BY <3>1 DEF Read
    <3>3. db'.sessions = db.sessions BY <3>2, SessionsStay DEF Inv
    <3> QED BY <3>2, <3>3, WriterPages DEF PagesInvariant, Timed
  <2>3. CASE \E s \in SessionId, now \in Times : Complete(s, now)
    <3>1. PICK s \in SessionId : db' = [db EXCEPT !.sessions[s] = [@ EXCEPT !.state = "completed"]]
      BY <2>3 DEF Complete
    <3>2. UNCHANGED reader BY <2>3 DEF Complete
    <3> DEFINE row == [db.sessions[s] EXCEPT !.state = "completed"]
    <3>3. row.started = db.sessions[s].started /\ row.events = db.sessions[s].events OBVIOUS
    <3>4. db'.sessions = [db.sessions EXCEPT ![s] = row] BY <3>1 DEF Inv, Shaped
    <3> HIDE DEF row
    <3>5. \A t \in SessionId : db'.sessions[t] = IF t = s THEN row ELSE db.sessions[t]
      BY <3>4 DEF Inv, Shaped
    <3> QED BY <3>2, <3>3, <3>5, WriterPages DEF PagesInvariant, Timed
  <2> QED BY <1>1, <2>1, <2>2, <2>3 DEF Write
<1>2. CASE View
  <2>1. PICK r \in Reader :
          \/ \E c \in Cpe : Open(r, Query("inventory", c, Anyone, 0))
          \/ \E c \in Cpe, kind \in {"sessions", "events"}, offset \in Offsets :
               Open(r, Query(kind, c, Anyone, offset))
          \/ \E maker \in Manufacturer \cup {Anyone}, offset \in Offsets :
               CountCpes(r, Query("cpes", NoCpe, maker, offset))
          \/ ReadHead(r) \/ ReadBody(r) \/ Respond(r)
    BY <1>2 DEF View
  <2>2. ASSUME NEW kind \in Lists \cup {"inventory"}, NEW c, NEW maker, NEW offset \in Nat,
               \/ Open(r, Query(kind, c, maker, offset)) \/ CountCpes(r, Query(kind, c, maker, offset))
        PROVE  PagesInvariant'
    <3> DEFINE q == Query(kind, c, maker, offset)
    <3>1. q.kind = kind /\ q.offset = offset BY DEF Query
    <3> HIDE DEF q
    <3> QED BY <2>2, <3>1, OpenPages DEF q
  <2>3. /\ 0 \in Nat /\ Offsets \subseteq Nat
        /\ "inventory" \in Lists \cup {"inventory"} /\ "cpes" \in Lists \cup {"inventory"}
        /\ \A kind \in {"sessions", "events"} : kind \in Lists \cup {"inventory"}
    BY InventoryTimes DEF Lists
  <2>4. CASE Respond(r)
    <3>1. reader' = [reader EXCEPT ![r] = Idle] /\ UNCHANGED db BY <2>4 DEF Respond
    <3>2. Paged(Idle) BY DEF Paged, Idle
    <3> QED BY <3>1, <3>2, ReaderPages
  <2> QED BY <2>1, <2>2, <2>3, <2>4, ReadHeadPages, ReadBodyPages
<1>3. CASE Tick
  BY <1>3 DEF Tick, PagesInvariant
<1>4. CASE UNCHANGED vars
  BY <1>4 DEF PagesInvariant, vars
<1> QED BY <1>1, <1>2, <1>3, <1>4 DEF Next

\* The items and the total of every page are of one moment, whatever is committed between the
\* statements that count and read them: for any CPEs, sessions, events, limit and offset.
THEOREM PagesCorrect == Spec => []PagesCoherent
<1>1. PagesInvariant => PagesCoherent BY DEF PagesInvariant, Paged, Fits, PagesCoherent
<1> QED BY <1>1, PagesInit, PagesNext, KeptInit, KeptNext, InvHolds, PTL DEF Spec
=============================================================================
