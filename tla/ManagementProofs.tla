-------------------------- MODULE ManagementProofs --------------------------
(***************************************************************************)
(* Proofs about the management pages, for any tables, requests, servers    *)
(* and directories, and for any number of threads whose requests overlap.  *)
(*                                                                         *)
(* Requests read first and write later, with nothing held in between.  The *)
(* invariant is that what a request read is still so unless it met a write *)
(* to the table it read; what its write may then break is what the         *)
(* properties excuse.                                                      *)
(***************************************************************************)
EXTENDS Management, FiniteSetTheorems, TLAPS

\* A table is a function from keys to rows.
Table(rows, fields) ==
    /\ rows = [i \in DOMAIN rows |-> rows[i]]
    /\ DOMAIN rows \subseteq Ids
    /\ \A i \in DOMAIN rows : DOMAIN rows[i] = fields

\* A table with default flags, as the unique index lets it be.
Flagged(rows, fields) ==
    /\ Table(rows, fields) /\ UniqueDefault(rows)
    /\ \A i \in DOMAIN rows : rows[i].default \in BOOLEAN

\* The default flag is on one row, if there is any.
OneDefault(rows) ==
    /\ \A i \in DOMAIN rows : rows[i].default \in BOOLEAN
    /\ DOMAIN rows # {} => \E d \in DOMAIN rows : Defaults(rows) = {d}

\* The row that takes over the flag when row i goes.
Successor(rows, i, next) ==
    IF rows[i].default /\ DOMAIN rows # {i}
    THEN next \in DOMAIN rows \ {i}
    ELSE next = NoSuccessor

-----------------------------------------------------------------------------
(* What a request in progress read is still so, or it met a write           *)

\* Flags kept in requests are flags.
FlagsOfRequest(w) ==
    LET r == req[w]
    IN  /\ Serving(w, "create_model") => r.default \in BOOLEAN
        /\ Serving(w, "save_agent") =>
              r.default \in BOOLEAN /\ r.first \in BOOLEAN /\ r.row.default \in BOOLEAN

ModelRead(w) ==
    LET r == req[w]
    IN  "model" \notin met[w] =>
        /\ Serving(w, "create_model") => (r.default <=> Defaults(model) = {})
        /\ Serving(w, "set_default_model") =>
              r.id \in DOMAIN model /\ (r.was <=> model[r.id].default)
        /\ Serving(w, "delete_model") =>
              r.id \in DOMAIN model /\ Successor(model, r.id, r.next)

AgentRead(w) ==
    LET r == req[w]
    IN  "agent" \notin met[w] =>
        /\ Serving(w, "save_agent") =>
              /\ r.first <=> agent = << >>
              /\ r.id # NewAgent => r.id \in DOMAIN agent /\ r.row = agent[r.id]
        /\ Serving(w, "delete_agent") =>
              r.id \in DOMAIN agent /\ Successor(agent, r.id, r.next)
        /\ Serving(w, "set_default_agent") => r.id \in DOMAIN agent
        /\ Serving(w, "delete_model") => ~ Referenced("model", r.id)
        /\ Serving(w, "delete_server") => ~ Referenced("mcp", r.id)
        /\ Serving(w, "delete_skill") \/ Serving(w, "delete_skill_row")
              => \A i \in r.rows : ~ Referenced("skill", i)

ResourcesRead(w) ==
    LET r == req[w]
    IN  met[w] = {} /\ Serving(w, "save_agent") =>
        /\ r.model \in DOMAIN model
        /\ \A x \in r.binds : /\ x.kind = "mcp" => x.id \in DOMAIN server
                              /\ x.kind = "skill" => x.id \in DOMAIN skill

Current(w) == FlagsOfRequest(w) /\ ModelRead(w) /\ AgentRead(w) /\ ResourcesRead(w)

Tables ==
    /\ Flagged(model, {"default"}) /\ Flagged(agent, {"model", "default"})
    /\ scene \in Scenes /\ DOMAIN req = Workers

Consistent == Tables /\ \A w \in Workers : Current(w)

-----------------------------------------------------------------------------
(* Servers and their tests                                                  *)

\* The test of a server nobody disturbed tests the configuration it has.
TestIsOfTheServer(s) ==
    test[s] # NoTest /\ s \notin disturbed =>
        s \in DOMAIN server /\ server[s].config = test[s].read.config

\* An edit that met no test read whether there is a verdict to withdraw.
NoVerdictToKeep(w) ==
    LET r == req[w]
    IN  Serving(w, "update_server") /\ "test" \notin met[w] =>
        /\ test[r.id] = NoTest
        /\ r.id \in DOMAIN server /\ r.seen.status \notin Verdicts
              => server[r.id].status \notin Verdicts

Tests ==
    /\ Table(server, {"config", "status", "tested"})
    /\ DOMAIN test = Ids /\ DOMAIN req = Workers /\ scene \in Scenes
    /\ \A s \in Ids : TestIsOfTheServer(s)
    /\ \A w \in Workers : NoVerdictToKeep(w)

-----------------------------------------------------------------------------
(* The rows of the skills                                                   *)

OneRow(rows) ==
    /\ Table(rows, {"dir", "enabled"})
    /\ \A i, j \in DOMAIN rows : rows[i].dir = rows[j].dir => i = j

SkillRequest(w) ==
    /\ Serving(w, "list_skills") => req[w].add \subseteq Dirs
    /\ Serving(w, "find_skill") => req[w].dir \in Dirs

SkillRows ==
    /\ OneRow(skill)
    /\ DOMAIN req = Workers /\ scene \in Scenes
    /\ \A w \in Workers : SkillRequest(w)

(* Tables                                                                   *)

\* A new key is behind all keys in use.
LEMMA NextIdIsNew ==
    ASSUME NEW rows, DOMAIN rows \subseteq Ids
    PROVE  /\ NextId(rows) \in Nat \ {0}
           /\ \A i \in DOMAIN rows : i < NextId(rows)
<1> DEFINE C == {i \in Ids : \E j \in DOMAIN rows : i <= j}
<1>1. MaxId \in Nat BY ReferencesAssumption
<1>2. IsFiniteSet(Ids) BY <1>1, FS_Interval DEF Ids
<1>3. IsFiniteSet(C) BY <1>2, FS_Subset
<1>4. Cardinality(C) \in Nat BY <1>3, FS_CardinalityType
<1>5. ASSUME NEW i \in DOMAIN rows PROVE i <= Cardinality(C)
  <2>1. i \in Nat /\ 1 <= i /\ i <= MaxId BY <1>1 DEF Ids
  <2>2. 1 .. i \subseteq C BY <1>1, <2>1 DEF Ids
  <2>3. IsFiniteSet(1 .. i) /\ Cardinality(1 .. i) = i BY <2>1, FS_Interval
  <2>4. Cardinality(1 .. i) <= Cardinality(C) BY <1>3, <2>2, FS_Subset
  <2> QED BY <2>3, <2>4
<1>6. PICK n \in Nat : n = Cardinality(C) BY <1>4
<1>7. NextId(rows) = 1 + n BY <1>6 DEF NextId
<1>8. ASSUME NEW i \in DOMAIN rows PROVE i < 1 + n
  <2>1. i <= n BY <1>5, <1>6
  <2>2. i \in Nat BY <1>1 DEF Ids
  <2> QED BY <2>1, <2>2
<1> QED BY <1>7, <1>8

RowPut(new, rows, k, row) ==
    /\ DOMAIN new = DOMAIN rows \cup {k}
    /\ new[k] = row /\ \A i \in DOMAIN rows : new[i] = rows[i]
    /\ new = [i \in DOMAIN new |-> new[i]]

LEMMA PutRow ==
    ASSUME NEW rows, NEW k, NEW row, k \notin DOMAIN rows
    PROVE  RowPut(Put(rows, k, row), rows, k, row)
BY DEF Put, RowPut

Dropped(new, rows, ids) ==
    /\ DOMAIN new = DOMAIN rows \ ids
    /\ \A i \in DOMAIN new : new[i] = rows[i]
    /\ new = [i \in DOMAIN new |-> new[i]]

LEMMA DropRows ==
    ASSUME NEW rows, NEW ids PROVE Dropped(Drop(rows, ids), rows, ids)
BY DEF Drop, Restrict, Dropped

LEMMA EmptyTable ==
    ASSUME NEW rows, NEW F, Table(rows, F), DOMAIN rows = {}
    PROVE  rows = << >>
BY DEF Table

\* The unique index: two rows do not have the flag.
LEMMA UniqueDefaultMeans ==
    ASSUME NEW rows, DOMAIN rows \subseteq Ids
    PROVE  UniqueDefault(rows) <=> \A i, j \in Defaults(rows) : i = j
<1>1. IsFiniteSet(Ids) BY ReferencesAssumption, FS_Interval DEF Ids
<1>2. PICK D : D = Defaults(rows) OBVIOUS
<1>3. D \subseteq Ids BY <1>2 DEF Defaults
<1>4. IsFiniteSet(D) BY <1>1, <1>3, FS_Subset
<1>5. PICK n \in Nat : n = Cardinality(D) BY <1>4, FS_CardinalityType
<1>6. n = 0 <=> D = {} BY <1>4, <1>5, FS_EmptySet
<1>7. n = 1 <=> \E x : D = {x} BY <1>4, <1>5, FS_Singleton
<1>8. n <= 1 <=> n = 0 \/ n = 1 OBVIOUS
<1>9. n <= 1 <=> \A i, j \in D : i = j BY <1>6, <1>7, <1>8
<1> QED BY <1>2, <1>5, <1>9 DEF UniqueDefault

\* Rows that pass the unique index and of which one has the flag.
LEMMA StoredDefault ==
    ASSUME NEW rows, DOMAIN rows \subseteq Ids, UniqueDefault(rows),
           \A i \in DOMAIN rows : rows[i].default \in BOOLEAN,
           DOMAIN rows # {} => \E d \in DOMAIN rows : rows[d].default
    PROVE  OneDefault(rows)
<1>1. \A i, j \in Defaults(rows) : i = j BY UniqueDefaultMeans
<1>2. ASSUME NEW d \in DOMAIN rows, rows[d].default
      PROVE  Defaults(rows) = {d}
  BY <1>1, <1>2 DEF Defaults
<1> QED BY <1>2 DEF OneDefault

\* The rows new differ from rows in the default flags only.
FlagsOnly(new, rows, F) ==
    /\ Table(new, F) /\ DOMAIN new = DOMAIN rows
    /\ \A j \in DOMAIN rows : \A f \in F \ {"default"} : new[j][f] = rows[j][f]

FlagSet(new, rows, i, flag) ==
    new[i].default = flag /\ \A j \in DOMAIN rows \ {i} : new[j] = rows[j]

\* What WithDefault writes.
LEMMA FlagWritten ==
    ASSUME NEW rows, NEW F, "default" \in F, Table(rows, F), NEW i \in DOMAIN rows,
           NEW flag \in BOOLEAN, NEW new, new = WithDefault(rows, i, flag)
    PROVE  FlagsOnly(new, rows, F) /\ FlagSet(new, rows, i, flag)
<1>1. PICK old : old = rows[i] OBVIOUS
<1>2. PICK row : row = [old EXCEPT !.default = flag] OBVIOUS
<1>3. DOMAIN old = F BY <1>1 DEF Table
<1>4. /\ DOMAIN row = F /\ row.default = flag
      /\ \A f \in F \ {"default"} : row[f] = old[f]
  BY <1>2, <1>3
<1>5. new = [rows EXCEPT ![i] = row] BY <1>1, <1>2 DEF WithDefault
<1>6. /\ DOMAIN new = DOMAIN rows /\ new[i] = row
      /\ \A j \in DOMAIN rows \ {i} : new[j] = rows[j]
      /\ new = [j \in DOMAIN new |-> new[j]]
  BY <1>5
<1>7. Table(new, F) BY <1>3, <1>4, <1>6 DEF Table
<1>8. ASSUME NEW j \in DOMAIN rows, NEW f \in F \ {"default"} PROVE new[j][f] = rows[j][f]
  <2>1. CASE j = i BY <1>1, <1>4, <1>6, <2>1
  <2>2. CASE j # i BY <1>6, <2>2
  <2> QED BY <2>1, <2>2
<1>9. FlagsOnly(new, rows, F) BY <1>6, <1>7, <1>8 DEF FlagsOnly
<1> QED BY <1>4, <1>6, <1>9 DEF FlagSet

\* The flag moves from row i to row next.
LEMMA FlagMoved ==
    ASSUME NEW rows, NEW F, "default" \in F, Table(rows, F), OneDefault(rows),
           NEW i \in DOMAIN rows, rows[i].default, NEW next \in DOMAIN rows \ {i},
           NEW new, new = WithDefault(WithDefault(rows, i, FALSE), next, TRUE)
    PROVE  /\ FlagsOnly(new, rows, F)
           /\ Defaults(new) = {next} /\ \A j \in DOMAIN new : new[j].default \in BOOLEAN
<1>1. PICK mid : mid = WithDefault(rows, i, FALSE) OBVIOUS
<1>2. FlagsOnly(mid, rows, F) /\ FlagSet(mid, rows, i, FALSE) BY <1>1, FlagWritten
<1>3. Table(mid, F) /\ next \in DOMAIN mid BY <1>2 DEF FlagsOnly
<1>4. new = WithDefault(mid, next, TRUE) BY <1>1
<1>5. FlagsOnly(new, mid, F) /\ FlagSet(new, mid, next, TRUE) BY <1>3, <1>4, FlagWritten
<1>6. FlagsOnly(new, rows, F)
  <2>1. Table(new, F) /\ DOMAIN new = DOMAIN rows BY <1>2, <1>5 DEF FlagsOnly
  <2>2. ASSUME NEW j \in DOMAIN rows, NEW f \in F \ {"default"} PROVE new[j][f] = rows[j][f]
    <3>1. mid[j][f] = rows[j][f] /\ j \in DOMAIN mid BY <1>2 DEF FlagsOnly
    <3>2. new[j][f] = mid[j][f] BY <1>5, <3>1 DEF FlagsOnly
    <3> QED BY <3>1, <3>2
  <2> QED BY <2>1, <2>2 DEF FlagsOnly
<1>7. \A j \in DOMAIN rows : rows[j].default \in BOOLEAN /\ (rows[j].default => j = i)
  BY DEF OneDefault, Defaults
<1>8. ASSUME NEW j \in DOMAIN rows
      PROVE  new[j].default \in BOOLEAN /\ (new[j].default <=> j = next)
  <2>1. DOMAIN mid = DOMAIN rows BY <1>2 DEF FlagsOnly
  <2>2. CASE j = next BY <1>5, <2>2 DEF FlagSet
  <2>3. CASE j # next /\ j = i
    <3>1. new[j] = mid[j] BY <1>5, <2>1, <2>3 DEF FlagSet
    <3> QED BY <1>2, <2>3, <3>1 DEF FlagSet
  <2>4. CASE j # next /\ j # i
    <3>1. new[j] = mid[j] BY <1>5, <2>1, <2>4 DEF FlagSet
    <3>2. mid[j] = rows[j] BY <1>2, <2>4 DEF FlagSet
    <3> QED BY <1>7, <2>4, <3>1, <3>2
  <2> QED BY <2>2, <2>3, <2>4
<1>9. DOMAIN new = DOMAIN rows BY <1>6 DEF FlagsOnly
<1>10. Defaults(new) = {next} BY <1>8, <1>9 DEF Defaults
<1> QED BY <1>6, <1>8, <1>9, <1>10

RowIsDeleted(new, mid, rows, F, i, next) ==
    /\ Table(new, F) /\ OneDefault(new) /\ DOMAIN new = DOMAIN rows \ {i}
    /\ FlagsOnly(mid, rows, F) /\ Dropped(new, mid, {i})
    /\ next # NoSuccessor => {i, next} \subseteq DOMAIN rows /\ UniqueDefault(mid)

\* Deleting a row, of a model or of an agent, with its successor.
LEMMA RowDeleted ==
    ASSUME NEW rows, NEW F, "default" \in F, Table(rows, F), OneDefault(rows),
           NEW i \in DOMAIN rows, NEW next, Successor(rows, i, next),
           NEW mid, mid = IF next = NoSuccessor THEN rows
                          ELSE WithDefault(WithDefault(rows, i, FALSE), next, TRUE),
           NEW new, new = Drop(mid, {i})
    PROVE  RowIsDeleted(new, mid, rows, F, i, next)
<1>1. NoSuccessor \notin DOMAIN rows
  BY ReferencesAssumption DEF Table, Ids, NoSuccessor
<1>2. Dropped(new, mid, {i}) BY DropRows
<1>3. /\ DOMAIN new = DOMAIN mid \ {i} /\ \A j \in DOMAIN new : new[j] = mid[j]
      /\ new = [j \in DOMAIN new |-> new[j]]
  BY <1>2 DEF Dropped
<1>4. CASE next = NoSuccessor
  <2>1. mid = rows BY <1>4
  <2>2. ~ rows[i].default \/ DOMAIN rows = {i} BY <1>1, <1>4 DEF Successor
  <2>3. Table(new, F) BY <1>3, <2>1 DEF Table
  <2>4. PICK d \in DOMAIN rows : Defaults(rows) = {d} BY DEF OneDefault
  <2>5. \A j \in DOMAIN rows : rows[j].default \in BOOLEAN BY DEF OneDefault
  <2>6. ASSUME d = i PROVE OneDefault(new)
    <3>1. rows[i].default BY <2>4, <2>6 DEF Defaults
    <3>2. DOMAIN new = {} BY <1>3, <2>1, <2>2, <3>1
    <3> QED BY <3>2 DEF OneDefault
  <2>7. ASSUME d # i PROVE OneDefault(new)
    <3>1. d \in DOMAIN new BY <1>3, <2>1, <2>7
    <3>2. Defaults(new) = {d} BY <1>3, <2>1, <2>4, <2>7, <3>1 DEF Defaults
    <3>3. \A j \in DOMAIN new : new[j].default \in BOOLEAN BY <1>3, <2>1, <2>5
    <3> QED BY <3>1, <3>2, <3>3 DEF OneDefault
  <2>8. FlagsOnly(mid, rows, F) BY <2>1 DEF FlagsOnly
  <2>9. DOMAIN new = DOMAIN rows \ {i} BY <1>3, <2>1
  <2> QED BY <1>2, <1>4, <2>3, <2>6, <2>7, <2>8, <2>9 DEF RowIsDeleted
<1>5. CASE next # NoSuccessor
  <2>1. rows[i].default /\ next \in DOMAIN rows \ {i} BY <1>5 DEF Successor
  <2>2. mid = WithDefault(WithDefault(rows, i, FALSE), next, TRUE) BY <1>5
  <2>3. /\ FlagsOnly(mid, rows, F)
        /\ Defaults(mid) = {next} /\ \A j \in DOMAIN mid : mid[j].default \in BOOLEAN
    BY <2>1, <2>2, FlagMoved
  <2>4. Table(mid, F) /\ DOMAIN mid = DOMAIN rows BY <2>3 DEF FlagsOnly
  <2>5. Table(new, F) BY <1>3, <2>4 DEF Table
  <2>6. next \in DOMAIN new BY <1>3, <2>1, <2>4
  <2>7. Defaults(new) = {next} BY <1>3, <2>3, <2>6 DEF Defaults
  <2>8. OneDefault(new) BY <1>3, <2>3, <2>6, <2>7 DEF OneDefault
  <2>9. UniqueDefault(mid)
    <3>1. DOMAIN mid \subseteq Ids BY <2>4 DEF Table
    <3> QED BY <2>3, <3>1, UniqueDefaultMeans
  <2>10. DOMAIN new = DOMAIN rows \ {i} BY <1>3, <2>4
  <2> QED BY <1>2, <2>1, <2>3, <2>5, <2>8, <2>9, <2>10 DEF RowIsDeleted
<1> QED BY <1>4, <1>5

\* A table with a row has one default row, or it is headless.
LEMMA HeadOfTable ==
    ASSUME NEW rows, NEW F, Flagged(rows, F), ~ Headless(rows)
    PROVE  OneDefault(rows)
<1>1. DOMAIN rows \subseteq Ids BY DEF Flagged, Table
<1>2. ASSUME DOMAIN rows # {} PROVE \E d \in DOMAIN rows : rows[d].default
  <2>1. rows # << >> BY <1>2
  <2>2. Defaults(rows) # {} BY <2>1 DEF Headless
  <2> QED BY <2>2 DEF Defaults
<1> QED BY <1>1, <1>2, StoredDefault DEF Flagged

LEMMA TableWithHead ==
    ASSUME NEW rows, NEW F, Table(rows, F), OneDefault(rows)
    PROVE  Flagged(rows, F) /\ ~ Headless(rows)
<1>1. DOMAIN rows \subseteq Ids BY DEF Table
<1>2. \A i, j \in Defaults(rows) : i = j BY DEF OneDefault, Defaults
<1>3. UniqueDefault(rows) BY <1>1, <1>2, UniqueDefaultMeans
<1>4. ASSUME rows # << >> PROVE Defaults(rows) # {}
  <2>1. DOMAIN rows # {} BY <1>4, EmptyTable
  <2> QED BY <2>1 DEF OneDefault
<1> QED BY <1>3, <1>4 DEF Flagged, OneDefault, Headless

\* A new row with a key of its own, which passed the unique index.
LEMMA RowCreated ==
    ASSUME NEW rows, NEW F, Table(rows, F), \A i \in DOMAIN rows : rows[i].default \in BOOLEAN,
           NEW page \in Pages, scene \in Scenes, HasRoom(rows, page),
           NEW row, DOMAIN row = F, row.default \in BOOLEAN, NEW k, k = NextId(rows),
           NEW new, new = Put(rows, k, row), UniqueDefault(new)
    PROVE  Flagged(new, F) /\ RowPut(new, rows, k, row) /\ k \notin DOMAIN rows
<1>1. scene[page] \in 0 .. MaxId /\ MaxId \in Nat BY ReferencesAssumption DEF Activities
<1>2. DOMAIN rows \subseteq Ids BY DEF Table
<1>3. k \in Nat \ {0} /\ \A i \in DOMAIN rows : i < k BY <1>2, NextIdIsNew
<1>4. k <= scene[page] BY DEF HasRoom
<1>5. k \in Ids BY <1>1, <1>3, <1>4 DEF Ids
<1>6. k \notin DOMAIN rows BY <1>3
<1>7. RowPut(new, rows, k, row) BY <1>6, PutRow
<1>8. /\ DOMAIN new = DOMAIN rows \cup {k}
      /\ new[k] = row /\ \A i \in DOMAIN rows : new[i] = rows[i]
      /\ new = [i \in DOMAIN new |-> new[i]]
  BY <1>7 DEF RowPut
<1>9. DOMAIN new \subseteq Ids BY <1>2, <1>5, <1>8
<1>10. \A i \in DOMAIN new : DOMAIN new[i] = F BY <1>8 DEF Table
<1>11. \A i \in DOMAIN new : new[i].default \in BOOLEAN BY <1>8
<1> QED BY <1>6, <1>7, <1>8, <1>9, <1>10, <1>11 DEF Table, Flagged

\* The rows new are rows of old, the flags apart.
Kept(new, old, F) ==
    DOMAIN new \subseteq DOMAIN old
    /\ \A j \in DOMAIN new : \A f \in F \ {"default"} : new[j][f] = old[j][f]

\* Deleting a row after its flag was given away, whatever else had happened.
LeavesTable(new, mid, rows, i, next) ==
    /\ next = NoSuccessor \/ {i, next} \subseteq DOMAIN rows
    /\ mid = IF next = NoSuccessor THEN rows
             ELSE WithDefault(WithDefault(rows, i, FALSE), next, TRUE)
    /\ next = NoSuccessor \/ UniqueDefault(mid)
    /\ new = Drop(mid, {i})

LEMMA RowGone ==
    ASSUME NEW rows, NEW F, "default" \in F, Flagged(rows, F), NEW i, NEW next,
           NEW mid, NEW new, LeavesTable(new, mid, rows, i, next)
    PROVE  Flagged(new, F) /\ Kept(new, rows, F) /\ DOMAIN new = DOMAIN rows \ {i}
<1> USE DEF LeavesTable
<1>1. FlagsOnly(mid, rows, F) /\ Flagged(mid, F)
  <2>1. CASE next = NoSuccessor
    <3>1. mid = rows BY <2>1
    <3> QED BY <3>1 DEF FlagsOnly, Flagged
  <2>2. CASE next # NoSuccessor
    <3>1. PICK one : one = WithDefault(rows, i, FALSE) OBVIOUS
    <3>2. Table(rows, F) /\ i \in DOMAIN rows /\ next \in DOMAIN rows BY <2>2 DEF Flagged
    <3>3. FlagsOnly(one, rows, F) /\ FlagSet(one, rows, i, FALSE) BY <3>1, <3>2, FlagWritten
    <3>4. Table(one, F) /\ DOMAIN one = DOMAIN rows BY <3>3 DEF FlagsOnly
    <3>5. mid = WithDefault(one, next, TRUE) BY <2>2, <3>1
    <3>6. FlagsOnly(mid, one, F) /\ FlagSet(mid, one, next, TRUE)
      BY <3>2, <3>4, <3>5, FlagWritten
    <3>7. Table(mid, F) /\ DOMAIN mid = DOMAIN rows BY <3>4, <3>6 DEF FlagsOnly
    <3>8. ASSUME NEW j \in DOMAIN rows PROVE mid[j].default \in BOOLEAN
      <4>1. one[j].default \in BOOLEAN
        <5>1. CASE j = i BY <3>3, <5>1 DEF FlagSet
        <5>2. CASE j # i
          <6>1. one[j] = rows[j] BY <3>3, <5>2 DEF FlagSet
          <6> QED BY <6>1 DEF Flagged
        <5> QED BY <5>1, <5>2
      <4>2. CASE j = next BY <3>6, <4>2 DEF FlagSet
      <4>3. CASE j # next
        <5>1. mid[j] = one[j] BY <3>4, <3>6, <4>3 DEF FlagSet
        <5> QED BY <4>1, <5>1
      <4> QED BY <4>2, <4>3
    <3>9. ASSUME NEW j \in DOMAIN rows, NEW f \in F \ {"default"} PROVE mid[j][f] = rows[j][f]
      <4>1. one[j][f] = rows[j][f] /\ j \in DOMAIN one BY <3>3, <3>4 DEF FlagsOnly
      <4>2. mid[j][f] = one[j][f] BY <3>6, <4>1 DEF FlagsOnly
      <4> QED BY <4>1, <4>2
    <3>10. UniqueDefault(mid) BY <2>2
    <3> QED BY <3>7, <3>8, <3>9, <3>10 DEF FlagsOnly, Flagged
  <2> QED BY <2>1, <2>2
<1>2. Dropped(new, mid, {i}) BY DropRows
<1>3. /\ DOMAIN new = DOMAIN mid \ {i} /\ \A j \in DOMAIN new : new[j] = mid[j]
      /\ new = [j \in DOMAIN new |-> new[j]]
  BY <1>2 DEF Dropped
<1>4. DOMAIN mid = DOMAIN rows BY <1>1 DEF FlagsOnly
<1>5. Table(new, F) BY <1>1, <1>3 DEF Flagged, Table
<1>6. \A j \in DOMAIN new : new[j].default \in BOOLEAN BY <1>1, <1>3 DEF Flagged
<1>7. UniqueDefault(new)
  <2>1. DOMAIN mid \subseteq Ids /\ DOMAIN new \subseteq Ids BY <1>1, <1>5 DEF Flagged, Table
  <2>2. \A j, l \in Defaults(mid) : j = l BY <1>1, <2>1, UniqueDefaultMeans DEF Flagged
  <2>3. Defaults(new) \subseteq Defaults(mid) BY <1>3 DEF Defaults
  <2>4. \A j, l \in Defaults(new) : j = l BY <2>2, <2>3
  <2> QED BY <2>1, <2>4, UniqueDefaultMeans
<1>8. Kept(new, rows, F)
  <2>1. ASSUME NEW j \in DOMAIN new, NEW f \in F \ {"default"} PROVE new[j][f] = rows[j][f]
    <3>1. new[j] = mid[j] /\ j \in DOMAIN rows BY <1>3, <1>4
    <3>2. mid[j][f] = rows[j][f] BY <1>1, <3>1 DEF FlagsOnly
    <3> QED BY <3>1, <3>2
  <2>2. DOMAIN new \subseteq DOMAIN rows BY <1>3, <1>4
  <2> QED BY <2>1, <2>2 DEF Kept
<1> QED BY <1>3, <1>4, <1>5, <1>6, <1>7, <1>8 DEF Flagged

-----------------------------------------------------------------------------
(* Requests in progress                                                     *)

\* What a request has not met was not written.
LEMMA NotMet ==
    ASSUME Watch, NEW v \in Workers, req'[v] # NoReq, req[v] # NoReq, NEW p, p \notin met'[v]
    PROVE  p \notin met[v] /\ p \notin Written
BY DEF Watch

LEMMA NotWritten ==
    /\ "model" \notin Written => model' = model
    /\ "agent" \notin Written => agent' = agent /\ binding' = binding
    /\ "server" \notin Written => server' = server
    /\ "skill" \notin Written => skill' = skill
BY DEF Written, Pages, agents

LEMMA SameBindings ==
    ASSUME NEW kind, NEW id, UNCHANGED <<agent, binding>>
    PROVE  Referenced(kind, id)' <=> Referenced(kind, id)
BY Zenon DEF Referenced

\* A request that goes on stays current, whatever the others do.
LEMMA GoesOn ==
    ASSUME Watch, NEW v \in Workers, Current(v), req'[v] = req[v]
    PROVE  Current(v)'
<1>1. ASSUME NEW op PROVE Serving(v, op)' <=> Serving(v, op) BY DEF Serving
<1>2. CASE req[v] = NoReq
  <2>1. ASSUME NEW op PROVE ~ Serving(v, op)' BY <1>2 DEF Serving
  <2> QED BY <2>1 DEF Current, FlagsOfRequest, ModelRead, AgentRead, ResourcesRead
<1>3. CASE req[v] # NoReq
  <2>1. \A p : p \notin met'[v] => p \notin met[v] /\ p \notin Written BY <1>3, NotMet
  <2>2. FlagsOfRequest(v)' BY <1>1 DEF Current, FlagsOfRequest
  <2>3. ModelRead(v)'
    <3>1. CASE "model" \in met'[v] BY <3>1 DEF ModelRead
    <3>2. CASE "model" \notin met'[v]
      <4>1. "model" \notin met[v] /\ model' = model BY <2>1, <3>2, NotWritten
      <4> QED BY <1>1, <4>1 DEF Current, ModelRead
    <3> QED BY <3>1, <3>2
  <2>4. AgentRead(v)'
    <3>1. CASE "agent" \in met'[v] BY <3>1 DEF AgentRead
    <3>2. CASE "agent" \notin met'[v]
      <4>1. "agent" \notin met[v] /\ agent' = agent /\ binding' = binding
        BY <2>1, <3>2, NotWritten
      <4>2. ASSUME NEW kind, NEW id PROVE Referenced(kind, id)' <=> Referenced(kind, id)
        BY <4>1, SameBindings
      <4> QED BY <1>1, <4>1, <4>2 DEF Current, AgentRead
    <3> QED BY <3>1, <3>2
  <2>5. ResourcesRead(v)'
    <3>1. CASE met'[v] # {} BY <3>1 DEF ResourcesRead
    <3>2. CASE met'[v] = {}
      <4>1. met[v] = {} BY <2>1, <3>2
      <4>2. Written = {} BY <2>1, <3>2
      <4>3. model' = model /\ server' = server /\ skill' = skill BY <4>2, NotWritten
      <4> QED BY <1>1, <4>1, <4>3 DEF Current, ResourcesRead
    <3> QED BY <3>1, <3>2
  <2> QED BY <2>2, <2>3, <2>4, <2>5 DEF Current
<1> QED BY <1>2, <1>3

\* Nothing is claimed of a thread that serves nothing, and of some requests.
PlainOps == {"update_server", "list_skills", "refresh", "find_skill", "enable_skill"}

LEMMA PlainRequest ==
    ASSUME NEW w, req'[w] = NoReq \/ req'[w].op \in PlainOps
    PROVE  Current(w)'
<1>1. \A op : Serving(w, op)' => op \in PlainOps BY DEF Serving
<1> QED BY <1>1
    DEF Current, FlagsOfRequest, ModelRead, AgentRead, ResourcesRead, PlainOps

ModelOps == {"create_model", "set_default_model", "delete_model"}
AgentOps == {"save_agent", "set_default_agent", "delete_agent"}
ServerOps == {"update_server", "delete_server"}
SkillOps == {"list_skills", "refresh", "find_skill", "enable_skill",
             "delete_skill", "delete_skill_row"}

\* Worker w moves on: the others go on, and its request, one of ops, is current.
Moved(w, ops) ==
    /\ DOMAIN req' = Workers /\ \A v \in Workers \ {w} : req'[v] = req[v]
    /\ \/ req'[w] = req[w]
       \/ Current(w)' /\ (req'[w] = NoReq \/ req'[w].op \in ops)

LEMMA AnswerMoves ==
    ASSUME NEW w \in Workers, DOMAIN req = Workers, Respond(w) \/ req' = req, NEW ops
    PROVE  Moved(w, ops)
<1>1. /\ DOMAIN req' = Workers /\ \A v \in Workers \ {w} : req'[v] = req[v]
      /\ req'[w] = req[w] \/ req'[w] = NoReq
  BY DEF Respond
<1> QED BY <1>1, PlainRequest DEF Moved

LEMMA NextMoves ==
    ASSUME NEW w \in Workers, DOMAIN req = Workers, NEW r,
           Begin(w, r) \/ req' = [req EXCEPT ![w] = r],
           req'[w] = r => Current(w)', NEW ops, r = NoReq \/ r.op \in ops
    PROVE  Moved(w, ops)
BY DEF Begin, Moved

LEMMA ModelMoves ==
    ASSUME NEW w \in Workers, DOMAIN req = Workers, ModelStep(w), UNCHANGED <<agent, binding>>
    PROVE  Moved(w, ModelOps)
<1>1. ASSUME BeginCreateModel(w) PROVE Moved(w, ModelOps)
  <2>1. PICK flag \in BOOLEAN : flag = (Defaults(model) = {}) OBVIOUS
  <2>2. PICK r : r = [op |-> "create_model", default |-> flag] OBVIOUS
  <2>3. r.op = "create_model" /\ r.default = flag BY <2>2
  <2>4. Begin(w, r) /\ model' = model BY <1>1, <2>1, <2>2, Zenon DEF BeginCreateModel
  <2>5. flag <=> Defaults(model) = {} BY <2>1
  <2>6. ASSUME req'[w] = r PROVE Current(w)'
    BY <2>3, <2>4, <2>5, <2>6
    DEF Current, FlagsOfRequest, ModelRead, AgentRead, ResourcesRead, Serving
  <2> QED BY <2>3, <2>4, <2>6, NextMoves DEF ModelOps
<1>2. ASSUME NEW m, BeginSetDefaultModel(w, m) PROVE Moved(w, ModelOps)
  <2>1. PICK r : r = [op |-> "set_default_model", id |-> m, was |-> model[m].default] OBVIOUS
  <2>2. r.op = "set_default_model" /\ r.id = m /\ r.was = model[m].default BY <2>1
  <2>3. Begin(w, r) /\ model' = model /\ m \in DOMAIN model
    BY <1>2, <2>1, Zenon DEF BeginSetDefaultModel
  <2>4. ASSUME req'[w] = r PROVE Current(w)'
    BY <2>2, <2>3, <2>4
    DEF Current, FlagsOfRequest, ModelRead, AgentRead, ResourcesRead, Serving
  <2> QED BY <2>2, <2>3, <2>4, NextMoves DEF ModelOps
<1>3. ASSUME NEW m, NEW next, BeginDeleteModel(w, m, next) PROVE Moved(w, ModelOps)
  <2>1. PICK r : r = [op |-> "delete_model", id |-> m, next |-> next] OBVIOUS
  <2>2. r.op = "delete_model" /\ r.id = m /\ r.next = next BY <2>1
  <2>3. Begin(w, r) /\ model' = model /\ m \in DOMAIN model
    BY <1>3, <2>1, Zenon DEF BeginDeleteModel
  <2>4. ~ Referenced("model", m) /\ Successor(model, m, next)
    BY <1>3, Zenon DEF BeginDeleteModel, Successor
  <2>5. ~ Referenced("model", m)' BY <2>4, SameBindings
  <2>6. Successor(model', m, next) BY <2>3, <2>4
  <2>7. ASSUME req'[w] = r PROVE Current(w)'
    BY <2>2, <2>3, <2>5, <2>6, <2>7
    DEF Current, FlagsOfRequest, ModelRead, AgentRead, ResourcesRead, Serving
  <2> QED BY <2>2, <2>3, <2>7, NextMoves DEF ModelOps
<1>4. ASSUME CreateModel(w) \/ SetDefaultModel(w) \/ DeleteModel(w) PROVE Moved(w, ModelOps)
  <2>1. Respond(w) BY <1>4, Zenon DEF CreateModel, SetDefaultModel, DeleteModel
  <2> QED BY <2>1, AnswerMoves
<1> QED BY <1>1, <1>2, <1>3, <1>4, Zenon DEF ModelStep

LEMMA ServerMoves ==
    ASSUME NEW w \in Workers, DOMAIN req = Workers, ServerStep(w), UNCHANGED <<agent, binding>>
    PROVE  Moved(w, ServerOps)
<1>1. ASSUME NEW s, NEW c, BeginUpdateServer(w, s, c) PROVE Moved(w, ServerOps)
  <2>1. PICK r : r = [op |-> "update_server", id |-> s, config |-> c, seen |-> Read(s)]
    OBVIOUS
  <2>2. r.op \in PlainOps /\ r.op \in ServerOps BY <2>1 DEF PlainOps, ServerOps
  <2>3. Begin(w, r) BY <1>1, <2>1, Zenon DEF BeginUpdateServer
  <2> QED BY <2>2, <2>3, NextMoves, PlainRequest DEF ServerOps
<1>2. ASSUME NEW s, BeginDeleteServer(w, s) PROVE Moved(w, ServerOps)
  <2>1. PICK r : r = [op |-> "delete_server", id |-> s] OBVIOUS
  <2>2. r.op = "delete_server" /\ r.id = s BY <2>1
  <2>3. Begin(w, r) /\ ~ Referenced("mcp", s) BY <1>2, <2>1, Zenon DEF BeginDeleteServer
  <2>4. ~ Referenced("mcp", s)' BY <2>3, SameBindings
  <2>5. ASSUME req'[w] = r PROVE Current(w)'
    BY <2>2, <2>4, <2>5
    DEF Current, FlagsOfRequest, ModelRead, AgentRead, ResourcesRead, Serving
  <2> QED BY <2>2, <2>3, <2>5, NextMoves DEF ServerOps
<1>3. ASSUME UpdateServer(w) \/ DeleteServer(w) \/ \E c : CreateServer(w, c) PROVE Moved(w, ServerOps)
  <2>1. Respond(w) \/ req' = req
    BY <1>3, Zenon DEF UpdateServer, DeleteServer, CreateServer
  <2> QED BY <2>1, AnswerMoves
<1> QED BY <1>1, <1>2, <1>3, Zenon DEF ServerStep

LEMMA SkillMoves ==
    ASSUME NEW w \in Workers, DOMAIN req = Workers, SkillStep(w), UNCHANGED <<agent, binding>>,
           Watch, Current(w)
    PROVE  Moved(w, SkillOps)
<1>1. ASSUME NEW r, Begin(w, r) \/ req' = [req EXCEPT ![w] = r], r = NoReq \/ r.op \in PlainOps \cap SkillOps
      PROVE  Moved(w, SkillOps)
  BY <1>1, NextMoves, PlainRequest
<1>2. ASSUME BeginListSkills(w) PROVE Moved(w, SkillOps)
  <2>1. PICK r : r = [op |-> "list_skills", add |-> WithoutRow(skill, Compliant)] OBVIOUS
  <2>2. r.op \in PlainOps \cap SkillOps BY <2>1 DEF PlainOps, SkillOps
  <2>3. Begin(w, r) BY <1>2, <2>1, Zenon DEF BeginListSkills
  <2> QED BY <1>1, <2>2, <2>3
<1>3. ASSUME NEW drop, Begin(w, [op |-> "refresh", drop |-> drop]) PROVE Moved(w, SkillOps)
  <2>1. PICK r : r = [op |-> "refresh", drop |-> drop] OBVIOUS
  <2>2. r.op \in PlainOps \cap SkillOps BY <2>1 DEF PlainOps, SkillOps
  <2>3. Begin(w, r) BY <1>3, <2>1, Zenon
  <2> QED BY <1>1, <2>2, <2>3
<1>4. ASSUME BeginRefresh(w) \/ \E d : ImportSkill(w, d) PROVE Moved(w, SkillOps)
  BY <1>3, <1>4, Zenon DEF BeginRefresh, ImportSkill
<1>5. ASSUME NEW i, RefreshRow(w, i) PROVE Moved(w, SkillOps)
  <2>1. PICK old, r : old = req[w] /\ r = [op |-> "refresh", drop |-> old.drop \ {i}] OBVIOUS
  <2>2. r.op \in PlainOps \cap SkillOps BY <2>1 DEF PlainOps, SkillOps
  <2>3. req' = [req EXCEPT ![w] = [op |-> "refresh", drop |-> @.drop \ {i}]]
    BY <1>5, Zenon DEF RefreshRow
  <2>4. req' = [req EXCEPT ![w] = r] BY <2>1, <2>3
  <2> QED BY <1>1, <2>2, <2>4
<1>6. ASSUME RefreshLists(w) PROVE Moved(w, SkillOps)
  <2>1. PICK add : add = WithoutRow(skill, Compliant) OBVIOUS
  <2>2. PICK r : r = IF add = {} THEN NoReq ELSE [op |-> "list_skills", add |-> add] OBVIOUS
  <2>3. r = NoReq \/ r.op \in PlainOps \cap SkillOps BY <2>2 DEF PlainOps, SkillOps
  <2>4. req' = [req EXCEPT ![w] = r] BY <1>6, <2>1, <2>2, Zenon DEF RefreshLists
  <2> QED BY <1>1, <2>3, <2>4
<1>7. ASSUME NEW d, NEW flag, BeginSetSkillEnabled(w, d, flag) PROVE Moved(w, SkillOps)
  <2>1. CASE Begin(w, [op |-> "find_skill", dir |-> d, enabled |-> flag])
    <3>1. PICK r : r = [op |-> "find_skill", dir |-> d, enabled |-> flag] OBVIOUS
    <3>2. r.op \in PlainOps \cap SkillOps BY <3>1 DEF PlainOps, SkillOps
    <3>3. Begin(w, r) BY <2>1, <3>1, Zenon
    <3> QED BY <1>1, <3>2, <3>3
  <2>2. ASSUME NEW i, Begin(w, [op |-> "enable_skill", id |-> i, enabled |-> flag,
                                was |-> skill[i].enabled])
        PROVE  Moved(w, SkillOps)
    <3>1. PICK r : r = [op |-> "enable_skill", id |-> i, enabled |-> flag,
                        was |-> skill[i].enabled]
      OBVIOUS
    <3>2. r.op \in PlainOps \cap SkillOps BY <3>1 DEF PlainOps, SkillOps
    <3>3. Begin(w, r) BY <2>2, <3>1, Zenon
    <3> QED BY <1>1, <3>2, <3>3
  <2> QED BY <1>7, <2>1, <2>2, Zenon DEF BeginSetSkillEnabled
<1>8. ASSUME FindSkill(w) PROVE Moved(w, SkillOps)
  <2>1. PICK old, r : /\ old = req[w]
                      /\ r = [op |-> "enable_skill", id |-> NextId(skill),
                              enabled |-> old.enabled, was |-> TRUE]
    OBVIOUS
  <2>2. r.op \in PlainOps \cap SkillOps BY <2>1 DEF PlainOps, SkillOps
  <2>3. \/ req' = [req EXCEPT ![w] = [op |-> "enable_skill", id |-> NextId(skill),
                                      enabled |-> @.enabled, was |-> TRUE]]
        \/ Respond(w)
    BY <1>8, Zenon DEF FindSkill
  <2>4. Respond(w) \/ req' = [req EXCEPT ![w] = r] BY <2>1, <2>3
  <2> QED BY <1>1, <2>2, <2>4, AnswerMoves
<1>9. ASSUME NEW d, BeginDeleteSkill(w, d) PROVE Moved(w, SkillOps)
  <2>1. PICK r : r = [op |-> "delete_skill", dir |-> d, rows |-> RowOf(d)] OBVIOUS
  <2>2. r.op = "delete_skill" /\ r.rows = RowOf(d) BY <2>1
  <2>3. Begin(w, r) BY <1>9, <2>1, Zenon DEF BeginDeleteSkill
  <2>4. \A i \in r.rows : ~ Referenced("skill", i) BY <1>9, <2>2 DEF BeginDeleteSkill
  <2>5. \A i \in r.rows : ~ Referenced("skill", i)' BY <2>4, SameBindings
  <2>6. ASSUME req'[w] = r PROVE Current(w)'
    BY <2>2, <2>5, <2>6
    DEF Current, FlagsOfRequest, ModelRead, AgentRead, ResourcesRead, Serving
  <2> QED BY <2>2, <2>3, <2>6, NextMoves DEF SkillOps
<1>10. ASSUME RemoveSkillDir(w) PROVE Moved(w, SkillOps)
  <2>1. PICK old, r : old = req[w] /\ r = [op |-> "delete_skill_row", rows |-> old.rows] OBVIOUS
  <2>2. r.op = "delete_skill_row" /\ r.rows = old.rows BY <2>1
  <2>3. Respond(w) \/ req' = [req EXCEPT ![w] = r] BY <1>10, <2>1 DEF RemoveSkillDir
  <2>4. Serving(w, "delete_skill") BY <1>10 DEF RemoveSkillDir
  <2>5. ASSUME req'[w] = r PROVE Current(w)'
    <3>1. CASE req'[w] = NoReq BY <3>1, PlainRequest
    <3>2. CASE req'[w] # NoReq
      <4>1. ASSUME "agent" \notin met'[w]
            PROVE  \A i \in r.rows : ~ Referenced("skill", i)'
        <5>1. "agent" \notin met[w] BY <2>4, <3>2, <4>1, NotMet DEF Serving
        <5>2. \A i \in r.rows : ~ Referenced("skill", i)
          BY <2>1, <2>2, <2>4, <5>1 DEF Current, AgentRead
        <5> QED BY <5>2, SameBindings
      <4> QED BY <2>2, <2>5, <4>1
          DEF Current, FlagsOfRequest, ModelRead, AgentRead, ResourcesRead, Serving
    <3> QED BY <3>1, <3>2
  <2> QED BY <2>2, <2>3, <2>5, AnswerMoves, NextMoves DEF SkillOps
<1>11. ASSUME ListSkills(w) \/ SetSkillEnabled(w) \/ DeleteSkillRow(w) PROVE Moved(w, SkillOps)
  <2>1. Respond(w) BY <1>11 DEF ListSkills, SetSkillEnabled, DeleteSkillRow
  <2> QED BY <2>1, AnswerMoves
<1> QED BY <1>2, <1>4, <1>5, <1>6, <1>7, <1>8, <1>9, <1>10, <1>11, Zenon DEF SkillStep

LEMMA AgentMoves ==
    ASSUME NEW w \in Workers, AgentStep(w), UNCHANGED <<model, server, skill>>, Tables
    PROVE  Moved(w, AgentOps)
<1>1. /\ DOMAIN req = Workers
      /\ \A i \in DOMAIN agent : agent[i].default \in BOOLEAN
      /\ NewAgent \notin DOMAIN agent
  BY ReferencesAssumption DEF Tables, Flagged, Table, Ids, NewAgent
<1>2. ASSUME NEW a, NEW m, NEW rebind, NEW flag \in BOOLEAN, NEW binds,
             BeginSaveAgent(w, a, m, rebind, binds, flag)
      PROVE  Moved(w, AgentOps)
  <2>1. PICK first \in BOOLEAN : first = (agent = << >>) OBVIOUS
  <2>2. PICK none : none = [model |-> m, default |-> FALSE] OBVIOUS
  <2>3. PICK row : row = IF a = NewAgent THEN none ELSE agent[a] OBVIOUS
  <2>4. PICK losers : losers = IF a = NewAgent THEN {} ELSE Defaults(agent) OBVIOUS
  <2>5. PICK r : r = [op |-> "save_agent", id |-> a, model |-> m, rebind |-> rebind,
                      binds |-> binds, default |-> flag, first |-> first,
                      row |-> row, losers |-> losers]
    OBVIOUS
  <2>6. /\ r.op = "save_agent" /\ r.id = a /\ r.model = m /\ r.binds = binds
        /\ r.default = flag /\ r.first = first /\ r.row = row
    BY <2>5
  <2>7. Begin(w, r) /\ UNCHANGED <<agent, binding>>
    BY <1>2, <2>1, <2>2, <2>3, <2>4, <2>5, Zenon DEF BeginSaveAgent
  <2>8. /\ a \in DOMAIN agent \cup {NewAgent} /\ m \in DOMAIN model
        /\ binds \subseteq Resources
    BY <1>2 DEF BeginSaveAgent
  <2>9. row.default \in BOOLEAN BY <1>1, <2>2, <2>3, <2>8
  <2>10. a # NewAgent => a \in DOMAIN agent /\ row = agent[a] BY <2>3, <2>8
  <2>11. ASSUME NEW x \in binds
         PROVE  /\ x.kind = "mcp" => x.id \in DOMAIN server
                /\ x.kind = "skill" => x.id \in DOMAIN skill
    BY <2>8, <2>11 DEF Resources
  <2>12. first <=> agent = << >> BY <2>1
  <2>13. ASSUME req'[w] = r PROVE Current(w)'
    <3>1. \A op : Serving(w, op)' => op = "save_agent" BY <2>6, <2>13 DEF Serving
    <3>2. FlagsOfRequest(w)' BY <2>6, <2>9, <2>13, <3>1 DEF FlagsOfRequest
    <3>3. ModelRead(w)' BY <3>1 DEF ModelRead
    <3>4. AgentRead(w)' BY <2>6, <2>7, <2>10, <2>12, <2>13, <3>1 DEF AgentRead
    <3>5. ResourcesRead(w)' BY <2>6, <2>8, <2>11, <2>13, <3>1 DEF ResourcesRead
    <3> QED BY <3>2, <3>3, <3>4, <3>5 DEF Current
  <2> QED BY <1>1, <2>6, <2>7, <2>13, NextMoves DEF AgentOps
<1>3. ASSUME NEW a, NEW next, BeginDeleteAgent(w, a, next) PROVE Moved(w, AgentOps)
  <2>1. PICK r : r = [op |-> "delete_agent", id |-> a, next |-> next] OBVIOUS
  <2>2. r.op = "delete_agent" /\ r.id = a /\ r.next = next BY <2>1
  <2>3. Begin(w, r) /\ UNCHANGED <<agent, binding>> BY <1>3, <2>1, Zenon DEF BeginDeleteAgent
  <2>4. a \in DOMAIN agent /\ Successor(agent, a, next)
    BY <1>3, Zenon DEF BeginDeleteAgent, Successor
  <2>5. a \in DOMAIN agent' /\ Successor(agent', a, next) BY <2>3, <2>4
  <2>6. ASSUME req'[w] = r PROVE Current(w)'
    BY <2>2, <2>5, <2>6
    DEF Current, FlagsOfRequest, ModelRead, AgentRead, ResourcesRead, Serving
  <2> QED BY <1>1, <2>2, <2>3, <2>6, NextMoves DEF AgentOps
<1>4. ASSUME NEW a, BeginSetDefaultAgent(w, a) PROVE Moved(w, AgentOps)
  <2>1. PICK r : r = [op |-> "set_default_agent", id |-> a, from |-> Defaults(agent)] OBVIOUS
  <2>2. r.op = "set_default_agent" /\ r.id = a BY <2>1
  <2>3. Begin(w, r) /\ UNCHANGED <<agent, binding>>
    BY <1>4, <2>1, Zenon DEF BeginSetDefaultAgent
  <2>4. a \in DOMAIN agent' BY <1>4, <2>3 DEF BeginSetDefaultAgent
  <2>5. ASSUME req'[w] = r PROVE Current(w)'
    BY <2>2, <2>4, <2>5
    DEF Current, FlagsOfRequest, ModelRead, AgentRead, ResourcesRead, Serving
  <2> QED BY <1>1, <2>2, <2>3, <2>5, NextMoves DEF AgentOps
<1>5. ASSUME CreateAgent(w) \/ UpdateAgent(w) \/ DeleteAgent(w) \/ SetDefaultAgent(w)
      PROVE  Moved(w, AgentOps)
  <2>1. Respond(w) BY <1>5, Zenon DEF CreateAgent, UpdateAgent, DeleteAgent, SetDefaultAgent
  <2> QED BY <1>1, <2>1, AnswerMoves
<1> QED BY <1>2, <1>3, <1>4, <1>5, Zenon DEF AgentStep

-----------------------------------------------------------------------------
(* What the steps do to the models                                          *)

LEMMA Answered ==
    ASSUME NEW w \in Workers, DOMAIN req = Workers, Respond(w), NEW op, Serving(w, op)
    PROVE  Answers(w, op)
BY DEF Respond, Answers

\* A table with default flags after a step of worker w, who answers if it
\* takes the last flag of a table it had met a write to.
FlagsAfter(w, page, rows, new, fields, ops) ==
    /\ Flagged(new, fields)
    /\ Headless(new) =>
          Headless(rows) \/ (page \in met[w] /\ \E op \in ops : Answers(w, op))

ModelsAfter(w) == FlagsAfter(w, "model", model, model', {"default"}, ModelOps)

LEMMA SameFlags ==
    ASSUME NEW w, NEW page, NEW rows, NEW F, NEW ops, Flagged(rows, F)
    PROVE  FlagsAfter(w, page, rows, rows, F, ops)
BY Zenon DEF FlagsAfter

LEMMA ModelCreated ==
    ASSUME Consistent, NEW w \in Workers, CreateModel(w)
    PROVE  ModelsAfter(w) /\ DOMAIN model \subseteq DOMAIN model'
<1> DEFINE F == {"default"}
<1>1. Flagged(model, F) /\ scene \in Scenes BY DEF Consistent, Tables
<1>2. PICK flag : flag = req[w].default OBVIOUS
<1>3. Serving(w, "create_model") /\ HasRoom(model, "model") BY DEF CreateModel
<1>4. flag \in BOOLEAN BY <1>2, <1>3 DEF Consistent, Current, FlagsOfRequest
<1>5. Answers(w, "create_model") BY <1>3, Answered DEF CreateModel, Consistent, Tables
<1>6. PICK k, row, new : k = NextId(model) /\ row = [default |-> flag] /\ new = Put(model, k, row)
  OBVIOUS
<1>7. model' = IF UniqueDefault(new) THEN new ELSE model
  BY <1>2, <1>6, Zenon DEF CreateModel
<1>8. DOMAIN row = F /\ row.default = flag BY <1>6
<1>9. CASE UniqueDefault(new)
  <2>1. model' = new BY <1>7, <1>9
  <2>2. Table(model, F) /\ \A i \in DOMAIN model : model[i].default \in BOOLEAN
    BY <1>1 DEF Flagged
  <2>3. "model" \in Pages BY DEF Pages
  <2>4. Flagged(new, F) /\ RowPut(new, model, k, row)
    BY <1>1, <1>3, <1>4, <1>6, <1>8, <1>9, <2>2, <2>3, RowCreated
  <2>5. /\ DOMAIN new = DOMAIN model \cup {k} /\ new[k] = row
        /\ \A i \in DOMAIN model : new[i] = model[i]
    BY <2>4 DEF RowPut
  <2>6. ASSUME "model" \notin met[w], ~ Headless(model) PROVE ~ Headless(new)
    <3>1. flag <=> Defaults(model) = {}
      BY <1>2, <1>3, <2>6 DEF Consistent, Current, ModelRead
    <3>2. CASE flag
      <4>1. k \in Defaults(new) BY <1>8, <2>5, <3>2 DEF Defaults
      <4> QED BY <4>1 DEF Headless
    <3>3. CASE ~ flag
      <4>1. PICK d \in DOMAIN model : model[d].default BY <3>1, <3>3 DEF Defaults
      <4>2. d \in Defaults(new) BY <2>5, <4>1 DEF Defaults
      <4> QED BY <4>2 DEF Headless
    <3> QED BY <3>2, <3>3
  <2> QED BY <1>5, <2>1, <2>4, <2>5, <2>6 DEF ModelsAfter, FlagsAfter, ModelOps
<1>10. CASE ~ UniqueDefault(new)
  <2>1. model' = model BY <1>7, <1>10
  <2> QED BY <1>1, <2>1, SameFlags DEF ModelsAfter
<1> QED BY <1>9, <1>10

OnlyOne(new, rows, F, m) ==
    /\ Table(new, F) /\ DOMAIN new = DOMAIN rows
    /\ m \in DOMAIN rows => new[m] = rows[m]
    /\ \A i \in DOMAIN rows \ {m} : new[i].default = FALSE

\* set_default writes the flags of all rows but its own to false.
LEMMA OnlyOneKept ==
    ASSUME NEW rows, NEW F, "default" \in F, Table(rows, F), NEW m,
           NEW new, new = [i \in DOMAIN rows |->
                             IF i = m THEN rows[i] ELSE [rows[i] EXCEPT !.default = FALSE]]
    PROVE  OnlyOne(new, rows, F, m)
<1>1. /\ DOMAIN new = DOMAIN rows /\ new = [i \in DOMAIN new |-> new[i]]
      /\ m \in DOMAIN rows => new[m] = rows[m]
  OBVIOUS
<1>2. ASSUME NEW i \in DOMAIN rows \ {m}
      PROVE  DOMAIN new[i] = F /\ new[i].default = FALSE
  <2>1. PICK row : row = rows[i] OBVIOUS
  <2>2. new[i] = [row EXCEPT !.default = FALSE] BY <2>1
  <2>3. DOMAIN row = F BY <2>1 DEF Table
  <2> QED BY <2>2, <2>3
<1>3. Table(new, F) BY <1>1, <1>2 DEF Table
<1> QED BY <1>1, <1>2, <1>3 DEF OnlyOne

LEMMA ModelMadeDefault ==
    ASSUME Consistent, NEW w \in Workers, SetDefaultModel(w)
    PROVE  ModelsAfter(w) /\ DOMAIN model' = DOMAIN model
<1> DEFINE F == {"default"}
<1>1. Flagged(model, F) /\ Table(model, F) BY DEF Consistent, Tables, Flagged
<1>2. PICK m, was : m = req[w].id /\ was = req[w].was OBVIOUS
<1>3. Serving(w, "set_default_model") BY DEF SetDefaultModel
<1>4. Answers(w, "set_default_model") BY <1>3, Answered DEF SetDefaultModel, Consistent, Tables
<1>5. PICK others : others = [i \in DOMAIN model |->
                       IF i = m THEN model[i] ELSE [model[i] EXCEPT !.default = FALSE]]
  OBVIOUS
<1>6. PICK given : given = WithDefault(others, m, TRUE) OBVIOUS
<1>7. model' = IF was THEN others ELSE IF m \in DOMAIN model THEN given ELSE model
  BY <1>2, <1>5, <1>6, Zenon DEF SetDefaultModel
<1>8. OnlyOne(others, model, F, m) BY <1>1, <1>5, OnlyOneKept
<1>9. /\ Table(others, F) /\ DOMAIN others = DOMAIN model
      /\ m \in DOMAIN model => others[m] = model[m]
      /\ \A i \in DOMAIN model \ {m} : others[i].default = FALSE
  BY <1>8 DEF OnlyOne
<1>10. ASSUME NEW new, Table(new, F), DOMAIN new = DOMAIN model,
              m \in DOMAIN model => new[m].default \in BOOLEAN,
              \A i \in DOMAIN model \ {m} : new[i].default = FALSE
       PROVE  Flagged(new, F)
  <2>1. \A i \in DOMAIN new : new[i].default \in BOOLEAN BY <1>10
  <2>2. \A i, j \in Defaults(new) : i = j BY <1>10 DEF Defaults
  <2>3. DOMAIN new \subseteq Ids BY <1>10 DEF Table
  <2>4. UniqueDefault(new) BY <2>2, <2>3, UniqueDefaultMeans
  <2> QED BY <1>10, <2>1, <2>4 DEF Flagged
<1>11. m \in DOMAIN model => model[m].default \in BOOLEAN BY <1>1 DEF Flagged
<1>12. "model" \notin met[w] => m \in DOMAIN model /\ (was <=> model[m].default)
  BY <1>2, <1>3 DEF Consistent, Current, ModelRead
<1>13. CASE was
  <2>1. model' = others BY <1>7, <1>13
  <2>2. Flagged(others, F) BY <1>9, <1>10, <1>11
  <2>3. ASSUME "model" \notin met[w] PROVE ~ Headless(others)
    <3>1. m \in Defaults(others) BY <1>9, <1>12, <1>13, <2>3 DEF Defaults
    <3> QED BY <3>1 DEF Headless
  <2> QED BY <1>4, <1>9, <2>1, <2>2, <2>3 DEF ModelsAfter, FlagsAfter, ModelOps
<1>14. CASE ~ was /\ m \in DOMAIN model
  <2>1. model' = given BY <1>7, <1>14
  <2>2. FlagsOnly(given, others, F) /\ FlagSet(given, others, m, TRUE)
    BY <1>6, <1>9, <1>14, FlagWritten
  <2>3. Table(given, F) /\ DOMAIN given = DOMAIN model BY <1>9, <2>2 DEF FlagsOnly
  <2>4. given[m].default = TRUE /\ \A i \in DOMAIN model \ {m} : given[i].default = FALSE
    BY <1>9, <2>2 DEF FlagSet
  <2>5. Flagged(given, F) BY <1>10, <2>3, <2>4
  <2>6. m \in Defaults(given) BY <1>14, <2>3, <2>4 DEF Defaults
  <2> QED BY <2>1, <2>3, <2>5, <2>6 DEF ModelsAfter, FlagsAfter, Headless
<1>15. CASE ~ was /\ m \notin DOMAIN model
  <2>1. model' = model BY <1>7, <1>15
  <2> QED BY <1>1, <2>1, SameFlags DEF ModelsAfter
<1> QED BY <1>13, <1>14, <1>15

LEMMA ModelDeleted ==
    ASSUME Consistent, NEW w \in Workers, DeleteModel(w)
    PROVE  ModelsAfter(w) /\ DOMAIN model \ {req[w].id} \subseteq DOMAIN model'
<1> DEFINE F == {"default"}
<1>1. Flagged(model, F) /\ Table(model, F) BY DEF Consistent, Tables, Flagged
<1>2. PICK m, next : m = req[w].id /\ next = req[w].next OBVIOUS
<1>3. Serving(w, "delete_model") BY DEF DeleteModel
<1>4. Answers(w, "delete_model") BY <1>3, Answered DEF DeleteModel, Consistent, Tables
<1>5. PICK mid, new : /\ mid = IF next = NoSuccessor THEN model
                               ELSE WithDefault(WithDefault(model, m, FALSE), next, TRUE)
                      /\ new = Drop(mid, {m})
  OBVIOUS
<1>6. \/ /\ model' = new
         /\ next = NoSuccessor \/ {m, next} \subseteq DOMAIN model
         /\ next = NoSuccessor \/ UniqueDefault(mid)
      \/ model' = model
  <2>1. CASE next = NoSuccessor
    <3>1. mid = model BY <1>5, <2>1
    <3>2. model' = Drop(model, {m}) BY <1>2, <2>1, Zenon DEF DeleteModel
    <3> QED BY <1>5, <2>1, <3>1, <3>2
  <2>2. CASE next # NoSuccessor
    <3>1. mid = WithDefault(WithDefault(model, m, FALSE), next, TRUE) BY <1>5, <2>2
    <3>2. model' = IF ~ {m, next} \subseteq DOMAIN model THEN model
                   ELSE IF UniqueDefault(mid) THEN Drop(mid, {m}) ELSE model
      BY <1>2, <2>2, <3>1, Zenon DEF DeleteModel
    <3> QED BY <1>5, <2>2, <3>2
  <2> QED BY <2>1, <2>2
<1>7. CASE model' = model
  <2>1. ModelsAfter(w) BY <1>1, <1>7, SameFlags DEF ModelsAfter
  <2> QED BY <1>7, <2>1
<1>8. ASSUME model' = new, next = NoSuccessor \/ {m, next} \subseteq DOMAIN model,
             next = NoSuccessor \/ UniqueDefault(mid)
      PROVE  ModelsAfter(w) /\ DOMAIN model \ {m} \subseteq DOMAIN model'
  <2>1. Flagged(new, F) /\ DOMAIN new = DOMAIN model \ {m}
    <3>1. "default" \in F /\ Flagged(model, F) BY <1>1
    <3> HIDE DEF F
    <3>2. LeavesTable(new, mid, model, m, next) BY <1>5, <1>8, Zenon DEF LeavesTable
    <3> QED BY <3>1, <3>2, RowGone, Zenon
  <2>2. ASSUME "model" \notin met[w], ~ Headless(model) PROVE ~ Headless(new)
    <3>1. m \in DOMAIN model /\ Successor(model, m, next)
      BY <1>2, <1>3, <2>2 DEF Consistent, Current, ModelRead
    <3>2. OneDefault(model) BY <1>1, <2>2, HeadOfTable
    <3>3. RowIsDeleted(new, mid, model, F, m, next) BY <1>1, <1>5, <3>1, <3>2, RowDeleted
    <3> QED BY <3>3, TableWithHead DEF RowIsDeleted
  <2> QED BY <1>4, <1>8, <2>1, <2>2 DEF ModelsAfter, FlagsAfter, ModelOps
<1> QED BY <1>2, <1>6, <1>7, <1>8

\* The only row a request takes away is the one it deletes.
LEMMA ModelStepEffect ==
    ASSUME Consistent, NEW w \in Workers, ModelStep(w)
    PROVE  /\ ModelsAfter(w)
           /\ \A m \in DOMAIN model :
                 m \in DOMAIN model' \/ (Answers(w, "delete_model") /\ m = req[w].id)
<1>1. ASSUME model' = model PROVE ModelsAfter(w)
  BY <1>1, SameFlags DEF ModelsAfter, Consistent, Tables
<1>2. CASE DeleteModel(w)
  <2>1. Answers(w, "delete_model") BY <1>2, Answered DEF DeleteModel, Consistent, Tables
  <2> QED BY <1>2, <2>1, ModelDeleted
<1>3. CASE BeginCreateModel(w) \/ \E m \in Ids : BeginSetDefaultModel(w, m)
  <2>1. model' = model BY <1>3, Zenon DEF BeginCreateModel, BeginSetDefaultModel
  <2> QED BY <1>1, <2>1
<1>4. CASE \E m \in Ids, next \in Ids \cup {NoSuccessor} : BeginDeleteModel(w, m, next)
  <2>1. model' = model BY <1>4, Zenon DEF BeginDeleteModel
  <2> QED BY <1>1, <2>1
<1>5. CASE CreateModel(w) BY <1>5, ModelCreated
<1>6. CASE SetDefaultModel(w) BY <1>6, ModelMadeDefault
<1> QED BY <1>2, <1>3, <1>4, <1>5, <1>6 DEF ModelStep

-----------------------------------------------------------------------------
(* What the steps do to the agents                                          *)

AgentsAfter(w) == FlagsAfter(w, "agent", agent, agent', {"model", "default"}, AgentOps)

Dangling(b) == \/ b.agent \notin DOMAIN agent
               \/ b.kind = "mcp" /\ b.id \notin DOMAIN server
               \/ b.kind = "skill" /\ b.id \notin DOMAIN skill

\* Nothing is cut loose where what is loose afterwards was loose before.
LEMMA NothingLoosened ==
    ASSUME \A a \in DOMAIN agent' : agent'[a].model \notin DOMAIN model' =>
                a \in DOMAIN agent /\ agent[a].model \notin DOMAIN model,
           \A b \in binding' : Dangling(b)' => b \in binding /\ Dangling(b)
    PROVE  Loose' \subseteq Loose
<1>1. ASSUME NEW x \in Loose' PROVE x \in Loose
  <2>1. CASE \E a \in DOMAIN agent' : /\ agent'[a].model \notin DOMAIN model'
                                      /\ x = [kind |-> "model", agent |-> a]
    BY <2>1 DEF Loose
  <2>2. CASE x \in binding' /\ Dangling(x)'
    BY <2>2 DEF Loose, Dangling
  <2> QED BY <1>1, <2>1, <2>2 DEF Loose, Dangling
<1> QED BY <1>1

\* The same for a step that takes agents away with their bindings.
LEMMA NothingLoosenedByAgents ==
    ASSUME UNCHANGED <<model, server, skill>>, Kept(agent', agent, {"model", "default"}),
           binding' \subseteq binding,
           \A b \in binding' : b.agent \in DOMAIN agent => b.agent \in DOMAIN agent'
    PROVE  Loose' \subseteq Loose
<1>1. "model" \in {"model", "default"} \ {"default"} OBVIOUS
<1>2. \A a \in DOMAIN agent' : a \in DOMAIN agent /\ agent'[a].model = agent[a].model
  BY <1>1 DEF Kept
<1>3. \A b \in binding' : Dangling(b)' => b \in binding /\ Dangling(b) BY DEF Dangling
<1> QED BY <1>2, <1>3, NothingLoosened

\* Rows of agents without the flag.
LEMMA Unflagged ==
    ASSUME NEW rows, NEW F, "default" \in F, Table(rows, F), NEW new, new = WithoutDefaults(rows)
    PROVE  FlagsOnly(new, rows, F) /\ \A i \in DOMAIN rows : new[i].default = FALSE
<1>1. DOMAIN new = DOMAIN rows /\ new = [i \in DOMAIN new |-> new[i]] BY DEF WithoutDefaults
<1>2. ASSUME NEW i \in DOMAIN rows
      PROVE  /\ DOMAIN new[i] = F /\ new[i].default = FALSE
             /\ \A f \in F \ {"default"} : new[i][f] = rows[i][f]
  <2>1. PICK row : row = rows[i] OBVIOUS
  <2>2. new[i] = [row EXCEPT !.default = FALSE] BY <2>1 DEF WithoutDefaults
  <2>3. DOMAIN row = F BY <2>1 DEF Table
  <2> QED BY <2>1, <2>2, <2>3
<1>3. Table(new, F) BY <1>1, <1>2 DEF Table
<1> QED BY <1>1, <1>2, <1>3 DEF FlagsOnly

\* Saving an agent cuts nothing loose that was not written meanwhile.
SavedAgent(w) == met[w] = {} => Loose' \subseteq Loose

\* The bindings of an agent whose resources are still there.
LEMMA Bound ==
    ASSUME Consistent, NEW w \in Workers, Serving(w, "save_agent"), met[w] = {},
           NEW a, a \in DOMAIN agent', binding' = Rebound(a, req[w]),
           DOMAIN agent \subseteq DOMAIN agent', UNCHANGED <<server, skill>>
    PROVE  \A b \in binding' : Dangling(b)' => b \in binding /\ Dangling(b)
<1>1. \A x \in req[w].binds : /\ x.kind = "mcp" => x.id \in DOMAIN server
                              /\ x.kind = "skill" => x.id \in DOMAIN skill
  BY DEF Consistent, Current, ResourcesRead
<1>2. ASSUME NEW b \in binding', b \notin binding PROVE ~ Dangling(b)'
  <2>1. PICK x \in req[w].binds : b = [agent |-> a, kind |-> x.kind, id |-> x.id]
    BY <1>2 DEF Rebound
  <2>2. b.agent = a /\ b.kind = x.kind /\ b.id = x.id BY <2>1
  <2> QED BY <1>1, <2>2 DEF Dangling
<1>3. ASSUME NEW b \in binding, Dangling(b)' PROVE Dangling(b) BY <1>3 DEF Dangling
<1> QED BY <1>2, <1>3

LEMMA AgentCreated ==
    ASSUME Consistent, NEW w \in Workers, CreateAgent(w), UNCHANGED <<model, server, skill>>
    PROVE  AgentsAfter(w) /\ SavedAgent(w)
<1> DEFINE F == {"model", "default"}
<1>1. Flagged(agent, F) /\ scene \in Scenes BY DEF Consistent, Tables
<1>2. Table(agent, F) /\ \A i \in DOMAIN agent : agent[i].default \in BOOLEAN
  BY <1>1 DEF Flagged
<1>3. PICK r : r = req[w] OBVIOUS
<1>4. Serving(w, "save_agent") /\ HasRoom(agent, "agent") BY DEF CreateAgent
<1>5. r.default \in BOOLEAN /\ r.first \in BOOLEAN
  BY <1>3, <1>4 DEF Consistent, Current, FlagsOfRequest
<1>6. Answers(w, "save_agent") BY <1>4, Answered DEF CreateAgent, Consistent, Tables
<1>7. PICK flag \in BOOLEAN : flag = (r.first \/ r.default) BY <1>5
<1>8. PICK others, k, row, new :
         /\ others = IF r.default /\ ~ r.first THEN WithoutDefaults(agent) ELSE agent
         /\ k = NextId(agent) /\ row = [model |-> r.model, default |-> flag]
         /\ new = Put(others, k, row)
  OBVIOUS
<1>9. IF UniqueDefault(new) THEN agent' = new /\ binding' = Rebound(k, r)
                            ELSE UNCHANGED <<agent, binding>>
  BY <1>3, <1>7, <1>8, Zenon DEF CreateAgent
<1>10. CASE UniqueDefault(new)
  <2>1. agent' = new /\ binding' = Rebound(k, r) BY <1>9, <1>10
  <2>2. /\ Table(others, F) /\ DOMAIN others = DOMAIN agent
        /\ \A i \in DOMAIN agent : others[i].default \in BOOLEAN /\ others[i].model = agent[i].model
    <3>1. CASE others = agent BY <1>2, <3>1
    <3>2. CASE others = WithoutDefaults(agent)
      <4>1. FlagsOnly(others, agent, F) /\ \A i \in DOMAIN agent : others[i].default = FALSE
        BY <1>2, <3>2, Unflagged
      <4>2. "model" \in F \ {"default"} OBVIOUS
      <4> QED BY <4>1, <4>2 DEF FlagsOnly
    <3> QED BY <1>8, <3>1, <3>2
  <2>3. DOMAIN row = F /\ row.default = flag /\ row.model = r.model BY <1>8
  <2>4. NextId(others) = k BY <1>8, <2>2, Zenon DEF NextId
  <2>5. HasRoom(others, "agent") BY <1>4, <1>8, <2>4 DEF HasRoom
  <2>6. "agent" \in Pages BY DEF Pages
  <2>7. \A i \in DOMAIN others : others[i].default \in BOOLEAN BY <2>2
  <2>8. row.default \in BOOLEAN /\ k = NextId(others) BY <2>3, <2>4
  <2>9. Flagged(new, F) /\ RowPut(new, others, k, row)
    BY <1>1, <1>8, <1>10, <2>2, <2>3, <2>5, <2>6, <2>7, <2>8, RowCreated
  <2>10. /\ DOMAIN new = DOMAIN agent \cup {k}
         /\ new[k] = row /\ \A i \in DOMAIN agent : new[i] = others[i]
    BY <2>2, <2>9 DEF RowPut
  <2>11. ASSUME "agent" \notin met[w], ~ Headless(agent) PROVE ~ Headless(new)
    <3>1. r.first <=> agent = << >>
      BY <1>3, <1>4, <2>11 DEF Consistent, Current, AgentRead
    <3>2. CASE flag
      <4>1. k \in Defaults(new) BY <2>3, <2>10, <3>2 DEF Defaults
      <4> QED BY <4>1 DEF Headless
    <3>3. CASE ~ flag
      <4>1. others = agent /\ agent # << >> BY <1>7, <1>8, <3>1, <3>3
      <4>2. PICK d \in DOMAIN agent : agent[d].default BY <2>11, <4>1 DEF Headless, Defaults
      <4>3. d \in Defaults(new) BY <2>10, <4>1, <4>2 DEF Defaults
      <4> QED BY <4>3 DEF Headless
    <3> QED BY <3>2, <3>3
  <2>12. AgentsAfter(w) BY <1>6, <2>1, <2>9, <2>11 DEF AgentsAfter, FlagsAfter, AgentOps
  <2>13. ASSUME met[w] = {} PROVE Loose' \subseteq Loose
    <3>1. r.model \in DOMAIN model
      BY <1>3, <1>4, <2>13 DEF Consistent, Current, ResourcesRead
    <3>2. \A a \in DOMAIN agent' : agent'[a].model \notin DOMAIN model' =>
                a \in DOMAIN agent /\ agent[a].model \notin DOMAIN model
      BY <2>1, <2>2, <2>3, <2>10, <3>1
    <3>3. k \in DOMAIN agent' /\ DOMAIN agent \subseteq DOMAIN agent' BY <2>1, <2>10
    <3>4. \A b \in binding' : Dangling(b)' => b \in binding /\ Dangling(b)
      BY <1>3, <1>4, <2>1, <2>13, <3>3, Bound
    <3> QED BY <3>2, <3>4, NothingLoosened
  <2> QED BY <2>12, <2>13 DEF SavedAgent
<1>11. CASE ~ UniqueDefault(new)
  <2>1. agent' = agent /\ binding' = binding BY <1>9, <1>11
  <2>2. AgentsAfter(w) BY <1>1, <2>1, SameFlags DEF AgentsAfter
  <2>3. Loose' \subseteq Loose BY <2>1, Zenon DEF Loose
  <2> QED BY <2>2, <2>3 DEF SavedAgent
<1> QED BY <1>10, <1>11

LEMMA AgentUpdated ==
    ASSUME Consistent, NEW w \in Workers, UpdateAgent(w), UNCHANGED <<model, server, skill>>
    PROVE  AgentsAfter(w) /\ SavedAgent(w)
<1> DEFINE F == {"model", "default"}
<1>1. Flagged(agent, F) /\ Table(agent, F) BY DEF Consistent, Tables, Flagged
<1>2. \A i \in DOMAIN agent : agent[i].default \in BOOLEAN BY <1>1 DEF Flagged
<1>3. PICK r, a : r = req[w] /\ a = r.id OBVIOUS
<1>4. Serving(w, "save_agent") /\ a # NewAgent BY <1>3 DEF UpdateAgent
<1>5. r.default \in BOOLEAN /\ r.row.default \in BOOLEAN
  BY <1>3, <1>4 DEF Consistent, Current, FlagsOfRequest
<1>6. Answers(w, "save_agent") BY <1>4, Answered DEF UpdateAgent, Consistent, Tables
<1>7. PICK takes \in BOOLEAN : takes = (r.default /\ ~ r.row.default) BY <1>5
<1>8. PICK moves \in BOOLEAN : moves = (r.model # r.row.model) OBVIOUS
<1>9. PICK losers, new :
         /\ losers = IF takes THEN r.losers ELSE {}
         /\ new = [i \in DOMAIN agent |->
                      IF i = a THEN [model |-> IF moves THEN r.model ELSE agent[a].model,
                                     default |-> takes \/ agent[a].default]
                      ELSE IF i \in losers THEN [agent[i] EXCEPT !.default = FALSE]
                      ELSE agent[i]]
  OBVIOUS
<1>10. \/ UNCHANGED <<agent, binding>>
       \/ agent' = new /\ binding' = Rebound(a, r) /\ UniqueDefault(new)
  BY <1>3, <1>7, <1>8, <1>9, Zenon DEF UpdateAgent
<1>11. ASSUME agent' = new, binding' = Rebound(a, r), UniqueDefault(new)
       PROVE  AgentsAfter(w) /\ SavedAgent(w)
  <2>1. DOMAIN new = DOMAIN agent /\ new = [i \in DOMAIN new |-> new[i]] BY <1>9
  <2>2. ASSUME a \in DOMAIN agent
        PROVE  /\ DOMAIN new[a] = F /\ new[a].default \in BOOLEAN
               /\ new[a].default <=> takes \/ agent[a].default
               /\ new[a].model = r.model \/ (~ moves /\ new[a].model = agent[a].model)
    <3>1. PICK had \in BOOLEAN : had = agent[a].default BY <1>2, <2>2
    <3>2. PICK flag \in BOOLEAN : flag = (takes \/ had) OBVIOUS
    <3>3. PICK m : m = IF moves THEN r.model ELSE agent[a].model OBVIOUS
    <3>4. (takes \/ agent[a].default) = flag BY <3>1, <3>2, Zenon
    <3>5. new[a] = [model |-> m, default |-> flag] BY <1>9, <2>2, <3>3, <3>4
    <3>6. DOMAIN new[a] = F /\ new[a].default = flag /\ new[a].model = m BY <3>5
    <3> QED BY <3>1, <3>2, <3>3, <3>6
  <2>3. ASSUME NEW i \in DOMAIN agent, i # a
        PROVE  /\ DOMAIN new[i] = F /\ new[i].model = agent[i].model
               /\ new[i].default \in BOOLEAN
               /\ ~ takes => new[i] = agent[i]
    <3>1. CASE i \in losers
      <4>1. PICK old : old = agent[i] OBVIOUS
      <4>2. new[i] = [old EXCEPT !.default = FALSE] BY <1>9, <2>3, <3>1, <4>1
      <4>3. DOMAIN old = F BY <1>1, <4>1 DEF Table
      <4>4. takes BY <1>9, <3>1
      <4> QED BY <4>1, <4>2, <4>3, <4>4
    <3>2. CASE i \notin losers
      <4>1. new[i] = agent[i] BY <1>9, <2>3, <3>2
      <4> QED BY <1>1, <1>2, <4>1 DEF Table
    <3> QED BY <3>1, <3>2
  <2>4. \A i \in DOMAIN new : DOMAIN new[i] = F /\ new[i].default \in BOOLEAN
    BY <2>1, <2>2, <2>3
  <2>5. Table(new, F) BY <1>1, <2>1, <2>4 DEF Table
  <2>6. Flagged(new, F) BY <1>11, <2>4, <2>5 DEF Flagged
  <2>7. ASSUME "agent" \notin met[w], ~ Headless(agent) PROVE ~ Headless(new)
    <3>1. a \in DOMAIN agent BY <1>3, <1>4, <2>7 DEF Consistent, Current, AgentRead
    <3>2. CASE new[a].default
      <4>1. a \in Defaults(new) BY <2>1, <3>1, <3>2 DEF Defaults
      <4> QED BY <4>1 DEF Headless
    <3>3. CASE ~ new[a].default
      <4>1. ~ takes /\ ~ agent[a].default BY <2>2, <3>1, <3>3
      <4>2. agent # << >> BY <3>1
      <4>3. PICK d \in DOMAIN agent : agent[d].default BY <2>7, <4>2 DEF Headless, Defaults
      <4>4. d # a BY <4>1, <4>3
      <4>5. new[d] = agent[d] BY <2>3, <4>1, <4>4
      <4>6. d \in Defaults(new) BY <2>1, <4>3, <4>5 DEF Defaults
      <4> QED BY <4>6 DEF Headless
    <3> QED BY <3>2, <3>3
  <2>8. AgentsAfter(w) BY <1>6, <1>11, <2>6, <2>7 DEF AgentsAfter, FlagsAfter, AgentOps
  <2>9. ASSUME met[w] = {} PROVE Loose' \subseteq Loose
    <3>1. a \in DOMAIN agent BY <1>3, <1>4, <2>9 DEF Consistent, Current, AgentRead
    <3>2. r.model \in DOMAIN model
      BY <1>3, <1>4, <2>9 DEF Consistent, Current, ResourcesRead
    <3>3. \A i \in DOMAIN agent' : agent'[i].model \notin DOMAIN model' =>
                i \in DOMAIN agent /\ agent[i].model \notin DOMAIN model
      BY <1>11, <2>1, <2>2, <2>3, <3>1, <3>2
    <3>4. a \in DOMAIN agent' /\ DOMAIN agent \subseteq DOMAIN agent' BY <1>11, <2>1, <3>1
    <3>5. \A b \in binding' : Dangling(b)' => b \in binding /\ Dangling(b)
      BY <1>3, <1>4, <1>11, <2>9, <3>4, Bound
    <3> QED BY <3>3, <3>5, NothingLoosened
  <2> QED BY <2>8, <2>9 DEF SavedAgent
<1>12. ASSUME UNCHANGED <<agent, binding>> PROVE AgentsAfter(w) /\ SavedAgent(w)
  <2>1. AgentsAfter(w) BY <1>1, <1>12, SameFlags DEF AgentsAfter
  <2>2. Loose' \subseteq Loose BY <1>12, Zenon DEF Loose
  <2> QED BY <2>1, <2>2 DEF SavedAgent
<1> QED BY <1>10, <1>11, <1>12

LEMMA AgentDeleted ==
    ASSUME Consistent, NEW w \in Workers, DeleteAgent(w), UNCHANGED <<model, server, skill>>
    PROVE  AgentsAfter(w) /\ Loose' \subseteq Loose
<1> DEFINE F == {"model", "default"}
<1>1. Flagged(agent, F) /\ Table(agent, F) BY DEF Consistent, Tables, Flagged
<1>2. PICK a, next : a = req[w].id /\ next = req[w].next OBVIOUS
<1>3. Serving(w, "delete_agent") BY DEF DeleteAgent
<1>4. Answers(w, "delete_agent") BY <1>3, Answered DEF DeleteAgent, Consistent, Tables
<1>5. PICK mid, new : /\ mid = IF next = NoSuccessor THEN agent
                               ELSE WithDefault(WithDefault(agent, a, FALSE), next, TRUE)
                      /\ new = Drop(mid, {a})
  OBVIOUS
<1>6. \/ /\ agent' = new /\ binding' = {b \in binding : b.agent # a}
         /\ next = NoSuccessor \/ {a, next} \subseteq DOMAIN agent
         /\ next = NoSuccessor \/ UniqueDefault(mid)
      \/ UNCHANGED <<agent, binding>>
  BY <1>2, <1>5, Zenon DEF DeleteAgent
<1>7. ASSUME UNCHANGED <<agent, binding>> PROVE AgentsAfter(w) /\ Loose' \subseteq Loose
  <2>1. AgentsAfter(w) BY <1>1, <1>7, SameFlags DEF AgentsAfter
  <2>2. Loose' \subseteq Loose BY <1>7, Zenon DEF Loose
  <2> QED BY <2>1, <2>2
<1>8. ASSUME agent' = new, binding' = {b \in binding : b.agent # a},
             next = NoSuccessor \/ {a, next} \subseteq DOMAIN agent,
             next = NoSuccessor \/ UniqueDefault(mid)
      PROVE  AgentsAfter(w) /\ Loose' \subseteq Loose
  <2>1. Flagged(new, F) /\ Kept(new, agent, F) /\ DOMAIN new = DOMAIN agent \ {a}
    <3>1. "default" \in F /\ Flagged(agent, F) BY <1>1
    <3> HIDE DEF F
    <3>2. LeavesTable(new, mid, agent, a, next) BY <1>5, <1>8, Zenon DEF LeavesTable
    <3> QED BY <3>1, <3>2, RowGone, Zenon
  <2>2. ASSUME "agent" \notin met[w], ~ Headless(agent) PROVE ~ Headless(new)
    <3>1. a \in DOMAIN agent /\ Successor(agent, a, next)
      BY <1>2, <1>3, <2>2 DEF Consistent, Current, AgentRead
    <3>2. OneDefault(agent) BY <1>1, <2>2, HeadOfTable
    <3>3. RowIsDeleted(new, mid, agent, F, a, next) BY <1>1, <1>5, <3>1, <3>2, RowDeleted
    <3> QED BY <3>3, TableWithHead DEF RowIsDeleted
  <2>3. AgentsAfter(w) BY <1>4, <1>8, <2>1, <2>2 DEF AgentsAfter, FlagsAfter, AgentOps
  <2>4. Loose' \subseteq Loose BY <1>8, <2>1, NothingLoosenedByAgents
  <2> QED BY <2>3, <2>4
<1> QED BY <1>6, <1>7, <1>8

LEMMA AgentMadeDefault ==
    ASSUME Consistent, NEW w \in Workers, SetDefaultAgent(w), UNCHANGED <<model, server, skill>>
    PROVE  AgentsAfter(w) /\ Loose' \subseteq Loose
<1> DEFINE F == {"model", "default"}
<1>1. Flagged(agent, F) /\ Table(agent, F) BY DEF Consistent, Tables, Flagged
<1>2. PICK a, from : a = req[w].id /\ from = req[w].from OBVIOUS
<1>3. Serving(w, "set_default_agent") /\ binding' = binding BY DEF SetDefaultAgent
<1>4. Answers(w, "set_default_agent")
  BY <1>3, Answered DEF SetDefaultAgent, Consistent, Tables
<1>5. PICK new : new = [i \in DOMAIN agent |->
                          [agent[i] EXCEPT !.default = (i = a) \/ (@ /\ i \notin from)]]
  OBVIOUS
<1>6. (agent' = new /\ UniqueDefault(new)) \/ agent' = agent
  BY <1>2, <1>5, Zenon DEF SetDefaultAgent
<1>7. CASE agent' = new /\ UniqueDefault(new)
  <2>1. DOMAIN new = DOMAIN agent /\ new = [i \in DOMAIN new |-> new[i]] BY <1>5
  <2>2. ASSUME NEW i \in DOMAIN agent
        PROVE  /\ DOMAIN new[i] = F /\ new[i].model = agent[i].model
               /\ new[i].default \in BOOLEAN /\ (i = a => new[i].default)
    <3>1. PICK old : old = agent[i] OBVIOUS
    <3>2. DOMAIN old = F /\ old.default \in BOOLEAN BY <1>1, <3>1 DEF Table, Flagged
    <3>3. PICK flag \in BOOLEAN : flag = ((i = a) \/ (old.default /\ i \notin from))
      BY <3>2
    <3>4. new[i] = [old EXCEPT !.default = (i = a) \/ (old.default /\ i \notin from)]
      BY <1>5, <3>1
    <3>5. new[i] = [old EXCEPT !.default = flag] BY <3>3, <3>4, Zenon
    <3> QED BY <3>1, <3>2, <3>3, <3>5
  <2>3. Table(new, F) BY <1>1, <2>1, <2>2 DEF Table
  <2>4. Flagged(new, F) BY <1>7, <2>1, <2>2, <2>3 DEF Flagged
  <2>5. ASSUME "agent" \notin met[w] PROVE ~ Headless(new)
    <3>1. a \in DOMAIN agent BY <1>2, <1>3, <2>5 DEF Consistent, Current, AgentRead
    <3>2. a \in Defaults(new) BY <2>1, <2>2, <3>1 DEF Defaults
    <3> QED BY <3>2 DEF Headless
  <2>6. AgentsAfter(w) BY <1>4, <1>7, <2>4, <2>5 DEF AgentsAfter, FlagsAfter, AgentOps
  <2>7. Kept(new, agent, F)
    <3>1. \A f \in F \ {"default"} : f = "model" OBVIOUS
    <3> QED BY <2>1, <2>2, <3>1 DEF Kept
  <2>8. Loose' \subseteq Loose BY <1>3, <1>7, <2>1, <2>7, NothingLoosenedByAgents
  <2> QED BY <2>6, <2>8
<1>8. CASE agent' = agent
  <2>1. AgentsAfter(w) BY <1>1, <1>8, SameFlags DEF AgentsAfter
  <2>2. Loose' \subseteq Loose BY <1>3, <1>8, Zenon DEF Loose
  <2> QED BY <2>1, <2>2
<1> QED BY <1>6, <1>7, <1>8

LEMMA AgentStepEffect ==
    ASSUME Consistent, NEW w \in Workers, AgentStep(w), UNCHANGED <<model, server, skill>>
    PROVE  /\ AgentsAfter(w)
           /\ Loose' \subseteq Loose \/ (Answers(w, "save_agent") /\ met[w] # {})
<1>1. ASSUME Serving(w, "save_agent"), Respond(w) PROVE Answers(w, "save_agent")
  BY <1>1, Answered DEF Consistent, Tables
<1>2. CASE CreateAgent(w)
  <2>1. Answers(w, "save_agent") BY <1>1, <1>2 DEF CreateAgent
  <2> QED BY <1>2, <2>1, AgentCreated DEF SavedAgent
<1>3. CASE UpdateAgent(w)
  <2>1. Answers(w, "save_agent") BY <1>1, <1>3 DEF UpdateAgent
  <2> QED BY <1>3, <2>1, AgentUpdated DEF SavedAgent
<1>4. CASE DeleteAgent(w) \/ SetDefaultAgent(w) BY <1>4, AgentDeleted, AgentMadeDefault
<1>5. CASE UNCHANGED <<agent, binding>>
  <2>1. AgentsAfter(w) BY <1>5, SameFlags DEF AgentsAfter, Consistent, Tables
  <2>2. Loose' \subseteq Loose BY <1>5, Zenon DEF Loose
  <2> QED BY <2>1, <2>2
<1>6. ASSUME \/ \E a \in Ids \cup {NewAgent}, m \in Ids, rebind \in BOOLEAN, flag \in BOOLEAN :
                   \E binds \in UpTo(MaxBinds, Resources) :
                      BeginSaveAgent(w, a, m, rebind, binds, flag)
             \/ \E a \in Ids, next \in Ids \cup {NoSuccessor} : BeginDeleteAgent(w, a, next)
             \/ \E a \in Ids : BeginSetDefaultAgent(w, a)
      PROVE  UNCHANGED <<agent, binding>>
  BY <1>6, Zenon DEF BeginSaveAgent, BeginDeleteAgent, BeginSetDefaultAgent
<1> QED BY <1>2, <1>3, <1>4, <1>5, <1>6, Zenon DEF AgentStep

-----------------------------------------------------------------------------
(* What the steps do to the resources                                       *)

\* A resource may go that no agent refers to.
LEMMA ResourcesGo ==
    ASSUME UNCHANGED <<agent, binding>>,
           \A m \in DOMAIN model : m \in DOMAIN model' \/ ~ Referenced("model", m),
           \A s \in DOMAIN server : s \in DOMAIN server' \/ ~ Referenced("mcp", s),
           \A i \in DOMAIN skill : i \in DOMAIN skill' \/ ~ Referenced("skill", i)
    PROVE  Loose' \subseteq Loose
<1>1. ASSUME NEW a \in DOMAIN agent', agent'[a].model \notin DOMAIN model'
      PROVE  a \in DOMAIN agent /\ agent[a].model \notin DOMAIN model
  BY <1>1 DEF Referenced
<1>2. ASSUME NEW b \in binding', Dangling(b)' PROVE b \in binding /\ Dangling(b)
  <2>1. b \in binding /\ agent' = agent OBVIOUS
  <2>2. CASE b.agent \notin DOMAIN agent BY <2>1, <2>2 DEF Dangling
  <2>3. CASE b.agent \in DOMAIN agent
    <3>1. Referenced(b.kind, b.id) BY <2>1, <2>3 DEF Referenced
    <3> QED BY <1>2, <2>1, <2>3, <3>1 DEF Dangling
  <2> QED BY <2>2, <2>3
<1> QED BY <1>1, <1>2, NothingLoosened

LEMMA ServerStepEffect ==
    ASSUME NEW w \in Workers, DOMAIN req = Workers, ServerStep(w)
    PROVE  \A s \in DOMAIN server :
              s \in DOMAIN server' \/ (Answers(w, "delete_server") /\ s = req[w].id)
<1>1. CASE \E c \in Configs : CreateServer(w, c) BY <1>1 DEF CreateServer, Put
<1>2. CASE \E s \in Ids, c \in Configs : BeginUpdateServer(w, s, c)
  <2>1. server' = server BY <1>2, Zenon DEF BeginUpdateServer
  <2> QED BY <2>1
<1>3. CASE UpdateServer(w) BY <1>3 DEF UpdateServer
<1>4. CASE \E s \in Ids : BeginDeleteServer(w, s)
  <2>1. server' = server BY <1>4, Zenon DEF BeginDeleteServer
  <2> QED BY <2>1
<1>5. CASE DeleteServer(w)
  <2>1. Answers(w, "delete_server") BY <1>5, Answered DEF DeleteServer
  <2>2. Dropped(server', server, {req[w].id}) BY <1>5, DropRows DEF DeleteServer
  <2> QED BY <2>1, <2>2 DEF Dropped
<1> QED BY <1>1, <1>2, <1>3, <1>4, <1>5, Zenon DEF ServerStep

LEMMA SkillStepEffect ==
    ASSUME NEW w \in Workers, DOMAIN req = Workers, SkillStep(w)
    PROVE  \/ Serving(w, "refresh") /\ skill' # skill
           \/ \A i \in DOMAIN skill :
                 i \in DOMAIN skill' \/ (Answers(w, "delete_skill_row") /\ i \in req[w].rows)
<1>1. CASE skill' = skill BY <1>1
<1>2. CASE ListSkills(w) \/ FindSkill(w)
  <2>1. skill' = skill \/ \E dirs, nth : skill' = AddRows(skill, dirs, nth)
    BY <1>2, Zenon DEF ListSkills, FindSkill
  <2> QED BY <2>1 DEF AddRows
<1>3. CASE \E i \in Ids : RefreshRow(w, i) BY <1>3 DEF RefreshRow
<1>4. CASE SetSkillEnabled(w) BY <1>4 DEF SetSkillEnabled
<1>5. CASE DeleteSkillRow(w)
  <2>1. Answers(w, "delete_skill_row") BY <1>5, Answered DEF DeleteSkillRow
  <2>2. Dropped(skill', skill, req[w].rows) BY <1>5, DropRows DEF DeleteSkillRow
  <2> QED BY <2>1, <2>2 DEF Dropped
<1>6. ASSUME \/ BeginListSkills(w) \/ BeginRefresh(w) \/ RefreshLists(w) \/ RemoveSkillDir(w)
             \/ \E d \in Dirs : \/ ImportSkill(w, d) \/ BeginDeleteSkill(w, d)
                                \/ \E f \in BOOLEAN : BeginSetSkillEnabled(w, d, f)
      PROVE  skill' = skill
  BY <1>6, Zenon DEF BeginListSkills, BeginRefresh, RefreshLists, RemoveSkillDir, ImportSkill,
                     BeginDeleteSkill, BeginSetSkillEnabled
<1> QED BY <1>1, <1>2, <1>3, <1>4, <1>5, <1>6, Zenon DEF SkillStep

-----------------------------------------------------------------------------
(* The defaults and the references                                          *)

\* What ExactlyOneDefault says of a step.
DefaultsKept ==
    /\ UniqueDefault(model') /\ UniqueDefault(agent')
    /\ Headless(model)' => Headless(model) \/ \E w \in Workers :
          /\ "model" \in met[w]
          /\ \E op \in {"create_model", "set_default_model", "delete_model"} : Answers(w, op)
    /\ Headless(agent)' => Headless(agent) \/ \E w \in Workers :
          /\ "agent" \in met[w]
          /\ \E op \in {"save_agent", "set_default_agent", "delete_agent"} : Answers(w, op)

\* What ReferencesResolve says of a step.
ReferencesKept ==
    \/ Loose' \subseteq Loose
    \/ \E w \in Workers :
          \/ Answers(w, "save_agent") /\ met[w] # {}
          \/ /\ "agent" \in met[w]
             /\ \E op \in {"delete_model", "delete_server", "delete_skill_row"} : Answers(w, op)
          \/ Serving(w, "refresh") /\ skill' # skill

Outcome == Consistent' /\ DefaultsKept /\ ReferencesKept

\* A worker moves on and everybody stays current.
LEMMA AllCurrent ==
    ASSUME Consistent, Watch, NEW w \in Workers, NEW ops, Moved(w, ops)
    PROVE  \A v \in Workers : Current(v)'
<1>1. ASSUME NEW v \in Workers PROVE Current(v)'
  <2>1. Current(v) BY DEF Consistent
  <2>2. req'[v] = req[v] \/ Current(v)' BY DEF Moved
  <2> QED BY <2>1, <2>2, GoesOn
<1> QED BY <1>1

LEMMA TablesAlike ==
    ASSUME Consistent, UNCHANGED <<model, agent>>
    PROVE  /\ Flagged(model', {"default"}) /\ Flagged(agent', {"model", "default"})
           /\ DefaultsKept
BY Zenon DEF Consistent, Tables, Flagged, DefaultsKept

\* The steps of the four pages.
LEMMA ModelPage ==
    ASSUME Consistent, Watch, scene' = scene, NEW w \in Workers, ModelStep(w),
           UNCHANGED <<agent, binding, server, skill>>
    PROVE  Outcome
<1>1. Tables /\ DOMAIN req = Workers BY DEF Consistent, Tables
<1>2. Moved(w, ModelOps) BY <1>1, ModelMoves
<1>3. /\ ModelsAfter(w)
      /\ \A m \in DOMAIN model :
            m \in DOMAIN model' \/ (Answers(w, "delete_model") /\ m = req[w].id)
  BY ModelStepEffect
<1>4. Flagged(model', {"default"}) BY <1>3 DEF ModelsAfter, FlagsAfter
<1>5. Flagged(agent', {"model", "default"}) /\ agent' = agent BY <1>1, Zenon DEF Tables
<1>6. Consistent'
  <2>1. DOMAIN req' = Workers /\ scene' \in Scenes BY <1>1, <1>2 DEF Moved, Tables
  <2>2. \A v \in Workers : Current(v)' BY <1>2, AllCurrent
  <2> QED BY <1>4, <1>5, <2>1, <2>2, Zenon DEF Consistent, Tables
<1>7. DefaultsKept
  <2>1. UniqueDefault(model') /\ UniqueDefault(agent') BY <1>4, <1>5 DEF Flagged
  <2>2. Headless(model') => Headless(model) \/ ("model" \in met[w] /\ \E op \in ModelOps : Answers(w, op))
    BY <1>3 DEF ModelsAfter, FlagsAfter
  <2> QED BY <1>5, <2>1, <2>2, Zenon DEF DefaultsKept, ModelOps
<1>8. ReferencesKept
  <2>1. CASE Answers(w, "delete_model") /\ "agent" \in met[w] BY <2>1 DEF ReferencesKept
  <2>2. CASE ~ (Answers(w, "delete_model") /\ "agent" \in met[w])
    <3>1. ASSUME Answers(w, "delete_model") PROVE ~ Referenced("model", req[w].id)
      BY <2>2, <3>1 DEF Consistent, Current, AgentRead, Answers
    <3>2. Loose' \subseteq Loose BY <1>3, <3>1, ResourcesGo
    <3> QED BY <3>2 DEF ReferencesKept
  <2> QED BY <2>1, <2>2
<1> QED BY <1>6, <1>7, <1>8 DEF Outcome

LEMMA AgentPage ==
    ASSUME Consistent, Watch, scene' = scene, NEW w \in Workers, AgentStep(w),
           UNCHANGED <<model, server, skill>>
    PROVE  Outcome
<1>1. Tables /\ DOMAIN req = Workers BY DEF Consistent, Tables
<1>2. Moved(w, AgentOps) BY <1>1, AgentMoves
<1>3. /\ AgentsAfter(w)
      /\ Loose' \subseteq Loose \/ (Answers(w, "save_agent") /\ met[w] # {})
  BY AgentStepEffect
<1>4. Flagged(agent', {"model", "default"}) BY <1>3 DEF AgentsAfter, FlagsAfter
<1>5. Flagged(model', {"default"}) /\ model' = model BY <1>1, Zenon DEF Tables
<1>6. Consistent'
  <2>1. DOMAIN req' = Workers /\ scene' \in Scenes BY <1>1, <1>2 DEF Moved, Tables
  <2>2. \A v \in Workers : Current(v)' BY <1>2, AllCurrent
  <2> QED BY <1>4, <1>5, <2>1, <2>2, Zenon DEF Consistent, Tables
<1>7. DefaultsKept
  <2>1. UniqueDefault(model') /\ UniqueDefault(agent') BY <1>4, <1>5 DEF Flagged
  <2>2. Headless(agent') => Headless(agent) \/ ("agent" \in met[w] /\ \E op \in AgentOps : Answers(w, op))
    BY <1>3 DEF AgentsAfter, FlagsAfter
  <2> QED BY <1>5, <2>1, <2>2, Zenon DEF DefaultsKept, AgentOps
<1>8. ReferencesKept BY <1>3, Zenon DEF ReferencesKept
<1> QED BY <1>6, <1>7, <1>8 DEF Outcome

LEMMA ResourcePages ==
    ASSUME Consistent, Watch, scene' = scene, NEW w \in Workers,
           UNCHANGED <<agent, binding, model>>,
           \/ ServerStep(w) /\ UNCHANGED <<dir, skill>>
           \/ SkillStep(w) /\ UNCHANGED <<server, test>>
    PROVE  Outcome
<1>1. Tables /\ DOMAIN req = Workers BY DEF Consistent, Tables
<1>2. PICK ops : Moved(w, ops) BY <1>1, ServerMoves, SkillMoves DEF Consistent
<1>3. /\ Flagged(model', {"default"}) /\ Flagged(agent', {"model", "default"})
      /\ DefaultsKept
  BY TablesAlike
<1>4. Consistent'
  <2>1. DOMAIN req' = Workers /\ scene' \in Scenes BY <1>1, <1>2 DEF Moved, Tables
  <2>2. \A v \in Workers : Current(v)' BY <1>2, AllCurrent
  <2> QED BY <1>3, <2>1, <2>2, Zenon DEF Consistent, Tables
<1>5. ReferencesKept
  <2>1. CASE Serving(w, "refresh") /\ skill' # skill BY <2>1 DEF ReferencesKept
  <2>2. CASE "agent" \in met[w] /\ \E op \in {"delete_server", "delete_skill_row"} : Answers(w, op)
    BY <2>2 DEF ReferencesKept
  <2>3. ASSUME ~ (Serving(w, "refresh") /\ skill' # skill),
               ~ ("agent" \in met[w]
                    /\ \E op \in {"delete_server", "delete_skill_row"} : Answers(w, op))
        PROVE  ReferencesKept
    <3>1. ASSUME NEW s \in DOMAIN server PROVE s \in DOMAIN server' \/ ~ Referenced("mcp", s)
      <4>1. s \in DOMAIN server' \/ (Answers(w, "delete_server") /\ s = req[w].id)
        BY <1>1, ServerStepEffect
      <4>2. Answers(w, "delete_server") => ~ Referenced("mcp", req[w].id)
        BY <2>3 DEF Consistent, Current, AgentRead, Answers
      <4> QED BY <4>1, <4>2
    <3>2. ASSUME NEW i \in DOMAIN skill PROVE i \in DOMAIN skill' \/ ~ Referenced("skill", i)
      <4>1. i \in DOMAIN skill' \/ (Answers(w, "delete_skill_row") /\ i \in req[w].rows)
        BY <1>1, <2>3, SkillStepEffect
      <4>2. Answers(w, "delete_skill_row") => \A j \in req[w].rows : ~ Referenced("skill", j)
        BY <2>3 DEF Consistent, Current, AgentRead, Answers
      <4> QED BY <4>1, <4>2
    <3>3. Loose' \subseteq Loose BY <3>1, <3>2, ResourcesGo
    <3> QED BY <3>3 DEF ReferencesKept
  <2> QED BY <2>1, <2>2, <2>3
<1> QED BY <1>3, <1>4, <1>5 DEF Outcome

\* Tests, the disk and a restart.
LEMMA InTheBackground ==
    ASSUME Consistent, Watch, scene' = scene, UNCHANGED <<agent, binding, model, skill>>,
           DOMAIN server' = DOMAIN server, DOMAIN req' = Workers,
           \A v \in Workers : req'[v] = req[v] \/ req'[v] = NoReq
    PROVE  Outcome
<1>1. ASSUME NEW v \in Workers PROVE Current(v)'
  BY GoesOn, PlainRequest DEF Consistent
<1>2. /\ Flagged(model', {"default"}) /\ Flagged(agent', {"model", "default"})
      /\ DefaultsKept
  BY TablesAlike
<1>3. Consistent' BY <1>1, <1>2, Zenon DEF Consistent, Tables
<1>4. Loose' \subseteq Loose BY ResourcesGo
<1> QED BY <1>2, <1>3, <1>4 DEF Outcome, ReferencesKept

LEMMA EveryStep == ASSUME Consistent, Next PROVE Outcome
<1>1. Watch /\ scene' = scene /\ DOMAIN req = Workers BY DEF Next, Consistent, Tables
<1>2. ASSUME NEW w \in Workers, AgentStep(w), UNCHANGED <<model, servers, skills>> PROVE Outcome
  BY <1>1, <1>2, AgentPage DEF servers, skills
<1>3. ASSUME NEW w \in Workers, ModelStep(w), UNCHANGED <<agents, servers, skills>> PROVE Outcome
  BY <1>1, <1>3, ModelPage DEF agents, servers, skills
<1>4. ASSUME NEW w \in Workers, ServerStep(w), UNCHANGED <<agents, model, skills>> PROVE Outcome
  BY <1>1, <1>4, ResourcePages DEF agents, skills
<1>5. ASSUME NEW w \in Workers, SkillStep(w), UNCHANGED <<agents, model, servers>> PROVE Outcome
  BY <1>1, <1>5, ResourcePages DEF agents, servers
<1>6. ASSUME TestStep, UNCHANGED <<agents, model, skills>> PROVE Outcome
  <2>1. req' = req /\ DOMAIN server' = DOMAIN server
    BY <1>6 DEF TestStep, BeginTest, LeaveLock, StoreVerdict
  <2> QED BY <1>1, <1>6, <2>1, InTheBackground DEF agents, skills
<1>7. ASSUME DiskStep, UNCHANGED <<agents, model, servers>> PROVE Outcome
  <2>1. req' = req /\ skill' = skill BY <1>7 DEF DiskStep, WriteSkillFile
  <2> QED BY <1>1, <1>7, <2>1, InTheBackground DEF agents, servers
<1>8. ASSUME Restart PROVE Outcome
  <2>1. /\ DOMAIN req' = Workers /\ \A v \in Workers : req'[v] = NoReq
        /\ UNCHANGED <<agent, binding, model, server, skill>>
    BY <1>8 DEF Restart, agents, skills
  <2> QED BY <1>1, <2>1, InTheBackground
<1> QED BY <1>2, <1>3, <1>4, <1>5, <1>6, <1>7, <1>8, Zenon DEF Next, Step

LEMMA ConsistentAtStart == ASSUME Init PROVE Consistent
<1>1. DOMAIN << >> = {} /\ << >> = [i \in DOMAIN << >> |-> << >>[i]] OBVIOUS
<1>2. \A F : Table(<< >>, F) BY <1>1 DEF Table
<1>3. OneDefault(<< >>) BY <1>1 DEF OneDefault
<1>4. \A F : Flagged(<< >>, F) BY <1>2, <1>3, TableWithHead
<1>5. Tables BY <1>4 DEF Init, Tables
<1>6. ASSUME NEW w \in Workers PROVE Current(w)
  <2>1. req[w] = NoReq BY DEF Init
  <2>2. ASSUME NEW op PROVE ~ Serving(w, op) BY <2>1 DEF Serving
  <2> QED BY <2>2 DEF Current, FlagsOfRequest, ModelRead, AgentRead, ResourcesRead
<1> QED BY <1>5, <1>6 DEF Consistent

LEMMA ConsistentStep == ASSUME Consistent, [Next]_vars PROVE Consistent'
<1>1. CASE Next BY <1>1, EveryStep DEF Outcome
<1>2. CASE UNCHANGED vars
  <2>1. UNCHANGED <<agent, binding, req, model, server, skill, scene, met>>
    BY <1>2 DEF vars, pages
  <2>2. ASSUME NEW kind, NEW id PROVE Referenced(kind, id)' <=> Referenced(kind, id)
    BY <2>1, SameBindings
  <2>3. ASSUME NEW w \in Workers PROVE Current(w)'
    <3>1. ASSUME NEW op PROVE Serving(w, op)' <=> Serving(w, op) BY <2>1 DEF Serving
    <3>2. Current(w) BY DEF Consistent
    <3> QED BY <2>1, <2>2, <3>1, <3>2
        DEF Current, FlagsOfRequest, ModelRead, AgentRead, ResourcesRead
  <2>4. Tables' BY <2>1, Zenon DEF Consistent, Tables
  <2> QED BY <2>3, <2>4 DEF Consistent
<1> QED BY <1>1, <1>2

\* However requests overlap: there are never two default models or agents, and
\* a table loses its default only by a request that met a write to that table.
THEOREM DefaultIsUnique == Spec => ExactlyOneDefault
<1>1. Init => Consistent BY ConsistentAtStart
<1>2. Consistent /\ [Next]_vars => Consistent' BY ConsistentStep
<1>3. Consistent /\ [Next]_vars => [DefaultsKept]_vars BY EveryStep DEF Outcome
<1> QED BY <1>1, <1>2, <1>3, PTL DEF Spec, ExactlyOneDefault, DefaultsKept

\* However requests overlap: a reference of an agent or a binding is cut loose
\* only by a request that met a write to what it had checked, or by a refresh.
THEOREM AgentsRefer == Spec => ReferencesResolve
<1>1. Init => Consistent BY ConsistentAtStart
<1>2. Consistent /\ [Next]_vars => Consistent' BY ConsistentStep
<1>3. Consistent /\ [Next]_vars => [ReferencesKept]_vars BY EveryStep DEF Outcome
<1> QED BY <1>1, <1>2, <1>3, PTL DEF Spec, ReferencesResolve, ReferencesKept

-----------------------------------------------------------------------------
(* Servers and their tests                                                  *)

\* What VerdictIsCurrent says of a step.
VerdictsKept ==
    \A s \in Ids : Misleading(s)' =>
        \/ Misleading(s)
        \/ \E w \in Workers :
              Answers(w, "update_server") /\ req[w].id = s /\ "test" \in met[w]
        \/ test[s] # NoTest /\ test'[s] = NoTest /\ s \in disturbed

ServerFields == {"config", "status", "tested"}

\* An undisturbed test: Watch notices who touches the server.
LEMMA TestWatched ==
    ASSUME Tests, Watch, NEW s \in Ids,
           test[s] # NoTest /\ test'[s] # NoTest => test'[s].read = test[s].read,
           test[s] = NoTest /\ test'[s] # NoTest =>
              s \in DOMAIN server /\ server' = server /\ test'[s].read.config = server[s].config
    PROVE  TestIsOfTheServer(s)'
<1>1. SUFFICES ASSUME test'[s] # NoTest, s \notin disturbed'
               PROVE  s \in DOMAIN server' /\ server'[s].config = test'[s].read.config
  BY DEF TestIsOfTheServer
<1>2. CASE test[s] = NoTest BY <1>1, <1>2
<1>3. CASE test[s] # NoTest
  <2>1. s \notin disturbed /\ SameServer(s) BY <1>1, <1>3 DEF Watch
  <2>2. s \in DOMAIN server /\ server[s].config = test[s].read.config
    BY <1>3, <2>1 DEF Tests, TestIsOfTheServer
  <2>3. s \in DOMAIN server' /\ server'[s] = server[s] BY <2>1, <2>2, Zenon DEF SameServer
  <2> QED BY <1>1, <1>3, <2>2, <2>3
<1> QED BY <1>2, <1>3

\* An edit that meets no test: Watch notices every test of its server.
LEMMA EditWatched ==
    ASSUME Tests, Watch, NEW v \in Workers,
           \/ /\ req'[v] = req[v]
              /\ \A i \in DOMAIN server' :
                    \/ i \in DOMAIN server /\ server'[i].status = server[i].status
                    \/ server'[i].status \notin Verdicts
                    \/ test[i] # NoTest
           \/ ~ Serving(v, "update_server")'
           \/ req'[v].seen.status = server[req'[v].id].status /\ server' = server
    PROVE  NoVerdictToKeep(v)'
<1>1. SUFFICES ASSUME Serving(v, "update_server")', "test" \notin met'[v]
               PROVE  /\ test'[req'[v].id] = NoTest
                      /\ req'[v].id \in DOMAIN server' /\ req'[v].seen.status \notin Verdicts
                            => server'[req'[v].id].status \notin Verdicts
  BY DEF NoVerdictToKeep
<1>2. req'[v] # NoReq BY <1>1 DEF Serving
<1>3. "test" \notin UnderTest(v)' BY <1>1, <1>2 DEF Watch
<1>4. test'[req'[v].id] = NoTest BY <1>1, <1>3 DEF UnderTest
<1>5. CASE req'[v] = req[v] /\ \A i \in DOMAIN server' :
                    \/ i \in DOMAIN server /\ server'[i].status = server[i].status
                    \/ server'[i].status \notin Verdicts
                    \/ test[i] # NoTest
  <2>1. "test" \notin met[v] BY <1>1, <1>2, <1>5, NotMet
  <2>2. Serving(v, "update_server") BY <1>1, <1>5 DEF Serving
  <2>3. NoVerdictToKeep(v) BY DEF Tests
  <2> QED BY <1>4, <1>5, <2>1, <2>2, <2>3 DEF NoVerdictToKeep
<1>6. CASE req'[v].seen.status = server[req'[v].id].status /\ server' = server
  BY <1>4, <1>6
<1> QED BY <1>1, <1>5, <1>6

Quiet == Tests' /\ VerdictsKept

\* The steps that write neither servers nor tests.
LEMMA TestsUnaffected ==
    ASSUME Tests, Watch, scene' = scene, UNCHANGED <<server, test>>, DOMAIN req' = Workers,
           \A v \in Workers : \/ req'[v] = req[v]
                              \/ ~ Serving(v, "update_server")'
                              \/ req'[v].seen.status = server[req'[v].id].status
    PROVE  Quiet
<1>1. \A s \in Ids : TestIsOfTheServer(s)' BY TestWatched
<1>2. \A v \in Workers : NoVerdictToKeep(v)' BY EditWatched
<1>3. Table(server', ServerFields) /\ DOMAIN test' = Ids /\ scene' \in Scenes
  BY Zenon DEF Tests, ServerFields
<1>4. VerdictsKept BY DEF VerdictsKept, Misleading
<1> QED BY <1>1, <1>2, <1>3, <1>4, Zenon DEF Tests, Quiet, ServerFields

LEMMA QuietFrom ==
    ASSUME Tests, Table(server', ServerFields), DOMAIN test' = Ids, DOMAIN req' = Workers, scene' = scene,
           \A s \in Ids : TestIsOfTheServer(s)', \A v \in Workers : NoVerdictToKeep(v)', VerdictsKept
    PROVE  Quiet
BY Zenon DEF Tests, Quiet, ServerFields

LEMMA TestsAfterCreate ==
    ASSUME Tests, Watch, scene' = scene, NEW w \in Workers, NEW c \in Configs, CreateServer(w, c)
    PROVE  Quiet
<1> DEFINE F == ServerFields
<1>1. /\ Table(server, F) /\ DOMAIN req = Workers /\ DOMAIN test = Ids /\ scene \in Scenes
  BY DEF Tests, ServerFields
<1>2. PICK k, row, new : /\ k = NextId(server)
                         /\ row = [config |-> c, status |-> "untested", tested |-> c]
                         /\ new = Put(server, k, row)
  OBVIOUS
<1>3. server' = new /\ test' = test /\ req' = req /\ HasRoom(server, "server")
  BY <1>2, Zenon DEF CreateServer
<1>4. DOMAIN server \subseteq Ids BY <1>1 DEF Table
<1>5. k \in Nat \ {0} /\ \A i \in DOMAIN server : i < k BY <1>2, <1>4, NextIdIsNew
<1>6. k \in Ids
  <2>1. scene["server"] \in 0 .. MaxId /\ MaxId \in Nat
    BY <1>1, ReferencesAssumption DEF Activities, Pages
  <2>2. k <= scene["server"] BY <1>2, <1>3 DEF HasRoom
  <2> QED BY <1>5, <2>1, <2>2 DEF Ids
<1>7. k \notin DOMAIN server BY <1>5
<1>8. RowPut(new, server, k, row) BY <1>2, <1>7, PutRow
<1>9. /\ DOMAIN new = DOMAIN server \cup {k} /\ new[k] = row
      /\ \A i \in DOMAIN server : new[i] = server[i]
      /\ new = [i \in DOMAIN new |-> new[i]]
  BY <1>8 DEF RowPut
<1>10. DOMAIN row = F /\ row.status = "untested" BY <1>2 DEF ServerFields
<1>11. Table(new, F) BY <1>1, <1>4, <1>6, <1>9, <1>10 DEF Table
<1>12. "untested" \notin Verdicts BY DEF Verdicts
<1>13. \A s \in Ids : TestIsOfTheServer(s)' BY <1>3, TestWatched
<1>14. \A v \in Workers : NoVerdictToKeep(v)' BY <1>3, <1>9, <1>10, <1>12, EditWatched
<1>15. VerdictsKept BY <1>3, <1>9, <1>10, <1>12 DEF VerdictsKept, Misleading
<1>16. Table(server', F) BY <1>3, <1>11
<1> QED BY <1>1, <1>3, <1>13, <1>14, <1>15, <1>16, QuietFrom

\* A worker that has answered: nothing is served that was not.
LEMMA ServedBefore ==
    ASSUME NEW w \in Workers, DOMAIN req = Workers, Respond(w), NEW v \in Workers
    PROVE  req'[v] = req[v] \/ ~ \E op : Serving(v, op)'
BY DEF Respond, Serving

LEMMA TestsAfterUpdate ==
    ASSUME Tests, Watch, scene' = scene, NEW w \in Workers, UpdateServer(w)
    PROVE  Quiet
<1> DEFINE F == ServerFields
<1>1. Table(server, F) /\ DOMAIN req = Workers /\ DOMAIN test = Ids BY DEF Tests, ServerFields
<1>2. PICK r, s : r = req[w] /\ s = r.id OBVIOUS
<1>3. Serving(w, "update_server") /\ test' = test /\ Respond(w) BY DEF UpdateServer
<1>4. DOMAIN req' = Workers BY <1>1, <1>3 DEF Respond
<1>5. \A v \in Workers : req'[v] = req[v] \/ ~ Serving(v, "update_server")'
  BY <1>1, <1>3, ServedBefore
<1>6. CASE s \in DOMAIN server /\ r.config # r.seen.config
  <2>1. PICK old, status, new :
           /\ old = server[s]
           /\ status = IF r.seen.status \in Verdicts THEN "config_changed" ELSE old.status
           /\ new = [old EXCEPT !.config = r.config, !.status = status]
    OBVIOUS
  <2>2. DOMAIN old = F BY <1>1, <1>6, <2>1 DEF Table
  <2>3. DOMAIN new = F /\ new.status = status BY <2>1, <2>2 DEF ServerFields
  <2>4. server' = [server EXCEPT ![s].config = r.config,
                                 ![s].status = IF r.seen.status \in Verdicts
                                               THEN "config_changed" ELSE @]
    BY <1>2, <1>6 DEF UpdateServer
  <2>5. server' = [server EXCEPT ![s] = new]
    BY <1>6, <2>1, <2>4
  <2>6. /\ DOMAIN server' = DOMAIN server /\ server'[s] = new
        /\ \A i \in DOMAIN server \ {s} : server'[i] = server[i]
        /\ server' = [i \in DOMAIN server' |-> server'[i]]
    BY <1>6, <2>5
  <2>7. Table(server', F) BY <1>1, <2>3, <2>6 DEF Table
  <2>8. "config_changed" \notin Verdicts BY DEF Verdicts
  <2>9. status = old.status \/ status \notin Verdicts BY <2>1, <2>8
  <2>10. \A i \in DOMAIN server' :
            i \in DOMAIN server /\ (server'[i].status = server[i].status \/ server'[i].status \notin Verdicts)
    BY <2>1, <2>3, <2>6, <2>9
  <2>11. \A t \in Ids : TestIsOfTheServer(t)' BY <1>3, TestWatched
  <2>12. \A v \in Workers : NoVerdictToKeep(v)' BY <1>5, <2>10, EditWatched
  <2>13. VerdictsKept
    <3>1. CASE "test" \in met[w]
      <4>1. Answers(w, "update_server") BY <1>1, <1>3, Answered
      <4> QED BY <1>2, <2>6, <3>1, <4>1 DEF VerdictsKept, Misleading
    <3>2. CASE "test" \notin met[w]
      <4>1. r.seen.status \notin Verdicts => old.status \notin Verdicts
        BY <1>2, <1>3, <1>6, <2>1, <3>2 DEF Tests, NoVerdictToKeep
      <4>2. new.status \notin Verdicts BY <2>1, <2>3, <2>8, <4>1
      <4> QED BY <2>6, <4>2 DEF VerdictsKept, Misleading
    <3> QED BY <3>1, <3>2
  <2> QED BY <1>1, <1>3, <1>4, <2>7, <2>11, <2>12, <2>13, QuietFrom
<1>7. CASE s \notin DOMAIN server \/ r.config = r.seen.config
  <2>1. server' = server BY <1>2, <1>7 DEF UpdateServer
  <2> QED BY <1>3, <1>4, <1>5, <2>1, TestsUnaffected
<1> QED BY <1>6, <1>7

LEMMA TestsAfterDelete ==
    ASSUME Tests, Watch, scene' = scene, NEW w \in Workers, DeleteServer(w)
    PROVE  Quiet
<1> DEFINE F == ServerFields
<1>1. Table(server, F) /\ DOMAIN req = Workers /\ DOMAIN test = Ids BY DEF Tests, ServerFields
<1>2. PICK s : s = req[w].id OBVIOUS
<1>3. test' = test /\ Respond(w) BY DEF DeleteServer
<1>4. DOMAIN req' = Workers BY <1>1, <1>3 DEF Respond
<1>5. Dropped(server', server, {s}) BY <1>2, DropRows DEF DeleteServer
<1>6. /\ DOMAIN server' = DOMAIN server \ {s}
      /\ \A i \in DOMAIN server' : server'[i] = server[i]
      /\ server' = [i \in DOMAIN server' |-> server'[i]]
  BY <1>5 DEF Dropped
<1>7. Table(server', F) BY <1>1, <1>6 DEF Table
<1>8. \A v \in Workers : req'[v] = req[v] \/ ~ Serving(v, "update_server")'
  BY <1>1, <1>3, ServedBefore
<1>9. \A t \in Ids : TestIsOfTheServer(t)' BY <1>3, TestWatched
<1>10. \A v \in Workers : NoVerdictToKeep(v)' BY <1>6, <1>8, EditWatched
<1>11. VerdictsKept BY <1>6 DEF VerdictsKept, Misleading
<1> QED BY <1>1, <1>3, <1>4, <1>7, <1>9, <1>10, <1>11, QuietFrom

\* Looking at a server, to edit it or to delete it.
LEMMA TestsAfterLook ==
    ASSUME Tests, Watch, scene' = scene, NEW w \in Workers,
           \/ \E s \in Ids, c \in Configs : BeginUpdateServer(w, s, c)
           \/ \E s \in Ids : BeginDeleteServer(w, s)
    PROVE  Quiet
<1>1. DOMAIN req = Workers BY DEF Tests
<1>2. ASSUME NEW r, Begin(w, r), UNCHANGED <<server, test>>,
             r.op # "update_server" \/ r.seen.status = server[r.id].status
      PROVE  Quiet
  <2>1. /\ DOMAIN req' = Workers /\ req'[w] = r
        /\ \A v \in Workers \ {w} : req'[v] = req[v]
    BY <1>1, <1>2 DEF Begin
  <2> QED BY <1>2, <2>1, TestsUnaffected DEF Serving
<1>3. ASSUME NEW s \in Ids, NEW c \in Configs, BeginUpdateServer(w, s, c) PROVE Quiet
  <2>1. PICK read : read = Read(s) OBVIOUS
  <2>2. PICK r : r = [op |-> "update_server", id |-> s, config |-> c, seen |-> read] OBVIOUS
  <2>3. r.id = s /\ r.seen = read /\ read.status = server[s].status BY <2>1, <2>2 DEF Read
  <2>4. Begin(w, r) /\ UNCHANGED <<server, test>>
    BY <1>3, <2>1, <2>2, Zenon DEF BeginUpdateServer
  <2> QED BY <1>2, <2>3, <2>4
<1>4. ASSUME NEW s \in Ids, BeginDeleteServer(w, s) PROVE Quiet
  <2>1. PICK r : r = [op |-> "delete_server", id |-> s] OBVIOUS
  <2>2. r.op # "update_server" BY <2>1
  <2>3. Begin(w, r) /\ UNCHANGED <<server, test>> BY <1>4, <2>1, Zenon DEF BeginDeleteServer
  <2> QED BY <1>2, <2>2, <2>3
<1> QED BY <1>3, <1>4

LEMMA TestsAfterBeginTest ==
    ASSUME Tests, Watch, scene' = scene, NEW s \in Ids, BeginTest(s)
    PROVE  Quiet
<1>1. DOMAIN req = Workers /\ DOMAIN test = Ids /\ Table(server, ServerFields)
  BY DEF Tests, ServerFields
<1>2. PICK read, new : read = Read(s) /\ new = [read |-> read, verdict |-> Pending] OBVIOUS
<1>3. new.read = read /\ read.config = server[s].config BY <1>2 DEF Read
<1>4. /\ s \in DOMAIN server /\ test[s] = NoTest /\ server' = server /\ req' = req
      /\ test' = [test EXCEPT ![s] = new]
  BY <1>2, Zenon DEF BeginTest
<1>5. DOMAIN test' = Ids /\ test'[s] = new /\ \A t \in Ids \ {s} : test'[t] = test[t]
  BY <1>1, <1>4
<1>6. \A t \in Ids : TestIsOfTheServer(t)' BY <1>3, <1>4, <1>5, TestWatched
<1>7. \A v \in Workers : NoVerdictToKeep(v)' BY <1>4, EditWatched
<1>8. VerdictsKept BY <1>4 DEF VerdictsKept, Misleading
<1> QED BY <1>1, <1>4, <1>5, <1>6, <1>7, <1>8, QuietFrom

LEMMA TestsAfterLeaveLock ==
    ASSUME Tests, Watch, scene' = scene, NEW s \in Ids, NEW verdict, LeaveLock(s, verdict)
    PROVE  Quiet
<1>1. DOMAIN req = Workers /\ DOMAIN test = Ids /\ Table(server, ServerFields)
  BY DEF Tests, ServerFields
<1>2. PICK old, new : old = test[s] /\ new = [read |-> old.read, verdict |-> verdict] OBVIOUS
<1>3. old # NoTest /\ server' = server /\ req' = req BY <1>2 DEF LeaveLock, Testing
<1>4. test' = [test EXCEPT ![s] = new]
  <2>1. test' = [test EXCEPT ![s] = [read |-> @.read, verdict |-> verdict]]
    BY Zenon DEF LeaveLock
  <2> QED BY <1>2, <2>1
<1>5. DOMAIN test' = Ids /\ test'[s] = new /\ \A t \in Ids \ {s} : test'[t] = test[t]
  BY <1>1, <1>4
<1>6. new.read = old.read BY <1>2
<1>7. \A t \in Ids : TestIsOfTheServer(t)' BY <1>2, <1>3, <1>5, <1>6, TestWatched
<1>8. \A v \in Workers : NoVerdictToKeep(v)' BY <1>3, EditWatched
<1>9. VerdictsKept BY <1>3 DEF VerdictsKept, Misleading
<1> QED BY <1>1, <1>3, <1>5, <1>7, <1>8, <1>9, QuietFrom

LEMMA TestsAfterStore ==
    ASSUME Tests, Watch, scene' = scene, NEW s \in Ids, StoreVerdict(s)
    PROVE  Quiet
<1> DEFINE F == ServerFields
<1>1. DOMAIN req = Workers /\ DOMAIN test = Ids /\ Table(server, F) BY DEF Tests, ServerFields
<1>2. test[s] # NoTest /\ req' = req /\ test' = [test EXCEPT ![s] = NoTest] BY DEF StoreVerdict
<1>3. DOMAIN test' = Ids /\ test'[s] = NoTest /\ \A t \in Ids \ {s} : test'[t] = test[t]
  BY <1>1, <1>2
<1>4. \A t \in Ids : TestIsOfTheServer(t)' BY <1>3, TestWatched
<1>5. CASE s \notin DOMAIN server
  <2>1. server' = server BY <1>5 DEF StoreVerdict
  <2>2. \A v \in Workers : NoVerdictToKeep(v)' BY <1>2, <2>1, EditWatched
  <2>3. VerdictsKept BY <2>1 DEF VerdictsKept, Misleading
  <2> QED BY <1>1, <1>2, <1>3, <1>4, <2>1, <2>2, <2>3, QuietFrom
<1>6. CASE s \in DOMAIN server
  <2>1. PICK result, old, status, new :
           /\ result = test[s] /\ old = server[s]
           /\ status = IF result.verdict = result.read.status THEN old.status ELSE result.verdict
           /\ new = [old EXCEPT !.tested = result.read.config, !.status = status]
    OBVIOUS
  <2>2. DOMAIN old = F BY <1>1, <1>6, <2>1 DEF Table
  <2>3. DOMAIN new = F /\ new.config = old.config /\ new.tested = result.read.config
    BY <2>1, <2>2 DEF ServerFields
  <2>4. server' = [server EXCEPT ![s].tested = result.read.config,
                                 ![s].status = IF result.verdict = result.read.status
                                               THEN @ ELSE result.verdict]
    BY <1>6, <2>1 DEF StoreVerdict
  <2>5. server' = [server EXCEPT ![s] = new] BY <1>6, <2>1, <2>4
  <2>6. /\ DOMAIN server' = DOMAIN server /\ server'[s] = new
        /\ \A i \in DOMAIN server \ {s} : server'[i] = server[i]
        /\ server' = [i \in DOMAIN server' |-> server'[i]]
    BY <1>6, <2>5
  <2>7. Table(server', F) BY <1>1, <2>3, <2>6 DEF Table
  <2>8. \A v \in Workers : NoVerdictToKeep(v)' BY <1>2, <2>6, EditWatched
  <2>9. VerdictsKept
    <3>1. s \notin disturbed => server[s].config = result.read.config
      BY <1>2, <2>1 DEF Tests, TestIsOfTheServer
    <3>2. s \notin disturbed => ~ Misleading(s)'
      BY <2>1, <2>3, <2>6, <3>1 DEF Misleading
    <3>3. \A t \in Ids : t # s /\ Misleading(t)' => Misleading(t) BY <2>6 DEF Misleading
    <3> QED BY <1>2, <1>3, <3>2, <3>3 DEF VerdictsKept
  <2> QED BY <1>1, <1>2, <1>3, <1>4, <2>7, <2>8, <2>9, QuietFrom
<1> QED BY <1>5, <1>6


\* The other pages: none of their requests edits a server.
LEMMA TestsAndOtherPages ==
    ASSUME Tests, Watch, scene' = scene, UNCHANGED <<server, test>>, NEW w \in Workers,
           Moved(w, ModelOps \cup AgentOps \cup SkillOps)
    PROVE  Quiet
<1>1. DOMAIN req' = Workers BY DEF Moved
<1>2. ASSUME NEW v \in Workers PROVE req'[v] = req[v] \/ ~ Serving(v, "update_server")'
  BY DEF Moved, Serving, ModelOps, AgentOps, SkillOps
<1> QED BY <1>1, <1>2, TestsUnaffected

LEMMA MoreOps ==
    ASSUME NEW w, NEW some, NEW ops, some \subseteq ops, Moved(w, some)
    PROVE  Moved(w, ops)
BY DEF Moved

LEMMA TestsOnServerPage ==
    ASSUME Tests, Watch, scene' = scene, NEW w \in Workers, ServerStep(w)
    PROVE  Quiet
<1>1. CASE \E c \in Configs : CreateServer(w, c) BY <1>1, TestsAfterCreate
<1>2. CASE \E s \in Ids, c \in Configs : BeginUpdateServer(w, s, c) BY <1>2, TestsAfterLook
<1>3. CASE UpdateServer(w) BY <1>3, TestsAfterUpdate
<1>4. CASE \E s \in Ids : BeginDeleteServer(w, s) BY <1>4, TestsAfterLook
<1>5. CASE DeleteServer(w) BY <1>5, TestsAfterDelete
<1> QED BY <1>1, <1>2, <1>3, <1>4, <1>5, Zenon DEF ServerStep

LEMMA TestsInTheBackground ==
    ASSUME Tests, Watch, scene' = scene, TestStep
    PROVE  Quiet
<1>1. CASE \E s \in Ids : BeginTest(s) BY <1>1, TestsAfterBeginTest
<1>2. CASE \E s \in Ids : StoreVerdict(s) BY <1>2, TestsAfterStore
<1>3. CASE \E s \in Ids, v \in Verdicts : LeaveLock(s, v) BY <1>3, TestsAfterLeaveLock
<1> QED BY <1>1, <1>2, <1>3, Zenon DEF TestStep

LEMMA TestsAfterRestart ==
    ASSUME Tests, Watch, scene' = scene, Restart
    PROVE  Quiet
<1>1. /\ DOMAIN req' = Workers /\ DOMAIN test' = Ids /\ server' = server
      /\ \A v \in Workers : req'[v] = NoReq
      /\ \A s \in Ids : test'[s] = NoTest
  BY DEF Restart, servers
<1>2. ASSUME NEW s \in Ids PROVE TestIsOfTheServer(s)' BY <1>1 DEF TestIsOfTheServer
<1>3. ASSUME NEW v \in Workers PROVE NoVerdictToKeep(v)' BY <1>1 DEF NoVerdictToKeep, Serving
<1>4. VerdictsKept BY <1>1 DEF VerdictsKept, Misleading
<1>5. Table(server', ServerFields)
  <2>1. Table(server, ServerFields) BY DEF Tests, ServerFields
  <2> QED BY <1>1, <2>1
<1> QED BY <1>1, <1>2, <1>3, <1>4, <1>5, QuietFrom

LEMMA TestsEveryStep == ASSUME Consistent, Tests, Next PROVE Quiet
<1> DEFINE Ops == ModelOps \cup AgentOps \cup SkillOps
<1>1. /\ Watch /\ scene' = scene /\ DOMAIN req = Workers /\ Tables
      /\ \A w \in Workers : Current(w)
  BY DEF Next, Consistent, Tables
<1>2. ASSUME NEW w \in Workers, AgentStep(w), UNCHANGED <<model, servers, skills>> PROVE Quiet
  <2>1. UNCHANGED <<model, server, test, skill>> BY <1>2 DEF servers, skills
  <2>2. Moved(w, AgentOps) BY <1>1, <1>2, <2>1, AgentMoves
  <2> QED BY <1>1, <2>1, <2>2, MoreOps, TestsAndOtherPages
<1>3. ASSUME NEW w \in Workers, ModelStep(w), UNCHANGED <<agents, servers, skills>> PROVE Quiet
  <2>1. UNCHANGED <<agent, binding, server, test>> BY <1>3 DEF agents, servers
  <2>2. Moved(w, ModelOps) BY <1>1, <1>3, <2>1, ModelMoves
  <2> QED BY <1>1, <2>1, <2>2, MoreOps, TestsAndOtherPages
<1>4. ASSUME NEW w \in Workers, ServerStep(w) PROVE Quiet
  BY <1>1, <1>4, TestsOnServerPage
<1>5. ASSUME NEW w \in Workers, SkillStep(w), UNCHANGED <<agents, model, servers>> PROVE Quiet
  <2>1. UNCHANGED <<agent, binding, server, test>> BY <1>5 DEF agents, servers
  <2>2. Moved(w, SkillOps) BY <1>1, <1>5, <2>1, SkillMoves
  <2> QED BY <1>1, <2>1, <2>2, MoreOps, TestsAndOtherPages
<1>6. ASSUME TestStep PROVE Quiet BY <1>1, <1>6, TestsInTheBackground
<1>7. ASSUME DiskStep, UNCHANGED <<agents, model, servers>> PROVE Quiet
  <2>1. req' = req BY <1>7 DEF DiskStep, WriteSkillFile
  <2>2. UNCHANGED <<server, test>> BY <1>7 DEF servers
  <2> QED BY <1>1, <2>1, <2>2, TestsUnaffected
<1>8. ASSUME Restart PROVE Quiet BY <1>1, <1>8, TestsAfterRestart
<1> QED BY <1>2, <1>3, <1>4, <1>5, <1>6, <1>7, <1>8, Zenon DEF Next, Step

LEMMA TestsAtStart == ASSUME Init PROVE Tests
<1>1. DOMAIN << >> = {} /\ << >> = [i \in DOMAIN << >> |-> << >>[i]] OBVIOUS
<1>2. Table(server, ServerFields) BY <1>1 DEF Init, Table
<1>3. /\ DOMAIN test = Ids /\ \A s \in Ids : test[s] = NoTest
      /\ DOMAIN req = Workers /\ \A w \in Workers : req[w] = NoReq /\ scene \in Scenes
  BY DEF Init
<1>4. \A s \in Ids : TestIsOfTheServer(s) BY <1>3 DEF TestIsOfTheServer
<1>5. \A w \in Workers : NoVerdictToKeep(w) BY <1>3 DEF NoVerdictToKeep, Serving
<1>6. scene \in Scenes BY DEF Init
<1> QED BY <1>2, <1>3, <1>4, <1>5, <1>6 DEF Tests, ServerFields

LEMMA TestsStep == ASSUME Consistent, Tests, [Next]_vars PROVE Tests'
<1>1. CASE Next BY <1>1, TestsEveryStep DEF Quiet
<1>2. CASE UNCHANGED vars
  <2>1. UNCHANGED <<req, server, test, scene, met, disturbed>> BY <1>2 DEF vars, pages
  <2>2. \A s \in Ids : TestIsOfTheServer(s)' BY <2>1 DEF Tests, TestIsOfTheServer
  <2>3. ASSUME NEW w \in Workers PROVE NoVerdictToKeep(w)'
    <3>1. Serving(w, "update_server")' <=> Serving(w, "update_server") BY <2>1 DEF Serving
    <3> QED BY <2>1, <3>1 DEF Tests, NoVerdictToKeep
  <2> QED BY <2>1, <2>2, <2>3, Zenon DEF Tests
<1> QED BY <1>1, <1>2

\* However edits and tests overlap: the verdict shown becomes one on another
\* configuration only by an edit that met a test, or by the verdict of a test
\* whose server was edited or deleted meanwhile.
THEOREM VerdictsAreCurrent == Spec => VerdictIsCurrent
<1>1. Init => Consistent /\ Tests BY ConsistentAtStart, TestsAtStart
<1>2. Consistent /\ Tests /\ [Next]_vars => (Consistent /\ Tests)'
  BY ConsistentStep, TestsStep
<1>3. Consistent /\ Tests /\ [Next]_vars => [VerdictsKept]_vars BY TestsEveryStep DEF Quiet
<1> QED BY <1>1, <1>2, <1>3, PTL DEF Spec, VerdictIsCurrent, VerdictsKept

-----------------------------------------------------------------------------
(* The rows of the skills                                                   *)

LEMMA RowsAdded ==
    ASSUME scene \in Scenes, NEW rows, OneRow(rows), NEW dirs, dirs \subseteq Dirs, Fits(rows, dirs),
           WithoutRow(rows, dirs) = dirs, NEW nth \in Orders(dirs)
    PROVE  OneRow(AddRows(rows, dirs, nth))
<1> DEFINE F == {"dir", "enabled"}
<1>1. IsFiniteSet(dirs) BY SkillsAssumption, FS_Subset
<1>2. PICK n \in Nat : n = Cardinality(dirs) BY <1>1, FS_CardinalityType
<1>4. nth \in Bijection(1 .. n, dirs) BY <1>2 DEF Orders
<1>5. /\ nth \in [1 .. n -> dirs]
      /\ \A i, j \in 1 .. n : nth[i] = nth[j] => i = j
  BY <1>4 DEF Bijection, Injection, IsInjective
<1>6. Table(rows, F) /\ \A i, j \in DOMAIN rows : rows[i].dir = rows[j].dir => i = j
  BY DEF OneRow
<1>7. PICK first : first = NextId(rows) OBVIOUS
<1>8. first \in Nat \ {0} /\ \A i \in DOMAIN rows : i < first
  <2>1. DOMAIN rows \subseteq Ids BY <1>6 DEF Table
  <2> QED BY <1>7, <2>1, NextIdIsNew
<1>9. PICK last : last = first + n - 1 OBVIOUS
<1>10. last \in Nat /\ last <= MaxId /\ MaxId \in Nat
  <2>1. PICK bound \in 0 .. MaxId : bound = scene.skill
    BY ReferencesAssumption DEF Activities, Pages
  <2>2. n + first - 1 <= bound BY <1>2, <1>7, <2>1 DEF Fits
  <2> QED BY <1>2, <1>8, <1>9, <2>1, <2>2, ReferencesAssumption
<1>11. PICK new : new = AddRows(rows, dirs, nth) OBVIOUS
<1>12. new = [i \in DOMAIN rows \cup (first .. last) |->
                 IF i \in first .. last
                 THEN [dir |-> nth[i - first + 1], enabled |-> TRUE] ELSE rows[i]]
  BY <1>2, <1>7, <1>9, <1>11, Zenon DEF AddRows
<1>13. DOMAIN new = DOMAIN rows \cup (first .. last) /\ new = [i \in DOMAIN new |-> new[i]]
  BY <1>12
<1>14. ASSUME NEW i \in first .. last
       PROVE  /\ DOMAIN new[i] = F /\ new[i].dir = nth[i - first + 1]
              /\ i - first + 1 \in 1 .. n /\ i \notin DOMAIN rows /\ i \in Ids
  <2>1. new[i] = [dir |-> nth[i - first + 1], enabled |-> TRUE] BY <1>12
  <2>2. DOMAIN new[i] = F /\ new[i].dir = nth[i - first + 1] BY <2>1
  <2>3. i - first + 1 \in 1 .. n BY <1>2, <1>8, <1>9, <1>10
  <2>4. i \notin DOMAIN rows /\ i \in Ids BY <1>8, <1>10 DEF Ids
  <2> QED BY <2>2, <2>3, <2>4
<1>15. ASSUME NEW i \in DOMAIN rows PROVE new[i] = rows[i]
  BY <1>12, <1>14
<1>16. Table(new, F) BY <1>6, <1>13, <1>14, <1>15 DEF Table
<1>17. ASSUME NEW i \in first .. last, NEW j \in DOMAIN rows PROVE new[i].dir # new[j].dir
  <2>1. new[i].dir \in dirs BY <1>5, <1>14
  <2>2. new[i].dir \in WithoutRow(rows, dirs) BY <2>1
  <2> QED BY <1>15, <2>2 DEF WithoutRow
<1>18. ASSUME NEW i \in first .. last, NEW j \in first .. last, new[i].dir = new[j].dir
       PROVE  i = j
  <2>1. i - first + 1 = j - first + 1 BY <1>5, <1>14, <1>18
  <2> QED BY <1>8, <1>10, <2>1
<1>19. ASSUME NEW i \in DOMAIN new, NEW j \in DOMAIN new, new[i].dir = new[j].dir
       PROVE  i = j
  BY <1>6, <1>13, <1>15, <1>17, <1>18, <1>19
<1> QED BY <1>11, <1>16, <1>19 DEF OneRow

LEMMA RowsDropped ==
    ASSUME NEW rows, OneRow(rows), NEW ids
    PROVE  OneRow(Drop(rows, ids))
<1>1. PICK new : new = Drop(rows, ids) OBVIOUS
<1>2. Dropped(new, rows, ids) BY <1>1, DropRows
<1>3. Table(new, {"dir", "enabled"}) BY <1>2 DEF OneRow, Table, Dropped
<1>4. \A i, j \in DOMAIN new : new[i].dir = new[j].dir => i = j
  BY <1>2 DEF OneRow, Dropped
<1> QED BY <1>1, <1>3, <1>4 DEF OneRow

LEMMA Missing ==
    ASSUME NEW rows, NEW dirs
    PROVE  /\ WithoutRow(rows, dirs) \subseteq dirs
           /\ WithoutRow(rows, WithoutRow(rows, dirs)) = WithoutRow(rows, dirs)
BY DEF WithoutRow

LEMMA SkillRowsFrom ==
    ASSUME SkillRows, scene' = scene, OneRow(skill)', DOMAIN req' = Workers,
           \A v \in Workers : req'[v] = req[v] \/ SkillRequest(v)'
    PROVE  SkillRows'
<1>1. ASSUME NEW v \in Workers, req'[v] = req[v] PROVE SkillRequest(v)'
  BY <1>1 DEF SkillRows, SkillRequest, Serving
<1>2. \A v \in Workers : SkillRequest(v)' BY <1>1
<1> QED BY <1>2, Zenon DEF SkillRows

\* Worker w goes on with request r.
LEMMA SkillRowsNext ==
    ASSUME SkillRows, scene' = scene, OneRow(skill)', NEW w \in Workers,
           NEW r, req' = [req EXCEPT ![w] = r],
           \/ r = NoReq
           \/ r.op \notin {"list_skills", "find_skill"}
           \/ r.op = "list_skills" /\ r.add \subseteq Dirs
           \/ r.op = "find_skill" /\ r.dir \in Dirs
    PROVE  SkillRows'
<1>1. DOMAIN req = Workers BY DEF SkillRows
<1>2. DOMAIN req' = Workers /\ req'[w] = r /\ \A v \in Workers \ {w} : req'[v] = req[v]
  BY <1>1
<1>3. SkillRequest(w)' BY <1>2 DEF SkillRequest, Serving
<1> QED BY <1>2, <1>3, SkillRowsFrom

LEMMA SameSkills ==
    ASSUME SkillRows, UNCHANGED skill
    PROVE  OneRow(skill)'
BY Zenon DEF SkillRows

LEMMA SkillsListed ==
    ASSUME SkillRows, scene' = scene, NEW w \in Workers, BeginListSkills(w) \/ ListSkills(w)
    PROVE  SkillRows'
<1>1. DOMAIN req = Workers /\ OneRow(skill) /\ scene \in Scenes BY DEF SkillRows
<1>2. Compliant \subseteq Dirs BY DEF Compliant
<1>3. ASSUME BeginListSkills(w) PROVE SkillRows'
  <2>1. PICK add, r : /\ add = WithoutRow(skill, Compliant)
                      /\ r = [op |-> "list_skills", add |-> add]
    OBVIOUS
  <2>2. r.op = "list_skills" /\ r.add = add /\ add \subseteq Dirs BY <1>2, <2>1, Missing
  <2>3. req' = [req EXCEPT ![w] = r] /\ skill' = skill
    BY <1>3, <2>1, Zenon DEF BeginListSkills, Begin
  <2> QED BY <2>2, <2>3, SameSkills, SkillRowsNext
<1>4. ASSUME ListSkills(w) PROVE SkillRows'
  <2>1. Serving(w, "list_skills") /\ Fits(skill, req[w].add) BY <1>4 DEF ListSkills
  <2>2. req[w].add \subseteq Dirs BY <2>1 DEF SkillRows, SkillRequest
  <2>3. PICK nth \in Orders(req[w].add) :
           skill' = IF WithoutRow(skill, req[w].add) = req[w].add
                    THEN AddRows(skill, req[w].add, nth) ELSE skill
    BY <1>4 DEF ListSkills
  <2>4. OneRow(skill') BY <1>1, <2>1, <2>2, <2>3, RowsAdded
  <2>5. req' = [req EXCEPT ![w] = NoReq] BY <1>4 DEF ListSkills, Respond
  <2> QED BY <2>4, <2>5, SkillRowsNext
<1> QED BY <1>3, <1>4

LEMMA SkillsRefreshed ==
    ASSUME SkillRows, scene' = scene, NEW w \in Workers,
           \/ BeginRefresh(w) \/ RefreshLists(w)
           \/ \E i \in Ids : RefreshRow(w, i)
           \/ \E d \in Dirs : ImportSkill(w, d)
    PROVE  SkillRows'
<1>1. DOMAIN req = Workers /\ OneRow(skill) BY DEF SkillRows
<1>2. Compliant \subseteq Dirs BY DEF Compliant
<1>3. ASSUME NEW gone, Begin(w, [op |-> "refresh", drop |-> gone]), skill' = skill
      PROVE  SkillRows'
  <2>1. PICK r : r = [op |-> "refresh", drop |-> gone] OBVIOUS
  <2>2. r.op \notin {"list_skills", "find_skill"} BY <2>1
  <2>3. req' = [req EXCEPT ![w] = r] BY <1>3, <2>1, Zenon DEF Begin
  <2> QED BY <1>3, <2>2, <2>3, SameSkills, SkillRowsNext
<1>4. ASSUME BeginRefresh(w) PROVE SkillRows' BY <1>3, <1>4 DEF BeginRefresh
<1>5. ASSUME NEW d \in Dirs, ImportSkill(w, d) PROVE SkillRows' BY <1>3, <1>5 DEF ImportSkill
<1>6. ASSUME NEW i \in Ids, RefreshRow(w, i) PROVE SkillRows'
  <2>1. PICK old, r : old = req[w] /\ r = [op |-> "refresh", drop |-> old.drop \ {i}] OBVIOUS
  <2>2. r.op \notin {"list_skills", "find_skill"} BY <2>1
  <2>3. req' = [req EXCEPT ![w] = [op |-> "refresh", drop |-> @.drop \ {i}]]
        /\ skill' = Drop(skill, {i})
    BY <1>6, Zenon DEF RefreshRow
  <2>4. req' = [req EXCEPT ![w] = r] BY <1>1, <2>1, <2>3
  <2>5. OneRow(skill') BY <1>1, <2>3, RowsDropped
  <2> QED BY <2>2, <2>4, <2>5, SkillRowsNext
<1>7. ASSUME RefreshLists(w) PROVE SkillRows'
  <2>1. PICK add, r : /\ add = WithoutRow(skill, Compliant)
                      /\ r = IF add = {} THEN NoReq ELSE [op |-> "list_skills", add |-> add]
    OBVIOUS
  <2>2. req' = [req EXCEPT ![w] = r] /\ skill' = skill
    BY <1>7, <2>1, Zenon DEF RefreshLists
  <2>3. add \subseteq Dirs BY <1>2, <2>1, Missing
  <2>4. r = NoReq \/ (r.op = "list_skills" /\ r.add \subseteq Dirs) BY <2>1, <2>3
  <2> QED BY <2>2, <2>4, SameSkills, SkillRowsNext
<1> QED BY <1>4, <1>5, <1>6, <1>7

\* The flag of a skill, and the row it may need.
LEMMA SkillsEnabled ==
    ASSUME SkillRows, scene' = scene, NEW w \in Workers,
           \/ \E d \in Dirs, f \in BOOLEAN : BeginSetSkillEnabled(w, d, f)
           \/ FindSkill(w) \/ SetSkillEnabled(w)
    PROVE  SkillRows'
<1> DEFINE F == {"dir", "enabled"}
<1>1. DOMAIN req = Workers /\ OneRow(skill) /\ scene \in Scenes BY DEF SkillRows
<1>2. ASSUME NEW d \in Dirs, NEW f \in BOOLEAN, BeginSetSkillEnabled(w, d, f) PROVE SkillRows'
  <2>1. skill' = skill BY <1>2, Zenon DEF BeginSetSkillEnabled
  <2>2. ASSUME Begin(w, [op |-> "find_skill", dir |-> d, enabled |-> f]) PROVE SkillRows'
    <3>1. PICK r : r = [op |-> "find_skill", dir |-> d, enabled |-> f] OBVIOUS
    <3>2. r.op = "find_skill" /\ r.dir \in Dirs BY <3>1
    <3>3. req' = [req EXCEPT ![w] = r] BY <2>2, <3>1, Zenon DEF Begin
    <3> QED BY <2>1, <3>2, <3>3, SameSkills, SkillRowsNext
  <2>3. ASSUME NEW i, Begin(w, [op |-> "enable_skill", id |-> i, enabled |-> f,
                                was |-> skill[i].enabled])
        PROVE  SkillRows'
    <3>1. PICK r : r = [op |-> "enable_skill", id |-> i, enabled |-> f, was |-> skill[i].enabled]
      OBVIOUS
    <3>2. r.op \notin {"list_skills", "find_skill"} BY <3>1
    <3>3. req' = [req EXCEPT ![w] = r] BY <2>3, <3>1, Zenon DEF Begin
    <3> QED BY <2>1, <3>2, <3>3, SameSkills, SkillRowsNext
  <2> QED BY <1>2, <2>2, <2>3, Zenon DEF BeginSetSkillEnabled
<1>3. ASSUME FindSkill(w) PROVE SkillRows'
  <2>1. PICK old, d : old = req[w] /\ d = old.dir OBVIOUS
  <2>2. Serving(w, "find_skill") /\ Fits(skill, {d}) BY <1>3, <2>1 DEF FindSkill
  <2>3. d \in Dirs BY <2>1, <2>2 DEF SkillRows, SkillRequest
  <2>4. ASSUME RowOf(d) = {} PROVE SkillRows'
    <3>1. WithoutRow(skill, {d}) = {d} BY <2>4 DEF RowOf, WithoutRow
    <3>2. PICK r : r = [op |-> "enable_skill", id |-> NextId(skill),
                        enabled |-> old.enabled, was |-> TRUE]
      OBVIOUS
    <3>3. r.op \notin {"list_skills", "find_skill"} BY <3>2
    <3>4. /\ skill' = AddRows(skill, {d}, <<d>>)
          /\ req' = [req EXCEPT ![w] = [op |-> "enable_skill", id |-> NextId(skill),
                                         enabled |-> @.enabled, was |-> TRUE]]
      BY <1>3, <2>1, <2>4, Zenon DEF FindSkill
    <3>5. req' = [req EXCEPT ![w] = r] BY <1>1, <2>1, <3>2, <3>4
    <3>6. <<d>> \in Orders({d})
      <4>1. Cardinality({d}) = 1 BY FS_Singleton
      <4>2. <<d>> = [i \in 1 .. 1 |-> d] OBVIOUS
      <4> QED BY <4>1, <4>2 DEF Orders, Bijection, Injection, Surjection, IsInjective
    <3>7. OneRow(skill') BY <1>1, <2>2, <2>3, <3>1, <3>4, <3>6, RowsAdded
    <3> QED BY <3>3, <3>5, <3>7, SkillRowsNext
  <2>5. ASSUME RowOf(d) # {} PROVE SkillRows'
    <3>1. skill' = skill /\ req' = [req EXCEPT ![w] = NoReq]
      BY <1>3, <2>1, <2>5 DEF FindSkill, Respond
    <3> QED BY <3>1, SameSkills, SkillRowsNext
  <2> QED BY <2>4, <2>5
<1>4. ASSUME SetSkillEnabled(w) PROVE SkillRows'
  <2>1. PICK r, i : r = req[w] /\ i = r.id OBVIOUS
  <2>2. req' = [req EXCEPT ![w] = NoReq] BY <1>4 DEF SetSkillEnabled, Respond
  <2>3. ASSUME i \in DOMAIN skill, r.enabled # r.was PROVE OneRow(skill')
    <3>1. PICK row, new : row = skill[i] /\ new = [row EXCEPT !.enabled = r.enabled] OBVIOUS
    <3>2. DOMAIN row = F /\ Table(skill, F) BY <1>1, <2>3, <3>1 DEF OneRow, Table
    <3>3. DOMAIN new = F /\ new.dir = row.dir BY <3>1, <3>2
    <3>4. skill' = [skill EXCEPT ![i].enabled = r.enabled]
      BY <1>4, <2>1, <2>3 DEF SetSkillEnabled
    <3>5. skill' = [skill EXCEPT ![i] = new] BY <2>3, <3>1, <3>4
    <3>6. /\ DOMAIN skill' = DOMAIN skill /\ skill' = [j \in DOMAIN skill' |-> skill'[j]]
          /\ \A j \in DOMAIN skill : skill'[j].dir = skill[j].dir /\ DOMAIN skill'[j] = F
      BY <2>3, <3>1, <3>2, <3>3, <3>5 DEF Table
    <3>7. Table(skill', F) BY <3>2, <3>6 DEF Table
    <3> QED BY <1>1, <3>6, <3>7 DEF OneRow
  <2>4. ASSUME ~ (r.enabled # r.was /\ i \in DOMAIN skill) PROVE OneRow(skill')
    <3>1. skill' = skill BY <1>4, <2>1, <2>4 DEF SetSkillEnabled
    <3> QED BY <1>1, <3>1
  <2> QED BY <2>2, <2>3, <2>4, SkillRowsNext
<1> QED BY <1>2, <1>3, <1>4

LEMMA SkillsDeleted ==
    ASSUME SkillRows, scene' = scene, NEW w \in Workers,
           \/ \E d \in Dirs : BeginDeleteSkill(w, d)
           \/ RemoveSkillDir(w) \/ DeleteSkillRow(w)
    PROVE  SkillRows'
<1>1. DOMAIN req = Workers /\ OneRow(skill) BY DEF SkillRows
<1>2. ASSUME NEW d \in Dirs, BeginDeleteSkill(w, d) PROVE SkillRows'
  <2>1. PICK r : r = [op |-> "delete_skill", dir |-> d, rows |-> RowOf(d)] OBVIOUS
  <2>2. r.op \notin {"list_skills", "find_skill"} BY <2>1
  <2>3. req' = [req EXCEPT ![w] = r] /\ skill' = skill
    BY <1>2, <2>1, Zenon DEF BeginDeleteSkill, Begin
  <2> QED BY <2>2, <2>3, SameSkills, SkillRowsNext
<1>3. ASSUME RemoveSkillDir(w) PROVE SkillRows'
  <2>1. PICK old, r : old = req[w] /\ r = [op |-> "delete_skill_row", rows |-> old.rows]
    OBVIOUS
  <2>2. r.op \notin {"list_skills", "find_skill"} BY <2>1
  <2>3. req' = [req EXCEPT ![w] = NoReq] \/ req' = [req EXCEPT ![w] = r]
    BY <1>1, <1>3, <2>1 DEF RemoveSkillDir, Respond
  <2>4. skill' = skill BY <1>3 DEF RemoveSkillDir
  <2> QED BY <2>2, <2>3, <2>4, SameSkills, SkillRowsNext
<1>4. ASSUME DeleteSkillRow(w) PROVE SkillRows'
  <2>1. skill' = Drop(skill, req[w].rows) /\ req' = [req EXCEPT ![w] = NoReq]
    BY <1>4 DEF DeleteSkillRow, Respond
  <2>2. OneRow(skill') BY <1>1, <2>1, RowsDropped
  <2> QED BY <2>1, <2>2, SkillRowsNext
<1> QED BY <1>2, <1>3, <1>4

LEMMA SkillPage ==
    ASSUME SkillRows, scene' = scene, NEW w \in Workers, SkillStep(w)
    PROVE  SkillRows'
<1>1. CASE BeginListSkills(w) \/ ListSkills(w) BY <1>1, SkillsListed
<1>2. CASE BeginRefresh(w) \/ RefreshLists(w) \/ (\E i \in Ids : RefreshRow(w, i))
  BY <1>2, SkillsRefreshed
<1>3. CASE \E d \in Dirs : ImportSkill(w, d) BY <1>3, SkillsRefreshed
<1>4. CASE \E d \in Dirs : BeginDeleteSkill(w, d) BY <1>4, SkillsDeleted
<1>5. CASE \E d \in Dirs, f \in BOOLEAN : BeginSetSkillEnabled(w, d, f) BY <1>5, SkillsEnabled
<1>6. CASE FindSkill(w) \/ SetSkillEnabled(w) BY <1>6, SkillsEnabled
<1>7. CASE RemoveSkillDir(w) \/ DeleteSkillRow(w) BY <1>7, SkillsDeleted
<1> QED BY <1>1, <1>2, <1>3, <1>4, <1>5, <1>6, <1>7, Zenon DEF SkillStep

\* The requests on the other pages, which leave the skills alone.
LEMMA SkillsAndOtherPages ==
    ASSUME SkillRows, scene' = scene, NEW w \in Workers, UNCHANGED skill,
           Moved(w, ModelOps \cup AgentOps \cup ServerOps)
    PROVE  SkillRows'
<1>1. DOMAIN req' = Workers BY DEF Moved
<1>2. ASSUME NEW v \in Workers PROVE req'[v] = req[v] \/ SkillRequest(v)'
  BY DEF Moved, SkillRequest, Serving, ModelOps, AgentOps, ServerOps
<1> QED BY <1>1, <1>2, SkillRowsFrom, SameSkills

LEMMA SkillRowsStep == ASSUME Consistent, SkillRows, [Next]_vars PROVE SkillRows'
<1>1. DOMAIN req = Workers /\ Tables BY DEF Consistent, Tables
<1>2. ASSUME UNCHANGED skill, scene' = scene, DOMAIN req' = Workers,
             \A v \in Workers : req'[v] = req[v] \/ req'[v] = NoReq
      PROVE  SkillRows'
  <2>1. ASSUME NEW v \in Workers, req'[v] = NoReq PROVE SkillRequest(v)'
    BY <2>1 DEF SkillRequest, Serving
  <2> QED BY <1>2, <2>1, SameSkills, SkillRowsFrom
<1>3. CASE UNCHANGED vars
  <2>1. UNCHANGED <<req, skill, scene>> BY <1>3 DEF vars, pages
  <2> QED BY <1>1, <1>2, <2>1
<1>4. CASE Next
  <2>1. scene' = scene BY <1>4 DEF Next
  <2>2. ASSUME NEW w \in Workers, AgentStep(w), UNCHANGED <<model, servers, skills>>
        PROVE  SkillRows'
    <3>1. UNCHANGED <<model, server, skill>> BY <2>2 DEF servers, skills
    <3>2. Moved(w, AgentOps) BY <1>1, <2>2, <3>1, AgentMoves
    <3> QED BY <2>1, <3>1, <3>2, MoreOps, SkillsAndOtherPages
  <2>3. ASSUME NEW w \in Workers, ModelStep(w), UNCHANGED <<agents, servers, skills>>
        PROVE  SkillRows'
    <3>1. UNCHANGED <<agent, binding, skill>> BY <2>3 DEF agents, skills
    <3>2. Moved(w, ModelOps) BY <1>1, <2>3, <3>1, ModelMoves
    <3> QED BY <2>1, <3>1, <3>2, MoreOps, SkillsAndOtherPages
  <2>4. ASSUME NEW w \in Workers, ServerStep(w), UNCHANGED <<agents, model, skills>>
        PROVE  SkillRows'
    <3>1. UNCHANGED <<agent, binding, skill>> BY <2>4 DEF agents, skills
    <3>2. Moved(w, ServerOps) BY <1>1, <2>4, <3>1, ServerMoves
    <3> QED BY <2>1, <3>1, <3>2, MoreOps, SkillsAndOtherPages
  <2>5. ASSUME NEW w \in Workers, SkillStep(w) PROVE SkillRows' BY <2>1, <2>5, SkillPage
  <2>6. ASSUME TestStep, UNCHANGED <<agents, model, skills>> PROVE SkillRows'
    <3>1. req' = req BY <2>6 DEF TestStep, BeginTest, LeaveLock, StoreVerdict
    <3>2. skill' = skill BY <2>6 DEF skills
    <3> QED BY <1>1, <1>2, <2>1, <3>1, <3>2
  <2>7. ASSUME DiskStep PROVE SkillRows'
    <3>1. req' = req /\ skill' = skill BY <2>7 DEF DiskStep, WriteSkillFile
    <3> QED BY <1>1, <1>2, <2>1, <3>1
  <2>8. ASSUME Restart PROVE SkillRows'
    <3>1. DOMAIN req' = Workers /\ \A v \in Workers : req'[v] = NoReq BY <2>8 DEF Restart
    <3>2. skill' = skill BY <2>8 DEF Restart, skills
    <3> QED BY <1>2, <2>1, <3>1, <3>2
  <2> QED BY <1>4, <2>2, <2>3, <2>4, <2>5, <2>6, <2>7, <2>8, Zenon DEF Next, Step
<1> QED BY <1>3, <1>4

LEMMA SkillRowsAtStart == ASSUME Init PROVE SkillRows
<1>1. DOMAIN << >> = {} /\ << >> = [i \in DOMAIN << >> |-> << >>[i]] OBVIOUS
<1>2. OneRow(skill) BY <1>1 DEF Init, OneRow, Table
<1>3. DOMAIN req = Workers /\ \A w \in Workers : SkillRequest(w)
  BY DEF Init, SkillRequest, Serving
<1>4. scene \in Scenes BY DEF Init
<1> QED BY <1>2, <1>3, <1>4, Zenon DEF SkillRows

LEMMA AtMostOne ==
    ASSUME NEW S, \A i, j \in S : i = j
    PROVE  Cardinality(S) <= 1
<1>1. S = {} \/ \E x : S = {x} OBVIOUS
<1>2. Cardinality(S) = 0 \/ Cardinality(S) = 1 BY <1>1, FS_EmptySet, FS_Singleton
<1> QED BY <1>2

\* For any number of threads: a directory has at most one row.
THEOREM SkillsHaveOneRow == Spec => []OneRowPerDirectory
<1>1. Init => Consistent /\ SkillRows BY ConsistentAtStart, SkillRowsAtStart
<1>2. Consistent /\ SkillRows /\ [Next]_vars => (Consistent /\ SkillRows)'
  BY ConsistentStep, SkillRowsStep
<1>3. ASSUME SkillRows PROVE OneRowPerDirectory
  <2>1. ASSUME NEW d \in Dirs PROVE \A i, j \in RowOf(d) : i = j
    BY <1>3 DEF SkillRows, OneRow, RowOf
  <2> QED BY <2>1, AtMostOne DEF OneRowPerDirectory
<1> QED BY <1>1, <1>2, <1>3, PTL DEF Spec

=============================================================================
