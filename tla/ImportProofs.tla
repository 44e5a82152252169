---------------------------- MODULE ImportProofs ----------------------------
(***************************************************************************)
(* Importing a configuration, for any documents, any tables to start from  *)
(* and any number of imports at a time: what an import may not lose or     *)
(* change, that it applies a sound document and reports what it did, and   *)
(* what an export beside them holds.                                       *)
(***************************************************************************)
EXTENDS Export, FiniteSetTheorems, TLAPS

\* Where a request stands.
Tagging == {"ClearTags", "PutTags", "PutState"}
InHand == Tagging \cup {"Write"}
Working == InHand \cup {"Look"}
Running == Working \cup {"Owners", "Preflight"}
Pcs == Running \cup {"Idle", "Done", "Failed", "Refused", "Dry"}

Locals == [pc : Pcs, doc : Documents \cup {<<>>}, policy : Policies,
           todo : SUBSET Rows, row : Rows \cup {None}, existed : BOOLEAN,
           left : SUBSET Tags, hits : SUBSET Rows,
           inserted : Nat, replaced : Nat, skipped : Nat,
           began : SUBSET Rows, calm : BOOLEAN, sound : BOOLEAN]

TypeOK == /\ table \in [Rows -> Entries \cup {Absent}]
          /\ stateRow \subseteq Of("targets")
          /\ tags \in [Of("targets") -> SUBSET Tags]
          /\ import \in [Importers -> Locals]
          /\ trail \in Nat
          /\ quota \in [imports : Nat, troubles : Nat]

\* What a request with locals r relies on between its calls: what it has in
\* hand, and that without replace it writes no row that was there before it.
Follows(r, rows) ==
    /\ r.pc \in Running => r.doc \in Documents /\ r.todo \subseteq DOMAIN r.doc
    /\ r.pc \in InHand => r.row \in r.todo
    /\ r.pc \in Tagging => KindOf[r.row] = "targets"
    /\ \A k \in r.began : rows[k] # Absent
    /\ r.pc = "Preflight" /\ r.policy = "fail" =>
          DOMAIN r.doc \cap r.began \subseteq r.todo \cup r.hits
    /\ r.pc \in Working /\ r.policy = "fail" => DOMAIN r.doc \cap r.began = {}
    /\ r.pc \in InHand /\ r.policy # "replace" => r.row \notin r.began
    /\ r.pc = "Preflight" => r.policy = "fail"

Inv == /\ TypeOK
       /\ Intact(table)
       /\ \A k \in stateRow : Present(k)
       /\ \A i \in Importers : Follows(import[i], table)

\* Nothing is undone by others while this request runs alone and undisturbed.
Alone(i) == /\ import[i].calm
            /\ \A j \in Importers \ {i} : At(j, "Idle")

\* The rows of the document that are done.
Applied(i) == IF import[i].pc \in Working THEN DOMAIN import[i].doc \ import[i].todo ELSE {}

\* A row that is done is as the document has it.
AsInDocument(i, k) ==
    /\ Stands(import[i].doc[k], table[k])
    /\ KindOf[k] = "targets" => tags[k] = import[i].doc[k].tags

\* What an undisturbed request knows while it runs: what of its document resolves,
Resolves(i) ==
    LET r == import[i]
    IN /\ r.pc \in Running => /\ Validates(r.doc)
                              /\ r.sound => ~Dangling(r.doc) /\ ~Clashing(r.doc)
       /\ r.pc \in Running \ {"Owners"} => OwnersResolve(r.doc)

\* which rows it has stored, and how many,
Progress(i) ==
    LET r == import[i]
    IN r.pc \in Running =>
         /\ \A k \in Applied(i) :
               /\ Present(k)
               /\ r.policy = "replace" \/ k \notin r.began => AsInDocument(i, k)
         /\ \A k \in DOMAIN r.doc \ Applied(i) :
               Present(k) /\ k \notin r.began => r.pc \in InHand /\ k = r.row
         /\ r.inserted = Cardinality(Applied(i) \ r.began)
         /\ r.replaced + r.skipped = Cardinality(Applied(i) \cap r.began)

\* and how far it is with the row in hand.
Hand(i) ==
    LET r == import[i]
    IN /\ r.sound => r.pc # "Failed"
       /\ r.pc \in InHand =>
             /\ r.sound => \A s \in r.doc[r.row].refs : Present(s)
             /\ r.existed <=> r.row \in r.began
             /\ KindOf[r.row] = "targets" /\ ~r.existed => r.row \notin stateRow
             /\ r.pc = "Write" /\ Present(r.row) => r.row \in r.began
       /\ r.pc \in Tagging => Present(r.row) /\ Stands(r.doc[r.row], table[r.row])
       /\ r.pc = "PutTags" => /\ r.left \subseteq r.doc[r.row].tags
                              /\ tags[r.row] = r.doc[r.row].tags \ r.left
       /\ r.pc = "PutState" => ~r.existed /\ tags[r.row] = r.doc[r.row].tags

Knows(i) == Resolves(i) /\ Progress(i) /\ Hand(i)
Sure == \A i \in Importers : Alone(i) => Knows(i)

----------------------------------------------------------------------------
\* What a statement stores is a row, with the document's references, address
\* and tags.
LEMMA WrittenRow ==
    ASSUME TypeOK, NEW k \in Rows, NEW row \in Entries
    PROVE  /\ Written(k, row) \in Entries
           /\ Written(k, row).refs = row.refs /\ Written(k, row).mail = row.mail
           /\ Stands(row, Written(k, row))
<1>1. CASE KindOf[k] # "windows"
  BY <1>1 DEF Written, Entries, Stands
<1>2. CASE KindOf[k] = "windows"
  <2> DEFINE x == IF Present(k) THEN table[k].exclude ELSE TRUE
  <2>1. x \in BOOLEAN
    <3>1. CASE Present(k)
      <4>1. table[k] \in Entries
        BY <3>1 DEF TypeOK, Present
      <4> QED BY <3>1, <4>1 DEF Entries
    <3>2. CASE ~Present(k)
      BY <3>2
    <3> QED BY <3>1, <3>2
  <2>2. Written(k, row) = [row EXCEPT !.exclude = x]
    BY <1>2 DEF Written
  <2> HIDE DEF x
  <2>3. /\ Written(k, row) \in Entries
        /\ Written(k, row).refs = row.refs /\ Written(k, row).mail = row.mail
        /\ Written(k, row).exclude = x
    BY <2>1, <2>2 DEF Entries
  <2>4. [row EXCEPT !.exclude = x, !.tags = {}] = [[row EXCEPT !.exclude = x] EXCEPT !.tags = {}]
    BY DEF Entries
  <2>5. Stands(row, Written(k, row))
    BY <2>2, <2>3, <2>4 DEF Stands
  <2> QED BY <2>3, <2>5
<1> QED BY <1>1, <1>2

\* A row that is stored is no Absent.
LEMMA StoredRow ==
    ASSUME TypeOK, NEW k \in Rows
    PROVE  Present(k) <=> table[k] \in Entries
BY AbsentAssumption DEF TypeOK, Present

\* What a request has in hand is a row of its document.
LEMMA RowInHand ==
    ASSUME Inv, NEW i \in Importers, import[i].pc \in InHand
    PROVE  /\ import[i] \in Locals /\ import[i].doc \in Documents
           /\ import[i].row \in DOMAIN import[i].doc /\ import[i].row \in Rows
           /\ import[i].doc[import[i].row] \in Entries
           /\ \A s \in import[i].doc[import[i].row].refs :
                 s \in Rows /\ KindOf[s] \in Refers[KindOf[import[i].row]]
<1>1. import[i] \in Locals /\ Follows(import[i], table)
  BY DEF Inv, TypeOK
<1>2. import[i].doc \in Documents /\ import[i].row \in DOMAIN import[i].doc
  BY <1>1 DEF Follows, Running, Working
<1>3. /\ import[i].doc[import[i].row] \in Entries /\ import[i].row \in Rows
      /\ \A s \in import[i].doc[import[i].row].refs :
            KindOf[s] \in Refers[KindOf[import[i].row]]
  BY <1>2, DocumentAssumption
<1>4. import[i].doc[import[i].row].refs \subseteq Rows
  BY <1>3 DEF Entries
<1> QED BY <1>1, <1>2, <1>3, <1>4

\* The one statement that writes the table of a row: what it writes, and that
\* it writes no other row.
LEMMA WriteEffect ==
    ASSUME Inv, NEW i \in Importers, Write(i), table' # table
    PROVE  LET k == import[i].row
               row == import[i].doc[k]
           IN /\ Admitted(k, row)
              /\ table' = [table EXCEPT ![k] = Written(k, row)]
              /\ Written(k, row) \in Entries
<1>1. import[i].pc \in InHand
  BY DEF Write, At, InHand
<1>2. Inv /\ TypeOK
  BY DEF Inv
<1> QED BY <1>1, <1>2, RowInHand, WrittenRow DEF Write, Upsert

\* A step of an import leaves every stored row stored and every table in its
\* type, and the schema's constraints hold of it.
LEMMA StepStores ==
    ASSUME Inv, NEW i \in Importers, Step(i)
    PROVE  /\ table' \in [Rows -> Entries \cup {Absent}]
           /\ \A k \in Rows : Present(k) => table'[k] # Absent
           /\ Intact(table)'
<1>1. table \in [Rows -> Entries \cup {Absent}] /\ Intact(table) /\ TypeOK
  BY DEF Inv, TypeOK
<1>2. CASE table' = table
  BY <1>1, <1>2 DEF Intact, Present
<1>3. CASE Write(i) /\ table' # table
  <2> DEFINE k == import[i].row
             row == import[i].doc[k]
             new == Written(k, row)
  <2>1. /\ Admitted(k, row) /\ table' = [table EXCEPT ![k] = new] /\ new \in Entries
    BY <1>3, WriteEffect
  <2>2. /\ k \in Rows /\ row \in Entries
        /\ \A s \in row.refs : s \in Rows /\ KindOf[s] \in Refers[KindOf[k]]
    BY <1>3, RowInHand DEF Write, At, InHand
  <2>3. new.refs = row.refs /\ new.mail = row.mail
    BY <1>1, <2>2, WrittenRow
  <2> HIDE DEF k, row, new
  <2>4. new # Absent /\ table'[k] = new /\ \A s \in Rows \ {k} : table'[s] = table[s]
    BY <1>1, <2>1, <2>2, AbsentAssumption
  <2>5. table' \in [Rows -> Entries \cup {Absent}]
    BY <1>1, <2>1
  <2>6. \A s \in Rows : Present(s) => table'[s] # Absent
    BY <2>4 DEF Present
  <2>7. ASSUME NEW r \in Rows, table'[r] # Absent, NEW s \in table'[r].refs
        PROVE  table'[s] # Absent /\ KindOf[s] \in Refers[KindOf[r]]
    <3>1. CASE r = k
      <4>1. s \in row.refs
        BY <2>3, <2>4, <2>7, <3>1
      <4> QED BY <2>1, <2>2, <2>6, <3>1, <4>1 DEF Admitted
    <3>2. CASE r # k
      <4>1. table[r] # Absent /\ s \in table[r].refs /\ table[r] \in Entries
        BY <1>1, <2>4, <2>7, <3>2
      <4>2. s \in Rows
        BY <4>1 DEF Entries
      <4> QED BY <1>1, <2>6, <4>1, <4>2 DEF Intact, Present
    <3> QED BY <3>1, <3>2
  <2>8. ASSUME NEW r \in Of("users"), NEW s \in Of("users"), r # s,
               table'[r] # Absent, table'[s] # Absent
        PROVE  table'[r].mail # table'[s].mail
    <3>1. r \in Rows /\ s \in Rows /\ KindOf[r] = "users" /\ KindOf[s] = "users"
      BY DEF Of
    <3>2. CASE r # k /\ s # k
      BY <1>1, <2>4, <2>8, <3>1, <3>2 DEF Intact
    <3>3. CASE r = k
      BY <2>1, <2>3, <2>4, <2>8, <3>1, <3>3 DEF Admitted, Present
    <3>4. CASE s = k
      BY <2>1, <2>3, <2>4, <2>8, <3>1, <3>4 DEF Admitted, Present
    <3> QED BY <3>2, <3>3, <3>4
  <2>9. Intact(table)'
    BY <2>7, <2>8 DEF Intact, Of
  <2> QED BY <2>5, <2>6, <2>9
<1>4. table' = table \/ Write(i)
  BY DEF Step, Owners, Preflight, Look, Writes, ClearTags, PutTag, PutState, TagsDone,
         Record, stored
<1> QED BY <1>2, <1>3, <1>4

\* No step of an import takes a state row away, and the rows and tags of the
\* others are left alone.
LEMMA StepKeeps ==
    ASSUME Inv, NEW i \in Importers, Step(i)
    PROVE  /\ stateRow \subseteq stateRow' /\ stateRow' \subseteq Of("targets")
           /\ \A k \in stateRow' : table'[k] # Absent
           /\ tags' \in [Of("targets") -> SUBSET Tags]
           /\ trail' \in Nat /\ quota' \in [imports : Nat, troubles : Nat]
           /\ \A k \in Rows : ~(Writes(i) /\ k = import[i].row) =>
                 /\ table'[k] = table[k]
                 /\ KindOf[k] = "targets" => tags'[k] = tags[k]
                 /\ k \in stateRow' => k \in stateRow
<1>1. /\ stateRow \subseteq Of("targets") /\ tags \in [Of("targets") -> SUBSET Tags]
      /\ trail \in Nat /\ quota \in [imports : Nat, troubles : Nat]
      /\ \A k \in stateRow : Present(k) /\ table \in [Rows -> Entries \cup {Absent}]
  BY DEF Inv, TypeOK
<1>2. \A k \in Rows : Present(k) => table'[k] # Absent
  BY StepStores
<1>3. trail' \in Nat /\ quota' \in [imports : Nat, troubles : Nat]
  <2>1. CASE Record(i)
    BY <1>1, <2>1 DEF Record, Spend
  <2>2. CASE trail' = trail /\ quota' = quota
    BY <1>1, <2>2
  <2> QED BY <2>1, <2>2 DEF Step, Owners, Preflight, Look, Writes, Write, ClearTags, PutTag,
                            PutState, TagsDone
<1>4. CASE UNCHANGED stored
  BY <1>1, <1>2, <1>3, <1>4 DEF stored, Of
<1>5. CASE Write(i)
  <2>1. import[i].row \in Rows
    BY <1>5, RowInHand DEF Write, At, InHand
  <2>2. stateRow' = stateRow /\ tags' = tags
    BY <1>5 DEF Write, Upsert
  <2>3. \A k \in Rows \ {import[i].row} : table'[k] = table[k]
    <3>1. CASE table' = table
      BY <3>1
    <3>2. CASE table' # table
      <4>1. table' = [table EXCEPT ![import[i].row] =
                        Written(import[i].row, import[i].doc[import[i].row])]
        BY <1>5, <3>2, WriteEffect
      <4> QED BY <1>1, <4>1
    <3> QED BY <3>1, <3>2
  <2> QED BY <1>1, <1>2, <1>3, <1>5, <2>2, <2>3 DEF Writes, Of
<1>6. ASSUME import[i].pc \in Tagging
      PROVE  /\ import[i].row \in Of("targets") /\ import[i] \in Locals
             /\ import[i].doc[import[i].row].tags \subseteq Tags
  <2>1. KindOf[import[i].row] = "targets"
    BY <1>6 DEF Inv, Follows
  <2> QED BY <1>6, <2>1, RowInHand DEF InHand, Of, Entries
<1>7. CASE ClearTags(i) \/ \E g \in import[i].left : PutTag(i, g)
  <2>1. import[i].row \in Of("targets") /\ import[i].left \subseteq Tags
    BY <1>6, <1>7 DEF ClearTags, PutTag, At, Tagging, Locals
  <2>2. table' = table /\ stateRow' = stateRow
    BY <1>7 DEF ClearTags, PutTag
  <2>3. \/ tags' = tags
        \/ \E x \in SUBSET Tags : tags' = [tags EXCEPT ![import[i].row] = x]
    <3>1. CASE ClearTags(i)
      BY <3>1 DEF ClearTags, Cleared
    <3>2. ASSUME NEW g \in import[i].left, PutTag(i, g), tags' # tags
          PROVE  \E x \in SUBSET Tags : tags' = [tags EXCEPT ![import[i].row] = x]
      <4>1. tags[import[i].row] \cup {g} \in SUBSET Tags
        BY <1>1, <2>1
      <4> QED BY <3>2, <4>1 DEF PutTag
    <3> QED BY <1>7, <3>1, <3>2
  <2>4. tags' \in [Of("targets") -> SUBSET Tags]
    BY <1>1, <2>1, <2>3
  <2>5. \A k \in Of("targets") \ {import[i].row} : tags'[k] = tags[k]
    BY <1>1, <2>1, <2>3
  <2> QED BY <1>1, <1>2, <1>3, <1>7, <2>2, <2>4, <2>5 DEF Of, Writes
<1>8. CASE PutState(i)
  <2>1. import[i].row \in Of("targets")
    BY <1>6, <1>8 DEF PutState, At, Tagging
  <2>2. /\ table' = table /\ tags' = tags
        /\ \/ stateRow' = stateRow
           \/ Present(import[i].row) /\ stateRow' = stateRow \cup {import[i].row}
    BY <1>8 DEF PutState
  <2> QED BY <1>1, <1>2, <1>3, <1>8, <2>1, <2>2 DEF Writes, Present
<1> QED BY <1>4, <1>5, <1>7, <1>8 DEF Step, Owners, Preflight, Look, Writes, TagsDone, Record,
                                      stored

\* A request that begins has nothing in hand, and knows what is stored.
LEMMA AskLocals ==
    ASSUME Inv, NEW i \in Importers, NEW doc \in Documents, NEW policy \in Policies,
           Ask(i, doc, policy)
    PROVE  \E r \in Locals : Local(i, r) /\ Follows(r, table')
<1> DEFINE pc == IF Validates(doc) THEN "Owners" ELSE "Refused"
           calm == \A j \in Importers \ {i} :
                     import[j].pc \in {"Idle", "Done", "Failed", "Refused", "Dry"}
           sound == ~Dangling(doc) /\ ~Clashing(doc)
           began == {r \in Rows : Present(r)}
           r == [Waiting EXCEPT !.pc = pc, !.doc = doc, !.policy = policy,
                    !.began = began, !.sound = sound, !.calm = calm]
<1>1. Local(i, r) /\ table' = table
  BY DEF Ask, stored
<1>2. pc \in {"Owners", "Refused"} /\ calm \in BOOLEAN /\ sound \in BOOLEAN
      /\ began \subseteq Rows
  OBVIOUS
<1> HIDE DEF pc, calm, sound
<1>3. r \in Locals
  BY <1>2 DEF Waiting, Locals, Pcs, Running, Working, InHand, Policies
<1>4. /\ r.pc = pc /\ r.doc = doc /\ r.todo = {} /\ r.began = began
  BY DEF Waiting
<1>5. Follows(r, table')
  BY <1>1, <1>2, <1>4 DEF Follows, Running, Working, InHand, Tagging, Present
<1> HIDE DEF r
<1> QED BY <1>1, <1>3, <1>5

\* A request that ends relies on nothing but what is stored.
LEMMA EndLocals ==
    ASSUME Inv, NEW i \in Importers,
           NEW pc \in {"Done", "Failed", "Refused", "Dry"},
           NEW calm \in BOOLEAN, calm => import[i].calm,
           \A k \in Rows : Present(k) => table'[k] # Absent,
           Local(i, [import[i] EXCEPT !.pc = pc, !.calm = calm])
    PROVE  \E r \in Locals : Local(i, r) /\ Follows(r, table')
<1> DEFINE r == [import[i] EXCEPT !.pc = pc, !.calm = calm]
<1>1. import[i] \in Locals /\ Follows(import[i], table)
  BY DEF Inv, TypeOK
<1>2. r \in Locals /\ r.pc = pc /\ r.began = import[i].began
  BY <1>1 DEF Locals, Pcs
<1>3. Follows(r, table')
  <2>1. \A k \in r.began : k \in Rows /\ Present(k)
    BY <1>1, <1>2 DEF Follows, Locals, Present
  <2> QED BY <1>2, <2>1 DEF Follows, Running, Working, InHand, Tagging
<1>4. Local(i, r)
  OBVIOUS
<1> HIDE DEF r
<1> QED BY <1>2, <1>3, <1>4

\* The lookups of the policy fail find every row that was there when it began.
LEMMA PreflightLocals ==
    ASSUME Inv, NEW i \in Importers, Preflight(i)
    PROVE  \E r \in Locals : Local(i, r) /\ Follows(r, table')
<1>1. /\ import[i] \in Locals /\ Follows(import[i], table) /\ import[i].pc = "Preflight"
      /\ table' = table
  BY DEF Inv, TypeOK, Preflight, At, stored
<1>2. /\ import[i].doc \in Documents /\ import[i].todo \subseteq DOMAIN import[i].doc
      /\ import[i].policy = "fail"
      /\ DOMAIN import[i].doc \cap import[i].began \subseteq import[i].todo \cup import[i].hits
      /\ \A k \in import[i].began : table[k] # Absent
  BY <1>1 DEF Follows, Running
<1>3. DOMAIN import[i].doc \subseteq Rows /\ import[i].began \subseteq Rows
  BY <1>1, <1>2, DocumentAssumption DEF Locals
<1>4. ASSUME NEW k \in Foremost(import[i].todo, Looked),
             Local(i, [import[i] EXCEPT !.todo = @ \ {k},
                          !.hits = IF Collides(k) THEN @ \cup {k} ELSE @])
      PROVE  \E r \in Locals : Local(i, r) /\ Follows(r, table')
  <2> DEFINE hits == IF Collides(k) THEN import[i].hits \cup {k} ELSE import[i].hits
             r == [import[i] EXCEPT !.todo = @ \ {k}, !.hits = hits]
  <2>1. k \in import[i].todo /\ k \in Rows
    BY <1>2, <1>3 DEF Foremost
  <2>2. Local(i, r)
    BY <1>4
  <2>3. hits \subseteq Rows /\ import[i].hits \subseteq hits
    BY <1>1, <2>1 DEF Locals
  <2>4. k \in import[i].began => k \in hits
    BY <1>2 DEF Collides, Present
  <2> HIDE DEF hits
  <2>5. /\ r \in Locals /\ r.pc = "Preflight" /\ r.doc = import[i].doc
        /\ r.todo = import[i].todo \ {k} /\ r.hits = hits /\ r.began = import[i].began
        /\ r.policy = "fail"
    BY <1>1, <1>2, <2>3 DEF Locals
  <2> HIDE DEF r
  <2>6. Follows(r, table')
    BY <1>1, <1>2, <2>3, <2>4, <2>5 DEF Follows, Running, Working, InHand, Tagging
  <2> QED BY <2>2, <2>5, <2>6
<1>5. CASE import[i].todo = {} /\ import[i].hits # {}
           /\ Local(i, [import[i] EXCEPT !.pc = "Refused"])
  <2>1. [import[i] EXCEPT !.pc = "Refused"]
          = [import[i] EXCEPT !.pc = "Refused", !.calm = import[i].calm]
        /\ import[i].calm \in BOOLEAN
    BY <1>1 DEF Locals
  <2> QED BY <1>1, <1>5, <2>1, EndLocals DEF Present
<1>6. CASE import[i].todo = {} /\ import[i].hits = {}
           /\ Local(i, [import[i] EXCEPT !.pc = "Look", !.todo = DOMAIN import[i].doc])
  <2> DEFINE r == [import[i] EXCEPT !.pc = "Look", !.todo = DOMAIN import[i].doc]
  <2>1. /\ r \in Locals /\ r.pc = "Look" /\ r.doc = import[i].doc
        /\ r.todo = DOMAIN import[i].doc /\ r.began = import[i].began /\ r.policy = "fail"
    BY <1>1, <1>2, <1>3 DEF Locals, Pcs, Running, Working
  <2>2. Local(i, r)
    BY <1>6
  <2> HIDE DEF r
  <2>3. Follows(r, table')
    BY <1>1, <1>2, <1>6, <2>1 DEF Follows, Running, Working, InHand, Tagging
  <2> QED BY <2>1, <2>2, <2>3
<1> QED BY <1>4, <1>5, <1>6 DEF Preflight

\* Before anything is written.
LEMMA OwnersLocals ==
    ASSUME Inv, NEW i \in Importers, Owners(i)
    PROVE  \E r \in Locals : Local(i, r) /\ Follows(r, table')
<1>1. /\ import[i] \in Locals /\ Follows(import[i], table) /\ import[i].pc = "Owners"
      /\ table' = table
  BY DEF Inv, TypeOK, Owners, At, stored
<1>2. /\ import[i].doc \in Documents
      /\ \A k \in import[i].began : table[k] # Absent
  BY <1>1 DEF Follows, Running
<1>3. DOMAIN import[i].doc \subseteq Rows
  BY <1>2, DocumentAssumption
<1>4. ASSUME NEW pc \in {"Refused", "Dry"}, Local(i, [import[i] EXCEPT !.pc = pc])
      PROVE  \E r \in Locals : Local(i, r) /\ Follows(r, table')
  <2>1. [import[i] EXCEPT !.pc = pc] = [import[i] EXCEPT !.pc = pc, !.calm = import[i].calm]
        /\ import[i].calm \in BOOLEAN
    BY <1>1 DEF Locals
  <2> QED BY <1>1, <1>4, <2>1, EndLocals DEF Present
<1>5. ASSUME NEW pc \in {"Preflight", "Look"}, pc = "Preflight" <=> import[i].policy = "fail",
             Local(i, [import[i] EXCEPT !.pc = pc, !.todo = DOMAIN import[i].doc])
      PROVE  \E r \in Locals : Local(i, r) /\ Follows(r, table')
  <2> DEFINE r == [import[i] EXCEPT !.pc = pc, !.todo = DOMAIN import[i].doc]
  <2>1. /\ r \in Locals /\ r.pc = pc /\ r.doc = import[i].doc
        /\ r.todo = DOMAIN import[i].doc /\ r.began = import[i].began
        /\ r.policy = import[i].policy
    BY <1>1, <1>3 DEF Locals, Pcs, Running, Working
  <2>2. Local(i, r)
    BY <1>5
  <2> HIDE DEF r
  <2>3. Follows(r, table')
    BY <1>1, <1>2, <1>5, <2>1 DEF Follows, Running, Working, InHand, Tagging
  <2> QED BY <2>1, <2>2, <2>3
<1> QED BY <1>4, <1>5 DEF Owners

\* The lookup of a row: with skip what is there is not taken in hand.
LEMMA LookLocals ==
    ASSUME Inv, NEW i \in Importers, Look(i)
    PROVE  \E r \in Locals : Local(i, r) /\ Follows(r, table')
<1>1. /\ import[i] \in Locals /\ Follows(import[i], table) /\ import[i].pc = "Look"
      /\ table' = table
  BY DEF Inv, TypeOK, Look, At, stored
<1>2. /\ import[i].doc \in Documents /\ import[i].todo \subseteq DOMAIN import[i].doc
      /\ \A k \in import[i].began : table[k] # Absent
      /\ import[i].policy = "fail" => DOMAIN import[i].doc \cap import[i].began = {}
      /\ import[i].policy \in {"skip", "replace", "fail"}
  BY <1>1 DEF Follows, Running, Working, Locals, Policies
<1>3. PICK k \in Foremost(import[i].todo, Order) :
        Local(i, IF Kept(import[i], Present(k))
                 THEN [import[i] EXCEPT !.todo = @ \ {k}, !.skipped = @ + 1]
                 ELSE [import[i] EXCEPT !.pc = "Write", !.row = k, !.existed = Present(k)])
  BY DEF Look
<1>4. k \in import[i].todo /\ k \in Rows /\ Present(k) \in BOOLEAN
  BY <1>2, DocumentAssumption DEF Foremost, Present
<1>5. CASE Kept(import[i], Present(k))
  <2> DEFINE n == import[i].skipped + 1
             r == [import[i] EXCEPT !.todo = @ \ {k}, !.skipped = n]
  <2>0. n \in Nat
    BY <1>1 DEF Locals
  <2>2. Local(i, r)
    BY <1>3, <1>5
  <2> HIDE DEF n
  <2>1. /\ r \in Locals /\ r.pc = "Look" /\ r.doc = import[i].doc
        /\ r.todo = import[i].todo \ {k} /\ r.began = import[i].began
        /\ r.policy = import[i].policy
    BY <1>1, <2>0 DEF Locals
  <2> HIDE DEF r
  <2>3. Follows(r, table')
    BY <1>1, <1>2, <2>1 DEF Follows, Running, Working, InHand, Tagging
  <2> QED BY <2>1, <2>2, <2>3
<1>6. CASE ~Kept(import[i], Present(k))
  <2> DEFINE found == Present(k)
             r == [import[i] EXCEPT !.pc = "Write", !.row = k, !.existed = found]
  <2>0. found \in BOOLEAN
    BY <1>4
  <2>1. Local(i, r)
    BY <1>3, <1>6
  <2>2. import[i].policy # "replace" => k \notin import[i].began
    BY <1>2, <1>4, <1>6 DEF Kept, Present
  <2> HIDE DEF found
  <2>3. /\ r \in Locals /\ r.pc = "Write" /\ r.doc = import[i].doc /\ r.row = k
        /\ r.todo = import[i].todo /\ r.began = import[i].began
        /\ r.policy = import[i].policy
    BY <1>1, <1>4, <2>0 DEF Locals, Pcs, Running, Working, InHand
  <2> HIDE DEF r
  <2>4. Follows(r, table')
    BY <1>1, <1>2, <1>4, <2>2, <2>3 DEF Follows, Running, Working, InHand, Tagging
  <2> QED BY <2>1, <2>3, <2>4
<1> QED BY <1>5, <1>6

\* A row that is done leaves the request with the rows it has left.
LEMMA TalliedLocals ==
    ASSUME NEW r \in Locals
    PROVE  /\ Tallied(r) \in Locals
           /\ Tallied(r).pc = "Look" /\ Tallied(r).todo = r.todo \ {r.row}
           /\ Tallied(r).doc = r.doc /\ Tallied(r).policy = r.policy
           /\ Tallied(r).began = r.began /\ Tallied(r).row = r.row
           /\ Tallied(r).calm = r.calm /\ Tallied(r).sound = r.sound
           /\ Tallied(r).skipped = r.skipped
           /\ Tallied(r).inserted = r.inserted + (IF r.existed THEN 0 ELSE 1)
           /\ Tallied(r).replaced = r.replaced + (IF r.existed THEN 1 ELSE 0)
<1> DEFINE todo == r.todo \ {r.row}
<1>1. todo \subseteq Rows /\ r.inserted + 1 \in Nat /\ r.replaced + 1 \in Nat
      /\ r.inserted + 0 = r.inserted /\ r.replaced + 0 = r.replaced
  BY DEF Locals
<1>2. CASE r.existed
  <2> DEFINE n == r.replaced + 1
             q == [r EXCEPT !.pc = "Look", !.todo = todo, !.replaced = n]
  <2>1. Tallied(r) = q
    BY <1>2 DEF Tallied
  <2>2. n \in Nat
    BY <1>1
  <2> HIDE DEF n, todo
  <2>3. /\ q \in Locals /\ q.pc = "Look" /\ q.todo = todo /\ q.replaced = n
        /\ q.doc = r.doc /\ q.policy = r.policy /\ q.began = r.began /\ q.row = r.row
        /\ q.calm = r.calm /\ q.sound = r.sound /\ q.skipped = r.skipped
        /\ q.inserted = r.inserted
    BY <1>1, <2>2 DEF Locals, Pcs, Running, Working
  <2> HIDE DEF q
  <2> QED BY <1>1, <1>2, <2>1, <2>3 DEF n, todo
<1>3. CASE ~r.existed
  <2> DEFINE n == r.inserted + 1
             q == [r EXCEPT !.pc = "Look", !.todo = todo, !.inserted = n]
  <2>1. Tallied(r) = q
    BY <1>3 DEF Tallied
  <2>2. n \in Nat
    BY <1>1
  <2> HIDE DEF n, todo
  <2>3. /\ q \in Locals /\ q.pc = "Look" /\ q.todo = todo /\ q.inserted = n
        /\ q.doc = r.doc /\ q.policy = r.policy /\ q.began = r.began /\ q.row = r.row
        /\ q.calm = r.calm /\ q.sound = r.sound /\ q.skipped = r.skipped
        /\ q.replaced = r.replaced
    BY <1>1, <2>2 DEF Locals, Pcs, Running, Working
  <2> HIDE DEF q
  <2> QED BY <1>1, <1>3, <2>1, <2>3 DEF n, todo
<1> QED BY <1>2, <1>3

\* The row in hand is done.
LEMMA DoneLocals ==
    ASSUME Inv, NEW i \in Importers, import[i].pc \in InHand,
           \A k \in Rows : Present(k) => table'[k] # Absent,
           Local(i, Tallied(import[i]))
    PROVE  \E r \in Locals : Local(i, r) /\ Follows(r, table')
<1> DEFINE r == Tallied(import[i])
<1>1. import[i] \in Locals /\ Follows(import[i], table)
  BY DEF Inv, TypeOK
<1>2. Local(i, r)
  OBVIOUS
<1>3. /\ r \in Locals /\ r.pc = "Look" /\ r.todo = import[i].todo \ {import[i].row}
      /\ r.doc = import[i].doc /\ r.policy = import[i].policy /\ r.began = import[i].began
  BY <1>1, TalliedLocals
<1> HIDE DEF r
<1>4. /\ r.doc \in Documents /\ r.todo \subseteq DOMAIN r.doc
      /\ \A k \in r.began : k \in Rows /\ Present(k)
      /\ r.policy = "fail" => DOMAIN r.doc \cap r.began = {}
  BY <1>1, <1>3 DEF Follows, Running, Working, Locals, Present
<1>5. Follows(r, table')
  BY <1>3, <1>4 DEF Follows, Running, Working, InHand, Tagging
<1> QED BY <1>2, <1>3, <1>5

\* The row stays in hand, for the next statement about a target.
LEMMA SameRow ==
    ASSUME Inv, NEW i \in Importers, import[i].pc \in InHand,
           \A k \in Rows : Present(k) => table'[k] # Absent,
           NEW pc \in Tagging, NEW left \in SUBSET Tags,
           KindOf[import[i].row] = "targets",
           Local(i, [import[i] EXCEPT !.pc = pc, !.left = left])
    PROVE  \E r \in Locals : Local(i, r) /\ Follows(r, table')
<1> DEFINE r == [import[i] EXCEPT !.pc = pc, !.left = left]
<1>1. import[i] \in Locals /\ Follows(import[i], table)
  BY DEF Inv, TypeOK
<1>2. Local(i, r)
  OBVIOUS
<1>3. /\ r \in Locals /\ r.pc = pc /\ r.todo = import[i].todo /\ r.row = import[i].row
      /\ r.doc = import[i].doc /\ r.policy = import[i].policy /\ r.began = import[i].began
  BY <1>1 DEF Locals, Pcs, Running, Working, InHand
<1> HIDE DEF r
<1>4. /\ r.doc \in Documents /\ r.todo \subseteq DOMAIN r.doc /\ r.row \in r.todo
      /\ \A k \in r.began : k \in Rows /\ Present(k)
      /\ r.policy = "fail" => DOMAIN r.doc \cap r.began = {}
      /\ r.policy # "replace" => r.row \notin r.began
  BY <1>1, <1>3 DEF Follows, Running, Working, Locals, Present
<1>5. pc # "Preflight"
  BY DEF Tagging
<1>6. Follows(r, table')
  BY <1>3, <1>4, <1>5 DEF Follows
<1> QED BY <1>2, <1>3, <1>6

\* The statements of a row.
LEMMA WriteLocals ==
    ASSUME Inv, NEW i \in Importers, Writes(i) \/ TagsDone(i)
    PROVE  \E r \in Locals : Local(i, r) /\ Follows(r, table')
<1>1. /\ import[i] \in Locals /\ import[i].left \in SUBSET Tags
      /\ import[i].calm \in BOOLEAN /\ import[i].pc \in InHand
      /\ \A k \in Rows : Present(k) => table'[k] # Absent
      /\ import[i].doc[import[i].row] \in Entries
  <2>1. import[i] \in Locals
    BY DEF Inv, TypeOK
  <2>2. import[i].pc \in InHand
    BY DEF Writes, Write, ClearTags, PutTag, PutState, TagsDone, At, InHand, Tagging
  <2> QED BY <2>1, <2>2, StepStores, RowInHand DEF Step, Locals
<1>2. import[i].pc \in Tagging => KindOf[import[i].row] = "targets"
  BY DEF Inv, Follows
<1>3. ASSUME Local(i, [import[i] EXCEPT !.pc = "Failed"])
      PROVE  \E r \in Locals : Local(i, r) /\ Follows(r, table')
  <2>1. [import[i] EXCEPT !.pc = "Failed"]
          = [import[i] EXCEPT !.pc = "Failed", !.calm = import[i].calm]
    BY <1>1 DEF Locals
  <2> QED BY <1>1, <1>3, <2>1, EndLocals
<1>4. ASSUME NEW pc \in Tagging, KindOf[import[i].row] = "targets",
             Local(i, [import[i] EXCEPT !.pc = pc])
      PROVE  \E r \in Locals : Local(i, r) /\ Follows(r, table')
  <2>1. [import[i] EXCEPT !.pc = pc] = [import[i] EXCEPT !.pc = pc, !.left = import[i].left]
    BY <1>1 DEF Locals
  <2> QED BY <1>1, <1>4, <2>1, SameRow
<1>5. CASE Write(i)
  BY <1>1, <1>3, <1>4, <1>5, DoneLocals DEF Write, Tagging
<1>6. CASE ClearTags(i)
  <2>1. import[i].doc[import[i].row].tags \in SUBSET Tags
    BY <1>1 DEF Entries
  <2>2. KindOf[import[i].row] = "targets"
    BY <1>2, <1>6 DEF ClearTags, At, Tagging
  <2> QED BY <1>1, <1>6, <2>1, <2>2, SameRow DEF ClearTags, Tagging
<1>7. ASSUME NEW g \in import[i].left, PutTag(i, g)
      PROVE  \E r \in Locals : Local(i, r) /\ Follows(r, table')
  <2>1. import[i].pc = "PutTags" /\ KindOf[import[i].row] = "targets"
    BY <1>2, <1>7 DEF PutTag, At, Tagging
  <2>2. [import[i] EXCEPT !.left = @ \ {g}]
          = [import[i] EXCEPT !.pc = "PutTags", !.left = import[i].left \ {g}]
        /\ import[i].left \ {g} \in SUBSET Tags
    BY <1>1, <2>1 DEF Locals
  <2> QED BY <1>1, <1>3, <1>7, <2>1, <2>2, SameRow DEF PutTag, Tagging
<1>8. CASE TagsDone(i)
  <2>1. KindOf[import[i].row] = "targets"
    BY <1>2, <1>8 DEF TagsDone, At, Tagging
  <2> QED BY <1>1, <1>4, <1>8, <2>1, DoneLocals DEF TagsDone, Tagging
<1>9. CASE PutState(i)
  BY <1>1, <1>3, <1>9, DoneLocals DEF PutState
<1> QED BY <1>5, <1>6, <1>7, <1>8, <1>9 DEF Writes

\* Every step of a request leaves it what it relies on.
LEMMA StepLocals ==
    ASSUME Inv, NEW i \in Importers, Step(i) \/ Fault(i)
    PROVE  \E r \in Locals : Local(i, r) /\ Follows(r, table')
<1>1. import[i] \in Locals /\ import[i].calm \in BOOLEAN
  BY DEF Inv, TypeOK, Locals
<1>2. CASE Record(i)
  <2>1. [import[i] EXCEPT !.pc = "Done"]
          = [import[i] EXCEPT !.pc = "Done", !.calm = import[i].calm]
    BY <1>1 DEF Locals
  <2>2. table' = table
    BY <1>2 DEF Record, stored
  <2> QED BY <1>1, <1>2, <2>1, <2>2, EndLocals DEF Record, Present
<1>3. CASE Fault(i)
  <2>1. table' = table
    BY <1>3 DEF Fault, stored
  <2> QED BY <1>1, <1>3, <2>1, EndLocals DEF Fault, Present
<1> QED BY <1>2, <1>3, OwnersLocals, PreflightLocals, LookLocals, WriteLocals DEF Step

----------------------------------------------------------------------------
\* Init establishes the invariant.
LEMMA InitInv == Init => Inv
<1> SUFFICES ASSUME Init PROVE Inv
  OBVIOUS
<1>1. table \in [Rows -> Entries \cup {Absent}] /\ Intact(table)
  BY TableAssumption DEF Init
<1>2. stateRow = {r \in Of("targets") : Present(r)}
  BY DEF Init
<1>3. tags \in [Of("targets") -> SUBSET Tags]
  <2>1. \A r \in Of("targets") : Present(r) => table[r].tags \subseteq Tags
    BY <1>1 DEF Of, Present, Entries
  <2> QED BY <2>1 DEF Init
<1>4. Waiting \in Locals /\ Waiting.pc = "Idle" /\ Waiting.began = {}
  BY DEF Waiting, Locals, Pcs, Policies
<1>5. \A i \in Importers : import[i] = Waiting
  BY DEF Init
<1>6. Follows(Waiting, table)
  BY <1>4 DEF Follows, Running, Working, InHand, Tagging
<1>7. import \in [Importers -> Locals] /\ trail \in Nat
  BY <1>4 DEF Init
<1>8. quota \in [imports : Nat, troubles : Nat]
  BY BoundsAssumption DEF Init
<1> QED BY <1>1, <1>2, <1>3, <1>5, <1>6, <1>7, <1>8 DEF Inv, TypeOK

\* Deleting a row takes what refers to it along, and a request that knew the
\* row forgets it.
LEMMA DeleteInv ==
    ASSUME Inv, NEW k \in Rows, Delete(k)
    PROVE  Inv'
<1>1. /\ table \in [Rows -> Entries \cup {Absent}] /\ Intact(table)
      /\ stateRow \subseteq Of("targets") /\ tags \in [Of("targets") -> SUBSET Tags]
      /\ trail \in Nat /\ quota \in [imports : Nat, troubles : Nat]
      /\ \A r \in stateRow : Present(r)
  BY DEF Inv, TypeOK
<1>2. /\ table' = [r \in Rows |-> IF r \in Cascade(k) THEN Absent
                                  ELSE IF Present(r) THEN [table[r] EXCEPT !.refs = @ \ {k}]
                                  ELSE Absent]
      /\ KindOf[k] \in {"targets", "channels"}
  BY DEF Delete
<1>3. \A r \in Rows : r \in Cascade(k) => r = k \/ KindOf[r] = "links"
  BY DEF Cascade, Of
<1>4. ASSUME NEW r \in Rows, r \notin Cascade(k), Present(r)
      PROVE  /\ table'[r] \in Entries /\ table'[r].refs = table[r].refs \ {k}
             /\ table'[r].mail = table[r].mail /\ table'[r] # Absent
  <2>1. table[r] \in Entries
    BY <1>1, <1>4 DEF Present
  <2>2. table'[r] = [table[r] EXCEPT !.refs = @ \ {k}]
    BY <1>2, <1>4
  <2> QED BY <2>1, <2>2, AbsentAssumption DEF Entries
<1>5. \A r \in Rows : r \in Cascade(k) \/ ~Present(r) => table'[r] = Absent
  BY <1>2
<1>6. table' \in [Rows -> Entries \cup {Absent}]
  <2>1. \A r \in Rows : table'[r] \in Entries \cup {Absent}
    BY <1>4, <1>5
  <2> QED BY <1>2, <2>1
<1>7. Intact(table)'
  <2>1. ASSUME NEW r \in Rows, table'[r] # Absent, NEW s \in table'[r].refs
        PROVE  table'[s] # Absent /\ KindOf[s] \in Refers[KindOf[r]]
    <3>1. r \notin Cascade(k) /\ Present(r) /\ s \in table[r].refs /\ s # k
      BY <1>4, <1>5, <2>1
    <3>2. table[r] \in Entries
      BY <1>1, <3>1 DEF Present
    <3>3. s \in Rows
      BY <3>1, <3>2 DEF Entries
    <3>4. table[s] # Absent /\ KindOf[s] \in Refers[KindOf[r]]
      BY <1>1, <3>1, <3>3 DEF Intact, Present
    <3>5. KindOf[r] \in Kinds
      BY KindAssumption
    <3>6. KindOf[s] # "links"
      BY <3>4, <3>5 DEF Refers, Kinds
    <3> QED BY <1>3, <1>4, <3>1, <3>3, <3>4, <3>6 DEF Present
  <2>2. ASSUME NEW r \in Of("users"), NEW s \in Of("users"), table'[r] # Absent,
               table'[s] # Absent, table'[r].mail = table'[s].mail
        PROVE  r = s
    <3>1. r \in Rows /\ s \in Rows
      BY DEF Of
    <3>2. /\ r \notin Cascade(k) /\ Present(r) /\ s \notin Cascade(k) /\ Present(s)
      BY <1>5, <2>2, <3>1
    <3> QED BY <1>1, <1>4, <2>2, <3>1, <3>2 DEF Intact, Present
  <2> QED BY <2>1, <2>2 DEF Intact, Of
<1>8. /\ stateRow' \subseteq Of("targets") /\ \A r \in stateRow' : table'[r] # Absent
  <2>1. stateRow' = stateRow \ {k}
    BY DEF Delete
  <2>2. \A r \in stateRow' : r \in Rows /\ Present(r) /\ r # k /\ KindOf[r] = "targets"
    BY <1>1, <2>1 DEF Of
  <2> QED BY <1>1, <1>3, <1>4, <2>1, <2>2
<1>9. tags' \in [Of("targets") -> SUBSET Tags]
  BY <1>1 DEF Delete
<1>10. trail' \in Nat /\ quota' \in [imports : Nat, troubles : Nat]
  <2>1. trail' = trail /\ Spend("troubles")
    BY DEF Delete
  <2> QED BY <1>1, <2>1 DEF Spend
<1>11. ASSUME NEW i \in Importers
       PROVE  import'[i] \in Locals /\ Follows(import'[i], table')
  <2> DEFINE r == import[i]
             q == [r EXCEPT !.calm = FALSE, !.began = @ \ Cascade(k)]
  <2>1. r \in Locals /\ Follows(r, table)
    BY DEF Inv, TypeOK
  <2>2. import'[i] = q
    BY DEF Delete
  <2> HIDE DEF r
  <2>3. /\ q \in Locals /\ q.pc = r.pc /\ q.doc = r.doc /\ q.todo = r.todo /\ q.row = r.row
        /\ q.policy = r.policy /\ q.hits = r.hits /\ q.began = r.began \ Cascade(k)
    BY <2>1 DEF Locals
  <2> HIDE DEF q
  <2>4. \A s \in q.began : table'[s] # Absent
    <3>1. \A s \in q.began : s \in Rows /\ s \notin Cascade(k) /\ Present(s)
      BY <2>1, <2>3 DEF Follows, Locals, Present
    <3> QED BY <1>4, <3>1
  <2>5. Follows(q, table')
    BY <2>1, <2>3, <2>4 DEF Follows
  <2> QED BY <2>2, <2>3, <2>5
<1>12. import' \in [Importers -> Locals]
  BY <1>11 DEF Delete
<1> QED BY <1>6, <1>7, <1>8, <1>9, <1>10, <1>11, <1>12 DEF Inv, TypeOK, Present

\* A step that changes the locals of one request and takes nothing away.
LEMMA OneInv ==
    ASSUME Inv, NEW i \in Importers, NEW r \in Locals, Local(i, r), Follows(r, table'),
           table' \in [Rows -> Entries \cup {Absent}], Intact(table)',
           \A k \in Rows : Present(k) => table'[k] # Absent,
           stateRow' \subseteq Of("targets"), \A k \in stateRow' : table'[k] # Absent,
           tags' \in [Of("targets") -> SUBSET Tags],
           trail' \in Nat, quota' \in [imports : Nat, troubles : Nat]
    PROVE  Inv'
<1>1. import \in [Importers -> Locals] /\ \A j \in Importers : Follows(import[j], table)
  BY DEF Inv, TypeOK
<1>2. /\ import' \in [Importers -> Locals] /\ import'[i] = r
      /\ \A j \in Importers \ {i} : import'[j] = import[j]
  BY <1>1 DEF Local
<1>3. ASSUME NEW j \in Importers PROVE Follows(import'[j], table')
  <2>1. CASE j = i
    BY <1>2, <2>1
  <2>2. CASE j # i
    <3>1. Follows(import[j], table) /\ import[j].began \subseteq Rows
      BY <1>1 DEF Locals
    <3>2. \A k \in import[j].began : table'[k] # Absent
      BY <3>1 DEF Follows, Present
    <3>3. Follows(import[j], table')
      BY <3>1, <3>2 DEF Follows
    <3> QED BY <1>2, <2>2, <3>3
  <2> QED BY <2>1, <2>2
<1> QED BY <1>2, <1>3 DEF Inv, TypeOK, Present

\* Every step keeps the invariant.
LEMMA InvStep == Inv /\ [Next]_vars => Inv'
<1> SUFFICES ASSUME Inv, [Next]_vars PROVE Inv'
  OBVIOUS
<1>0. /\ table \in [Rows -> Entries \cup {Absent}] /\ Intact(table)
      /\ stateRow \subseteq Of("targets") /\ tags \in [Of("targets") -> SUBSET Tags]
      /\ trail \in Nat /\ quota \in [imports : Nat, troubles : Nat]
      /\ \A r \in stateRow : Present(r)
  BY DEF Inv, TypeOK
<1>1. ASSUME NEW i \in Importers, NEW doc \in Documents, NEW policy \in Policies,
             Ask(i, doc, policy)
      PROVE  Inv'
  <2>1. UNCHANGED <<table, stateRow, tags, trail>> /\ quota' \in [imports : Nat, troubles : Nat]
    BY <1>0, <1>1 DEF Ask, stored, Spend
  <2>2. PICK r \in Locals : Local(i, r) /\ Follows(r, table')
    BY <1>1, AskLocals
  <2> QED BY <1>0, <2>1, <2>2, OneInv DEF Present, Intact
<1>2. ASSUME NEW i \in Importers, Step(i)
      PROVE  Inv'
  <2>1. PICK r \in Locals : Local(i, r) /\ Follows(r, table')
    BY <1>2, StepLocals
  <2> QED BY <1>2, <2>1, StepStores, StepKeeps, OneInv
<1>3. ASSUME NEW i \in Importers, Fault(i)
      PROVE  Inv'
  <2>1. UNCHANGED <<table, stateRow, tags, trail>> /\ quota' \in [imports : Nat, troubles : Nat]
    BY <1>0, <1>3 DEF Fault, stored, Spend
  <2>2. PICK r \in Locals : Local(i, r) /\ Follows(r, table')
    BY <1>3, StepLocals
  <2> QED BY <1>0, <2>1, <2>2, OneInv DEF Present, Intact
<1>4. CASE UNCHANGED vars
  BY <1>4 DEF vars, stored, Inv, TypeOK, Present, Intact, Follows
<1> QED BY <1>1, <1>2, <1>3, <1>4, DeleteInv DEF Next

\* The types hold in every state.
THEOREM TypeCorrect == Spec => []TypeOK
<1>1. Inv => TypeOK
  BY DEF Inv
<1> QED BY <1>1, InitInv, InvStep, PTL DEF Spec

\* No step of an import takes a row or a state row away.
THEOREM NothingLostHolds == Spec => NothingLost
<1>1. Inv /\ [Next]_vars =>
        [\A i \in Importers : Step(i) =>
            /\ \A r \in Rows : Present(r) => table'[r] # Absent
            /\ stateRow \subseteq stateRow']_vars
  BY StepStores, StepKeeps
<1> QED BY <1>1, InitInv, InvStep, PTL DEF Spec, NothingLost

\* With skip and fail an import writes no row, and no tag of a row, that was
\* there when it began: it has no such row in hand, and writes no other.
THEOREM UntouchedHolds == Spec => Untouched
<1>1. ASSUME Inv, NEW i \in Importers, NEW r \in Rows, Writes(i),
             r \in import[i].began, import[i].policy # "replace"
      PROVE  table'[r] = table[r] /\ (KindOf[r] = "targets" => tags'[r] = tags[r])
  <2>1. import[i].pc \in InHand
    BY <1>1 DEF Writes, Write, ClearTags, PutTag, PutState, At, InHand, Tagging
  <2>2. r # import[i].row
    BY <1>1, <2>1 DEF Inv, Follows
  <2> QED BY <1>1, <2>2, StepKeeps DEF Step
<1>2. Inv /\ [Next]_vars =>
        [\A i \in Importers, r \in Rows :
            (Writes(i) /\ r \in import[i].began /\ import[i].policy # "replace")
              => /\ table'[r] = table[r]
                 /\ KindOf[r] = "targets" => tags'[r] = tags[r]]_vars
  BY <1>1
<1> QED BY <1>2, InitInv, InvStep, PTL DEF Spec, Untouched

----------------------------------------------------------------------------
(* The export.                                                             *)

\* The tables read by the queries before the n-th.
KindsRead(n) == {Queries[m] : m \in 1 .. n - 1}

Shaped(e) ==
    /\ e = [pc |-> e.pc, users |-> e.users, next |-> e.next, doc |-> e.doc,
            added |-> e.added, lasting |-> e.lasting]
    /\ e.users \in BOOLEAN /\ e.next \in 1 .. 6
    /\ DOMAIN e.doc \subseteq Rows /\ e.lasting \subseteq Rows

\* What a document holds so far.  What is there of the tables that were read is
\* in it unless it came since, and so is what its rows refer to.
Holds(e, rows) ==
    /\ \A r \in e.lasting : rows[r] # Absent
    /\ \A r \in e.lasting : KindOf[r] \in KindsRead(e.next) => r \in DOMAIN e.doc
    /\ \A r \in Rows : (rows[r] # Absent /\ KindOf[r] \in KindsRead(e.next))
          => r \in DOMAIN e.doc \cup e.added
    /\ \A r \in DOMAIN e.doc : \A s \in e.doc[r].refs :
          /\ s \in Rows /\ KindOf[s] \in Refers[KindOf[r]]
          /\ KindOf[s] = "users" => rows[s] # Absent
          /\ KindOf[s] # "users" => s \in DOMAIN e.doc \cup e.added

ExportInv ==
    /\ Inv /\ Shaped(export)
    /\ export.pc \in {"Read", "Done"} => Holds(export, table)
    /\ export.pc = "Done" => \A kind \in Kinds : Wanted(kind) => kind \in KindsRead(export.next)

\* The n-th query reads a table whose rows refer to users and to tables read before.
LEMMA QueryOrder ==
    ASSUME NEW n \in DOMAIN Queries
    PROVE  /\ n \in 1 .. 5 /\ Queries[n] \in Kinds
           /\ KindsRead(n + 1) = KindsRead(n) \cup {Queries[n]}
           /\ Refers[Queries[n]] \ {"users"} \subseteq KindsRead(n)
<1>1. n \in 1 .. 5
  BY DEF Queries
<1>2. Queries[n] \in Kinds
  BY <1>1 DEF Queries, Kinds
<1>3. KindsRead(n + 1) = KindsRead(n) \cup {Queries[n]}
  <2>1. 1 .. (n + 1) - 1 = (1 .. n - 1) \cup {n}
    BY <1>1
  <2> QED BY <2>1 DEF KindsRead
<1>4. Refers[Queries[n]] \ {"users"} \subseteq KindsRead(n)
  <2>1. CASE n \in {1, 2, 5}
    BY <2>1 DEF Queries, Refers
  <2>2. CASE n \in {3, 4}
    <3>1. Queries[1] \in KindsRead(n) /\ Queries[2] \in KindsRead(n)
      BY <2>2 DEF KindsRead
    <3> QED BY <2>2, <3>1 DEF Queries, Refers
  <2> QED BY <1>1, <2>1, <2>2
<1> QED BY <1>1, <1>2, <1>3, <1>4

\* Where all was read, every table is among the tables read.
LEMMA AllRead ==
    ASSUME NEW n \in 1 .. 6, n \in DOMAIN Queries => Queries[n] = "users", NEW kind \in Kinds
    PROVE  kind \in KindsRead(n) \/ (kind = "users" /\ n \in DOMAIN Queries)
<1>1. n \in {5, 6} /\ (n = 5 => n \in DOMAIN Queries)
  BY DEF Queries
<1>2. \A m \in 1 .. 4 : Queries[m] \in KindsRead(n)
  BY <1>1 DEF KindsRead
<1>3. n = 6 => Queries[5] \in KindsRead(n)
  BY DEF KindsRead
<1> QED BY <1>1, <1>2, <1>3 DEF Queries, Kinds

\* Imports and deletes, seen from the export.
LEMMA WatchedKeeps ==
    ASSUME ExportInv, Inv', Watched,
           \A u \in Of("users") : Present(u) => table'[u] # Absent
    PROVE  ExportInv'
<1>1. CASE export.pc \notin {"Read", "Done"}
  <2>1. export' = export
    BY <1>1 DEF Watched
  <2> QED BY <1>1, <2>1 DEF ExportInv
<1>2. CASE export.pc \in {"Read", "Done"}
  <2>1. PICK e, q : e = export /\ q = export'
    OBVIOUS
  <2>2. PICK came, stay : /\ came = {r \in Rows : ~Present(r) /\ table'[r] # Absent}
                          /\ stay = {r \in e.lasting : table'[r] # Absent}
    OBVIOUS
  <2>3. Shaped(e) /\ Holds(e, table)
    BY <1>2, <2>1 DEF ExportInv
  <2>4. q = [e EXCEPT !.added = e.added \cup came, !.lasting = stay]
    BY <1>2, <2>1, <2>2 DEF Watched
  <2>5. /\ q.pc = e.pc /\ q.users = e.users /\ q.next = e.next /\ q.doc = e.doc
        /\ q.added = e.added \cup came /\ q.lasting = stay
        /\ Shaped(q)
    <3>1. q = [pc |-> e.pc, users |-> e.users, next |-> e.next, doc |-> e.doc,
               added |-> e.added \cup came, lasting |-> stay]
      BY <2>3, <2>4 DEF Shaped
    <3>2. stay \subseteq Rows
      BY <2>2, <2>3 DEF Shaped
    <3> QED BY <2>3, <3>1, <3>2 DEF Shaped
  <2>6. Holds(q, table')
    <3>1. ASSUME NEW r \in Rows, table'[r] # Absent, KindOf[r] \in KindsRead(q.next)
          PROVE  r \in DOMAIN q.doc \cup q.added
      <4>1. CASE Present(r)
        BY <2>3, <2>5, <3>1, <4>1 DEF Holds, Present
      <4>2. CASE ~Present(r)
        BY <2>2, <2>5, <3>1, <4>2
      <4> QED BY <4>1, <4>2
    <3>2. ASSUME NEW r \in DOMAIN q.doc, NEW s \in q.doc[r].refs
          PROVE  /\ s \in Rows /\ KindOf[s] \in Refers[KindOf[r]]
                 /\ KindOf[s] = "users" => table'[s] # Absent
                 /\ KindOf[s] # "users" => s \in DOMAIN q.doc \cup q.added
      BY <2>3, <2>5, <3>2 DEF Holds, Of, Present
    <3>3. \A r \in q.lasting : /\ table'[r] # Absent
                               /\ KindOf[r] \in KindsRead(q.next) => r \in DOMAIN q.doc
      BY <2>2, <2>3, <2>5 DEF Holds
    <3> QED BY <3>1, <3>2, <3>3 DEF Holds
  <2> QED BY <2>1, <2>5, <2>6 DEF ExportInv, Wanted
<1> QED BY <1>1, <1>2

\* One more table is read.
LEMMA ReadKeeps ==
    ASSUME ExportInv, ReadTable
    PROVE  ExportInv'
<1>1. PICK e, q, n, kind : /\ e = export /\ q = export' /\ n = export.next
                           /\ kind = Queries[export.next]
  OBVIOUS
<1>2. PICK rows, doc : rows = Selected(kind) /\ doc = Joined(e.doc, rows)
  OBVIOUS
<1>3. Shaped(e) /\ Holds(e, table) /\ n \in DOMAIN Queries
  BY <1>1 DEF ExportInv, ReadTable
<1>4. /\ n \in 1 .. 5 /\ kind \in Kinds
      /\ KindsRead(n + 1) = KindsRead(n) \cup {kind}
      /\ Refers[kind] \ {"users"} \subseteq KindsRead(n)
  BY <1>1, <1>3, QueryOrder
<1>5. /\ q.pc = "Read" /\ q.users = e.users /\ q.next = n + 1 /\ q.doc = doc
      /\ q.added = e.added /\ q.lasting = e.lasting
      /\ q = [pc |-> q.pc, users |-> q.users, next |-> q.next, doc |-> q.doc,
              added |-> q.added, lasting |-> q.lasting]
  <2>1. q = [e EXCEPT !.next = n + 1, !.doc = doc] /\ e.pc = "Read"
    BY <1>1, <1>2 DEF ReadTable
  <2>2. q = [pc |-> "Read", users |-> e.users, next |-> n + 1, doc |-> doc,
             added |-> e.added, lasting |-> e.lasting]
    BY <1>3, <2>1 DEF Shaped
  <2> QED BY <2>2
<1>6. /\ table' = table /\ Inv'
      /\ \A r \in Rows : table[r] # Absent => table[r] \in Entries
  <2>1. UNCHANGED vars
    BY DEF ReadTable
  <2>2. Inv'
    BY <2>1 DEF ExportInv, vars, stored, Inv, TypeOK, Present, Intact, Follows
  <2> QED BY <2>1, <2>2 DEF ExportInv, Inv, TypeOK, vars, stored
<1>7. /\ DOMAIN rows = {r \in Rows : KindOf[r] = kind /\ table[r] # Absent}
      /\ \A r \in DOMAIN rows : rows[r].refs = table[r].refs
  <2>1. DOMAIN rows = {r \in Of(kind) : Present(r)}
    BY <1>2 DEF Selected
  <2>2. ASSUME NEW r \in DOMAIN rows PROVE rows[r].refs = table[r].refs
    <3>1. rows[r] = IF kind = "targets" THEN [table[r] EXCEPT !.tags = tags[r]] ELSE table[r]
      BY <1>2, <2>1 DEF Selected
    <3>2. table[r] \in Entries
      BY <1>6, <2>1 DEF Of, Present
    <3> QED BY <3>1, <3>2 DEF Entries
  <2> QED BY <2>1, <2>2 DEF Of, Present
<1>8. /\ DOMAIN doc = DOMAIN e.doc \cup DOMAIN rows
      /\ \A r \in DOMAIN rows : doc[r].refs = table[r].refs
      /\ \A r \in DOMAIN e.doc \ DOMAIN rows : doc[r] = e.doc[r]
  BY <1>2, <1>7 DEF Joined
<1>9. Shaped(q)
  BY <1>3, <1>4, <1>5, <1>7, <1>8 DEF Shaped
<1>10. Holds(q, table)
  <2>1. ASSUME NEW r \in Rows, table[r] # Absent, KindOf[r] \in KindsRead(n + 1)
        PROVE  r \in DOMAIN doc \cup e.added
    BY <1>1, <1>3, <1>4, <1>7, <1>8, <2>1 DEF Holds
  <2>2. ASSUME NEW r \in DOMAIN doc, NEW s \in doc[r].refs
        PROVE  /\ s \in Rows /\ KindOf[s] \in Refers[KindOf[r]]
               /\ KindOf[s] = "users" => table[s] # Absent
               /\ KindOf[s] # "users" => s \in DOMAIN doc \cup e.added
    <3>1. CASE r \in DOMAIN rows
      <4>1. r \in Rows /\ KindOf[r] = kind /\ table[r] # Absent /\ s \in table[r].refs
        BY <1>7, <1>8, <2>2, <3>1
      <4>2. s \in Rows
        BY <1>6, <4>1 DEF Entries
      <4>3. table[s] # Absent /\ KindOf[s] \in Refers[kind]
        BY <4>1, <4>2 DEF ExportInv, Inv, Intact
      <4>4. KindOf[s] # "users" => KindOf[s] \in KindsRead(n + 1)
        BY <1>4, <4>3
      <4> QED BY <2>1, <4>1, <4>2, <4>3, <4>4
    <3>2. CASE r \notin DOMAIN rows
      BY <1>3, <1>8, <2>2, <3>2 DEF Holds
    <3> QED BY <3>1, <3>2
  <2>3. ASSUME NEW r \in e.lasting
        PROVE  /\ table[r] # Absent
               /\ KindOf[r] \in KindsRead(n + 1) => r \in DOMAIN doc
    <3>1. r \in Rows /\ table[r] # Absent
      BY <1>3, <2>3 DEF Holds, Shaped
    <3> QED BY <1>1, <1>3, <1>4, <1>7, <1>8, <2>3, <3>1 DEF Holds
  <2> QED BY <1>5, <2>1, <2>2, <2>3 DEF Holds
<1> QED BY <1>1, <1>5, <1>6, <1>9, <1>10 DEF ExportInv

\* Every step of an export, or beside one, keeps what is known of its document.
LEMMA ExportStep == ExportInv /\ [ExportNext]_<<vars, export>> => ExportInv'
<1> SUFFICES ASSUME ExportInv, [ExportNext]_<<vars, export>> PROVE ExportInv'
  OBVIOUS
<1>1. Inv /\ table \in [Rows -> Entries \cup {Absent}]
  BY DEF ExportInv, Inv, TypeOK
<1>2. CASE Next /\ Watched
  <2> DEFINE UsersStay == \A u \in Of("users") : Present(u) => table'[u] # Absent
  <2>1. Inv'
    BY <1>1, <1>2, InvStep
  <2>2. UsersStay
    <3>1. ASSUME NEW i \in Importers, Step(i) PROVE UsersStay
      BY <1>1, <3>1, StepStores DEF Of
    <3>2. ASSUME NEW k \in Rows, Delete(k) PROVE UsersStay
      <4>1. ASSUME NEW u \in Of("users"), Present(u) PROVE table'[u] # Absent
        <5>1. u \in Rows /\ KindOf[u] = "users" /\ table[u] \in Entries
          BY <1>1, <4>1 DEF Of, Present
        <5>2. u \notin Cascade(k)
          BY <3>2, <5>1 DEF Cascade, Of, Delete
        <5>3. table'[u] = [table[u] EXCEPT !.refs = @ \ {k}]
          BY <3>2, <4>1, <5>1, <5>2 DEF Delete
        <5>4. [table[u] EXCEPT !.refs = @ \ {k}] \in Entries
          BY <5>1 DEF Entries
        <5> QED BY <5>3, <5>4, AbsentAssumption
      <4> QED BY <4>1
    <3>3. ASSUME table' = table PROVE UsersStay
      BY <3>3 DEF Present
    <3>4. \A i \in Importers, doc \in Documents, policy \in Policies :
             Ask(i, doc, policy) => table' = table
      BY DEF Ask, stored
    <3>5. \A i \in Importers : Fault(i) => table' = table
      BY DEF Fault, stored
    <3> QED BY <1>2, <3>1, <3>2, <3>3, <3>4, <3>5 DEF Next
  <2> QED BY <1>2, <2>1, <2>2, WatchedKeeps
<1>3. ASSUME UNCHANGED <<stored, import>>, trail' \in Nat,
             quota' \in [imports : Nat, troubles : Nat]
      PROVE  Inv' /\ table' = table
  BY <1>1, <1>3 DEF stored, Inv, TypeOK, Present, Intact, Follows
<1>4. trail \in Nat /\ quota \in [imports : Nat, troubles : Nat]
  BY <1>1 DEF Inv, TypeOK
<1>5. ASSUME NEW users \in BOOLEAN, AskExport(users) PROVE ExportInv'
  <2>1. Inv' /\ table' = table
    BY <1>3, <1>4, <1>5 DEF AskExport, Spend
  <2>2. PICK q, stay : q = export' /\ stay = {r \in Rows : Present(r)}
    OBVIOUS
  <2>3. q = [pc |-> "Read", users |-> users, next |-> 1, doc |-> <<>>, added |-> {},
             lasting |-> stay]
    BY <1>5, <2>2 DEF AskExport, Unasked
  <2>4. KindsRead(1) = {} /\ DOMAIN <<>> = {}
    BY DEF KindsRead
  <2>5. Shaped(q)
    BY <2>2, <2>3, <2>4 DEF Shaped
  <2>6. Holds(q, table)
    BY <2>2, <2>3, <2>4 DEF Holds, Present
  <2> QED BY <2>1, <2>2, <2>3, <2>5, <2>6 DEF ExportInv
<1>6. CASE Answer
  <2>1. Inv' /\ table' = table
    BY <1>3, <1>4, <1>6 DEF Answer, Spend
  <2>2. PICK e, q : e = export /\ q = export'
    OBVIOUS
  <2>3. Shaped(e) /\ Holds(e, table) /\ (e.next \in DOMAIN Queries => ~Wanted(Queries[e.next]))
    BY <1>6, <2>2 DEF ExportInv, Answer
  <2>4. /\ q.pc = "Done" /\ q.users = e.users /\ q.next = e.next /\ q.doc = e.doc
        /\ q.added = e.added /\ q.lasting = e.lasting /\ Shaped(q)
    <3>1. q = [e EXCEPT !.pc = "Done"]
      BY <1>6, <2>2 DEF Answer
    <3>2. q = [pc |-> "Done", users |-> e.users, next |-> e.next, doc |-> e.doc,
               added |-> e.added, lasting |-> e.lasting]
      BY <2>3, <3>1 DEF Shaped
    <3> QED BY <2>3, <3>2 DEF Shaped
  <2>5. Holds(q, table)
    BY <2>3, <2>4 DEF Holds
  <2>6. ASSUME NEW kind \in Kinds, kind = "users" => q.users PROVE kind \in KindsRead(q.next)
    <3>1. e.next \in DOMAIN Queries => Queries[e.next] = "users" /\ ~e.users
      BY <2>2, <2>3 DEF Wanted
    <3>2. e.next \in 1 .. 6
      BY <2>3 DEF Shaped
    <3> QED BY <2>4, <2>6, <3>1, <3>2, AllRead
  <2> QED BY <2>1, <2>2, <2>4, <2>5, <2>6 DEF ExportInv, Wanted
<1>7. CASE ExportFault
  <2>1. Inv' /\ table' = table
    BY <1>3, <1>4, <1>7 DEF ExportFault, Spend
  <2>2. export' = [pc |-> "Failed", users |-> FALSE, next |-> 1, doc |-> <<>>,
                   added |-> {}, lasting |-> {}]
    BY <1>7 DEF ExportFault, Unasked
  <2>3. Shaped(export)'
    BY <2>2 DEF Shaped
  <2> QED BY <2>1, <2>2, <2>3 DEF ExportInv
<1>8. CASE UNCHANGED <<vars, export>>
  <2>1. UNCHANGED <<stored, import>> /\ trail' = trail /\ quota' = quota /\ export' = export
    BY <1>8 DEF vars
  <2>2. Inv' /\ table' = table
    BY <1>3, <1>4, <2>1
  <2> QED BY <2>1, <2>2 DEF ExportInv, Wanted
<1>9. CASE ReadTable
  BY <1>9, ReadKeeps
<1> QED BY <1>2, <1>5, <1>6, <1>7, <1>8, <1>9 DEF ExportNext

\* An exported document holds every row that was there all the while and names
\* nothing it does not hold but what came meanwhile, or a user that is still
\* there: a row is read after those it refers to, and a deletion takes or frees
\* what refers to it (db/migration.rs, export_all).
THEOREM ExportAppliesHolds == ExportSpec => []ExportApplies
<1>1. ExportInit => ExportInv
  <2> SUFFICES ASSUME ExportInit PROVE ExportInv
    OBVIOUS
  <2>1. Inv
    BY InitInv DEF ExportInit
  <2>2. export = Unasked /\ DOMAIN <<>> = {}
    BY DEF ExportInit
  <2> QED BY <2>1, <2>2 DEF ExportInv, Unasked, Shaped
<1>2. ASSUME ExportInv PROVE ExportApplies
  <2> SUFFICES ASSUME export.pc = "Done" PROVE ExportApplies
    BY DEF ExportApplies
  <2>1. PICK e, doc : e = export /\ doc = export.doc
    OBVIOUS
  <2>2. /\ Shaped(e) /\ Holds(e, table)
        /\ \A kind \in Kinds : Wanted(kind) => kind \in KindsRead(e.next)
    BY <1>2, <2>1 DEF ExportInv
  <2>3. \A r \in e.lasting : Wanted(KindOf[r]) => r \in DOMAIN doc
    BY <2>1, <2>2, KindAssumption DEF Shaped, Holds
  <2>4. ASSUME NEW r \in DOMAIN doc, NEW s \in doc[r].refs
        PROVE  /\ s \in Rows
               /\ KindOf[s] = "users" => Present(s)
               /\ \/ s \in DOMAIN doc \/ s \in e.added
                  \/ KindOf[s] = "users" /\ ~e.users /\ Present(s)
    <3>1. /\ s \in Rows
          /\ KindOf[s] = "users" => table[s] # Absent
          /\ KindOf[s] # "users" => s \in DOMAIN doc \cup e.added
      BY <2>1, <2>2, <2>4 DEF Holds
    <3>2. CASE KindOf[s] = "users" /\ e.users
      <4>1. "users" \in KindsRead(e.next)
        BY <2>1, <2>2, <3>2 DEF Wanted, Kinds
      <4> QED BY <2>1, <2>2, <3>1, <3>2, <4>1 DEF Holds, Present
    <3> QED BY <3>1, <3>2 DEF Present, Shaped
  <2>5. ASSUME e.added = {} PROVE Validates(doc) /\ OwnersResolve(doc)
    <3>1. ASSUME NEW r \in DOMAIN doc, KindOf[r] = "links", NEW s \in doc[r].refs
          PROVE  s \in DOMAIN doc
      <4>1. KindOf[s] \in Refers["links"]
        BY <2>1, <2>2, <3>1 DEF Holds
      <4>2. KindOf[s] # "users"
        BY <4>1 DEF Refers
      <4> QED BY <2>4, <2>5, <3>1, <4>2
    <3>2. Validates(doc)
      BY <3>1 DEF Validates
    <3>3. OwnersResolve(doc)
      BY <2>4 DEF OwnersResolve, RefsTo
    <3> QED BY <3>2, <3>3
  <2> QED BY <2>1, <2>3, <2>4, <2>5 DEF ExportApplies
<1> QED BY <1>1, <1>2, ExportStep, PTL DEF ExportSpec

----------------------------------------------------------------------------
\* The document of a running request, row by row.
LEMMA Document ==
    ASSUME Inv, NEW i \in Importers, import[i].pc \in Running
    PROVE  /\ import[i] \in Locals /\ import[i].doc \in Documents
           /\ import[i].todo \subseteq DOMAIN import[i].doc
           /\ DOMAIN import[i].doc \subseteq Rows /\ IsFiniteSet(DOMAIN import[i].doc)
           /\ \A k \in DOMAIN import[i].doc :
                 /\ import[i].doc[k] \in Entries
                 /\ \A s \in import[i].doc[k].refs :
                       s \in Rows /\ KindOf[s] \in Refers[KindOf[k]]
<1>1. import[i] \in Locals /\ Follows(import[i], table)
  BY DEF Inv, TypeOK
<1>2. import[i].doc \in Documents /\ import[i].todo \subseteq DOMAIN import[i].doc
  BY <1>1 DEF Follows
<1>3. /\ DOMAIN import[i].doc \subseteq Rows /\ IsFiniteSet(DOMAIN import[i].doc)
      /\ \A k \in DOMAIN import[i].doc :
            /\ import[i].doc[k] \in Entries
            /\ \A s \in import[i].doc[k].refs : KindOf[s] \in Refers[KindOf[k]]
  BY <1>2, DocumentAssumption
<1>4. \A k \in DOMAIN import[i].doc : import[i].doc[k].refs \subseteq Rows
  BY <1>3 DEF Entries
<1> QED BY <1>1, <1>2, <1>3, <1>4

\* A step changes neither what a request has been told of its calm nor what it
\* found sound, and never makes it idle again.
LEMMA StepFields ==
    ASSUME Inv, NEW i \in Importers, Step(i)
    PROVE  /\ import'[i].calm = import[i].calm /\ import'[i].sound = import[i].sound
           /\ import'[i].pc # "Idle"
           /\ \A j \in Importers \ {i} : import'[j] = import[j]
<1>1. import \in [Importers -> Locals] /\ import[i] \in Locals
  BY DEF Inv, TypeOK
<1>2. ASSUME NEW r, Local(i, r), r.calm = import[i].calm, r.sound = import[i].sound,
             r.pc # "Idle"
      PROVE  /\ import'[i].calm = import[i].calm /\ import'[i].sound = import[i].sound
             /\ import'[i].pc # "Idle"
             /\ \A j \in Importers \ {i} : import'[j] = import[j]
  BY <1>1, <1>2 DEF Local
<1>3. ASSUME NEW pc \in Pcs \ {"Idle"}, Local(i, [import[i] EXCEPT !.pc = pc])
      PROVE  \E r : Local(i, r) /\ r.calm = import[i].calm /\ r.sound = import[i].sound
                                /\ r.pc # "Idle"
  <2> DEFINE r == [import[i] EXCEPT !.pc = pc]
  <2>1. r.calm = import[i].calm /\ r.sound = import[i].sound /\ r.pc # "Idle"
    BY <1>1, <1>3 DEF Locals, Pcs
  <2>2. Local(i, r)
    BY <1>1, <1>3
  <2> HIDE DEF r
  <2> QED BY <2>1, <2>2
<1>4. ASSUME NEW pc \in Pcs \ {"Idle"}, NEW todo,
             Local(i, [import[i] EXCEPT !.pc = pc, !.todo = todo])
      PROVE  \E r : Local(i, r) /\ r.calm = import[i].calm /\ r.sound = import[i].sound
                                /\ r.pc # "Idle"
  <2> DEFINE r == [import[i] EXCEPT !.pc = pc, !.todo = todo]
  <2>1. r.calm = import[i].calm /\ r.sound = import[i].sound /\ r.pc # "Idle"
    BY <1>1, <1>4 DEF Locals, Pcs
  <2>2. Local(i, r)
    BY <1>1, <1>4
  <2> HIDE DEF r
  <2> QED BY <2>1, <2>2
<1>5. ASSUME NEW left, import[i].pc # "Idle", Local(i, [import[i] EXCEPT !.left = left])
      PROVE  \E r : Local(i, r) /\ r.calm = import[i].calm /\ r.sound = import[i].sound
                                /\ r.pc # "Idle"
  <2> DEFINE r == [import[i] EXCEPT !.left = left]
  <2>1. r.calm = import[i].calm /\ r.sound = import[i].sound /\ r.pc # "Idle"
    BY <1>1, <1>5 DEF Locals, Pcs
  <2>2. Local(i, r)
    BY <1>1, <1>5
  <2> HIDE DEF r
  <2> QED BY <2>1, <2>2
<1>6. ASSUME Local(i, Tallied(import[i]))
      PROVE  \E r : Local(i, r) /\ r.calm = import[i].calm /\ r.sound = import[i].sound
                                /\ r.pc # "Idle"
  BY <1>1, <1>6, TalliedLocals
<1>7. CASE Owners(i)
  BY <1>2, <1>3, <1>4, <1>7 DEF Owners, Pcs, Running, Working
<1>8. CASE Preflight(i)
  <2>1. ASSUME NEW todo, NEW hits, Local(i, [import[i] EXCEPT !.todo = todo, !.hits = hits])
        PROVE  \E r : Local(i, r) /\ r.calm = import[i].calm /\ r.sound = import[i].sound
                                  /\ r.pc # "Idle"
    <3> DEFINE r == [import[i] EXCEPT !.todo = todo, !.hits = hits]
    <3>1. r.calm = import[i].calm /\ r.sound = import[i].sound /\ r.pc # "Idle"
      BY <1>1, <1>8, <2>1 DEF Locals, Preflight, At, Pcs
    <3>2. Local(i, r)
      BY <1>1, <1>8, <2>1
    <3> HIDE DEF r
    <3> QED BY <3>1, <3>2
  <2> QED BY <1>2, <1>3, <1>4, <1>8, <2>1 DEF Preflight, Pcs, Running, Working
<1>9. CASE Look(i)
  <2>1. ASSUME NEW todo, NEW n, Local(i, [import[i] EXCEPT !.todo = todo, !.skipped = n])
        PROVE  \E r : Local(i, r) /\ r.calm = import[i].calm /\ r.sound = import[i].sound
                                  /\ r.pc # "Idle"
    <3> DEFINE r == [import[i] EXCEPT !.todo = todo, !.skipped = n]
    <3>1. r.calm = import[i].calm /\ r.sound = import[i].sound /\ r.pc # "Idle"
      BY <1>1, <1>9, <2>1 DEF Locals, Look, At, Pcs
    <3>2. Local(i, r)
      BY <1>1, <1>9, <2>1
    <3> HIDE DEF r
    <3> QED BY <3>1, <3>2
  <2>2. ASSUME NEW k, NEW found,
               Local(i, [import[i] EXCEPT !.pc = "Write", !.row = k, !.existed = found])
        PROVE  \E r : Local(i, r) /\ r.calm = import[i].calm /\ r.sound = import[i].sound
                                  /\ r.pc # "Idle"
    <3> DEFINE r == [import[i] EXCEPT !.pc = "Write", !.row = k, !.existed = found]
    <3>1. r.calm = import[i].calm /\ r.sound = import[i].sound /\ r.pc # "Idle"
      BY <1>1, <2>2 DEF Locals, Pcs
    <3>2. Local(i, r)
      BY <1>1, <2>2
    <3> HIDE DEF r
    <3> QED BY <3>1, <3>2
  <2> QED BY <1>2, <1>9, <2>1, <2>2 DEF Look
<1>10. CASE Write(i)
  BY <1>2, <1>3, <1>6, <1>10 DEF Write, Pcs, Running, Working, InHand, Tagging
<1>11. CASE ClearTags(i)
  <2>1. ASSUME NEW left, Local(i, [import[i] EXCEPT !.pc = "PutTags", !.left = left])
        PROVE  \E r : Local(i, r) /\ r.calm = import[i].calm /\ r.sound = import[i].sound
                                  /\ r.pc # "Idle"
    <3> DEFINE r == [import[i] EXCEPT !.pc = "PutTags", !.left = left]
    <3>1. r.calm = import[i].calm /\ r.sound = import[i].sound /\ r.pc # "Idle"
      BY <1>1, <2>1 DEF Locals, Pcs
    <3>2. Local(i, r)
      BY <1>1, <2>1
    <3> HIDE DEF r
    <3> QED BY <3>1, <3>2
  <2> QED BY <1>2, <1>11, <2>1 DEF ClearTags
<1>12. ASSUME NEW g \in import[i].left, PutTag(i, g)
       PROVE  \E r : Local(i, r) /\ r.calm = import[i].calm /\ r.sound = import[i].sound
                                 /\ r.pc # "Idle"
  BY <1>3, <1>5, <1>12 DEF PutTag, At, Pcs
<1>13. CASE TagsDone(i) \/ PutState(i)
  BY <1>2, <1>3, <1>6, <1>13 DEF TagsDone, PutState, Pcs, Running, Working, InHand, Tagging
<1>14. CASE Record(i)
  BY <1>2, <1>3, <1>14 DEF Record, Pcs
<1> QED BY <1>2, <1>7, <1>8, <1>9, <1>10, <1>11, <1>12, <1>13, <1>14 DEF Step, Writes

\* A document that resolves goes on doing so while it is written: rows are added,
\* and those written have the document's addresses.
LEMMA StillResolves ==
    ASSUME Inv, NEW i \in Importers, Step(i), Resolves(i), import[i].pc \in Running,
           import'[i].doc = import[i].doc,
           import'[i].pc \in Running \ {"Owners"} => OwnersResolve(import[i].doc)
    PROVE  Resolves(i)'
<1> DEFINE doc == import[i].doc
<1>0. /\ DOMAIN doc \subseteq Rows /\ Validates(doc)
      /\ import[i].sound => ~Dangling(doc) /\ ~Clashing(doc)
      /\ \A k \in DOMAIN doc : doc[k] \in Entries /\ doc[k].refs \subseteq Rows
  BY Document DEF Resolves
<1>1. \A k \in Rows : Present(k) => table'[k] # Absent
  BY StepStores
<1>2. import[i].sound => ~Dangling(doc)'
  BY <1>0, <1>1 DEF Dangling, Present
<1>3. OwnersResolve(doc) => OwnersResolve(doc)'
  <2>1. \A k \in DOMAIN doc : RefsTo(doc[k], "users") \subseteq Rows
    BY <1>0 DEF RefsTo
  <2> QED BY <1>1, <2>1 DEF OwnersResolve, Present, RefsTo
<1>4. ASSUME NEW s \in Of("users"), s \notin DOMAIN doc
      PROVE  table'[s] = table[s]
  <2>1. CASE Writes(i) /\ s = import[i].row
    BY <1>4, <2>1, RowInHand
       DEF Writes, Write, ClearTags, PutTag, PutState, At, InHand, Tagging
  <2>2. CASE ~(Writes(i) /\ s = import[i].row)
    BY <2>2, StepKeeps DEF Of
  <2> QED BY <2>1, <2>2
<1>5. ASSUME NEW s \in Of("users"), s \in DOMAIN doc, table'[s] # table[s]
      PROVE  table'[s].mail = doc[s].mail
  <2>1. s \in Rows /\ KindOf[s] = "users"
    BY DEF Of
  <2>2. Writes(i) /\ s = import[i].row
    BY <1>5, <2>1, StepKeeps
  <2>3. Write(i)
    BY <1>5, <2>2 DEF Writes, ClearTags, PutTag, PutState
  <2>4. table' = [table EXCEPT ![s] = Written(s, doc[s])] /\ table \in [Rows -> Entries \cup {Absent}]
    BY <1>5, <2>2, <2>3, WriteEffect DEF Inv, TypeOK
  <2>5. Written(s, doc[s]).mail = doc[s].mail
    BY <1>0, <1>5, <2>1, WrittenRow DEF Inv
  <2> QED BY <2>1, <2>4, <2>5
<1>6. ASSUME import[i].sound PROVE ~Clashing(doc)'
  <2>1. SUFFICES ASSUME NEW r \in DOMAIN doc, NEW s \in Of("users"),
                        KindOf[r] = "users", r # s,
                        \/ table'[s] # Absent /\ table'[s].mail = doc[r].mail
                        \/ s \in DOMAIN doc /\ doc[s].mail = doc[r].mail
                 PROVE  FALSE
    BY DEF Clashing, Present
  <2>2. s \notin DOMAIN doc \/ doc[s].mail # doc[r].mail
    BY <1>0, <1>6, <2>1 DEF Clashing
  <2>3. table'[s] = table[s]
    BY <1>4, <1>5, <2>1, <2>2
  <2> QED BY <1>0, <1>6, <2>1, <2>2, <2>3 DEF Clashing, Present
<1>7. Validates(doc)' <=> Validates(doc)
  BY DEF Validates
<1>8. import[i].pc # "Owners" => OwnersResolve(doc)
  BY DEF Resolves
<1>9. import'[i].sound = import[i].sound
  BY StepFields
<1> QED BY <1>0, <1>2, <1>3, <1>6, <1>7, <1>8, <1>9 DEF Resolves, Validates, Dangling, Clashing, OwnersResolve

\* A row that is not in hand when a step is taken is as it was.
LEMMA Unwritten ==
    ASSUME Inv, NEW i \in Importers, Step(i), import[i].pc \in Running,
           NEW k \in DOMAIN import[i].doc, import[i].pc \in InHand => k # import[i].row
    PROVE  /\ k \in Rows /\ table'[k] = table[k]
           /\ KindOf[k] = "targets" => tags'[k] = tags[k]
<1>1. k \in Rows
  BY Document
<1>2. Writes(i) => import[i].pc \in InHand
  BY DEF Writes, Write, ClearTags, PutTag, PutState, At, InHand, Tagging
<1> QED BY <1>1, <1>2, StepKeeps

\* What is done is not in hand.
LEMMA DoneRows ==
    ASSUME Inv, NEW i \in Importers, import[i].pc \in Running
    PROVE  /\ Applied(i) \subseteq DOMAIN import[i].doc
           /\ import[i].pc \in InHand => import[i].row \in DOMAIN import[i].doc \ Applied(i)
BY Document DEF Applied, InHand, Working, Inv, Follows, Running

\* What is done stays done.
LEMMA StillDone ==
    ASSUME Inv, NEW i \in Importers, Step(i), Progress(i), import[i].pc \in Running,
           import'[i].doc = import[i].doc, import'[i].began = import[i].began,
           import'[i].policy = import[i].policy,
           NEW k \in Applied(i)
    PROVE  /\ k \in Rows /\ table'[k] # Absent
           /\ import'[i].policy = "replace" \/ k \notin import'[i].began => AsInDocument(i, k)'
<1>1. /\ k \in DOMAIN import[i].doc /\ Present(k)
      /\ import[i].policy = "replace" \/ k \notin import[i].began => AsInDocument(i, k)
  BY DoneRows DEF Progress
<1>2. /\ k \in Rows /\ table'[k] = table[k]
      /\ KindOf[k] = "targets" => tags'[k] = tags[k]
  BY <1>1, DoneRows, Unwritten
<1>3. AsInDocument(i, k) => AsInDocument(i, k)'
  BY <1>2 DEF AsInDocument, Stands
<1> QED BY <1>1, <1>2, <1>3 DEF Present

\* A step that does not finish a row.
LEMMA SameProgress ==
    ASSUME Inv, NEW i \in Importers, Step(i), Progress(i), import[i].pc \in Running,
           import'[i].doc = import[i].doc, import'[i].began = import[i].began,
           import'[i].policy = import[i].policy,
           Applied(i)' = Applied(i), import'[i].inserted = import[i].inserted,
           import'[i].replaced = import[i].replaced, import'[i].skipped = import[i].skipped,
           import[i].pc \in InHand =>
               import'[i].pc \in InHand /\ import'[i].row = import[i].row
    PROVE  Progress(i)'
<1>1. \A k \in Applied(i) :
         /\ table'[k] # Absent
         /\ import'[i].policy = "replace" \/ k \notin import'[i].began => AsInDocument(i, k)'
  BY StillDone
<1>2. ASSUME NEW k \in DOMAIN import[i].doc \ Applied(i), table'[k] # Absent,
             k \notin import[i].began
      PROVE  import'[i].pc \in InHand /\ k = import'[i].row
  <2>1. CASE import[i].pc \in InHand /\ k = import[i].row
    BY <2>1
  <2>2. CASE ~(import[i].pc \in InHand /\ k = import[i].row)
    <3>1. Present(k)
      BY <1>2, <2>2, Unwritten DEF Present
    <3> QED BY <1>2, <2>2, <3>1 DEF Progress
  <2> QED BY <2>1, <2>2
<1>3. /\ import'[i].inserted = Cardinality(Applied(i)' \ import'[i].began)
      /\ import'[i].replaced + import'[i].skipped = Cardinality(Applied(i)' \cap import'[i].began)
  BY DEF Progress
<1> QED BY <1>1, <1>2, <1>3 DEF Progress, Present

\* A step that finishes a row.
LEMMA MoreProgress ==
    ASSUME Inv, NEW i \in Importers, Step(i), Progress(i), import[i].pc \in Running,
           import'[i].doc = import[i].doc, import'[i].began = import[i].began,
           import'[i].policy = import[i].policy,
           NEW k \in DOMAIN import[i].doc \ Applied(i),
           Applied(i)' = Applied(i) \cup {k},
           import[i].pc \in InHand => k = import[i].row,
           table'[k] # Absent,
           import[i].policy = "replace" \/ k \notin import[i].began => AsInDocument(i, k)',
           IF k \in import[i].began
           THEN /\ import'[i].inserted = import[i].inserted
                /\ import'[i].replaced + import'[i].skipped
                     = import[i].replaced + import[i].skipped + 1
           ELSE /\ import'[i].inserted = import[i].inserted + 1
                /\ import'[i].replaced + import'[i].skipped
                     = import[i].replaced + import[i].skipped
    PROVE  Progress(i)'
<1>1. \A j \in Applied(i) :
         /\ table'[j] # Absent
         /\ import'[i].policy = "replace" \/ j \notin import'[i].began => AsInDocument(i, j)'
  BY StillDone
<1>2. ASSUME NEW j \in DOMAIN import[i].doc \ (Applied(i) \cup {k}), table'[j] # Absent,
             j \notin import[i].began
      PROVE  FALSE
  <2>1. Present(j)
    BY <1>2, Unwritten DEF Present
  <2> QED BY <1>2, <2>1 DEF Progress
<1>3. /\ import'[i].inserted = Cardinality(Applied(i)' \ import'[i].began)
      /\ import'[i].replaced + import'[i].skipped = Cardinality(Applied(i)' \cap import'[i].began)
  <2> DEFINE new == Applied(i) \ import[i].began
             old == Applied(i) \cap import[i].began
  <2>1. IsFiniteSet(new) /\ IsFiniteSet(old)
    <3>1. IsFiniteSet(Applied(i))
      BY Document, DoneRows, FS_Subset
    <3> QED BY <3>1, FS_Subset
  <2>2. /\ import[i].inserted = Cardinality(new)
        /\ import[i].replaced + import[i].skipped = Cardinality(old)
    BY DEF Progress
  <2>3. k \notin new /\ k \notin old
    OBVIOUS
  <2>4. CASE k \in import[i].began
    <3>1. Applied(i)' \ import'[i].began = new /\ Applied(i)' \cap import'[i].began = old \cup {k}
      BY <2>4
    <3>2. Cardinality(old \cup {k}) = Cardinality(old) + 1
      BY <2>1, <2>3, FS_AddElement
    <3> QED BY <2>2, <2>4, <3>1, <3>2
  <2>5. CASE k \notin import[i].began
    <3>1. Applied(i)' \ import'[i].began = new \cup {k} /\ Applied(i)' \cap import'[i].began = old
      BY <2>5
    <3>2. Cardinality(new \cup {k}) = Cardinality(new) + 1
      BY <2>1, <2>3, FS_AddElement
    <3> QED BY <2>2, <2>5, <3>1, <3>2
  <2> QED BY <2>4, <2>5
<1> QED BY <1>1, <1>2, <1>3 DEF Progress, Present

\* A request that has ended knows nothing that could be undone.
LEMMA EndKnows ==
    ASSUME NEW i \in Importers, import'[i].pc \in {"Done", "Failed", "Refused", "Dry"},
           import'[i].sound => import'[i].pc # "Failed"
    PROVE  Knows(i)'
BY DEF Knows, Resolves, Progress, Hand, Running, Working, InHand, Tagging

\* From the checks to the first row: nothing is done.
LEMMA OwnersKnows ==
    ASSUME Inv, NEW i \in Importers, Knows(i), Owners(i)
    PROVE  Knows(i)'
<1>1. /\ import \in [Importers -> Locals] /\ import[i].pc = "Owners" /\ Step(i)
      /\ import[i].pc \in Running /\ Resolves(i) /\ Progress(i)
  BY DEF Inv, TypeOK, Knows, Owners, At, Running, Step
<1>2. CASE Local(i, [import[i] EXCEPT !.pc = "Refused"]) \/ Local(i, [import[i] EXCEPT !.pc = "Dry"])
  <2>1. import'[i].pc \in {"Refused", "Dry"}
    BY <1>1, <1>2 DEF Local, Locals
  <2> QED BY <2>1, EndKnows
<1>3. ASSUME NEW pc \in {"Preflight", "Look"}, OwnersResolve(import[i].doc),
             Local(i, [import[i] EXCEPT !.pc = pc, !.todo = DOMAIN import[i].doc])
      PROVE  Knows(i)'
  <2> DEFINE r == [import[i] EXCEPT !.pc = pc, !.todo = DOMAIN import[i].doc]
  <2>1. import'[i] = r /\ import[i] \in Locals
    BY <1>1, <1>3 DEF Local
  <2>2. /\ r.pc = pc /\ r.doc = import[i].doc /\ r.todo = DOMAIN import[i].doc
        /\ r.began = import[i].began /\ r.policy = import[i].policy
        /\ r.inserted = import[i].inserted /\ r.replaced = import[i].replaced
        /\ r.skipped = import[i].skipped
    BY <2>1 DEF Locals
  <2> HIDE DEF r
  <2>3. Applied(i) = {} /\ Applied(i)' = {}
    BY <1>1, <2>1, <2>2 DEF Applied, Working, InHand, Tagging
  <2>4. Resolves(i)'
    BY <1>1, <1>3, <2>1, <2>2, StillResolves
  <2>5. Progress(i)'
    BY <1>1, <2>1, <2>2, <2>3, SameProgress DEF InHand, Tagging
  <2>6. Hand(i)'
    BY <2>1, <2>2 DEF Hand, InHand, Tagging
  <2> QED BY <2>4, <2>5, <2>6 DEF Knows
<1> QED BY <1>2, <1>3 DEF Owners

\* The preflight writes nothing.
LEMMA PreflightKnows ==
    ASSUME Inv, NEW i \in Importers, Knows(i), Preflight(i)
    PROVE  Knows(i)'
<1>1. /\ import \in [Importers -> Locals] /\ import[i].pc = "Preflight" /\ Step(i)
      /\ import[i].pc \in Running /\ Resolves(i) /\ Progress(i)
      /\ OwnersResolve(import[i].doc)
  BY DEF Inv, TypeOK, Knows, Resolves, Preflight, At, Running, Step
<1>2. ASSUME NEW r, import' = [import EXCEPT ![i] = r], r.pc \in {"Preflight", "Look"},
             r.doc = import[i].doc, r.pc = "Look" => r.todo = DOMAIN r.doc,
             r.began = import[i].began, r.policy = import[i].policy,
             r.inserted = import[i].inserted, r.replaced = import[i].replaced,
             r.skipped = import[i].skipped
      PROVE  Knows(i)'
  <2>1. import'[i] = r
    BY <1>1, <1>2
  <2>2. Applied(i) = {} /\ Applied(i)' = {}
    BY <1>1, <1>2, <2>1 DEF Applied, Working, InHand, Tagging
  <2>3. Resolves(i)'
    BY <1>1, <1>2, <2>1, StillResolves
  <2>4. Progress(i)'
    BY <1>1, <1>2, <2>1, <2>2, SameProgress DEF InHand, Tagging
  <2>5. Hand(i)'
    BY <1>2, <2>1 DEF Hand, InHand, Tagging
  <2> QED BY <2>3, <2>4, <2>5 DEF Knows
<1>3. ASSUME NEW k \in Foremost(import[i].todo, Looked),
             Local(i, [import[i] EXCEPT !.todo = @ \ {k},
                          !.hits = IF Collides(k) THEN @ \cup {k} ELSE @])
      PROVE  Knows(i)'
  <2> DEFINE hits == IF Collides(k) THEN import[i].hits \cup {k} ELSE import[i].hits
             r == [import[i] EXCEPT !.todo = @ \ {k}, !.hits = hits]
  <2>1. import' = [import EXCEPT ![i] = r] /\ import[i] \in Locals
    BY <1>1, <1>3 DEF Local
  <2> HIDE DEF hits
  <2>2. /\ r.pc = "Preflight" /\ r.doc = import[i].doc
        /\ r.began = import[i].began /\ r.policy = import[i].policy
        /\ r.inserted = import[i].inserted /\ r.replaced = import[i].replaced
        /\ r.skipped = import[i].skipped
    BY <1>1, <2>1 DEF Locals
  <2> HIDE DEF r
  <2> QED BY <1>2, <2>1, <2>2
<1>4. CASE Local(i, [import[i] EXCEPT !.pc = "Refused"])
  <2>1. import'[i].pc = "Refused"
    BY <1>1, <1>4 DEF Local, Locals
  <2> QED BY <2>1, EndKnows
<1>5. CASE Local(i, [import[i] EXCEPT !.pc = "Look", !.todo = DOMAIN import[i].doc])
  <2> DEFINE r == [import[i] EXCEPT !.pc = "Look", !.todo = DOMAIN import[i].doc]
  <2>1. import' = [import EXCEPT ![i] = r] /\ import[i] \in Locals
    BY <1>1, <1>5 DEF Local
  <2>2. /\ r.pc = "Look" /\ r.doc = import[i].doc /\ r.todo = DOMAIN import[i].doc
        /\ r.began = import[i].began /\ r.policy = import[i].policy
        /\ r.inserted = import[i].inserted /\ r.replaced = import[i].replaced
        /\ r.skipped = import[i].skipped
    BY <2>1 DEF Locals
  <2> HIDE DEF r
  <2> QED BY <1>2, <2>1, <2>2
<1> QED BY <1>3, <1>4, <1>5 DEF Preflight

\* The row that is looked up comes after those it refers to: they are stored.
LEMMA RefsStored ==
    ASSUME Inv, NEW i \in Importers, Resolves(i), Progress(i), import[i].pc = "Look",
           import[i].sound,
           NEW k \in Foremost(import[i].todo, Order), NEW s \in import[i].doc[k].refs
    PROVE  Present(s)
<1>1. import[i].pc \in Running /\ import[i].pc \in Working /\ import[i].pc \in Running \ {"Owners"}
  BY DEF Running, Working
<1>2. /\ k \in import[i].todo /\ k \in DOMAIN import[i].doc /\ k \in Rows /\ s \in Rows
      /\ KindOf[s] \in Refers[KindOf[k]]
  BY <1>1, Document DEF Foremost
<1>3. CASE s \in DOMAIN import[i].doc
  <2>1. ~(Order[KindOf[k]] <= Order[KindOf[s]])
    <3>1. KindOf[k] \in Kinds
      BY <1>2, KindAssumption
    <3> QED BY <1>2, <3>1 DEF Kinds, Refers, Order
  <2>2. s \notin import[i].todo
    BY <2>1 DEF Foremost
  <2> QED BY <1>1, <1>3, <2>2 DEF Applied, Progress
<1>4. CASE s \notin DOMAIN import[i].doc
  <2>1. /\ Validates(import[i].doc) /\ ~Dangling(import[i].doc)
        /\ OwnersResolve(import[i].doc)
    BY <1>1 DEF Resolves
  <2>2. KindOf[k] \in Kinds
    BY <1>2, KindAssumption
  <2>3. CASE KindOf[k] = "links"
    BY <1>2, <1>4, <2>1, <2>3 DEF Validates
  <2>4. CASE KindOf[k] = "windows"
    BY <1>2, <1>4, <2>1, <2>4 DEF Dangling
  <2>5. CASE KindOf[k] \in {"targets", "channels"}
    <3>1. KindOf[s] = "users"
      BY <1>2, <2>5 DEF Refers
    <3> QED BY <1>2, <1>4, <2>1, <2>5, <3>1 DEF OwnersResolve, RefsTo
  <2>6. CASE KindOf[k] = "users"
    BY <1>2, <2>6 DEF Refers
  <2> QED BY <2>2, <2>3, <2>4, <2>5, <2>6 DEF Kinds
<1> QED BY <1>3, <1>4

\* Looking up the row in hand tells whether the table has it.
LEMMA LookKnows ==
    ASSUME Inv, NEW i \in Importers, Knows(i), Look(i)
    PROVE  Knows(i)'
<1>1. /\ import \in [Importers -> Locals] /\ import[i] \in Locals
      /\ import[i].pc = "Look" /\ Step(i)
      /\ import[i].pc \in Running /\ import[i].pc \in Working /\ import[i].pc \notin InHand
      /\ Resolves(i) /\ Progress(i) /\ OwnersResolve(import[i].doc)
      /\ UNCHANGED <<table, stateRow, tags>>
  BY DEF Inv, TypeOK, Knows, Resolves, Look, At, Running, Working, InHand, Tagging, Step, stored
<1>2. PICK k \in Foremost(import[i].todo, Order) :
        Local(i, IF Kept(import[i], Present(k))
                 THEN [import[i] EXCEPT !.todo = @ \ {k}, !.skipped = @ + 1]
                 ELSE [import[i] EXCEPT !.pc = "Write", !.row = k, !.existed = Present(k)])
  BY DEF Look
<1>3. k \in import[i].todo /\ k \in DOMAIN import[i].doc /\ k \in Rows
  BY <1>1, Document DEF Foremost
<1>4. Applied(i) = DOMAIN import[i].doc \ import[i].todo
  BY <1>1 DEF Applied
<1>5. Present(k) <=> k \in import[i].began
  <2>1. k \in import[i].began => Present(k)
    BY DEF Inv, Follows, Present
  <2>2. Present(k) => k \in import[i].began
    BY <1>1, <1>3, <1>4 DEF Progress
  <2> QED BY <2>1, <2>2
<1>6. CASE Kept(import[i], Present(k))
  <2> DEFINE n == import[i].skipped + 1
             r == [import[i] EXCEPT !.todo = @ \ {k}, !.skipped = n]
  <2>1. import'[i] = r
    BY <1>1, <1>2, <1>6 DEF Local
  <2> HIDE DEF n
  <2>2. /\ r.pc = "Look" /\ r.doc = import[i].doc /\ r.todo = import[i].todo \ {k}
        /\ r.began = import[i].began /\ r.policy = import[i].policy
        /\ r.inserted = import[i].inserted /\ r.replaced = import[i].replaced
        /\ r.skipped = n
    BY <1>1 DEF Locals
  <2> HIDE DEF r
  <2>3. Applied(i)' = Applied(i) \cup {k}
    BY <1>1, <1>3, <1>4, <2>1, <2>2 DEF Applied
  <2>4. Resolves(i)'
    BY <1>1, <2>1, <2>2, StillResolves
  <2>5. import[i].policy = "skip" /\ Present(k)
    BY <1>6 DEF Kept
  <2>6. import[i].replaced + n = import[i].replaced + import[i].skipped + 1
    BY <1>1 DEF Locals, n
  <2>7. Progress(i)'
    BY <1>1, <1>3, <1>4, <1>5, <2>1, <2>2, <2>3, <2>5, <2>6, MoreProgress DEF Present
  <2>8. Hand(i)'
    BY <2>1, <2>2 DEF Hand, InHand, Tagging
  <2> QED BY <2>4, <2>7, <2>8 DEF Knows
<1>7. CASE ~Kept(import[i], Present(k))
  <2> DEFINE found == Present(k)
             r == [import[i] EXCEPT !.pc = "Write", !.row = k, !.existed = found]
  <2>1. import'[i] = r
    BY <1>1, <1>2, <1>7 DEF Local
  <2> HIDE DEF found
  <2>2. /\ r.pc = "Write" /\ r.doc = import[i].doc /\ r.todo = import[i].todo
        /\ r.began = import[i].began /\ r.policy = import[i].policy
        /\ r.inserted = import[i].inserted /\ r.replaced = import[i].replaced
        /\ r.skipped = import[i].skipped /\ r.row = k /\ r.existed = found
    BY <1>1 DEF Locals
  <2> HIDE DEF r
  <2>3. Applied(i)' = Applied(i)
    BY <1>4, <2>1, <2>2 DEF Applied, Working, InHand
  <2>4. Resolves(i)'
    BY <1>1, <2>1, <2>2, StillResolves
  <2>5. Progress(i)'
    BY <1>1, <2>1, <2>2, <2>3, SameProgress
  <2>6. /\ import[i].sound => \A s \in import[i].doc[k].refs : Present(s)
        /\ import'[i].sound = import[i].sound
    BY <1>1, RefsStored, StepFields
  <2>7. ~Present(k) => k \notin stateRow
    BY DEF Inv
  <2>8. Hand(i)'
    BY <1>1, <1>5, <2>1, <2>2, <2>6, <2>7 DEF Hand, InHand, Tagging, Present, found
  <2> QED BY <2>4, <2>5, <2>8 DEF Knows
<1> QED BY <1>6, <1>7

\* The last statement of a row leaves it as the document has it.
LEMMA TallyKnows ==
    ASSUME Inv, NEW i \in Importers, Knows(i), Step(i), import[i].pc \in InHand,
           Local(i, Tallied(import[i])),
           table'[import[i].row] # Absent,
           Stands(import[i].doc[import[i].row], table'[import[i].row]),
           KindOf[import[i].row] = "targets" =>
               tags'[import[i].row] = import[i].doc[import[i].row].tags
    PROVE  Knows(i)'
<1>0. PICK k : k = import[i].row
  OBVIOUS
<1> DEFINE r == Tallied(import[i])
<1>1. /\ import \in [Importers -> Locals] /\ import[i] \in Locals
      /\ import[i].pc \in Running /\ import[i].pc \in Running \ {"Owners"}
      /\ import[i].pc \in Working /\ Resolves(i) /\ Progress(i)
  BY DEF Inv, TypeOK, Knows, Running, Working, InHand, Tagging
<1>2. OwnersResolve(import[i].doc) /\ k \in DOMAIN import[i].doc \ Applied(i)
  BY <1>1, <1>0, DoneRows DEF Resolves
<1>3. import'[i] = r
  BY <1>1 DEF Local
<1>4. /\ r.pc = "Look" /\ r.doc = import[i].doc /\ r.todo = import[i].todo \ {k}
      /\ r.began = import[i].began /\ r.policy = import[i].policy
      /\ r.skipped = import[i].skipped
      /\ r.inserted = import[i].inserted + (IF import[i].existed THEN 0 ELSE 1)
      /\ r.replaced = import[i].replaced + (IF import[i].existed THEN 1 ELSE 0)
  BY <1>1, <1>0, TalliedLocals
<1> HIDE DEF r
<1>5. Applied(i)' = Applied(i) \cup {k}
  <2>1. Applied(i) = DOMAIN import[i].doc \ import[i].todo
    BY <1>1 DEF Applied
  <2>2. r.pc \in Working
    BY <1>4 DEF Working
  <2>3. Applied(i)' = DOMAIN r.doc \ r.todo
    BY <1>3, <2>2 DEF Applied
  <2> QED BY <1>2, <1>4, <2>1, <2>3
<1>6. Resolves(i)'
  BY <1>1, <1>2, <1>3, <1>4, StillResolves
<1>7. AsInDocument(i, k)'
  BY <1>3, <1>4, <1>0 DEF AsInDocument, Stands
<1>8. IF k \in import[i].began
      THEN /\ r.inserted = import[i].inserted
           /\ r.replaced + r.skipped = import[i].replaced + import[i].skipped + 1
      ELSE /\ r.inserted = import[i].inserted + 1
           /\ r.replaced + r.skipped = import[i].replaced + import[i].skipped
  <2>1. import[i].existed <=> k \in import[i].began
    BY <1>0 DEF Knows, Hand
  <2>2. /\ import[i].inserted \in Nat /\ import[i].replaced \in Nat
        /\ import[i].skipped \in Nat
    BY <1>1 DEF Locals
  <2> QED BY <1>4, <2>1, <2>2
<1>9. Progress(i)'
  <2>1. /\ import'[i].doc = import[i].doc /\ import'[i].began = import[i].began
        /\ import'[i].policy = import[i].policy
    BY <1>3, <1>4
  <2>2. IF k \in import[i].began
        THEN /\ import'[i].inserted = import[i].inserted
             /\ import'[i].replaced + import'[i].skipped
                  = import[i].replaced + import[i].skipped + 1
        ELSE /\ import'[i].inserted = import[i].inserted + 1
             /\ import'[i].replaced + import'[i].skipped
                  = import[i].replaced + import[i].skipped
    BY <1>3, <1>8
  <2> QED BY <1>1, <1>2, <1>0, <1>5, <1>7, <2>1, <2>2, MoreProgress DEF Present
<1>10. Hand(i)'
  BY <1>3, <1>4 DEF Hand, InHand, Tagging
<1> QED BY <1>6, <1>9, <1>10 DEF Knows

\* Between the statements of a target it stays in hand.
LEMMA InHandKnows ==
    ASSUME Inv, NEW i \in Importers, Knows(i), Step(i), import[i].pc \in InHand,
           NEW pc \in Tagging, NEW left \in SUBSET Tags,
           Local(i, [import[i] EXCEPT !.pc = pc, !.left = left]),
           KindOf[import[i].row] = "targets", stateRow' = stateRow,
           table'[import[i].row] # Absent,
           Stands(import[i].doc[import[i].row], table'[import[i].row]),
           pc = "PutTags" =>
               /\ left \subseteq import[i].doc[import[i].row].tags
               /\ tags'[import[i].row] = import[i].doc[import[i].row].tags \ left,
           pc = "PutState" =>
               /\ ~import[i].existed
               /\ tags'[import[i].row] = import[i].doc[import[i].row].tags
    PROVE  Knows(i)'
<1> DEFINE k == import[i].row
           r == [import[i] EXCEPT !.pc = pc, !.left = left]
<1>1. /\ import \in [Importers -> Locals] /\ import[i] \in Locals
      /\ import[i].pc \in Running /\ import[i].pc \in Running \ {"Owners"}
      /\ import[i].pc \in Working /\ Resolves(i) /\ Progress(i)
      /\ pc \in InHand /\ pc \in Working /\ pc \in Running /\ pc # "Write" /\ pc # "Failed"
  BY DEF Inv, TypeOK, Knows, Running, Working, InHand, Tagging
<1>2. OwnersResolve(import[i].doc)
  BY <1>1 DEF Resolves
<1>3. import'[i] = r
  BY <1>1 DEF Local
<1>4. /\ r.pc = pc /\ r.doc = import[i].doc /\ r.todo = import[i].todo /\ r.left = left
      /\ r.began = import[i].began /\ r.policy = import[i].policy
      /\ r.inserted = import[i].inserted /\ r.replaced = import[i].replaced
      /\ r.skipped = import[i].skipped /\ r.row = k /\ r.existed = import[i].existed
  BY <1>1 DEF Locals
<1> HIDE DEF r
<1>5. Applied(i)' = Applied(i)
  BY <1>1, <1>3, <1>4 DEF Applied
<1>6. Resolves(i)'
  BY <1>1, <1>2, <1>3, <1>4, StillResolves
<1>7. Progress(i)'
  BY <1>1, <1>3, <1>4, <1>5, SameProgress
<1>8. /\ import[i].sound => \A s \in import[i].doc[k].refs : table'[s] # Absent
      /\ import[i].existed <=> k \in import[i].began
      /\ ~import[i].existed => k \notin stateRow'
  <2>1. /\ import[i].sound => \A s \in import[i].doc[k].refs : Present(s)
        /\ \A s \in import[i].doc[k].refs : s \in Rows
        /\ import[i].existed <=> k \in import[i].began
        /\ ~import[i].existed => k \notin stateRow
    BY RowInHand DEF Knows, Hand
  <2> QED BY <2>1, StepStores
<1>9. Hand(i)'
  <2>1. import'[i].sound = import[i].sound
    BY StepFields
  <2> QED BY <1>1, <1>3, <1>4, <1>8, <2>1 DEF Hand, Present, Stands
<1> QED BY <1>6, <1>7, <1>9 DEF Knows

\* The statement that writes the row: if the document is sound, nothing keeps it
\* from doing so.
LEMMA WriteKnows ==
    ASSUME Inv, NEW i \in Importers, Knows(i), Write(i)
    PROVE  Knows(i)'
<1> DEFINE k == import[i].row
           doc == import[i].doc
<1>1. /\ TypeOK /\ import[i] \in Locals /\ import[i].pc \in InHand /\ import[i].pc = "Write"
      /\ Step(i) /\ import[i].pc \in Running /\ table \in [Rows -> Entries \cup {Absent}]
      /\ k \in Rows /\ k \in DOMAIN doc /\ doc[k] \in Entries
  BY RowInHand DEF Inv, TypeOK, Write, At, InHand, Running, Working, Step, Writes
<1>2. import[i].sound => Admitted(k, doc[k])
  <2>0. SUFFICES ASSUME import[i].sound PROVE Admitted(k, doc[k])
    OBVIOUS
  <2>1. \A s \in doc[k].refs : Present(s)
    BY <1>1, <2>0 DEF Knows, Hand
  <2>2. ~Clashing(doc)
    BY <1>1, <2>0 DEF Knows, Resolves
  <2> QED BY <1>1, <2>1, <2>2 DEF Admitted, Clashing
<1>3. CASE Admitted(k, doc[k])
  <2>1. /\ Upsert(k, doc[k])
        /\ Local(i, IF KindOf[k] = "targets" THEN [import[i] EXCEPT !.pc = "ClearTags"]
                    ELSE Tallied(import[i]))
    BY <1>3 DEF Write
  <2>2. table'[k] = Written(k, doc[k]) /\ stateRow' = stateRow
    BY <1>1, <2>1 DEF Upsert
  <2>3. table'[k] # Absent /\ Stands(doc[k], table'[k])
    BY <1>1, <2>2, WrittenRow, AbsentAssumption
  <2>4. CASE KindOf[k] = "targets"
    <3>1. [import[i] EXCEPT !.pc = "ClearTags"]
            = [import[i] EXCEPT !.pc = "ClearTags", !.left = import[i].left]
          /\ import[i].left \in SUBSET Tags
      BY <1>1 DEF Locals
    <3>2. Local(i, [import[i] EXCEPT !.pc = "ClearTags", !.left = import[i].left])
      BY <2>1, <2>4, <3>1
    <3>3. "ClearTags" \in Tagging
      BY DEF Tagging
    <3> QED BY <1>1, <2>2, <2>3, <2>4, <3>1, <3>2, <3>3, InHandKnows
  <2>5. CASE KindOf[k] # "targets"
    BY <1>1, <2>1, <2>3, <2>5, TallyKnows
  <2> QED BY <2>4, <2>5
<1>4. CASE ~Admitted(k, doc[k])
  <2>1. import'[i].pc = "Failed" /\ import'[i].sound = import[i].sound
    <3>1. Local(i, [import[i] EXCEPT !.pc = "Failed"]) /\ import \in [Importers -> Locals]
      BY <1>1, <1>4 DEF Write, TypeOK
    <3> QED BY <1>1, <3>1, StepFields DEF Local, Locals
  <2> QED BY <1>2, <1>4, <2>1, EndKnows
<1> QED BY <1>3, <1>4

\* Tags and state row: the target is there, and its state row is not.
LEMMA TagsKnow ==
    ASSUME Inv, NEW i \in Importers, Knows(i),
           ClearTags(i) \/ (\E g \in import[i].left : PutTag(i, g)) \/ TagsDone(i) \/ PutState(i)
    PROVE  Knows(i)'
<1> DEFINE k == import[i].row
           doc == import[i].doc
<1>1. /\ import[i].pc \in Tagging /\ import[i].pc \in InHand /\ Step(i)
  BY DEF ClearTags, PutTag, TagsDone, PutState, At, InHand, Tagging, Step, Writes
<1>2. /\ import[i] \in Locals /\ import[i].left \in SUBSET Tags /\ KindOf[k] = "targets"
      /\ tags \in [Of("targets") -> SUBSET Tags] /\ k \in Of("targets")
      /\ doc[k].tags \in SUBSET Tags
      /\ table' = table /\ Present(k) /\ Stands(doc[k], table[k])
  <2>1. KindOf[k] = "targets"
    BY <1>1 DEF Inv, Follows
  <2>2. k \in Rows /\ doc[k] \in Entries /\ import[i] \in Locals
    BY <1>1, RowInHand
  <2>3. table' = table
    BY DEF ClearTags, PutTag, TagsDone, PutState, stored
  <2>4. Present(k) /\ Stands(doc[k], table[k])
    BY <1>1 DEF Knows, Hand
  <2>5. tags \in [Of("targets") -> SUBSET Tags]
    BY DEF Inv, TypeOK
  <2> QED BY <2>1, <2>2, <2>3, <2>4, <2>5 DEF Of, Locals, Entries
<1>3. table'[k] # Absent /\ Stands(doc[k], table'[k])
  BY <1>2 DEF Present
<1>4. CASE ClearTags(i)
  <2>1. /\ Local(i, [import[i] EXCEPT !.pc = "PutTags", !.left = doc[k].tags])
        /\ stateRow' = stateRow /\ tags'[k] = {}
    BY <1>2, <1>4 DEF ClearTags, Cleared
  <2>2. "PutTags" \in Tagging /\ {} = doc[k].tags \ doc[k].tags
    BY DEF Tagging
  <2> QED BY <1>1, <1>2, <1>3, <2>1, <2>2, InHandKnows
<1>5. ASSUME NEW g \in import[i].left, PutTag(i, g)
      PROVE  Knows(i)'
  <2>1. import[i].pc = "PutTags" /\ "PutTags" \in Tagging
    BY <1>5 DEF PutTag, At, Tagging
  <2>2. import[i].left \subseteq doc[k].tags /\ tags[k] = doc[k].tags \ import[i].left
    BY <2>1 DEF Knows, Hand
  <2>3. /\ Local(i, [import[i] EXCEPT !.left = @ \ {g}])
        /\ stateRow' = stateRow /\ tags'[k] = tags[k] \cup {g}
    BY <1>2, <1>5 DEF PutTag
  <2> DEFINE left == import[i].left \ {g}
  <2>4. [import[i] EXCEPT !.left = left] = [import[i] EXCEPT !.pc = "PutTags", !.left = left]
    BY <1>2, <2>1 DEF Locals
  <2>5. Local(i, [import[i] EXCEPT !.pc = "PutTags", !.left = left])
    BY <2>3, <2>4
  <2>6. left \in SUBSET Tags /\ left \subseteq doc[k].tags /\ tags'[k] = doc[k].tags \ left
    BY <1>2, <2>2, <2>3
  <2> HIDE DEF left
  <2> QED BY <1>1, <1>2, <1>3, <2>1, <2>3, <2>5, <2>6, InHandKnows
<1>6. CASE TagsDone(i)
  <2>1. /\ import[i].pc = "PutTags" /\ import[i].left = {} /\ "PutState" \in Tagging
        /\ UNCHANGED <<stateRow, tags>>
        /\ Local(i, IF import[i].existed THEN Tallied(import[i])
                    ELSE [import[i] EXCEPT !.pc = "PutState"])
    BY <1>6 DEF TagsDone, At, Tagging, stored
  <2>2. tags'[k] = doc[k].tags
    BY <2>1 DEF Knows, Hand
  <2>3. CASE import[i].existed
    BY <1>1, <1>3, <2>1, <2>2, <2>3, TallyKnows
  <2>4. CASE ~import[i].existed
    <3>1. [import[i] EXCEPT !.pc = "PutState"]
            = [import[i] EXCEPT !.pc = "PutState", !.left = import[i].left]
      BY <1>2 DEF Locals
    <3>2. Local(i, [import[i] EXCEPT !.pc = "PutState", !.left = import[i].left])
      BY <2>1, <2>4, <3>1
    <3> QED BY <1>1, <1>2, <1>3, <2>1, <2>2, <2>4, <3>2, InHandKnows
  <2> QED BY <2>3, <2>4
<1>7. CASE PutState(i)
  <2>1. import[i].pc = "PutState" /\ tags' = tags
    BY <1>7 DEF PutState, At
  <2>2. k \notin stateRow /\ tags[k] = doc[k].tags
    BY <1>1, <1>2, <2>1 DEF Knows, Hand
  <2>3. Local(i, Tallied(import[i]))
    BY <1>2, <1>7, <2>2 DEF PutState
  <2> QED BY <1>1, <1>3, <2>1, <2>2, <2>3, TallyKnows
<1> QED BY <1>4, <1>5, <1>6, <1>7

\* A step of the request itself leaves it what it knows.
LEMMA StepKnows ==
    ASSUME Inv, NEW i \in Importers, Knows(i), Step(i)
    PROVE  Knows(i)'
<1>1. CASE Record(i)
  <2>1. import'[i].pc = "Done"
    BY <1>1 DEF Record, Local, Inv, TypeOK, Locals
  <2> QED BY <2>1, EndKnows
<1> QED BY <1>1, OwnersKnows, PreflightKnows, LookKnows, WriteKnows, TagsKnow DEF Step, Writes

\* A request that begins has looked at what is stored, and done nothing.
LEMMA AskKnows ==
    ASSUME Inv, NEW i \in Importers, NEW doc \in Documents, NEW policy \in Policies,
           Ask(i, doc, policy), Alone(i)'
    PROVE  Knows(i)'
<1> DEFINE pc == IF Validates(doc) THEN "Owners" ELSE "Refused"
           calm == \A j \in Importers \ {i} :
                     import[j].pc \in {"Idle", "Done", "Failed", "Refused", "Dry"}
           sound == ~Dangling(doc) /\ ~Clashing(doc)
           began == {k \in Rows : Present(k)}
           r == [Waiting EXCEPT !.pc = pc, !.doc = doc, !.policy = policy,
                    !.began = began, !.sound = sound, !.calm = calm]
<1>0. Local(i, r) /\ UNCHANGED <<table, stateRow, tags>> /\ DOMAIN doc \subseteq Rows
  BY DocumentAssumption DEF Ask, stored
<1>1. import'[i] = r /\ UNCHANGED <<table, stateRow, tags>> /\ DOMAIN doc \subseteq Rows
  <2> HIDE DEF r
  <2> QED BY <1>0 DEF Local, Inv, TypeOK
<1>2. CASE pc = "Refused"
  <2> HIDE DEF pc, calm, sound, began
  <2>1. r.pc = "Refused"
    BY <1>2 DEF Waiting
  <2> QED BY <1>1, <2>1, EndKnows
<1>3. CASE pc = "Owners"
  <2>1. Validates(doc)
    BY <1>3
  <2> HIDE DEF pc, calm, sound, began
  <2>2. /\ r.pc = "Owners" /\ r.doc = doc /\ r.began = began /\ r.sound = sound
        /\ r.inserted = 0 /\ r.replaced = 0 /\ r.skipped = 0
    BY <1>3 DEF Waiting
  <2> HIDE DEF r
  <2>4. Resolves(i)'
    BY <1>1, <2>1, <2>2
       DEF Resolves, Validates, Dangling, Clashing, Present, sound, Running
  <2>5. Applied(i)' = {}
    BY <1>1, <2>2 DEF Applied, Working, InHand, Tagging
  <2>6. Cardinality({}) = 0 /\ {} \ began = {} /\ {} \cap began = {}
    BY FS_EmptySet
  <2>7. Progress(i)'
    BY <1>1, <2>2, <2>5, <2>6 DEF Progress, Present, began
  <2>8. Hand(i)'
    BY <1>1, <2>2 DEF Hand, InHand, Tagging
  <2> QED BY <2>4, <2>7, <2>8 DEF Knows
<1> QED BY <1>2, <1>3

\* A request that begins is not idle.
LEMMA AskPc ==
    ASSUME NEW i, NEW doc, NEW policy, Ask(i, doc, policy)
    PROVE  \E r : Local(i, r) /\ r.pc \in {"Owners", "Refused"}
<1> DEFINE pc == IF Validates(doc) THEN "Owners" ELSE "Refused"
           calm == \A j \in Importers \ {i} :
                     import[j].pc \in {"Idle", "Done", "Failed", "Refused", "Dry"}
           sound == ~Dangling(doc) /\ ~Clashing(doc)
           began == {k \in Rows : Present(k)}
           r == [Waiting EXCEPT !.pc = pc, !.doc = doc, !.policy = policy,
                    !.began = began, !.sound = sound, !.calm = calm]
<1>1. Local(i, r)
  BY DEF Ask
<1>2. pc \in {"Owners", "Refused"}
  OBVIOUS
<1> HIDE DEF pc, calm, sound, began
<1>3. r.pc = pc
  BY DEF Waiting
<1> HIDE DEF r
<1> QED BY <1>1, <1>2, <1>3

\* What a request knows outlasts every step, while it is alone.
LEMMA SureInit == Init => Sure
<1> SUFFICES ASSUME Init, NEW i \in Importers PROVE Knows(i)
  BY DEF Sure
<1>1. import[i].pc = "Idle"
  BY DEF Init, Waiting
<1> QED BY <1>1 DEF Knows, Resolves, Progress, Hand, Running, Working, InHand, Tagging

\* Every step keeps what an undisturbed request knows.
LEMMA SureStep == Inv /\ Sure /\ [Next]_vars => Sure'
<1> SUFFICES ASSUME Inv, Sure, [Next]_vars, NEW i \in Importers, Alone(i)'
             PROVE  Knows(i)'
  BY DEF Sure
<1>0. import \in [Importers -> Locals] /\ (Alone(i) => Knows(i))
  BY DEF Inv, TypeOK, Sure
<1>1. ASSUME NEW j \in Importers, NEW doc \in Documents, NEW policy \in Policies,
             Ask(j, doc, policy)
      PROVE  Knows(i)'
  <2>1. CASE j = i
    BY <1>1, <2>1, AskKnows
  <2>2. CASE j # i
    <3>1. PICK r : Local(j, r) /\ r.pc \in {"Owners", "Refused"}
      BY <1>1, AskPc
    <3> QED BY <1>0, <2>2, <3>1 DEF Alone, At, Local
  <2> QED BY <2>1, <2>2
<1>2. ASSUME NEW j \in Importers, Step(j)
      PROVE  Knows(i)'
  <2>1. CASE j = i
    <3>1. Alone(i)
      BY <1>2, <2>1, StepFields DEF Alone, At
    <3> QED BY <1>0, <1>2, <2>1, <3>1, StepKnows
  <2>2. CASE j # i
    BY <1>2, <2>2, StepFields DEF Alone, At
  <2> QED BY <2>1, <2>2
<1>3. ASSUME NEW j \in Importers, Fault(j)
      PROVE  Knows(i)'
  <2>1. import'[j].pc = "Failed" /\ import'[j].calm = FALSE
    BY <1>0, <1>3 DEF Fault, Local, Locals
  <2> QED BY <2>1 DEF Alone, At
<1>4. ASSUME NEW k \in Rows, Delete(k)
      PROVE  Knows(i)'
  <2>1. import'[i].calm = FALSE
    BY <1>0, <1>4 DEF Delete, Locals
  <2> QED BY <2>1 DEF Alone
<1>5. CASE UNCHANGED vars
  <2>1. UNCHANGED <<table, stateRow, tags, import>>
    BY <1>5 DEF vars, stored
  <2>2. Alone(i) /\ Knows(i)
    BY <1>0, <2>1 DEF Alone, At
  <2> QED BY <2>1, <2>2, ZenonT(60)
       DEF Knows, Resolves, Progress, Hand, Applied, AsInDocument, Stands, Validates,
           Dangling, Clashing, OwnersResolve, Present
<1> QED BY <1>1, <1>2, <1>3, <1>4, <1>5 DEF Next

\* A document that is sound, imported by a request that nothing disturbs, is
\* applied to the end: every row comes after those it refers to.
THEOREM SoundAppliesHolds == Spec => []SoundApplies
<1>1. Sure => SoundApplies
  BY DEF Sure, SoundApplies, Alone, At, Knows, Hand
<1> QED BY <1>1, InitInv, InvStep, SureInit, SureStep, PTL DEF Spec

\* An import that reports success and ran alone stored what its document says,
\* and counted right: when there is no row left, all of them are done.
THEOREM AppliedAsReportedHolds == Spec => AppliedAsReported
<1>1. ASSUME Inv, Sure, NEW i \in Importers, Record(i), import[i].calm,
             \A j \in Importers \ {i} : At(j, "Idle")
      PROVE  LET r == import[i]
                 new == DOMAIN r.doc \ r.began
             IN /\ \A k \in DOMAIN r.doc : Present(k)
                /\ \A k \in (IF r.policy = "replace" THEN DOMAIN r.doc ELSE new) :
                      /\ Stands(r.doc[k], table[k])
                      /\ KindOf[k] = "targets" => tags[k] = r.doc[k].tags
                /\ r.inserted = Cardinality(new)
                /\ r.replaced + r.skipped = Cardinality(DOMAIN r.doc \cap r.began)
  <2>1. /\ Progress(i) /\ import[i].pc = "Look" /\ import[i].todo = {}
        /\ import[i].pc \in Running /\ import[i].pc \in Working
    BY <1>1 DEF Sure, Alone, Knows, Record, At, Running, Working
  <2>2. Applied(i) = DOMAIN import[i].doc
    BY <2>1 DEF Applied
  <2> QED BY <2>1, <2>2 DEF Progress, AsInDocument
<1>2. Inv /\ Sure /\ [Next]_vars =>
        [\A i \in Importers :
            LET r == import[i]
                new == DOMAIN r.doc \ r.began
            IN (Record(i) /\ r.calm /\ \A j \in Importers \ {i} : At(j, "Idle")) =>
                /\ \A k \in DOMAIN r.doc : Present(k)
                /\ \A k \in (IF r.policy = "replace" THEN DOMAIN r.doc ELSE new) :
                      /\ Stands(r.doc[k], table[k])
                      /\ KindOf[k] = "targets" => tags[k] = r.doc[k].tags
                /\ r.inserted = Cardinality(new)
                /\ r.replaced + r.skipped = Cardinality(DOMAIN r.doc \cap r.began)]_vars
  BY <1>1
<1> QED BY <1>2, InitInv, InvStep, SureInit, SureStep, PTL DEF Spec, AppliedAsReported
============================================================================
