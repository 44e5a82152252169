-------------------------- MODULE AuditChainProofs --------------------------
(***************************************************************************)
(* The audit chain's writers, for any number of them, of rows and of       *)
(* seconds: what the verifier reports of the table they leave, racing or   *)
(* one at a time, while rows are edited and deleted between two writes.    *)
(***************************************************************************)
EXTENDS AuditChain, WalkLoop, ChainWalkProofs

Busy(w) == writer[w].pc \in {"read", "insert"}

\* A chained row is a record of the program's, and is of a drawn id.
RowsWritten ==
    \A r \in log : Hashed(r) =>
        r \in [id : drawn, time : Nat, prev : drawn \cup {Genesis}, hash : drawn,
               edited : BOOLEAN]

\* What a writer holds was drawn for it, and its head was read off the table.
WritersHold ==
    \A w \in Writers :
        /\ Busy(w) => writer[w].id \in drawn /\ writer[w].time \in 0..clock
        /\ At(w, "insert") => writer[w].head \in drawn \cup {Genesis}

\* The row a writer is about to insert is new: no other writer has its id, no
\* row of the table has it or refers to it, and no writer is about to.
PendingNew ==
    \A w \in Writers : Busy(w) =>
        /\ \A r \in log : Hashed(r) => r.id # writer[w].id /\ r.prev # writer[w].id
        /\ \A v \in Writers : Busy(v) /\ v # w => writer[v].id # writer[w].id
        /\ \A v \in Writers : At(v, "insert") => writer[v].head # writer[w].id

\* Only damage alters a chained row.
EditsCounted == \A r \in log : Hashed(r) /\ r.edited => damaged > 0

\* As long as no two writers were under way at once, the one there is holds
\* the head as it is, no two rows continue the same one, and an undamaged
\* table is reached to its last chained row.
OneAtATime ==
    ~raced =>
        /\ \A v, w \in Writers : Busy(v) /\ Busy(w) => v = w
        /\ \A w \in Writers : At(w, "insert") => writer[w].head = CurrentHead
        /\ \A r, s \in log : Hashed(r) /\ Hashed(s) /\ r.prev = s.prev => r = s
        /\ damaged = 0 => \A r \in log : Hashed(r) => r \in Walk(log).reached

Inv ==
    /\ TypeOK /\ Clean(log) /\ RowsWritten /\ WritersHold /\ PendingNew
    /\ EditsCounted /\ OneAtATime

USE DEF Genesis, Null

WriterRecords == [pc : {"idle", "read", "insert"}, id : Ids \cup {Null}, time : Nat,
                  head : Ids \cup {Genesis, Null}]

\* The invariant holds at the start.
LEMMA InvInit == Init => Inv
<1> SUFFICES ASSUME Init PROVE Inv
  OBVIOUS
<1> USE ChainAssumption DEF Init
<1>1. \A r \in log : ~Hashed(r)
  BY DEF Legacy, Hashed
<1>2. \A w \in Writers : At(w, "idle") /\ writer[w] = Resting
  BY DEF At, Resting
<1>3. TypeOK
  <2>1. writer \in [Writers -> WriterRecords]
    BY DEF WriterRecords, Resting
  <2>2. \A r \in log : /\ r.id \in drawn \/ r \in OldRows
                       /\ r.time \in 0..clock /\ r.edited \in BOOLEAN
                       /\ {r.prev, r.hash} \subseteq drawn \cup {Genesis, Null}
    BY DEF Legacy
  <2>3. \A w \in Writers : At(w, "insert") => writer[w].head # Null
    BY <1>2 DEF At
  <2> QED BY <2>1, <2>2, <2>3 DEF TypeOK, WriterRecords
<1>4. Clean(log)
  BY <1>1 DEF Clean
<1>5. RowsWritten /\ EditsCounted
  BY <1>1 DEF RowsWritten, EditsCounted
<1>6. WritersHold /\ PendingNew
  BY <1>2 DEF WritersHold, PendingNew, Busy, At
<1>7. OneAtATime
  BY <1>1, <1>2 DEF OneAtATime, Busy, At
<1> QED BY <1>3, <1>4, <1>5, <1>6, <1>7 DEF Inv

\* A step that leaves the table and the count of damages as they are keeps
\* what is said of the table alone.
LEMMA TableKept ==
    ASSUME Inv, log' = log, damaged' = damaged, drawn \subseteq drawn', drawn' \subseteq Ids,
           clock' \in Nat, clock <= clock'
    PROVE  /\ Clean(log)' /\ RowsWritten' /\ EditsCounted'
           /\ \A r \in log' : /\ r.id \in drawn' \/ r \in OldRows
                              /\ r.time \in 0..clock' /\ r.edited \in BOOLEAN
                              /\ {r.prev, r.hash} \subseteq drawn' \cup {Genesis, Null}
<1>1. Clean(log)'
  BY DEF Inv
<1>2. RowsWritten'
  BY DEF Inv, RowsWritten
<1>3. EditsCounted'
  BY DEF Inv, EditsCounted
<1>4. \A r \in log' : /\ r.id \in drawn' \/ r \in OldRows
                      /\ r.time \in 0..clock' /\ r.edited \in BOOLEAN
                      /\ {r.prev, r.hash} \subseteq drawn' \cup {Genesis, Null}
  BY DEF Inv, TypeOK
<1> QED BY <1>1, <1>2, <1>3, <1>4

\* A tick changes no row.
LEMMA TickInv == Inv /\ Tick => Inv'
<1> SUFFICES ASSUME Inv, Tick PROVE Inv'
  OBVIOUS
<1>1. /\ clock' = clock + 1 /\ clock \in Nat /\ drawn \subseteq Ids
      /\ UNCHANGED <<log, drawn, writer, damaged, raced>>
  BY DEF Inv, TypeOK, Tick
<1>2. clock' \in Nat /\ clock <= clock'
  BY <1>1
<1>3. /\ Clean(log)' /\ RowsWritten' /\ EditsCounted'
      /\ \A r \in log' : /\ r.id \in drawn' \/ r \in OldRows
                         /\ r.time \in 0..clock' /\ r.edited \in BOOLEAN
                         /\ {r.prev, r.hash} \subseteq drawn' \cup {Genesis, Null}
  BY <1>1, <1>2, TableKept
<1>4. TypeOK'
  BY <1>1, <1>2, <1>3 DEF Inv, TypeOK, At
<1>5. WritersHold'
  BY <1>1, <1>2 DEF Inv, WritersHold, Busy, At
<1>6. PendingNew'
  BY <1>1 DEF Inv, PendingNew, Busy, At
<1>7. OneAtATime'
  BY <1>1 DEF Inv, OneAtATime, Busy, At, CurrentHead
<1> QED BY <1>3, <1>4, <1>5, <1>6, <1>7 DEF Inv

\* A stuttering step keeps the invariant.
LEMMA StutterInv == Inv /\ UNCHANGED vars => Inv'
<1> SUFFICES ASSUME Inv, UNCHANGED vars PROVE Inv'
  OBVIOUS
<1> QED BY DEF Inv, vars, TypeOK, RowsWritten, WritersHold, PendingNew, EditsCounted,
               OneAtATime, Busy, At, CurrentHead

\* What a step of one writer does to the writers' variables.
Moves(w, record) ==
    /\ writer' = [writer EXCEPT ![w] = record]
    /\ record \in WriterRecords
    /\ UNCHANGED clock

\* The step of a writer changes its record alone.
LEMMA MovesEffect ==
    ASSUME NEW w \in Writers, NEW record, Inv, Moves(w, record)
    PROVE  /\ writer' \in [Writers -> WriterRecords]
           /\ writer'[w] = record
           /\ \A v \in Writers : v # w => writer'[v] = writer[v]
<1>1. writer \in [Writers -> WriterRecords]
  BY DEF Inv, TypeOK, WriterRecords
<1> QED BY <1>1 DEF Moves

\* A writer draws an id that no row has.
LEMMA BeginInv == ASSUME NEW w \in Writers, Inv, Begin(w) PROVE Inv'
<1>1. PICK id \in Ids \ drawn :
        /\ drawn' = drawn \cup {id}
        /\ writer' = [writer EXCEPT ![w] =
              [pc |-> "read", id |-> id, time |-> clock, head |-> Null]]
  BY DEF Begin
<1>2. /\ clock \in Nat /\ drawn \subseteq Ids /\ raced \in BOOLEAN
      /\ raced' = (raced \/ ~AllAtRest)
      /\ UNCHANGED <<clock, log, damaged>>
  BY DEF Inv, TypeOK, Begin
<1> DEFINE record == [pc |-> "read", id |-> id, time |-> clock, head |-> Null]
<1>3. Moves(w, record)
  BY <1>1, <1>2 DEF Moves, WriterRecords
<1>4. /\ writer' \in [Writers -> WriterRecords]
      /\ writer'[w] = record
      /\ \A v \in Writers : v # w => writer'[v] = writer[v]
  BY <1>3, MovesEffect
<1>5. /\ writer'[w].pc = "read" /\ writer'[w].id = id /\ writer'[w].time = clock
      /\ writer'[w].head = Null
  BY <1>4
<1> HIDE DEF record
<1>6. drawn' \subseteq Ids /\ drawn \subseteq drawn' /\ clock <= clock' /\ clock' \in Nat
  BY <1>1, <1>2
<1>7. /\ Clean(log)' /\ RowsWritten' /\ EditsCounted'
      /\ \A r \in log' : /\ r.id \in drawn' \/ r \in OldRows
                         /\ r.time \in 0..clock' /\ r.edited \in BOOLEAN
                         /\ {r.prev, r.hash} \subseteq drawn' \cup {Genesis, Null}
  BY <1>2, <1>6, TableKept
<1>8. \A v \in Writers : At(v, "insert")' => v # w /\ At(v, "insert") /\ writer'[v] = writer[v]
  BY <1>4, <1>5 DEF At
<1>9. TypeOK'
  <2>1. \A v \in Writers : At(v, "insert")' => writer'[v].head # Null
    BY <1>8 DEF Inv, TypeOK
  <2>2. clock' \in Nat /\ damaged' \in Nat /\ raced' \in BOOLEAN
    BY <1>2, <1>6 DEF Inv, TypeOK
  <2> QED BY <1>4, <1>6, <1>7, <2>1, <2>2 DEF TypeOK, WriterRecords
<1>10. WritersHold'
  BY <1>1, <1>2, <1>4, <1>5, <1>8 DEF Inv, WritersHold, Busy
<1>11. PendingNew'
  <2>1. \A r \in log' : Hashed(r) => r.id # id /\ r.prev # id
    <3>1. id \in Nat \ {0} /\ id \notin drawn
      BY ChainAssumption
    <3> QED BY <1>2, <3>1 DEF Inv, RowsWritten
  <2>2. \A v \in Writers : v # w /\ Busy(v) => writer[v].id # id
    BY DEF Inv, WritersHold
  <2>3. \A v \in Writers : At(v, "insert") => writer[v].head # id
    BY ChainAssumption DEF Inv, WritersHold
  <2>4. ASSUME NEW v \in Writers, Busy(v)'
        PROVE  /\ \A r \in log' : Hashed(r) => r.id # writer'[v].id /\ r.prev # writer'[v].id
               /\ \A u \in Writers : Busy(u)' /\ u # v => writer'[u].id # writer'[v].id
               /\ \A u \in Writers : At(u, "insert")' => writer'[u].head # writer'[v].id
    <3>1. CASE v = w
      BY <1>4, <1>5, <1>8, <2>1, <2>2, <2>3, <3>1 DEF Busy
    <3>2. CASE v # w
      <4>1. Busy(v) /\ writer'[v] = writer[v]
        BY <1>4, <2>4, <3>2 DEF Busy
      <4>2. \A u \in Writers : Busy(u)' /\ u # w => Busy(u)
        BY <1>4 DEF Busy
      <4>3. \A r \in log' : Hashed(r) => r.id # writer'[v].id /\ r.prev # writer'[v].id
        BY <1>2, <4>1 DEF Inv, PendingNew
      <4>4. \A u \in Writers : Busy(u)' /\ u # v => writer'[u].id # writer'[v].id
        BY <1>4, <1>5, <2>2, <3>2, <4>1, <4>2 DEF Inv, PendingNew
      <4>5. \A u \in Writers : At(u, "insert")' => writer'[u].head # writer'[v].id
        BY <1>8, <4>1 DEF Inv, PendingNew
      <4> QED BY <4>3, <4>4, <4>5
    <3> QED BY <3>1, <3>2
  <2> QED BY <2>4 DEF PendingNew
<1>12. OneAtATime'
  <2>1. SUFFICES ASSUME ~raced'
                 PROVE  /\ \A v, u \in Writers : Busy(v)' /\ Busy(u)' => v = u
                        /\ \A v \in Writers : At(v, "insert")' => writer'[v].head = CurrentHead'
                        /\ \A r, s \in log' : Hashed(r) /\ Hashed(s) /\ r.prev = s.prev => r = s
                        /\ damaged' = 0 => \A r \in log' : Hashed(r) => r \in Walk(log').reached
    BY DEF OneAtATime
  <2>2. ~raced /\ AllAtRest
    BY <1>2, <2>1
  <2>3. \A v \in Writers : v # w => writer'[v].pc = "idle"
    BY <1>4, <2>2 DEF AllAtRest, At
  <2>4. \A v, u \in Writers : Busy(v)' /\ Busy(u)' => v = u
    BY <2>3 DEF Busy
  <2>5. \A v \in Writers : ~At(v, "insert")'
    BY <1>8, <2>2 DEF AllAtRest, At
  <2> QED BY <1>2, <2>2, <2>4, <2>5 DEF Inv, OneAtATime
<1> QED BY <1>7, <1>9, <1>10, <1>11, <1>12 DEF Inv

\* The head the verifier's walk yields is the genesis or the digest of a row
\* that is there.
LEMMA HeadThere ==
    ASSUME Inv
    PROVE  CurrentHead = Genesis \/ \E r \in log : Hashed(r) /\ r.id = CurrentHead
<1>1. PICK table : table = log
  OBVIOUS
<1>2. Clean(table)
  BY <1>1 DEF Inv
<1>3. PICK walk : walk = Walk(table)
  OBVIOUS
<1>4. walk.expected \in Ends(walk.reached) /\ walk.reached \subseteq {r \in table : Hashed(r)}
  BY <1>2, <1>3, CleanWalk
<1>5. walk.expected = Genesis \/ \E r \in table : Hashed(r) /\ r.hash = walk.expected
  BY <1>4 DEF Ends
<1>6. \A r \in table : Hashed(r) => r.hash = r.id
  BY <1>2, CleanRows
<1>7. CurrentHead = walk.expected
  BY <1>1, <1>3 DEF CurrentHead
<1> QED BY <1>1, <1>5, <1>6, <1>7

\* A writer holds the head as it is when it reads it.
LEMMA ReadHeadInv == ASSUME NEW w \in Writers, Inv, ReadHead(w) PROVE Inv'
<1>1. /\ At(w, "read") /\ clock \in Nat /\ drawn \subseteq Ids
      /\ writer' = [writer EXCEPT ![w].pc = "insert", ![w].head = CurrentHead]
      /\ UNCHANGED <<clock, log, drawn, damaged, raced>>
  BY DEF Inv, TypeOK, ReadHead
<1>2. PICK head : head = CurrentHead
  OBVIOUS
<1>3. head = Genesis \/ \E r \in log : Hashed(r) /\ r.id = head
  BY <1>2, HeadThere
<1>4. head \in drawn \cup {Genesis}
  BY <1>3 DEF Inv, RowsWritten
<1> DEFINE record == [writer[w] EXCEPT !.pc = "insert", !.head = head]
<1>5. writer[w] \in WriterRecords
  BY DEF Inv, TypeOK, WriterRecords
<1>6. /\ record.pc = "insert" /\ record.id = writer[w].id /\ record.time = writer[w].time
      /\ record.head = head
  BY <1>5 DEF WriterRecords
<1>7. record \in WriterRecords
  BY <1>1, <1>4, <1>5 DEF WriterRecords
<1>8. writer' = [writer EXCEPT ![w] = record]
  BY <1>1, <1>2
<1> HIDE DEF record
<1>9. /\ writer' \in [Writers -> WriterRecords]
      /\ writer'[w] = record
      /\ \A v \in Writers : v # w => writer'[v] = writer[v]
  BY <1>1, <1>7, <1>8, MovesEffect DEF Moves
<1>10. /\ writer'[w].pc = "insert" /\ writer'[w].id = writer[w].id
       /\ writer'[w].time = writer[w].time /\ writer'[w].head = head
  BY <1>6, <1>9
<1>11. /\ Clean(log)' /\ RowsWritten' /\ EditsCounted'
       /\ \A r \in log' : /\ r.id \in drawn' \/ r \in OldRows
                          /\ r.time \in 0..clock' /\ r.edited \in BOOLEAN
                          /\ {r.prev, r.hash} \subseteq drawn' \cup {Genesis, Null}
  BY <1>1, TableKept
<1>12. \A v \in Writers : /\ Busy(v)' => Busy(v)
                          /\ writer'[v].id = writer[v].id /\ writer'[v].time = writer[v].time
                          /\ At(v, "insert")' /\ v # w => At(v, "insert") /\ writer'[v] = writer[v]
  BY <1>1, <1>9, <1>10 DEF Busy, At
<1>13. TypeOK'
  <2>1. \A v \in Writers : At(v, "insert")' => writer'[v].head # Null
    BY <1>4, <1>1, <1>10, <1>12, ChainAssumption DEF Inv, TypeOK
  <2>2. clock' \in Nat /\ damaged' \in Nat /\ raced' \in BOOLEAN /\ drawn' \subseteq Ids
    BY <1>1 DEF Inv, TypeOK
  <2> QED BY <1>9, <1>11, <2>1, <2>2 DEF TypeOK, WriterRecords
<1>14. WritersHold'
  <2>1. ASSUME NEW v \in Writers, Busy(v)'
        PROVE  writer'[v].id \in drawn' /\ writer'[v].time \in 0..clock'
    <3>1. Busy(v) /\ writer'[v].id = writer[v].id /\ writer'[v].time = writer[v].time
      BY <1>12, <2>1
    <3> QED BY <1>1, <3>1 DEF Inv, WritersHold
  <2>2. ASSUME NEW v \in Writers, At(v, "insert")'
        PROVE  writer'[v].head \in drawn' \cup {Genesis}
    <3>1. CASE v = w
      BY <1>1, <1>4, <1>10, <3>1
    <3>2. CASE v # w
      <4>1. At(v, "insert") /\ writer'[v] = writer[v]
        BY <1>12, <2>2, <3>2
      <4> QED BY <1>1, <4>1 DEF Inv, WritersHold
    <3> QED BY <3>1, <3>2
  <2> QED BY <2>1, <2>2 DEF WritersHold
<1>15. PendingNew'
  <2>1. ASSUME NEW v \in Writers, Busy(v)'
        PROVE  /\ \A r \in log' : Hashed(r) => r.id # writer'[v].id /\ r.prev # writer'[v].id
               /\ \A u \in Writers : Busy(u)' /\ u # v => writer'[u].id # writer'[v].id
               /\ \A u \in Writers : At(u, "insert")' => writer'[u].head # writer'[v].id
    <3>1. Busy(v) /\ writer'[v].id = writer[v].id
      BY <1>12, <2>1
    <3>2. head # writer[v].id
      <4>1. writer[v].id # Genesis
        BY <1>1, <3>1, ChainAssumption DEF Inv, WritersHold
      <4> QED BY <1>3, <3>1, <4>1 DEF Inv, PendingNew
    <3>3. \A u \in Writers : At(u, "insert")' => writer'[u].head # writer'[v].id
      <4>1. ASSUME NEW u \in Writers, At(u, "insert")', u # w
            PROVE  writer'[u].head # writer'[v].id
        <5>1. At(u, "insert") /\ writer'[u] = writer[u]
          BY <1>12, <4>1
        <5> QED BY <3>1, <5>1 DEF Inv, PendingNew
      <4> QED BY <1>10, <3>1, <3>2, <4>1
    <3>4. \A r \in log' : Hashed(r) => r.id # writer'[v].id /\ r.prev # writer'[v].id
      BY <1>1, <3>1 DEF Inv, PendingNew
    <3>5. ASSUME NEW u \in Writers, Busy(u)', u # v
          PROVE  writer'[u].id # writer'[v].id
      <4>1. Busy(u) /\ writer'[u].id = writer[u].id
        BY <1>12, <3>5
      <4> QED BY <3>1, <3>5, <4>1 DEF Inv, PendingNew
    <3> QED BY <3>3, <3>4, <3>5
  <2> QED BY <2>1 DEF PendingNew
<1>16. OneAtATime'
  <2>1. SUFFICES ASSUME ~raced
                 PROVE  /\ \A v, u \in Writers : Busy(v)' /\ Busy(u)' => v = u
                        /\ \A v \in Writers : At(v, "insert")' => writer'[v].head = CurrentHead'
                        /\ \A r, s \in log' : Hashed(r) /\ Hashed(s) /\ r.prev = s.prev => r = s
                        /\ damaged' = 0 => \A r \in log' : Hashed(r) => r \in Walk(log').reached
    BY <1>1 DEF OneAtATime
  <2>2. CurrentHead' = head
    BY <1>1, <1>2 DEF CurrentHead
  <2>3. \A v \in Writers : At(v, "insert")' => writer'[v].head = CurrentHead'
    BY <1>2, <1>10, <1>12, <2>1, <2>2 DEF Inv, OneAtATime
  <2>4. \A v, u \in Writers : Busy(v)' /\ Busy(u)' => v = u
    BY <1>12, <2>1 DEF Inv, OneAtATime
  <2> QED BY <1>1, <2>1, <2>3, <2>4 DEF Inv, OneAtATime
<1> QED BY <1>11, <1>13, <1>14, <1>15, <1>16 DEF Inv

\* A writer that rests holds nothing.
LEMMA RestingInv ==
    ASSUME NEW w \in Writers, Inv, writer' = [writer EXCEPT ![w] = Resting],
           UNCHANGED clock
    PROVE  /\ writer' \in [Writers -> WriterRecords]
           /\ \A v \in Writers : /\ Busy(v)' => v # w /\ Busy(v)
                                 /\ At(v, "insert")' => v # w /\ At(v, "insert")
                                 /\ v # w => writer'[v] = writer[v]
<1>1. Resting \in WriterRecords
  BY DEF Resting, WriterRecords
<1>2. /\ writer' \in [Writers -> WriterRecords]
      /\ writer'[w] = Resting
      /\ \A v \in Writers : v # w => writer'[v] = writer[v]
  BY <1>1, MovesEffect DEF Moves
<1>3. writer'[w].pc = "idle"
  BY <1>2 DEF Resting
<1> QED BY <1>2, <1>3 DEF Busy, At

\* A writer that gives up leaves the table as it is.
LEMMA GiveUpInv == ASSUME NEW w \in Writers, Inv, GiveUp(w) PROVE Inv'
<1>1. /\ writer' = [writer EXCEPT ![w] = Resting] /\ clock \in Nat /\ drawn \subseteq Ids
      /\ UNCHANGED <<clock, log, drawn, damaged, raced>>
  BY DEF Inv, TypeOK, GiveUp
<1>2. /\ writer' \in [Writers -> WriterRecords]
      /\ \A v \in Writers : /\ Busy(v)' => v # w /\ Busy(v)
                            /\ At(v, "insert")' => v # w /\ At(v, "insert")
                            /\ v # w => writer'[v] = writer[v]
  BY <1>1, RestingInv
<1>3. /\ Clean(log)' /\ RowsWritten' /\ EditsCounted'
      /\ \A r \in log' : /\ r.id \in drawn' \/ r \in OldRows
                         /\ r.time \in 0..clock' /\ r.edited \in BOOLEAN
                         /\ {r.prev, r.hash} \subseteq drawn' \cup {Genesis, Null}
  BY <1>1, TableKept
<1>4. TypeOK'
  <2>1. \A v \in Writers : At(v, "insert")' => writer'[v].head # Null
    BY <1>2 DEF Inv, TypeOK
  <2> QED BY <1>1, <1>2, <1>3, <2>1 DEF Inv, TypeOK, WriterRecords
<1>5. WritersHold'
  BY <1>1, <1>2 DEF Inv, WritersHold
<1>6. PendingNew'
  BY <1>1, <1>2 DEF Inv, PendingNew
<1>7. OneAtATime'
  BY <1>1, <1>2 DEF Inv, OneAtATime, CurrentHead
<1> QED BY <1>3, <1>4, <1>5, <1>6, <1>7 DEF Inv

\* The row an insert appends is a new one, whatever its writer took for head.
LEMMA InsertFresh ==
    ASSUME NEW w \in Writers, Inv, Insert(w), NEW table, table = log,
           NEW row, row = NewRow(w)
    PROVE  /\ Clean(table) /\ Fresh(table, row)
           /\ log' = table \cup {row} /\ Hashed(row) /\ ~row.edited
           /\ row.id = writer[w].id /\ row.prev = writer[w].head
           /\ row \in [id : drawn, time : 0..clock, prev : drawn \cup {Genesis}, hash : drawn,
                       edited : BOOLEAN]
<1>1. row = [id |-> writer[w].id, time |-> writer[w].time, prev |-> writer[w].head,
             hash |-> writer[w].id, edited |-> FALSE]
  BY DEF NewRow
<1>2. Busy(w) /\ At(w, "insert")
  BY DEF Insert, Busy, At
<1>3. /\ row.id = writer[w].id /\ row.time = writer[w].time /\ row.prev = writer[w].head
      /\ row.hash = writer[w].id /\ row.edited = FALSE
  BY <1>1
<1>4. /\ writer[w].id \in drawn /\ writer[w].time \in 0..clock
      /\ writer[w].head \in drawn \cup {Genesis}
  BY <1>2 DEF Inv, WritersHold
<1>5. drawn \subseteq Nat \ {0} /\ clock \in Nat
  BY ChainAssumption DEF Inv, TypeOK
<1>6. \A r \in table : Hashed(r) => r.id # row.id /\ r.prev # row.id
  BY <1>2, <1>3 DEF Inv, PendingNew
<1>7. row.prev # row.id
  BY <1>2, <1>3 DEF Inv, PendingNew
<1>8. Fresh(table, row) /\ Hashed(row)
  <2>1. row.id \in Nat \ {0} /\ row.time \in Nat /\ row.hash = row.id /\ row.prev \in Nat
    <3>1. row.time \in Nat
      BY <1>3, <1>4, <1>5
    <3>2. row.hash = row.id /\ row.id \in drawn
      BY <1>3, <1>4
    <3>3. row.prev \in Nat
      <4>1. row.prev \in drawn \cup {Genesis}
        BY <1>3, <1>4
      <4>2. drawn \subseteq Nat /\ Genesis \in Nat
        BY <1>5
      <4> HIDE DEF Genesis
      <4> QED BY <4>1, <4>2, Zenon
    <3> QED BY <1>5, <3>1, <3>2, <3>3
  <2>2. Fresh(table, row)
    BY <1>6, <1>7, <2>1 DEF Fresh
  <2>3. Hashed(row)
    BY <2>1 DEF Hashed
  <2> QED BY <2>2, <2>3
<1>9. log' = table \cup {row}
  BY DEF Insert
<1>10. Clean(table)
  BY DEF Inv
<1> QED BY <1>1, <1>3, <1>4, <1>8, <1>9, <1>10

\* The row inserted has a digest of its own, and continues the head that was read.
LEMMA InsertInv == ASSUME NEW w \in Writers, Inv, Insert(w) PROVE Inv'
<1>1. PICK table : table = log
  OBVIOUS
<1>2. PICK row : row = NewRow(w)
  OBVIOUS
<1>3. /\ Clean(table) /\ Fresh(table, row)
      /\ log' = table \cup {row} /\ Hashed(row) /\ ~row.edited
      /\ row.id = writer[w].id /\ row.prev = writer[w].head
      /\ row \in [id : drawn, time : 0..clock, prev : drawn \cup {Genesis}, hash : drawn,
                  edited : BOOLEAN]
  BY <1>1, <1>2, InsertFresh
<1>4. /\ writer' = [writer EXCEPT ![w] = Resting] /\ At(w, "insert") /\ Busy(w)
      /\ clock \in Nat /\ drawn \subseteq Ids
      /\ UNCHANGED <<clock, drawn, damaged, raced>>
  BY DEF Inv, TypeOK, Insert, Busy, At
<1>5. /\ writer' \in [Writers -> WriterRecords]
      /\ \A v \in Writers : /\ Busy(v)' => v # w /\ Busy(v)
                            /\ At(v, "insert")' => v # w /\ At(v, "insert")
                            /\ v # w => writer'[v] = writer[v]
  BY <1>4, RestingInv
<1>6. Clean(log')
  <2>1. PICK after : after = table \cup {row}
    OBVIOUS
  <2>2. Appended(table, row, after)
    BY <1>3, <2>1, AppendClean
  <2> QED BY <1>3, <2>1, <2>2 DEF Appended
<1>7. TypeOK'
  <2>1. \A v \in Writers : At(v, "insert")' => writer'[v].head # Null
    BY <1>5 DEF Inv, TypeOK
  <2>2. \A r \in log' : /\ r.id \in drawn' \/ r \in OldRows
                        /\ r.time \in 0..clock' /\ r.edited \in BOOLEAN
                        /\ {r.prev, r.hash} \subseteq drawn' \cup {Genesis, Null}
    <3>1. /\ row.id \in drawn /\ row.time \in 0..clock /\ row.edited \in BOOLEAN
          /\ row.prev \in drawn \cup {Genesis} /\ row.hash \in drawn
      BY <1>3
    <3> QED BY <1>1, <1>3, <1>4, <3>1 DEF Inv, TypeOK
  <2> QED BY <1>4, <1>5, <2>1, <2>2 DEF Inv, TypeOK, WriterRecords
<1>8. RowsWritten'
  <2>1. row \in [id : drawn, time : Nat, prev : drawn \cup {Genesis}, hash : drawn,
                 edited : BOOLEAN]
    BY <1>3, <1>4
  <2> QED BY <1>1, <1>3, <1>4, <2>1 DEF Inv, RowsWritten
<1>9. WritersHold'
  BY <1>4, <1>5 DEF Inv, WritersHold
<1>10. PendingNew'
  <2>1. ASSUME NEW v \in Writers, Busy(v)'
        PROVE  /\ \A r \in log' : Hashed(r) => r.id # writer'[v].id /\ r.prev # writer'[v].id
               /\ \A u \in Writers : Busy(u)' /\ u # v => writer'[u].id # writer'[v].id
               /\ \A u \in Writers : At(u, "insert")' => writer'[u].head # writer'[v].id
    <3>1. Busy(v) /\ v # w /\ writer'[v] = writer[v]
      BY <1>5, <2>1
    <3>2. row.id # writer[v].id /\ row.prev # writer[v].id
      BY <1>3, <1>4, <3>1 DEF Inv, PendingNew
    <3>3. \A r \in log' : Hashed(r) => r.id # writer'[v].id /\ r.prev # writer'[v].id
      BY <1>1, <1>3, <3>1, <3>2 DEF Inv, PendingNew
    <3> QED BY <1>5, <3>1, <3>3 DEF Inv, PendingNew
  <2> QED BY <2>1 DEF PendingNew
<1>11. EditsCounted'
  BY <1>1, <1>3, <1>4 DEF Inv, EditsCounted
<1>12. OneAtATime'
  <2>1. SUFFICES ASSUME ~raced
                 PROVE  /\ \A v, u \in Writers : Busy(v)' /\ Busy(u)' => v = u
                        /\ \A v \in Writers : At(v, "insert")' => writer'[v].head = CurrentHead'
                        /\ \A r, s \in log' : Hashed(r) /\ Hashed(s) /\ r.prev = s.prev => r = s
                        /\ damaged' = 0 => \A r \in log' : Hashed(r) => r \in Walk(log').reached
    BY <1>4 DEF OneAtATime
  <2>2. \A v \in Writers : ~Busy(v)' /\ ~At(v, "insert")'
    <3>1. \A v \in Writers : ~Busy(v)'
      BY <1>4, <1>5, <2>1 DEF Inv, OneAtATime
    <3> QED BY <3>1 DEF Busy, At
  <2>3. PICK walk : walk = Walk(table)
    OBVIOUS
  <2>4. row.prev = walk.expected
    BY <1>1, <1>3, <1>4, <2>1, <2>3 DEF Inv, OneAtATime, CurrentHead
  <2>5. Candidates(table, row.prev) = {}
    BY <1>3, <2>3, <2>4, CleanWalk
  <2>6. \A r, s \in log' : Hashed(r) /\ Hashed(s) /\ r.prev = s.prev => r = s
    <3>1. \A r \in table : Hashed(r) => r.prev # row.prev
      BY <2>5 DEF Candidates
    <3> QED BY <1>1, <1>3, <2>1, <3>1 DEF Inv, OneAtATime
  <2>7. walk.reached \cup {row} \subseteq Walk(log').reached
    BY <1>3, <2>3, <2>4, AppendAtHead
  <2>8. damaged' = 0 => \A r \in log' : Hashed(r) => r \in Walk(log').reached
    BY <1>1, <1>3, <1>4, <2>1, <2>3, <2>7 DEF Inv, OneAtATime
  <2> QED BY <2>2, <2>6, <2>8
<1> QED BY <1>6, <1>7, <1>8, <1>9, <1>10, <1>11, <1>12 DEF Inv

\* Damage while every writer rests: what it leaves of the table is clean.
LEMMA DamageInv ==
    ASSUME Inv, AllAtRest, damaged' = damaged + 1,
           UNCHANGED <<clock, drawn, writer, raced>>,
           Clean(log'), RowsWritten',
           \A r \in log' : /\ r.id \in drawn \/ r \in OldRows
                           /\ r.time \in 0..clock /\ r.edited \in BOOLEAN
                           /\ {r.prev, r.hash} \subseteq drawn \cup {Genesis, Null},
           \A r \in log' : \E s \in log : Hashed(r) => Hashed(s) /\ s.id = r.id /\ s.prev = r.prev
    PROVE  Inv'
<1>1. damaged \in Nat /\ damaged' \in Nat /\ damaged' > 0
  BY DEF Inv, TypeOK
<1>2. \A w \in Writers : ~Busy(w) /\ ~At(w, "insert") /\ ~Busy(w)' /\ ~At(w, "insert")'
  BY DEF AllAtRest, At, Busy
<1>3. TypeOK'
  BY <1>1, <1>2 DEF Inv, TypeOK
<1>4. WritersHold' /\ PendingNew'
  BY <1>2 DEF WritersHold, PendingNew
<1>5. EditsCounted'
  BY <1>1 DEF EditsCounted
<1>6. OneAtATime'
  <2>1. SUFFICES ASSUME ~raced, NEW r \in log', NEW s \in log', Hashed(r), Hashed(s),
                        r.prev = s.prev
                 PROVE  r = s
    BY <1>1, <1>2 DEF OneAtATime
  <2>2. PICK q \in log : Hashed(q) /\ q.id = r.id /\ q.prev = r.prev
    BY <2>1
  <2>3. PICK t \in log : Hashed(t) /\ t.id = s.id /\ t.prev = s.prev
    BY <2>1
  <2>4. q = t
    BY <2>1, <2>2, <2>3 DEF Inv, OneAtATime
  <2> QED BY <2>1, <2>2, <2>3, <2>4 DEF Clean
<1> QED BY <1>3, <1>4, <1>5, <1>6 DEF Inv

\* An edit changes what a row says and none of its digests.
LEMMA EditInv == ASSUME NEW r \in log, Inv, Edit(r) PROVE Inv'
<1>1. PICK row : row = [r EXCEPT !.edited = TRUE]
  OBVIOUS
<1>2. /\ AllAtRest /\ Hashed(r) /\ log' = (log \ {r}) \cup {row}
      /\ damaged' = damaged + 1
      /\ UNCHANGED <<clock, drawn, writer, raced>>
  BY <1>1 DEF Edit, Damageable
<1>3. r \in [id : drawn, time : Nat, prev : drawn \cup {Genesis}, hash : drawn, edited : BOOLEAN]
  BY <1>2 DEF Inv, RowsWritten
<1>4. /\ row \in [id : drawn, time : Nat, prev : drawn \cup {Genesis}, hash : drawn,
                  edited : BOOLEAN]
      /\ row.id = r.id /\ row.time = r.time /\ row.prev = r.prev /\ row.hash = r.hash
  BY <1>1, <1>3
<1>5. Hashed(row) /\ ~Legacy(row)
  BY <1>2, <1>4 DEF Hashed, Legacy
<1>6. Clean(log')
  <2>1. IsFiniteSet(log')
    BY <1>2, FS_RemoveElement, FS_AddElement DEF Inv, Clean
  <2>2. \A s \in log' : \/ Legacy(s)
                        \/ /\ s.id \in Nat \ {0} /\ s.time \in Nat
                           /\ s.hash = s.id /\ s.prev \in Nat
    <3>1. row.id \in Nat \ {0} /\ row.time \in Nat /\ row.hash = row.id /\ row.prev \in Nat
      BY <1>2, <1>4, CleanRows DEF Inv
    <3> QED BY <1>2, <3>1 DEF Inv, Clean
  <2>3. \A s, t \in log' : Hashed(s) /\ Hashed(t) /\ s.id = t.id => s = t
    BY <1>2, <1>4 DEF Inv, Clean
  <2> QED BY <2>1, <2>2, <2>3 DEF Clean
<1>7. RowsWritten'
  BY <1>2, <1>4 DEF Inv, RowsWritten
<1>8. \A s \in log' : /\ s.id \in drawn \/ s \in OldRows
                      /\ s.time \in 0..clock /\ s.edited \in BOOLEAN
                      /\ {s.prev, s.hash} \subseteq drawn \cup {Genesis, Null}
  <2>1. r.time \in 0..clock
    BY DEF Inv, TypeOK
  <2>2. row.id \in drawn /\ row.time \in 0..clock /\ row.edited \in BOOLEAN
    BY <1>4, <2>1
  <2>3. {row.prev, row.hash} \subseteq drawn \cup {Genesis, Null}
    BY <1>4
  <2> QED BY <1>2, <2>2, <2>3 DEF Inv, TypeOK
<1>9. \A s \in log' : \E t \in log : Hashed(s) => Hashed(t) /\ t.id = s.id /\ t.prev = s.prev
  BY <1>2, <1>4
<1> QED BY <1>2, <1>6, <1>7, <1>8, <1>9, DamageInv

\* A deletion leaves the other rows as they are.
LEMMA DeleteInv == ASSUME NEW r \in log, Inv, Delete(r) PROVE Inv'
<1>1. /\ AllAtRest /\ log' = log \ {r} /\ damaged' = damaged + 1
      /\ UNCHANGED <<clock, drawn, writer, raced>>
  BY DEF Delete, Damageable
<1>2. Clean(log')
  BY <1>1, FS_RemoveElement DEF Inv, Clean
<1>3. RowsWritten'
  BY <1>1 DEF Inv, RowsWritten
<1>4. \A s \in log' : /\ s.id \in drawn \/ s \in OldRows
                      /\ s.time \in 0..clock /\ s.edited \in BOOLEAN
                      /\ {s.prev, s.hash} \subseteq drawn \cup {Genesis, Null}
  BY <1>1 DEF Inv, TypeOK
<1>5. \A s \in log' : \E t \in log : Hashed(s) => Hashed(t) /\ t.id = s.id /\ t.prev = s.prev
  BY <1>1
<1> QED BY <1>1, <1>2, <1>3, <1>4, <1>5, DamageInv

\* Every step keeps the invariant.
LEMMA InvStep == Inv /\ [Next]_vars => Inv'
<1> SUFFICES ASSUME Inv, [Next]_vars PROVE Inv'
  OBVIOUS
<1>1. CASE Tick
  BY <1>1, TickInv
<1>2. ASSUME NEW w \in Writers, Write(w) PROVE Inv'
  BY <1>2, BeginInv, ReadHeadInv, InsertInv, GiveUpInv DEF Write
<1>3. ASSUME NEW r \in log, Edit(r) \/ Delete(r) PROVE Inv'
  BY <1>3, EditInv, DeleteInv
<1>4. CASE UNCHANGED vars
  BY <1>4, StutterInv
<1> QED BY <1>1, <1>2, <1>3, <1>4 DEF Next

\* The invariant holds throughout.
LEMMA InvHolds == Spec => []Inv
BY InvInit, InvStep, PTL DEF Spec
----------------------------------------------------------------------------
(* What the verifier reports.                                              *)

\* A clean table is all clear exactly when every chained row is reached and
\* none is altered; only altered rows are named.
LEMMA CleanReport ==
    ASSUME NEW rows, Clean(rows), NEW walk, walk = Walk(rows)
    PROVE  /\ walk.cycle = Null
           /\ walk.reached \subseteq {r \in rows : Hashed(r)}
           /\ TamperedRows(rows, walk) = {r \in walk.reached : r.edited}
           /\ VerifiedRows(walk) = {r \in walk.reached : ~r.edited}
           /\ AllClear(rows) <=> \A r \in rows : Hashed(r) => r \in walk.reached /\ ~r.edited
<1>1. walk.cycle = Null /\ walk.reached \subseteq {r \in rows : Hashed(r)}
  BY CleanWalk
<1>2. \A r \in walk.reached : r.hash = r.id
  BY <1>1, CleanRows
<1>3. \A r \in rows : Legacy(r) \/ Hashed(r)
  BY DEF Clean, Legacy, Hashed
<1>4. TamperedRows(rows, walk) = {r \in walk.reached : r.edited}
  BY <1>2, <1>3 DEF TamperedRows, Sound
<1>5. VerifiedRows(walk) = {r \in walk.reached : ~r.edited}
  BY <1>2 DEF VerifiedRows, Sound
<1>6. AllClear(rows) <=> /\ TamperedRows(rows, walk) = {} /\ OrphanedRows(rows, walk) = {}
                         /\ walk.cycle = Null
  BY DEF AllClear
<1>7. AllClear(rows) <=> \A r \in rows : Hashed(r) => r \in walk.reached /\ ~r.edited
  BY <1>1, <1>4, <1>6 DEF OrphanedRows
<1> QED BY <1>1, <1>4, <1>5, <1>7

\* The types of the writers' state and of the table hold.
THEOREM TypeCorrect == Spec => []TypeOK
<1>1. Inv => TypeOK
  BY DEF Inv
<1> QED BY <1>1, InvHolds, PTL

\* G-30 under A-05: as long as no two writers were under way at once and the
\* table is as the program left it, the verifier gives the all-clear, with
\* ids in any order, rows of one second and writes that failed half-way.
THEOREM SoundWhenUndamagedHolds == Spec => []SoundWhenUndamaged
<1>1. Inv => SoundWhenUndamaged
  <2> SUFFICES ASSUME Inv, damaged = 0, ~raced PROVE AllClear(log)
    BY DEF SoundWhenUndamaged
  <2>1. PICK table : table = log
    OBVIOUS
  <2>2. PICK walk : walk = Walk(table)
    OBVIOUS
  <2>3. Clean(table)
    BY <2>1 DEF Inv
  <2>4. \A r \in table : Hashed(r) => r \in walk.reached
    BY <2>1, <2>2 DEF Inv, OneAtATime
  <2>5. \A r \in table : Hashed(r) => ~r.edited
    BY <2>1 DEF Inv, EditsCounted
  <2>6. AllClear(table)
    BY <2>2, <2>3, <2>4, <2>5, CleanReport
  <2> QED BY <2>1, <2>6
<1> QED BY <1>1, InvHolds, PTL

\* FR-AUD-05, T-23: the verifier names the altered rows the walk reaches, and
\* no other row, and comes back to none, however the writers raced.
THEOREM BlamesTheEditedHolds == Spec => []BlamesTheEdited
<1>1. Inv => BlamesTheEdited
  <2> SUFFICES ASSUME Inv PROVE BlamesTheEdited
    OBVIOUS
  <2>1. PICK table : table = log
    OBVIOUS
  <2>2. PICK walk : walk = Walk(table)
    OBVIOUS
  <2>3. Clean(table)
    BY <2>1 DEF Inv
  <2>4. /\ walk.cycle = Null /\ walk.reached \subseteq {r \in table : Hashed(r)}
        /\ TamperedRows(table, walk) = {r \in walk.reached : r.edited}
    BY <2>2, <2>3, CleanReport
  <2>5. {r \in walk.reached : r.edited}
          = {r \in table : Hashed(r) /\ r.edited} \ OrphanedRows(table, walk)
    BY <2>4 DEF OrphanedRows
  <2> QED BY <2>1, <2>2, <2>4, <2>5 DEF BlamesTheEdited, Tampered, Orphaned
<1> QED BY <1>1, InvHolds, PTL

\* T-23: a row is cut off for a reason: it hangs on one that is cut off, or on
\* one that is gone, or lost a fork to another row, which racing writers made.
THEOREM OrphansExplainedHolds == Spec => []OrphansExplained
<1>1. Inv => OrphansExplained
  <2> SUFFICES ASSUME Inv, NEW r \in Orphaned
               PROVE  \/ \E s \in Orphaned : r.prev = s.hash
                      \/ r.prev \in drawn \ {s.hash : s \in log}
                      \/ raced /\ \E s \in log \ Orphaned : s # r /\ s.prev = r.prev
    BY DEF OrphansExplained
  <2>1. PICK table : table = log
    OBVIOUS
  <2>2. PICK walk : walk = Walk(table)
    OBVIOUS
  <2>3. Clean(table)
    BY <2>1 DEF Inv
  <2>4. /\ Closed(table, walk.reached)
        /\ Orphaned = {s \in table \ walk.reached : Hashed(s)}
    BY <2>1, <2>2, <2>3, CleanWalk DEF Orphaned, OrphanedRows
  <2>5. r \in table /\ r \notin walk.reached /\ Hashed(r)
    BY <2>4
  <2>6. r.prev \in drawn \cup {Genesis}
    BY <2>1, <2>5 DEF Inv, RowsWritten
  <2>7. CASE r.prev \in Ends(walk.reached)
    <3>1. r \in Candidates(table, r.prev)
      BY <2>5 DEF Candidates
    <3>2. PICK s : s = First(Candidates(table, r.prev))
      OBVIOUS
    <3>3. s \in walk.reached
      BY <2>4, <2>7, <3>1, <3>2 DEF Closed
    <3>4. s \in table /\ Hashed(s) /\ s.prev = r.prev
      BY <2>3, <3>1, <3>2, CleanFirst
    <3>5. s \in log \ Orphaned /\ s # r
      BY <2>1, <2>4, <2>5, <3>3, <3>4
    <3>6. raced
      BY <2>1, <2>5, <3>4, <3>5 DEF Inv, OneAtATime
    <3> QED BY <3>4, <3>5, <3>6
  <2>8. CASE r.prev \notin Ends(walk.reached)
    <3>1. r.prev \in drawn /\ r.prev # Genesis
      BY <2>6, <2>8 DEF Ends
    <3>2. SUFFICES ASSUME NEW s \in table, s.hash = r.prev
                   PROVE  s \in Orphaned
      BY <2>1, <3>1
    <3>3. Hashed(s)
      <4>1. s.hash # Null
        BY <3>1, <3>2, ChainAssumption DEF Inv, TypeOK
      <4> QED BY <2>3, <4>1 DEF Clean, Legacy, Hashed
    <3>4. s \notin walk.reached
      BY <2>8, <3>2 DEF Ends
    <3> QED BY <2>4, <3>3, <3>4
  <2> QED BY <2>7, <2>8
<1> QED BY <1>1, InvHolds, PTL

\* The steps that leave the count of damages alone append one row at most.
LEMMA AppendsAtMost ==
    ASSUME Inv, Next, log' # log
    PROVE  \/ \E w \in Writers : Insert(w) /\ damaged' = damaged /\ raced' = raced
           \/ /\ damaged' # damaged
              /\ \E r \in log : \/ log' = log \ {r}
                                \/ log' = (log \ {r}) \cup {[r EXCEPT !.edited = TRUE]} /\ Hashed(r)
<1>1. damaged \in Nat
  BY DEF Inv, TypeOK
<1>2. CASE Tick
  BY <1>2 DEF Tick
<1>3. ASSUME NEW w \in Writers, Write(w)
      PROVE  Insert(w) /\ damaged' = damaged /\ raced' = raced
  BY <1>3 DEF Write, Begin, ReadHead, GiveUp, Insert
<1>4. ASSUME NEW r \in log, Edit(r) \/ Delete(r)
      PROVE  /\ damaged' # damaged
             /\ \/ log' = log \ {r}
                \/ log' = (log \ {r}) \cup {[r EXCEPT !.edited = TRUE]} /\ Hashed(r)
  BY <1>1, <1>4 DEF Edit, Delete
<1> QED BY <1>2, <1>3, <1>4 DEF Next

\* T-23b: after whatever damage, a row that a single writer appends is on the
\* chain the verifier walks as soon as it is in the table.
THEOREM LiveChainGoesOnHolds == Spec => LiveChainGoesOn
<1> DEFINE Reached == ~raced' => log' \ log \subseteq {r \in log' : r.edited} \cup Verified'
<1>1. Inv /\ [Next]_vars => [Reached]_vars
  <2> SUFFICES ASSUME Inv, Next, ~raced', log' # log
               PROVE  log' \ log \subseteq {r \in log' : r.edited} \cup Verified'
    OBVIOUS
  <2>1. ASSUME NEW w \in Writers, Insert(w), raced' = raced
        PROVE  log' \ log \subseteq Verified'
    <3>1. PICK table : table = log
      OBVIOUS
    <3>2. PICK row : row = NewRow(w)
      OBVIOUS
    <3>3. /\ Clean(table) /\ Fresh(table, row)
          /\ log' = table \cup {row} /\ ~row.edited /\ row.prev = writer[w].head
      BY <2>1, <3>1, <3>2, InsertFresh
    <3>4. row.prev = Walk(table).expected
      BY <2>1, <3>1, <3>3 DEF Inv, OneAtATime, Insert, CurrentHead
    <3>5. PICK after : after = table \cup {row}
      OBVIOUS
    <3>6. row \in Walk(after).reached
      BY <3>3, <3>4, <3>5, AppendAtHead
    <3>7. row.hash = row.id
      BY <3>3 DEF Fresh
    <3>8. row \in VerifiedRows(Walk(after))
      BY <3>3, <3>6, <3>7 DEF VerifiedRows, Sound
    <3> QED BY <3>1, <3>3, <3>5, <3>8 DEF Verified
  <2>2. ASSUME NEW r \in log, log' = log \ {r}
        PROVE  log' \ log = {}
    BY <2>2
  <2>3. ASSUME NEW r \in log, Hashed(r), log' = (log \ {r}) \cup {[r EXCEPT !.edited = TRUE]}
        PROVE  log' \ log \subseteq {s \in log' : s.edited}
    <3>1. r \in [id : drawn, time : Nat, prev : drawn \cup {Genesis}, hash : drawn,
                 edited : BOOLEAN]
      BY <2>3 DEF Inv, RowsWritten
    <3>2. [r EXCEPT !.edited = TRUE].edited
      BY <3>1
    <3> QED BY <2>3, <3>2
  <2> QED BY <2>1, <2>2, <2>3, AppendsAtMost
<1> QED BY <1>1, InvHolds, PTL DEF Spec, LiveChainGoesOn

\* What the verifier complains of, no later write makes it stop complaining
\* of, whatever the writers took for the head: an altered row stays altered,
\* and a row that is cut off is not reached by appending another.
THEOREM AlarmStandsHolds == Spec => AlarmStands
<1> DEFINE Stands == (damaged' = damaged /\ ~AllClear(log)) => ~AllClear(log')
<1>1. Inv /\ [Next]_vars => [Stands]_vars
  <2> SUFFICES ASSUME Inv, Next, damaged' = damaged, ~AllClear(log), log' # log
               PROVE  ~AllClear(log')
    OBVIOUS
  <2>1. PICK w \in Writers : Insert(w)
    BY AppendsAtMost
  <2>2. PICK table : table = log
    OBVIOUS
  <2>3. PICK row : row = NewRow(w)
    OBVIOUS
  <2>4. Clean(table) /\ Fresh(table, row) /\ log' = table \cup {row}
    BY <2>1, <2>2, <2>3, InsertFresh
  <2>5. PICK after : after = table \cup {row}
    OBVIOUS
  <2>6. Clean(after) /\ row \notin table
    <3>1. Appended(table, row, after)
      BY <2>4, <2>5, AppendClean
    <3> QED BY <3>1 DEF Appended
  <2>7. PICK walk : walk = Walk(table)
    OBVIOUS
  <2>8. PICK next : next = Walk(after)
    OBVIOUS
  <2>9. PICK r \in table : Hashed(r) /\ (r \notin walk.reached \/ r.edited)
    <3>1. ~AllClear(table)
      BY <2>2
    <3> QED BY <2>4, <2>7, <3>1, CleanReport
  <2>10. next.reached \subseteq walk.reached \cup {row}
    BY <2>4, <2>5, <2>7, <2>8, AppendReachesNoMore
  <2>11. r \in after /\ (r \notin next.reached \/ r.edited)
    BY <2>5, <2>6, <2>9, <2>10
  <2>12. ~AllClear(after)
    BY <2>6, <2>8, <2>9, <2>11, CleanReport
  <2> QED BY <2>4, <2>5, <2>12
<1> QED BY <1>1, InvHolds, PTL DEF Spec, AlarmStands

\* A row that the verifier once verified it verifies for good: a single
\* writer's append takes no row off the chain.
THEOREM VerifiedStaysHolds == Spec => VerifiedStays
<1> DEFINE Stays == damaged' = damaged /\ ~raced' => Verified \subseteq Verified'
<1>1. Inv /\ [Next]_vars => [Stays]_vars
  <2> SUFFICES ASSUME Inv, Next, damaged' = damaged, ~raced' PROVE Verified \subseteq Verified'
    OBVIOUS
  <2>1. CASE log' = log
    BY <2>1 DEF Verified
  <2>2. CASE log' # log
    <3>1. PICK w \in Writers : Insert(w) /\ raced' = raced
      BY <2>2, AppendsAtMost
    <3>2. PICK table : table = log
      OBVIOUS
    <3>3. PICK row : row = NewRow(w)
      OBVIOUS
    <3>4. /\ Clean(table) /\ Fresh(table, row)
          /\ log' = table \cup {row} /\ row.prev = writer[w].head
      BY <3>1, <3>2, <3>3, InsertFresh
    <3>5. row.prev = Walk(table).expected
      BY <3>1, <3>2, <3>4 DEF Inv, OneAtATime, Insert, CurrentHead
    <3>6. PICK after : after = table \cup {row}
      OBVIOUS
    <3>7. Walk(table).reached \subseteq Walk(after).reached
      BY <3>4, <3>5, <3>6, AppendAtHead
    <3>8. VerifiedRows(Walk(table)) \subseteq VerifiedRows(Walk(after))
      BY <3>7 DEF VerifiedRows
    <3> QED BY <3>2, <3>4, <3>6, <3>8 DEF Verified
  <2> QED BY <2>1, <2>2
<1> QED BY <1>1, InvHolds, PTL DEF Spec, VerifiedStays
-----------------------------------------------------------------------------
(* The verifier's loop, turn by turn, on every table of whatever size: its *)
(* types hold, every row is in one class at every turn, each turn that does *)
(* not end it reaches one row more, and it computes Walk.                   *)

\* The tiebreak of a fork picks one of the competing rows: (action_time, id)
\* has a least pair in every set of candidates.
LEMMA FirstIsCandidate ==
    ASSUME NEW C \in SUBSET Rows, C # {}
    PROVE  First(C) \in C
<1>1. \A r \in C : r.id \in Nat /\ r.time \in Nat
  BY IdsAssumption DEF Rows
<1> QED BY <1>1, FirstLeast
-----------------------------------------------------------------------------
\* What one turn does: it closes a cycle at a row it has reached, or it
\* reaches a chained row and goes on from that row's own digest.
LEMMA TurnEffect ==
    ASSUME WalkTypeOK, Turn
    PROVE  \E r \in stored :
             /\ Hashed(r) /\ stored' = stored
             /\ \/ /\ r \in loop.reached
                   /\ loop'.expected = loop.expected /\ loop'.cycle = r.id
                   /\ loop'.reached = loop.reached
                \/ /\ r \notin loop.reached
                   /\ loop'.expected = r.hash /\ loop'.cycle = loop.cycle
                   /\ loop'.reached = loop.reached \cup {r}
             /\ loop' \in [expected : {loop'.expected}, reached : {loop'.reached},
                           cycle : {loop'.cycle}, forked : BOOLEAN]
<1> DEFINE C == Candidates(stored, loop.expected)
           r == First(C)
<1>1. C \in SUBSET Rows /\ C # {} /\ C \subseteq stored
  BY DEF WalkTypeOK, IsTable, Turn, Ended, Candidates
<1>2. r \in stored /\ Hashed(r)
  <2>1. r \in C
    BY <1>1, FirstIsCandidate
  <2> QED BY <1>1, <2>1 DEF Candidates
<1> DEFINE forked == loop.forked \/ Cardinality(C) > 1
<1>3. stored' = stored
      /\ loop' = IF r \in loop.reached
                 THEN [loop EXCEPT !.cycle = r.id, !.forked = forked]
                 ELSE [loop EXCEPT !.expected = r.hash,
                                   !.reached = loop.reached \cup {r},
                                   !.forked = forked]
  BY DEF Turn, Visit
<1>4. /\ loop \in [expected : Digests \ {Null}, reached : SUBSET {s \in stored : Hashed(s)},
                   cycle : RowIds \cup {Null}, forked : BOOLEAN]
      /\ forked \in BOOLEAN
  BY DEF WalkTypeOK
<1> HIDE DEF C, r, forked
<1>5. CASE r \in loop.reached
  BY <1>2, <1>3, <1>4, <1>5
<1>6. CASE r \notin loop.reached
  BY <1>2, <1>3, <1>4, <1>6
<1> QED BY <1>5, <1>6

\* The loop starts from genesis with nothing reached.
LEMMA WalkTypeInit == WalkInit => WalkTypeOK
<1> SUFFICES ASSUME WalkInit PROVE WalkTypeOK
  OBVIOUS
<1>1. PICK present \in SUBSET RowIds :
        \E column \in [present -> [time : Times, prev : Digests, hash : Digests,
                                   edited : BOOLEAN]] :
            stored = {[id |-> n, time |-> column[n].time, prev |-> column[n].prev,
                     hash |-> column[n].hash, edited |-> column[n].edited] :
                       n \in present}
  BY DEF WalkInit
<1>2. PICK column \in [present -> [time : Times, prev : Digests, hash : Digests,
                                   edited : BOOLEAN]] :
            stored = {[id |-> n, time |-> column[n].time, prev |-> column[n].prev,
                     hash |-> column[n].hash, edited |-> column[n].edited] :
                       n \in present}
  BY <1>1
<1>3. IsTable(stored)
  <2>1. stored \subseteq Rows
    BY <1>2 DEF Rows
  <2>2. \A r, s \in stored : r.id = s.id => r = s
    BY <1>2
  <2> QED BY <2>1, <2>2 DEF IsTable
<1>4. loop \in [expected : Digests \ {Null}, reached : SUBSET {r \in stored : Hashed(r)},
                cycle : RowIds \cup {Null}, forked : BOOLEAN]
  <2>1. Genesis \in Digests \ {Null}
    BY DEF Digests, Genesis, Null
  <2> QED BY <2>1 DEF WalkInit, WalkStart
<1> QED BY <1>3, <1>4 DEF WalkTypeOK

\* A turn keeps the types: what it reaches is a chained row of the table, and
\* it stands on that row's digest, which is not NULL.
LEMMA WalkTypeTurn == WalkTypeOK /\ [WalkNext]_walkVars => WalkTypeOK'
<1> SUFFICES ASSUME WalkTypeOK, [WalkNext]_walkVars PROVE WalkTypeOK'
  OBVIOUS
<1>1. CASE UNCHANGED walkVars
  BY <1>1 DEF WalkTypeOK, IsTable, walkVars
<1>2. CASE WalkNext
  <2>1. PICK r \in stored :
             /\ Hashed(r) /\ stored' = stored
             /\ \/ /\ r \in loop.reached
                   /\ loop'.expected = loop.expected /\ loop'.cycle = r.id
                   /\ loop'.reached = loop.reached
                \/ /\ r \notin loop.reached
                   /\ loop'.expected = r.hash /\ loop'.cycle = loop.cycle
                   /\ loop'.reached = loop.reached \cup {r}
             /\ loop' \in [expected : {loop'.expected}, reached : {loop'.reached},
                           cycle : {loop'.cycle}, forked : BOOLEAN]
    BY <1>2, TurnEffect DEF WalkNext
  <2>2. r.id \in RowIds /\ r.hash \in Digests \ {Null}
    BY <2>1 DEF WalkTypeOK, IsTable, Rows, Hashed
  <2>3. /\ loop'.expected \in Digests \ {Null}
        /\ loop'.reached \in SUBSET {s \in stored' : Hashed(s)}
        /\ loop'.cycle \in RowIds \cup {Null}
    BY <2>1, <2>2 DEF WalkTypeOK
  <2>4. loop' \in [expected : Digests \ {Null}, reached : SUBSET {s \in stored' : Hashed(s)},
                   cycle : RowIds \cup {Null}, forked : BOOLEAN]
    BY <2>1, <2>3
  <2>5. IsTable(stored')
    BY <2>1 DEF WalkTypeOK, IsTable
  <2> QED BY <2>4, <2>5 DEF WalkTypeOK
<1> QED BY <1>1, <1>2

\* The loop's types hold on every table.
THEOREM WalkTypeCorrect == WalkSpec => []WalkTypeOK
BY WalkTypeInit, WalkTypeTurn, PTL DEF WalkSpec

\* S-11 of the external design and T-23e: at every turn of the loop, whatever
\* the table holds, every row is in exactly one class of the report.
THEOREM OneClassHolds == WalkSpec => []OneClass
<1>1. WalkTypeOK => OneClass
  BY DEF WalkTypeOK, OneClass, LegacyRows, VerifiedRows, TamperedRows, OrphanedRows,
         Legacy, Hashed
<1> QED BY <1>1, WalkTypeCorrect, PTL

\* No turn takes back what was reached, and a turn that does not end the loop
\* reaches one more row of the table: walk_chain cannot run for ever.
THEOREM AdvancesHolds == WalkSpec => Advances
<1> DEFINE Further ==
      \/ loop'.cycle # Null /\ loop'.reached = loop.reached
      \/ \E r \in stored \ loop.reached : loop'.reached = loop.reached \cup {r}
<1>1. WalkTypeOK /\ [WalkNext]_walkVars => [Further]_walkVars
  <2> SUFFICES ASSUME WalkTypeOK, WalkNext PROVE Further
    OBVIOUS
  <2>1. PICK r \in stored :
             \/ r \in loop.reached /\ loop'.cycle = r.id /\ loop'.reached = loop.reached
             \/ r \notin loop.reached /\ loop'.reached = loop.reached \cup {r}
    BY TurnEffect DEF WalkNext
  <2>2. r.id # Null
    BY <2>1, IdsAssumption DEF WalkTypeOK, IsTable, Rows, Null
  <2> QED BY <2>1, <2>2
<1> QED BY <1>1, WalkTypeCorrect, PTL DEF WalkSpec, Advances
-----------------------------------------------------------------------------
\* A table holds as many rows as there are ids at most.
LEMMA TableFinite ==
    ASSUME NEW table, IsTable(table)
    PROVE  IsFiniteSet(table) /\ Timed(table)
<1>1. Timed(table)
  BY IdsAssumption DEF IsTable, Rows, Timed
<1>2. IsFiniteSet(table)
  <2> DEFINE id == [r \in table |-> r.id]
  <2>1. id \in Injection(table, RowIds)
    BY DEF IsTable, Rows, Injection, IsInjective
  <2> HIDE DEF id
  <2> QED BY <2>1, IdsAssumption, FS_Injection
<1> QED BY <1>1, <1>2

\* Every value the loop's variables take is that of so many turns.
InTurn == \E n \in Nat : loop = TurnsOf(stored, n)

\* Every step keeps the variables those of so many turns.
LEMMA InTurnStep == InTurn /\ [WalkNext]_walkVars => InTurn'
<1> SUFFICES ASSUME InTurn, [WalkNext]_walkVars PROVE InTurn'
  OBVIOUS
<1>1. CASE UNCHANGED walkVars
  BY <1>1 DEF InTurn, walkVars
<1>2. CASE WalkNext
  <2>1. PICK n \in Nat : loop = TurnsOf(stored, n)
    BY DEF InTurn
  <2>2. PICK table : table = stored
    OBVIOUS
  <2>3. PICK before : before = loop
    OBVIOUS
  <2>4. before = TurnsOf(table, n) /\ ~Ended(table, before)
    BY <1>2, <2>1, <2>2, <2>3 DEF WalkNext, Turn
  <2>5. loop' = Visit(table, before) /\ stored' = table
    BY <1>2, <2>2, <2>3 DEF WalkNext, Turn
  <2>6. TurnsOf(table, n + 1) = Visit(table, before)
    BY <2>4, Turns DEF Onward
  <2>7. loop' = TurnsOf(stored', n + 1) /\ n + 1 \in Nat
    BY <2>5, <2>6
  <2> QED BY <2>7 DEF InTurn
<1> QED BY <1>1, <1>2

\* The loop ends with what the writers' model computes of the same table, the
\* whole walk of walk_chain in one step.
THEOREM EndsAsWalkHolds == WalkSpec => []EndsAsWalk
<1>1. WalkInit => InTurn
  <2> SUFFICES ASSUME WalkInit PROVE InTurn
    OBVIOUS
  <2>1. PICK table : table = stored
    OBVIOUS
  <2>2. TurnsOf(table, 0) = WalkStart
    BY Turns
  <2>3. loop = TurnsOf(stored, 0)
    BY <2>1, <2>2 DEF WalkInit
  <2> QED BY <2>3 DEF InTurn
<1>2. WalkTypeOK /\ InTurn => EndsAsWalk
  <2> SUFFICES ASSUME WalkTypeOK, InTurn, Ended(stored, loop) PROVE loop = Walk(stored)
    BY DEF EndsAsWalk
  <2>1. PICK n \in Nat : loop = TurnsOf(stored, n)
    BY DEF InTurn
  <2>2. PICK table : table = stored
    OBVIOUS
  <2>3. IsTable(table)
    BY <2>2 DEF WalkTypeOK
  <2>4. Ended(table, TurnsOf(table, n))
    BY <2>1, <2>2
  <2>5. TurnsOf(table, n) = Walk(table)
    BY <2>3, <2>4, TableFinite, EndIsWalk
  <2> QED BY <2>1, <2>2, <2>5
<1> QED BY <1>1, <1>2, InTurnStep, WalkTypeCorrect, PTL DEF WalkSpec
=============================================================================
