-------------------------- MODULE ExtractRun_proofs --------------------------
(***************************************************************************)
(* What the extract command leaves behind, for any inputs, any number of   *)
(* runs and a kill or an exception anywhere.                               *)
(***************************************************************************)
EXTENDS ExtractRun, ExtremaLemmas, FiniteSetTheorems, SequenceTheorems, TLAPS

-----------------------------------------------------------------------------
(* The steps of a run, by their number.                                    *)
LEMMA ProgramIs ==
  /\ DOMAIN PROGRAM = 1 .. 25
  /\ PROGRAM[1] = "records" /\ PROGRAM[2] = "classes" /\ PROGRAM[3] = "neoidlist"
  /\ PROGRAM[4] = "production_paths" /\ PROGRAM[5] = "strings" /\ PROGRAM[6] = "page_index"
  /\ PROGRAM[7] = "decision_tree" /\ PROGRAM[8] = "trigger_system"
  /\ PROGRAM[9] = "variables_full" /\ PROGRAM[10] = "triggers_full"
  /\ PROGRAM[11] = "scenes_json" /\ PROGRAM[12] = "00_index" /\ PROGRAM[13] = "scenes_md"
  /\ PROGRAM[14] = "storyboards" /\ PROGRAM[15] = "decoded_records"
  /\ PROGRAM[16] = "typed_records" /\ PROGRAM[17] = "leaf_resolved"
  /\ PROGRAM[18] = "scenes_nl" /\ PROGRAM[19] = "xt_scripts" /\ PROGRAM[20] = "xt_files"
  /\ PROGRAM[21] = "summary" /\ PROGRAM[22] = "db_unlink" /\ PROGRAM[23] = "db_create"
  /\ PROGRAM[24] = "db_insert" /\ PROGRAM[25] = "db_commit"
  BY DEF PROGRAM

LEMMA SummaryAt == SUMMARY = 21
<1>1. \A i \in 1 .. 25 : PROGRAM[i] = "summary" => i = 21
  BY DEF PROGRAM
<1>2. 21 \in DOMAIN PROGRAM /\ PROGRAM[21] = "summary"
  BY ProgramIs
<1>3. SUMMARY \in DOMAIN PROGRAM /\ PROGRAM[SUMMARY] = "summary"
  BY <1>2, Zenon DEF SUMMARY
<1> QED
  BY <1>1, <1>3, ProgramIs

LEMMA CoreIs ==
  CORE = {"records", "classes", "neoidlist", "production_paths", "strings", "page_index"}
  BY DEF CORE, PROGRAM

LEMMA JsonStepsAre ==
  JSON_STEPS =
    {"records", "classes", "neoidlist", "production_paths", "strings", "page_index",
     "decision_tree", "trigger_system", "variables_full", "triggers_full", "00_index",
     "decoded_records", "typed_records", "leaf_resolved", "xt_scripts", "summary"}
  BY SummaryAt DEF JSON_STEPS, PROGRAM, SCENE_STEPS

(* Where in the program the steps of each kind stand.                      *)
LEMMA StepAt ==
  ASSUME at \in 1 .. 25
  PROVE  /\ Step \in JSON_STEPS <=> at \in 1 .. 10 \cup {12, 15, 16, 17, 19, 21}
         /\ Step \in SCENE_STEPS <=> at \in {11, 14, 18}
         /\ Step = "scenes_md" <=> at = 13
         /\ Step = "xt_files" <=> at = 20
         /\ Step = "summary" <=> at = 21
         /\ Step = "db_unlink" <=> at = 22
         /\ Step = "db_create" <=> at = 23
         /\ Step = "db_insert" <=> at = 24
         /\ Step = "db_commit" <=> at = 25
         /\ Step = "00_index" <=> at = 12
         /\ Step = "scenes_json" <=> at = 11
         /\ Step = "storyboards" <=> at = 14
         /\ Step = "scenes_nl" <=> at = 18
         /\ Step = "xt_scripts" <=> at = 19
         /\ Step = "decision_tree" <=> at = 7
         /\ Step = "leaf_resolved" <=> at = 17
         /\ Step \in CORE <=> at \in 1 .. 6
  BY JsonStepsAre, CoreIs DEF Step, PROGRAM, SCENE_STEPS

LEMMA TablesAre ==
  /\ ToSet(TABLES) = {"summary", "classes", "neoidlist", "records", "production_paths"}
  /\ DOMAIN TABLES = 1 .. 5 /\ Len(TABLES) = 5
  /\ TABLES[1] = "summary" /\ TABLES[2] = "classes" /\ TABLES[3] = "neoidlist"
  /\ TABLES[4] = "records" /\ TABLES[5] = "production_paths"
  BY DEF TABLES, ToSet

LEMMA PutIs ==
  ASSUME NEW files, NEW path, NEW entry
  PROVE  /\ DOMAIN Put(files, path, entry) = DOMAIN files \cup {path}
         /\ Put(files, path, entry)[path] = entry
         /\ \A p \in DOMAIN files : p # path => Put(files, path, entry)[p] = files[p]
  BY DEF Put

-----------------------------------------------------------------------------
(* The database and the summary. While a run goes on, the listings behind  *)
(* it are its own; the open transaction holds the tables inserted so far.  *)
Position ==
  /\ run \in Nat /\ status \in {"idle", "running", "finished", "crashed"}
  /\ at \in 1 .. 25 /\ nth \in Nat

RunsOf(files) == \A name \in DOMAIN files : files[name].run \in Nat /\ files[name].run <= run

InRun == status \in {"running", "finished"}
Row(table) == Entry(Rows(input.hdb)[table])
ListedNow ==
  InRun =>
    /\ \A i \in 1 .. 6 : i < at => PROGRAM[i] \in DOMAIN json /\ json[PROGRAM[i]].run = run
    /\ \A i \in {1, 2, 3, 4, 21} :
         i < at => PROGRAM[i] \in DOMAIN json /\ json[PROGRAM[i]] = Row(PROGRAM[i])

Inserted(n) ==
  DOMAIN tx = {TABLES[i] : i \in 1 .. n} /\ \A table \in DOMAIN tx : tx[table] = Row(table)
Transaction ==
  /\ Running /\ at = 24 => nth < 5 /\ Inserted(nth)
  /\ Running /\ at = 25 => Inserted(5)

SummaryBehind ==
  /\ "summary" \in DOMAIN json =>
       \A name \in CORE : name \in DOMAIN json /\ json[name].run >= json["summary"].run
  /\ Filled => /\ "summary" \in DOMAIN json
               /\ db.tables["summary"].run \in Nat
               /\ db.tables["summary"].run <= json["summary"].run

DatabaseInv ==
  Position /\ RunsOf(json) /\ ListedNow /\ Transaction /\ SummaryBehind /\ DatabaseIsOneRun

(* Steps that leave the listings, the database and the transaction alone:  *)
(* the loops of the joined part, and the jump out of it.                   *)
LEMMA JoinedStepKeeps ==
  ASSUME DatabaseInv, Running, at \in 7 .. 20, at' \in 7 .. 21, nth' \in Nat,
         UNCHANGED <<run, status, input, json, db, tx>>
  PROVE  DatabaseInv'
<1> USE DEF DatabaseInv
<1>1. Position'
  BY DEF Position
<1>2. RunsOf(json)'
  BY DEF RunsOf
<1>3. ListedNow'
  BY DEF ListedNow, InRun, Row, Entry, Running
<1>4. Transaction'
  BY DEF Transaction
<1>5. SummaryBehind'
  BY DEF SummaryBehind, Filled
<1>6. DatabaseIsOneRun'
  BY DEF DatabaseIsOneRun, Filled
<1> QED
  BY <1>1, <1>2, <1>3, <1>4, <1>5, <1>6

(* A listing, or another JSON file, is written or cut.                      *)
LEMMA JsonPutKeepsRuns ==
  ASSUME NEW files, NEW path, NEW entry, run \in Nat, RunsOf(files), entry.run = run
  PROVE  RunsOf(Put(files, path, entry))
  BY DEF RunsOf, Put

LEMMA EntryIs ==
  ASSUME NEW data
  PROVE  Entry(data).run = run /\ Entry(data).whole /\ Entry(data).data = data
  BY DEF Entry

LEMMA RowsAreJson ==
  ASSUME NEW name \in {"records", "classes", "neoidlist", "production_paths", "summary"}
  PROVE  JsonData(input, name) = Rows(input.hdb)[name]
<1>1. CASE name = "records"
  BY <1>1, Zenon DEF JsonData, Rows
<1>2. CASE name = "classes"
  BY <1>2, Zenon DEF JsonData, Rows
<1>3. CASE name = "neoidlist"
  BY <1>3, Zenon DEF JsonData, Rows
<1>4. CASE name = "production_paths"
  BY <1>4, Zenon DEF JsonData, Rows
<1>5. CASE name = "summary"
  BY <1>5, Zenon DEF JsonData, Rows
<1> QED
  BY <1>1, <1>2, <1>3, <1>4, <1>5

(* While a run writes a JSON file, whole or cut, the summary stays behind  *)
(* the listings: it is written when they are all of this run.              *)
LEMMA SummaryStaysBehind ==
  ASSUME DatabaseInv, Running, Step \in JSON_STEPS, NEW entry, entry.run = run,
         json' = Put(json, Step, entry), UNCHANGED <<run, db>>
  PROVE  SummaryBehind'
<1> USE DEF DatabaseInv
<1>1. /\ DOMAIN json' = DOMAIN json \cup {Step}
      /\ json'[Step].run = run
      /\ \A p \in DOMAIN json : p # Step => json'[p] = json[p]
  BY DEF Put
<1>2. CASE Step = "summary"
  <2>1. at = 21
    BY <1>2, StepAt DEF Position
  <2>2. \A i \in 1 .. 6 : PROGRAM[i] \in DOMAIN json /\ json[PROGRAM[i]].run = run
    BY <2>1 DEF ListedNow, InRun, Running
  <2>3. \A name \in CORE : name \in DOMAIN json /\ json[name].run = run
    BY <2>2 DEF CORE
  <2>4. Step \notin CORE
    BY <2>1, StepAt
  <2>5. \A name \in CORE : name \in DOMAIN json' /\ json'[name].run >= json'["summary"].run
    BY <1>1, <1>2, <2>3, <2>4 DEF Position
  <2>6. ASSUME Filled
        PROVE  db.tables["summary"].run \in Nat /\ db.tables["summary"].run <= run
    <3>1. /\ "summary" \in DOMAIN json /\ db.tables["summary"].run \in Nat
          /\ db.tables["summary"].run <= json["summary"].run
      BY <2>6 DEF SummaryBehind
    <3>2. json["summary"].run \in Nat /\ json["summary"].run <= run /\ run \in Nat
      BY <3>1 DEF RunsOf, Position
    <3> QED
      BY <3>1, <3>2
  <2> QED
    BY <1>1, <1>2, <2>5, <2>6 DEF SummaryBehind, Filled
<1>3. CASE Step # "summary"
  <2>1. "summary" \in DOMAIN json' =>
          "summary" \in DOMAIN json /\ json'["summary"] = json["summary"]
    BY <1>1, <1>3
  <2>2. ASSUME "summary" \in DOMAIN json, NEW name \in CORE
        PROVE  name \in DOMAIN json' /\ json'[name].run >= json["summary"].run
    <3>1. /\ name \in DOMAIN json /\ json[name].run >= json["summary"].run
          /\ json["summary"].run \in Nat /\ json["summary"].run <= run /\ run \in Nat
      BY <2>2 DEF SummaryBehind, RunsOf, Position
    <3>2. json'[name].run = run \/ json'[name] = json[name]
      BY <1>1, <3>1
    <3> QED
      BY <1>1, <3>1, <3>2
  <2>3. Filled' => Filled /\ "summary" \in DOMAIN json'
    BY <1>1 DEF Filled, SummaryBehind
  <2> QED
    BY <1>1, <2>1, <2>2, <2>3 DEF SummaryBehind, Filled
<1> QED
  BY <1>2, <1>3

LEMMA WriteJsonKeeps == DatabaseInv /\ WriteJson => DatabaseInv'
<1> SUFFICES ASSUME DatabaseInv, WriteJson  PROVE DatabaseInv'
  OBVIOUS
<1> USE DEF DatabaseInv
<1>1. /\ Running /\ Step \in JSON_STEPS
      /\ at' = at + 1 /\ nth' = 0 /\ UNCHANGED <<run, status, input, failed, scenes, xt, db, tx>>
      /\ \/ Step = "xt_scripts" /\ json' = json
         \/ json' = Put(json, Step, Entry(JsonData(input, Step)))
  BY DEF WriteJson, NextStep, NothingToList
<1>2. at \in 1 .. 10 \cup {12, 15, 16, 17, 19, 21}
  BY <1>1, StepAt DEF Position
<1>3. Position'
  BY <1>1, <1>2 DEF Position
<1>4. RunsOf(json)'
  <2>1. RunsOf(json') /\ run' = run
    BY <1>1, JsonPutKeepsRuns, EntryIs DEF Position
  <2> QED
    BY <2>1 DEF RunsOf
<1>5. CASE json' = json /\ Step = "xt_scripts"
  <2>1. at = 19
    BY <1>2, <1>5, StepAt
  <2> QED
    BY <1>1, <1>5, <2>1, JoinedStepKeeps
<1>6. CASE json' = Put(json, Step, Entry(JsonData(input, Step)))
  <2>1. /\ DOMAIN json' = DOMAIN json \cup {Step}
        /\ json'[Step] = Entry(JsonData(input, Step))
        /\ \A p \in DOMAIN json : p # Step => json'[p] = json[p]
    BY <1>6, Zenon DEF Put
  <2>2. ListedNow'
    <3>1. \A i \in 1 .. 25 : i # at => PROGRAM[i] # Step
      BY <1>2 DEF PROGRAM, Step
    <3>2. PROGRAM[at] = Step
      BY DEF Step
    <3>3. ASSUME NEW i \in 1 .. 6, i < at'
          PROVE  PROGRAM[i] \in DOMAIN json' /\ json'[PROGRAM[i]].run = run
      <4>1. CASE i = at
        BY <2>1, <3>2, <4>1, EntryIs
      <4>2. CASE i # at
        <5>1. i < at /\ InRun
          BY <1>1, <1>2, <3>3, <4>2 DEF InRun, Running
        <5>2. PROGRAM[i] \in DOMAIN json /\ json[PROGRAM[i]].run = run
          BY <5>1 DEF ListedNow
        <5> QED
          BY <2>1, <3>1, <4>2, <5>2
      <4> QED
        BY <4>1, <4>2
    <3>4. ASSUME NEW i \in {1, 2, 3, 4, 21}, i < at'
          PROVE  PROGRAM[i] \in DOMAIN json' /\ json'[PROGRAM[i]] = Row(PROGRAM[i])
      <4>1. CASE i = at
        <5>1. Step \in {"records", "classes", "neoidlist", "production_paths", "summary"}
          BY <3>2, <4>1, ProgramIs
        <5>2. json'[Step] = Row(Step)
          BY <2>1, <5>1, RowsAreJson DEF Row
        <5> QED
          BY <2>1, <3>2, <4>1, <5>2
      <4>2. CASE i # at
        <5>1. i < at /\ InRun
          BY <1>1, <1>2, <3>4, <4>2 DEF InRun, Running
        <5>2. PROGRAM[i] \in DOMAIN json /\ json[PROGRAM[i]] = Row(PROGRAM[i])
          BY <5>1 DEF ListedNow
        <5>3. i \in 1 .. 25
          OBVIOUS
        <5> QED
          BY <2>1, <3>1, <4>2, <5>2, <5>3
      <4> QED
        BY <4>1, <4>2
    <3>5. run' = run /\ \A table : Row(table)' = Row(table)
      BY <1>1 DEF Row, Entry
    <3> QED
      BY <3>3, <3>4, <3>5 DEF ListedNow
  <2>3. Transaction'
    BY <1>1, <1>2 DEF Transaction
  <2>4. SummaryBehind'
    BY <1>1, <1>6, EntryIs, SummaryStaysBehind
  <2>5. DatabaseIsOneRun'
    BY <1>1 DEF DatabaseIsOneRun, Filled, Running
  <2> QED
    BY <1>3, <1>4, <2>2, <2>3, <2>4, <2>5
<1> QED
  BY <1>1, <1>5, <1>6

LEMMA DbUnlinkKeeps == DatabaseInv /\ (DbUnlink \/ DbCreate) => DatabaseInv'
<1> SUFFICES ASSUME DatabaseInv, DbUnlink \/ DbCreate  PROVE DatabaseInv'
  OBVIOUS
<1> USE DEF DatabaseInv
<1>1. /\ Running /\ at' = at + 1 /\ nth' = 0
      /\ UNCHANGED <<run, status, input, json>>
      /\ \/ Step = "db_unlink" /\ db'.tables = <<>>
         \/ Step = "db_create" /\ db'.tables = <<>> /\ tx' = <<>>
  BY DEF DbUnlink, DbCreate, NextStep, NoDatabase, Database
<1>2. at \in {22, 23} /\ (at = 23 => tx' = <<>>)
  BY <1>1, StepAt DEF Position
<1>3. Position'
  BY <1>1, <1>2 DEF Position
<1>4. RunsOf(json)'
  BY <1>1 DEF RunsOf
<1>5. ListedNow'
  BY <1>1, <1>2 DEF ListedNow, InRun, Row, Entry, Running
<1>6. Transaction'
  <2>1. at' = 24 => nth' = 0 /\ tx' = <<>>
    BY <1>1, <1>2
  <2>2. DOMAIN <<>> = {} /\ {TABLES[i] : i \in 1 .. 0} = {}
    OBVIOUS
  <2>3. at' = 24 => /\ nth' < 5 /\ DOMAIN tx' = {TABLES[i] : i \in 1 .. nth'}
                    /\ \A table \in DOMAIN tx' : tx'[table] = Row(table)'
    BY <2>1, <2>2
  <2>4. at' # 25
    BY <1>1, <1>2
  <2> QED
    BY <2>3, <2>4 DEF Transaction, Inserted
<1>7. SummaryBehind'
  BY <1>1 DEF SummaryBehind, Filled
<1>8. DatabaseIsOneRun'
  BY <1>1 DEF DatabaseIsOneRun, Filled, Running
<1> QED
  BY <1>3, <1>4, <1>5, <1>6, <1>7, <1>8

LEMMA DbInsertKeeps == DatabaseInv /\ DbInsert => DatabaseInv'
<1> SUFFICES ASSUME DatabaseInv, DbInsert  PROVE DatabaseInv'
  OBVIOUS
<1> USE DEF DatabaseInv
<1> DEFINE table == TABLES[nth + 1]
<1>1. /\ Running /\ Step = "db_insert" /\ nth < Len(TABLES)
      /\ tx' = Put(tx, table, Row(table))
      /\ UNCHANGED <<run, status, input, json, db>>
      /\ IF nth + 1 < Len(TABLES) THEN nth' = nth + 1 /\ at' = at
         ELSE at' = at + 1 /\ nth' = 0
  BY DEF DbInsert, NextTurn, NextStep, Row
<1>2. at = 24 /\ nth \in 0 .. 4
  BY <1>1, StepAt, TablesAre DEF Position
<1>3. Position'
  BY <1>1, <1>2 DEF Position
<1>4. RunsOf(json)'
  BY <1>1 DEF RunsOf
<1>5. ListedNow'
  BY <1>1, <1>2 DEF ListedNow, InRun, Row, Entry, Running
<1>6. Transaction'
  <2>1. DOMAIN tx = {TABLES[i] : i \in 1 .. nth} /\ \A t \in DOMAIN tx : tx[t] = Row(t)
    BY <1>1, <1>2 DEF Transaction, Inserted
  <2>2. /\ DOMAIN tx' = DOMAIN tx \cup {table}
        /\ \A t \in DOMAIN tx' : tx'[t] = IF t = table THEN Row(table) ELSE tx[t]
    BY <1>1, Zenon DEF Put
  <2>3. 1 .. nth + 1 = (1 .. nth) \cup {nth + 1}
    BY <1>2
  <2>4. DOMAIN tx' = {TABLES[i] : i \in 1 .. nth + 1}
    BY <2>1, <2>2, <2>3
  <2>5. \A t \in DOMAIN tx' : tx'[t] = Row(t)
    BY <2>1, <2>2
  <2>6. \A t : Row(t)' = Row(t)
    BY <1>1 DEF Row, Entry
  <2>7. CASE nth = 4
    <3>1. at' = 25
      BY <1>1, <1>2, <2>7, TablesAre
    <3>2. DOMAIN tx' = {TABLES[i] : i \in 1 .. 5}
      BY <2>4, <2>7
    <3> QED
      BY <2>5, <2>6, <3>1, <3>2 DEF Transaction, Inserted
  <2>8. CASE nth # 4
    <3>1. at' = 24 /\ nth' = nth + 1 /\ nth' < 5
      BY <1>1, <1>2, <2>8, TablesAre
    <3> QED
      BY <2>4, <2>5, <2>6, <3>1 DEF Transaction, Inserted
  <2> QED
    BY <2>7, <2>8
<1>7. SummaryBehind'
  BY <1>1 DEF SummaryBehind, Filled
<1>8. DatabaseIsOneRun'
  BY <1>1 DEF DatabaseIsOneRun, Filled, Running
<1> QED
  BY <1>3, <1>4, <1>5, <1>6, <1>7, <1>8

LEMMA DbCommitKeeps == DatabaseInv /\ DbCommit => DatabaseInv'
<1> SUFFICES ASSUME DatabaseInv, DbCommit  PROVE DatabaseInv'
  OBVIOUS
<1> USE DEF DatabaseInv
<1>1. /\ Running /\ Step = "db_commit" /\ db'.tables = tx
      /\ status' = "finished" /\ UNCHANGED <<run, input, at, nth, json>>
  BY DEF DbCommit, Database
<1>2. at = 25
  BY <1>1, StepAt DEF Position
<1>3. /\ DOMAIN tx = ToSet(TABLES)
      /\ \A table \in ToSet(TABLES) : tx[table] = Row(table)
  <2>1. DOMAIN tx = {TABLES[i] : i \in 1 .. 5}
    BY <1>1, <1>2 DEF Transaction, Inserted
  <2>2. DOMAIN tx = ToSet(TABLES)
    BY <2>1, TablesAre DEF ToSet
  <2> QED
    BY <1>1, <1>2, <2>2 DEF Transaction, Inserted
<1>4. \A table \in ToSet(TABLES) : table \in DOMAIN json /\ json[table] = Row(table)
  <2>1. \A i \in {1, 2, 3, 4, 21} : PROGRAM[i] \in DOMAIN json /\ json[PROGRAM[i]] = Row(PROGRAM[i])
    BY <1>1, <1>2 DEF ListedNow, InRun, Running
  <2> QED
    BY <2>1, ProgramIs, TablesAre
<1>5. "summary" \in ToSet(TABLES) /\ "records" \in ToSet(TABLES)
  BY TablesAre
<1>6. tx # <<>>
  BY <1>3, <1>5
<1>7. \A table \in ToSet(TABLES) :
        /\ tx[table].run = run /\ tx[table].data = Rows(input.hdb)[table]
        /\ tx[table] = json[table]
  BY <1>3, <1>4, EntryIs DEF Row
<1>8. Position'
  BY <1>1 DEF Position
<1>9. RunsOf(json)'
  BY <1>1 DEF RunsOf
<1>10. ListedNow'
  BY <1>1 DEF ListedNow, InRun, Row, Entry, Running
<1>11. Transaction'
  BY <1>1 DEF Transaction, Running
<1>12. SummaryBehind'
  <2>1. json["summary"].run = run /\ tx["summary"].run = run
    BY <1>5, <1>7
  <2>2. "summary" \in DOMAIN json
    BY <1>4, <1>5
  <2>3. run \in Nat /\ run <= run
    BY DEF Position
  <2> QED
    BY <1>1, <2>1, <2>2, <2>3 DEF SummaryBehind, Filled
<1>13. DatabaseIsOneRun'
  <2>1. tx["summary"].data.records_surface = Len(tx["records"].data)
    BY <1>5, <1>7 DEF Rows, Summary
  <2> QED
    BY <1>1, <1>3, <1>6, <1>7, <2>1 DEF DatabaseIsOneRun, Filled
<1> QED
  BY <1>8, <1>9, <1>10, <1>11, <1>12, <1>13

LEMMA CrashKeepsDatabase == DatabaseInv /\ Crash => DatabaseInv'
<1> SUFFICES ASSUME DatabaseInv, Crash  PROVE DatabaseInv'
  OBVIOUS
<1> USE DEF DatabaseInv
<1>1. /\ Running /\ status' = "crashed" /\ UNCHANGED <<run, input, at, nth, db>>
      /\ \/ json' = json
         \/ Step \in JSON_STEPS /\ json' = Put(json, Step, CutEntry)
  BY DEF Crash
<1>2. Position'
  BY <1>1 DEF Position
<1>3. RunsOf(json)'
  <2>1. CutEntry.run = run
    BY DEF CutEntry
  <2>2. RunsOf(json') /\ run' = run
    BY <1>1, <2>1, JsonPutKeepsRuns DEF Position
  <2> QED
    BY <2>2 DEF RunsOf
<1>4. ListedNow' /\ Transaction'
  BY <1>1 DEF ListedNow, InRun, Transaction, Running
<1>5. DatabaseIsOneRun'
  BY <1>1 DEF DatabaseIsOneRun, Filled
<1>6. SummaryBehind'
  <2>1. CASE json' = json
    BY <1>1, <2>1 DEF SummaryBehind, Filled
  <2>2. CASE Step \in JSON_STEPS /\ json' = Put(json, Step, CutEntry)
    <3>1. CutEntry.run = run
      BY DEF CutEntry
    <3> QED
      BY <1>1, <2>2, <3>1, SummaryStaysBehind
  <2> QED
    BY <1>1, <2>1, <2>2
<1> QED
  BY <1>2, <1>3, <1>4, <1>5, <1>6

LEMMA StartKeepsDatabase ==
  ASSUME DatabaseInv, NEW found \in Inputs, Start(found)
  PROVE  DatabaseInv'
<1> USE DEF DatabaseInv
<1>1. /\ run' = run + 1 /\ status' = "running" /\ at' = 1 /\ nth' = 0
      /\ UNCHANGED <<json, db, tx>> /\ run \in Nat
  BY DEF Start, Position
<1>2. Position'
  BY <1>1 DEF Position
<1>3. RunsOf(json)'
  <2>1. \A n \in Nat : n <= run => n <= run'
    BY <1>1
  <2> QED
    BY <1>1, <2>1 DEF RunsOf
<1>4. ListedNow' /\ Transaction'
  BY <1>1 DEF ListedNow, Transaction
<1>5. SummaryBehind' /\ DatabaseIsOneRun'
  BY <1>1 DEF SummaryBehind, DatabaseIsOneRun, Filled
<1> QED
  BY <1>2, <1>3, <1>4, <1>5

LEMMA DatabaseInvInit == Init => DatabaseInv
<1> SUFFICES ASSUME Init  PROVE DatabaseInv
  OBVIOUS
<1>1. /\ run = 0 /\ status = "idle" /\ at = 1 /\ nth = 0
      /\ json = <<>> /\ db.tables = <<>>
  BY DEF Init, NoDatabase
<1>2. DOMAIN json = {} /\ ~Filled /\ ~Running /\ ~InRun
  BY <1>1 DEF Filled, Running, InRun
<1> QED
  BY <1>1, <1>2 DEF DatabaseInv, Position, RunsOf, ListedNow, Transaction, SummaryBehind,
     DatabaseIsOneRun

LEMMA DatabaseInvStep == DatabaseInv /\ [Next]_vars => DatabaseInv'
<1> SUFFICES ASSUME DatabaseInv, [Next]_vars  PROVE DatabaseInv'
  OBVIOUS
<1>1. CASE \E found \in Inputs : Start(found)
  BY <1>1, StartKeepsDatabase
<1>2. CASE WriteJson
  BY <1>2, WriteJsonKeeps
<1>3. CASE WriteScene \/ WriteMd \/ CopyScript
  <2>1. /\ Running /\ at \in {11, 13, 14, 18, 20} /\ at' = at /\ nth' = nth + 1 /\ nth \in Nat
        /\ UNCHANGED <<run, status, input, json, db, tx>>
    BY <1>3, StepAt DEF WriteScene, WriteMd, CopyScript, NextTurn, DatabaseInv, Position
  <2> QED
    BY <2>1, JoinedStepKeeps
<1>4. CASE LoopEnds
  <2>1. /\ Running /\ at \in {11, 13, 14, 18, 20} /\ at' = at + 1 /\ nth' = 0
        /\ UNCHANGED <<run, status, input, json, db, tx>>
    BY <1>4, StepAt DEF LoopEnds, NextStep, DatabaseInv, Position
  <2> QED
    BY <2>1, JoinedStepKeeps
<1>5. CASE CatchException
  <2>1. /\ Running /\ at \in {7, 11, 17} /\ at' = 21 /\ nth' = 0
        /\ UNCHANGED <<run, status, input, json, db, tx>>
    BY <1>5, StepAt, SummaryAt DEF CatchException, Raises, DatabaseInv, Position
  <2> QED
    BY <2>1, JoinedStepKeeps
<1>6. CASE DbUnlink \/ DbCreate
  BY <1>6, DbUnlinkKeeps
<1>7. CASE DbInsert
  BY <1>7, DbInsertKeeps
<1>8. CASE DbCommit
  BY <1>8, DbCommitKeeps
<1>9. CASE Crash
  BY <1>9, CrashKeepsDatabase
<1>10. CASE UNCHANGED vars
  BY <1>10 DEF vars, progress, DatabaseInv, Position, RunsOf, ListedNow, InRun, Row, Entry,
     Transaction, Inserted, Running, SummaryBehind, DatabaseIsOneRun, Filled
<1> QED
  BY <1>1, <1>2, <1>3, <1>4, <1>5, <1>6, <1>7, <1>8, <1>9, <1>10 DEF Next

(* Whoever opens the database finds nothing in it or one run's tables, and *)
(* after a run what the JSON files say, whatever was killed before         *)
(* (sqlite_writer.py:17-123).                                              *)
THEOREM DatabaseOfOneRun == Spec => []DatabaseIsOneRun
<1>1. DatabaseInv => DatabaseIsOneRun
  BY DEF DatabaseInv
<1> QED
  BY <1>1, DatabaseInvInit, DatabaseInvStep, PTL DEF Spec

-----------------------------------------------------------------------------
(***************************************************************************)
(* The scenes of the tree and their triggers are lists, whatever the folds *)
(* that build them go over.                                                *)
(***************************************************************************)
(* `list(set)': every element, in some order.                              *)
LEMMA AsSeqEnumerates ==
  ASSUME NEW S, IsFiniteSet(S)
  PROVE  AsSeq(S) \in Seq(S) /\ ToSet(AsSeq(S)) = S
<1> DEFINE Pick(s) == CHOOSE x \in s : TRUE
           Rec(g) == g = [s \in SUBSET S |->
                            IF s = {} THEN <<>> ELSE Append(g[s \ {Pick(s)}], Pick(s))]
           iter == CHOOSE g : Rec(g)
           c == [s \in SUBSET S |-> Pick(s)]
           op == [v \in Seq(S) |-> [x \in S |-> Append(v, x)]]
<1>1. \A s : s # {} => Pick(s) \in s
  OBVIOUS
<1>2. AsSeq(S) = iter[S]
  BY DEF AsSeq, FoldSet, MapThenFoldSet
<1> HIDE DEF Pick
<1>3. \E f \in [SUBSET S -> Seq(S)] : \A s \in SUBSET S :
         f[s] = IF s = {} THEN <<>> ELSE op[f[s \ {c[s]}]][c[s]]
  <2>1. \A s \in SUBSET S : s # {} => c[s] \in s
    BY <1>1
  <2>2. \A v \in Seq(S), x \in S : op[v][x] \in Seq(S)
    OBVIOUS
  <2> DEFINE V == Seq(S)
             base == <<>>
  <2>3. \A v \in V, x \in S : op[v][x] \in V
    BY <2>2
  <2>5. base \in V /\ IsFiniteSet(S)
    OBVIOUS
  <2> HIDE DEF c, op, V, base
  <2>4. FoldsTo(S, V, base, c, op)
    BY <2>1, <2>3, <2>5, FoldExists
  <2> QED
    BY <2>4 DEF V, base, FoldsTo
<1>4. PICK f \in [SUBSET S -> Seq(S)] : \A s \in SUBSET S :
         f[s] = IF s = {} THEN <<>> ELSE op[f[s \ {c[s]}]][c[s]]
  BY <1>3
<1>5. Rec(f)
  <2>1. \A s \in SUBSET S : s # {} =>
           op[f[s \ {c[s]}]][c[s]] = Append(f[s \ {Pick(s)}], Pick(s))
    BY <1>1
  <2>2. f = [s \in SUBSET S |-> f[s]]
    OBVIOUS
  <2>3. \A s \in SUBSET S : f[s] = IF s = {} THEN <<>> ELSE Append(f[s \ {Pick(s)}], Pick(s))
    BY <1>4, <2>1
  <2> QED
    BY <2>2, <2>3
<1>6. Rec(iter)
  <2> HIDE DEF Rec
  <2> QED
    BY <1>5
<1>7. \A s \in SUBSET S : iter[s] = IF s = {} THEN <<>> ELSE Append(iter[s \ {Pick(s)}], Pick(s))
  <2> DEFINE it == iter
  <2>1. Rec(it)
    BY <1>6
  <2> HIDE DEF it
  <2>2. \A s \in SUBSET S : it[s] = IF s = {} THEN <<>> ELSE Append(it[s \ {Pick(s)}], Pick(s))
    BY <2>1
  <2> QED
    BY <2>2 DEF it
<1> HIDE DEF iter
<1> DEFINE Good == {s \in SUBSET S : iter[s] \in Seq(S) /\ ToSet(iter[s]) = s}
<1>8. ASSUME NEW s \in SUBSET S, \A x \in s : s \ {x} \in Good
      PROVE  s \in Good
  <2>1. CASE s = {}
    <3>1. iter[s] = <<>>
      BY <1>7, <2>1
    <3>2. <<>> \in Seq(S) /\ ToSet(<<>>) = {}
      BY DEF ToSet
    <3> QED
      BY <2>1, <3>1, <3>2
  <2>2. CASE s # {}
    <3> DEFINE rest == iter[s \ {Pick(s)}]
    <3>1. Pick(s) \in s
      BY <1>1, <2>2
    <3>2. rest \in Seq(S) /\ ToSet(rest) = s \ {Pick(s)}
      BY <1>8, <3>1
    <3>3. iter[s] = Append(rest, Pick(s))
      BY <1>7, <2>2
    <3> HIDE DEF rest
    <3>4. Append(rest, Pick(s)) \in Seq(S)
      BY <3>1, <3>2
    <3>5. ToSet(Append(rest, Pick(s))) = ToSet(rest) \cup {Pick(s)}
      BY <3>1, <3>2, AppendMembers
    <3> QED
      BY <3>1, <3>2, <3>3, <3>4, <3>5
  <2> QED
    BY <2>1, <2>2
<1>9. SUBSET S \subseteq Good
  <2>1. Hereditary(S, Good)
    BY <1>8 DEF Hereditary
  <2> HIDE DEF Good
  <2> QED
    BY <2>1, SubsetInduction
<1> QED
  BY <1>2, <1>9

(* Merging scenes with one path leaves a list of the scenes merged.        *)
LEMMA KeepSceneTyped ==
  ASSUME NEW R, NEW kept \in Seq(R), NEW s \in R
  PROVE  KeepScene(kept, s) \in Seq(R)
<1> DEFINE same == {i \in DOMAIN kept : Norm(kept[i].scene_path) = Norm(s.scene_path)}
           other == [i \in DOMAIN kept |-> IF i \in same THEN s ELSE kept[i]]
           more == \E i \in same : s.n_xmv > kept[i].n_xmv
<1>1. Append(kept, s) \in Seq(R) /\ other \in Seq(R)
  OBVIOUS
<1>2. KeepScene(kept, s) = CASE same = {} -> Append(kept, s)
                             [] same # {} /\ more -> other
                             [] OTHER -> kept
  BY DEF KeepScene
<1> HIDE DEF same, other, more
<1>3. KeepScene(kept, s) \in {Append(kept, s), other, kept}
  BY <1>2, Zenon
<1> QED
  BY <1>1, <1>3

LEMMA MergedIsList ==
  ASSUME NEW R, NEW rows \in Seq(R)
  PROVE  FoldLeft(KeepScene, <<>>, rows) \in Seq(R)
<1> DEFINE D == DOMAIN rows
           Rec(g) == g = [s \in SUBSET D |->
                            IF s = {} THEN <<>> ELSE KeepScene(g[s \ {Max(s)}], rows[Max(s)])]
           iter == CHOOSE g : Rec(g)
           c == [s \in SUBSET D |-> Max(s)]
           op == [v \in Seq(R) |-> [i \in D |-> KeepScene(v, rows[i])]]
<1>1. IsFiniteSet(D) /\ \A s \in SUBSET D : s # {} => Max(s) \in s
  BY LastFirst
<1>2. FoldLeft(KeepScene, <<>>, rows) = iter[D]
  BY DEF FoldLeft, MapThenFoldSet
<1>3. \A i \in D : rows[i] \in R
  OBVIOUS
<1>4. \A v \in Seq(R), i \in D : KeepScene(v, rows[i]) \in Seq(R)
  BY <1>3, KeepSceneTyped
<1>5. PICK f \in [SUBSET D -> Seq(R)] : \A s \in SUBSET D :
        f[s] = IF s = {} THEN <<>> ELSE op[f[s \ {c[s]}]][c[s]]
  <2>1. \A s \in SUBSET D : s # {} => c[s] \in s
    BY <1>1
  <2>2. \A v \in Seq(R), i \in D : op[v][i] \in Seq(R)
    BY <1>4
  <2>3. <<>> \in Seq(R)
    OBVIOUS
  <2> HIDE DEF c, op, D
  <2>4. FoldsTo(D, Seq(R), <<>>, c, op)
    BY <1>1, <2>1, <2>2, <2>3, FoldExists
  <2> QED
    BY <2>4 DEF FoldsTo
<1>6. Rec(iter)
  <2>1. \A s \in SUBSET D : s # {} =>
           op[f[s \ {c[s]}]][c[s]] = KeepScene(f[s \ {Max(s)}], rows[Max(s)])
    BY <1>1
  <2>2. f = [s \in SUBSET D |-> f[s]]
    OBVIOUS
  <2>3. Rec(f)
    BY <1>5, <2>1, <2>2
  <2> HIDE DEF Rec
  <2> QED
    BY <2>3
<1>7. \A s \in SUBSET D :
        iter[s] = IF s = {} THEN <<>> ELSE KeepScene(iter[s \ {Max(s)}], rows[Max(s)])
  <2> DEFINE it == iter
  <2>1. Rec(it)
    BY <1>6
  <2> HIDE DEF it
  <2>2. \A s \in SUBSET D :
          it[s] = IF s = {} THEN <<>> ELSE KeepScene(it[s \ {Max(s)}], rows[Max(s)])
    BY <2>1
  <2> QED
    BY <2>2 DEF it
<1> HIDE DEF iter, D, op
<1> DEFINE Good == {s \in SUBSET D : iter[s] \in Seq(R)}
<1>8. ASSUME NEW s \in SUBSET D, \A i \in s : s \ {i} \in Good
      PROVE  s \in Good
  <2>1. CASE s = {}
    <3>1. iter[s] = <<>>
      BY <1>7, <2>1
    <3>2. <<>> \in Seq(R)
      OBVIOUS
    <3> QED
      BY <3>1, <3>2
  <2>2. CASE s # {}
    <3>1. Max(s) \in D /\ iter[s \ {Max(s)}] \in Seq(R)
      BY <1>1, <1>8, <2>2
    <3>2. iter[s] = KeepScene(iter[s \ {Max(s)}], rows[Max(s)])
      BY <1>7, <2>2
    <3> QED
      BY <1>4, <3>1, <3>2
  <2> QED
    BY <2>1, <2>2
<1>9. SUBSET D \subseteq Good
  <2>1. Hereditary(D, Good)
    BY <1>8 DEF Hereditary
  <2>2. IsFiniteSet(D)
    BY <1>1
  <2> HIDE DEF Good
  <2> QED
    BY <2>1, <2>2, SubsetInduction
<1> QED
  BY <1>2, <1>9

(* So does sorting them.                                                   *)
LEMMA PlaceTyped ==
  ASSUME NEW R, NEW sorted \in Seq(R), NEW scene \in R
  PROVE  PlaceByAssets(sorted, scene) \in Seq(R)
<1> DEFINE ahead == {i \in DOMAIN sorted : AssetCount(sorted[i]) >= AssetCount(scene)}
           n == Cardinality(ahead)
<1>1. DOMAIN sorted = 1 .. Len(sorted) /\ Len(sorted) \in Nat
  BY LenProperties
<1>2. IsFiniteSet(DOMAIN sorted) /\ Cardinality(DOMAIN sorted) = Len(sorted)
  BY <1>1, FS_Interval
<1>3. ahead \in SUBSET DOMAIN sorted
  OBVIOUS
<1>4. PlaceByAssets(sorted, scene) = InsertAt(sorted, n + 1, scene)
  BY DEF PlaceByAssets
<1> HIDE DEF ahead
<1>5. n \in Nat /\ n <= Len(sorted)
  BY <1>2, <1>3, FS_Subset, FS_CardinalityType
<1> HIDE DEF n
<1>6. /\ SubSeq(sorted, 1, n) \in Seq(R) /\ <<scene>> \in Seq(R)
      /\ SubSeq(sorted, n + 1, Len(sorted)) \in Seq(R)
  BY <1>1, <1>5
<1>7. InsertAt(sorted, n + 1, scene)
        = (SubSeq(sorted, 1, n) \o <<scene>>) \o SubSeq(sorted, n + 1, Len(sorted))
  <2>1. (n + 1) - 1 = n
    BY <1>5
  <2> QED
    BY <2>1 DEF InsertAt
<1>8. SubSeq(sorted, 1, n) \o <<scene>> \in Seq(R)
  BY <1>6, ConcatProperties
<1>9. InsertAt(sorted, n + 1, scene) \in Seq(R)
  BY <1>6, <1>7, <1>8, ConcatProperties
<1> QED
  BY <1>4, <1>9

LEMMA SortedIsList ==
  ASSUME NEW R, NEW rows \in Seq(R)
  PROVE  FoldLeft(PlaceByAssets, <<>>, rows) \in Seq(R)
<1> DEFINE D == DOMAIN rows
           Rec(g) == g = [s \in SUBSET D |->
                            IF s = {} THEN <<>> ELSE PlaceByAssets(g[s \ {Max(s)}], rows[Max(s)])]
           iter == CHOOSE g : Rec(g)
           c == [s \in SUBSET D |-> Max(s)]
           op == [v \in Seq(R) |-> [i \in D |-> PlaceByAssets(v, rows[i])]]
<1>1. IsFiniteSet(D) /\ \A s \in SUBSET D : s # {} => Max(s) \in s
  BY LastFirst
<1>2. FoldLeft(PlaceByAssets, <<>>, rows) = iter[D]
  BY DEF FoldLeft, MapThenFoldSet
<1>3. \A i \in D : rows[i] \in R
  OBVIOUS
<1>4. \A v \in Seq(R), i \in D : PlaceByAssets(v, rows[i]) \in Seq(R)
  BY <1>3, PlaceTyped
<1>5. PICK f \in [SUBSET D -> Seq(R)] : \A s \in SUBSET D :
        f[s] = IF s = {} THEN <<>> ELSE op[f[s \ {c[s]}]][c[s]]
  <2>1. \A s \in SUBSET D : s # {} => c[s] \in s
    BY <1>1
  <2>2. \A v \in Seq(R), i \in D : op[v][i] \in Seq(R)
    BY <1>4
  <2>3. <<>> \in Seq(R)
    OBVIOUS
  <2> HIDE DEF c, op, D
  <2>4. FoldsTo(D, Seq(R), <<>>, c, op)
    BY <1>1, <2>1, <2>2, <2>3, FoldExists
  <2> QED
    BY <2>4 DEF FoldsTo
<1>6. Rec(iter)
  <2>1. \A s \in SUBSET D : s # {} =>
           op[f[s \ {c[s]}]][c[s]] = PlaceByAssets(f[s \ {Max(s)}], rows[Max(s)])
    BY <1>1
  <2>2. f = [s \in SUBSET D |-> f[s]]
    OBVIOUS
  <2>3. Rec(f)
    BY <1>5, <2>1, <2>2
  <2> HIDE DEF Rec
  <2> QED
    BY <2>3
<1>7. \A s \in SUBSET D :
        iter[s] = IF s = {} THEN <<>> ELSE PlaceByAssets(iter[s \ {Max(s)}], rows[Max(s)])
  <2> DEFINE it == iter
  <2>1. Rec(it)
    BY <1>6
  <2> HIDE DEF it
  <2>2. \A s \in SUBSET D :
          it[s] = IF s = {} THEN <<>> ELSE PlaceByAssets(it[s \ {Max(s)}], rows[Max(s)])
    BY <2>1
  <2> QED
    BY <2>2 DEF it
<1> HIDE DEF iter, D, op
<1> DEFINE Good == {s \in SUBSET D : iter[s] \in Seq(R)}
<1>8. ASSUME NEW s \in SUBSET D, \A i \in s : s \ {i} \in Good
      PROVE  s \in Good
  <2>1. CASE s = {}
    <3>1. iter[s] = <<>>
      BY <1>7, <2>1
    <3>2. <<>> \in Seq(R)
      OBVIOUS
    <3> QED
      BY <3>1, <3>2
  <2>2. CASE s # {}
    <3>1. Max(s) \in D /\ iter[s \ {Max(s)}] \in Seq(R)
      BY <1>1, <1>8, <2>2
    <3>2. iter[s] = PlaceByAssets(iter[s \ {Max(s)}], rows[Max(s)])
      BY <1>7, <2>2
    <3> QED
      BY <1>4, <3>1, <3>2
  <2> QED
    BY <2>1, <2>2
<1>9. SUBSET D \subseteq Good
  <2>1. Hereditary(D, Good)
    BY <1>8 DEF Hereditary
  <2>2. IsFiniteSet(D)
    BY <1>1
  <2> HIDE DEF Good
  <2> QED
    BY <2>1, <2>2, SubsetInduction
<1> QED
  BY <1>2, <1>9

LEMMA TriggersAreList ==
  ASSUME NEW R, NEW rows \in Seq(R), NEW scene
  PROVE  SceneTriggers(scene, rows) \in Seq(R)
<1> DEFINE D == DOMAIN rows
           Add(own, t) == IF InScope(scene, t) THEN Append(own, t) ELSE own
           Rec(g) == g = [s \in SUBSET D |->
                            IF s = {} THEN <<>> ELSE Add(g[s \ {Max(s)}], rows[Max(s)])]
           iter == CHOOSE g : Rec(g)
           c == [s \in SUBSET D |-> Max(s)]
           op == [v \in Seq(R) |-> [i \in D |-> Add(v, rows[i])]]
<1>1. IsFiniteSet(D) /\ \A s \in SUBSET D : s # {} => Max(s) \in s
  BY LastFirst
<1>2. SceneTriggers(scene, rows) = iter[D]
  BY DEF SceneTriggers, FoldLeft, MapThenFoldSet
<1>3. \A i \in D : rows[i] \in R
  OBVIOUS
<1>4. \A v \in Seq(R), i \in D : Add(v, rows[i]) \in Seq(R)
  BY <1>3
<1> HIDE DEF Add
<1>5. PICK f \in [SUBSET D -> Seq(R)] : \A s \in SUBSET D :
        f[s] = IF s = {} THEN <<>> ELSE op[f[s \ {c[s]}]][c[s]]
  <2>1. \A s \in SUBSET D : s # {} => c[s] \in s
    BY <1>1
  <2>2. \A v \in Seq(R), i \in D : op[v][i] \in Seq(R)
    BY <1>4
  <2>3. <<>> \in Seq(R)
    OBVIOUS
  <2> HIDE DEF c, op, D
  <2>4. FoldsTo(D, Seq(R), <<>>, c, op)
    BY <1>1, <2>1, <2>2, <2>3, FoldExists
  <2> QED
    BY <2>4 DEF FoldsTo
<1>6. Rec(iter)
  <2>1. \A s \in SUBSET D : s # {} =>
           op[f[s \ {c[s]}]][c[s]] = Add(f[s \ {Max(s)}], rows[Max(s)])
    BY <1>1
  <2>2. f = [s \in SUBSET D |-> f[s]]
    OBVIOUS
  <2>3. Rec(f)
    BY <1>5, <2>1, <2>2
  <2> HIDE DEF Rec
  <2> QED
    BY <2>3
<1>7. \A s \in SUBSET D :
        iter[s] = IF s = {} THEN <<>> ELSE Add(iter[s \ {Max(s)}], rows[Max(s)])
  <2> DEFINE it == iter
  <2>1. Rec(it)
    BY <1>6
  <2> HIDE DEF it
  <2>2. \A s \in SUBSET D : it[s] = IF s = {} THEN <<>> ELSE Add(it[s \ {Max(s)}], rows[Max(s)])
    BY <2>1
  <2> QED
    BY <2>2 DEF it
<1> HIDE DEF iter, D, op
<1> DEFINE Good == {s \in SUBSET D : iter[s] \in Seq(R)}
<1>8. ASSUME NEW s \in SUBSET D, \A i \in s : s \ {i} \in Good
      PROVE  s \in Good
  <2>1. CASE s = {}
    <3>1. iter[s] = <<>>
      BY <1>7, <2>1
    <3>2. <<>> \in Seq(R)
      OBVIOUS
    <3> QED
      BY <3>1, <3>2
  <2>2. CASE s # {}
    <3>1. Max(s) \in D /\ iter[s \ {Max(s)}] \in Seq(R)
      BY <1>1, <1>8, <2>2
    <3>2. iter[s] = Add(iter[s \ {Max(s)}], rows[Max(s)])
      BY <1>7, <2>2
    <3> QED
      BY <1>4, <3>1, <3>2
  <2> QED
    BY <2>1, <2>2
<1>9. SUBSET D \subseteq Good
  <2>1. Hereditary(D, Good)
    BY <1>8 DEF Hereditary
  <2>2. IsFiniteSet(D)
    BY <1>1
  <2> HIDE DEF Good
  <2> QED
    BY <2>1, <2>2, SubsetInduction
<1> QED
  BY <1>2, <1>9

(* The name of a file is a list of words.                                  *)
LEMMA SlugWordTyped ==
  ASSUME NEW R, "_" \in R, NEW slug \in Seq(R), NEW w \in R
  PROVE  SlugWord(slug, w) \in Seq(R)
<1> DEFINE mark == "_"
<1>1. SlugWord(slug, w) \in {Append(slug, w), Append(slug, mark), slug}
  BY Zenon DEF SlugWord
<1>2. mark \in R
  OBVIOUS
<1> HIDE DEF mark
<1>3. Append(slug, w) \in Seq(R) /\ Append(slug, mark) \in Seq(R)
  BY <1>2, AppendProperties
<1> QED
  BY <1>1, <1>3

LEMMA SlugWordsAreList ==
  ASSUME NEW R, NEW rows \in Seq(R),
         \A v \in Seq(R), w \in R : SlugWord(v, w) \in Seq(R)
  PROVE  FoldLeft(SlugWord, <<>>, rows) \in Seq(R)
<1> DEFINE D == DOMAIN rows
           Rec(g) == g = [s \in SUBSET D |->
                            IF s = {} THEN <<>> ELSE SlugWord(g[s \ {Max(s)}], rows[Max(s)])]
           iter == CHOOSE g : Rec(g)
           c == [s \in SUBSET D |-> Max(s)]
           op == [v \in Seq(R) |-> [i \in D |-> SlugWord(v, rows[i])]]
<1>1. IsFiniteSet(D) /\ \A s \in SUBSET D : s # {} => Max(s) \in s
  BY LastFirst
<1>2. FoldLeft(SlugWord, <<>>, rows) = iter[D]
  BY DEF FoldLeft, MapThenFoldSet
<1>3. \A i \in D : rows[i] \in R
  OBVIOUS
<1>4. \A v \in Seq(R), i \in D : SlugWord(v, rows[i]) \in Seq(R)
  BY <1>3
<1>5. PICK f \in [SUBSET D -> Seq(R)] : \A s \in SUBSET D :
        f[s] = IF s = {} THEN <<>> ELSE op[f[s \ {c[s]}]][c[s]]
  <2>1. \A s \in SUBSET D : s # {} => c[s] \in s
    BY <1>1
  <2>2. \A v \in Seq(R), i \in D : op[v][i] \in Seq(R)
    BY <1>4
  <2>3. <<>> \in Seq(R)
    OBVIOUS
  <2> HIDE DEF c, op, D
  <2>4. FoldsTo(D, Seq(R), <<>>, c, op)
    BY <1>1, <2>1, <2>2, <2>3, FoldExists
  <2> QED
    BY <2>4 DEF FoldsTo
<1>6. Rec(iter)
  <2>1. \A s \in SUBSET D : s # {} =>
           op[f[s \ {c[s]}]][c[s]] = SlugWord(f[s \ {Max(s)}], rows[Max(s)])
    BY <1>1
  <2>2. f = [s \in SUBSET D |-> f[s]]
    OBVIOUS
  <2>3. Rec(f)
    BY <1>5, <2>1, <2>2
  <2> HIDE DEF Rec
  <2> QED
    BY <2>3
<1>7. \A s \in SUBSET D :
        iter[s] = IF s = {} THEN <<>> ELSE SlugWord(iter[s \ {Max(s)}], rows[Max(s)])
  <2> DEFINE it == iter
  <2>1. Rec(it)
    BY <1>6
  <2> HIDE DEF it
  <2>2. \A s \in SUBSET D :
          it[s] = IF s = {} THEN <<>> ELSE SlugWord(it[s \ {Max(s)}], rows[Max(s)])
    BY <2>1
  <2> QED
    BY <2>2 DEF it
<1> HIDE DEF iter, D, op
<1> DEFINE Good == {s \in SUBSET D : iter[s] \in Seq(R)}
<1>8. ASSUME NEW s \in SUBSET D, \A i \in s : s \ {i} \in Good
      PROVE  s \in Good
  <2>1. CASE s = {}
    <3>1. iter[s] = <<>>
      BY <1>7, <2>1
    <3>2. <<>> \in Seq(R)
      OBVIOUS
    <3> QED
      BY <3>1, <3>2
  <2>2. CASE s # {}
    <3>1. Max(s) \in D /\ iter[s \ {Max(s)}] \in Seq(R)
      BY <1>1, <1>8, <2>2
    <3>2. iter[s] = SlugWord(iter[s \ {Max(s)}], rows[Max(s)])
      BY <1>7, <2>2
    <3> DEFINE rest == iter[s \ {Max(s)}]
    <3>3. SlugWord(rest, rows[Max(s)]) \in Seq(R)
      BY <1>4, <3>1, Zenon
    <3> QED
      BY <3>2, <3>3
  <2> QED
    BY <2>1, <2>2
<1>9. SUBSET D \subseteq Good
  <2>1. Hereditary(D, Good)
    BY <1>8 DEF Hereditary
  <2>2. IsFiniteSet(D)
    BY <1>1
  <2> HIDE DEF Good
  <2> QED
    BY <2>1, <2>2, SubsetInduction
<1> QED
  BY <1>2, <1>9

LEMMA SlugIsList ==
  ASSUME NEW name, IsListed(name)
  PROVE  \E R : Slug(name) \in Seq(R)
<1> DEFINE low == Lowered(name)
           R == {low[i] : i \in DOMAIN low} \cup {"_"}
           slug == FoldLeft(SlugWord, <<>>, low)
<1>1. DOMAIN low = 1 .. Len(name) /\ Len(name) \in Nat
  BY LenProperties DEF IsListed, Lowered
<1>2. low \in Seq(R)
  <2>1. low = [i \in 1 .. Len(name) |-> low[i]] /\ \A i \in 1 .. Len(name) : low[i] \in R
    BY <1>1 DEF Lowered
  <2> HIDE DEF low, R
  <2> QED
    BY <1>1, <2>1
<1>3. slug \in Seq(R)
  <2>1. "_" \in R
    OBVIOUS
  <2> HIDE DEF low, R
  <2>2. \A v \in Seq(R), w \in R : SlugWord(v, w) \in Seq(R)
    BY <2>1, SlugWordTyped
  <2> QED
    BY <1>2, <2>2, SlugWordsAreList
<1> DEFINE ends == slug # <<>> /\ slug[Len(slug)] = "_"
<1>4. Slug(name) = IF ends THEN SubSeq(slug, 1, Len(slug) - 1) ELSE slug
  BY DEF Slug
<1> HIDE DEF R, slug, ends
<1>5. Slug(name) \in Seq(R)
  <2>1. Len(slug) \in Nat /\ Len(slug) - 1 \in Int /\ Len(slug) - 1 <= Len(slug)
    BY <1>3
  <2> QED
    BY <1>3, <1>4, <2>1
<1> QED
  BY <1>5

(* The scenes of the tree are a list, each with a list of triggers and one *)
(* of the names of the table.                                              *)
IsList(x) == Len(x) \in Nat /\ DOMAIN x = 1 .. Len(x)

LEMMA ScenesAreList ==
  ASSUME NEW base, NEW R, RowsOf(base.scenes) \in Seq(R), \A s \in R : HasName(s),
         NEW Q, RowsOf(base.triggers) \in Seq(Q)
  PROVE  /\ IsList(BuildDecisionTree(base).scenes)
         /\ \A i \in DOMAIN BuildDecisionTree(base).scenes :
              /\ IsList(BuildDecisionTree(base).scenes[i].triggers)
              /\ IsListed(BuildDecisionTree(base).scenes[i].scene_path)
<1> DEFINE merged == FoldLeft(KeepScene, <<>>, RowsOf(base.scenes))
           sorted == ByAssets(merged)
           own(s) == SceneTriggers(s.scene_path, RowsOf(base.triggers))
           with(s) == [f \in DOMAIN s \cup {"triggers", "n_triggers"} |->
             CASE f = "triggers" -> own(s) [] f = "n_triggers" -> Len(own(s)) [] OTHER -> s[f]]
           all == BuildDecisionTree(base).scenes
<1>1. merged \in Seq(R)
  BY MergedIsList
<1>2. sorted \in Seq(R)
  BY <1>1, SortedIsList DEF ByAssets
<1>3. all = [i \in DOMAIN sorted |-> with(sorted[i])]
  BY DEF BuildDecisionTree
<1> HIDE DEF sorted, merged, all, with
<1>4. DOMAIN all = 1 .. Len(sorted) /\ Len(sorted) \in Nat /\ DOMAIN sorted = 1 .. Len(sorted)
  BY <1>2, <1>3, LenProperties
<1>5. IsList(all)
  <2>1. all \in Seq({all[i] : i \in DOMAIN all})
    BY <1>3, <1>4
  <2> QED
    BY <2>1, LenProperties DEF IsList
<1>6. \A i \in DOMAIN all : all[i].triggers = own(sorted[i])
  BY <1>3 DEF with
<1>7. \A i : own(sorted[i]) \in Seq(Q)
  BY TriggersAreList
<1>8. \A i \in DOMAIN all : all[i].triggers \in Seq(Q)
  BY <1>6, <1>7
<1>9. \A i \in DOMAIN all : IsList(all[i].triggers)
  BY <1>8, LenProperties DEF IsList
<1>10. ASSUME NEW i \in DOMAIN all
       PROVE  IsListed(all[i].scene_path)
  <2>1. sorted[i] \in R
    BY <1>2, <1>4
  <2>2. all[i].scene_path = sorted[i].scene_path
    BY <1>3, <1>4, <2>1 DEF with, HasName
  <2> QED
    BY <2>1, <2>2 DEF HasName
<1> QED
  BY <1>5, <1>9, <1>10 DEF all

-----------------------------------------------------------------------------
(* The files of the scenes. A scene of the tree is overwritten by a later  *)
(* one with its file name, so a file tells the last of them written so far.*)
Of(this, data) == [run |-> this, whole |-> TRUE, data |-> data]
AllScenes(found) == BuildDecisionTree(found.base).scenes
SlugOf(found, i) == Slug(AllScenes(found)[i].scene_path)
LastOf(found, slug, n) == Max({i \in 1 .. n : SlugOf(found, i) = slug})
LastScene(found, slug, n) == AllScenes(found)[LastOf(found, slug, n)]

Holds(files, path, entry) == path \in DOMAIN files /\ files[path] = entry
Written(files, this, found, step, n) ==
  \A i \in 1 .. n :
    LET slug == SlugOf(found, i) IN
    Holds(files, PathOf(slug, KindOf[step]),
          Of(this, SceneData(found, step, LastScene(found, slug, n))))

(* Names that are lists lead to different files of one kind; files with    *)
(* different endings differ.                                               *)
IsName(slug) == \E R : slug \in Seq(R)
Ending(kind) == IF kind = "storyboard" THEN "md" ELSE kind

LEMMA PathsDiffer ==
  ASSUME NEW slug, NEW other, IsName(slug), IsName(other), NEW kind,
         PathOf(slug, kind) = PathOf(other, kind)
  PROVE  slug = other
<1>1. CASE kind # "storyboard"
  BY <1>1 DEF PathOf
<1>2. CASE kind = "storyboard"
  <2>1. slug \o BOARD = other \o BOARD
    BY <1>2 DEF PathOf
  <2>2. PICK R : slug \in Seq(R)
    BY DEF IsName
  <2>3. PICK Q : other \in Seq(Q)
    BY DEF IsName
  <2> DEFINE S == R \cup Q \cup {BOARD[1], BOARD[2]}
  <2>4. slug \in Seq(S) /\ other \in Seq(S)
    BY <2>2, <2>3
  <2>5. BOARD \in Seq(S)
    <3>1. BOARD = <<BOARD[1], BOARD[2]>>
      BY DEF BOARD
    <3>2. \A a, b \in S : <<a, b>> \in Seq(S)
      OBVIOUS
    <3> QED
      BY <3>1, <3>2
  <2> HIDE DEF S
  <2>6. /\ Len(slug \o BOARD) = Len(slug) + Len(BOARD) /\ Len(slug) \in Nat
        /\ \A i \in 1 .. Len(slug) : (slug \o BOARD)[i] = slug[i]
        /\ Len(other \o BOARD) = Len(other) + Len(BOARD) /\ Len(other) \in Nat
        /\ \A i \in 1 .. Len(other) : (other \o BOARD)[i] = other[i]
        /\ Len(BOARD) \in Nat
    BY <2>4, <2>5, ConcatProperties, LenProperties
  <2>7. Len(slug) = Len(other) /\ \A i \in 1 .. Len(slug) : slug[i] = other[i]
    BY <2>1, <2>6
  <2> QED
    BY <2>4, <2>7, SeqEqual
<1> QED
  BY <1>1, <1>2

LEMMA PathIs ==
  ASSUME NEW slug, NEW kind
  PROVE  /\ PathOf(slug, kind) = <<PathOf(slug, kind)[1], Ending(kind)>>
         /\ kind # "storyboard" => PathOf(slug, kind) = <<slug, kind>>
         /\ PathOf(slug, "storyboard") = <<slug \o BOARD, "md">>
BY DEF PathOf, Ending

LEMMA LastIs ==
  ASSUME NEW found, NEW n \in Nat, NEW i \in 1 .. n
  PROVE  /\ LastOf(found, SlugOf(found, i), n) \in 1 .. n
         /\ SlugOf(found, LastOf(found, SlugOf(found, i), n)) = SlugOf(found, i)
         /\ i <= LastOf(found, SlugOf(found, i), n)
<1> DEFINE S == {k \in 1 .. n : SlugOf(found, k) = SlugOf(found, i)}
<1>1. n \in Int /\ S \in SUBSET Int /\ S # {} /\ \A k \in S : k <= n
  OBVIOUS
<1>2. Max(S) \in S /\ \A k \in S : k <= Max(S)
  <2> HIDE DEF S
  <2> QED
    BY <1>1, MaxExists
<1> QED
  BY <1>2 DEF LastOf

LEMMA LastGrows ==
  ASSUME NEW found, NEW n \in Nat
  PROVE  /\ LastOf(found, SlugOf(found, n + 1), n + 1) = n + 1
         /\ \A slug : slug # SlugOf(found, n + 1) => LastOf(found, slug, n + 1) = LastOf(found, slug, n)
<1>1. LastOf(found, SlugOf(found, n + 1), n + 1) = n + 1
  <2> DEFINE S == {k \in 1 .. n + 1 : SlugOf(found, k) = SlugOf(found, n + 1)}
  <2>1. S \in SUBSET Int /\ n + 1 \in S /\ \A k \in S : n + 1 >= k
    OBVIOUS
  <2>2. Max(S) = n + 1
    BY <2>1, MaxIs
  <2> QED
    BY <2>2 DEF LastOf
<1>2. ASSUME NEW slug, slug # SlugOf(found, n + 1)
      PROVE  LastOf(found, slug, n + 1) = LastOf(found, slug, n)
  <2>1. {k \in 1 .. n + 1 : SlugOf(found, k) = slug} = {k \in 1 .. n : SlugOf(found, k) = slug}
    BY <1>2
  <2> QED
    BY <2>1 DEF LastOf
<1> QED
  BY <1>1, <1>2

LEMMA PutHolds ==
  ASSUME NEW files, NEW path, NEW entry
  PROVE  /\ Holds(Put(files, path, entry), path, entry)
         /\ \A p, e : p # path /\ Holds(files, p, e) => Holds(Put(files, path, entry), p, e)
BY Zenon DEF Put, Holds

(* The next scene is written. *)
LEMMA WrittenNext ==
  ASSUME NEW files, NEW this, NEW found, NEW step, NEW n \in Nat,
         Written(files, this, found, step, n), \A i \in 1 .. n + 1 : IsName(SlugOf(found, i))
  PROVE  Written(Put(files, PathOf(SlugOf(found, n + 1), KindOf[step]),
                     Of(this, SceneData(found, step, AllScenes(found)[n + 1]))),
                 this, found, step, n + 1)
<1> DEFINE kind == KindOf[step]
           entry == Of(this, SceneData(found, step, AllScenes(found)[n + 1]))
           more == Put(files, PathOf(SlugOf(found, n + 1), kind), entry)
<1> SUFFICES ASSUME NEW i \in 1 .. n + 1
             PROVE  Holds(more, PathOf(SlugOf(found, i), kind),
                      Of(this, SceneData(found, step, LastScene(found, SlugOf(found, i), n + 1))))
  BY DEF Written
<1>1. CASE SlugOf(found, i) = SlugOf(found, n + 1)
  <2>1. LastScene(found, SlugOf(found, i), n + 1) = AllScenes(found)[n + 1]
    BY <1>1, LastGrows DEF LastScene
  <2> QED
    BY <1>1, <2>1, PutHolds
<1>2. CASE SlugOf(found, i) # SlugOf(found, n + 1)
  <2>1. i \in 1 .. n
    BY <1>2
  <2>2. LastScene(found, SlugOf(found, i), n + 1) = LastScene(found, SlugOf(found, i), n)
    BY <1>2, LastGrows DEF LastScene
  <2>3. PathOf(SlugOf(found, i), kind) # PathOf(SlugOf(found, n + 1), kind)
    BY <1>2, PathsDiffer
  <2>4. Holds(files, PathOf(SlugOf(found, i), kind),
              Of(this, SceneData(found, step, LastScene(found, SlugOf(found, i), n))))
    BY <2>1 DEF Written
  <2> QED
    BY <2>2, <2>3, <2>4, PutHolds
<1> QED
  BY <1>1, <1>2

(* Files with another ending do not disturb it. *)
LEMMA WrittenBeside ==
  ASSUME NEW files, NEW this, NEW found, NEW step, NEW n, NEW slug, NEW kind, NEW entry,
         Ending(kind) # Ending(KindOf[step]), Written(files, this, found, step, n)
  PROVE  Written(Put(files, PathOf(slug, kind), entry), this, found, step, n)
<1> SUFFICES ASSUME NEW i \in 1 .. n
             PROVE  Holds(Put(files, PathOf(slug, kind), entry), PathOf(SlugOf(found, i), KindOf[step]),
                      Of(this, SceneData(found, step, LastScene(found, SlugOf(found, i), n))))
  BY DEF Written
<1>1. PathOf(SlugOf(found, i), KindOf[step]) # PathOf(slug, kind)
  <2>1. \A s, k : PathOf(s, k)[2] = Ending(k)
    BY DEF PathOf, Ending
  <2> QED
    BY <2>1
<1>2. Holds(files, PathOf(SlugOf(found, i), KindOf[step]),
            Of(this, SceneData(found, step, LastScene(found, SlugOf(found, i), n))))
  BY DEF Written
<1> QED
  BY <1>1, <1>2, PutHolds

(* The readable file of a scene says what its JSON file says.              *)
Readable(files, this, slugs, n) ==
  \A m \in 1 .. n :
    LET told == files[<<slugs[m], "json">>] IN
    told.whole => Holds(files, <<slugs[m], "md">>, Of(this, SceneMd(told.data)))
RetoldBy(found, i, n) == \E k \in 1 .. n : SlugOf(found, k) \o BOARD = SlugOf(found, i)
AllReadable(files, this, found, n) ==
  \A i \in 1 .. n :
    LET slug == SlugOf(found, i) IN
    RetoldBy(found, i, n) \/
      Holds(files, <<slug, "md">>,
            Of(this, SceneMd(SceneData(found, "scenes_json", LastScene(found, slug, n)))))

LEMMA JsonFilesStay ==
  ASSUME NEW files, NEW slug, NEW kind, kind # "json", NEW entry
  PROVE  /\ JsonSlugs(Put(files, <<slug, kind>>, entry)) = JsonSlugs(files)
         /\ \A p \in DOMAIN files : p # <<slug, kind>> =>
              Put(files, <<slug, kind>>, entry)[p] = files[p]
<1> DEFINE path == <<slug, kind>>
           more == Put(files, path, entry)
<1>1. path[2] # "json"
  OBVIOUS
<1>2. DOMAIN more = DOMAIN files \cup {path} /\ \A p \in DOMAIN files : p # path => more[p] = files[p]
  BY Zenon DEF Put
<1> HIDE DEF path, more
<1>3. {p \in DOMAIN more : p[2] = "json"} = {p \in DOMAIN files : p[2] = "json"}
  BY <1>1, <1>2
<1> QED
  BY <1>2, <1>3 DEF JsonSlugs, path, more

LEMMA SlugHasFile ==
  ASSUME NEW files, \A p \in DOMAIN files : p = <<p[1], p[2]>>, NEW slug
  PROVE  slug \in JsonSlugs(files) <=> <<slug, "json">> \in DOMAIN files
<1>1. ASSUME slug \in JsonSlugs(files)  PROVE <<slug, "json">> \in DOMAIN files
  <2>1. PICK p \in DOMAIN files : p[2] = "json" /\ p[1] = slug
    BY <1>1 DEF JsonSlugs
  <2>2. p = <<slug, "json">>
    BY <2>1
  <2> QED
    BY <2>2
<1>2. ASSUME <<slug, "json">> \in DOMAIN files  PROVE slug \in JsonSlugs(files)
  <2>1. <<slug, "json">>[1] = slug /\ <<slug, "json">>[2] = "json"
    OBVIOUS
  <2> QED
    BY <1>2, <2>1 DEF JsonSlugs
<1> QED
  BY <1>1, <1>2

LEMMA SlugsEnumerated ==
  ASSUME NEW files, IsFiniteSet(DOMAIN files)
  PROVE  /\ IsList(AsSeq(JsonSlugs(files)))
         /\ \A slug \in JsonSlugs(files) :
              \E m \in 1 .. Len(AsSeq(JsonSlugs(files))) : AsSeq(JsonSlugs(files))[m] = slug
         /\ \A m \in 1 .. Len(AsSeq(JsonSlugs(files))) : AsSeq(JsonSlugs(files))[m] \in JsonSlugs(files)
<1> DEFINE paths == {p \in DOMAIN files : p[2] = "json"}
           S == JsonSlugs(files)
           slugs == AsSeq(S)
<1>1. IsFiniteSet(paths)
  <2>1. paths \in SUBSET DOMAIN files
    OBVIOUS
  <2> QED
    BY <2>1, FS_Subset
<1>2. S = {p[1] : p \in paths}
  BY DEF JsonSlugs
<1>3. IsFiniteSet(S)
  <2> DEFINE f == [p \in paths |-> p[1]]
  <2>1. f \in Surjection(paths, S)
    BY <1>2 DEF Surjection
  <2> HIDE DEF f, paths, S
  <2> QED
    BY <1>1, <2>1, FS_Surjection
<1> HIDE DEF S, paths
<1>4. slugs \in Seq(S) /\ ToSet(slugs) = S
  BY <1>3, AsSeqEnumerates
<1> HIDE DEF slugs
<1>5. IsList(slugs)
  BY <1>4, LenProperties DEF IsList
<1>6. S = {slugs[m] : m \in DOMAIN slugs}
  BY <1>4 DEF ToSet
<1> QED
  BY <1>5, <1>6 DEF IsList, slugs, S

(* One more readable file.                                                 *)
LEMMA ReadableNext ==
  ASSUME NEW files, NEW this, NEW slugs, NEW n \in Nat, Readable(files, this, slugs, n),
         \A m \in 1 .. n + 1 : <<slugs[m], "json">> \in DOMAIN files,
         NEW told, told = files[<<slugs[n + 1], "json">>],
         NEW more, more = IF told.whole
                          THEN Put(files, <<slugs[n + 1], "md">>, Of(this, SceneMd(told.data)))
                          ELSE files
  PROVE  Readable(more, this, slugs, n + 1)
<1> SUFFICES ASSUME NEW m \in 1 .. n + 1, more[<<slugs[m], "json">>].whole
             PROVE  Holds(more, <<slugs[m], "md">>,
                          Of(this, SceneMd(more[<<slugs[m], "json">>].data)))
  BY DEF Readable
<1>1. more[<<slugs[m], "json">>] = files[<<slugs[m], "json">>]
  <2> DEFINE path == <<slugs[m], "json">>
             beside == <<slugs[n + 1], "md">>
  <2>1. path # beside /\ path \in DOMAIN files
    OBVIOUS
  <2> HIDE DEF path, beside
  <2>2. Put(files, beside, Of(this, SceneMd(told.data)))[path] = files[path]
    BY <2>1, Zenon DEF Put
  <2>3. more[path] = files[path]
    BY <2>2 DEF beside
  <2> QED
    BY <2>3 DEF path
<1>2. CASE slugs[m] = slugs[n + 1]
  BY <1>1, <1>2, PutHolds
<1>3. CASE slugs[m] # slugs[n + 1]
  <2>1. m \in 1 .. n
    BY <1>3
  <2>2. Holds(files, <<slugs[m], "md">>, Of(this, SceneMd(files[<<slugs[m], "json">>].data)))
    BY <1>1, <2>1 DEF Readable
  <2>3. <<slugs[m], "md">> # <<slugs[n + 1], "md">>
    BY <1>3
  <2> QED
    BY <1>1, <2>2, <2>3, PutHolds
<1> QED
  BY <1>2, <1>3

LEMMA AllReadableBeside ==
  ASSUME NEW files, NEW this, NEW found, NEW n, NEW k \in 1 .. n, NEW kind, NEW entry,
         kind # "md", AllReadable(files, this, found, n)
  PROVE  AllReadable(Put(files, PathOf(SlugOf(found, k), kind), entry), this, found, n)
<1> DEFINE md(i) == Of(this, SceneMd(SceneData(found, "scenes_json",
                                               LastScene(found, SlugOf(found, i), n))))
<1> SUFFICES ASSUME NEW i \in 1 .. n, ~RetoldBy(found, i, n)
             PROVE  Holds(Put(files, PathOf(SlugOf(found, k), kind), entry),
                          <<SlugOf(found, i), "md">>, md(i))
  BY DEF AllReadable
<1>1. <<SlugOf(found, i), "md">> # PathOf(SlugOf(found, k), kind)
  <2>1. CASE kind = "storyboard"
    BY <2>1, PathIs DEF RetoldBy
  <2>2. CASE kind # "storyboard"
    BY <2>2, PathIs
  <2> QED
    BY <2>1, <2>2
<1>2. Holds(files, <<SlugOf(found, i), "md">>, md(i))
  BY DEF AllReadable
<1> QED
  BY <1>1, <1>2, PutHolds

(* When every JSON file has been gone over, the scenes of the tree are     *)
(* readable.                                                               *)
LEMMA ReadableOnceAllRead ==
  ASSUME NEW files, NEW this, NEW found, NEW n \in Nat, IsFiniteSet(DOMAIN files),
         \A p \in DOMAIN files : p = <<p[1], p[2]>>,
         Written(files, this, found, "scenes_json", n),
         NEW slugs, slugs = AsSeq(JsonSlugs(files)), Readable(files, this, slugs, Len(slugs))
  PROVE  AllReadable(files, this, found, n)
<1> SUFFICES ASSUME NEW i \in 1 .. n
             PROVE  Holds(files, <<SlugOf(found, i), "md">>,
                      Of(this, SceneMd(SceneData(found, "scenes_json",
                                                 LastScene(found, SlugOf(found, i), n)))))
  BY DEF AllReadable
<1> DEFINE slug == SlugOf(found, i)
           data == SceneData(found, "scenes_json", LastScene(found, slug, n))
<1>1. KindOf["scenes_json"] = "json"
  BY DEF KindOf
<1>2. Holds(files, <<slug, "json">>, Of(this, data))
  BY <1>1, PathIs DEF Written
<1>3. slug \in JsonSlugs(files)
  BY <1>2, SlugHasFile DEF Holds
<1>4. PICK m \in 1 .. Len(slugs) : slugs[m] = slug
  BY <1>3, SlugsEnumerated
<1> HIDE DEF slug, data
<1>5. files[<<slugs[m], "json">>].whole /\ files[<<slugs[m], "json">>].data = data
  BY <1>2, <1>4 DEF Holds, Of
<1> QED
  BY <1>4, <1>5 DEF Readable, slug, data

-----------------------------------------------------------------------------
(* What a run that has raised nothing has written by step a, turn n.       *)
Total(found) == Len(AllScenes(found))
Stage(files, names, this, found, a, n) ==
  /\ a = 11 => Written(files, this, found, "scenes_json", n)
  /\ a >= 12 => Written(files, this, found, "scenes_json", Total(found))
  /\ a >= 13 => Holds(names, "00_index", Of(this, SceneIndex(found)))
  /\ a = 13 => Readable(files, this, AsSeq(JsonSlugs(files)), n)
  /\ a >= 14 => AllReadable(files, this, found, Total(found))
  /\ a = 14 => Written(files, this, found, "storyboards", n)
  /\ a >= 15 => Written(files, this, found, "storyboards", Total(found))
  /\ a = 18 => Written(files, this, found, "scenes_nl", n)
  /\ a >= 19 => Written(files, this, found, "scenes_nl", Total(found))

FilesOk(files, this) ==
  /\ IsFiniteSet(DOMAIN files)
  /\ \A p \in DOMAIN files : /\ p = <<p[1], p[2]>>
                             /\ files[p].run \in Nat /\ files[p].run <= this

Behind(names, files) ==
  Sound(names, "00_index") =>
    \A i \in DOMAIN names["00_index"].data :
      LET path == <<names["00_index"].data[i].file, "json">> IN
      path \in DOMAIN files /\ files[path].run >= names["00_index"].run

Ends == /\ InRun => input \in Inputs
        /\ Running /\ failed => at >= 21
        /\ status = "finished" => at = 25

FilesInv ==
  /\ DatabaseInv /\ Ends
  /\ FilesOk(scenes, run)
  /\ Behind(json, scenes)
  /\ InRun /\ ~failed => Stage(scenes, json, run, input, at, nth)

LEMMA InputLists ==
  ASSUME NEW found \in Inputs
  PROVE  /\ Total(found) \in Nat /\ DOMAIN AllScenes(found) = 1 .. Total(found)
         /\ \A i \in 1 .. Total(found) : IsList(AllScenes(found)[i].triggers)
         /\ \A i \in 1 .. Total(found) : \E R : SlugOf(found, i) \in Seq(R)
<1> DEFINE rows == RowsOf(found.base.scenes)
           R == {rows[i] : i \in DOMAIN rows}
           all == BuildDecisionTree(found.base).scenes
<1>1. rows \in Seq(R) /\ \A s \in R : HasName(s)
  BY InputsAssumption DEF IsListed
<1>2. \E Q : RowsOf(found.base.triggers) \in Seq(Q)
  BY InputsAssumption DEF IsListed
<1> HIDE DEF R
<1>3. /\ IsList(all)
      /\ \A i \in DOMAIN all : IsList(all[i].triggers) /\ IsListed(all[i].scene_path)
  BY <1>1, <1>2, ScenesAreList
<1>4. \A i \in DOMAIN all : \E Q : Slug(all[i].scene_path) \in Seq(Q)
  BY <1>3, SlugIsList
<1> QED
  BY <1>3, <1>4 DEF Total, AllScenes, IsList, SlugOf

LEMMA EntryIsOf == \A data : Entry(data) = Of(run, data)
BY DEF Entry, Of

LEMMA OfIs ==
  ASSUME NEW this, NEW data
  PROVE  Of(this, data).run = this /\ Of(this, data).whole /\ Of(this, data).data = data
BY DEF Of

(* A file of the run is written among those of the scenes.                 *)
LEMMA ScenePutOk ==
  ASSUME NEW files, NEW this \in Nat, FilesOk(files, this), NEW names, Behind(names, files),
         Sound(names, "00_index") => names["00_index"].run <= this,
         NEW slug, NEW kind, NEW entry, entry.run = this
  PROVE  /\ FilesOk(Put(files, <<slug, kind>>, entry), this)
         /\ Behind(names, Put(files, <<slug, kind>>, entry))
<1> DEFINE path == <<slug, kind>>
           more == Put(files, path, entry)
<1>1. /\ DOMAIN more = DOMAIN files \cup {path} /\ more[path] = entry
      /\ \A p \in DOMAIN files : p # path => more[p] = files[p]
  BY Zenon DEF Put
<1>2. path = <<path[1], path[2]>>
  OBVIOUS
<1> HIDE DEF path, more
<1>3. FilesOk(more, this)
  <2>1. IsFiniteSet(DOMAIN more)
    BY <1>1, FS_AddElement DEF FilesOk
  <2>2. ASSUME NEW p \in DOMAIN more
        PROVE  /\ p = <<p[1], p[2]>>
               /\ more[p].run \in Nat /\ more[p].run <= this
    <3>1. CASE p = path
      BY <1>1, <1>2, <3>1
    <3>2. CASE p # path
      BY <1>1, <3>2 DEF FilesOk
    <3> QED
      BY <3>1, <3>2
  <2> QED
    BY <2>1, <2>2 DEF FilesOk
<1>4. Behind(names, more)
  <2> SUFFICES ASSUME Sound(names, "00_index"), NEW i \in DOMAIN names["00_index"].data,
                      NEW p, p = <<names["00_index"].data[i].file, "json">>
               PROVE  p \in DOMAIN more /\ more[p].run >= names["00_index"].run
    BY DEF Behind
  <2>1. p \in DOMAIN files /\ files[p].run >= names["00_index"].run
    BY DEF Behind
  <2>2. names["00_index"].run <= this
    OBVIOUS
  <2>3. CASE p = path
    BY <1>1, <2>2, <2>3
  <2>4. CASE p # path
    BY <1>1, <2>1, <2>4
  <2> QED
    BY <2>3, <2>4
<1> QED
  BY <1>3, <1>4 DEF more, path

(* Another JSON file, or the index cut short, is written.                  *)
LEMMA OtherNameBehind ==
  ASSUME NEW names, NEW files, Behind(names, files), NEW name, NEW entry,
         name # "00_index" \/ ~entry.whole
  PROVE  Behind(Put(names, name, entry), files)
<1> DEFINE more == Put(names, name, entry)
<1>1. /\ DOMAIN more = DOMAIN names \cup {name} /\ more[name] = entry
      /\ \A p \in DOMAIN names : p # name => more[p] = names[p]
  BY Zenon DEF Put
<1> HIDE DEF more
<1>2. Sound(more, "00_index") => Sound(names, "00_index") /\ more["00_index"] = names["00_index"]
  BY <1>1 DEF Sound
<1>3. Behind(more, files)
  BY <1>2 DEF Behind
<1> QED
  BY <1>3 DEF more

(* The index is written behind the files of all its scenes. *)
LEMMA IndexBehindFiles ==
  ASSUME NEW found \in Inputs, NEW files, NEW names, NEW this \in Nat,
         Written(files, this, found, "scenes_json", Total(found))
  PROVE  Behind(Put(names, "00_index", Of(this, SceneIndex(found))), files)
<1> DEFINE more == Put(names, "00_index", Of(this, SceneIndex(found)))
<1>1. more["00_index"] = Of(this, SceneIndex(found))
  BY Zenon DEF Put
<1> HIDE DEF more
<1>2. DOMAIN SceneIndex(found) = 1 .. Total(found)
  BY InputLists DEF SceneIndex, AllScenes
<1>3. \A i \in 1 .. Total(found) : SceneIndex(found)[i].file = SlugOf(found, i)
  BY <1>2 DEF SceneIndex, IndexEntry, SlugOf, AllScenes
<1>4. ASSUME NEW i \in 1 .. Total(found)
      PROVE  /\ <<SlugOf(found, i), "json">> \in DOMAIN files
             /\ files[<<SlugOf(found, i), "json">>].run = this
  <2>1. KindOf["scenes_json"] = "json"
    BY DEF KindOf
  <2> QED
    BY <2>1, OfIs, PathIs DEF Written, Holds
<1>5. Behind(more, files)
  <2>1. more["00_index"].run = this /\ more["00_index"].data = SceneIndex(found) /\ this >= this
    BY <1>1, OfIs
  <2> SUFFICES ASSUME NEW i \in 1 .. Total(found), NEW path,
                      path = <<more["00_index"].data[i].file, "json">>
               PROVE  path \in DOMAIN files /\ files[path].run >= this
    BY <1>2, <2>1 DEF Behind
  <2>2. path = <<SlugOf(found, i), "json">>
    BY <1>3, <2>1
  <2> QED
    BY <1>4, <2>1, <2>2
<1> QED
  BY <1>5 DEF more

-----------------------------------------------------------------------------
(* The actions. *)
LEMMA WrittenNone ==
  ASSUME NEW files, NEW this, NEW found, NEW step, NEW slugs
  PROVE  Written(files, this, found, step, 0) /\ Readable(files, this, slugs, 0)
BY DEF Written, Readable

LEMMA IndexOfThisRun ==
  ASSUME DatabaseInv
  PROVE  run \in Nat /\ (Sound(json, "00_index") => json["00_index"].run <= run)
BY DEF DatabaseInv, Position, RunsOf, Sound

LEMMA WriteJsonKeepsFiles == FilesInv /\ WriteJson => FilesInv'
<1> SUFFICES ASSUME FilesInv, WriteJson  PROVE FilesInv'
  OBVIOUS
<1> USE DEF FilesInv
<1>1. /\ Running /\ Step \in JSON_STEPS
      /\ at' = at + 1 /\ nth' = 0 /\ UNCHANGED <<run, status, input, failed, scenes>>
      /\ \/ Step = "xt_scripts" /\ json' = json
         \/ json' = Put(json, Step, Entry(JsonData(input, Step)))
  BY DEF WriteJson, NextStep, NothingToList
<1>2. /\ at \in 1 .. 10 \cup {12, 15, 16, 17, 19, 21}
      /\ Step = "00_index" <=> at = 12
      /\ Step = "xt_scripts" <=> at = 19
  BY <1>1, StepAt DEF DatabaseInv, Position
<1>3. DatabaseInv'
  BY WriteJsonKeeps
<1>4. Ends' /\ (FilesOk(scenes, run))'
  BY <1>1, <1>2 DEF Ends, InRun, Running
<1>5. CASE at # 12
  <2>1. Behind(json', scenes)
    <3>1. CASE json' = json
      BY <3>1
    <3>2. CASE json' = Put(json, Step, Entry(JsonData(input, Step)))
      BY <1>2, <1>5, <3>2, OtherNameBehind
    <3> QED
      BY <1>1, <3>1, <3>2
  <2>2. ASSUME InRun, ~failed
        PROVE  Stage(scenes, json', run, input, at + 1, 0)
    <3>1. Stage(scenes, json, run, input, at, nth)
      BY <2>2
    <3>2. Holds(json, "00_index", Of(run, SceneIndex(input)))
             => Holds(json', "00_index", Of(run, SceneIndex(input)))
      <4>1. CASE json' = json
        BY <4>1
      <4>2. CASE json' = Put(json, Step, Entry(JsonData(input, Step)))
        BY <1>2, <1>5, <4>2, PutHolds
      <4> QED
        BY <1>1, <4>1, <4>2
    <3> QED
      BY <1>2, <1>5, <3>1, <3>2, WrittenNone DEF Stage
  <2> QED
    BY <1>1, <1>3, <1>4, <2>1, <2>2 DEF InRun
<1>6. CASE at = 12
  <2>1. json' = Put(json, "00_index", Of(run, SceneIndex(input)))
    <3>1. json' = Put(json, "00_index", Entry(JsonData(input, "00_index")))
      BY <1>1, <1>2, <1>6
    <3>2. JsonData(input, "00_index") = SceneIndex(input)
      BY Zenon DEF JsonData
    <3> QED
      BY <3>1, <3>2, EntryIsOf
  <2>2. InRun /\ ~failed /\ input \in Inputs
    BY <1>1, <1>6 DEF InRun, Running, Ends
  <2>3. Stage(scenes, json, run, input, at, nth)
    BY <2>2
  <2>4. Written(scenes, run, input, "scenes_json", Total(input))
    BY <1>6, <2>3 DEF Stage
  <2>5. Behind(json', scenes)
    BY <2>1, <2>2, <2>4, IndexOfThisRun, IndexBehindFiles
  <2>6. Holds(json', "00_index", Of(run, SceneIndex(input)))
    BY <2>1, PutHolds
  <2>7. Stage(scenes, json', run, input, 13, 0)
    BY <2>4, <2>6, WrittenNone DEF Stage
  <2> QED
    BY <1>1, <1>3, <1>4, <1>6, <2>5, <2>7 DEF InRun
<1> QED
  BY <1>5, <1>6

LEMMA WriteSceneKeepsFiles == FilesInv /\ WriteScene => FilesInv'
<1> SUFFICES ASSUME FilesInv, WriteScene  PROVE FilesInv'
  OBVIOUS
<1> USE DEF FilesInv
<1> DEFINE slug == SlugOf(input, nth + 1)
           kind == KindOf[Step]
           entry == Of(run, SceneData(input, Step, AllScenes(input)[nth + 1]))
<1>1. /\ Running /\ Step \in SCENE_STEPS
      /\ at' = at /\ nth' = nth + 1
      /\ UNCHANGED <<run, status, input, failed, json, db, tx>>
      /\ scenes' = Put(scenes, PathOf(slug, kind), entry)
      /\ nth < Total(input)
  BY EntryIsOf DEF WriteScene, NextTurn, ScenePath, SceneAt, Tree, SlugOf, AllScenes, Total
<1>2. /\ at \in {11, 14, 18} /\ nth \in Nat
      /\ at = 11 <=> Step = "scenes_json"
      /\ at = 14 <=> Step = "storyboards"
      /\ at = 18 <=> Step = "scenes_nl"
  BY <1>1, StepAt DEF DatabaseInv, Position
<1>3. DatabaseInv'
  BY <1>1, <1>2, JoinedStepKeeps
<1>4. Ends'
  BY <1>1, <1>2 DEF Ends, InRun, Running
<1>5. entry.run = run
  BY OfIs
<1> HIDE DEF slug, kind, entry
<1>6. FilesOk(scenes', run) /\ Behind(json, scenes')
  <2>1. PathOf(slug, kind) = <<PathOf(slug, kind)[1], Ending(kind)>>
    BY PathIs
  <2> QED
    BY <1>1, <1>5, <2>1, IndexOfThisRun, ScenePutOk
<1>7. InRun /\ ~failed /\ input \in Inputs
  BY <1>1, <1>2 DEF InRun, Running, Ends
<1>8. Stage(scenes, json, run, input, at, nth)
  BY <1>7
<1>9. /\ KindOf["scenes_json"] = "json" /\ KindOf["storyboards"] = "storyboard"
      /\ KindOf["scenes_nl"] = "nl"
      /\ Ending("json") = "json" /\ Ending("storyboard") = "md" /\ Ending("nl") = "nl"
  BY DEF KindOf, Ending
<1>10. Written(scenes, run, input, Step, nth) => Written(scenes', run, input, Step, nth + 1)
  <2>1. \A i \in 1 .. nth + 1 : IsName(SlugOf(input, i))
    <3>1. \A i \in 1 .. nth + 1 : i \in 1 .. Total(input)
      BY <1>1, <1>2, <1>7, InputLists
    <3> QED
      BY <1>7, <3>1, InputLists DEF IsName
  <2> QED
    BY <1>1, <1>2, <2>1, WrittenNext DEF slug, kind, entry
<1>12. AllReadable(scenes, run, input, Total(input)) /\ kind # "md"
         => AllReadable(scenes', run, input, Total(input))
  <2>1. nth + 1 \in 1 .. Total(input)
    BY <1>1, <1>2, <1>7, InputLists
  <2> QED
    BY <1>1, <2>1, AllReadableBeside DEF slug
<1>11. Stage(scenes', json, run, input, at, nth + 1)
  <2>1. CASE at = 11
    BY <1>2, <1>8, <1>10, <2>1 DEF Stage
  <2>2. CASE at = 14
    <3>1. kind = "storyboard"
      BY <1>2, <1>9, <2>2 DEF kind
    <3>2. Written(scenes', run, input, "scenes_json", Total(input))
      BY <1>1, <1>8, <1>9, <2>2, <3>1, WrittenBeside DEF Stage
    <3>3. AllReadable(scenes', run, input, Total(input))
      BY <1>8, <1>12, <2>2, <3>1 DEF Stage
    <3> QED
      BY <1>2, <1>8, <1>10, <2>2, <3>2, <3>3 DEF Stage
  <2>3. CASE at = 18
    <3>1. kind = "nl"
      BY <1>2, <1>9, <2>3 DEF kind
    <3>2. Written(scenes', run, input, "scenes_json", Total(input))
      BY <1>1, <1>8, <1>9, <2>3, <3>1, WrittenBeside DEF Stage
    <3>3. AllReadable(scenes', run, input, Total(input))
      BY <1>8, <1>12, <2>3, <3>1 DEF Stage
    <3>4. Written(scenes', run, input, "storyboards", Total(input))
      BY <1>1, <1>8, <1>9, <2>3, <3>1, WrittenBeside DEF Stage
    <3> QED
      BY <1>2, <1>8, <1>10, <2>3, <3>2, <3>3, <3>4 DEF Stage
  <2> QED
    BY <1>2, <2>1, <2>2, <2>3
<1> QED
  BY <1>1, <1>3, <1>4, <1>6, <1>11

LEMMA WriteMdKeepsFiles == FilesInv /\ WriteMd => FilesInv'
<1> SUFFICES ASSUME FilesInv, WriteMd  PROVE FilesInv'
  OBVIOUS
<1> USE DEF FilesInv
<1> DEFINE slugs == AsSeq(JsonSlugs(scenes))
           slug == slugs[nth + 1]
           told == scenes[<<slug, "json">>]
           entry == Of(run, SceneMd(told.data))
<1>1. /\ Running /\ Step = "scenes_md" /\ nth < Len(slugs)
      /\ at' = at /\ nth' = nth + 1
      /\ UNCHANGED <<run, status, input, failed, json, db, tx>>
      /\ scenes' = IF told.whole THEN Put(scenes, <<slug, "md">>, entry) ELSE scenes
  BY EntryIsOf, PathIs DEF WriteMd, NextTurn, MdSlugs
<1>2. at = 13 /\ nth \in Nat
  BY <1>1, StepAt DEF DatabaseInv, Position
<1>3. DatabaseInv'
  BY <1>1, <1>2, JoinedStepKeeps
<1>4. Ends'
  BY <1>1, <1>2 DEF Ends, InRun, Running
<1>5. entry.run = run
  BY OfIs
<1>6. \A m \in 1 .. nth + 1 : <<slugs[m], "json">> \in DOMAIN scenes
  <2>1. Len(slugs) \in Nat /\ \A m \in 1 .. Len(slugs) : slugs[m] \in JsonSlugs(scenes)
    BY SlugsEnumerated DEF FilesOk, IsList
  <2>2. \A m \in 1 .. nth + 1 : m \in 1 .. Len(slugs)
    BY <1>1, <1>2, <2>1
  <2>3. \A p \in DOMAIN scenes : p = <<p[1], p[2]>>
    BY DEF FilesOk
  <2> QED
    BY <2>1, <2>2, <2>3, SlugHasFile
<1>7. InRun /\ ~failed
  BY <1>1, <1>2 DEF InRun, Running, Ends
<1>8. Stage(scenes, json, run, input, at, nth)
  BY <1>7
<1>9. Readable(scenes', run, slugs, nth + 1)
  <2>1. Readable(scenes, run, slugs, nth)
    BY <1>2, <1>8 DEF Stage
  <2> HIDE DEF slugs
  <2> QED
    BY <1>1, <1>2, <1>6, <2>1, ReadableNext
<1>10. CASE ~told.whole
  <2>1. scenes' = scenes
    BY <1>1, <1>10
  <2>2. Stage(scenes', json, run, input, at, nth + 1)
    BY <1>2, <1>8, <1>9, <2>1 DEF Stage
  <2> QED
    BY <1>1, <1>3, <1>4, <2>1, <2>2
<1>11. CASE told.whole
  <2>1. scenes' = Put(scenes, <<slug, "md">>, entry)
    BY <1>1, <1>11
  <2>2. JsonSlugs(scenes') = JsonSlugs(scenes)
    BY <2>1, JsonFilesStay
  <2> HIDE DEF slug, told, entry
  <2>3. FilesOk(scenes', run) /\ Behind(json, scenes')
    BY <1>5, <2>1, IndexOfThisRun, ScenePutOk
  <2>4. Written(scenes', run, input, "scenes_json", Total(input))
    <3>1. Ending(KindOf["scenes_json"]) # Ending("md") /\ PathOf(slug, "md") = <<slug, "md">>
      BY PathIs DEF KindOf, Ending
    <3> QED
      BY <1>2, <1>8, <2>1, <3>1, WrittenBeside DEF Stage
  <2>5. Stage(scenes', json, run, input, at, nth + 1)
    BY <1>2, <1>8, <1>9, <2>2, <2>4 DEF Stage
  <2> QED
    BY <1>1, <1>3, <1>4, <2>3, <2>5
<1> QED
  BY <1>10, <1>11

LEMMA LoopEndsKeepsFiles == FilesInv /\ LoopEnds => FilesInv'
<1> SUFFICES ASSUME FilesInv, LoopEnds  PROVE FilesInv'
  OBVIOUS
<1> USE DEF FilesInv
<1>1. /\ Running /\ at' = at + 1 /\ nth' = 0
      /\ UNCHANGED <<run, status, input, failed, json, scenes, xt, db, tx>>
      /\ \/ Step \in SCENE_STEPS /\ nth = Total(input)
         \/ Step = "scenes_md" /\ nth = Len(MdSlugs)
         \/ Step = "xt_files"
  BY DEF LoopEnds, NextStep, Total, Tree, AllScenes
<1>2. /\ at \in {11, 13, 14, 18, 20} /\ nth \in Nat
      /\ at \in {11, 14, 18} => nth = Total(input)
      /\ at = 13 => nth = Len(AsSeq(JsonSlugs(scenes)))
  BY <1>1, StepAt DEF DatabaseInv, Position, MdSlugs
<1>3. DatabaseInv'
  BY <1>1, <1>2, JoinedStepKeeps
<1>4. Ends'
  BY <1>1, <1>2 DEF Ends, InRun, Running
<1>5. InRun /\ ~failed /\ input \in Inputs
  BY <1>1, <1>2 DEF InRun, Running, Ends
<1>6. Stage(scenes, json, run, input, at, nth)
  BY <1>5
<1>7. at = 13 => AllReadable(scenes, run, input, Total(input))
  <2>1. SUFFICES ASSUME at = 13  PROVE AllReadable(scenes, run, input, Total(input))
    OBVIOUS
  <2>2. /\ Written(scenes, run, input, "scenes_json", Total(input))
        /\ Readable(scenes, run, AsSeq(JsonSlugs(scenes)), Len(AsSeq(JsonSlugs(scenes))))
    BY <1>2, <1>6, <2>1 DEF Stage
  <2>3. Total(input) \in Nat
    BY <1>5, InputLists
  <2>4. IsFiniteSet(DOMAIN scenes) /\ \A p \in DOMAIN scenes : p = <<p[1], p[2]>>
    BY DEF FilesOk
  <2> QED
    BY <2>2, <2>3, <2>4, ReadableOnceAllRead
<1>8. Stage(scenes, json, run, input, at + 1, 0)
  BY <1>2, <1>6, <1>7, WrittenNone DEF Stage
<1> QED
  BY <1>1, <1>3, <1>4, <1>8

(* Steps that write neither a scene file nor a JSON file.                  *)
LEMMA OtherStepKeepsFiles ==
  ASSUME FilesInv, DatabaseInv', UNCHANGED <<run, input, failed, scenes, json>>,
         at >= 20, at' >= at, InRun, InRun', status' = "finished" => at' = 25
  PROVE  FilesInv'
<1> USE DEF FilesInv
<1>1. at \in 1 .. 25 /\ at' \in 1 .. 25
  BY DEF DatabaseInv, Position
<1>2. Ends'
  <2>1. Running' /\ failed' => at' >= 21
    <3>1. status = "finished" => at = 25
      BY DEF Ends
    <3>2. Running \/ status = "finished"
      BY DEF InRun, Running
    <3> QED
      BY <1>1, <3>1, <3>2 DEF Ends
  <2> QED
    BY <2>1 DEF Ends
<1>3. ~failed => Stage(scenes, json, run, input, at', nth')
  BY <1>1 DEF Stage
<1> QED
  BY <1>2, <1>3

LEMMA CatchKeepsFiles == FilesInv /\ CatchException => FilesInv'
<1> SUFFICES ASSUME FilesInv, CatchException  PROVE FilesInv'
  OBVIOUS
<1> USE DEF FilesInv
<1>1. /\ Running /\ at \in {7, 11, 17} /\ at' = 21 /\ nth' = 0 /\ failed' = TRUE
      /\ UNCHANGED <<run, status, input, json, scenes, db, tx>>
  BY StepAt, SummaryAt DEF CatchException, Raises, DatabaseInv, Position
<1>2. DatabaseInv'
  BY <1>1, JoinedStepKeeps
<1>3. Ends'
  BY <1>1 DEF Ends, InRun, Running
<1> QED
  BY <1>1, <1>2, <1>3

LEMMA CrashKeepsFiles == FilesInv /\ Crash => FilesInv'
<1> SUFFICES ASSUME FilesInv, Crash  PROVE FilesInv'
  OBVIOUS
<1> USE DEF FilesInv
<1>1. /\ Running /\ status' = "crashed" /\ UNCHANGED <<run, input, at, nth, failed, db>>
      /\ \/ UNCHANGED <<json, scenes>>
         \/ json' = Put(json, Step, CutEntry) /\ UNCHANGED scenes
         \/ /\ UNCHANGED json
            /\ \E slug, kind : scenes' = Put(scenes, <<slug, kind>>, CutEntry)
  <2>1. PathOf(MdSlugs[nth + 1], "md") = <<MdSlugs[nth + 1], "md">>
    BY PathIs
  <2>2. ScenePath = <<ScenePath[1], Ending(KindOf[Step])>>
    BY PathIs DEF ScenePath
  <2> QED
    BY <2>1, <2>2 DEF Crash
<1>2. CutEntry.run = run /\ ~CutEntry.whole
  BY DEF CutEntry
<1>3. DatabaseInv'
  BY CrashKeepsDatabase
<1>4. ~InRun' /\ Ends'
  BY <1>1 DEF InRun, Ends, Running
<1>5. CASE UNCHANGED <<json, scenes>>
  BY <1>1, <1>3, <1>4, <1>5
<1>6. CASE json' = Put(json, Step, CutEntry) /\ UNCHANGED scenes
  <2>1. Behind(json', scenes)
    BY <1>2, <1>6, OtherNameBehind
  <2> QED
    BY <1>1, <1>3, <1>4, <1>6, <2>1
<1>7. CASE UNCHANGED json /\ \E slug, kind : scenes' = Put(scenes, <<slug, kind>>, CutEntry)
  <2>1. FilesOk(scenes', run) /\ Behind(json, scenes')
    BY <1>2, <1>7, IndexOfThisRun, ScenePutOk
  <2> QED
    BY <1>1, <1>3, <1>4, <1>7, <2>1
<1> QED
  BY <1>1, <1>5, <1>6, <1>7

LEMMA StartKeepsFiles ==
  ASSUME FilesInv, NEW found \in Inputs, Start(found)
  PROVE  FilesInv'
<1> USE DEF FilesInv
<1>1. /\ run' = run + 1 /\ status' = "running" /\ at' = 1 /\ input' = found /\ failed' = FALSE
      /\ UNCHANGED <<json, scenes>> /\ run \in Nat
  BY DEF Start, DatabaseInv, Position
<1>2. DatabaseInv'
  BY StartKeepsDatabase
<1>3. Ends'
  BY <1>1 DEF Ends, InRun, Running
<1>4. FilesOk(scenes, run + 1)
  <2>1. \A n \in Nat : n <= run => n <= run + 1
    BY <1>1
  <2> QED
    BY <2>1 DEF FilesOk
<1>5. Stage(scenes', json', run', input', at', nth')
  BY <1>1 DEF Stage
<1> QED
  BY <1>1, <1>2, <1>3, <1>4, <1>5

LEMMA FilesInvInit == Init => FilesInv
<1> SUFFICES ASSUME Init  PROVE FilesInv
  OBVIOUS
<1>1. DatabaseInv
  BY DatabaseInvInit
<1>2. status = "idle" /\ json = <<>> /\ scenes = <<>>
  BY DEF Init
<1>3. DOMAIN scenes = {} /\ IsFiniteSet({}) /\ DOMAIN json = {}
  BY <1>2, FS_EmptySet
<1> QED
  BY <1>1, <1>2, <1>3 DEF FilesInv, Ends, InRun, Running, FilesOk, Behind, Sound

LEMMA FilesInvStep == FilesInv /\ [Next]_vars => FilesInv'
<1> SUFFICES ASSUME FilesInv, [Next]_vars  PROVE FilesInv'
  OBVIOUS
<1>0. DatabaseInv /\ DatabaseInv' /\ at \in 1 .. 25
  BY DatabaseInvStep DEF FilesInv, DatabaseInv, Position
<1>1. CASE \E found \in Inputs : Start(found)
  BY <1>1, StartKeepsFiles
<1>2. CASE WriteJson
  BY <1>2, WriteJsonKeepsFiles
<1>3. CASE WriteScene
  BY <1>3, WriteSceneKeepsFiles
<1>4. CASE WriteMd
  BY <1>4, WriteMdKeepsFiles
<1>5. CASE LoopEnds
  BY <1>5, LoopEndsKeepsFiles
<1>6. CASE CatchException
  BY <1>6, CatchKeepsFiles
<1>7. CASE CopyScript
  <2>1. /\ Running /\ at = 20 /\ at' = at
        /\ UNCHANGED <<run, status, input, failed, json, scenes>>
    BY <1>0, <1>7, StepAt DEF CopyScript, NextTurn
  <2> QED
    BY <1>0, <2>1, OtherStepKeepsFiles DEF InRun, Running
<1>8. CASE DbUnlink \/ DbCreate \/ DbInsert
  <2>1. /\ Running /\ at \in {22, 23, 24} /\ at' \in {at, at + 1}
        /\ UNCHANGED <<run, status, input, failed, json, scenes>>
    BY <1>0, <1>8, StepAt DEF DbUnlink, DbCreate, DbInsert, NextStep, NextTurn
  <2> QED
    BY <1>0, <2>1, OtherStepKeepsFiles DEF InRun, Running
<1>9. CASE DbCommit
  <2>1. /\ Running /\ at = 25 /\ at' = at /\ status' = "finished"
        /\ UNCHANGED <<run, input, failed, json, scenes>>
    BY <1>0, <1>9, StepAt DEF DbCommit
  <2> QED
    BY <1>0, <2>1, OtherStepKeepsFiles DEF InRun, Running
<1>10. CASE Crash
  BY <1>10, CrashKeepsFiles
<1>11. CASE UNCHANGED vars
  BY <1>0, <1>11 DEF vars, progress, FilesInv, Ends, InRun, Running
<1> QED
  BY <1>1, <1>2, <1>3, <1>4, <1>5, <1>6, <1>7, <1>8, <1>9, <1>10, <1>11 DEF Next

(* At any moment, through kills and failed runs, the summary is behind the *)
(* listings it counts, the database behind the summary and the index behind*)
(* the scene files it names (cli.py:171-229, 382-421).                     *)
THEOREM NothingNamesWhatIsNotThere == Spec => []WrittenBehindWhatItNames
<1>1. FilesInv => WrittenBehindWhatItNames
  <2> SUFFICES ASSUME FilesInv  PROVE WrittenBehindWhatItNames
    OBVIOUS
  <2>1. SummaryBehind /\ Behind(json, scenes)
    BY DEF FilesInv, DatabaseInv
  <2> QED
    BY <2>1 DEF WrittenBehindWhatItNames, SummaryBehind, Behind, Index
<1> QED
  BY <1>1, FilesInvInit, FilesInvStep, PTL DEF Spec

-----------------------------------------------------------------------------
(* What the four files of one scene tell.                                  *)
FullOfId(full, id) == full[Max({i \in DOMAIN full : full[i].trigger_id = id})]

LEMMA FullHasId ==
  ASSUME NEW full, IsList(full), NEW k \in DOMAIN full
  PROVE  FullOfId(full, full[k].trigger_id).trigger_id = full[k].trigger_id
<1> DEFINE S == {i \in DOMAIN full : full[i].trigger_id = full[k].trigger_id}
<1>1. Len(full) \in Int /\ S \in SUBSET Int /\ S # {} /\ \A i \in S : i <= Len(full)
  BY DEF IsList
<1>2. Max(S) \in S
  <2> HIDE DEF S
  <2> QED
    BY <1>1, MaxExists
<1> QED
  BY <1>2 DEF FullOfId

LEMMA JsonTold ==
  ASSUME NEW scene, NEW of, NEW var_sem, NEW full, IsList(full)
  PROVE  LET told == SceneJson(scene, of, var_sem, full) IN
         /\ told.name = scene.scene_path
         /\ told.checkpoints = Checkpoints(scene, var_sem)
         /\ told.summary.n_triggers = Len(scene.triggers)
         /\ DOMAIN told.triggers = DOMAIN scene.triggers
         /\ \A i \in DOMAIN scene.triggers :
              told.triggers[i].trigger_id = scene.triggers[i].trigger_id
<1> DEFINE told == SceneJson(scene, of, var_sem, full)
           last == [id \in {full[i].trigger_id : i \in DOMAIN full} |-> FullOfId(full, id)]
           own(t) == IF t.trigger_id \in DOMAIN last THEN last[t.trigger_id]
                ELSE [trigger_id |-> t.trigger_id, effect |-> t.effect,
                      fires_when |-> <<t.action_label, t.scene_scope, t.condition_hint>>]
<1>1. told.triggers = [i \in DOMAIN scene.triggers |-> own(scene.triggers[i])]
  BY DEF SceneJson, LastByKey, FullOfId
<1>2. /\ told.name = scene.scene_path
      /\ told.checkpoints = Checkpoints(scene, var_sem)
      /\ told.summary.n_triggers = Len(scene.triggers)
  BY DEF SceneJson
<1>3. \A t : own(t).trigger_id = t.trigger_id
  BY FullHasId
<1> HIDE DEF told, own
<1>4. DOMAIN told.triggers = DOMAIN scene.triggers
  BY <1>1
<1>5. \A i \in DOMAIN scene.triggers : told.triggers[i].trigger_id = scene.triggers[i].trigger_id
  BY <1>1, <1>3
<1> QED
  BY <1>2, <1>4, <1>5 DEF told

LEMMA NlTold ==
  ASSUME NEW scene, NEW of, NEW var_sem, NEW decoded
  PROVE  LET told == SceneNl(scene, of, var_sem, decoded)
             cps == Checkpoints(scene, var_sem)
         IN
         /\ told.name = scene.scene_path
         /\ told.checkpoints =
              [i \in DOMAIN cps |-> [cps[i] EXCEPT !.scope = Default(@, "Title")]]
         /\ told.triggers = [i \in DOMAIN scene.triggers |->
              <<scene.triggers[i].trigger_id, scene.triggers[i].action_label,
                scene.triggers[i].scene_scope, scene.triggers[i].effect>>]
BY DEF SceneNl

LEMMA StoryboardTold ==
  ASSUME NEW scene, NEW var_sem, NEW of, NEW conversations
  PROVE  LET told == Storyboard(scene, var_sem, of, conversations) IN
         /\ told.name = scene.scene_path
         /\ DOMAIN told.actions = DOMAIN scene.triggers
         /\ \A i \in DOMAIN scene.triggers :
              told.actions[i].trigger = scene.triggers[i].trigger_id
BY DEF Storyboard

LEMMA MdTold ==
  ASSUME NEW json_told
  PROVE  LET told == SceneMd(json_told) IN
         /\ told.name = json_told.name /\ told.flow = json_told.flow
         /\ told.checkpoints =
              [i \in DOMAIN json_told.checkpoints |-> Scoped(json_told.checkpoints[i])]
         /\ DOMAIN told.triggers = DOMAIN json_told.triggers
         /\ \A i \in DOMAIN json_told.triggers :
              told.triggers[i][1] = json_told.triggers[i].trigger_id
BY DEF SceneMd

LEMMA MappedIsList ==
  ASSUME NEW n \in Nat, NEW f, f = [i \in 1 .. n |-> f[i]]
  PROVE  IsList(f) /\ Len(f) = n
<1>1. f \in Seq({f[i] : i \in 1 .. n})
  OBVIOUS
<1> QED
  BY <1>1, LenProperties DEF IsList

LEMMA FullTriggersAreList ==
  ASSUME NEW found \in Inputs
  PROVE  IsList(FullTriggers(found.base).triggers)
<1> DEFINE rows == RowsOf(found.base.triggers)
           full == FullTriggers(found.base).triggers
           one(i) == rows[i] @@ [vars_written |-> <<rows[i].trigger_id>>]
<1>1. PICK R : rows \in Seq(R)
  BY InputsAssumption DEF IsListed
<1>2. DOMAIN rows = 1 .. Len(rows) /\ Len(rows) \in Nat
  BY <1>1, LenProperties
<1>3. full = [i \in DOMAIN rows |-> one(i)]
  BY DEF FullTriggers, TriggersFull, BuildDecisionTree
<1> HIDE DEF rows, full, one
<1>4. full = [i \in 1 .. Len(rows) |-> full[i]]
  BY <1>2, <1>3
<1> QED
  BY <1>2, <1>4, MappedIsList DEF full

FilesAgree(found, scene) ==
  LET told_json == SceneData(found, "scenes_json", scene)
      told_md == SceneMd(told_json)
      told_board == SceneData(found, "storyboards", scene)
      told_nl == SceneData(found, "scenes_nl", scene)
      ids == [i \in DOMAIN scene.triggers |-> scene.triggers[i].trigger_id]
  IN  /\ told_json.name = scene.scene_path /\ told_md.name = scene.scene_path
      /\ told_board.name = scene.scene_path /\ told_nl.name = scene.scene_path
      /\ TriggerIds([kind |-> "json", of |-> told_json]) = ids
      /\ TriggerIds([kind |-> "md", of |-> told_md]) = ids
      /\ TriggerIds([kind |-> "storyboard", of |-> told_board]) = ids
      /\ TriggerIds([kind |-> "nl", of |-> told_nl]) = ids
      /\ told_md.flow = told_json.flow
      /\ told_md.checkpoints = [c \in DOMAIN told_nl.checkpoints |->
                                  Scoped(told_nl.checkpoints[c])]
      /\ told_json.summary.n_triggers = Len(told_nl.triggers)

LEMMA FourTellOneScene ==
  ASSUME NEW found \in Inputs, NEW k \in 1 .. Total(found),
         NEW scene, scene = AllScenes(found)[k]
  PROVE  FilesAgree(found, scene)
<1> DEFINE base == found.base
           of == Productions(base, scene)
           full == FullTriggers(base).triggers
           told_json == SceneData(found, "scenes_json", scene)
           told_md == SceneMd(told_json)
           told_board == SceneData(found, "storyboards", scene)
           told_nl == SceneData(found, "scenes_nl", scene)
           cps == Checkpoints(scene, VarSem(base))
           ids == [i \in DOMAIN scene.triggers |-> scene.triggers[i].trigger_id]
<1>1. told_json = SceneJson(scene, of, VarSem(base), full)
  BY Zenon DEF SceneData
<1>2. told_board = Storyboard(scene, VarSem(base), of, BuildDecisionTree(base).conversations)
  BY Zenon DEF SceneData
<1>3. told_nl = SceneNl(scene, of, VarSem(base), found.hdb.decoded)
  BY Zenon DEF SceneData
<1>4. IsList(full) /\ IsList(scene.triggers)
  BY FullTriggersAreList, InputLists
<1> HIDE DEF told_json, told_board, told_nl, full, of
<1>5. /\ told_json.name = scene.scene_path /\ told_json.checkpoints = cps
      /\ told_json.summary.n_triggers = Len(scene.triggers)
      /\ DOMAIN told_json.triggers = DOMAIN scene.triggers
      /\ \A i \in DOMAIN scene.triggers :
           told_json.triggers[i].trigger_id = scene.triggers[i].trigger_id
  BY <1>1, <1>4, JsonTold
<1>6. /\ told_board.name = scene.scene_path
      /\ DOMAIN told_board.actions = DOMAIN scene.triggers
      /\ \A i \in DOMAIN scene.triggers :
              told_board.actions[i].trigger = scene.triggers[i].trigger_id
  BY <1>2, StoryboardTold
<1>7. /\ told_nl.name = scene.scene_path
      /\ told_nl.checkpoints = [i \in DOMAIN cps |-> [cps[i] EXCEPT !.scope = Default(@, "Title")]]
      /\ told_nl.triggers = [i \in DOMAIN scene.triggers |->
              <<scene.triggers[i].trigger_id, scene.triggers[i].action_label,
                scene.triggers[i].scene_scope, scene.triggers[i].effect>>]
  BY <1>3, NlTold
<1>8. /\ told_md.name = told_json.name /\ told_md.flow = told_json.flow
      /\ told_md.checkpoints =
           [i \in DOMAIN told_json.checkpoints |-> Scoped(told_json.checkpoints[i])]
      /\ DOMAIN told_md.triggers = DOMAIN told_json.triggers
      /\ \A i \in DOMAIN told_json.triggers :
           told_md.triggers[i][1] = told_json.triggers[i].trigger_id
  BY MdTold
<1>9. told_md.checkpoints = [c \in DOMAIN told_nl.checkpoints |-> Scoped(told_nl.checkpoints[c])]
  <2> DEFINE nl(c) == [cps[c] EXCEPT !.scope = Default(@, "Title")]
  <2>1. ASSUME NEW c \in DOMAIN cps  PROVE Scoped(nl(c)) = Scoped(cps[c])
    <3> DEFINE cp == cps[c]
    <3>1. "scope" \in DOMAIN cp
      BY DEF Checkpoints
    <3> HIDE DEF cp
    <3>2. [cp EXCEPT !.scope = Default(@, "Title")].variable = cp.variable
      OBVIOUS
    <3>3. [cp EXCEPT !.scope = Default(@, "Title")].scope = Default(cp.scope, "Title")
      BY <3>1
    <3>4. Default(Default(cp.scope, "Title"), "Title") = Default(cp.scope, "Title")
      BY DEF Default
    <3> QED
      BY <3>2, <3>3, <3>4 DEF Scoped, cp
  <2> HIDE DEF told_md, cps
  <2>2. DOMAIN told_nl.checkpoints = DOMAIN cps
        /\ \A c \in DOMAIN cps : told_nl.checkpoints[c] = nl(c)
    BY <1>7
  <2> HIDE DEF nl
  <2>3. told_md.checkpoints = [c \in DOMAIN cps |-> Scoped(cps[c])]
    BY <1>5, <1>8
  <2> QED
    BY <2>1, <2>2, <2>3
<1> HIDE DEF told_md, cps
<1>10. Len(told_nl.triggers) = Len(scene.triggers)
  <2> DEFINE ts == told_nl.triggers
             n == Len(scene.triggers)
  <2>1. n \in Nat /\ DOMAIN ts = 1 .. n /\ ts = [i \in 1 .. n |-> ts[i]]
    BY <1>4, <1>7 DEF IsList
  <2> HIDE DEF ts, n
  <2>2. Len(ts) = n
    BY <2>1, MappedIsList
  <2> QED
    BY <2>2 DEF ts, n
<1>11. TriggerIds([kind |-> "json", of |-> told_json]) = ids
  <2>1. TriggerIds([kind |-> "json", of |-> told_json])
          = [i \in DOMAIN told_json.triggers |-> told_json.triggers[i].trigger_id]
    BY DEF TriggerIds
  <2> QED
    BY <1>5, <2>1
<1>12. TriggerIds([kind |-> "md", of |-> told_md]) = ids
  <2>1. TriggerIds([kind |-> "md", of |-> told_md])
          = [i \in DOMAIN told_md.triggers |-> told_md.triggers[i][1]]
    BY DEF TriggerIds
  <2> QED
    BY <1>5, <1>8, <2>1
<1>13. TriggerIds([kind |-> "storyboard", of |-> told_board]) = ids
  <2>1. TriggerIds([kind |-> "storyboard", of |-> told_board])
          = [i \in DOMAIN told_board.actions |-> told_board.actions[i].trigger]
    BY DEF TriggerIds
  <2> QED
    BY <1>6, <2>1
<1>14. TriggerIds([kind |-> "nl", of |-> told_nl]) = ids
  <2>1. TriggerIds([kind |-> "nl", of |-> told_nl])
          = [i \in DOMAIN told_nl.triggers |-> told_nl.triggers[i][1]]
    BY DEF TriggerIds
  <2>2. /\ DOMAIN told_nl.triggers = DOMAIN scene.triggers
        /\ \A i \in DOMAIN scene.triggers : told_nl.triggers[i][1] = scene.triggers[i].trigger_id
    BY <1>7
  <2> QED
    BY <2>1, <2>2
<1> QED
  BY <1>5, <1>6, <1>7, <1>8, <1>9, <1>10, <1>11, <1>12, <1>13, <1>14
     DEF told_json, told_board, told_nl, told_md, FilesAgree

LEMMA FilesTogether == FilesInv /\ Done => SceneFilesTogether
<1> SUFFICES ASSUME FilesInv, Done, NEW i \in DOMAIN Index.data
             PROVE  LET entry == Index.data[i]
                        told(kind) == Told(entry.file, kind)
                        own == IF Retold(entry) THEN KINDS \ {"md"} ELSE KINDS
                        alone == \A k \in DOMAIN Index.data : Index.data[k].file = entry.file => k = i
                    IN  /\ \A kind \in KINDS : /\ Sound(scenes, PathOf(entry.file, kind))
                                               /\ scenes[PathOf(entry.file, kind)].run = run
                        /\ Slug(told("json").name) = entry.file
                        /\ \A kind \in own :
                             /\ told(kind).name = told("json").name
                             /\ TriggerIds([kind |-> kind, of |-> told(kind)])
                                  = TriggerIds([kind |-> "json", of |-> told("json")])
                        /\ IF Retold(entry) THEN Slug(told("md").name) \o BOARD = entry.file
                           ELSE /\ told("md").flow = told("json").flow
                                /\ told("md").checkpoints = [c \in DOMAIN told("nl").checkpoints |->
                                                               Scoped(told("nl").checkpoints[c])]
                        /\ alone => /\ entry.scene = told("json").name
                                    /\ entry.n_flow_steps = Len(told("json").flow)
                                    /\ entry.n_triggers = Len(told("nl").triggers)
  BY Zenon DEF SceneFilesTogether
<1> DEFINE n == Total(input)
           slug == SlugOf(input, i)
           last == LastOf(input, slug, n)
           scene == AllScenes(input)[last]
           data(step) == SceneData(input, step, scene)
<1>1. InRun /\ ~failed /\ at = 25 /\ input \in Inputs
  BY DEF Done, FilesInv, Ends, InRun
<1>2. Stage(scenes, json, run, input, 25, nth)
  BY <1>1 DEF FilesInv
<1>3. /\ Written(scenes, run, input, "scenes_json", n)
      /\ Written(scenes, run, input, "storyboards", n)
      /\ Written(scenes, run, input, "scenes_nl", n)
      /\ AllReadable(scenes, run, input, n)
      /\ json["00_index"] = Of(run, SceneIndex(input))
  BY <1>2 DEF Stage, Holds
<1>4. Index.data = SceneIndex(input)
  BY <1>3, OfIs DEF Index
<1>5. n \in Nat /\ DOMAIN AllScenes(input) = 1 .. n
  BY <1>1, InputLists
<1>6. DOMAIN Index.data = 1 .. n
  BY <1>4, <1>5 DEF SceneIndex, AllScenes
<1>7. /\ \A k \in 1 .. n : Index.data[k] = IndexEntry(input, AllScenes(input)[k])
      /\ \A k \in 1 .. n : Index.data[k].file = SlugOf(input, k)
  BY <1>4, <1>5 DEF SceneIndex, AllScenes, IndexEntry, SlugOf
<1>8. i \in 1 .. n /\ Index.data[i].file = slug
  BY <1>6, <1>7
<1>9. last \in 1 .. n /\ SlugOf(input, last) = slug /\ Slug(scene.scene_path) = slug
  BY <1>5, <1>8, LastIs DEF SlugOf
<1>10. /\ KindOf["scenes_json"] = "json" /\ KindOf["storyboards"] = "storyboard"
       /\ KindOf["scenes_nl"] = "nl"
  BY DEF KindOf
<1>11. /\ Holds(scenes, PathOf(slug, "json"), Of(run, data("scenes_json")))
       /\ Holds(scenes, PathOf(slug, "storyboard"), Of(run, data("storyboards")))
       /\ Holds(scenes, PathOf(slug, "nl"), Of(run, data("scenes_nl")))
  BY <1>3, <1>8, <1>10 DEF Written, LastScene
<1>12. Retold(Index.data[i]) <=> RetoldBy(input, i, n)
  BY <1>6, <1>7, <1>8 DEF Retold, RetoldBy
<1>13. ~Retold(Index.data[i]) =>
         Holds(scenes, PathOf(slug, "md"), Of(run, SceneMd(data("scenes_json"))))
  <2>1. PathOf(slug, "md") = <<slug, "md">>
    BY PathIs
  <2> QED
    BY <1>3, <1>8, <1>12, <2>1 DEF AllReadable, LastScene
<1>14. /\ Told(slug, "json") = data("scenes_json")
       /\ Told(slug, "storyboard") = data("storyboards")
       /\ Told(slug, "nl") = data("scenes_nl")
       /\ ~Retold(Index.data[i]) => Told(slug, "md") = SceneMd(data("scenes_json"))
  BY <1>11, <1>13, OfIs DEF Told, Holds
<1> HIDE DEF data, n, slug, last, scene
<1>15. ASSUME Retold(Index.data[i])
       PROVE  /\ Sound(scenes, PathOf(slug, "md")) /\ scenes[PathOf(slug, "md")].run = run
              /\ Slug(Told(slug, "md").name) \o BOARD = slug
  <2>1. PICK k \in 1 .. n : SlugOf(input, k) \o BOARD = slug
    BY <1>12, <1>15 DEF RetoldBy, slug
  <2> DEFINE other == LastOf(input, SlugOf(input, k), n)
             board == SceneData(input, "storyboards", AllScenes(input)[other])
  <2>2. other \in 1 .. n /\ SlugOf(input, other) = SlugOf(input, k)
    BY <1>5, LastIs
  <2>3. Holds(scenes, PathOf(SlugOf(input, k), "storyboard"), Of(run, board))
    BY <1>3, <1>10 DEF Written, LastScene
  <2>4. PathOf(SlugOf(input, k), "storyboard") = PathOf(slug, "md")
    BY <2>1, PathIs
  <2>5. board.name = AllScenes(input)[other].scene_path
    <3> DEFINE its == AllScenes(input)[other]
    <3>1. SceneData(input, "storyboards", its).name = its.scene_path
      <4> HIDE DEF its
      <4>1. SceneData(input, "storyboards", its)
              = Storyboard(its, VarSem(input.base), Productions(input.base, its),
                           BuildDecisionTree(input.base).conversations)
        BY Zenon DEF SceneData
      <4> QED
        BY <4>1, StoryboardTold
    <3> QED
      BY <3>1
  <2> HIDE DEF other, board
  <2>6. Holds(scenes, PathOf(slug, "md"), Of(run, board))
    BY <2>3, <2>4
  <2>7. Told(slug, "md") = board
    BY <2>6, OfIs DEF Told, Holds
  <2>8. Slug(board.name) = SlugOf(input, k)
    BY <2>2, <2>5 DEF SlugOf
  <2>9. Sound(scenes, PathOf(slug, "md")) /\ scenes[PathOf(slug, "md")].run = run
    BY <2>6, OfIs DEF Holds, Sound
  <2>10. Slug(Told(slug, "md").name) \o BOARD = slug
    BY <2>1, <2>7, <2>8
  <2> QED
    BY <2>9, <2>10
<1>16. \A kind \in KINDS :
         Sound(scenes, PathOf(slug, kind)) /\ scenes[PathOf(slug, kind)].run = run
  BY <1>11, <1>13, <1>15, OfIs DEF KINDS, Holds, Sound
<1>17. LET ids == [k \in DOMAIN scene.triggers |-> scene.triggers[k].trigger_id]
       IN  /\ Told(slug, "json").name = scene.scene_path
           /\ Told(slug, "storyboard").name = scene.scene_path
           /\ Told(slug, "nl").name = scene.scene_path
           /\ TriggerIds([kind |-> "json", of |-> Told(slug, "json")]) = ids
           /\ TriggerIds([kind |-> "storyboard", of |-> Told(slug, "storyboard")]) = ids
           /\ TriggerIds([kind |-> "nl", of |-> Told(slug, "nl")]) = ids
           /\ Told(slug, "json").summary.n_triggers = Len(Told(slug, "nl").triggers)
           /\ ~Retold(Index.data[i]) =>
                /\ Told(slug, "md").name = scene.scene_path
                /\ TriggerIds([kind |-> "md", of |-> Told(slug, "md")]) = ids
                /\ Told(slug, "md").flow = Told(slug, "json").flow
                /\ Told(slug, "md").checkpoints = [c \in DOMAIN Told(slug, "nl").checkpoints |->
                                                     Scoped(Told(slug, "nl").checkpoints[c])]
  <2> DEFINE md == SceneMd(data("scenes_json"))
             nl == data("scenes_nl")
             ids == [k \in DOMAIN scene.triggers |-> scene.triggers[k].trigger_id]
  <2>1. /\ data("scenes_json").name = scene.scene_path /\ md.name = scene.scene_path
        /\ data("storyboards").name = scene.scene_path /\ nl.name = scene.scene_path
        /\ TriggerIds([kind |-> "json", of |-> data("scenes_json")]) = ids
        /\ TriggerIds([kind |-> "md", of |-> md]) = ids
        /\ TriggerIds([kind |-> "storyboard", of |-> data("storyboards")]) = ids
        /\ TriggerIds([kind |-> "nl", of |-> nl]) = ids
        /\ md.flow = data("scenes_json").flow
        /\ md.checkpoints = [c \in DOMAIN nl.checkpoints |-> Scoped(nl.checkpoints[c])]
        /\ data("scenes_json").summary.n_triggers = Len(nl.triggers)
    <3>1. last \in 1 .. Total(input) /\ scene = AllScenes(input)[last]
      BY <1>9 DEF n, scene
    <3>2. FilesAgree(input, scene)
      BY <1>1, <3>1, FourTellOneScene
    <3> QED
      BY <3>2 DEF data, FilesAgree
  <2> HIDE DEF md, nl, ids
  <2>2. ~Retold(Index.data[i]) => Told(slug, "md") = md
    BY <1>14 DEF md
  <2>3. Told(slug, "nl") = nl
    BY <1>14 DEF nl
  <2> QED
    BY <1>14, <2>1, <2>2, <2>3 DEF ids
<1>18. ASSUME \A k \in DOMAIN Index.data : Index.data[k].file = Index.data[i].file => k = i
       PROVE  /\ Index.data[i].scene = Told(slug, "json").name
              /\ Index.data[i].n_flow_steps = Len(Told(slug, "json").flow)
              /\ Index.data[i].n_triggers = Len(Told(slug, "nl").triggers)
  <2>1. last = i
    BY <1>6, <1>7, <1>8, <1>9, <1>18
  <2>2. Index.data[i] = IndexEntry(input, scene)
    BY <1>7, <1>8, <2>1 DEF scene
  <2>3. /\ Index.data[i].scene = scene.scene_path
        /\ Index.data[i].n_triggers = data("scenes_json").summary.n_triggers
        /\ Index.data[i].n_flow_steps = Len(data("scenes_json").flow)
    BY <2>2 DEF IndexEntry, data
  <2> QED
    BY <1>14, <1>17, <2>3
<1> DEFINE own == IF Retold(Index.data[i]) THEN KINDS \ {"md"} ELSE KINDS
<1>19. \A kind \in own : /\ Told(slug, kind).name = Told(slug, "json").name
                         /\ TriggerIds([kind |-> kind, of |-> Told(slug, kind)])
                              = TriggerIds([kind |-> "json", of |-> Told(slug, "json")])
  BY <1>17 DEF KINDS
<1>20. Slug(Told(slug, "json").name) = slug
  BY <1>9, <1>17
<1> QED
  BY <1>8, <1>15, <1>16, <1>17, <1>18, <1>19, <1>20

(* When a run has gone through, the four files of every scene the index    *)
(* names are whole, of this run, and tell one scene with one list of       *)
(* triggers: the one the entry is about unless a later scene has the same  *)
(* file name; but the Markdown of a scene is another one's storyboard when *)
(* that has its name (scene_json.py:268-308, scene_readable.py:175,        *)
(* scene_storyboard.py:341).                                               *)
THEOREM FourFilesOfEachScene == Spec => []SceneFilesTogether
<1>1. FilesInv => SceneFilesTogether
  BY FilesTogether DEF SceneFilesTogether
<1> QED
  BY <1>1, FilesInvInit, FilesInvStep, PTL DEF Spec
=============================================================================
