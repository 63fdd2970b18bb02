----------------------------- MODULE ExtractRun ------------------------------
(***************************************************************************)
(* `hdb-extract extract' (python/.../cli.py extract,                       *)
(* output/sqlite_writer.py, extractors/xt_dump.py): the run that writes    *)
(* every JSON file, the files of every scene, the sorted scripts and the   *)
(* database, one file after the other over those of earlier runs. The      *)
(* joined part is inside one try: what it raises skips the rest of it and  *)
(* the run goes on. A run can be killed between and in the middle of any   *)
(* two writes; the next one finds its files.                               *)
(***************************************************************************)
EXTENDS SceneFiles

CONSTANTS
  Inputs,     \* what a run may find: the file, the tables, the scripts
  CLASS_IDS,  \* the ids of the registry's classes
  MaxRuns

(* A table is the list of its rows, the name of a scene of its words.      *)
IsListed(x) == x \in Seq({x[i] : i \in DOMAIN x})
HasName(row) == "scene_path" \in DOMAIN row /\ IsListed(row.scene_path)
ASSUME InputsAssumption ==
  \A found \in Inputs :
    /\ \A table \in {"scenes", "triggers"} : IsListed(RowsOf(found.base[table]))
    /\ \A i \in DOMAIN RowsOf(found.base.scenes) : HasName(RowsOf(found.base.scenes)[i])

VARIABLES
  run,        \* the number of the run
  status,     \* "idle", "running", "finished" or "crashed"
  input,
  at, nth,    \* the step of PROGRAM and the turn of its loop
  failed,     \* the joined part has raised
  json,       \* name -> entry, the files of out/json and the index
  scenes,     \* <<name, ending>> -> entry, the files scene_<name>.<ending>
  xt,         \* <<category, id>> -> entry
  db, tx      \* the database as committed, and the open transaction

progress == <<run, status, input, at, nth, failed>>
vars == <<progress, json, scenes, xt, db, tx>>

-----------------------------------------------------------------------------
(* Mutated form: the index is written before the files it names. *)
MutPROGRAM ==
  <<"records", "classes", "neoidlist", "production_paths", "strings", "page_index",
    "decision_tree", "trigger_system", "variables_full", "triggers_full", "00_index",
    "scenes_json", "scenes_md", "storyboards", "decoded_records", "typed_records",
    "leaf_resolved", "scenes_nl", "xt_scripts", "xt_files", "summary",
    "db_unlink", "db_create", "db_insert", "db_commit">>

(* Every write of a run, in order: the listings of the file, what is joined*)
(* from the tables, the summary, the database.                             *)
PROGRAM ==
  <<"records", "classes", "neoidlist", "production_paths", "strings", "page_index",
    "decision_tree", "trigger_system", "variables_full", "triggers_full", "scenes_json",
    "00_index", "scenes_md", "storyboards", "decoded_records", "typed_records",
    "leaf_resolved", "scenes_nl", "xt_scripts", "xt_files", "summary",
    "db_unlink", "db_create", "db_insert", "db_commit">>
SUMMARY == CHOOSE i \in DOMAIN PROGRAM : PROGRAM[i] = "summary"
CORE == {PROGRAM[i] : i \in 1 .. 6}
TABLES == <<"summary", "classes", "neoidlist", "records", "production_paths">>

SCENE_STEPS == {"scenes_json", "storyboards", "scenes_nl"}
JSON_STEPS == {PROGRAM[i] : i \in 1 .. SUMMARY} \ (SCENE_STEPS \cup {"scenes_md", "xt_files"})
Step == PROGRAM[at]
Running == status = "running"

-----------------------------------------------------------------------------
(* What the run holds in memory, from the tables and the file it found.    *)
Tree == BuildDecisionTree(input.base)
VarSem(base) == LastByKey(VariablesFull(base), LAMBDA v : v.name)
Productions(base, scene) == ProductionsOf(SceneAssetMap(base), scene.scene_path)
FullTriggers(base) == TriggersFull(BuildDecisionTree(base).triggers)

(* dump_classes: the registry, with the records seen of each class.        *)
Seen(hdb, class_id) == Len(SelectSeq(hdb.records, LAMBDA c : c = class_id))
DumpClasses(hdb) == [c \in CLASS_IDS |-> Seen(hdb, c)]

(* _classify_content: by the range of the id, else by the text; the first  *)
(* range that holds the id decides.                                        *)
XT_RANGES ==
  <<<<49526, 50368, "journal">>, <<51070, 51088, "help">>, <<55583, 55615, "media">>,
    <<61137, 64560, "email">>, <<63271, 63385, "other">>, <<80887, 80912, "other">>,
    <<81279, 81321, "other">>, <<86072, 86112, "other">>, <<91101, 91111, "other">>>>
BY_TEXT == [diary |-> "journal", news |-> "media", mail |-> "email", other |-> "other"]
CategoryOf(script) ==
  LET hits == {i \in DOMAIN XT_RANGES :
                 script.file_id \in XT_RANGES[i][1] .. XT_RANGES[i][2]}
  IN  IF hits # {} THEN XT_RANGES[Min(hits)][3] ELSE BY_TEXT[script.text]

(* dump_xt_scripts: the files whose stem is a number.                      *)
XtScripts(xt_found) ==
  LET scripts == SelectSeq(RowsOf(xt_found), LAMBDA s : s.file_id # NotANumber)
  IN  [i \in DOMAIN scripts |-> scripts[i] @@ [category |-> CategoryOf(scripts[i])]]
Scripts == XtScripts(input.xt)

Summary(hdb) ==
  [records_surface |-> Len(hdb.records), neoidlist_records |-> hdb.neoidlist,
   production_paths |-> hdb.paths, classes_documented |-> Cardinality(CLASS_IDS)]

(* build_scene_json and its neighbours, each of one scene of the tree.     *)
KindOf == [scenes_json |-> "json", storyboards |-> "storyboard", scenes_nl |-> "nl"]

(* A storyboard is a Markdown file too, that of a scene with a longer name.*)
BOARD == <<"_", "storyboard">>
PathOf(slug, kind) ==
  IF kind = "storyboard" THEN <<slug \o BOARD, "md">> ELSE <<slug, kind>>

SceneData(found, step, scene) ==
  LET base == found.base
      of == Productions(base, scene)
  IN  CASE step = "scenes_json" -> SceneJson(scene, of, VarSem(base), FullTriggers(base).triggers)
        [] step = "storyboards" ->
             Storyboard(scene, VarSem(base), of, BuildDecisionTree(base).conversations)
        [] step = "scenes_nl" -> SceneNl(scene, of, VarSem(base), found.hdb.decoded)

(* write_scenes_json: an entry for every scene of the tree.                *)
IndexEntry(found, scene) ==
  LET told == SceneData(found, "scenes_json", scene)
  IN  [scene |-> scene.scene_path, file |-> Slug(scene.scene_path),
       n_videos |-> scene.n_xmv, n_productions |-> Len(Productions(found.base, scene)),
       n_triggers |-> told.summary.n_triggers, n_flow_steps |-> Len(told.flow)]
SceneIndex(found) ==
  LET all == BuildDecisionTree(found.base).scenes
  IN  [i \in DOMAIN all |-> IndexEntry(found, all[i])]

JsonData(found, name) ==
  CASE name = "records" -> found.hdb.records
    [] name = "classes" -> DumpClasses(found.hdb)
    [] name = "neoidlist" -> found.hdb.neoidlist
    [] name = "production_paths" -> found.hdb.paths
    [] name \in {"strings", "page_index", "decoded_records", "typed_records",
                 "leaf_resolved", "trigger_system"} -> None
    [] name = "decision_tree" -> BuildDecisionTree(found.base)
    [] name = "variables_full" -> VariablesFull(found.base)
    [] name = "triggers_full" -> FullTriggers(found.base)
    [] name = "00_index" -> SceneIndex(found)
    [] name = "xt_scripts" -> XtScripts(found.xt)
    [] name = "summary" -> Summary(found.hdb)

(* What raises: a field that is not a number, and a file whose last page   *)
(* is short but for 32 bytes, which leaf_resolver counts as a page.        *)
Raises(step) ==
  \/ step = "decision_tree" /\ ~Loads(input.base, TREE_TABLES)
  \/ step = "scenes_json" /\ ~Loads(input.base, {"assets"})
  \/ step = "leaf_resolved" /\ input.hdb.page_too_many

-----------------------------------------------------------------------------
(* A file of this run, and one whose writing was cut.                      *)
Entry(data) == [run |-> run, whole |-> TRUE, data |-> data]
CutEntry == [run |-> run, whole |-> FALSE, data |-> None]

(* Mutated form: a file that is there already is kept. *)
MutPut(files, path, entry) ==
  [p \in DOMAIN files \cup {path} |-> IF p \in DOMAIN files THEN files[p] ELSE entry]
Put(files, path, entry) ==
  [p \in DOMAIN files \cup {path} |-> IF p = path THEN entry ELSE files[p]]

NoDatabase == [there |-> FALSE, tables |-> <<>>]
Database(tables) == [there |-> TRUE, tables |-> tables]

Init ==
  /\ run = 0 /\ status = "idle" /\ input = None
  /\ at = 1 /\ nth = 0 /\ failed = FALSE
  /\ json = <<>> /\ scenes = <<>> /\ xt = <<>>
  /\ db = NoDatabase /\ tx = <<>>

Start(found) ==
  /\ ~Running /\ run < MaxRuns
  /\ run' = run + 1 /\ status' = "running" /\ input' = found
  /\ at' = 1 /\ nth' = 0 /\ failed' = FALSE
  /\ UNCHANGED <<json, scenes, xt, db, tx>>

NextStep == at' = at + 1 /\ nth' = 0 /\ UNCHANGED <<run, status, input, failed>>
NextTurn == nth' = nth + 1 /\ UNCHANGED <<run, status, input, at, failed>>

(* A file of out/json or the index; no scripts, no list of them.           *)
NothingToList == Step = "xt_scripts" /\ Scripts = <<>>
WriteJson ==
  /\ Running /\ Step \in JSON_STEPS /\ ~Raises(Step)
  /\ json' = IF NothingToList THEN json ELSE Put(json, Step, Entry(JsonData(input, Step)))
  /\ NextStep
  /\ UNCHANGED <<scenes, xt, db, tx>>

(* The next scene of the tree, in its three files. *)
SceneAt == Tree.scenes[nth + 1]
ScenePath == PathOf(Slug(SceneAt.scene_path), KindOf[Step])
WriteScene ==
  /\ Running /\ Step \in SCENE_STEPS /\ ~Raises(Step)
  /\ nth < Len(Tree.scenes)
  /\ scenes' = Put(scenes, ScenePath, Entry(SceneData(input, Step, SceneAt)))
  /\ NextTurn
  /\ UNCHANGED <<json, xt, db, tx>>

(* write_scenes_md: every scene file there is, of whatever run; one that   *)
(* cannot be parsed is passed over.                                        *)
JsonSlugs(files) == {path[1] : path \in {p \in DOMAIN files : p[2] = "json"}}
MdSlugs == AsSeq(JsonSlugs(scenes))
WriteMd ==
  /\ Running /\ Step = "scenes_md" /\ nth < Len(MdSlugs)
  /\ LET slug == MdSlugs[nth + 1]
         told == scenes[PathOf(slug, "json")]
     IN  scenes' = IF told.whole THEN Put(scenes, PathOf(slug, "md"), Entry(SceneMd(told.data)))
                   ELSE scenes
  /\ NextTurn
  /\ UNCHANGED <<json, xt, db, tx>>

(* organize_xt_by_category: copies are added, none is taken away.          *)
ScriptPath == <<Scripts[nth + 1].category, Scripts[nth + 1].file_id>>
CopyScript ==
  /\ Running /\ Step = "xt_files" /\ nth < Len(Scripts)
  /\ xt' = Put(xt, ScriptPath, Entry(Scripts[nth + 1].text))
  /\ NextTurn
  /\ UNCHANGED <<json, scenes, db, tx>>

LoopEnds ==
  /\ Running
  /\ \/ Step \in SCENE_STEPS /\ ~Raises(Step) /\ nth = Len(Tree.scenes)
     \/ Step = "scenes_md" /\ nth = Len(MdSlugs)
     \/ Step = "xt_files" /\ nth = Len(Scripts)
  /\ NextStep
  /\ UNCHANGED <<json, scenes, xt, db, tx>>

CatchException ==
  /\ Running /\ Raises(Step)
  /\ at' = SUMMARY /\ nth' = 0 /\ failed' = TRUE
  /\ UNCHANGED <<run, status, input, json, scenes, xt, db, tx>>

-----------------------------------------------------------------------------
(* write_sqlite: the old database goes; the first CREATE TABLE is not in   *)
(* the transaction the first INSERT opens, everything after it is.         *)
Rows(hdb) ==
  [summary |-> Summary(hdb), classes |-> DumpClasses(hdb), neoidlist |-> hdb.neoidlist,
   records |-> hdb.records, production_paths |-> hdb.paths]

DbUnlink ==
  /\ Running /\ Step = "db_unlink"
  /\ db' = NoDatabase /\ NextStep
  /\ UNCHANGED <<json, scenes, xt, tx>>

DbCreate ==
  /\ Running /\ Step = "db_create"
  /\ db' = Database(<<>>) /\ tx' = <<>> /\ NextStep
  /\ UNCHANGED <<json, scenes, xt>>

(* Mutated form: every table is committed by itself. *)
MutDbInsert ==
  /\ Running /\ Step = "db_insert"
  /\ nth < Len(TABLES)
  /\ tx' = Put(tx, TABLES[nth + 1], Entry(Rows(input.hdb)[TABLES[nth + 1]])) /\ db' = Database(tx')
  /\ IF nth + 1 < Len(TABLES) THEN NextTurn ELSE NextStep
  /\ UNCHANGED <<json, scenes, xt>>

DbInsert ==
  /\ Running /\ Step = "db_insert"
  /\ nth < Len(TABLES)
  /\ tx' = Put(tx, TABLES[nth + 1], Entry(Rows(input.hdb)[TABLES[nth + 1]]))
  /\ IF nth + 1 < Len(TABLES) THEN NextTurn ELSE NextStep
  /\ UNCHANGED <<json, scenes, xt, db>>

DbCommit ==
  /\ Running /\ Step = "db_commit"
  /\ db' = Database(tx) /\ tx' = <<>>
  /\ status' = "finished"
  /\ UNCHANGED <<run, input, at, nth, failed, json, scenes, xt>>

(* Killed: the open transaction is rolled back, the file that was being    *)
(* written is as it was or cut.                                            *)
Crash ==
  /\ Running
  /\ status' = "crashed" /\ tx' = <<>>
  /\ \/ UNCHANGED <<json, scenes, xt>>
     \/ /\ Step \in JSON_STEPS /\ ~Raises(Step) /\ ~NothingToList
        /\ json' = Put(json, Step, CutEntry) /\ UNCHANGED <<scenes, xt>>
     \/ /\ Step \in SCENE_STEPS /\ ~Raises(Step) /\ nth < Len(Tree.scenes)
        /\ scenes' = Put(scenes, ScenePath, CutEntry) /\ UNCHANGED <<json, xt>>
     \/ /\ Step = "scenes_md" /\ nth < Len(MdSlugs)
        /\ scenes[PathOf(MdSlugs[nth + 1], "json")].whole
        /\ scenes' = Put(scenes, PathOf(MdSlugs[nth + 1], "md"), CutEntry)
        /\ UNCHANGED <<json, xt>>
     \/ /\ Step = "xt_files" /\ nth < Len(Scripts)
        /\ xt' = Put(xt, ScriptPath, CutEntry) /\ UNCHANGED <<json, scenes>>
  /\ UNCHANGED <<run, input, at, nth, failed, db>>

Next ==
  \/ \E found \in Inputs : Start(found)
  \/ WriteJson \/ WriteScene \/ WriteMd \/ CopyScript \/ LoopEnds \/ CatchException
  \/ DbUnlink \/ DbCreate \/ DbInsert \/ DbCommit
  \/ Crash

Spec == Init /\ [][Next]_vars

-----------------------------------------------------------------------------
(* What the files have come to be. *)
KINDS == {"json", "md", "storyboard", "nl"}
Sound(files, name) == name \in DOMAIN files /\ files[name].whole
Index == json["00_index"]
Told(slug, kind) == scenes[PathOf(slug, kind)].data
Done == status = "finished" /\ ~failed
TriggerIds(told) ==
  CASE told.kind = "json" -> [i \in DOMAIN told.of.triggers |-> told.of.triggers[i].trigger_id]
    [] told.kind = "storyboard" -> [i \in DOMAIN told.of.actions |-> told.of.actions[i].trigger]
    [] OTHER -> [i \in DOMAIN told.of.triggers |-> told.of.triggers[i][1]]
VideosOf(groups) ==
  FlattenSeq([g \in DOMAIN groups |->
    FlattenSeq([w \in DOMAIN groups[g].views |->
      [k \in DOMAIN groups[g].views[w].videos |->
        [file |-> groups[g].views[w].videos[k].file, seq |-> groups[g].sequence,
         view |-> groups[g].views[w].view]]])])
FilesIn(videos) == {videos[i].file : i \in DOMAIN videos}

(* The Markdown of a scene was written again, as the storyboard of another.*)
Retold(entry) == \E k \in DOMAIN Index.data : Index.data[k].file \o BOARD = entry.file

(* When a run has gone through, the four files of every scene the index    *)
(* names are whole and of this run, and they tell one scene, with the same *)
(* triggers, checkpoints and flow: that of the entry, unless another one is*)
(* spelled to the same file name. Only the Markdown may tell of a second   *)
(* scene: it is the storyboard of the one whose storyboard has its name    *)
(* (scene_json.py:268-308, scene_readable.py:175, scene_storyboard.py:341, *)
(* cli.py:306-326).                                                        *)
SceneFilesTogether ==
  Done =>
    \A i \in DOMAIN Index.data :
      LET entry == Index.data[i]
          told(kind) == Told(entry.file, kind)
          own == IF Retold(entry) THEN KINDS \ {"md"} ELSE KINDS
          alone == \A k \in DOMAIN Index.data : Index.data[k].file = entry.file => k = i
      IN  /\ \A kind \in KINDS : /\ Sound(scenes, PathOf(entry.file, kind))
                                 /\ scenes[PathOf(entry.file, kind)].run = run
          /\ Slug(told("json").name) = entry.file
          /\ \A kind \in own : /\ told(kind).name = told("json").name
                               /\ TriggerIds([kind |-> kind, of |-> told(kind)])
                                    = TriggerIds([kind |-> "json", of |-> told("json")])
          /\ IF Retold(entry) THEN Slug(told("md").name) \o BOARD = entry.file
             ELSE /\ told("md").flow = told("json").flow
                  /\ told("md").checkpoints = [c \in DOMAIN told("nl").checkpoints |->
                                                 Scoped(told("nl").checkpoints[c])]
          /\ alone => /\ entry.scene = told("json").name
                      /\ entry.n_flow_steps = Len(told("json").flow)
                      /\ entry.n_triggers = Len(told("nl").triggers)

Filled == db.tables # <<>>

(* Whoever opens the database finds nothing in it, or all five tables of   *)
(* one and the same run, and after a run what the JSON files beside it say *)
(* (output/sqlite_writer.py:17-123).                                       *)
DatabaseIsOneRun ==
  /\ Filled =>
       /\ DOMAIN db.tables = ToSet(TABLES)
       /\ \A a, b \in ToSet(TABLES) : db.tables[a].run = db.tables[b].run
       /\ db.tables["summary"].data.records_surface = Len(db.tables["records"].data)
  /\ status = "finished" =>
       Filled /\ \A table \in ToSet(TABLES) : db.tables[table] = json[table]

(* At any moment, through crashes and failed runs, nothing is older than   *)
(* what speaks of it: the summary than the listings it counts, the database*)
(* than the summary, the index than the scene files it names               *)
(* (cli.py:171-229, 382-421; scene_json.py:268-308).                       *)
WrittenBehindWhatItNames ==
  /\ "summary" \in DOMAIN json =>
       \A name \in CORE :
         name \in DOMAIN json /\ json[name].run >= json["summary"].run
  /\ Filled => db.tables["summary"].run <= json["summary"].run
  /\ Sound(json, "00_index") =>
       \A i \in DOMAIN Index.data :
         LET path == <<Index.data[i].file, "json">> IN
         path \in DOMAIN scenes /\ scenes[path].run >= Index.run

(* The written files against the tables: every spelling of a scene leads to*)
(* the one kept with most videos; a trigger whose scope is any of its      *)
(* spellings is told of it, one with an unrelated scope is not; each field *)
(* of a hotspot that names an action is one way to invoke it; each asset is*)
(* in the flow or beside it, each video in the script too, at one sequence *)
(* and view for all who place it (decision_tree.py:41-153, scene_json.py:  *)
(* 88-249, scene_neologic.py:95-295, scene_storyboard.py:105-317).         *)
KeptTells(rows, scene) ==
  LET same == {i \in DOMAIN rows : Norm(rows[i].scene_path) = Norm(scene.scene_path)}
      most == {i \in same : \A k \in same : rows[k].n_xmv <= rows[i].n_xmv}
  IN  scene.scene_path = rows[Min(most)].scene_path

TriggersTold(scene, told_json, told_nl) ==
  \A i \in DOMAIN RowsOf(input.base.triggers) :
    LET t == RowsOf(input.base.triggers)[i]
        spelled == Norm(t.scene_scope) = Norm(scene.scene_path)
        unrelated == Norm(t.scene_scope)[1] # Norm(scene.scene_path)[1]
        in(told, kind) == Contains(TriggerIds([kind |-> kind, of |-> told]), t.trigger_id)
    IN  /\ spelled => in(told_json, "json") /\ in(told_nl, "nl")
        /\ unrelated => ~in(told_json, "json") /\ ~in(told_nl, "nl")

AssetsTold(scene, told_json, told_nl, told_board) ==
  LET of == Productions(input.base, scene)
      flow == VideosOf(told_json.flow)
      script == VideosOf(told_nl.sequences)
      board == VideosOf(told_board.inventory)
      readable == VideosOf(ReadableScript(scene, of).flow)
  IN  /\ Len(flow) + Len(told_json.non_video) = Len(of)
      /\ FilesIn(flow) \cup ToSet(told_json.non_video) = {FileOf(of[i]) : i \in DOMAIN of}
      /\ Len(script) = Len(flow) /\ FilesIn(script) = FilesIn(flow)
      /\ ToSet(readable) = ToSet(flow)
      /\ ToSet(board) \subseteq ToSet(script)
      /\ \A v \in ToSet(flow) : v.seq # NO_SEQ => v \in ToSet(script)

InvocationsTold(tree) ==
  \A a \in ToSet(tree.actions) :
    LET invokes(h, key) == OneIf(h[key] = a.action_id /\ a.action_id # 0) IN
    /\ Len(a.hotspots_invoking)
         = SumOf(tree.hotspots, LAMBDA h : invokes(h, "action_id_1") + invokes(h, "action_id_2"))
    /\ \A w \in ToSet(a.hotspots_invoking) : \E h \in ToSet(tree.hotspots) :
         h.scene_id = w.scene_id /\ h.hotspot_idx = w.hotspot_idx /\ h[w.via] = a.action_id

ScenesTellTheTables ==
  Done =>
    LET tree == json["decision_tree"].data
        rows == RowsOf(input.base.scenes)
        overwritten(i) == \E k \in DOMAIN tree.scenes :
          k > i /\ Slug(tree.scenes[k].scene_path) = Slug(tree.scenes[i].scene_path)
    IN  /\ \A r \in DOMAIN rows :
             Cardinality({i \in DOMAIN tree.scenes :
                            Norm(tree.scenes[i].scene_path) = Norm(rows[r].scene_path)}) = 1
        /\ InvocationsTold(tree)
        /\ \A i \in DOMAIN tree.scenes :
             LET scene == tree.scenes[i]
                 told(kind) == Told(Slug(scene.scene_path), kind)
             IN  /\ KeptTells(rows, scene)
                 /\ overwritten(i) \/
                      /\ TriggersTold(scene, told("json"), told("nl"))
                      /\ AssetsTold(scene, told("json"), told("nl"), told("storyboard"))
=============================================================================
