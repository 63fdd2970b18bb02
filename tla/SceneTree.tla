------------------------------ MODULE SceneTree ------------------------------
(***************************************************************************)
(* decision_tree.json and triggers_full.json                               *)
(* (python/.../extractors/decision_tree.py, triggers_full.py): scenes that *)
(* are spelled twice are merged, triggers are attached by scope, actions   *)
(* get the hotspots that invoke them.                                      *)
(*                                                                         *)
(* A name is a sequence of words and separators: <<"Field", " ", "Office">>.*)
(***************************************************************************)
EXTENDS PyData

-----------------------------------------------------------------------------
(***************************************************************************)
(* The loaders of the auxiliary tables (python/.../ext/decomp_intel.py,    *)
(* ext/scene_assets.py). A directory of tables is a record: each table is  *)
(* None when its file is missing, or the sequence of its rows. An empty    *)
(* field is None, a field int() refuses is NotANumber.                     *)
(***************************************************************************)

CONSTANT NotANumber

(* The fields each loader converts with int(), and those it converts only  *)
(* when they are not empty; the semantics and the sizes of the asset map   *)
(* are converted inside a try and fall back instead.                       *)
NUMBERS_OF ==
  [hotspots |-> {"scene_id", "hotspot_idx"},
   actions |-> {"action_id"},
   triggers |-> {},
   variables |-> {"occurrences"},
   semantics |-> {},
   scenes |-> {"n_xmv", "n_other", "n_hot_files"},
   conversations |-> {"conversation_id"},
   emails |-> {}, endings |-> {}, assets |-> {}]
NUMBERS_OR_EMPTY == [hotspots |-> {"action_id_1", "action_id_2"}, assets |-> {"file_id"}]

(* A loader raises at the first field it cannot convert. *)
Loads(base, tables) ==
  \A table \in tables : \A i \in DOMAIN RowsOf(base[table]) :
    LET row == RowsOf(base[table])[i] IN
    /\ \A field \in NUMBERS_OF[table] : row[field] \notin {NotANumber, None}
    /\ table \in DOMAIN NUMBERS_OR_EMPTY =>
         \A field \in NUMBERS_OR_EMPTY[table] : row[field] # NotANumber

OrFallback(x, otherwise) == IF x = NotANumber THEN otherwise ELSE x

(* load_gam_variables_semantics, by name: the last row of a name is meant. *)
NoSemantics == [cpp_type |-> None, scope |-> None, role_category |-> None, occurrences |-> 0]
SemanticsOf(base, name) ==
  LET rows == RowsOf(base.semantics)
      named == {i \in DOMAIN rows : rows[i].name = name}
      row == rows[Max(named)]
  IN  IF named = {} THEN NoSemantics
      ELSE [cpp_type |-> row.cpp_type, scope |-> row.scope,
            role_category |-> row.role_category,
            occurrences |-> OrFallback(Default(row.occurrences, 0), 0)]

(* _infer_cpp_type: from the Hungarian prefix. *)
CPP_TYPES ==
  [b |-> "bool", i |-> "int32_t", n |-> "uint32_t", c |-> "uint8_t", l |-> "int32_t",
   s |-> "char*", sc |-> "const char*", S |-> "struct", I |-> "scope_prefix"]
InferCppType(prefix) ==
  IF prefix \in DOMAIN CPP_TYPES THEN CPP_TYPES[prefix] ELSE "unknown"

(* load_variables_full *)
VariablesFull(base) ==
  LET full(v) ==
        LET s == SemanticsOf(base, v.name) IN
        [name |-> v.name, type_prefix |-> v.type_prefix, occurrences |-> v.occurrences,
         cpp_type |-> Default(s.cpp_type, InferCppType(v.type_prefix)),
         scope |-> Default(s.scope, "Title"), role_category |-> s.role_category]
      rows == RowsOf(base.variables)
  IN  [i \in DOMAIN rows |-> full(rows[i])]

(* load_scene_asset_map: the productions of every scene that has some.     *)
SceneAssetMap(base) ==
  LET rows == RowsOf(base.assets)
      asset(row) == [row EXCEPT !.size_bytes = OrFallback(@, None),
                                !.duration_s = OrFallback(@, None)]
      of(scene) == SelectSeq(rows, LAMBDA row : row.scene_path = scene)
  IN  [scene \in {rows[i].scene_path : i \in DOMAIN rows} |->
         [k \in DOMAIN of(scene) |-> asset(of(scene)[k])]]

ProductionsOf(asset_map, scene) ==
  IF scene \in DOMAIN asset_map THEN asset_map[scene] ELSE <<>>

-----------------------------------------------------------------------------

CONSTANTS
  Separators,   \* " ", "_" and the other characters a name is not made of
  Lower         \* word -> its lower case

Lowered(name) ==
  [i \in DOMAIN name |-> IF name[i] \in DOMAIN Lower THEN Lower[name[i]] ELSE name[i]]
Norm(name) == SelectSeq(Lowered(name), LAMBDA w : w \notin {" ", "_"})

(* _slug: every run of separators is one underscore, none at the ends.     *)
SlugWord(slug, w) ==
  CASE w \notin Separators -> Append(slug, w)
    [] w \in Separators /\ (slug = <<>> \/ slug[Len(slug)] = "_") -> slug
    [] OTHER -> Append(slug, "_")
Slug(name) ==
  LET slug == FoldLeft(SlugWord, <<>>, Lowered(name))
  IN  IF slug # <<>> /\ slug[Len(slug)] = "_" THEN SubSeq(slug, 1, Len(slug) - 1) ELSE slug

-----------------------------------------------------------------------------
(* Of scenes with one normal form the one with most videos stays, in the   *)
(* place of the first.                                                     *)
KeepScene(kept, s) ==
  LET same == {i \in DOMAIN kept : Norm(kept[i].scene_path) = Norm(s.scene_path)} IN
  CASE same = {} -> Append(kept, s)
    [] same # {} /\ \E i \in same : s.n_xmv > kept[i].n_xmv ->
         [i \in DOMAIN kept |-> IF i \in same THEN s ELSE kept[i]]
    [] OTHER -> kept

(* A stable sort, most assets first: a scene goes behind all with as many. *)
AssetCount(s) == s.n_xmv + s.n_other
PlaceByAssets(sorted, s) ==
  LET ahead == {i \in DOMAIN sorted : AssetCount(sorted[i]) >= AssetCount(s)}
  IN  InsertAt(sorted, Cardinality(ahead) + 1, s)
ByAssets(scenes) == FoldLeft(PlaceByAssets, <<>>, scenes)

(* A scope and a scene match when one spelling begins the other.           *)
InScope(scene, trigger) ==
  LET a == Norm(scene) b == Norm(trigger.scene_scope) IN IsPrefix(a, b) \/ IsPrefix(b, a)

(* Mutated form: a scope only matches the one spelling. *)
MutSceneTriggers(scene, triggers) ==
  SelectSeq(triggers, LAMBDA t : Lowered(scene) = Lowered(t.scene_scope))

(* The triggers of a scene, in the order of the table. *)
SceneTriggers(scene, triggers) ==
  FoldLeft(LAMBDA own, t : IF InScope(scene, t) THEN Append(own, t) ELSE own, <<>>, triggers)

(* The hotspots that name an action, in either of their two fields.        *)
Invoking(hotspots, action_id) ==
  LET via(h, key) == IF h[key] = action_id /\ action_id \notin {None, 0}
                     THEN <<[scene_id |-> h.scene_id, hotspot_idx |-> h.hotspot_idx, via |-> key]>>
                     ELSE <<>>
  IN  FlattenSeq([i \in DOMAIN hotspots |->
        via(hotspots[i], "action_id_1") \o via(hotspots[i], "action_id_2")])

-----------------------------------------------------------------------------
TREE_TABLES == {"hotspots", "actions", "triggers", "variables", "semantics", "scenes",
                "conversations", "emails", "endings"}

BuildDecisionTree(base) ==
  LET rows(table) == RowsOf(base[table])
      triggers == rows("triggers")
      scenes == ByAssets(FoldLeft(KeepScene, <<>>, rows("scenes")))
      with_triggers(s) ==
        LET own == SceneTriggers(s.scene_path, triggers) IN
        [f \in DOMAIN s \cup {"triggers", "n_triggers"} |->
           CASE f = "triggers" -> own [] f = "n_triggers" -> Len(own) [] OTHER -> s[f]]
      invoked(a) == a @@ [hotspots_invoking |-> Invoking(rows("hotspots"), a.action_id)]
      known(v) == \E i \in DOMAIN rows("semantics") : rows("semantics")[i].name = v.name
      variables == rows("variables")
  IN  [scenes |-> [i \in DOMAIN scenes |-> with_triggers(scenes[i])],
       hotspots |-> rows("hotspots"),
       actions |-> [i \in DOMAIN rows("actions") |-> invoked(rows("actions")[i])],
       triggers |-> triggers,
       variables |-> variables,
       conversations |-> rows("conversations"),
       emails |-> rows("emails"), endings |-> rows("endings"),
       summary |->
         [scenes |-> Len(scenes), hotspots |-> Len(rows("hotspots")),
          actions |-> Len(rows("actions")), triggers |-> Len(triggers),
          variables |-> Len(variables),
          variables_with_semantics |-> Len(SelectSeq(variables, known)),
          conversations |-> Len(rows("conversations")),
          emails |-> Len(rows("emails")), endings |-> Len(rows("endings"))]]

(* build_triggers_full: a trigger writes the variable it is named after.   *)
TriggersFull(triggers) ==
  [total |-> Len(triggers),
   triggers |-> [i \in DOMAIN triggers |->
                   triggers[i] @@ [vars_written |-> <<triggers[i].trigger_id>>]]]
=============================================================================
