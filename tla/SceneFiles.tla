----------------------------- MODULE SceneFiles ------------------------------
(***************************************************************************)
(* What is written about one scene (python/.../extractors/scene_json.py,   *)
(* scene_readable.py, scene_storyboard.py, scene_neologic.py and           *)
(* readable_scripts.py), as what the file tells: the names, triggers,      *)
(* checkpoints and the videos, each in its sequence and viewpoint.         *)
(*                                                                         *)
(* A production name is a record: seq, the number it begins with, by its   *)
(* place in text order, or None; listed, whether it ends in one of seven   *)
(* extensions; view, a number and a direction, or None; hints, the state   *)
(* words in it; take.                                                      *)
(***************************************************************************)
EXTENDS SceneTree

CONSTANTS
  NO_SEQ,       \* "no_seq", which sorts behind every number
  ENTRY_CAP, SEQ_CAP, VIEW_CAP, RECORD_CAP, FIELD_CAP,  \* 5, 15, 4, 5, 8
  SCRIPT_CLASSES  \* the classes a script may show records of

VIDEO == {"xmv", "dmv"}
IsVideo(p) == p.asset_type \in VIDEO
NoView == <<999, 0>>

-----------------------------------------------------------------------------
(* Two writers want the extension of a numbered name, two do not.          *)
ListedSeq(name) == IF name.seq # None /\ name.listed THEN name.seq ELSE NO_SEQ
AnySeq(name) == Default(name.seq, NO_SEQ)
View(name) == Default(name.view, NoView)
States(name) ==
  SelectSeq(<<"no_boat", "boat", "day", "night">>,
            LAMBDA s : s \in name.hints /\ ~(s = "boat" /\ "no_boat" \in name.hints))

(* Sort keys: views by number and direction in the JSON file and as text   *)
(* in the others, state lists by length and then as text.                  *)
ViewKey(view) == 10 * view[1] + view[2]
TextKey(view) ==
  IF view[1] >= 10 THEN 1000 * (view[1] \div 10) + 10 * (view[1] % 10) + view[2]
  ELSE 1000 * view[1] + 500 + view[2]
STATE_RANK == [boat |-> 1, day |-> 2, night |-> 3, no_boat |-> 4]
StatesKey(states) == FoldLeft(LAMBDA n, s : 5 * n + STATE_RANK[s], 0, states)
ByKey(seq, Key(_)) ==
  LET before(i, k) == Key(seq[i]) < Key(seq[k]) \/ (Key(seq[i]) = Key(seq[k]) /\ i < k)
      order == SortSeq([i \in DOMAIN seq |-> i], before)
  IN  [i \in DOMAIN seq |-> seq[order[i]]]

FileOf(p) == <<p.storage_dir, p.file_id, p.asset_type>>
Shown(p) == [file |-> FileOf(p), states |-> States(p.production_name),
             take |-> p.production_name.take]

InOrder(videos) == [k \in DOMAIN videos |-> Shown(videos[k])]
ByStates(videos) == ByKey(InOrder(videos), LAMBDA v : StatesKey(v.states))
Capped(videos) == FirstOf(InOrder(videos), VIEW_CAP)

(* The writers, "json", "storyboard", "nl" and "script", group the same    *)
(* productions by sequence and the videos of one by view, each its own way.*)
SequenceOf(writer, p) ==
  IF writer \in {"json", "script"} THEN ListedSeq(p.production_name)
  ELSE AnySeq(p.production_name)
Precedes(writer, v, w) ==
  IF writer = "json" THEN ViewKey(v) < ViewKey(w) ELSE TextKey(v) < TextKey(w)
Listing(writer, videos) ==
  CASE writer = "json" -> ByStates(videos)
    [] writer = "storyboard" -> Capped(videos)
    [] OTHER -> InOrder(videos)

ViewsOf(writer, videos) ==
  LET views == {View(videos[i].production_name) : i \in DOMAIN videos}
      sorted == SortSeq(AsSeq(views), LAMBDA v, w : Precedes(writer, v, w))
      of(v) == SelectSeq(videos, LAMBDA p : View(p.production_name) = v)
  IN  [i \in DOMAIN sorted |-> [view |-> sorted[i], videos |-> Listing(writer, of(sorted[i]))]]

SequenceKeys(writer, productions) ==
  Ascending({SequenceOf(writer, productions[i]) : i \in DOMAIN productions})
InSequence(writer, productions, seq) ==
  SelectSeq(productions, LAMBDA p : SequenceOf(writer, p) = seq)
Group(writer, seq, videos) ==
  [sequence |-> seq, n_videos |-> Len(videos), views |-> ViewsOf(writer, videos)]

(* The videos of some sequences, sequences without one left out.           *)
Grouped(writer, productions, keys) ==
  LET videos(seq) == SelectSeq(InSequence(writer, productions, seq), IsVideo)
      full == SelectSeq(keys, LAMBDA seq : videos(seq) # <<>>)
  IN  [i \in DOMAIN full |-> Group(writer, full[i], videos(full[i]))]

-----------------------------------------------------------------------------
(* The checkpoint flags of a scene, bAI<Scene>_<Action>.                   *)
Variable(scene, checkpoint) ==
  <<SelectSeq(scene.scene_path, LAMBDA w : w # " "), checkpoint>>
Checkpoints(scene, var_sem) ==
  LET cps == scene.ai_checkpoints
      about(v) == IF v \in DOMAIN var_sem
                  THEN [variable |-> v, scope |-> var_sem[v].scope,
                        role |-> var_sem[v].role_category]
                  ELSE [variable |-> v, scope |-> None, role |-> None]
  IN  [i \in DOMAIN cps |-> about(Variable(scene, cps[i]))]

(* build_scene_json; a trigger is the enriched one of its id.              *)
SceneJson(scene, productions, var_sem, full_triggers) ==
  LET full == LastByKey(full_triggers, LAMBDA t : t.trigger_id)
      own(t) == IF t.trigger_id \in DOMAIN full THEN full[t.trigger_id]
                ELSE [trigger_id |-> t.trigger_id, effect |-> t.effect,
                      fires_when |-> <<t.action_label, t.scene_scope, t.condition_hint>>]
      other == SelectSeq(productions, LAMBDA p : ~IsVideo(p))
  IN  [name |-> scene.scene_path,
       checkpoints |-> Checkpoints(scene, var_sem),
       triggers |-> [i \in DOMAIN scene.triggers |-> own(scene.triggers[i])],
       flow |-> Grouped("json", productions, SequenceKeys("json", productions)),
       non_video |-> [i \in DOMAIN other |-> FileOf(other[i])],
       summary |-> [n_productions_mapped |-> Len(productions),
                    n_checkpoints |-> Len(scene.ai_checkpoints),
                    n_triggers |-> Len(scene.triggers), n_xmv |-> scene.n_xmv]]

(* write_scene_md tells what the JSON file says, of a checkpoint its       *)
(* variable and scope only; a trigger without an action_label raises.      *)
Scoped(checkpoint) ==
  [variable |-> checkpoint.variable, scope |-> Default(checkpoint.scope, "Title")]
SceneMd(scene_json) ==
  [name |-> scene_json.name,
   checkpoints |-> [i \in DOMAIN scene_json.checkpoints |-> Scoped(scene_json.checkpoints[i])],
   triggers |-> [i \in DOMAIN scene_json.triggers |->
     LET t == scene_json.triggers[i] IN <<t.trigger_id, t.action_label, t.scene_scope, t.effect>>],
   flow |-> scene_json.flow, non_video |-> scene_json.non_video]

-----------------------------------------------------------------------------
(* The labels that begin with "Talk". *)
TALKS == {"Talk", "Talk2"}

(* build_scene_storyboard: the entry, the actions, the inventory.          *)
Storyboard(scene, var_sem, productions, conversations) ==
  LET keys == SequenceKeys("storyboard", productions)
      first == IF keys = <<>> THEN <<>> ELSE InSequence("storyboard", productions, keys[1])
      navs == SelectSeq(first, LAMBDA p : p.production_name.nav)
      told(t) == [trigger |-> t.trigger_id, label |-> t.action_label, effect |-> t.effect,
                  category |-> IF t.trigger_id \in DOMAIN var_sem
                               THEN var_sem[t.trigger_id].role_category ELSE None]
      talks == \E i \in DOMAIN scene.triggers : scene.triggers[i].action_label \in TALKS
  IN  [name |-> scene.scene_path,
       entry |-> IF navs # <<>> THEN InOrder(FirstOf(navs, ENTRY_CAP))
                 ELSE InOrder(FirstOf(first, 1)),
       actions |-> [i \in DOMAIN scene.triggers |-> told(scene.triggers[i])],
       flags |-> [i \in DOMAIN scene.ai_checkpoints |-> Variable(scene, scene.ai_checkpoints[i])],
       inventory |-> Grouped("storyboard", productions, FirstOf(keys, SEQ_CAP)),
       mentions_conversations |-> conversations # <<>> /\ talks]

(* render_scene_nl: everything of the scene, and the same few records of   *)
(* the whole file under any scene that has a numbered file.                *)
SceneNl(scene, productions, var_sem, decoded) ==
  LET numbered == \E i \in DOMAIN productions : productions[i].file_id \notin {None, 0}
      relevant == SelectSeq(decoded, LAMBDA r : r.class_name \in SCRIPT_CLASSES)
      shown(r) == [r EXCEPT !.fields = FirstOf(@, FIELD_CAP)]
      few == FirstOf(relevant, RECORD_CAP)
      cps == Checkpoints(scene, var_sem)
      ts == scene.triggers
  IN  [name |-> scene.scene_path,
       checkpoints |-> [i \in DOMAIN cps |-> [cps[i] EXCEPT !.scope = Default(@, "Title")]],
       triggers |-> [i \in DOMAIN ts |->
         <<ts[i].trigger_id, ts[i].action_label, ts[i].scene_scope, ts[i].effect>>],
       sequences |-> Grouped("nl", productions, SequenceKeys("nl", productions)),
       records |-> IF numbered THEN [i \in DOMAIN few |-> shown(few[i])] ELSE <<>>]

(* write_readable_scripts: the Markdown of a scene from the tree itself.   *)
ReadableScript(scene, productions) ==
  [name |-> scene.scene_path,
   flags |-> [i \in DOMAIN scene.ai_checkpoints |-> Variable(scene, scene.ai_checkpoints[i])],
   triggers |-> scene.triggers,
   flow |-> Grouped("script", productions, SequenceKeys("script", productions)),
   non_video |-> LET other == SelectSeq(productions, LAMBDA p : ~IsVideo(p))
                     grouped == ByKey(other, LAMBDA p : ListedSeq(p.production_name))
                 IN  [i \in DOMAIN grouped |-> FileOf(grouped[i])]]
=============================================================================
