--------------------------- MODULE GameDefBuilder ----------------------------
(***************************************************************************)
(* game_definition.json (extractors/game_definition.py): one honest model  *)
(* out of the artifacts of the other extractors. Each artifact is a record *)
(* of lists, or None when its file is missing. A member of a scene, a step *)
(* or a variable may be None too: dict.get then supplies the default.      *)
(***************************************************************************)
EXTENDS PyData

-----------------------------------------------------------------------------
(***************************************************************************)
(* The JSON document of game_definition.py as a tree. A dict or a list is a*)
(* node whose kids are its members, by key or by index; a wrapper made by  *)
(* bd, und or wt is a dict with a certainty. Members no other module reads *)
(* and no audit counts (the source notes, the legend) are left out.        *)
(***************************************************************************)

ALLOWED_CERTAINTY == {"byte-direct", "undetermined", "walkthrough"}
ALLOWED_REASONS ==
  {"field-not-present-in-payload",
   "u32-not-in-dll-string-range-and-not-in-extended-index",
   "handle-not-in-extended-index",
   "scene-binding-not-resolved-byte-direct",
   "relation-byte-meaning-runtime-only",
   "opcode-to-verb-table-not-in-public-format",
   "no-authoring-annotation-in-GAM",
   "value-only-known-from-walkthrough"}

Node(certainty, reason, value, kids) ==
  [certainty |-> certainty, reason |-> reason, value |-> value, kids |-> kids]
Raw(value) == Node(None, None, value, <<>>)
Dict(kids) == Node(None, None, None, kids)
ListOf(nodes) == Dict(nodes)
MapNodes(Wrap(_), seq) == ListOf([i \in DOMAIN seq |-> Wrap(seq[i])])

bd(value) == Node("byte-direct", None, value, <<>>)
und(reason) == Node("undetermined", reason, None, <<>>)
wt(value) == Node("walkthrough", None, value, <<>>)
(* A dict of wrappers that carries a certainty of its own. *)
Marked(kids) == Node("byte-direct", None, None, kids)

Has(node, key) == key \in DOMAIN node.kids
Kid(node, key) == IF Has(node, key) THEN node.kids[key] ELSE Raw(None)
(* _unwrap *)
Value(node, key) == Kid(node, key).value
Items(node, key) == Kid(node, key).kids

-----------------------------------------------------------------------------
(* Every dict of the tree, as both walkers meet them. *)
RECURSIVE Nodes(_)
Nodes(node) ==
  FoldSet(LAMBDA key, acc : acc \o Nodes(node.kids[key]),
          <<[certainty |-> node.certainty, reason |-> node.reason]>>,
          DOMAIN node.kids)

Tally(nodes, Test(_)) == Len(SelectSeq(nodes, Test))

(* _count_fields *)
CountFields(node) ==
  LET nodes == Nodes(node) IN
  [total |-> Tally(nodes, LAMBDA n : n.certainty \in ALLOWED_CERTAINTY),
   byte_direct |-> Tally(nodes, LAMBDA n : n.certainty = "byte-direct"),
   undetermined |-> Tally(nodes, LAMBDA n : n.certainty = "undetermined")]

(* verify_certainty *)
VerifyCertainty(node) ==
  LET nodes == Nodes(node)
      marked == {nodes[i].certainty : i \in DOMAIN nodes} \ {None}
      astray(n) == \/ n.certainty \notin ALLOWED_CERTAINTY \cup {None}
                   \/ n.certainty = "undetermined" /\ n.reason \notin ALLOWED_REASONS
  IN  [ok |-> Tally(nodes, astray) = 0,
       certainty_counts |->
         [c \in marked |-> Tally(nodes, LAMBDA n : n.certainty = c)]]

-----------------------------------------------------------------------------

CONSTANTS
  ScopeFits     \* <<scope, location>>: one is a substring of the other, without
                \* case, and without the location's spaces and apostrophes

-----------------------------------------------------------------------------
(* _scene_trigger_refs: the triggers of every fitting scope, scopes in the *)
(* order they first appear, each trigger once.                             *)
SceneTriggerRefs(location, triggers) ==
  LET fits(scope) == scope # "" /\ location # "" /\ <<scope, location>> \in ScopeFits
      scopes == SelectSeq(KeepFirsts([i \in DOMAIN triggers |-> triggers[i].scene_scope]),
                          fits)
      of(scope) == SelectSeq(triggers, LAMBDA t : t.scene_scope = scope)
      refs == FlattenSeq([i \in DOMAIN scopes |-> of(scopes[i])])
  IN  KeepFirsts([i \in DOMAIN refs |-> refs[i].trigger_id])

BuildScene(sc, triggers) ==
  Marked(
   [location |-> bd(sc.location),
    video_stats |-> Dict([views |-> bd(Default(sc.views, 0)),
                          clips_xmv |-> bd(Default(sc.clips_xmv, 0)),
                          video_seconds |-> bd(Default(sc.video_seconds, 0))]),
    state_machine |-> Dict(
      [phase_variable |-> IF sc.phase_variable = None
                          THEN und("field-not-present-in-payload")
                          ELSE bd(sc.phase_variable),
       phase_machine |-> MapNodes(bd, RowsOf(sc.phase_machine)),
       checkpoints |-> MapNodes(bd, sc.checkpoints),
       scoped_state_vars |-> MapNodes(bd, sc.state_variables)]),
    n_triggers_byte_direct |-> bd(Default(sc.n_triggers, 0)),
    trigger_refs |-> MapNodes(bd, SceneTriggerRefs(sc.location, triggers)),
    hotspots_ref |-> und("scene-binding-not-resolved-byte-direct")])

BuildScenes(all_scenes, triggers) ==
  LET byLocation == LastByKey(RowsOf(all_scenes), LAMBDA sc : sc.location) IN
  Dict([l \in DOMAIN byLocation |-> BuildScene(byLocation[l], RowsOf(triggers))])

BuildTrigger(t) ==
  Marked(
   [trigger_id |-> bd(t.trigger_id), scene_scope |-> bd(t.scene_scope),
    action_label |-> bd(t.action_label), effect_summary |-> bd(t.effect),
    condition_hint |-> bd(t.condition_hint),
    vars_written |-> MapNodes(bd, t.vars_written),
    relation_meaning |-> und("relation-byte-meaning-runtime-only")])

BuildTriggers(triggers) == MapNodes(BuildTrigger, RowsOf(triggers))

-----------------------------------------------------------------------------
(* _conv_slot: a slot of conversations.json in the wrapper shape. A reason *)
(* outside the closed vocabulary is mapped to one inside; HandleReasons are*)
(* those that speak of a handle.                                           *)
HandleReasons == {"handle-not-in-extended-index", "handle-not-resolved"}

ReasonFor(reason) ==
  CASE reason \in ALLOWED_REASONS -> reason
    [] reason \in HandleReasons \ ALLOWED_REASONS -> "handle-not-in-extended-index"
    [] OTHER -> "field-not-present-in-payload"

(* Only the string slots keep the text they stand for; a handle's text is  *)
(* under a key of its own, which is dropped.                               *)
ConvSlot(field, slots) ==
  IF field \notin DOMAIN slots THEN und("field-not-present-in-payload")
  ELSE
    LET v == slots[field]
        isString == field \in {"prompt", "response_1", "response_2"}
        extras == (IF isString /\ v.text # None THEN {"text"} ELSE {})
                  \cup (IF isString THEN {"string_id"} ELSE {})
                  \cup (IF v.target.offset # None THEN {"target_offset"} ELSE {})
    IN  IF v.certainty = "byte-direct"
        THEN Node("byte-direct", None, v.raw_u32,
                  [k \in extras |-> CASE k = "text" -> Raw(v.text)
                                      [] k = "string_id" -> Raw(v.raw_u32)
                                      [] k = "target_offset" -> Raw(v.target.offset)])
        ELSE und(ReasonFor(v.reason))

BuildConversation(r) ==
  Marked(
   [record_offset |-> bd(r.record_offset), payload_size |-> bd(None),
    kind |-> bd(r.kind)]
   @@ [f \in {"conversation_id", "topic", "prompt", "response_1", "response_2",
              "next_conversation_id", "flags"} |-> ConvSlot(f, r.slots)]
   @@ (IF r.kind = "conversation_record"
       THEN [raw_dwords |-> MapNodes(bd, r.raw_dwords)] ELSE <<>>))

(* The members an edge has depend on how it came about. *)
BuildEdge(e) ==
  Marked(
   [from |-> bd(e.from), to |-> bd(e.to), via |-> bd(e.via)]
   @@ (IF e.via = "handle_target"
       THEN [slot |-> bd(e.slot), target_class_id |-> bd(None),
             target_class_name |-> bd(None), resolver_source |-> bd(None)]
       ELSE <<>>))

BuildConversations(convs) ==
  IF convs = None THEN [records |-> ListOf(<<>>), edges |-> ListOf(<<>>)]
  ELSE [records |-> MapNodes(BuildConversation, convs.records),
        edges |-> MapNodes(BuildEdge, convs.graph_edges)]

-----------------------------------------------------------------------------
BuildOpcode(entry) ==
  Marked(
   [count |-> bd(entry.count), flags_seen |-> MapNodes(bd, entry.flags_seen),
    arg_size_min |-> bd(entry.arg_size_min), arg_size_max |-> bd(entry.arg_size_max),
    arg_size_histogram |->
      Dict([k \in DOMAIN entry.arg_size_histogram |-> bd(entry.arg_size_histogram[k])]),
    sample_args_hex |-> MapNodes(bd, entry.sample_args),
    ascii_runs_seen |-> MapNodes(bd, entry.ascii_runs_seen),
    persistent_record_ids |-> MapNodes(bd, entry.persistent_record_ids),
    candidate_effect |-> und("opcode-to-verb-table-not-in-public-format")])

BuildActionsVocabulary(av) ==
  IF av = None THEN Dict([stats |-> Dict(<<>>), opcodes |-> Dict(<<>>)])
  ELSE
    LET opcodes == LastByKey(av.action_types, LAMBDA a : a.action_type) IN
    Dict([stats |-> Dict([k \in DOMAIN av.stats |-> bd(av.stats[k])]),
          opcodes |-> Dict([op \in DOMAIN opcodes |-> BuildOpcode(opcodes[op])])])

(* by_scope: scope -> list of variables. defaults: name -> value.          *)
BuildVariable(var, defaults) ==
  Dict([name |-> bd(var.name), type |-> bd(Default(var.type, "?")),
        default_value |-> IF var.name \in DOMAIN defaults THEN bd(defaults[var.name])
                          ELSE und("field-not-present-in-payload"),
        docs |-> und("no-authoring-annotation-in-GAM")])

BuildVariables(by_scope, defaultsFile, constants, docs) ==
  LET defaults == RowsOf(defaultsFile)
      scopes == RowsOf(by_scope)
      array(scope) ==
        MapNodes(LAMBDA var : BuildVariable(var, defaults), scopes[scope])
      documented == IF docs = None THEN <<>> ELSE docs.documented_variables
      legends == IF docs = None THEN <<>> ELSE docs.enum_legends
      named == LastByKey(RowsOf(constants), LAMBDA c : c.name)
      namedConstant(c) == Marked([value |-> bd(c.value), ascii |-> bd(Default(c.ascii, "")),
                                  family |-> bd(c.family)])
  IN  Dict(
       [namespace_global |->
          IF "(global)" \in DOMAIN scopes THEN array("(global)") ELSE ListOf(<<>>),
        namespaces |-> Dict([s \in DOMAIN scopes \ {"(global)"} |-> array(s)]),
        documented_variables |-> Dict([n \in DOMAIN documented |-> bd(documented[n])]),
        enum_legends |->
          Dict([n \in DOMAIN legends |-> Dict([k \in DOMAIN legends[n] |->
                                                bd(legends[n][k])])]),
        named_constants |-> Dict([n \in DOMAIN named |-> namedConstant(named[n])]),
        stats |-> Dict(
          [total_names |-> bd(MapThenSumSet(LAMBDA s : Len(scopes[s]), DOMAIN scopes)),
           default_values_present |-> bd(Cardinality(DOMAIN defaults)),
           documented_count |-> bd(Cardinality(DOMAIN documented)),
           enum_legends_count |-> bd(Cardinality(DOMAIN legends)),
           named_constants_count |-> bd(Cardinality(DOMAIN named))])])

-----------------------------------------------------------------------------
(* _build_flow: a step's mechanics, where it has none those of its scene.  *)
NoScene == [location |-> "", views |-> None, clips_xmv |-> None, phase_machine |-> None,
            checkpoints |-> <<>>, state_variables |-> <<>>]

BuildStep(step, index, triggers) ==
  LET loc == step.location
      sc == IF loc \in DOMAIN index THEN index[loc] ELSE NoScene
      mech == step.mechanics
      phases == OrElse(mech.phase_machine, OrElse(sc.phase_machine, <<>>))
  IN  Dict(
       [step |-> bd(step.step), location |-> bd(loc), actions |-> wt(step.actions),
        items |-> MapNodes(wt, step.items),
        puzzles_codes |-> MapNodes(wt, step.puzzles_codes),
        mechanics_byte_direct |-> Dict(
          [scene_ref |-> IF loc \in DOMAIN index THEN bd(loc)
                         ELSE und("scene-binding-not-resolved-byte-direct"),
           views |-> bd(Default(mech.views, Default(sc.views, 0))),
           clips_xmv |-> bd(Default(mech.clips, Default(sc.clips_xmv, 0))),
           phase_machine |-> MapNodes(bd, phases),
           checkpoints |-> MapNodes(bd, OrElse(mech.checkpoints, sc.checkpoints)),
           checkpoint_vars |->
             MapNodes(bd, OrElse(mech.state_variables, sc.state_variables)),
           trigger_refs |-> MapNodes(bd, SceneTriggerRefs(loc, triggers))])])

BuildFlow(flow, all_scenes, triggers) ==
  IF flow = None
  THEN Dict([story |-> und("value-only-known-from-walkthrough"),
             login |-> und("value-only-known-from-walkthrough"),
             total_steps |-> bd(0), days |-> ListOf(<<>>)])
  ELSE
    LET index == LastByKey(RowsOf(all_scenes), LAMBDA sc : sc.location)
        day(d) == Dict([day |-> wt(d.day),
                        scenes |-> MapNodes(LAMBDA s : BuildStep(s, index, RowsOf(triggers)),
                                            d.scenes)])
        told(x, Wrap(_)) ==
          IF x = None THEN und("value-only-known-from-walkthrough") ELSE Wrap(x)
    IN  Dict([story |-> told(flow.story, wt),
              login |-> told(flow.login,
                             LAMBDA l : Dict([k \in DOMAIN l |-> wt(l[k])])),
              total_steps |-> bd(Default(flow.total_steps, 0)),
              days |-> MapNodes(day, flow.days)])

(* _build_dialogues: the table of XFilest.dll from its artifact, those of  *)
(* the sibling DLLs from the files; one that cannot be read is counted as  *)
(* undetermined, one that is missing has no section.                       *)
Lines(count, lines) ==
  Dict([count |-> count, lines |-> Dict([sid \in DOMAIN lines |-> bd(lines[sid])])])

BuildDialogues(dialogue_lines) ==
  IF dialogue_lines = None THEN Lines(und("field-not-present-in-payload"), <<>>)
  ELSE Lines(bd(dialogue_lines.count), dialogue_lines.lines)

BuildSibling(dll) ==
  CASE dll.state = "missing" -> Dict(<<>>)
    [] dll.state = "unreadable" -> Lines(und("field-not-present-in-payload"), <<>>)
    [] dll.state = "read" -> Lines(bd(Cardinality(DOMAIN dll.strings)), dll.strings)

BuildRelationRow(row) ==
  Dict([relation_byte |-> bd(row), count_global |-> bd(None),
        count_in_canonical_triggers |-> bd(None),
        relation_meaning |-> und("relation-byte-meaning-runtime-only")])

-----------------------------------------------------------------------------
FieldCounts(counts) ==
  Dict([total |-> bd(counts.total), byte_direct |-> bd(counts.byte_direct),
        undetermined |-> bd(counts.undetermined),
        walkthrough |-> bd(counts.total - counts.byte_direct - counts.undetermined)])

NoCounts == [total |-> 0, byte_direct |-> 0, undetermined |-> 0]

(* byte_direct_pct stays the placeholder's None: a value nobody reads.     *)
WithCounts(sections, counts) ==
  [sections EXCEPT !["_meta"] =
     Dict(@.kids @@ [byte_direct_pct |-> bd(None), field_counts |-> FieldCounts(counts)])]

Sections(art, dlls) ==
  LET triggers == art.triggers_full
      convs == BuildConversations(art.conversations)
      scenes == BuildScenes(art.all_scenes, triggers)
      variables == BuildVariables(art.state_vars, art.defaults, art.constants, art.var_docs)
      actions == BuildActionsVocabulary(art.action_vocabulary)
      rows == RowsOf(art.relation_rows)
      len(list) == bd(Cardinality(DOMAIN list.kids))
  IN  ("_meta" :> Dict([schema_version |-> bd("1.0"),
                        generated_from |-> MapNodes(bd, <<1, 2, 3, 4, 5, 6, 7>>),
                        source_hdb_sha256 |-> bd(None), source_hdb_size |-> bd(None)]))
      @@ [flow |-> BuildFlow(art.flow, art.all_scenes, triggers),
          scenes |-> scenes,
          triggers |-> BuildTriggers(triggers),
          conversations |-> convs.records,
          conversation_graph_edges |-> convs.edges,
          hotspots |-> und("scene-binding-not-resolved-byte-direct"),
          actions_vocabulary |-> actions,
          variables |-> variables,
          relation_byte_distribution |-> MapNodes(BuildRelationRow, rows),
          dialogues |-> BuildDialogues(art.dialogue_lines),
          dialogues_en |-> BuildSibling(dlls.XFilese),
          dialogues_sys |-> BuildSibling(dlls.XFiless),
          dialogues_credits |-> BuildSibling(dlls.XFilesc)]
      @@ ("_stats" :> Dict(
           [scene_count |-> len(scenes),
            trigger_count |-> bd(Len(RowsOf(triggers))),
            conversation_count |-> len(convs.records),
            conversation_graph_edges |-> len(convs.edges),
            variable_count |-> variables.kids["stats"].kids["total_names"],
            dialogue_count |-> IF art.dialogue_lines = None
                               THEN und("field-not-present-in-payload")
                               ELSE bd(art.dialogue_lines.count),
            opcode_count |-> len(actions.kids["opcodes"])]))

(* Mutated form: the fields are counted before the counters are installed. *)
MutBuildGameDefinition(art, dlls) ==
  LET sections == Sections(art, dlls) IN
  Dict(WithCounts(sections, CountFields(Dict(sections))))

(* build_game_definition: the counters are installed as placeholders first *)
(* so that they count themselves.                                          *)
BuildGameDefinition(art, dlls) ==
  LET sections == Sections(art, dlls)
      placeholders == Dict(WithCounts(sections, NoCounts))
  IN  Dict(WithCounts(sections, CountFields(placeholders)))
=============================================================================
