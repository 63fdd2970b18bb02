----------------------------- MODULE GameExport ------------------------------
(***************************************************************************)
(* From the records of the HDB to a dispatched playthrough: the extractors *)
(* of conversations and of actions write their artifacts, game-def joins   *)
(* them with the others into one model, counts it, writes it and audits it;*)
(* trace and dispatch walk what was written (cli.py game-def, trace,       *)
(* dispatch). Each extractor's loop takes a step per record, the walks a   *)
(* step per step of the flow. A record is revealed when it is decoded.     *)
(***************************************************************************)
EXTENDS Conversations, ActionVocabulary, PyDispatcher

CONSTANTS
  Class31,        \* bound: offsets of the VCConversation records, in order
  Payloads,       \* bound: dword lists of a conversation record
  ListPayloads,   \* bound: pair lists of a container (16 pairs in the file)
  ActionRecords,  \* bound: what a VCStdAction record may decode to
  MaxActions,     \* bound on the number of those records
  Artifacts,      \* bound: the artifacts that come from elsewhere, by file
  Dlls            \* bound: the states of the three sibling DLLs

ASSUME ExportAssumption == Class31 \in Seq(Nat) /\ MaxActions \in Nat

VARIABLES
  phase,          \* "conversations", "actions", "build", "walk"
  walked,         \* records of the current loop, then steps of the flow
  records, graph_edges, graph_nodes, conv_stats,
  vocabulary,
  others,         \* the artifacts beside the two extracted ones
  game_def,       \* the model that was written, None before
  audit,          \* verify_certainty of it
  steps_out,      \* the trace
  report          \* the dispatcher

extraction == <<records, graph_edges, graph_nodes, conv_stats>>
walks == <<steps_out, report>>
vars == <<phase, walked, extraction, vocabulary, others, game_def, audit, walks>>

Init ==
  /\ phase = "conversations" /\ walked = 0
  /\ records = <<>> /\ graph_edges = <<>> /\ graph_nodes = {}
  /\ conv_stats = NoStats
  /\ vocabulary = NoVocabulary
  /\ others = None /\ game_def = None /\ audit = None
  /\ steps_out = <<>> /\ report = NoReport

-----------------------------------------------------------------------------
(* extract_conversations: the loop over the records of class 0x31. *)
NextOffset == Class31[walked + 1]

ExtractRecord(dwords) ==
  LET rec == DecodeConversationRecord(NextOffset, dwords) IN
  /\ records' = Append(records, rec)
  /\ graph_nodes' = graph_nodes \cup {NextOffset}
  /\ graph_edges' = graph_edges \o NextLink(rec, ToSet(Class31)) \o HandleEdges(rec)
  /\ conv_stats' = TallyRecord(conv_stats, rec)

ExtractContainer(pairs) ==
  LET entries == ListEntries(NextOffset, pairs)
      offsets == {entries[k].record_offset : k \in DOMAIN entries}
  IN
  /\ records' = Append(records, ListContainer(NextOffset)) \o entries
  /\ graph_nodes' = graph_nodes \cup {NextOffset} \cup offsets
  /\ graph_edges' =
       graph_edges \o FlattenSeq([k \in DOMAIN entries |-> HandleEdges(entries[k])])
                   \o ContainerEdges(NextOffset, entries)
  /\ conv_stats' = TallyContainer(conv_stats, entries)

ExtractConversation ==
  /\ phase = "conversations" /\ walked < Len(Class31)
  /\ walked' = walked + 1
  /\ \/ \E dwords \in Payloads : ExtractRecord(dwords)
     \/ \E pairs \in ListPayloads : ExtractContainer(pairs)
  /\ UNCHANGED <<phase, vocabulary, others, game_def, audit, walks>>

(* build_action_vocabulary: the loop over the records of class 0x54.       *)
ExtractAction ==
  /\ phase = "actions" /\ walked < MaxActions
  /\ walked' = walked + 1
  /\ \E rec \in ActionRecords : vocabulary' = DecodeAction(vocabulary, rec)
  /\ UNCHANGED <<phase, extraction, others, game_def, audit, walks>>

Written ==
  /\ \/ phase = "conversations" /\ walked = Len(Class31) /\ phase' = "actions"
     \/ phase = "actions" /\ phase' = "build"
  /\ walked' = 0
  /\ UNCHANGED <<extraction, vocabulary, others, game_def, audit, walks>>

-----------------------------------------------------------------------------
(* game-def: the model is written, then audited; what the audit says does  *)
(* not take the file back. The two extracted artifacts may be missing too. *)
Conversations_json == [records |-> records, graph_edges |-> graph_edges]

Joined(art, keep) ==
  art @@ [conversations |-> IF keep THEN Conversations_json ELSE None,
          action_vocabulary |-> IF keep THEN VocabularyFile(vocabulary) ELSE None]

GameDef ==
  /\ phase = "build"
  /\ \E art \in Artifacts, dlls \in Dlls, keep \in BOOLEAN :
       /\ others' = art
       /\ game_def' = BuildGameDefinition(Joined(art, keep), dlls)
       /\ audit' = VerifyCertainty(game_def')
  /\ phase' = "walk" /\ walked' = 0
  /\ UNCHANGED <<extraction, vocabulary, walks>>

(* trace and dispatch: the next step of the flow in the written model.     *)
WalkStep ==
  /\ phase = "walk" /\ walked < Len(StepsOf(game_def))
  /\ walked' = walked + 1
  /\ LET step == StepsOf(game_def)[walked + 1] IN
       /\ steps_out' = Append(steps_out, TraceStep(game_def, step))
       /\ report' = DispatchPyStep(game_def, report, step)
  /\ UNCHANGED <<phase, extraction, vocabulary, others, game_def, audit>>

Next == ExtractConversation \/ ExtractAction \/ Written \/ GameDef \/ WalkStep

Spec == Init /\ [][Next]_vars

-----------------------------------------------------------------------------
EdgesVia(via) == SelectSeq(graph_edges, LAMBDA e : e.via = via)
Offsets(kind) == {records[i].record_offset : i \in {k \in DOMAIN records :
                                                     records[k].kind = kind}}

(* The statistics of conversations.json are those of its own lists: every  *)
(* slot counted as resolved has its edge and no other edge claims one, each*)
(* entry hangs on a listed container, every next link joins two records of *)
(* the class, and no handle leads to bytes that are not a marker.          *)
ConversationsAccount ==
  LET sources == {graph_edges[i].from : i \in DOMAIN graph_edges}
      handleEdges == EdgesVia("handle_target")
      listEdges == EdgesVia("list_container_entry")
      links == EdgesVia("next_link")
  IN
  /\ HandlesResolved(conv_stats) = Len(handleEdges)
  /\ conv_stats.with_resolved_handle
       = Cardinality({handleEdges[i].from : i \in DOMAIN handleEdges})
  /\ conv_stats.list_container_entries = Len(listEdges)
  /\ conv_stats.handles_unresolved <= conv_stats.undetermined_total
  /\ Len(records) = conv_stats.conversation_records + conv_stats.list_containers
                    + conv_stats.list_container_entries
  /\ graph_nodes = {records[i].record_offset : i \in DOMAIN records}
  /\ sources \subseteq graph_nodes
  /\ \A i \in DOMAIN listEdges : /\ listEdges[i].from \in Offsets("list_container")
                                 /\ listEdges[i].to \in Offsets("list_container_entry")
  /\ \A i \in DOMAIN links : links[i].to \in ToSet(Class31) \ {links[i].from}
  /\ \A i \in DOMAIN handleEdges :
       /\ handleEdges[i].to \in DOMAIN ClassAt
       /\ handleEdges[i].cross_conversation
            <=> ClassAt[handleEdges[i].to] = VC_CONVERSATION_CLASS_ID

(* The vocabulary loses no record: each is short or in the count, the sizes*)
(* and the ids of its opcode, and an id met again is a collision.          *)
VocabularyAccounts ==
  LET file == VocabularyFile(vocabulary)
      types == file.action_types
      histogram(t) == MapThenSumSet(LAMBDA k : t.arg_size_histogram[k],
                                    DOMAIN t.arg_size_histogram)
  IN
  /\ SumOf(types, LAMBDA t : t.count) = file.stats.vcstdaction_records_decoded
  /\ file.stats.distinct_persistent_record_ids
     + file.stats.persistent_record_id_collisions = Len(vocabulary.decoded)
  /\ phase = "actions" => file.stats.vcstdaction_records_total = walked
  /\ \A i \in DOMAIN types :
       /\ histogram(types[i]) = types[i].count
       /\ Len(types[i].persistent_record_ids) = types[i].count

(* What the written model reports about itself is what the audit finds in  *)
(* it, the counters included, whichever artifacts were there; and every    *)
(* model game-def writes passes that audit, also where an artifact gives   *)
(* reasons the closed vocabulary does not have.                            *)
Reported(key) == Value(game_def.kids["_meta"].kids["field_counts"], key)
Found(certainty) ==
  IF certainty \in DOMAIN audit.certainty_counts
  THEN audit.certainty_counts[certainty] ELSE 0

ReportedCountsAreFound ==
  /\ audit # None => audit.ok
  /\ game_def # None =>
       /\ Reported("byte_direct") = Found("byte-direct")
       /\ Reported("undetermined") = Found("undetermined")
       /\ Reported("walkthrough") = Found("walkthrough")
       /\ Reported("total") = Found("byte-direct") + Found("undetermined")
                              + Found("walkthrough")

-----------------------------------------------------------------------------
(* The C++ engine over the same model: its triggers, its dispatcher. What  *)
(* only int() takes for a number is outside its grammar.                   *)
EngineTriggers ==
  LET ts == game_def.kids["triggers"].kids
      effect(e) == IF e # Uninterpreted /\ e.val \in PyIntVals THEN Uninterpreted ELSE e
  IN  [i \in DOMAIN ts |->
         [id |-> Value(ts[i], "trigger_id"),
          effect |-> effect(Value(ts[i], "effect_summary")),
          vars_written |-> [k \in DOMAIN Items(ts[i], "vars_written") |->
                              Items(ts[i], "vars_written")[k].value]]]

Engine == INSTANCE EngineDispatcher WITH Triggers <- EngineTriggers

EngineStep(state, step) ==
  LET location == Value(step, "location")
      refs == Items(ScenesOf(game_def)[location], "trigger_refs")
      triggers == Engine!Resolved([i \in DOMAIN refs |-> refs[i].value])
      applied == Cardinality(Engine!Interpreted(triggers))
  IN  IF location \notin DOMAIN ScenesOf(game_def) THEN state
      ELSE [vs |-> Engine!DispatchScene(Engine!EffectsOf(triggers), state.vs),
            listed |-> Engine!Listed(triggers, state.vs.values, state.listed),
            steps |-> state.steps + 1,
            triggers |-> state.triggers + Len(triggers),
            applied |-> state.applied + applied]

EngineReport ==
  FoldLeft(EngineStep, [vs |-> Engine!EmptyState, listed |-> Engine!NoValues,
                        steps |-> 0, triggers |-> 0, applied |-> 0],
           SubSeq(StepsOf(game_def), 1, walked))

Effects == LET ts == game_def.kids["triggers"].kids IN
           {Value(ts[i], "effect_summary") : i \in DOMAIN ts}
PythonOnly == \E e \in Effects \ {Uninterpreted} : e.val \in PyIntVals

(* The dispatchers agree: over the same model both report the same final   *)
(* variables and counts, unless an effect assigns what only int() takes for*)
(* a number; and the same timeline as long as every effect is interpreted. *)
PythonAgreesWithEngine ==
  phase = "walk" =>
    /\ report.steps_dispatched = EngineReport.steps
    /\ report.triggers_dispatched = EngineReport.triggers
    /\ report.effects_applied + report.effects_uninterpreted
         = report.triggers_dispatched
    /\ ~PythonOnly => /\ report.values = EngineReport.vs.values
                      /\ report.effects_applied = EngineReport.applied
    /\ ~PythonOnly /\ Uninterpreted \notin Effects =>
         report.listed = EngineReport.listed

(* The trace and the dispatcher tell one playthrough: the steps in the     *)
(* catalog are those dispatched, and every trigger shown in scope of such a*)
(* step is one its scene refers to.                                        *)
TraceMatchesDispatch ==
  LET inCatalog == SelectSeq(steps_out, LAMBDA s : s.status = "byte-direct-catalog")
      shown(s) == {Value(s.triggers_in_scope[i], "trigger_id") :
                     i \in DOMAIN s.triggers_in_scope}
      refs(s) == Items(ScenesOf(game_def)[s.location], "trigger_refs")
  IN
  phase = "walk" =>
    /\ Len(steps_out) = walked
    /\ Len(inCatalog) = report.steps_dispatched
    /\ \A i \in DOMAIN inCatalog :
         inCatalog[i].location # "" =>
           shown(inCatalog[i]) \subseteq
             {refs(inCatalog[i])[k].value : k \in DOMAIN refs(inCatalog[i])}
=============================================================================
