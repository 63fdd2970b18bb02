---------------------------- MODULE PyDispatcher -----------------------------
(***************************************************************************)
(* The two Python walks over a finished game_definition: the headless      *)
(* dispatcher (extractors/dispatcher.py), whose docstring promises the     *)
(* results of the C++ engine, and the playthrough trace (extractors/       *)
(* playthrough_trace.py). Both read the tree GameDefBuilder makes.         *)
(***************************************************************************)
EXTENDS GameDefBuilder

CONSTANTS
  Vars, IntVals, OtherVals, Unset, Uninterpreted,  \* as in Dispatcher
  PyIntVals,    \* literals only Python's int() takes: "+5", "1_000"
  TokenFits,    \* <<scope, location>>: as ScopeFits, but the apostrophes stay
  Mentions,     \* <<text, location>>: the text names the location's token
  MaxRecords, MaxLines      \* 6 conversations and 4 lines for a step

PyEffect == [var : Vars, val : {"true", "false"} \cup IntVals \cup PyIntVals]
            \cup {Uninterpreted}

ScenesOf(model) == model.kids["scenes"].kids
StepsOf(model) ==
  LET days == Items(model.kids["flow"], "days") IN
  FlattenSeq([d \in DOMAIN days |-> Items(days[d], "scenes")])

-----------------------------------------------------------------------------
(* dispatch_playthrough. The state: the variables, the counters, the last  *)
(* value the timeline lists for each variable.                             *)
NoReport ==
  [values |-> [v \in Vars |-> Unset], listed |-> [v \in Vars |-> Unset],
   steps_dispatched |-> 0, triggers_dispatched |-> 0, effects_applied |-> 0,
   effects_uninterpreted |-> 0]

ById(model) ==
  LastByKey(model.kids["triggers"].kids, LAMBDA t : Value(t, "trigger_id"))

(* Mutated form: an integer is not part of the grammar. *)
MutApplyPyEffect(effect, values) ==
  [ok |-> effect # Uninterpreted /\ effect.val \in {"true", "false"},
   values |-> IF effect # Uninterpreted /\ effect.val \in {"true", "false"}
              THEN [values EXCEPT ![effect.var] = effect.val] ELSE values]

(* apply_effect: what int() takes is stored as it is written. *)
ApplyPyEffect(effect, values) ==
  [ok |-> effect # Uninterpreted,
   values |-> IF effect = Uninterpreted THEN values
              ELSE [values EXCEPT ![effect.var] = effect.val]]

DispatchTrigger(report, t) ==
  LET applied == ApplyPyEffect(Value(t, "effect_summary"), report.values)
      written == {Items(t, "vars_written")[i].value : i \in DOMAIN Items(t, "vars_written")}
      isListed(v) == applied.ok /\ v \in written /\ applied.values[v] # Unset
  IN  [report EXCEPT
        !.triggers_dispatched = @ + 1,
        !.effects_applied = @ + (IF applied.ok THEN 1 ELSE 0),
        !.effects_uninterpreted = @ + (IF applied.ok THEN 0 ELSE 1),
        !.values = applied.values,
        !.listed = [v \in Vars |-> IF isListed(v) THEN applied.values[v] ELSE @[v]]]

(* One step: a location outside the catalog and an id nobody defines are   *)
(* passed over.                                                            *)
DispatchPyStep(model, report, step) ==
  LET location == Value(step, "location")
      byId == ById(model)
      refs == IF location \in DOMAIN ScenesOf(model)
              THEN Items(ScenesOf(model)[location], "trigger_refs") ELSE <<>>
      known == SelectSeq(refs, LAMBDA r : r.value \in DOMAIN byId)
  IN  IF location \notin DOMAIN ScenesOf(model) THEN report
      ELSE FoldLeft(DispatchTrigger, [report EXCEPT !.steps_dispatched = @ + 1],
                    [i \in DOMAIN known |-> byId[known[i].value]])

-----------------------------------------------------------------------------
(* build_playthrough_trace: one step. *)

(* Mutated form: the scope is not compared with the location. *)
MutTriggersForScope(model, location) ==
  SelectSeq(model.kids["triggers"].kids, LAMBDA t : Value(t, "scene_scope") # "")

TriggersForScope(model, location) ==
  LET inScope(t) == LET scope == Value(t, "scene_scope") IN
        scope # "" /\ (location = "" \/ <<scope, location>> \in TokenFits)
  IN  SelectSeq(model.kids["triggers"].kids, inScope)

(* The string slots that carry a text, in record order.                    *)
SpokenSlots(model) ==
  LET records == model.kids["conversations"].kids
      slots(r) == SelectSeq(<<"prompt", "response_1", "response_2">>,
                            LAMBDA f : Value(r.kids[f], "text") \notin {None, ""}
                                       /\ Value(r.kids[f], "string_id") # None)
      entries(r) == [i \in DOMAIN slots(r) |->
                       [record |-> Value(r, "record_offset"), slot |-> slots(r)[i],
                        text |-> Value(r.kids[slots(r)[i]], "text")]]
  IN  FlattenSeq([k \in DOMAIN records |-> entries(records[k])])

(* Those that mention the scene; when none does, the first few, flagged.   *)
ConversationsForScope(model, location) ==
  LET spoken == SpokenSlots(model)
      matched == IF location = "" THEN <<>>
                 ELSE SelectSeq(spoken, LAMBDA e : <<e.text, location>> \in Mentions)
  IN  IF matched # <<>>
      THEN [match |-> "text-substring", entries |-> FirstOf(matched, MaxRecords)]
      ELSE [match |-> "undetermined", entries |-> FirstOf(spoken, MaxRecords)]

SampleDialogues(model, location) ==
  LET lines == Items(model.kids["dialogues"], "lines")
      hits == {sid \in DOMAIN lines : <<lines[sid].value, location>> \in Mentions}
  IN  IF location = "" THEN 0 ELSE Min({Cardinality(hits), MaxLines})

TraceStep(model, step) ==
  LET location == Value(step, "location")
      in_catalog == location \in DOMAIN ScenesOf(model)
      machine == IF in_catalog
                 THEN Kid(ScenesOf(model)[location], "state_machine") ELSE Raw(None)
  IN  [location |-> location,
       status |-> IF in_catalog THEN "byte-direct-catalog" ELSE "walkthrough-only",
       phase_variable |-> Value(machine, "phase_variable"),
       phases |-> Len(Items(machine, "phase_machine")),
       triggers_in_scope |-> TriggersForScope(model, location),
       conversations_in_scope |-> ConversationsForScope(model, location),
       dialogue_lines_sample |-> SampleDialogues(model, location)]
=============================================================================
