-------------------------- MODULE EngineDispatcher --------------------------
(***************************************************************************)
(* The dispatcher of the reference engine (cpp/src/engine/xfiles_engine.cpp*)
(* dispatch_playthrough): its lookup of triggers and its timeline. Its     *)
(* apply_effect is line for line the one of the playable shell, so the     *)
(* operators of Dispatcher stand for both.                                 *)
(***************************************************************************)
EXTENDS Dispatcher, SequencesExt

CONSTANT Triggers       \* the triggers list: id, effect, vars_written

ASSUME TriggersAssumption ==
  /\ Triggers \in Seq({Triggers[i] : i \in DOMAIN Triggers})
  /\ \A i \in DOMAIN Triggers : Triggers[i].effect \in Effect

(* trigger_by_id: the last trigger with an id; ids nobody defines are      *)
(* passed over.                                                            *)
Defined(id) == \E i \in DOMAIN Triggers : Triggers[i].id = id
TriggerById(id) ==
  Triggers[Max({i \in DOMAIN Triggers : Triggers[i].id = id})]

(* Mutated form: the first trigger with an id wins. *)
MutResolved(refs) ==
  LET ids == SelectSeq(refs, Defined) IN
  [i \in DOMAIN ids |-> SelectSeq(Triggers, LAMBDA t : t.id = ids[i])[1]]

Resolve(found, id) == IF Defined(id) THEN Append(found, TriggerById(id)) ELSE found
Resolved(refs) == FoldLeft(Resolve, <<>>, refs)

EffectsOf(triggers) == [i \in DOMAIN triggers |-> triggers[i].effect]

(* What a step adds to the timeline, by variable: after each trigger every *)
(* variable it declares to write that is in the map by then is listed with *)
(* its value, so the last entry of v comes from the last trigger that      *)
(* declares v while v is set.                                              *)
ValuesAfter(triggers, i, before) ==
  DispatchValues(EffectsOf(SubSeq(triggers, 1, i)), before)

(* Mutated form: only variables already in the map are listed. *)
MutListers(triggers, before, v) ==
  {i \in DOMAIN triggers : /\ Contains(triggers[i].vars_written, v)
                           /\ before[v] # Unset}

Listers(triggers, before, v) ==
  {i \in DOMAIN triggers : /\ Contains(triggers[i].vars_written, v)
                           /\ ValuesAfter(triggers, i, before)[v] # Unset}

(* The last value listed for each variable, Unset when there is none. *)
Listed(triggers, before, listed) ==
  [v \in Vars |->
     LET at == Listers(triggers, before, v) IN
     IF at = {} THEN listed[v] ELSE ValuesAfter(triggers, Max(at), before)[v]]

Interpreted(triggers) ==
  {i \in DOMAIN triggers : triggers[i].effect # Uninterpreted}
=============================================================================
