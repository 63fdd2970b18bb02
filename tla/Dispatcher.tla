----------------------------- MODULE Dispatcher -----------------------------
(***************************************************************************)
(* The headless dispatcher of cpp/include/runtime/dispatcher.h: how one    *)
(* trigger effect mutates a VariableState, what firing every trigger of a  *)
(* location leaves behind, and what a save file keeps of the state.        *)
(*                                                                         *)
(* An effect_summary string is abstracted to what apply_effect tells       *)
(* apart: an assignment of a grammar value to a variable, or a text outside*)
(* the closed grammar `set <var> = true | false | <int>'.                  *)
(***************************************************************************)
EXTENDS Integers, Sequences, FiniteSets, FiniteSetsExt

CONSTANTS
  Vars,           \* variable names an effect or a save file may mention
  IntVals,        \* integer literals, as the strings the state stores
  OtherVals,      \* strings only a hand-edited save file can hold
  Unset,          \* the variable is not in the map
  Uninterpreted   \* an effect_summary outside the closed grammar

GrammarVals == {"true", "false"} \cup IntVals
Vals == GrammarVals \cup OtherVals

ASSUME VarsAssumption == IsFiniteSet(Vars)
ASSUME ValuesAssumption ==
  /\ {"true", "false"} \cap IntVals = {}
  /\ OtherVals \cap GrammarVals = {}
  /\ Unset \notin Vals
ASSUME EffectAssumption ==
  Uninterpreted \notin [var : Vars, val : GrammarVals]

Effect == [var : Vars, val : GrammarVals] \cup {Uninterpreted}

-----------------------------------------------------------------------------
(* The variable state: the map and its four counters. *)

Kinds == {"set_true", "set_false", "set_int", "uninterpreted"}
Values == [Vars -> Vals \cup {Unset}]
VariableState == [values : Values, counts : [Kinds -> Nat]]

NoValues == [v \in Vars |-> Unset]
EmptyState == [values |-> NoValues, counts |-> [k \in Kinds |-> 0]]

(* The counter a stored value is tallied under. *)
KindOfValue(x) ==
  CASE x = "true"     -> "set_true"
    [] x = "false"    -> "set_false"
    [] x \in IntVals  -> "set_int"
    [] OTHER          -> "uninterpreted"

KindOfEffect(eff) ==
  IF eff = Uninterpreted THEN "uninterpreted" ELSE KindOfValue(eff.val)

(* Mutated form: an already set variable keeps its first value. *)
MutApplyKeepsFirst(eff, vs) ==
  [values |-> IF eff = Uninterpreted THEN vs.values
              ELSE [vs.values EXCEPT ![eff.var] =
                      IF @ = Unset THEN eff.val ELSE @],
   counts |-> [vs.counts EXCEPT ![KindOfEffect(eff)] = @ + 1]]

(* apply_effect: one string, one counter, at most one variable. *)
ApplyEffect(eff, vs) ==
  [values |-> IF eff = Uninterpreted THEN vs.values
              ELSE [vs.values EXCEPT ![eff.var] = eff.val],
   counts |-> [vs.counts EXCEPT ![KindOfEffect(eff)] = @ + 1]]

-----------------------------------------------------------------------------
(* What the loop of dispatch_scene computes, in closed form: each variable *)
(* takes the value of the last effect that names it, each counter grows by *)
(* the number of effects of its kind. DispatchLoop shows the two agree.    *)

Writes(effs, v) ==
  {i \in DOMAIN effs : effs[i] # Uninterpreted /\ effs[i].var = v}

DispatchValues(effs, values) ==
  [v \in Vars |-> IF Writes(effs, v) = {} THEN values[v]
                  ELSE effs[Max(Writes(effs, v))].val]

OfKind(effs, k) == {i \in DOMAIN effs : KindOfEffect(effs[i]) = k}

DispatchScene(effs, vs) ==
  [values |-> DispatchValues(effs, vs.values),
   counts |-> [k \in Kinds |-> vs.counts[k] + Cardinality(OfKind(effs, k))]]

-----------------------------------------------------------------------------
(* The save file: what save_state_json writes and load_state_json reads.   *)
(* The counters are written, but load recomputes them from the values.     *)

Snapshot == [values : Values, counters : [Kinds -> Nat]]

SaveText(vs) == [values |-> vs.values, counters |-> vs.counts]

VarsOfKind(values, k) ==
  {v \in Vars : values[v] # Unset /\ KindOfValue(values[v]) = k}

(* Mutated form: load reads the values and forgets to tally them. *)
MutLoadForgetsTally(file) ==
  [values |-> file.values, counts |-> [k \in Kinds |-> 0]]

LoadState(file) ==
  [values |-> file.values,
   counts |-> [k \in Kinds |-> Cardinality(VarsOfKind(file.values, k))]]

-----------------------------------------------------------------------------
(* load_scenes_by_location: the effects the triggers of a location stand   *)
(* for. A later trigger with the same id replaces an earlier one; an id no *)
(* trigger defines has the empty string, which is outside the grammar.     *)
EffectById(triggers, id) ==
  LET defs == {i \in DOMAIN triggers : triggers[i].id = id} IN
  IF defs = {} THEN Uninterpreted
  ELSE triggers[Max(defs)].effect

LoadSceneEffects(triggers, refs) ==
  [i \in DOMAIN refs |-> EffectById(triggers, refs[i])]
=============================================================================
