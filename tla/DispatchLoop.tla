---------------------------- MODULE DispatchLoop ----------------------------
(***************************************************************************)
(* The loop of dispatch_scene (cpp/include/runtime/dispatcher.h), one      *)
(* iteration per step, over every list of effects a location can have. The *)
(* list is revealed as the loop consumes it: `fired' is the part of the    *)
(* location's trigger list the loop has gone through.                      *)
(***************************************************************************)
EXTENDS Dispatcher

CONSTANTS
  Starts,         \* the variable states a scene can be entered with
  MaxEffects      \* bound on the length of a location's trigger list

ASSUME LoopAssumption ==
  /\ Starts \subseteq VariableState
  /\ MaxEffects \in Nat

VARIABLES
  start,          \* the state on entry to dispatch_scene
  fired,          \* the effects applied so far
  loop_vs,        \* vs: the VariableState the loop mutates in place
  muts            \* the (name, new value) list the call returns

loop_vars == <<start, fired, loop_vs, muts>>

Mutation == Vars \X Vals

LoopInit ==
  /\ start \in Starts
  /\ fired = <<>>
  /\ loop_vs = start
  /\ muts = <<>>

(* Mutated form: the mutation list keeps one entry per variable, the first. *)
MutFireListsOnce(eff) ==
  /\ Len(fired) < MaxEffects
  /\ fired' = Append(fired, eff)
  /\ loop_vs' = ApplyEffect(eff, loop_vs)
  /\ muts' = IF \/ eff = Uninterpreted
                \/ \E i \in DOMAIN muts : muts[i][1] = eff.var
             THEN muts
             ELSE Append(muts, <<eff.var, loop_vs'.values[eff.var]>>)
  /\ UNCHANGED start

(* An iteration that matches the grammar also appends the variable and the *)
(* value the map holds for it after the effect was applied.                *)
Fire(eff) ==
  /\ Len(fired) < MaxEffects
  /\ fired' = Append(fired, eff)
  /\ loop_vs' = ApplyEffect(eff, loop_vs)
  /\ muts' = IF eff = Uninterpreted THEN muts
             ELSE Append(muts, <<eff.var, loop_vs'.values[eff.var]>>)
  /\ UNCHANGED start

LoopNext == \E eff \in Effect : Fire(eff)

LoopSpec == LoopInit /\ [][LoopNext]_loop_vars

-----------------------------------------------------------------------------
(* Types of the loop's variables. *)
LoopTypeOK ==
  /\ start \in VariableState
  /\ fired \in Seq(Effect)
  /\ loop_vs \in VariableState
  /\ muts \in Seq(Mutation)

(* Whatever the list, the state the loop has built is the closed form      *)
(* applied to the state it started from: overwritten variables keep the    *)
(* last value, no effect is counted twice or dropped.                      *)
LoopComputesDispatch == loop_vs = DispatchScene(fired, start)

(* The returned list accounts for the whole change: replaying it over the  *)
(* values on entry, last entry per variable winning, gives the values on   *)
(* exit. This is what the shell prints on entering a location.             *)
MutationsExplainValues ==
  \A v \in Vars :
    LET named == {i \in DOMAIN muts : muts[i][1] = v} IN
    IF named = {} THEN loop_vs.values[v] = start.values[v]
    ELSE \E i \in named : /\ \A j \in named : j <= i
                          /\ muts[i][2] = loop_vs.values[v]
=============================================================================
