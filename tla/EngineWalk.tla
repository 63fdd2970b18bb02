----------------------------- MODULE EngineWalk -----------------------------
(***************************************************************************)
(* xfiles_engine (cpp/src/engine/xfiles_engine.cpp) goes over the scripted *)
(* playthrough twice: --validate-flow checks each step and simulates the   *)
(* phase machine of its location, --dispatch applies the triggers of each  *)
(* step to one variable state. The passes read the same steps and share    *)
(* nothing they write, so one action here takes both over one step; the    *)
(* flow is revealed as it is walked. The dispatcher of the playable shell  *)
(* is walked along, so that the two programs can be compared.              *)
(***************************************************************************)
EXTENDS EngineDispatcher

-----------------------------------------------------------------------------
(***************************************************************************)
(* simulate_step of cpp/src/engine/xfiles_engine.cpp: one pass through a   *)
(* location fires one checkpoint of its declared phase machine, in a       *)
(* round-robin over the list. A machine is described by the length of its  *)
(* phase list and by its list of checkpoints.                              *)
(***************************************************************************)
(* StateMachineSim::Loc of a location nothing has passed yet. *)
NewLoc == [phase_index |-> 0, fired |-> {}, advanced_any |-> FALSE]

(* The fired set once the next checkpoint of the round is added to it. *)
FiredNext(sc, loc) ==
  loc.fired \cup
    {sc.checkpoints[(Cardinality(loc.fired) % Len(sc.checkpoints)) + 1]}

AllFired(sc, loc) == Cardinality(FiredNext(sc, loc)) >= Len(sc.checkpoints)

AtLastPhase(sc, loc) == loc.phase_index + 1 = sc.phases

(* A pass ends a round when it fires the last checkpoint of a machine that *)
(* has phases.                                                             *)
RoundEnds(sc, loc) ==
  sc.checkpoints # <<>> /\ AllFired(sc, loc) /\ sc.phases > 0

(* Mutated form: the checkpoints are not reset for the next phase. *)
MutSimulated(sc, loc) ==
  CASE sc.checkpoints = <<>> -> loc
    [] sc.checkpoints # <<>> /\ ~RoundEnds(sc, loc) ->
         [loc EXCEPT !.fired = FiredNext(sc, loc)]
    [] OTHER ->
         [phase_index |-> loc.phase_index + IF AtLastPhase(sc, loc) THEN 0 ELSE 1,
          fired |-> FiredNext(sc, loc), advanced_any |-> TRUE]

(* The location after one pass. *)
Simulated(sc, loc) ==
  CASE sc.checkpoints = <<>> -> loc
    [] sc.checkpoints # <<>> /\ ~RoundEnds(sc, loc) ->
         [loc EXCEPT !.fired = FiredNext(sc, loc)]
    [] OTHER ->
         IF AtLastPhase(sc, loc)
         THEN [loc EXCEPT !.fired = FiredNext(sc, loc), !.advanced_any = TRUE]
         ELSE [phase_index |-> loc.phase_index + 1, fired |-> {},
               advanced_any |-> TRUE]

Completes(sc, loc) == RoundEnds(sc, loc) /\ AtLastPhase(sc, loc)

(* Mutated form: every completion is counted as an advance too. *)
MutAdvances(sc, loc) == RoundEnds(sc, loc)

(* A completion counts as an advance when the location never advanced. *)
Advances(sc, loc) ==
  RoundEnds(sc, loc) /\ (AtLastPhase(sc, loc) => ~loc.advanced_any)

-----------------------------------------------------------------------------
CONSTANTS
  Places,         \* the locations a flow step may name
  Catalog,        \* those with an entry in scenes{}
  Scene,          \* Scene[l]: phases, checkpoints and refs of the entry
  MaxSteps        \* bound on the length of the flow

Checkpoint == UNION {{Scene[l].checkpoints[i] : i \in DOMAIN Scene[l].checkpoints}
                     : l \in Catalog}

ASSUME CatalogAssumption ==
  /\ Catalog \subseteq Places /\ IsFiniteSet(Catalog)
  /\ MaxSteps \in Nat
  /\ \A l \in Catalog : LET refs == Scene[l].refs IN
       /\ Scene[l].phases \in Nat
       /\ Scene[l].checkpoints \in Seq(Checkpoint)
       /\ refs \in Seq({refs[i] : i \in DOMAIN refs})

VARIABLES
  walked,            \* steps walked so far
  by_location,       \* StateMachineSim::Loc of every location
  total_advances,
  total_completions,
  tally,
  steps_dispatched, triggers_dispatched, effects_applied, effects_uninterpreted,
  vs,                \* the engine's VariableState
  listed,            \* the last value the timeline lists for each variable
  passes,            \* history: steps that passed, by location
  shell              \* history: what the shell's dispatcher makes of the walk

simulation == <<by_location, total_advances, total_completions, passes>>
report == <<steps_dispatched, triggers_dispatched, effects_applied,
            effects_uninterpreted, vs, listed, shell>>
vars == <<walked, simulation, tally, report>>

Init ==
  /\ walked = 0
  /\ by_location = [l \in Catalog |-> NewLoc]
  /\ total_advances = 0 /\ total_completions = 0
  /\ tally = [pass |-> 0, walkthrough_only |-> 0, fail |-> 0]
  /\ passes = [l \in Catalog |-> 0]
  /\ steps_dispatched = 0 /\ triggers_dispatched = 0
  /\ effects_applied = 0 /\ effects_uninterpreted = 0
  /\ vs = EmptyState /\ shell = EmptyState
  /\ listed = NoValues

-----------------------------------------------------------------------------
(* validate_scripted_flow: the status of one step. *)
TriggersOk(l) == \A i \in DOMAIN Scene[l].refs : Defined(Scene[l].refs[i])

Increment(n, b) == IF b THEN n + 1 ELSE n

StepFails(l, action_count) ==
  /\ action_count = 0 \/ (l \in Catalog /\ ~TriggersOk(l))
  /\ tally' = [tally EXCEPT !.fail = @ + 1]
  /\ UNCHANGED simulation

StepIsWalkthroughOnly(l, action_count) ==
  /\ action_count > 0 /\ l \notin Catalog
  /\ tally' = [tally EXCEPT !.walkthrough_only = @ + 1]
  /\ UNCHANGED simulation

StepPasses(l, action_count) ==
  /\ action_count > 0 /\ l \in Catalog /\ TriggersOk(l)
  /\ tally' = [tally EXCEPT !.pass = @ + 1]
  /\ by_location' = [by_location EXCEPT ![l] = Simulated(Scene[l], @)]
  /\ total_advances' =
       Increment(total_advances, Advances(Scene[l], by_location[l]))
  /\ total_completions' =
       Increment(total_completions, Completes(Scene[l], by_location[l]))
  /\ passes' = [passes EXCEPT ![l] = @ + 1]

ValidateStep(l, action_count) ==
  \/ StepFails(l, action_count)
  \/ StepIsWalkthroughOnly(l, action_count)
  \/ StepPasses(l, action_count)

-----------------------------------------------------------------------------
(* dispatch_playthrough: one step. A location without a scenes{} entry is  *)
(* passed over.                                                            *)
DispatchStep(l) ==
  LET triggers == Resolved(Scene[l].refs)
      applied == Cardinality(Interpreted(triggers))
  IN
  IF l \notin Catalog THEN UNCHANGED report
  ELSE
    /\ steps_dispatched' = steps_dispatched + 1
    /\ triggers_dispatched' = triggers_dispatched + Len(triggers)
    /\ effects_applied' = effects_applied + applied
    /\ effects_uninterpreted' = effects_uninterpreted + Len(triggers) - applied
    /\ vs' = DispatchScene(EffectsOf(triggers), vs)
    /\ listed' = Listed(triggers, vs.values, listed)
    /\ shell' = DispatchScene(LoadSceneEffects(Triggers, Scene[l].refs), shell)

Next ==
  \E l \in Places, action_count \in 0 .. 1 :
    /\ walked < MaxSteps
    /\ walked' = walked + 1
    /\ ValidateStep(l, action_count)
    /\ DispatchStep(l)

Spec == Init /\ [][Next]_vars

-----------------------------------------------------------------------------
Smaller(i, j) == IF i <= j THEN i ELSE j
Larger(i, j) == IF i <= j THEN j ELSE i
Prefix(seq, n) == {seq[i] : i \in 1 .. Smaller(n, Len(seq))}
Distinct(seq) == \A i, j \in DOMAIN seq : seq[i] = seq[j] => i = j

(* Where the round-robin stands depends only on how often a location was   *)
(* passed: each phase takes one pass per checkpoint, fired in declared     *)
(* order, and the last phase is never left. A list that names a checkpoint *)
(* twice never finishes its first phase.                                   *)
SimulationClosedForm ==
  \A l \in Catalog :
    LET cps == Scene[l].checkpoints
        loc == by_location[l]
        last == Larger(Scene[l].phases - 1, 0)
    IN  CASE cps = <<>> -> loc = NewLoc
          [] cps # <<>> /\ Distinct(cps) ->
               /\ loc.phase_index = Smaller(passes[l] \div Len(cps), last)
               /\ loc.fired = Prefix(cps, passes[l] - Len(cps) * loc.phase_index)
          [] OTHER -> loc.phase_index = 0

(* The totals of the report agree with the locations: every advance moved a*)
(* phase, except the one a single-phase machine is granted on completion,  *)
(* and a completion is counted by the pass that fires the last checkpoint  *)
(* of the last phase and by every pass after it. (The comments of the code *)
(* say a machine is complete once, and when it reaches its last phase.)    *)
Rounds(l) == Scene[l].phases * Len(Scene[l].checkpoints)
Completions(l) ==
  IF Rounds(l) > 0 /\ Distinct(Scene[l].checkpoints)
  THEN Larger(passes[l] - Rounds(l) + 1, 0) ELSE 0

TotalsAccount ==
  /\ total_advances =
       SumFunction([l \in Catalog |-> by_location[l].phase_index])
       + Cardinality({l \in Catalog : by_location[l].advanced_any
                                      /\ by_location[l].phase_index = 0})
  /\ total_completions = SumFunction([l \in Catalog |-> Completions(l)])

(* The engine's report and the shell's exit summary tell one story: after  *)
(* the same walk every variable has the same value and every kind of       *)
(* mutation the same count, although a repeated trigger id and an id nobody*)
(* defines are looked up by different code. Only the tally of what was not *)
(* interpreted differs: the shell counts undefined ids there.              *)
EngineAgreesWithShell ==
  /\ vs.values = shell.values
  /\ \A k \in Kinds \ {"uninterpreted"} : vs.counts[k] = shell.counts[k]
  /\ vs.counts["uninterpreted"] <= shell.counts["uninterpreted"]

(* The timeline explains the final state: the last mutation listed for a   *)
(* variable is its value, and a variable without one was never set, when   *)
(* the triggers declare what they write.                                   *)
TimelineExplainsValues == listed = vs.values
=============================================================================
