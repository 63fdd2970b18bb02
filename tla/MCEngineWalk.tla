---------------------------- MODULE MCEngineWalk ----------------------------
(***************************************************************************)
(* Every shape of phase machine the catalog can have: several phases, one  *)
(* phase, checkpoints without phases, no checkpoints, a list that repeats a*)
(* checkpoint; and a location only the walkthrough mentions. Triggers that *)
(* overwrite each other within a step and across steps, a repeated id, an  *)
(* id nobody defines, an effect outside the grammar, and triggers that     *)
(* declare more variables than they set.                                   *)
(***************************************************************************)
EXTENDS EngineWalk

Trigger(id, v, x, also) ==
  [id |-> id, effect |-> [var |-> v, val |-> x], vars_written |-> <<v>> \o also]

MCTriggers ==
  << Trigger("T1", "met", "true", <<>>),
     Trigger("T2", "met", "false", <<"phase">>),
     Trigger("T3", "phase", "4", <<"met">>),
     [id |-> "T4", effect |-> Uninterpreted, vars_written |-> <<"met">>],
     Trigger("T1", "phase", "true", <<>>) >>

Machine(phases, checkpoints, refs) ==
  [phases |-> phases, checkpoints |-> checkpoints, refs |-> refs]

MCPlaces == {"office", "comity", "rauch", "link", "twice", "broken", "wong"}
MCCatalog == MCPlaces \ {"wong"}
MCScene ==
  [l \in MCCatalog |->
     CASE l = "office" -> Machine(2, <<"found", "filed">>, <<"T2", "T1">>)
       [] l = "comity" -> Machine(1, <<"laptop">>, <<"T1", "T3", "T4">>)
       [] l = "rauch"  -> Machine(0, <<"attic", "cellar">>, <<"T3", "T2", "T3">>)
       [] l = "link"   -> Machine(3, <<>>, <<>>)
       [] l = "twice"  -> Machine(2, <<"a", "b", "a">>, <<"T1">>)
       [] l = "broken" -> Machine(2, <<"a">>, <<"T2", "T9">>)]
=============================================================================
