---------------------------- MODULE MCPlayShell -----------------------------
(***************************************************************************)
(* A flow of four steps over three locations, one of which has no hotspot  *)
(* file, a scene only the command line can name, and two game variables    *)
(* that the places overwrite for each other.                               *)
(***************************************************************************)
EXTENDS PlayShell

MCLocations == {"office", "comity", "lab"}
MCScenes == {"s_logo", "s_office", "s_comity", "s_lab"}
MCHotScenes == {"s_office", "s_comity"}
MCHints ==
  << [scene |-> "s_lab",    location |-> "lab"],
     [scene |-> "s_logo",   location |-> "comity"],
     [scene |-> "s_comity", location |-> "comity"],
     [scene |-> "s_office", location |-> "office"],
     [scene |-> "s_comity", location |-> "office"] >>

MCFlow ==
  LoadFlowSteps(<<"lab", "office", NoLocation, "lab", "comity", "office">>)

Set(v, x) == [var |-> v, val |-> x]
MCTriggers ==
  << [id |-> 1, effect |-> Set("met", "false")],
     [id |-> 2, effect |-> Set("count", "7")],
     [id |-> 1, effect |-> Set("met", "true")],
     [id |-> 3, effect |-> Set("met", "false")] >>
MCRefs == [l \in MCLocations |->
             CASE l = "office" -> <<3, 1>>
               [] l = "comity" -> <<2, 3, 9>>
               [] l = "lab"    -> <<1, 2>>]
MCEffects == [l \in MCLocations |-> LoadSceneEffects(MCTriggers, MCRefs[l])]

MCRects ==
  [s \in MCScenes |->
     CASE s = "s_office" -> << [area |-> {"p", "q"}, action_id_1 |-> 1],
                               [area |-> {"q"}, action_id_1 |-> 2] >>
       [] s = "s_comity" -> << [area |-> {"q"}, action_id_1 |-> 3] >>
       [] OTHER -> <<>>]

MCFilm ==
  [s \in MCScenes |->
     CASE s = "s_logo"   -> [kind |-> "cvid", frames |-> <<"key", "inter">>,
                             ima |-> FALSE]
       [] s = "s_office" -> [kind |-> "cvid", frames |-> <<"key">>, ima |-> FALSE]
       [] OTHER -> [kind |-> "absent", frames |-> <<>>, ima |-> FALSE]]

(* For the runs about films: no effects; the comity has no film, and the *)
(* film of the lab, which --scene can name, starts damaged.                *)
MCNoEffects == [l \in MCLocations |-> <<>>]
MCDamagedFilm ==
  [MCFilm EXCEPT !["s_lab"] =
     [kind |-> "cvid", frames |-> <<"bad">>, ima |-> FALSE]]

(* For the run about the replay: every scene of the flow has a film.       *)
MCFilmEverywhere == [MCFilm EXCEPT !["s_comity"] = MCFilm["s_office"]]

(* For the runs about the walk: no films at all. *)
MCNoFilm ==
  [s \in MCScenes |-> [kind |-> "absent", frames |-> <<>>, ima |-> FALSE]]

MCStart == {"s_logo", "s_lab"}
MCFiles ==
  {NoFile,
   [values |-> [v \in Vars |-> IF v = "met" THEN "maybe" ELSE Unset],
    counters |-> [k \in Kinds |-> 0]]}
=============================================================================
