---------------------------- MODULE MCGameExport ----------------------------
(***************************************************************************)
(* Numbers that are a dialogue id, an index id and an offset in every      *)
(* combination the slots tell apart; two conversation records and a        *)
(* container; artifacts with repeated locations, ids and scopes, a step    *)
(* outside the catalog and one without a location, an apostrophe; and no   *)
(* artifacts at all.                                                       *)
(***************************************************************************)
EXTENDS GameExport

\* 1 is a line, 2 an empty line and an id, 3 beyond the last id looked up.
MCDll == [i \in {1, 2, 3} |-> IF i = 2 THEN "" ELSE IF i = 1 THEN "hello" ELSE "late"]
\* 5 and 6 lead to markers, 7 to bytes that are none.
MCIndexedAt == [i \in {2, 5, 6, 7} |->
                  CASE i = 2 -> 320 [] i = 5 -> 64 [] i = 6 -> 320 [] i = 7 -> 72]
MCClassAt == [o \in {64, 128, 320} |-> IF o = 320 THEN 80 ELSE 49]
MCClass31 == <<64, 128>>

MCPayloads ==
  {<<>>, <<2, 9, 6>>, <<6, 9, 128>>, <<7, 9, 2>>,
   <<1, 64, 5, 1, 3>>, <<1, 64, 128, 6, 3>>,
   <<5, 6, 1, 64, 7, 320, 9>>, <<5, 6, 1, 64, 3, 128, 9>>}
MCListPayloads == {<< <<5, 1>>, <<9, 6>> >>, << <<7, 1>>, <<9, 320>> >>}

Action(rid, opcode, size, runs) ==
  [rid |-> rid, opcode |-> opcode, flags |-> size % 2, arg_size |-> size,
   args |-> <<opcode, size>>, ascii_runs |-> runs]
MCActionRecords ==
  {Short, Action(1, 4, 0, <<>>), Action(1, 4, 3, <<"a", "b">>)}

Trigger(id, scope, effect, written) ==
  [trigger_id |-> id, scene_scope |-> scope, action_label |-> "act", effect |-> effect,
   condition_hint |-> "", vars_written |-> written]
Sets(v, x) == [var |-> v, val |-> x]

Triggers1 ==
  << Trigger("met", "Office", Sets("met", "true"), <<"met">>),
     Trigger("grow", "Yard", Sets("seen", "4"), <<"seen", "met">>),
     Trigger("met", "", Sets("met", "false"), <<"met">>),
     Trigger("seen", "Office", Sets("seen", "true"), <<"met">>),
     Trigger("note", "Office", Uninterpreted, <<"seen">>) >>
Triggers3 == SelectSeq(Triggers1, LAMBDA t : t.effect # Uninterpreted)
Triggers2 == Append(Triggers1, Trigger("odd", "Yard", Sets("seen", "+5"), <<"seen">>))

Scene(location, phases, checkpoints) ==
  [location |-> location, views |-> None, clips_xmv |-> 2, video_seconds |-> None,
   phase_variable |-> IF phases = None THEN None ELSE "phase",
   phase_machine |-> phases, checkpoints |-> checkpoints, state_variables |-> <<"v">>,
   n_triggers |-> None]
Scenes1 == << Scene("Office", <<"P", "A">>, <<"found">>), Scene("Cook's Yard", None, <<>>),
              Scene("Office", None, <<"filed">>) >>

NoMechanics == [views |-> None, clips |-> None, phase_machine |-> None,
                checkpoints |-> None, state_variables |-> None]
Step(n, location, mechanics) ==
  [step |-> n, location |-> location, actions |-> "go", items |-> <<"gun">>,
   puzzles_codes |-> <<>>, mechanics |-> mechanics]
Flow1 ==
  [story |-> "told", login |-> [user |-> "u"], total_steps |-> 5,
   days |-> << [day |-> "April 2",
                scenes |-> << Step(1, "Office", NoMechanics),
                              Step(2, "Cook's Yard",
                                   [NoMechanics EXCEPT !.phase_machine = <<"X">>]),
                              Step(3, "Wharf", NoMechanics) >>],
               [day |-> "April 3", scenes |-> << Step(4, "", NoMechanics),
                                                 Step(5, "Office", NoMechanics) >>] >>]
Flow2 == [Flow1 EXCEPT !.story = None, !.login = None]

NoArtifacts ==
  [all_scenes |-> None, triggers_full |-> None, flow |-> None, state_vars |-> None,
   defaults |-> None, constants |-> None, var_docs |-> None, dialogue_lines |-> None,
   relation_rows |-> None]
AllArtifacts ==
  [all_scenes |-> Scenes1, triggers_full |-> Triggers1, flow |-> Flow1,
   state_vars |-> ("(global)" :> <<[name |-> "met", type |-> "bool"]>>
                   @@ "Title" :> <<[name |-> "seen", type |-> None]>>),
   defaults |-> [met |-> 0],
   constants |-> <<[name |-> "K", value |-> 1, ascii |-> None, family |-> "font"],
                   [name |-> "K", value |-> 2, ascii |-> "k", family |-> "phone"]>>,
   var_docs |-> [documented_variables |-> [met |-> "doc"],
                 enum_legends |-> [met |-> [A |-> "ask", Y |-> "yes"]]],
   dialogue_lines |-> [count |-> 2, lines |-> [i \in {1, 3} |-> MCDll[i]]],
   relation_rows |-> <<0, 4>>]
MCArtifacts ==
  {NoArtifacts, AllArtifacts, [AllArtifacts EXCEPT !.triggers_full = Triggers2],
   [AllArtifacts EXCEPT !.triggers_full = Triggers3],
   [AllArtifacts EXCEPT !.all_scenes = None, !.flow = Flow2]}

Sibling(state) == [state |-> state, strings |-> [i \in {1, 2} |-> "line"]]
MCDlls == {[XFilese |-> Sibling(e), XFiless |-> Sibling("missing"), XFilesc |-> Sibling("read")] :
             e \in {"unreadable"}}

MCScopeFits == {<<"Office", "Office">>, <<"Yard", "Cook's Yard">>, <<"Cooks", "Cook's Yard">>}
MCTokenFits == {<<"Office", "Office">>, <<"Yard", "Cook's Yard">>}
MCMentions == {<<"hello", "Office">>}
=============================================================================
