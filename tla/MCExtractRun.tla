---------------------------- MODULE MCExtractRun -----------------------------
(***************************************************************************)
(* Tables of a few rows: the field office is spelled twice, a third name   *)
(* has its slug and a fourth the slug of its storyboard; triggers are      *)
(* scoped by another spelling. A second                                    *)
(* set of tables lacks a scene and most files; others hold a field int()   *)
(* refuses, and one database has a short last page. Two runs, each of which*)
(* can be killed at any write.                                             *)
(***************************************************************************)
EXTENDS ExtractRun

Office == <<"Field", " ", "Office">>
office == <<"field", " ", "office">>
FieldOffice == <<"FIELD", "-", "Office">>
OfficeStoryboard == Office \o <<" ", "Storyboard">>
Base == <<"Secret", "_", "Base">>
MCLower == [Field |-> "field", FIELD |-> "field", Office |-> "office",
            Secret |-> "secret", Base |-> "base", Storyboard |-> "storyboard"]

Scene(path, n_xmv, cps) ==
  [scene_path |-> path, n_xmv |-> n_xmv, n_other |-> 1, n_hot_files |-> 0,
   ai_checkpoints |-> cps]
Trigger(id, scope, label) ==
  [trigger_id |-> id, scene_scope |-> scope, action_label |-> label,
   effect |-> "set", condition_hint |-> None]
Name(seq, listed, view, hints, nav) ==
  [seq |-> seq, listed |-> listed, view |-> view, hints |-> hints, take |-> None, nav |-> nav]
Asset(path, name, id, type) ==
  [scene_path |-> path, production_name |-> name, storage_dir |-> "XV", file_id |-> id,
   asset_type |-> type, size_bytes |-> NotANumber, duration_s |-> 1]

Assets ==
  <<Asset(Office, Name(2, TRUE, <<12, 1>>, {"day"}, FALSE), 1, "xmv"),
    Asset(Office, Name(2, TRUE, <<2, 1>>, {"boat", "no_boat"}, TRUE), 2, "dmv"),
    Asset(Office, Name(1, FALSE, None, {}, FALSE), 3, "xmv"),
    Asset(Office, Name(1, TRUE, None, {}, FALSE), 4, "xtx"),
    Asset(FieldOffice, Name(None, TRUE, <<3, 2>>, {"boat"}, FALSE), 5, "xmv"),
    Asset(Base, Name(None, FALSE, None, {}, FALSE), 6, "pff")>>
Hotspot(scene, idx, a1, a2) ==
  [scene_id |-> scene, hotspot_idx |-> idx, action_id_1 |-> a1, action_id_2 |-> a2]
CheckpointVar == <<<<"Field", "Office">>, "Talk">>

Tables ==
  [hotspots |-> <<Hotspot(1, 1, 7, 8), Hotspot(1, 2, 8, 8), Hotspot(2, 1, 0, 9)>>,
   actions |-> <<[action_id |-> 7], [action_id |-> 8], [action_id |-> 0]>>,
   triggers |-> <<Trigger(<<"t1">>, <<"Field", "Office">>, "Talk2"),
                  Trigger(<<"t2">>, <<"Secret", "Base">>, "Use")>>,
   variables |-> <<[name |-> CheckpointVar, type_prefix |-> "b", occurrences |-> 2]>>,
   semantics |-> <<[name |-> CheckpointVar, cpp_type |-> None, scope |-> None,
                    role_category |-> "AI", occurrences |-> NotANumber]>>,
   scenes |-> <<Scene(office, 1, <<>>), Scene(Office, 3, <<"Talk">>), Scene(Base, 0, <<>>),
                Scene(FieldOffice, 3, <<>>), Scene(OfficeStoryboard, 0, <<"Use">>)>>,
   conversations |-> <<[conversation_id |-> 1]>>,
   emails |-> None, endings |-> <<[ending |-> 1]>>, assets |-> Assets]

Missing == [table \in DOMAIN Tables |-> None]
OneScene == [Missing EXCEPT !.scenes = <<Scene(office, 1, <<>>)>>, !.triggers = Tables.triggers,
                            !.assets = <<[Assets[1] EXCEPT !.scene_path = office]>>]
BadHotspot == [Tables EXCEPT !.hotspots[2].action_id_1 = NotANumber]
BadAsset == [Tables EXCEPT !.assets[3].file_id = NotANumber]

Hdb(records, short) ==
  [records |-> records, neoidlist |-> Len(records), paths |-> 2, page_too_many |-> short,
   decoded |-> <<[class_name |-> "VCScene", fields |-> <<1, 2>>],
                 [class_name |-> "CNeoFloat", fields |-> <<1>>]>>]
Found(records, base, scripts, short) ==
  [hdb |-> Hdb(records, short), base |-> base, xt |-> scripts]
Xt == <<[file_id |-> 63300, text |-> "diary"], [file_id |-> NotANumber, text |-> "other"],
        [file_id |-> 12, text |-> "news"]>>

MCInputs ==
  {Found(<<49, 50>>, Tables, Xt, FALSE), Found(<<49>>, OneScene, None, FALSE),
   Found(<<>>, Tables, None, TRUE), Found(<<50>>, BadHotspot, None, FALSE),
   Found(<<50>>, BadAsset, None, FALSE)}
=============================================================================
