------------------------------- MODULE Scenes -------------------------------
(***************************************************************************)
(* Scenes are named by their asset id: scene <id> has a film <id>.xmv and a*)
(* hotspot file <id>.HOT in the asset directory, when they are there.      *)
(***************************************************************************)
CONSTANTS
  SceneIds,       \* asset ids
  NoScene         \* no scene: std::nullopt

ASSUME NoSceneAssumption == NoScene \notin SceneIds
=============================================================================
