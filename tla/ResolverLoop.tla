---------------------------- MODULE ResolverLoop ----------------------------
(***************************************************************************)
(* The loop of SceneResolver::from_hints, one entry of the scene map per   *)
(* step, over every list of entries: `seen' is the part of the list the    *)
(* loop has gone through.                                                  *)
(***************************************************************************)
EXTENDS SceneAssets

CONSTANT MaxHints       \* bound on the length of the scene map

ASSUME MaxHintsAssumption == MaxHints \in Nat

VARIABLES seen, by_location

resolver_vars == <<seen, by_location>>

ResolverInit ==
  /\ seen = <<>>
  /\ by_location = [l \in Locations |-> NoMatch]

ReadHint(hint) ==
  /\ Len(seen) < MaxHints
  /\ seen' = Append(seen, hint)
  /\ by_location' = RecordHint(hint, by_location)

ResolverNext == \E hint \in Hint : ReadHint(hint)

ResolverSpec == ResolverInit /\ [][ResolverNext]_resolver_vars

-----------------------------------------------------------------------------
(* Types of the loop's variables. *)
ResolverTypeOK ==
  /\ seen \in Seq(Hint)
  /\ by_location \in Table

(* The table holds the first byte-direct hint of each location, or else    *)
(* its first hint: the two-rule update of the loop keeps exactly that.     *)
TableIsFirstByteDirect ==
  \A l \in Locations : by_location[l] = MatchFor(seen, l)

(* A location that has become enterable stays mapped to the same scene     *)
(* however the map is extended: appending entries to scene_asset_map.json  *)
(* never moves a location that already resolves.                           *)
ResolvedSceneIsStable ==
  [][\A l \in Locations :
       SceneOf(by_location[l]) # NoScene => by_location'[l] = by_location[l]]_resolver_vars
=============================================================================
