---------------------------- MODULE SceneAssets -----------------------------
(***************************************************************************)
(* The location -> scene mapping of cpp/src/runtime/scene_resolver.cpp. A  *)
(* location is enterable when some scene labelled with it has a hotspot    *)
(* file next to it ("byte-direct").                                        *)
(***************************************************************************)
EXTENDS Scenes, Integers, Sequences, FiniteSetsExt

CONSTANTS
  Locations,      \* location names
  NoLocation,     \* the empty string
  HotScenes       \* the scenes whose <id>.HOT exists in the asset directory

ASSUME SceneAssumption ==
  /\ NoLocation \notin Locations
  /\ HotScenes \subseteq SceneIds

(* One entry of scene_asset_map.json, in file order. *)
Hint == [scene : SceneIds, location : Locations \cup {NoLocation}]

(* A SceneMatch; NoMatch stands for a location that is not in the table. *)
Match == [scene : SceneIds, certainty : {"byte_direct", "undetermined"}]
NoMatch == [scene |-> NoScene, certainty |-> "none"]
Table == [Locations -> Match \cup {NoMatch}]

MatchOf(hint) ==
  [scene |-> hint.scene,
   certainty |-> IF hint.scene \in HotScenes THEN "byte_direct"
                 ELSE "undetermined"]

(* Mutated forms of the loop body: the last hint of a location wins; the   *)
(* first one wins, byte-direct or not.                                     *)
MutRecordLastWins(hint, table) ==
  IF hint.location = NoLocation THEN table
  ELSE [table EXCEPT ![hint.location] = MatchOf(hint)]

MutRecordFirstWins(hint, table) ==
  IF hint.location = NoLocation \/ table[hint.location] # NoMatch THEN table
  ELSE [table EXCEPT ![hint.location] = MatchOf(hint)]

(* The body of the loop of from_hints: the first hint of a location is     *)
(* kept, and a byte-direct hint replaces a kept undetermined one.          *)
Improves(new, old) ==
  \/ old = NoMatch
  \/ old.certainty = "undetermined" /\ new.certainty = "byte_direct"

RecordHint(hint, table) ==
  IF /\ hint.location # NoLocation
     /\ Improves(MatchOf(hint), table[hint.location])
  THEN [table EXCEPT ![hint.location] = MatchOf(hint)]
  ELSE table

(* scene_for: only a byte-direct match is a scene to enter. *)
SceneOf(match) == IF match.certainty = "byte_direct" THEN match.scene ELSE NoScene

-----------------------------------------------------------------------------
(* What the loop leaves in the table, in closed form: the first byte-direct*)
(* hint of the location, or else its first hint. ResolverLoop shows the    *)
(* two agree.                                                              *)

Candidates(hints, l) == {i \in DOMAIN hints : hints[i].location = l}
ByteDirect(hints, l) == {i \in Candidates(hints, l) : hints[i].scene \in HotScenes}

MatchFor(hints, l) ==
  CASE ByteDirect(hints, l) # {} -> MatchOf(hints[Min(ByteDirect(hints, l))])
    [] ByteDirect(hints, l) = {} /\ Candidates(hints, l) # {} ->
         MatchOf(hints[Min(Candidates(hints, l))])
    [] OTHER -> NoMatch

SceneFor(hints, l) == SceneOf(MatchFor(hints, l))
=============================================================================
