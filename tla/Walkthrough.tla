---------------------------- MODULE Walkthrough -----------------------------
(***************************************************************************)
(* What the playable shell promises, without keys, films or counters: a    *)
(* walk along the canonical flow that stops only at locations with a       *)
(* scene, a world changed only by the triggers of the places entered, and  *)
(* one save slot that is restored whole or not at all.                     *)
(***************************************************************************)
EXTENDS Dispatcher

CONSTANTS
  Locations,      \* location names
  NoLocation,     \* nowhere on the map
  Flow,           \* the canonical flow: locations in story order
  Enterable,      \* the locations that have a scene
  Effects,        \* Effects[l]: the effects fired on entering l
  FirstFiles,     \* what the save slot may hold beforehand
  NoSave          \* the slot holds nothing that can be restored

VARIABLES
  at,             \* index in Flow of the stop the walk is at, or -1
  place,          \* the location entered last
  world,          \* the game variables
  slot            \* the save slot

walk == <<at, place, world, slot>>

Steps == 0 .. Len(Flow) - 1
LocationOf(i) == Flow[i + 1]
Stops == {i \in Steps : LocationOf(i) \in Enterable}

(* The steps strictly between two steps of the flow. *)
Between(i, j) == {k \in Steps : (i < k /\ k < j) \/ (j < k /\ k < i)}

(* The next stop in either direction; or the same stop again, when there   *)
(* is a step beside it without a scene to turn back from.                  *)
Reachable(i) ==
  {j \in Stops : /\ Between(i, j) \cap Stops = {}
                 /\ j = i => ({i - 1, i + 1} \cap Steps) \ Stops # {}}

(* The first step at a location, or -1. *)
FirstStepAt(l) ==
  IF \E i \in Steps : LocationOf(i) = l
  THEN Min({i \in Steps : LocationOf(i) = l})
  ELSE -1

Entered(l, values) ==
  IF l = NoLocation THEN values ELSE DispatchValues(Effects[l], values)

Init ==
  /\ at = -1
  /\ place = NoLocation
  /\ world = NoValues
  /\ slot \in FirstFiles

(* A session starts at an enterable location or nowhere, in a fresh world. *)
Begin ==
  \E l \in Enterable \cup {NoLocation} :
    /\ at' = FirstStepAt(l)
    /\ place' = l
    /\ world' = Entered(l, NoValues)
    /\ UNCHANGED slot

Travel ==
  \E j \in Reachable(at) :
    /\ at # -1
    /\ at' = j
    /\ place' = LocationOf(j)
    /\ world' = Entered(place', world)
    /\ UNCHANGED slot

Save ==
  /\ slot' = world
  /\ UNCHANGED <<at, place, world>>

(* Writing the slot fails and leaves nothing to restore. *)
SpoilSave ==
  /\ slot' = NoSave
  /\ UNCHANGED <<at, place, world>>

Restore ==
  /\ slot # NoSave
  /\ world' = slot
  /\ UNCHANGED <<at, place, slot>>

Next == Begin \/ Travel \/ Save \/ SpoilSave \/ Restore

Spec == Init /\ [][Next]_walk
=============================================================================
