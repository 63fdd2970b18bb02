----------------------------- MODULE PlayShell ------------------------------
(***************************************************************************)
(* xfiles_play, the playable shell (cpp/src/runtime/sdl2_main.cpp): one    *)
(* process that polls keys and clicks, walks the canonical flow, reloads   *)
(* film and hotspots on the way, fires each location's triggers on entry,  *)
(* and saves and restores the variables in one JSON file. The process may  *)
(* be killed at any point; the save file survives it.                      *)
(*                                                                         *)
(* One action is one event handler, run to its end by the single thread,   *)
(* except that the process can die, or the disk fill up, while the save    *)
(* file is being written.                                                  *)
(***************************************************************************)
EXTENDS Dispatcher, SceneAssets, FmvPlayer

CONSTANTS
  Flow,           \* the flow steps load_flow_steps returned
  Hints,          \* the entries of scene_asset_map.json
  Effects,        \* Effects[l]: the effects the dispatcher holds for l
  Rects,          \* Rects[s]: the hotspots load_hot_file returns for s
  Points,         \* pointer positions
  StartScenes,    \* the scenes --scene may name
  FirstFiles,     \* what the save file may hold before the first session
  NoFile,         \* no save file
  Damaged,        \* a save file load_state_json cannot parse
  MaxEntries,     \* bound on the locations entered in one session
  MaxClicks       \* bound on the clicks counted in one session

(* A hotspot: the points inside its half-open rectangle, and its action. *)
Hotspot == [area : SUBSET Points, action_id_1 : Nat]

ASSUME ShellAssumption ==
  /\ Flow \in Seq(Locations)
  /\ Hints \in Seq(Hint)
  /\ Effects \in [Locations -> Seq(Effect)]
  /\ Rects \in [SceneIds -> Seq(Hotspot)]
  /\ \A s \in SceneIds \ HotScenes : Rects[s] = <<>>
  /\ StartScenes \subseteq SceneIds
  /\ FirstFiles \subseteq Snapshot \cup {NoFile, Damaged}
  /\ {NoFile, Damaged} \cap Snapshot = {} /\ NoFile \notin Values
  /\ MaxEntries \in Nat /\ MaxClicks \in Nat

VARIABLES
  up,                   \* the process is alive
  running,              \* the loop's flag
  boot_scene,           \* the scene xmv_path was built from at startup
  scene_id,             \* args.scene_id
  resolved_location,
  step_idx,             \* index into Flow, or -1
  rects,
  vs,
  fmv,                  \* the FmvPlayer
  fmv_ok,
  clicks,
  last_action_id,
  debug,
  save_file,            \* xfiles_play.save.json
  anchor,               \* history: the last step actually entered, or -1
  entries,              \* history: locations entered in this session
  fresh                 \* history: no F9 since the last entry

place == <<boot_scene, scene_id, resolved_location, step_idx, rects, anchor>>
pointer == <<clicks, last_action_id, debug>>
vars == <<up, running, place, vs, fmv, fmv_ok, pointer, save_file, entries,
          fresh>>

-----------------------------------------------------------------------------
(* Helpers of main.                                                        *)

(* The flow: the rows of flow.days[].scenes[] that name a location.        *)
LoadFlowSteps(rows) == SelectSeq(rows, LAMBDA row : row # NoLocation)

Steps == 0 .. Len(Flow) - 1
LocationOf(i) == Flow[i + 1]

Resolve(l) == IF l = NoLocation THEN NoScene ELSE SceneFor(Hints, l)
Enterable == {l \in Locations : Resolve(l) # NoScene}

(* The scan for the first flow step at the --location of the command line. *)
FirstStepAt(l) ==
  IF \E i \in Steps : LocationOf(i) = l
  THEN Min({i \in Steps : LocationOf(i) = l})
  ELSE -1

(* fire_entry *)
FireEntry(l, state) ==
  IF l = NoLocation THEN state ELSE DispatchScene(Effects[l], state)

(* Mutated form: a missing film does not clear fmv_ok. *)
MutShowFilm(s, player, created) ==
  CASE Film[s].kind = "absent" -> [player |-> player, ok |-> player.texture]
    [] Film[s].kind # "absent" /\ ~OpenOk(s) ->
         [player |-> Open(player, s), ok |-> FALSE]
    [] OTHER ->
         LET opened == Open(player, s) IN
         [player |-> Attach(opened, created),
          ok |-> AttachOk(opened, created)]

(* open and attach as startup and enter_step_idx call them: a missing film *)
(* leaves the player alone, one that open refuses is not attached.         *)
ShowFilm(s, player, created) ==
  CASE Film[s].kind = "absent" -> [player |-> player, ok |-> FALSE]
    [] Film[s].kind # "absent" /\ ~OpenOk(s) ->
         [player |-> Open(player, s), ok |-> FALSE]
    [] OTHER ->
         LET opened == Open(player, s) IN
         [player |-> Attach(opened, created),
          ok |-> AttachOk(opened, created)]

(* hit_test: the first hotspot of the list that contains the point. *)
Hits(list, pt) == {i \in DOMAIN list : pt \in list[i].area}

-----------------------------------------------------------------------------
Init ==
  /\ up = FALSE /\ running = FALSE
  /\ boot_scene = NoScene /\ scene_id = NoScene
  /\ resolved_location = NoLocation
  /\ step_idx = -1 /\ anchor = -1
  /\ rects = <<>>
  /\ vs = EmptyState
  /\ fmv = NewPlayer /\ fmv_ok = FALSE
  /\ clicks = 0 /\ last_action_id = 0 /\ debug = FALSE
  /\ save_file \in FirstFiles
  /\ entries = 0 /\ fresh = TRUE

(* Startup: --location wins over --scene when it resolves; its triggers    *)
(* fire before the window opens.                                           *)
Launch(l, s, created) ==
  LET found == l # NoLocation /\ l \in Enterable
      scene == IF found THEN Resolve(l) ELSE s
      here  == IF found THEN l ELSE NoLocation
      shown == ShowFilm(scene, NewPlayer, created)
  IN
  /\ ~up
  /\ up' = TRUE /\ running' = TRUE
  /\ boot_scene' = scene /\ scene_id' = scene
  /\ resolved_location' = here
  /\ step_idx' = IF found THEN FirstStepAt(l) ELSE -1
  /\ anchor' = step_idx'
  /\ rects' = Rects[scene]
  /\ vs' = FireEntry(here, EmptyState)
  /\ fmv' = shown.player /\ fmv_ok' = shown.ok
  /\ clicks' = 0 /\ last_action_id' = 0 /\ debug' \in BOOLEAN
  /\ entries' = 0 /\ fresh' = TRUE
  /\ UNCHANGED save_file

(* Mutated form: the hotspots are not reloaded. *)
MutEnterKeepsRects(i, created) ==
  LET l == LocationOf(i)
      shown == ShowFilm(Resolve(l), fmv, created)
  IN
  IF l \in Enterable
  THEN /\ scene_id' = Resolve(l)
       /\ resolved_location' = l
       /\ rects' = rects
       /\ fmv' = shown.player /\ fmv_ok' = shown.ok
       /\ vs' = FireEntry(l, vs)
       /\ anchor' = i
       /\ entries' = entries + 1
       /\ fresh' = TRUE
  ELSE UNCHANGED <<scene_id, resolved_location, rects, fmv, fmv_ok, vs,
                   anchor, entries, fresh>>

(* Mutated form: fire_entry runs before the location is assigned. *)
MutEnterFiresFirst(i, created) ==
  LET l == LocationOf(i)
      shown == ShowFilm(Resolve(l), fmv, created)
  IN
  IF l \in Enterable
  THEN /\ scene_id' = Resolve(l)
       /\ resolved_location' = l
       /\ rects' = Rects[Resolve(l)]
       /\ fmv' = shown.player /\ fmv_ok' = shown.ok
       /\ vs' = FireEntry(resolved_location, vs)
       /\ anchor' = i
       /\ entries' = entries + 1
       /\ fresh' = TRUE
  ELSE UNCHANGED <<scene_id, resolved_location, rects, fmv, fmv_ok, vs,
                   anchor, entries, fresh>>

(* Mutated form: the location is assigned before the lookup fails. *)
MutEnterMarksSkipped(i, created) ==
  LET l == LocationOf(i)
      shown == ShowFilm(Resolve(l), fmv, created)
  IN
  IF l \in Enterable
  THEN /\ scene_id' = Resolve(l)
       /\ resolved_location' = l
       /\ rects' = Rects[Resolve(l)]
       /\ fmv' = shown.player /\ fmv_ok' = shown.ok
       /\ vs' = FireEntry(l, vs)
       /\ anchor' = i
       /\ entries' = entries + 1
       /\ fresh' = TRUE
  ELSE /\ resolved_location' = l
       /\ UNCHANGED <<scene_id, rects, fmv, fmv_ok, vs, anchor, entries, fresh>>

(* enter_step_idx: nothing changes when the location does not resolve.     *)
EnterStep(i, created) ==
  LET l == LocationOf(i)
      shown == ShowFilm(Resolve(l), fmv, created)
  IN
  IF l \in Enterable
  THEN /\ scene_id' = Resolve(l)
       /\ resolved_location' = l
       /\ rects' = Rects[Resolve(l)]
       /\ fmv' = shown.player /\ fmv_ok' = shown.ok
       /\ vs' = FireEntry(l, vs)
       /\ anchor' = i
       /\ entries' = entries + 1
       /\ fresh' = TRUE
  ELSE UNCHANGED <<scene_id, resolved_location, rects, fmv, fmv_ok, vs,
                   anchor, entries, fresh>>

CanAdvance == step_idx >= 0 /\ step_idx + 1 < Len(Flow)

(* SPACE before the end of the flow: the index moves whether or not the    *)
(* step can be entered.                                                    *)
SpaceAdvance(created) ==
  /\ up /\ CanAdvance
  /\ entries < MaxEntries
  /\ step_idx' = step_idx + 1
  /\ EnterStep(step_idx + 1, created)
  /\ UNCHANGED <<up, running, boot_scene, pointer, save_file>>

(* SPACE otherwise: the film of the scene the shell started with is opened *)
(* and attached again, both results ignored.                               *)
SpaceReplay(created) ==
  /\ up /\ ~CanAdvance
  /\ Film[boot_scene].kind # "absent"
  /\ fmv' = Attach(Open(fmv, boot_scene), created)
  /\ UNCHANGED <<up, running, place, vs, fmv_ok, pointer, save_file, entries,
                 fresh>>

Backspace(created) ==
  /\ up /\ step_idx > 0
  /\ entries < MaxEntries
  /\ step_idx' = step_idx - 1
  /\ EnterStep(step_idx - 1, created)
  /\ UNCHANGED <<up, running, boot_scene, pointer, save_file>>

(* F5, the file written to its end. *)
SaveState ==
  /\ up
  /\ save_file' = SaveText(vs)
  /\ UNCHANGED <<up, running, place, vs, fmv, fmv_ok, pointer, entries, fresh>>

(* F5 cut short: opening the stream has already truncated the file. Either *)
(* the process dies, or the writes fail and nothing checks them.           *)
SaveCut ==
  /\ up
  /\ save_file' = Damaged
  /\ up' \in BOOLEAN
  /\ UNCHANGED <<running, place, vs, fmv, fmv_ok, pointer, entries, fresh>>

(* Mutated form: the variable map is not cleared first. *)
MutLoadMerges ==
  /\ up
  /\ save_file \notin {NoFile, Damaged}
  /\ vs' = [LoadState(save_file) EXCEPT !.values =
              [v \in Vars |-> IF @[v] = Unset THEN vs.values[v] ELSE @[v]]]
  /\ fresh' = FALSE
  /\ UNCHANGED <<up, running, place, fmv, fmv_ok, pointer, save_file, entries>>

(* F9 on a readable file. On a missing or damaged one load_state_json      *)
(* returns before it touches the state, and nothing changes.               *)
LoadSave ==
  /\ up
  /\ save_file \notin {NoFile, Damaged}
  /\ vs' = LoadState(save_file)
  /\ fresh' = FALSE
  /\ UNCHANGED <<up, running, place, fmv, fmv_ok, pointer, save_file, entries>>

(* F1 *)
ToggleDebug ==
  /\ up
  /\ debug' = ~debug
  /\ UNCHANGED <<up, running, place, vs, fmv, fmv_ok, clicks, last_action_id,
                 save_file, entries, fresh>>

(* A left click inside a hotspot; a click elsewhere changes nothing. *)
Click(pt) ==
  /\ up /\ clicks < MaxClicks
  /\ Hits(rects, pt) # {}
  /\ last_action_id' = rects[Min(Hits(rects, pt))].action_id_1
  /\ clicks' = clicks + 1
  /\ UNCHANGED <<up, running, place, vs, fmv, fmv_ok, debug, save_file,
                 entries, fresh>>

(* ESC or the window's close button: events already queued are still       *)
(* handled before the loop looks at the flag.                              *)
Quit ==
  /\ up /\ running
  /\ running' = FALSE
  /\ UNCHANGED <<up, place, vs, fmv, fmv_ok, pointer, save_file, entries, fresh>>

(* The queue is empty: the film is pumped, and the loop ends or goes on.   *)
EndOfFrame ==
  /\ up
  /\ fmv' = IF fmv_ok THEN Pump(fmv) ELSE fmv
  /\ up' = running
  /\ UNCHANGED <<running, place, vs, fmv_ok, pointer, save_file, entries, fresh>>

(* A frame period of the film passes. The clock stops mattering once it is *)
(* past the end of the film.                                               *)
Tick ==
  /\ up
  /\ fmv.age < Len(Frames(fmv.video))
  /\ fmv' = [fmv EXCEPT !.age = @ + 1]
  /\ UNCHANGED <<up, running, place, vs, fmv_ok, pointer, save_file, entries,
                 fresh>>

(* The process is killed. *)
Crash ==
  /\ up
  /\ up' = FALSE
  /\ UNCHANGED <<running, place, vs, fmv, fmv_ok, pointer, save_file, entries,
                 fresh>>

Walk == \E created \in BOOLEAN :
          SpaceAdvance(created) \/ SpaceReplay(created) \/ Backspace(created)

Next ==
  \/ \E l \in Locations \cup {NoLocation}, s \in StartScenes, created \in BOOLEAN :
       Launch(l, s, created)
  \/ Walk
  \/ SaveState \/ SaveCut \/ LoadSave
  \/ ToggleDebug \/ \E pt \in Points : Click(pt)
  \/ Quit \/ EndOfFrame \/ Tick \/ Crash

Spec == Init /\ [][Next]_vars

-----------------------------------------------------------------------------
(* Types of the shell's variables; the walk has an anchor exactly when it  *)
(* has an index.                                                           *)
TypeOK ==
  /\ up \in BOOLEAN /\ running \in BOOLEAN /\ debug \in BOOLEAN
  /\ boot_scene \in SceneIds \cup {NoScene}
  /\ scene_id \in SceneIds \cup {NoScene}
  /\ up => boot_scene \in SceneIds /\ scene_id \in SceneIds
  /\ resolved_location \in Locations \cup {NoLocation}
  /\ step_idx \in Steps \cup {-1} /\ anchor \in Steps \cup {-1}
  /\ step_idx = -1 <=> anchor = -1
  /\ rects \in Seq(Hotspot)
  /\ vs \in VariableState
  /\ fmv \in Player /\ fmv_ok \in BOOLEAN
  /\ clicks \in 0 .. MaxClicks /\ last_action_id \in Nat
  /\ save_file \in Snapshot \cup {NoFile, Damaged}
  /\ entries \in 0 .. MaxEntries /\ fresh \in BOOLEAN

(* The scene, its hotspots and the location always belong together, across *)
(* startup, steps in both directions and steps that could not be entered:  *)
(* a click is never tested against the rectangles of another scene.        *)
SceneMatchesPlace ==
  up =>
    /\ resolved_location # NoLocation => scene_id = Resolve(resolved_location)
    /\ rects = Rects[scene_id]

(* SPACE and BACKSPACE move step_idx whether or not the step's location    *)
(* resolves. However they are mixed, the place shown is the enterable step *)
(* nearest to step_idx on the side the walk came from: no enterable step   *)
(* lies between the two.                                                   *)
Strays(i, j) == {k \in Steps : (i < k /\ k <= j) \/ (j <= k /\ k < i)}

NearestStop ==
  up /\ step_idx >= 0 =>
    /\ anchor \in Steps
    /\ resolved_location = LocationOf(anchor)
    /\ resolved_location \in Enterable
    /\ \A k \in Strays(anchor, step_idx) : LocationOf(k) \notin Enterable

(* Until a save is loaded over them, the variables show the effects of the *)
(* place the player is in: whatever was fired before, firing the triggers  *)
(* of this location again would change no value.                           *)
EntryEffectsHold ==
  up /\ fresh /\ resolved_location # NoLocation =>
    DispatchValues(Effects[resolved_location], vs.values) = vs.values

(* The counters of the exit summary never report fewer mutations of a kind *)
(* than there are variables holding a value of that kind, even though F9   *)
(* recomputes them from the values.                                        *)
CountersCoverValues ==
  \A k \in Kinds : Cardinality(VarsOfKind(vs.values, k)) <= vs.counts[k]

(* What the window plays is the film of the scene the player is in, or the *)
(* startup film when SPACE asked for it again; never a scene walked past.  *)
NoForeignPicture == up /\ fmv_ok => fmv.video \in {scene_id, boot_scene}

(* The abstract walk: the stop is the last step entered, the slot what the *)
(* save file lets F9 restore.                                              *)
SlotOf(file) == IF file \in {NoFile, Damaged} THEN NoFile ELSE file.values

W == INSTANCE Walkthrough WITH
       at <- anchor, place <- resolved_location, world <- vs.values,
       slot <- SlotOf(save_file), NoSave <- NoFile,
       FirstFiles <- {SlotOf(file) : file \in FirstFiles}

(* The shell is a walk along the stops of the flow: every key, every film  *)
(* and every crash is a step of Walkthrough or invisible to it, so the     *)
(* world changes only by entering a place or restoring a whole save.       *)
WalkSpec == W!Spec

=============================================================================
