---------------------------- MODULE FmvPlayback -----------------------------
(***************************************************************************)
(* One FmvPlayer driven the way sdl2_main.cpp drives it: a scene change    *)
(* opens and attaches a film, SPACE at the end of the flow opens and       *)
(* attaches one again without looking at the results, and the render loop  *)
(* pumps whenever the last scene change gave a playable film. The clock    *)
(* and the audio device run on their own.                                  *)
(***************************************************************************)
EXTENDS FmvPlayer

CONSTANTS
  MaxAge,         \* bound on the clock: longer than any film
  MaxQueue,       \* bound on the tracks waiting in the audio device
  MaxOpens        \* bound on the number of films opened

ASSUME PlaybackAssumption ==
  /\ MaxAge \in Nat /\ MaxQueue \in Nat /\ MaxOpens \in Nat
  /\ \A s \in SceneIds : Len(Film[s].frames) <= MaxAge
(* A film's first frame, where it can be decoded at all, is a key frame.   *)
ASSUME KeyFirstAssumption ==
  \A s \in SceneIds : Film[s].frames # <<>> => Film[s].frames[1] # "inter"

VARIABLES
  player,         \* the FmvPlayer
  playable,       \* fmv_ok: what the shell believes of it
  audio,          \* an audio device was opened
  queue,          \* the tracks the device has not finished, oldest first
  opened,         \* the last open() returned true
  opens,          \* number of films opened so far
  pumped,         \* history: a pump ran since the clock last moved
  late            \* history: the clock moved twice between two pumps

playback_vars == <<player, playable, audio, queue, opened, opens, pumped, late>>

PlaybackInit ==
  /\ player = NewPlayer
  /\ playable = FALSE
  /\ audio \in BOOLEAN
  /\ queue = <<>>
  /\ opened = FALSE
  /\ opens = 0
  /\ pumped = TRUE /\ late = FALSE

(* SDL_QueueAudio may fail; the film then plays silently. *)
QueueTrack(track) ==
  \/ queue' = queue
  \/ audio /\ queue' = queue \o track

(* Entering a scene: a missing .xmv leaves the player alone, a file open() *)
(* refuses is not attached.                                                *)
EnterScene(f, created) ==
  LET p == Open(player, f) IN
  /\ opens < MaxOpens /\ Len(queue) < MaxQueue
  /\ opens' = opens + 1
  /\ pumped' = TRUE /\ late' = FALSE
  /\ CASE Film[f].kind = "absent" ->
            /\ playable' = FALSE
            /\ UNCHANGED <<player, queue, opened>>
       [] Film[f].kind # "absent" /\ ~OpenOk(f) ->
            /\ player' = p
            /\ playable' = FALSE
            /\ opened' = FALSE
            /\ UNCHANGED queue
       [] OTHER ->
            /\ player' = Attach(p, created)
            /\ playable' = AttachOk(p, created)
            /\ opened' = TRUE
            /\ QueueTrack(Queued(p, created))
  /\ UNCHANGED audio

(* Replaying a film: both results ignored, fmv_ok not updated. *)
Replay(f, created) ==
  LET p == Open(player, f) IN
  /\ opens < MaxOpens /\ Len(queue) < MaxQueue
  /\ Film[f].kind # "absent"
  /\ opens' = opens + 1
  /\ pumped' = TRUE /\ late' = FALSE
  /\ player' = Attach(p, created)
  /\ opened' = OpenOk(f)
  /\ QueueTrack(Queued(p, created))
  /\ UNCHANGED <<playable, audio>>

(* One turn of the render loop. *)
PumpFrame ==
  /\ playable
  /\ player' = Pump(player)
  /\ pumped' = TRUE
  /\ UNCHANGED <<playable, audio, queue, opened, opens, late>>

(* A frame period passes. *)
FramePeriod ==
  /\ player.age < MaxAge
  /\ player' = [player EXCEPT !.age = @ + 1]
  /\ pumped' = FALSE /\ late' = (late \/ ~pumped)
  /\ UNCHANGED <<playable, audio, queue, opened, opens>>

(* The device finishes the oldest track. *)
TrackEnds ==
  /\ queue # <<>>
  /\ queue' = Tail(queue)
  /\ UNCHANGED <<player, playable, audio, opened, opens, pumped, late>>

Drive == \E f \in SceneIds, created \in BOOLEAN :
           EnterScene(f, created) \/ Replay(f, created)

PlaybackNext == Drive \/ PumpFrame \/ FramePeriod \/ TrackEnds

PlaybackSpec == PlaybackInit /\ [][PlaybackNext]_playback_vars

(* The loop pumps on every turn and the clock advances; nothing forces a   *)
(* film to be opened.                                                      *)
FairPlayback ==
  /\ PlaybackSpec
  /\ WF_playback_vars(FramePeriod) /\ WF_playback_vars(PumpFrame)
  /\ WF_playback_vars(TrackEnds)

-----------------------------------------------------------------------------
(* A film plays: the shell believes in it, it has a texture, it is not over.*)
Playing == playable /\ player.texture /\ ~player.done

(* While a film plays, the picture on the texture is a clean decode of the *)
(* frame the player counts: catching up after a late pump, a film opened   *)
(* over another one and the decoder state kept across open() never leave   *)
(* a picture mixed from two films.                                         *)
PictureIsCurrentFrame ==
  Playing => player.picture = [film |-> player.video, frame |-> player.frame]

(* While one film stays open it only plays forward, and once over it is    *)
(* over: the frame never goes back and done is never withdrawn.            *)
PlaysForward ==
  [][opens' = opens =>
       /\ player'.frame >= player.frame
       /\ player.done => player'.done /\ player'.picture = player.picture]_playback_vars

(* Playback ends: a film that plays is eventually over, replaced or lost.  *)
PlaybackEnds == Playing ~> ~Playing

(* Every frame of the film in the player was put on the texture. *)
Undamaged(frames) == \A i \in DOMAIN frames : frames[i] # "bad"
AllPresented ==
  player.picture =
    [film |-> player.video, frame |-> Len(Frames(player.video)) - 1]

(* On a machine that keeps up, that is one that pumps in every frame       *)
(* period, a film without damaged frames is over only after its last frame *)
(* was shown.                                                              *)
TimelyFilmIsComplete ==
  playable /\ opened /\ ~late /\ player.done /\ Undamaged(Frames(player.video))
    => AllPresented
=============================================================================
