----------------------------- MODULE FmvPlayer ------------------------------
(***************************************************************************)
(* The calls of FmvPlayer (cpp/src/runtime/fmv_player.cpp) as functions on *)
(* the player's state, for the modules that drive a player.                *)
(*                                                                         *)
(* Time is counted in frames of the open film: `age' is the number of      *)
(* frame periods elapsed since attach() read the clock. A picture is named *)
(* by the film and frame it is a clean decode of, or is Mixed when an      *)
(* inter frame was decoded over a picture it does not follow. A film is    *)
(* described by what qt_load finds in the file and by its frames.          *)
(***************************************************************************)
EXTENDS Scenes, Integers, Sequences, FiniteSetsExt

CONSTANTS
  Film,           \* Film[s]: the file, see FilmFile
  NoFilm,         \* no tracks loaded yet
  Blank,          \* a texture no frame was uploaded to
  Mixed           \* a picture that is no clean decode of any frame

FrameData == {"key", "inter", "bad"}      \* bad: decode_frame rejects it
FilmKinds ==
  {"absent",      \* no such file
   "short",       \* qt_load fails before it parses anything
   "trackless",   \* qt_load parses the file and finds no usable track
   "audioOnly",   \* an audio track and no video track
   "other",       \* a video track that is not Cinepak
   "cvid"}        \* a Cinepak video track
FilmFile == [kind : FilmKinds, frames : Seq(FrameData), ima : BOOLEAN]

ASSUME FilmAssumption ==
  /\ Film \in [SceneIds -> FilmFile]
  /\ \A s \in SceneIds :
       Film[s].kind \notin {"other", "cvid"} => Film[s].frames = <<>>
  /\ NoFilm \notin SceneIds
  /\ {Blank, Mixed} \cap [film : SceneIds, frame : Nat] = {}

Picture == [film : SceneIds, frame : Nat] \cup {Blank, Mixed}

(* source: the film whose tracks are in source_; video: the film whose     *)
(* tracks are in video_ and audio_track_; decoder: what the codebooks and  *)
(* previous picture kept by the decoder are a clean decode of.             *)
Player ==
  [source : SceneIds \cup {NoFilm}, video : SceneIds \cup {NoFilm},
   texture : BOOLEAN, picture : Picture, decoder : Picture,
   frame : Nat, age : Nat, done : BOOLEAN]

NewPlayer ==
  [source |-> NoFilm, video |-> NoFilm, texture |-> FALSE,
   picture |-> Blank, decoder |-> Mixed, frame |-> 0, age |-> 0,
   done |-> FALSE]

Frames(f) == IF f = NoFilm THEN <<>> ELSE Film[f].frames

-----------------------------------------------------------------------------
(* open(): what it returns, and the player it leaves. The texture and the  *)
(* decoder are kept; a file qt_load rejects leaves the tracks of the film  *)
(* before it in video_.                                                    *)

OpenOk(f) == Film[f].kind = "cvid" /\ Frames(f) # <<>>

Open(p, f) ==
  [p EXCEPT !.source = IF Film[f].kind = "short" THEN @ ELSE f,
            !.video  = IF Film[f].kind \in {"short", "trackless"} THEN @ ELSE f,
            !.frame  = 0,
            !.done   = ~OpenOk(f)]

-----------------------------------------------------------------------------
(* load_frame_(): fetch sample i, decode it, upload it.                    *)

Loadable(p, i) ==
  /\ i < Len(Frames(p.video))
  /\ i < Len(Frames(p.source))
  /\ Frames(p.source)[i + 1] # "bad"

(* Decoding frames from..to of film f in order: clean when some frame of   *)
(* the run is a key frame or the run continues the picture d.              *)
Decode(d, f, from, to) ==
  CASE to < from -> d
    [] to >= from /\ \/ \E i \in from .. to : Frames(f)[i + 1] = "key"
                     \/ d = [film |-> f, frame |-> from - 1]
         -> [film |-> f, frame |-> to]
    [] OTHER -> Mixed

(* Mutated form: the index is rolled back to the last loaded frame. *)
MutLoadRollsBack(p, from, to) ==
  LET unloadable == {i \in from .. to : ~Loadable(p, i)}
      last == IF unloadable = {} THEN to ELSE Min(unloadable) - 1
      pic == Decode(p.decoder, p.source, from, last)
  IN  [p EXCEPT !.decoder = pic,
                !.picture = IF last < from THEN @ ELSE pic,
                !.frame = last,
                !.done = IF unloadable = {} THEN @ ELSE TRUE]

(* load_frame_(from), load_frame_(from + 1), ... load_frame_(to), stopping *)
(* at the first frame that cannot be loaded: done_ is set there, and the   *)
(* index stays on that frame when the caller had advanced it.              *)
LoadRun(p, from, to) ==
  LET unloadable == {i \in from .. to : ~Loadable(p, i)}
      last == IF unloadable = {} THEN to ELSE Min(unloadable) - 1
      pic == Decode(p.decoder, p.source, from, last)
  IN  [p EXCEPT !.decoder = pic,
                !.picture = IF last < from THEN @ ELSE pic,
                !.frame = IF unloadable = {} THEN to ELSE Min(unloadable),
                !.done = IF unloadable = {} THEN @ ELSE TRUE]

-----------------------------------------------------------------------------
(* attach(): a new texture, the audio track queued behind what the device  *)
(* still has to play, the clock read, frame 0 loaded. `created' tells      *)
(* whether SDL_CreateTexture succeeded.                                    *)

AttachOk(p, created) ==
  Frames(p.video) # <<>> /\ created /\ Loadable(p, 0)

Attach(p, created) ==
  LET blank == [p EXCEPT !.texture = created, !.picture = Blank] IN
  CASE Frames(p.video) = <<>> -> p
    [] Frames(p.video) # <<>> /\ ~created -> blank
    [] OTHER -> LoadRun([blank EXCEPT !.age = 0], 0, 0)

(* The tracks attach() queues on an open audio device. *)
Queued(p, created) ==
  IF Frames(p.video) # <<>> /\ created /\ Film[p.video].ima
  THEN <<p.video>> ELSE <<>>

-----------------------------------------------------------------------------
(* pump(): catch up with the clock, one decoded frame after the other. A   *)
(* clock past the last frame ends the film without loading what is left.   *)

(* Mutated forms: the catch-up decodes the target frame only; a film that  *)
(* has run out is not marked done; it ends one frame early; the target is  *)
(* one frame ahead of the clock; a film that stopped is pumped on.         *)
MutPumpSkips(p) ==
  CASE p.done \/ ~p.texture \/ p.age <= p.frame -> p
    [] p.age >= Len(Frames(p.video)) -> [p EXCEPT !.done = TRUE]
    [] OTHER -> LoadRun(p, p.age, p.age)

MutPumpNeverEnds(p) ==
  IF \/ p.done \/ ~p.texture \/ p.age <= p.frame
     \/ p.age >= Len(Frames(p.video))
  THEN p
  ELSE LoadRun(p, p.frame + 1, p.age)

MutPumpEndsEarly(p) ==
  CASE p.done \/ ~p.texture \/ p.age <= p.frame -> p
    [] p.age + 1 >= Len(Frames(p.video)) -> [p EXCEPT !.done = TRUE]
    [] OTHER -> LoadRun(p, p.frame + 1, p.age)

MutPumpIgnoresDone(p) ==
  CASE ~p.texture \/ p.age <= p.frame -> p
    [] p.age >= Len(Frames(p.video)) -> [p EXCEPT !.done = TRUE]
    [] OTHER -> LoadRun(p, p.frame + 1, p.age)

Pump(p) ==
  CASE p.done \/ ~p.texture \/ p.age <= p.frame -> p
    [] ~p.done /\ p.texture /\ p.age > p.frame /\ p.age >= Len(Frames(p.video))
         -> [p EXCEPT !.done = TRUE]
    [] OTHER -> LoadRun(p, p.frame + 1, p.age)
=============================================================================
