--------------------------- MODULE MCFmvPlayback ----------------------------
(***************************************************************************)
(* Films that reach every branch of the player: a long Cinepak film with   *)
(* inter frames and sound, one whose second frame is damaged, one that     *)
(* qt_load refuses, one in another codec, two without a video track, and a *)
(* missing file.                                                           *)
(***************************************************************************)
EXTENDS FmvPlayback

Cvid(frames, ima) == [kind |-> "cvid", frames |-> frames, ima |-> ima]
Unusable(kind) == [kind |-> kind, frames |-> <<>>, ima |-> FALSE]

MCScenes == {"long", "damaged", "short", "foreign", "absent",
             "trackless", "audioOnly"}
MCFilm ==
  [s \in MCScenes |->
     CASE s = "long"    -> Cvid(<<"key", "inter", "inter">>, TRUE)
       [] s = "damaged" -> Cvid(<<"key", "inter", "bad", "inter">>, TRUE)
       [] s = "foreign" -> [kind |-> "other", frames |-> <<"bad">>, ima |-> FALSE]
       [] OTHER         -> Unusable(s)]
=============================================================================
