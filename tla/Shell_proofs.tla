---------------------------- MODULE Shell_proofs ----------------------------
(***************************************************************************)
(* Proofs about the playable shell: its parts, each on its own, and the    *)
(* shell itself.                                                           *)
(*                                                                         *)
(* The two loops compute their closed forms: the loop of dispatch_scene,   *)
(* for every set of variables and values and every list of effects, and    *)
(* the loop of SceneResolver::from_hints, for every scene map and every set*)
(* of hotspot files. Their steps are the lemmas DispatchAppend and         *)
(* MatchAppend: one more element at the end of a list.                     *)
(*                                                                         *)
(* The film player: what it shows, for every set of films and every way to *)
(* open, pump and replay them.                                             *)
(*                                                                         *)
(* The shell, for every flow, scene map, set of hotspot files, film and    *)
(* effect: the types, the safety invariants of the walk, and that it       *)
(* implements Walkthrough.                                                 *)
(***************************************************************************)
EXTENDS DispatchLoop, ResolverLoop, FmvPlayback, PlayShell, ShellLemmas

-----------------------------------------------------------------------------
(* The loop of dispatch_scene.                                             *)

(* The loop's variables keep their types: in particular the list it returns*)
(* only ever names variables together with a value.                        *)
THEOREM LoopTypes == LoopSpec => []LoopTypeOK
<1>1. LoopInit => LoopTypeOK
  <2> SUFFICES ASSUME LoopInit PROVE LoopTypeOK
    OBVIOUS
  <2>1. <<>> \in Seq(Effect) /\ <<>> \in Seq(Mutation)
    OBVIOUS
  <2> QED
    BY <2>1, LoopAssumption DEF LoopInit, LoopTypeOK
<1>2. LoopTypeOK /\ [LoopNext]_loop_vars => LoopTypeOK'
  <2> SUFFICES ASSUME LoopTypeOK, [LoopNext]_loop_vars PROVE LoopTypeOK'
    OBVIOUS
  <2>1. CASE UNCHANGED loop_vars
    BY <2>1 DEF LoopTypeOK, loop_vars
  <2>2. ASSUME NEW eff \in Effect, Fire(eff) PROVE LoopTypeOK'
    <3>1. loop_vs' \in VariableState
      BY <2>2, ApplyEffectTyped DEF LoopTypeOK, Fire
    <3>2. fired' \in Seq(Effect)
      BY <2>2, AppendProperties DEF LoopTypeOK, Fire
    <3>3. muts' \in Seq(Mutation)
      <4>1. CASE eff = Uninterpreted
        BY <2>2, <4>1 DEF LoopTypeOK, Fire
      <4>2. CASE eff # Uninterpreted
        <5>1. eff.var \in Vars /\ eff.val \in Vals
          BY <4>2, EffectCases DEF Vals
        <5>2. loop_vs.values \in Values
          BY DEF LoopTypeOK, VariableState
        <5>3. loop_vs'.values[eff.var] = eff.val
          BY <2>2, <4>2, <5>1, <5>2 DEF Fire, ApplyEffect, Values
        <5> QED
          BY <2>2, <4>2, <5>1, <5>3, AppendProperties DEF LoopTypeOK, Fire, Mutation
      <4> QED
        BY <4>1, <4>2
    <3> QED
      BY <2>2, <3>1, <3>2, <3>3 DEF LoopTypeOK, Fire
  <2> QED
    BY <2>1, <2>2 DEF LoopNext
<1> QED
  BY <1>1, <1>2, PTL DEF LoopSpec

(* Whatever the trigger list of a location, dispatch_scene leaves the state*)
(* its closed form describes.                                              *)
THEOREM LoopIsClosedForm == LoopSpec => []LoopComputesDispatch
<1>1. LoopInit /\ LoopTypeOK => LoopComputesDispatch
  BY DispatchEmpty DEF LoopInit, LoopTypeOK, LoopComputesDispatch
<1>2. LoopTypeOK /\ LoopComputesDispatch /\ [LoopNext]_loop_vars => LoopComputesDispatch'
  <2> SUFFICES ASSUME LoopTypeOK, LoopComputesDispatch, [LoopNext]_loop_vars
               PROVE  LoopComputesDispatch'
    OBVIOUS
  <2>1. CASE UNCHANGED loop_vars
    BY <2>1 DEF LoopComputesDispatch, loop_vars
  <2>2. ASSUME NEW eff \in Effect, Fire(eff) PROVE LoopComputesDispatch'
    <3>1. fired' = Append(fired, eff) /\ loop_vs' = ApplyEffect(eff, loop_vs)
          /\ start' = start
      BY <2>2 DEF Fire
    <3> QED
      BY <3>1, DispatchAppend DEF LoopTypeOK, LoopComputesDispatch
  <2> QED
    BY <2>1, <2>2 DEF LoopNext
<1> QED
  BY <1>1, <1>2, LoopTypes, PTL DEF LoopSpec

(* The mutation list dispatch_scene returns explains every change it made. *)
THEOREM MutationsAreComplete == LoopSpec => []MutationsExplainValues
<1> DEFINE named(v) == {i \in DOMAIN muts : muts[i][1] = v}
<1>1. LoopInit /\ LoopTypeOK => MutationsExplainValues
  BY DEF LoopInit, MutationsExplainValues
<1>2. LoopTypeOK /\ MutationsExplainValues /\ [LoopNext]_loop_vars => MutationsExplainValues'
  <2> SUFFICES ASSUME LoopTypeOK, MutationsExplainValues, [LoopNext]_loop_vars
               PROVE  MutationsExplainValues'
    OBVIOUS
  <2>1. CASE UNCHANGED loop_vars
    BY <2>1 DEF MutationsExplainValues, loop_vars
  <2>2. ASSUME NEW eff \in Effect, Fire(eff) PROVE MutationsExplainValues'
    <3>1. loop_vs' = ApplyEffect(eff, loop_vs) /\ start' = start
      BY <2>2 DEF Fire
    <3>2. loop_vs.values \in Values
      BY DEF LoopTypeOK, VariableState
    <3>3. CASE eff = Uninterpreted
      <4>1. muts' = muts /\ loop_vs'.values = loop_vs.values
        BY <2>2, <3>1, <3>3 DEF Fire, ApplyEffect
      <4> QED
        BY <3>1, <4>1 DEF MutationsExplainValues
    <3>4. CASE eff # Uninterpreted
      <4>1. eff.var \in Vars
        BY <3>4, EffectCases
      <4>2. \A v \in Vars : v # eff.var => loop_vs'.values[v] = loop_vs.values[v]
        BY <3>1, <3>2, <3>4 DEF ApplyEffect, Values
      <4> DEFINE last == <<eff.var, loop_vs'.values[eff.var]>>
      <4>3. muts' = Append(muts, last)
        BY <2>2, <3>4 DEF Fire
      <4>4. /\ Len(muts) \in Nat
            /\ DOMAIN muts = 1 .. Len(muts)
            /\ DOMAIN muts' = 1 .. Len(muts) + 1
            /\ \A i \in 1 .. Len(muts) : muts'[i] = muts[i]
            /\ muts'[Len(muts) + 1] = last
        BY <4>3, LenProperties, AppendProperties DEF LoopTypeOK
      <4>5. SUFFICES ASSUME NEW v \in Vars
                     PROVE  IF named(v)' = {} THEN loop_vs'.values[v] = start'.values[v]
                            ELSE \E i \in named(v)' :
                                   /\ \A j \in named(v)' : j <= i
                                   /\ muts'[i][2] = loop_vs'.values[v]
        BY DEF MutationsExplainValues
      <4>6. CASE v = eff.var
        <5>1. Len(muts) + 1 \in named(v)'
          BY <4>4, <4>6
        <5>2. \A j \in named(v)' : j <= Len(muts) + 1
          BY <4>4
        <5>3. muts'[Len(muts) + 1][2] = loop_vs'.values[v]
          BY <4>4, <4>6
        <5> QED
          BY <5>1, <5>2, <5>3
      <4>7. CASE v # eff.var
        <5>1. named(v)' = named(v)
          BY <4>4, <4>7
        <5>2. \A i \in named(v) : muts'[i] = muts[i]
          BY <4>4
        <5>3. loop_vs'.values[v] = loop_vs.values[v]
          BY <4>2, <4>7
        <5> QED
          BY <3>1, <5>1, <5>2, <5>3 DEF MutationsExplainValues
      <4> QED
        BY <4>6, <4>7
    <3> QED
      BY <3>3, <3>4
  <2> QED
    BY <2>1, <2>2 DEF LoopNext
<1> QED
  BY <1>1, <1>2, LoopTypes, PTL DEF LoopSpec

-----------------------------------------------------------------------------
(* The loop of from_hints.                                                 *)

(* The loop's variables keep their types: every match names a real scene.  *)
THEOREM ResolverTypes == ResolverSpec => []ResolverTypeOK
<1>1. ResolverInit => ResolverTypeOK
  BY EmptySeq DEF ResolverInit, ResolverTypeOK, Table
<1>2. ResolverTypeOK /\ [ResolverNext]_resolver_vars => ResolverTypeOK'
  <2> SUFFICES ASSUME ResolverTypeOK, [ResolverNext]_resolver_vars PROVE ResolverTypeOK'
    OBVIOUS
  <2>1. CASE UNCHANGED resolver_vars
    BY <2>1 DEF ResolverTypeOK, resolver_vars
  <2>2. ASSUME NEW hint \in Hint, ReadHint(hint) PROVE ResolverTypeOK'
    <3>1. seen' \in Seq(Hint)
      BY <2>2, AppendProperties DEF ReadHint, ResolverTypeOK
    <3>2. MatchOf(hint) \in Match
      BY DEF MatchOf, Match, Hint
    <3>3. by_location' \in Table
      BY <2>2, <3>2 DEF ReadHint, RecordHint, ResolverTypeOK, Table
    <3> QED
      BY <3>1, <3>3 DEF ResolverTypeOK
  <2> QED
    BY <2>1, <2>2 DEF ResolverNext
<1> QED
  BY <1>1, <1>2, PTL DEF ResolverSpec

(* Whatever scene_asset_map.json holds, the table from_hints builds is the *)
(* first byte-direct entry of each location, or else its first entry.      *)
THEOREM ResolverIsClosedForm == ResolverSpec => []TableIsFirstByteDirect
<1>1. ResolverInit => TableIsFirstByteDirect
  <2>1. \A l : Candidates(<<>>, l) = {} /\ ByteDirect(<<>>, l) = {}
    BY DEF Candidates, ByteDirect
  <2> QED
    BY <2>1 DEF ResolverInit, TableIsFirstByteDirect, MatchFor
<1>2. ResolverTypeOK /\ TableIsFirstByteDirect /\ [ResolverNext]_resolver_vars => TableIsFirstByteDirect'
  <2> SUFFICES ASSUME ResolverTypeOK, TableIsFirstByteDirect, [ResolverNext]_resolver_vars
               PROVE  TableIsFirstByteDirect'
    OBVIOUS
  <2>1. CASE UNCHANGED resolver_vars
    BY <2>1 DEF TableIsFirstByteDirect, resolver_vars
  <2>2. ASSUME NEW hint \in Hint, ReadHint(hint) PROVE TableIsFirstByteDirect'
    <3> SUFFICES ASSUME NEW l \in Locations
                 PROVE  by_location'[l] = MatchFor(seen', l)
      BY DEF TableIsFirstByteDirect
    <3>1. /\ seen' = Append(seen, hint)
          /\ by_location' = RecordHint(hint, by_location)
      BY <2>2 DEF ReadHint
    <3>2. by_location[l] = MatchFor(seen, l)
      BY DEF TableIsFirstByteDirect
    <3>3. RecordHint(hint, by_location)[l] =
            IF hint.location = l /\ Improves(MatchOf(hint), by_location[l])
            THEN MatchOf(hint) ELSE by_location[l]
      <4>1. l # NoLocation
        BY SceneAssumption
      <4>2. by_location = [k \in Locations |-> by_location[k]]
        BY DEF ResolverTypeOK, Table
      <4>3. CASE hint.location = l
        BY <4>1, <4>2, <4>3 DEF RecordHint
      <4>4. CASE hint.location # l
        BY <4>2, <4>4 DEF RecordHint
      <4> QED
        BY <4>3, <4>4
    <3>4. seen \in Seq(Hint)
      BY DEF ResolverTypeOK
    <3> QED
      BY <3>1, <3>2, <3>3, <3>4, MatchAppend
  <2> QED
    BY <2>1, <2>2 DEF ResolverNext
<1> QED
  BY <1>1, <1>2, ResolverTypes, PTL DEF ResolverSpec

(* Extending the scene map never moves a location that already resolves.   *)
THEOREM ResolvedIsStable == ResolverSpec => ResolvedSceneIsStable
<1>1. ResolverTypeOK /\ [ResolverNext]_resolver_vars =>
        [\A l \in Locations :
           SceneOf(by_location[l]) # NoScene => by_location'[l] = by_location[l]]_resolver_vars
  <2> SUFFICES ASSUME ResolverTypeOK, NEW hint \in Hint, ReadHint(hint),
                      NEW l \in Locations, SceneOf(by_location[l]) # NoScene
               PROVE  by_location'[l] = by_location[l]
    BY DEF ResolverNext
  <2>1. by_location[l].certainty = "byte_direct"
    BY DEF SceneOf
  <2>2. by_location[l] # NoMatch
    BY <2>1 DEF NoMatch
  <2>3. ~Improves(MatchOf(hint), by_location[l])
    BY <2>1, <2>2 DEF Improves
  <2>4. by_location' = RecordHint(hint, by_location)
    BY DEF ReadHint
  <2>5. by_location = [k \in Locations |-> by_location[k]]
    BY DEF ResolverTypeOK, Table
  <2> QED
    BY <2>3, <2>4, <2>5 DEF RecordHint
<1> QED
  BY <1>1, ResolverTypes, PTL DEF ResolverSpec, ResolvedSceneIsStable

-----------------------------------------------------------------------------
(* The calls of the player, field by field.                                *)

(* A run of frames: what it leaves when every frame can be loaded, and what*)
(* it never does.                                                          *)
LEMMA LoadRunLoads ==
  ASSUME NEW p \in Player, NEW from \in Nat, NEW to \in Nat, from <= to,
         \A i \in from .. to : Loadable(p, i)
  PROVE  LET pic == Decode(p.decoder, p.source, from, to) IN
         LoadRun(p, from, to) = [p EXCEPT !.decoder = pic, !.picture = pic, !.frame = to]
<1> DEFINE unloadable == {i \in from .. to : ~Loadable(p, i)}
           pic == Decode(p.decoder, p.source, from, to)
<1>1. unloadable = {}
  OBVIOUS
<1>2. ~(to < from)
  OBVIOUS
<1>3. LoadRun(p, from, to) =
        [p EXCEPT !.decoder = pic, !.picture = pic, !.frame = to, !.done = p.done]
  BY <1>1, <1>2 DEF LoadRun
<1> HIDE DEF pic
<1> QED
  BY <1>3 DEF Player, pic

LEMMA LoadRunKeeps ==
  ASSUME NEW p \in Player, NEW from \in Nat, NEW to \in Nat
  PROVE  LET q == LoadRun(p, from, to) IN
         /\ q.source = p.source /\ q.video = p.video
         /\ q.texture = p.texture /\ q.age = p.age
         /\ from <= to => q.frame >= from
         /\ p.done => q.done
         /\ (\E i \in from .. to : ~Loadable(p, i)) => q.done
<1> DEFINE unloadable == {i \in from .. to : ~Loadable(p, i)}
           last == IF unloadable = {} THEN to ELSE Min(unloadable) - 1
           pic == Decode(p.decoder, p.source, from, last)
           pict == IF last < from THEN p.picture ELSE pic
           fr == IF unloadable = {} THEN to ELSE Min(unloadable)
           dn == IF unloadable = {} THEN p.done ELSE TRUE
           q == LoadRun(p, from, to)
<1>1. q = [p EXCEPT !.decoder = pic, !.picture = pict, !.frame = fr, !.done = dn]
  BY DEF LoadRun
<1>2. unloadable # {} => Min(unloadable) \in unloadable
  <2>1. unloadable \in SUBSET Nat
    OBVIOUS
  <2> QED
    BY <2>1, MinExists
<1>3. from <= to => fr >= from
  BY <1>2
<1>4. p.done \in BOOLEAN
  BY DEF Player
<1>5. (p.done => dn) /\ ((\E i \in from .. to : ~Loadable(p, i)) => dn)
  OBVIOUS
<1> HIDE DEF fr, dn, pic, pict, q
<1>6. /\ q.source = p.source /\ q.video = p.video /\ q.texture = p.texture
      /\ q.age = p.age /\ q.frame = fr
  BY <1>1 DEF Player
<1>7. q.done = dn
  BY <1>1 DEF Player
<1>8. /\ p.done => q.done
      /\ (\E i \in from .. to : ~Loadable(p, i)) => q.done
  BY <1>5, <1>7, Zenon
<1> QED
  BY <1>3, <1>6, <1>8 DEF q

LEMMA OpenFields ==
  ASSUME NEW p \in Player, NEW f \in SceneIds
  PROVE  LET q == Open(p, f) IN
         /\ q.frame = 0 /\ q.texture = p.texture /\ q.decoder = p.decoder
         /\ q.age = p.age /\ q.picture = p.picture
         /\ q.done = ~OpenOk(f)
         /\ OpenOk(f) => q.source = f /\ q.video = f
BY DEF Open, OpenOk, Player

(* attach() after an open that succeeded: no texture, or the first frame on*)
(* it, or a first frame that cannot be loaded.                             *)
LEMMA AttachAfterOpen ==
  ASSUME NEW p \in Player, NEW f \in SceneIds, OpenOk(f), NEW created \in BOOLEAN
  PROVE  LET q == Attach(Open(p, f), created) IN
         /\ q.source = f /\ q.video = f /\ q.texture = created
         /\ ~created => ~q.done
         /\ created /\ Frames(f)[1] = "bad" => q.done
         /\ created /\ Frames(f)[1] # "bad" =>
              /\ ~q.done /\ q.frame = 0 /\ q.age = 0
              /\ q.picture = [film |-> f, frame |-> 0] /\ q.decoder = q.picture
<1> DEFINE o == Open(p, f)
           blank == [o EXCEPT !.texture = created, !.picture = Blank]
           clocked == [blank EXCEPT !.age = 0]
           q == Attach(o, created)
<1>1. /\ o \in Player
      /\ o.frame = 0 /\ o.source = f /\ o.video = f /\ o.done = FALSE
  BY OpenTyped, OpenFields
<1>2. Frames(f) # <<>> /\ Frames(f) \in Seq(FrameData) /\ Len(Frames(f)) \in Nat
  BY FilmTyped DEF OpenOk
<1>3. Len(Frames(f)) > 0
  BY <1>2, EmptySeq
<1> HIDE DEF o
<1>4. /\ blank \in Player /\ blank.source = f /\ blank.video = f
      /\ blank.texture = created /\ blank.done = FALSE
  BY <1>1 DEF Player, Picture
<1>5. /\ clocked \in Player /\ clocked.source = f /\ clocked.video = f
      /\ clocked.texture = created /\ clocked.done = FALSE /\ clocked.age = 0
  BY <1>4 DEF Player
<1> HIDE DEF blank
<1>6. CASE ~created
  <2>1. q = blank
    BY <1>1, <1>2, <1>6 DEF Attach, blank
  <2> QED
    BY <1>4, <1>6, <2>1 DEF o
<1>7. CASE created
  <2>1. q = LoadRun(clocked, 0, 0)
    BY <1>1, <1>2, <1>7 DEF Attach, blank
  <2> HIDE DEF clocked, q
  <2>2. /\ q.source = f /\ q.video = f /\ q.texture = created /\ q.age = 0
        /\ (\E i \in 0 .. 0 : ~Loadable(clocked, i)) => q.done
    BY <1>5, <2>1, LoadRunKeeps
  <2>3. CASE Frames(f)[1] = "bad"
    <3>1. ~Loadable(clocked, 0)
      BY <1>5, <2>3 DEF Loadable
    <3>2. q.done
      BY <2>2, <3>1
    <3>3. /\ q.source = f /\ q.video = f /\ q.texture = created
      BY <2>2
    <3> QED
      BY <1>7, <2>3, <3>2, <3>3 DEF q, o
  <2>4. CASE Frames(f)[1] # "bad"
    <3> DEFINE pic == Decode(clocked.decoder, f, 0, 0)
    <3>1. Loadable(clocked, 0)
      BY <1>3, <1>5, <2>4 DEF Loadable
    <3>2. q = [clocked EXCEPT !.decoder = pic, !.picture = pic, !.frame = 0]
      <4>1. \A i \in 0 .. 0 : Loadable(clocked, i)
        BY <3>1
      <4>2. LET c == Decode(clocked.decoder, clocked.source, 0, 0) IN
            LoadRun(clocked, 0, 0)
              = [clocked EXCEPT !.decoder = c, !.picture = c, !.frame = 0]
        <5>1. 0 \in Nat /\ 0 <= 0 /\ clocked \in Player
          BY <1>5
        <5> QED
          BY <4>1, <5>1, LoadRunLoads, Zenon
      <4> QED
        BY <1>5, <2>1, <4>2
    <3>3. Frames(f)[1] = "key"
      <4>1. Frames(f)[1] # "inter"
        BY <1>2, FilmAssumption, KeyFirstAssumption DEF Frames
      <4>2. 1 \in 1 .. Len(Frames(f))
        BY <1>2, <1>3
      <4>3. Frames(f)[1] \in FrameData
        BY <1>2, <4>2, ElementOfSeq
      <4> QED
        BY <2>4, <4>1, <4>3 DEF FrameData
    <3>4. pic = [film |-> f, frame |-> 0]
      BY <3>3 DEF Decode
    <3> HIDE DEF pic
    <3>5. q.picture = pic /\ q.decoder = pic /\ q.frame = 0 /\ q.done = FALSE
      BY <1>5, <3>2 DEF Player
    <3> QED
      BY <1>7, <2>2, <2>4, <3>4, <3>5 DEF q, o
  <2> QED
    BY <2>3, <2>4
<1> QED
  BY <1>6, <1>7

(* What a pump may do, by the clock: nothing, end the film, or catch up.   *)
LEMMA PumpCases ==
  ASSUME NEW p \in Player
  PROVE  LET idle == p.done \/ ~p.texture \/ p.age <= p.frame
             over == p.age >= Len(Frames(p.video))
         IN  /\ idle => Pump(p) = p
             /\ ~idle /\ over => Pump(p) = [p EXCEPT !.done = TRUE]
             /\ ~idle /\ ~over => Pump(p) = LoadRun(p, p.frame + 1, p.age)
<1> DEFINE idle == p.done \/ ~p.texture \/ p.age <= p.frame
           over == p.age >= Len(Frames(p.video))
<1>1. p.age \in Nat /\ p.frame \in Nat
  BY DEF Player
<1>2. (p.age > p.frame) = ~(p.age <= p.frame)
  BY <1>1
<1>3. ASSUME idle PROVE Pump(p) = p
  BY <1>2, <1>3, Zenon DEF Pump
<1>4. ASSUME ~idle, over PROVE Pump(p) = [p EXCEPT !.done = TRUE]
  BY <1>2, <1>4, Zenon DEF Pump
<1>5. ASSUME ~idle, ~over PROVE Pump(p) = LoadRun(p, p.frame + 1, p.age)
  BY <1>5, Zenon DEF Pump
<1> QED
  BY <1>3, <1>4, <1>5, Zenon

(* A pump keeps the film, and goes forward or ends it; a film that is over *)
(* stays as it is.                                                         *)
LEMMA PumpKeeps ==
  ASSUME NEW p \in Player
  PROVE  LET q == Pump(p) IN
         /\ q.source = p.source /\ q.video = p.video /\ q.texture = p.texture
         /\ q.age = p.age
         /\ q.frame >= p.frame
         /\ p.done => q = p
<1> DEFINE q == Pump(p)
           idle == p.done \/ ~p.texture \/ p.age <= p.frame
           over == p.age >= Len(Frames(p.video))
<1>1. p.age \in Nat /\ p.frame \in Nat
  BY DEF Player
<1>2. /\ idle => q = p
      /\ ~idle /\ over => q = [p EXCEPT !.done = TRUE]
      /\ ~idle /\ ~over => q = LoadRun(p, p.frame + 1, p.age)
  BY PumpCases
<1>3. p.done => idle
  OBVIOUS
<1>4. ~idle => p.frame + 1 <= p.age
  BY <1>1
<1> HIDE DEF q, idle, over
<1>5. CASE idle
  BY <1>1, <1>2, <1>5 DEF q
<1>6. CASE ~idle /\ over
  BY <1>1, <1>2, <1>3, <1>6 DEF q, Player
<1>7. CASE ~idle /\ ~over
  <2>1. p.frame + 1 \in Nat
    BY <1>1
  <2> DEFINE r == LoadRun(p, p.frame + 1, p.age)
  <2>2. /\ r.source = p.source /\ r.video = p.video
        /\ r.texture = p.texture /\ r.age = p.age
        /\ p.frame + 1 <= p.age => r.frame >= p.frame + 1
    BY <1>1, <2>1, LoadRunKeeps
  <2>3. r \in Player
    BY <1>1, <2>1, LoadRunTyped
  <2> HIDE DEF r
  <2>4. r.frame \in Nat
    BY <2>3 DEF Player
  <2>5. q = r
    BY <1>2, <1>7 DEF r
  <2>6. r.frame >= p.frame
    BY <1>1, <1>4, <1>7, <2>2, <2>4
  <2> QED
    BY <1>3, <1>7, <2>2, <2>5, <2>6 DEF q
<1> QED
  BY <1>5, <1>6, <1>7

(* The decoder and the texture hold the current frame of the film.         *)
Shown(p) ==
  /\ p.source = p.video
  /\ p.decoder = p.picture
  /\ p.picture = [film |-> p.video, frame |-> p.frame]

(* Catching up keeps that, or ends the film.                               *)
LEMMA PumpShows ==
  ASSUME NEW p \in Player, Shown(p), ~Pump(p).done
  PROVE  Shown(Pump(p))
<1> DEFINE q == Pump(p)
           idle == p.done \/ ~p.texture \/ p.age <= p.frame
           over == p.age >= Len(Frames(p.video))
<1>1. p.age \in Nat /\ p.frame \in Nat /\ p.frame + 1 \in Nat
  BY DEF Player
<1>2. /\ idle => q = p
      /\ ~idle /\ over => q = [p EXCEPT !.done = TRUE]
      /\ ~idle /\ ~over => q = LoadRun(p, p.frame + 1, p.age)
  BY PumpCases
<1>3. ~idle => p.frame + 1 <= p.age
  BY <1>1
<1> HIDE DEF idle, over
<1>4. CASE idle
  BY <1>2, <1>4
<1>5. CASE ~idle /\ over
  BY <1>2, <1>5 DEF Player
<1>6. CASE ~idle /\ ~over
  <2> DEFINE from == p.frame + 1
             r == LoadRun(p, from, p.age)
             pic == Decode(p.decoder, p.source, from, p.age)
  <2>1. q = r /\ from <= p.age /\ from \in Nat
    BY <1>1, <1>2, <1>3, <1>6
  <2>2. \A i \in from .. p.age : Loadable(p, i)
    <3>1. (\E i \in from .. p.age : ~Loadable(p, i)) => r.done
      BY <1>1, <2>1, LoadRunKeeps
    <3> QED
      BY <2>1, <3>1
  <2>3. r = [p EXCEPT !.decoder = pic, !.picture = pic, !.frame = p.age]
    BY <1>1, <2>1, <2>2, LoadRunLoads, Zenon
  <2>4. p.decoder = [film |-> p.source, frame |-> from - 1]
    BY <1>1 DEF Shown
  <2>5. pic = [film |-> p.source, frame |-> p.age]
    <3>1. ~(p.age < from) /\ p.age >= from
      BY <1>1, <2>1
    <3> QED
      BY <2>4, <3>1, Zenon DEF Decode
  <2> HIDE DEF r, pic, from, q
  <2>6. /\ r.source = p.source /\ r.video = p.video /\ r.frame = p.age
        /\ r.decoder = pic /\ r.picture = pic
    BY <2>3 DEF Player
  <2>7. p.source = p.video
    BY DEF Shown
  <2> QED
    BY <2>1, <2>5, <2>6, <2>7 DEF Shown, q
<1> QED
  BY <1>4, <1>5, <1>6

(* A film that could not be opened stays over when it is attached all the  *)
(* same.                                                                   *)
LEMMA AttachStaysOver ==
  ASSUME NEW p \in Player, p.done, NEW created \in BOOLEAN
  PROVE  Attach(p, created).done
<1> DEFINE blank == [p EXCEPT !.texture = created, !.picture = Blank]
           clocked == [blank EXCEPT !.age = 0]
<1>1. blank \in Player /\ blank.done
  BY DEF Player, Picture
<1>2. clocked \in Player /\ clocked.done
  BY DEF Player, Picture
<1>3. Attach(p, created) \in {p, blank, LoadRun(clocked, 0, 0)}
  BY DEF Attach
<1> HIDE DEF blank, clocked
<1>4. LoadRun(clocked, 0, 0).done
  BY <1>2, LoadRunKeeps
<1> QED
  BY <1>1, <1>3, <1>4

(* A film that could be opened shows its first frame, if it shows any, and *)
(* an undamaged one is not over.                                           *)
LEMMA OpenedShows ==
  ASSUME NEW p \in Player, NEW f \in SceneIds, OpenOk(f), NEW created \in BOOLEAN
  PROVE  LET q == Attach(Open(p, f), created) IN
         /\ q.video = f
         /\ q.texture /\ ~q.done => Shown(q) /\ q.frame = 0 /\ q.age = 0
         /\ Undamaged(Frames(f)) => ~q.done
         /\ 0 < Len(Frames(f))
<1> DEFINE q == Attach(Open(p, f), created)
<1>1. /\ q.source = f /\ q.video = f /\ q.texture = created
      /\ ~created => ~q.done
      /\ created /\ Frames(f)[1] = "bad" => q.done
      /\ created /\ Frames(f)[1] # "bad" =>
           /\ ~q.done /\ q.frame = 0 /\ q.age = 0
           /\ q.picture = [film |-> f, frame |-> 0] /\ q.decoder = q.picture
  BY AttachAfterOpen
<1>2. Frames(f) # <<>> /\ Frames(f) \in Seq(FrameData)
  BY FilmTyped DEF OpenOk
<1>3. Len(Frames(f)) \in Nat /\ 0 < Len(Frames(f)) /\ 1 \in DOMAIN Frames(f)
  BY <1>2, EmptySeq
<1> HIDE DEF q
<1>4. ASSUME q.texture, ~q.done
      PROVE  Shown(q) /\ q.frame = 0 /\ q.age = 0
  <2>1. created
    BY <1>1, <1>4
  <2>2. Frames(f)[1] # "bad"
    BY <1>1, <1>4, <2>1
  <2>3. /\ q.frame = 0 /\ q.age = 0
        /\ q.picture = [film |-> f, frame |-> 0] /\ q.decoder = q.picture
    BY <1>1, <2>1, <2>2
  <2> QED
    BY <1>1, <2>3 DEF Shown
<1>5. ASSUME Undamaged(Frames(f))
      PROVE  ~q.done
  <2>1. Frames(f)[1] # "bad"
    BY <1>3, <1>5 DEF Undamaged
  <2> QED
    BY <1>1, <2>1
<1> QED
  BY <1>1, <1>3, <1>4, <1>5 DEF q

LEMMA QueuedTyped ==
  ASSUME NEW p \in Player, NEW created \in BOOLEAN
  PROVE  /\ Queued(p, created) \in Seq(SceneIds)
         /\ Queued(p, created) \in {<<>>, <<p.video>>}
<1>1. CASE p.video = NoFilm
  <2>1. Queued(p, created) = <<>>
    BY <1>1, FilmTyped DEF Queued
  <2> QED
    BY <2>1
<1>2. CASE p.video # NoFilm
  <2>1. p.video \in SceneIds
    BY <1>2 DEF Player
  <2>2. Queued(p, created) \in {<<>>, <<p.video>>}
    BY DEF Queued
  <2>3. <<>> \in Seq(SceneIds)
    BY EmptySeq
  <2>4. <<p.video>> \in Seq(SceneIds)
    BY <2>1
  <2> QED
    BY <2>2, <2>3, <2>4
<1> QED
  BY <1>1, <1>2

-----------------------------------------------------------------------------
(* The invariant. A film that plays is shown as it is counted; and one that*)
(* is pumped in every frame period is at most one frame behind the clock,  *)
(* so that when it ends nothing of it is left.                             *)

Types ==
  /\ player \in Player
  /\ playable \in BOOLEAN /\ opened \in BOOLEAN
  /\ pumped \in BOOLEAN /\ late \in BOOLEAN
  /\ queue \in Seq(SceneIds) /\ opens \in Nat

Timely == playable /\ opened /\ ~late /\ Undamaged(Frames(player.video))

UpToDate ==
  /\ player.frame < Len(Frames(player.video))
  /\ player.age <= player.frame + 1
  /\ pumped => player.age <= player.frame

IInv ==
  /\ Types
  /\ Playing => Shown(player)
  /\ Playing /\ Timely => UpToDate
  /\ Timely /\ player.done => AllPresented

LEMMA IInvInit == PlaybackInit => IInv
<1> SUFFICES ASSUME PlaybackInit PROVE IInv
  OBVIOUS
<1>1. Types
  BY NewPlayerTyped, EmptySeq DEF PlaybackInit, Types
<1>2. ~playable
  BY DEF PlaybackInit
<1> QED
  BY <1>1, <1>2 DEF IInv, Playing, Timely

(* After a film was opened and attached, with its result looked at or not. *)
LEMMA AttachedInv ==
  ASSUME IInv, NEW f \in SceneIds, NEW created \in BOOLEAN,
         player' = Attach(Open(player, f), created),
         opened' = OpenOk(f), playable' \in BOOLEAN,
         pumped' = TRUE, late' = FALSE,
         queue' \in Seq(SceneIds), opens' \in Nat
  PROVE  IInv'
<1>1. player \in Player /\ Open(player, f) \in Player
  BY OpenTyped DEF IInv, Types
<1>2. OpenOk(f) \in BOOLEAN
  BY DEF OpenOk
<1>3. player' \in Player
  BY <1>1, AttachTyped
<1>4. Types'
  BY <1>2, <1>3 DEF Types
<1>5. CASE OpenOk(f)
  <2>1. /\ player'.video = f
        /\ player'.texture /\ ~player'.done =>
             Shown(player') /\ player'.frame = 0 /\ player'.age = 0
        /\ Undamaged(Frames(f)) => ~player'.done
        /\ 0 < Len(Frames(f))
    BY <1>1, <1>5, OpenedShows
  <2>2. Playing' => Shown(player') /\ UpToDate'
    BY <2>1 DEF Playing, UpToDate
  <2>3. Timely' => ~player'.done
    BY <2>1 DEF Timely
  <2> QED
    BY <1>4, <2>2, <2>3 DEF IInv
<1>6. CASE ~OpenOk(f)
  <2>1. Open(player, f).done
    BY <1>1, <1>6, OpenFields
  <2>2. player'.done
    BY <1>1, <2>1, AttachStaysOver
  <2>3. ~opened'
    BY <1>6
  <2> QED
    BY <1>4, <2>2, <2>3 DEF IInv, Playing, Timely
<1> QED
  BY <1>5, <1>6

LEMMA TrackQueued ==
  ASSUME queue \in Seq(SceneIds), NEW track \in Seq(SceneIds), QueueTrack(track)
  PROVE  queue' \in Seq(SceneIds)
<1>1. queue \o track \in Seq(SceneIds)
  BY ConcatProperties
<1> QED
  BY <1>1 DEF QueueTrack

LEMMA EnterInv ==
  ASSUME IInv, NEW f \in SceneIds, NEW created \in BOOLEAN, EnterScene(f, created)
  PROVE  IInv'
<1>1. Types
  BY DEF IInv
<1>2. opens' \in Nat /\ pumped' = TRUE /\ late' = FALSE
  BY <1>1 DEF EnterScene, Types
<1>3. CASE Film[f].kind = "absent"
  <2>1. playable' = FALSE /\ UNCHANGED <<player, queue, opened>>
    BY <1>3 DEF EnterScene
  <2> QED
    BY <1>1, <1>2, <2>1 DEF IInv, Types, Playing, Timely
<1>4. CASE Film[f].kind # "absent" /\ ~OpenOk(f)
  <2>1. /\ playable' = FALSE /\ opened' = FALSE /\ queue' = queue
        /\ player' = Open(player, f)
    BY <1>4 DEF EnterScene
  <2>2. player' \in Player
    BY <1>1, <2>1, OpenTyped DEF Types
  <2> QED
    BY <1>1, <1>2, <2>1, <2>2 DEF IInv, Types, Playing, Timely
<1>5. CASE Film[f].kind # "absent" /\ OpenOk(f)
  <2>1. /\ player' = Attach(Open(player, f), created)
        /\ playable' = AttachOk(Open(player, f), created)
        /\ opened' = TRUE
        /\ QueueTrack(Queued(Open(player, f), created))
    BY <1>5 DEF EnterScene
  <2>2. playable' \in BOOLEAN /\ opened' = OpenOk(f)
    BY <1>5, <2>1 DEF AttachOk, OpenOk
  <2>3. Open(player, f) \in Player
    BY <1>1, OpenTyped DEF Types
  <2>4. queue' \in Seq(SceneIds)
    BY <1>1, <2>1, <2>3, QueuedTyped, TrackQueued DEF Types
  <2> QED
    BY <1>2, <2>1, <2>2, <2>4, AttachedInv
<1> QED
  BY <1>3, <1>4, <1>5

LEMMA ReplayInv ==
  ASSUME IInv, NEW f \in SceneIds, NEW created \in BOOLEAN, Replay(f, created)
  PROVE  IInv'
<1>1. Types
  BY DEF IInv
<1>2. /\ opens' \in Nat /\ pumped' = TRUE /\ late' = FALSE /\ playable' \in BOOLEAN
      /\ player' = Attach(Open(player, f), created)
      /\ opened' = OpenOk(f)
      /\ QueueTrack(Queued(Open(player, f), created))
  BY <1>1 DEF Replay, Types
<1>3. Open(player, f) \in Player
  BY <1>1, OpenTyped DEF Types
<1>4. queue' \in Seq(SceneIds)
  BY <1>1, <1>2, <1>3, QueuedTyped, TrackQueued DEF Types
<1> QED
  BY <1>2, <1>4, AttachedInv

(* A pump that is not late ends a film at its last frame, or shows the next*)
(* one.                                                                    *)
LEMMA PumpInv ==
  ASSUME IInv, PumpFrame
  PROVE  IInv'
<1>1. Types
  BY DEF IInv
<1>2. /\ player' = Pump(player) /\ pumped' = TRUE /\ playable
      /\ UNCHANGED <<playable, audio, queue, opened, opens, late>>
  BY DEF PumpFrame
<1>3. player \in Player /\ player' \in Player
  BY <1>1, <1>2, PumpTyped DEF Types
<1>4. /\ player'.source = player.source /\ player'.video = player.video
      /\ player'.texture = player.texture /\ player'.age = player.age
      /\ player'.frame >= player.frame
      /\ player.done => player' = player
  BY <1>2, <1>3, PumpKeeps
<1>5. Types'
  BY <1>1, <1>2, <1>3 DEF Types
<1>6. CASE player.done
  <2>1. player' = player
    BY <1>4, <1>6
  <2> QED
    BY <1>2, <1>5, <1>6, <2>1 DEF IInv, Playing, Timely, AllPresented
<1>7. CASE ~player.done /\ ~player.texture
  <2>1. player' = player
    BY <1>2, <1>3, <1>7, PumpCases
  <2> QED
    BY <1>5, <1>7, <2>1 DEF IInv, Playing
<1>8. CASE ~player.done /\ player.texture
  <2>1. Playing /\ Shown(player)
    BY <1>2, <1>8 DEF IInv, Playing
  <2>2. Playing' => Shown(player')
    BY <1>2, <1>3, <2>1, PumpShows DEF Playing
  <2>3. /\ player.age \in Nat /\ player.frame \in Nat /\ player'.frame \in Nat
    BY <1>3 DEF Player
  <2>4. Len(Frames(player.video)) \in Nat
    BY <1>3, FilmTyped DEF Player
  <2>5. ASSUME Timely'
        PROVE  /\ ~player'.done => UpToDate'
               /\ player'.done => AllPresented'
    <3>1. Timely /\ UpToDate
      BY <1>2, <1>4, <2>1, <2>5 DEF Timely, IInv
    <3>2. CASE player.age <= player.frame
      <4>1. player' = player
        BY <1>2, <1>3, <3>2, PumpCases
      <4> QED
        BY <1>8, <3>1, <3>2, <4>1 DEF UpToDate
    <3>3. CASE ~(player.age <= player.frame) /\ player.age >= Len(Frames(player.video))
      <4>1. player' = [player EXCEPT !.done = TRUE]
        BY <1>2, <1>3, <1>8, <3>3, PumpCases
      <4>2. player.frame = Len(Frames(player.video)) - 1
        BY <2>3, <2>4, <3>1, <3>3 DEF UpToDate
      <4>3. player'.done /\ player'.picture = player.picture /\ player'.video = player.video
        BY <1>3, <4>1 DEF Player
      <4> QED
        BY <2>1, <4>2, <4>3 DEF Shown, AllPresented
    <3>4. CASE ~(player.age <= player.frame) /\ ~(player.age >= Len(Frames(player.video)))
      <4> DEFINE n == player.frame + 1
      <4>1. player.age = n /\ n \in Nat /\ n < Len(Frames(player.video))
        BY <2>3, <2>4, <3>1, <3>4 DEF UpToDate
      <4>2. player' = LoadRun(player, n, player.age)
        BY <1>2, <1>3, <1>8, <3>4, PumpCases
      <4>3. player' = LoadRun(player, n, n)
        BY <4>1, <4>2
      <4>4. Loadable(player, n)
        <5>1. Undamaged(Frames(player.video))
          BY <3>1 DEF Timely
        <5>2. n + 1 \in DOMAIN Frames(player.video)
          <6>1. Frames(player.video) \in Seq(FrameData)
            BY <1>3, FilmTyped DEF Player
          <6> QED
            BY <2>4, <4>1, <6>1
        <5>3. Frames(player.video)[n + 1] # "bad"
          BY <5>1, <5>2 DEF Undamaged
        <5> QED
          BY <2>1, <4>1, <5>3 DEF Shown, Loadable
      <4> HIDE DEF n
      <4>5. \A i \in n .. n : Loadable(player, i)
        BY <4>1, <4>4
      <4>6. n <= n
        BY <4>1
      <4> DEFINE pic == Decode(player.decoder, player.source, n, n)
      <4>7. player' = [player EXCEPT !.decoder = pic, !.picture = pic, !.frame = n]
        <5>1. n \in Nat /\ player \in Player
          BY <1>3, <4>1
        <5>2. LoadRun(player, n, n)
                = [player EXCEPT !.decoder = pic, !.picture = pic, !.frame = n]
          BY <4>5, <4>6, <5>1, LoadRunLoads, Zenon
        <5> QED
          BY <4>3, <5>2
      <4> HIDE DEF pic
      <4>8. player'.frame = n /\ player'.done = player.done
        BY <1>3, <4>7 DEF Player
      <4>9. UpToDate'
        BY <1>4, <4>1, <4>8 DEF UpToDate
      <4> QED
        BY <1>8, <4>8, <4>9
    <3> QED
      BY <3>2, <3>3, <3>4
  <2> QED
    BY <1>5, <2>2, <2>5 DEF IInv, Playing
<1> QED
  BY <1>6, <1>7, <1>8

LEMMA TickInv ==
  ASSUME IInv, FramePeriod
  PROVE  IInv'
<1>1. Types
  BY DEF IInv
<1>2. /\ player' = [player EXCEPT !.age = @ + 1]
      /\ pumped' = FALSE /\ late' = (late \/ ~pumped)
      /\ UNCHANGED <<playable, audio, queue, opened, opens>>
  BY DEF FramePeriod
<1>3. /\ player.age \in Nat /\ player.frame \in Nat
      /\ player' \in Player
      /\ player'.age = player.age + 1
      /\ player'.source = player.source /\ player'.video = player.video
      /\ player'.texture = player.texture /\ player'.picture = player.picture
      /\ player'.decoder = player.decoder /\ player'.frame = player.frame
      /\ player'.done = player.done
  BY <1>1, <1>2 DEF Types, Player
<1>4. Types'
  BY <1>1, <1>2, <1>3 DEF Types
<1>5. (Playing' <=> Playing) /\ (Shown(player') <=> Shown(player))
  BY <1>2, <1>3 DEF Playing, Shown
<1>6. Timely' => Timely /\ pumped
  BY <1>2, <1>3 DEF Timely
<1>7. pumped /\ UpToDate => UpToDate'
  BY <1>2, <1>3 DEF UpToDate
<1>8. AllPresented' <=> AllPresented
  BY <1>3 DEF AllPresented
<1> QED
  BY <1>3, <1>4, <1>5, <1>6, <1>7, <1>8 DEF IInv

LEMMA IInvStep == IInv /\ [PlaybackNext]_playback_vars => IInv'
<1> SUFFICES ASSUME IInv, [PlaybackNext]_playback_vars PROVE IInv'
  OBVIOUS
<1>1. CASE TrackEnds
  <2>1. Tail(queue) \in Seq(SceneIds)
    BY <1>1, HeadTailProperties DEF TrackEnds, IInv, Types
  <2> QED
    BY <1>1, <2>1 DEF TrackEnds, IInv, Types, Playing, Timely, UpToDate, AllPresented
<1>2. CASE UNCHANGED playback_vars
  BY <1>2 DEF playback_vars, IInv, Types, Playing, Timely, UpToDate, AllPresented
<1> QED
  BY <1>1, <1>2, EnterInv, ReplayInv, PumpInv, TickInv DEF PlaybackNext, Drive

-----------------------------------------------------------------------------
(* While a film plays, the texture holds a clean decode of the frame the   *)
(* player counts, whatever was opened, replayed or pumped late before.     *)
THEOREM PlaybackShowsCurrentFrame == PlaybackSpec => []PictureIsCurrentFrame
<1>1. IInv => PictureIsCurrentFrame
  BY DEF IInv, Shown, PictureIsCurrentFrame
<1> QED
  BY <1>1, IInvInit, IInvStep, PTL DEF PlaybackSpec

(* Pumped in every frame period, a film without damaged frames is over only*)
(* when its last frame is on the texture.                                  *)
THEOREM PlaybackIsComplete == PlaybackSpec => []TimelyFilmIsComplete
<1>1. IInv => TimelyFilmIsComplete
  BY DEF IInv, Timely, TimelyFilmIsComplete
<1> QED
  BY <1>1, IInvInit, IInvStep, PTL DEF PlaybackSpec

(* Between two opens the frame never goes back, and a film that is over    *)
(* stays over and keeps its picture.                                       *)
THEOREM PlaybackGoesForward == PlaybackSpec => PlaysForward
<1>1. IInv /\ [PlaybackNext]_playback_vars =>
        [opens' = opens =>
           /\ player'.frame >= player.frame
           /\ player.done => player'.done /\ player'.picture = player.picture]_playback_vars
  <2> SUFFICES ASSUME IInv, [PlaybackNext]_playback_vars, opens' = opens
               PROVE  /\ player'.frame >= player.frame
                      /\ player.done => player'.done /\ player'.picture = player.picture
    OBVIOUS
  <2>1. player \in Player /\ player.frame \in Nat /\ opens \in Nat
    BY DEF IInv, Types, Player
  <2>2. CASE Drive
    <3>1. opens' = opens + 1
      BY <2>2 DEF Drive, EnterScene, Replay
    <3> QED
      BY <2>1, <3>1
  <2>3. CASE PumpFrame
    BY <2>1, <2>3, PumpKeeps DEF PumpFrame
  <2>4. CASE FramePeriod
    <3>1. player'.frame = player.frame /\ player'.done = player.done
          /\ player'.picture = player.picture
      BY <2>1, <2>4 DEF FramePeriod, Player
    <3> QED
      BY <2>1, <3>1
  <2>5. CASE TrackEnds \/ UNCHANGED playback_vars
    <3>1. player' = player
      BY <2>5 DEF TrackEnds, playback_vars
    <3> QED
      BY <2>1, <3>1
  <2> QED
    BY <2>2, <2>3, <2>4, <2>5 DEF PlaybackNext
<1> QED
  BY <1>1, IInvInit, IInvStep, PTL DEF PlaybackSpec, PlaysForward

-----------------------------------------------------------------------------
(* The helpers of main stay within their types.                            *)

LEMMA StepsTyped ==
  /\ Len(Flow) \in Nat
  /\ Steps \in SUBSET Nat /\ \A i \in Steps : i \in Nat
  /\ \A i \in Steps : LocationOf(i) \in Locations
<1>1. Len(Flow) \in Nat /\ Flow \in Seq(Locations)
  BY LenProperties, ShellAssumption
<1>2. \A i \in Steps : i + 1 \in 1 .. Len(Flow)
  BY <1>1 DEF Steps
<1> QED
  BY <1>1, <1>2, ElementOfSeq DEF Steps, LocationOf

LEMMA EnterableTyped ==
  ASSUME NEW l \in Enterable
  PROVE  /\ l \in Locations /\ l # NoLocation
         /\ Resolve(l) \in HotScenes
         /\ Resolve(l) \in SceneIds
<1>1. l \in Locations /\ Resolve(l) # NoScene
  BY DEF Enterable
<1>2. l # NoLocation
  BY <1>1, SceneAssumption
<1> QED
  BY <1>1, <1>2, SceneForTyped, ShellAssumption, SceneAssumption DEF Resolve

LEMMA FirstStepAtTyped ==
  ASSUME NEW l
  PROVE  /\ FirstStepAt(l) \in Steps \cup {-1}
         /\ FirstStepAt(l) # -1 => LocationOf(FirstStepAt(l)) = l
<1> DEFINE S == {i \in Steps : LocationOf(i) = l}
<1>1. S # {} => Min(S) \in S
  BY StepsTyped, MinExists
<1>2. CASE S = {}
  BY <1>2 DEF FirstStepAt
<1>3. CASE S # {}
  BY <1>1, <1>3 DEF FirstStepAt
<1> QED
  BY <1>2, <1>3

LEMMA FireEntryTyped ==
  ASSUME NEW l \in Locations \cup {NoLocation}, NEW state \in VariableState
  PROVE  FireEntry(l, state) \in VariableState
BY DispatchSceneTyped, ShellAssumption DEF FireEntry

LEMMA EmptyStateTyped == EmptyState \in VariableState
BY DEF EmptyState, VariableState, NoValues, Values

LEMMA ShowFilmTyped ==
  ASSUME NEW s \in SceneIds, NEW p \in Player, NEW created \in BOOLEAN
  PROVE  /\ ShowFilm(s, p, created).player \in Player
         /\ ShowFilm(s, p, created).ok \in BOOLEAN
<1>1. Open(p, s) \in Player
  BY OpenTyped
<1>2. Attach(Open(p, s), created) \in Player
  BY <1>1, AttachTyped
<1>3. AttachOk(Open(p, s), created) \in BOOLEAN
  BY DEF AttachOk, Loadable
<1> QED
  BY <1>1, <1>2, <1>3 DEF ShowFilm

LEMMA LoadStateTyped ==
  ASSUME NEW file \in Snapshot
  PROVE  LoadState(file) \in VariableState
BY VarsOfKindTyped DEF LoadState, Snapshot, VariableState

-----------------------------------------------------------------------------
(* The index SPACE and BACKSPACE move to is a step of the flow. *)
LEMMA StepIndexTyped ==
  ASSUME TypeOK
  PROVE  /\ CanAdvance => step_idx \in Steps /\ step_idx + 1 \in Steps
         /\ step_idx > 0 => step_idx \in Steps /\ step_idx - 1 \in Steps
BY StepsTyped DEF CanAdvance, Steps, TypeOK

(* Entering a step, in both of its outcomes, keeps the types.              *)

LEMMA EnterStepTyped ==
  ASSUME TypeOK, up, NEW i \in Steps, NEW created \in BOOLEAN,
         EnterStep(i, created), entries < MaxEntries
  PROVE  /\ scene_id' \in SceneIds
         /\ resolved_location' \in Locations \cup {NoLocation}
         /\ rects' \in Seq(Hotspot)
         /\ vs' \in VariableState
         /\ fmv' \in Player /\ fmv_ok' \in BOOLEAN
         /\ anchor' \in {i, anchor}
         /\ entries' \in 0 .. MaxEntries /\ fresh' \in BOOLEAN
<1>1. CASE LocationOf(i) \in Enterable
  <2> DEFINE l == LocationOf(i)
  <2>1. l \in Locations /\ Resolve(l) \in SceneIds
    BY <1>1, EnterableTyped
  <2>2. /\ ShowFilm(Resolve(l), fmv, created).player \in Player
        /\ ShowFilm(Resolve(l), fmv, created).ok \in BOOLEAN
    BY <2>1, ShowFilmTyped DEF TypeOK
  <2>3. FireEntry(l, vs) \in VariableState
    BY <2>1, FireEntryTyped DEF TypeOK
  <2>4. Rects[Resolve(l)] \in Seq(Hotspot)
    BY <2>1, ShellAssumption
  <2>5. entries + 1 \in 0 .. MaxEntries
    BY ShellAssumption DEF TypeOK
  <2> QED
    BY <1>1, <2>1, <2>2, <2>3, <2>4, <2>5 DEF EnterStep
<1>2. CASE LocationOf(i) \notin Enterable
  BY <1>2 DEF EnterStep, TypeOK
<1> QED
  BY <1>1, <1>2

(* The shell's variables keep their types. Two of the conjuncts are about  *)
(* more than types: a live shell is always at some scene, and it has an    *)
(* index into the flow exactly when it has entered a step of it.           *)
THEOREM ShellTypes == Spec => []TypeOK
<1>1. Init => TypeOK
  <2> SUFFICES ASSUME Init PROVE TypeOK
    OBVIOUS
  <2>1. rects \in Seq(Hotspot)
    BY EmptySeq DEF Init
  <2>2. save_file \in Snapshot \cup {NoFile, Damaged}
    BY ShellAssumption DEF Init
  <2>3. clicks \in 0 .. MaxClicks /\ entries \in 0 .. MaxEntries
    BY ShellAssumption DEF Init
  <2>4. vs \in VariableState /\ fmv \in Player
    BY EmptyStateTyped, NewPlayerTyped DEF Init
  <2>5. /\ up \in BOOLEAN /\ running \in BOOLEAN /\ debug \in BOOLEAN
        /\ fmv_ok \in BOOLEAN /\ fresh \in BOOLEAN /\ ~up
    BY DEF Init
  <2>6. /\ boot_scene = NoScene /\ scene_id = NoScene /\ step_idx = -1
        /\ resolved_location = NoLocation /\ anchor = -1 /\ last_action_id = 0
    BY DEF Init
  <2> QED
    BY <2>1, <2>2, <2>3, <2>4, <2>5, <2>6 DEF TypeOK
<1>2. TypeOK /\ [Next]_vars => TypeOK'
  <2> SUFFICES ASSUME TypeOK, [Next]_vars PROVE TypeOK'
    OBVIOUS
  <2> USE DEF place, pointer
  <2>1. ASSUME NEW l \in Locations \cup {NoLocation}, NEW s \in StartScenes,
               NEW created \in BOOLEAN, Launch(l, s, created)
        PROVE  TypeOK'
    <3> DEFINE found == l # NoLocation /\ l \in Enterable
               scene == IF found THEN Resolve(l) ELSE s
               here == IF found THEN l ELSE NoLocation
    <3>1. scene \in SceneIds /\ here \in Locations \cup {NoLocation}
      BY EnterableTyped, ShellAssumption
    <3>2. /\ ShowFilm(scene, NewPlayer, created).player \in Player
          /\ ShowFilm(scene, NewPlayer, created).ok \in BOOLEAN
      BY <3>1, ShowFilmTyped, NewPlayerTyped
    <3>3. FireEntry(here, EmptyState) \in VariableState
      BY <3>1, FireEntryTyped, EmptyStateTyped
    <3>4. Rects[scene] \in Seq(Hotspot)
      BY <3>1, ShellAssumption
    <3>5. step_idx' \in Steps \cup {-1} /\ anchor' = step_idx'
      BY <2>1, FirstStepAtTyped DEF Launch
    <3>6. /\ up' /\ running' = TRUE /\ boot_scene' = scene /\ scene_id' = scene
          /\ resolved_location' = here /\ rects' = Rects[scene]
          /\ vs' = FireEntry(here, EmptyState)
          /\ fmv' = ShowFilm(scene, NewPlayer, created).player
          /\ fmv_ok' = ShowFilm(scene, NewPlayer, created).ok
          /\ clicks' = 0 /\ last_action_id' = 0 /\ debug' \in BOOLEAN
          /\ entries' = 0 /\ fresh' = TRUE /\ save_file' = save_file
          /\ up' \in BOOLEAN
      BY <2>1 DEF Launch
    <3> HIDE DEF scene, here
    <3> QED
      BY <3>1, <3>2, <3>3, <3>4, <3>5, <3>6, ShellAssumption DEF TypeOK
  <2>2. ASSUME NEW created \in BOOLEAN, SpaceAdvance(created) PROVE TypeOK'
    <3>1. step_idx + 1 \in Steps
      BY <2>2, StepIndexTyped DEF SpaceAdvance
    <3>2. up /\ entries < MaxEntries /\ EnterStep(step_idx + 1, created)
      BY <2>2 DEF SpaceAdvance
    <3>3. anchor' \in Steps
      BY <2>2, <3>1, <3>2, EnterStepTyped DEF SpaceAdvance, CanAdvance, TypeOK
    <3>4. anchor' # -1 /\ step_idx + 1 # -1
      BY <3>1, <3>3, StepsTyped
    <3> QED
      BY <2>2, <3>1, <3>2, <3>3, <3>4, EnterStepTyped DEF SpaceAdvance, TypeOK
  <2>3. ASSUME NEW created \in BOOLEAN, Backspace(created) PROVE TypeOK'
    <3>1. step_idx - 1 \in Steps
      BY <2>3, StepIndexTyped DEF Backspace
    <3>2. up /\ entries < MaxEntries /\ EnterStep(step_idx - 1, created)
      BY <2>3 DEF Backspace
    <3>3. anchor' \in Steps
      BY <2>3, <3>1, <3>2, EnterStepTyped DEF Backspace, TypeOK
    <3>4. anchor' # -1 /\ step_idx - 1 # -1
      BY <3>1, <3>3, StepsTyped
    <3> QED
      BY <2>3, <3>1, <3>2, <3>3, <3>4, EnterStepTyped DEF Backspace, TypeOK
  <2>4. ASSUME NEW created \in BOOLEAN, SpaceReplay(created) PROVE TypeOK'
    <3>1. Open(fmv, boot_scene) \in Player
      BY <2>4, OpenTyped DEF SpaceReplay, TypeOK
    <3>2. Attach(Open(fmv, boot_scene), created) \in Player
      BY <3>1, AttachTyped
    <3> QED
      BY <2>4, <3>2 DEF SpaceReplay, TypeOK
  <2>5. CASE SaveState
    <3>1. SaveText(vs) \in Snapshot
      BY DEF SaveText, Snapshot, TypeOK, VariableState
    <3> QED
      BY <2>5, <3>1 DEF SaveState, TypeOK
  <2>6. CASE SaveCut
    BY <2>6 DEF SaveCut, TypeOK
  <2>7. CASE LoadSave
    <3>1. LoadState(save_file) \in VariableState
      BY <2>7, LoadStateTyped DEF LoadSave, TypeOK
    <3> QED
      BY <2>7, <3>1 DEF LoadSave, TypeOK
  <2>8. CASE ToggleDebug
    BY <2>8 DEF ToggleDebug, TypeOK
  <2>9. ASSUME NEW pt \in Points, Click(pt) PROVE TypeOK'
    <3> DEFINE i == Min(Hits(rects, pt))
    <3>1. DOMAIN rects = 1 .. Len(rects) /\ Len(rects) \in Nat
      BY LenProperties DEF TypeOK
    <3>2. Hits(rects, pt) \in SUBSET Nat
      BY <3>1 DEF Hits
    <3>3. i \in Hits(rects, pt)
      BY <2>9, <3>2, MinExists DEF Click
    <3>4. i \in 1 .. Len(rects)
      BY <3>1, <3>3 DEF Hits
    <3>5. rects[i] \in Hotspot
      BY <3>4, ElementOfSeq DEF TypeOK
    <3>6. rects[i].action_id_1 \in Nat
      BY <3>5 DEF Hotspot
    <3>7. last_action_id' \in Nat
      BY <2>9, <3>6 DEF Click
    <3>8. clicks' \in 0 .. MaxClicks
      BY <2>9, ShellAssumption DEF Click, TypeOK
    <3> QED
      BY <2>9, <3>7, <3>8 DEF Click, TypeOK
  <2>10. CASE Quit
    BY <2>10 DEF Quit, TypeOK
  <2>11. CASE EndOfFrame
    <3>1. Pump(fmv) \in Player
      BY PumpTyped DEF TypeOK
    <3> QED
      BY <2>11, <3>1 DEF EndOfFrame, TypeOK
  <2>12. CASE Tick
    <3>1. [fmv EXCEPT !.age = @ + 1] \in Player
      BY DEF TypeOK, Player
    <3> QED
      BY <2>12, <3>1 DEF Tick, TypeOK
  <2>13. CASE Crash
    BY <2>13 DEF Crash, TypeOK
  <2>14. CASE UNCHANGED vars
    BY <2>14 DEF vars, TypeOK
  <2> QED
    BY <2>1, <2>2, <2>3, <2>4, <2>5, <2>6, <2>7, <2>8, <2>9, <2>10, <2>11,
       <2>12, <2>13, <2>14 DEF Next, Walk
<1> QED
  BY <1>1, <1>2, PTL DEF Spec
-----------------------------------------------------------------------------
(* Which steps can move the player, and which can change the variables.    *)

LEMMA StepCases ==
  ASSUME [Next]_vars
  PROVE  \/ \E l \in Locations \cup {NoLocation}, s \in StartScenes,
              created \in BOOLEAN : Launch(l, s, created)
         \/ \E created \in BOOLEAN :
              SpaceAdvance(created) \/ Backspace(created)
         \/ LoadSave
         \/ SaveState \/ SaveCut
         \/ UNCHANGED <<place, vs, save_file, entries, fresh>> /\ (up' => up)
<1> USE DEF place, pointer
<1>1. \A created \in BOOLEAN : SpaceReplay(created) =>
        UNCHANGED <<place, vs, save_file, entries, fresh>> /\ (up' => up)
  BY DEF SpaceReplay
<1>2. ToggleDebug \/ Quit \/ Tick \/ Crash =>
        UNCHANGED <<place, vs, save_file, entries, fresh>> /\ (up' => up)
  BY DEF ToggleDebug, Quit, Tick, Crash
<1>3. EndOfFrame =>
        UNCHANGED <<place, vs, save_file, entries, fresh>> /\ (up' => up)
  BY DEF EndOfFrame
<1>4. \A pt \in Points : Click(pt) =>
        UNCHANGED <<place, vs, save_file, entries, fresh>> /\ (up' => up)
  BY DEF Click
<1>5. UNCHANGED vars =>
        UNCHANGED <<place, vs, save_file, entries, fresh>> /\ (up' => up)
  BY DEF vars
<1> QED
  BY <1>1, <1>2, <1>3, <1>4, <1>5 DEF Next, Walk

(* Saving and loading leave the player where it is. *)
LEMMA SavesStay ==
  ASSUME SaveState \/ SaveCut \/ LoadSave
  PROVE  UNCHANGED place /\ up
BY DEF SaveState, SaveCut, LoadSave, place

-----------------------------------------------------------------------------
(* The scene, its hotspots and the location belong together, for every     *)
(* flow, scene map and set of hotspot files.                               *)
THEOREM ShellSceneMatchesPlace == Spec => []SceneMatchesPlace
<1>1. Init => SceneMatchesPlace
  BY DEF Init, SceneMatchesPlace
<1>2. SceneMatchesPlace /\ [Next]_vars => SceneMatchesPlace'
  <2> SUFFICES ASSUME SceneMatchesPlace, [Next]_vars PROVE SceneMatchesPlace'
    OBVIOUS
  <2>1. ASSUME NEW l \in Locations \cup {NoLocation}, NEW s \in StartScenes,
               NEW created \in BOOLEAN, Launch(l, s, created)
        PROVE  SceneMatchesPlace'
    BY <2>1 DEF Launch, SceneMatchesPlace
  <2>2. ASSUME NEW created \in BOOLEAN, SpaceAdvance(created)
        PROVE  SceneMatchesPlace'
    BY <2>2 DEF SpaceAdvance, EnterStep, SceneMatchesPlace
  <2>3. ASSUME NEW created \in BOOLEAN, Backspace(created)
        PROVE  SceneMatchesPlace'
    BY <2>3 DEF Backspace, EnterStep, SceneMatchesPlace
  <2>4. CASE UNCHANGED place /\ (up' => up)
    BY <2>4 DEF place, SceneMatchesPlace
  <2> QED
    BY <2>1, <2>2, <2>3, <2>4, StepCases, SavesStay
<1> QED
  BY <1>1, <1>2, PTL DEF Spec

-----------------------------------------------------------------------------
(* The steps between the stop and the index: none when they coincide, and  *)
(* at most the new index more when the index moves by one.                 *)

LEMMA StraysNone ==
  ASSUME NEW i \in Steps
  PROVE  Strays(i, i) = {}
<1> SUFFICES ASSUME NEW k \in Strays(i, i) PROVE FALSE
  OBVIOUS
<1>1. k \in Steps /\ ((i < k /\ k <= i) \/ (i <= k /\ k < i))
  BY DEF Strays
<1>2. k \in Nat /\ i \in Nat
  BY <1>1, StepsTyped
<1> QED
  BY <1>1, <1>2

LEMMA StraysGrow ==
  ASSUME NEW i \in Steps, NEW j \in Steps, NEW next \in Steps,
         next = j + 1 \/ next = j - 1, next # i,
         NEW k \in Strays(i, next), k # next
  PROVE  k \in Strays(i, j)
<1>1. k \in Steps /\ ((i < k /\ k <= next) \/ (next <= k /\ k < i))
  BY DEF Strays
<1>2. k \in Nat /\ i \in Nat /\ j \in Nat /\ next \in Nat
  BY <1>1, StepsTyped
<1>3. (i < k /\ k <= j) \/ (j <= k /\ k < i)
  BY <1>1, <1>2
<1> QED
  BY <1>1, <1>3 DEF Strays

(* Wherever the index is after any mix of SPACE and BACKSPACE, the place   *)
(* shown is the nearest step that could be entered on the side the walk    *)
(* came from. The invariant is inductive with the types: moving the index  *)
(* onto a step without a scene adds that one step to the stray ones.       *)
THEOREM ShellNearestStop == Spec => []NearestStop
<1>1. Init => NearestStop
  BY DEF Init, NearestStop
<1>2. TypeOK /\ NearestStop /\ [Next]_vars => NearestStop'
  <2> SUFFICES ASSUME TypeOK, NearestStop, [Next]_vars PROVE NearestStop'
    OBVIOUS
  <2>1. ASSUME NEW l \in Locations \cup {NoLocation}, NEW s \in StartScenes,
               NEW created \in BOOLEAN, Launch(l, s, created)
        PROVE  NearestStop'
    <3> SUFFICES ASSUME step_idx' >= 0
                 PROVE  /\ anchor' \in Steps
                        /\ resolved_location' = LocationOf(anchor')
                        /\ resolved_location' \in Enterable
                        /\ \A k \in Strays(anchor', step_idx') :
                             LocationOf(k) \notin Enterable
      BY DEF NearestStop
    <3>1. /\ l # NoLocation /\ l \in Enterable /\ anchor' = step_idx'
          /\ step_idx' = FirstStepAt(l) /\ resolved_location' = l
      BY <2>1 DEF Launch
    <3>2. step_idx' \in Steps /\ LocationOf(step_idx') = l
      BY <3>1, FirstStepAtTyped
    <3>3. Strays(anchor', step_idx') = {}
      BY <3>1, <3>2, StraysNone
    <3> QED
      BY <3>1, <3>2, <3>3
  <2>2. ASSUME NEW i \in Steps, NEW created \in BOOLEAN,
               up, step_idx \in Steps, step_idx' = i,
               i = step_idx + 1 \/ i = step_idx - 1,
               EnterStep(i, created)
        PROVE  NearestStop'
    <3>1. step_idx >= 0
      <4>1. step_idx \in Nat
        BY <2>2, StepsTyped
      <4> QED
        BY <4>1
    <3>2. anchor \in Steps
      BY <2>2, <3>1 DEF NearestStop
    <3>3. CASE LocationOf(i) \in Enterable
      <4>1. anchor' = i /\ resolved_location' = LocationOf(i)
        BY <2>2, <3>3 DEF EnterStep
      <4>2. Strays(i, i) = {}
        BY StraysNone
      <4> QED
        BY <2>2, <3>3, <4>1, <4>2 DEF NearestStop
    <3>4. CASE LocationOf(i) \notin Enterable
      <4>1. anchor' = anchor /\ resolved_location' = resolved_location
        BY <2>2, <3>4 DEF EnterStep
      <4>2. /\ resolved_location = LocationOf(anchor)
            /\ resolved_location \in Enterable
            /\ \A k \in Strays(anchor, step_idx) : LocationOf(k) \notin Enterable
        BY <2>2, <3>1 DEF NearestStop
      <4>3. i # anchor
        BY <3>4, <4>2
      <4>4. \A k \in Strays(anchor, i) : LocationOf(k) \notin Enterable
        BY <2>2, <3>4, <3>2, <4>2, <4>3, StraysGrow
      <4> QED
        BY <2>2, <3>2, <4>1, <4>2, <4>4 DEF NearestStop
    <3> QED
      BY <3>3, <3>4
  <2>3. ASSUME NEW created \in BOOLEAN, SpaceAdvance(created)
        PROVE  NearestStop'
    <3>1. step_idx \in Steps /\ step_idx + 1 \in Steps
      BY <2>3, StepIndexTyped DEF SpaceAdvance
    <3> QED
      BY <2>2, <2>3, <3>1 DEF SpaceAdvance
  <2>4. ASSUME NEW created \in BOOLEAN, Backspace(created)
        PROVE  NearestStop'
    <3>1. step_idx \in Steps /\ step_idx - 1 \in Steps
      BY <2>4, StepIndexTyped DEF Backspace
    <3> QED
      BY <2>2, <2>4, <3>1 DEF Backspace
  <2>5. CASE UNCHANGED place /\ (up' => up)
    BY <2>5 DEF place, NearestStop
  <2> QED
    BY <2>1, <2>3, <2>4, <2>5, StepCases, SavesStay
<1> QED
  BY <1>1, <1>2, ShellTypes, PTL DEF Spec
-----------------------------------------------------------------------------
(* Until a save is loaded over them, the variables show the effects of the *)
(* place the player is in, whatever was fired before.                      *)

LEMMA FiredEffectsHold ==
  ASSUME NEW l \in Locations, NEW state \in VariableState
  PROVE  DispatchValues(Effects[l], FireEntry(l, state).values)
           = FireEntry(l, state).values
<1>1. FireEntry(l, state).values = DispatchValues(Effects[l], state.values)
  BY SceneAssumption DEF FireEntry, DispatchScene
<1>2. Effects[l] \in Seq(Effect) /\ state.values \in Values
  BY ShellAssumption DEF VariableState
<1> QED
  BY <1>1, <1>2, DispatchIdempotent

THEOREM ShellEntryEffectsHold == Spec => []EntryEffectsHold
<1>1. Init => EntryEffectsHold
  BY DEF Init, EntryEffectsHold
<1>2. TypeOK /\ EntryEffectsHold /\ [Next]_vars => EntryEffectsHold'
  <2> SUFFICES ASSUME TypeOK, EntryEffectsHold, [Next]_vars
               PROVE  EntryEffectsHold'
    OBVIOUS
  <2>1. ASSUME NEW l \in Locations \cup {NoLocation}, NEW s \in StartScenes,
               NEW created \in BOOLEAN, Launch(l, s, created)
        PROVE  EntryEffectsHold'
    <3> SUFFICES ASSUME resolved_location' # NoLocation
                 PROVE  DispatchValues(Effects[resolved_location'], vs'.values)
                          = vs'.values
      BY DEF EntryEffectsHold
    <3>1. /\ resolved_location' \in Locations
          /\ vs' = FireEntry(resolved_location', EmptyState)
      BY <2>1 DEF Launch
    <3> QED
      BY <3>1, FiredEffectsHold, EmptyStateTyped
  <2>2. ASSUME NEW i \in Steps, NEW created \in BOOLEAN,
               up, EnterStep(i, created)
        PROVE  EntryEffectsHold'
    <3>1. CASE LocationOf(i) \in Enterable
      <4>1. /\ resolved_location' \in Locations
            /\ vs' = FireEntry(resolved_location', vs)
        BY <2>2, <3>1, EnterableTyped DEF EnterStep
      <4>2. DispatchValues(Effects[resolved_location'], vs'.values) = vs'.values
        BY <4>1, FiredEffectsHold DEF TypeOK
      <4> QED
        BY <4>2 DEF EntryEffectsHold
    <3>2. CASE LocationOf(i) \notin Enterable
      BY <2>2, <3>2 DEF EnterStep, EntryEffectsHold
    <3> QED
      BY <3>1, <3>2
  <2>3. ASSUME NEW created \in BOOLEAN, SpaceAdvance(created) \/ Backspace(created)
        PROVE  EntryEffectsHold'
    <3>1. CASE SpaceAdvance(created)
      BY <2>2, <3>1, StepIndexTyped DEF SpaceAdvance
    <3>2. CASE Backspace(created)
      BY <2>2, <3>2, StepIndexTyped DEF Backspace
    <3> QED
      BY <2>3, <3>1, <3>2
  <2>4. CASE LoadSave
    BY <2>4 DEF LoadSave, EntryEffectsHold
  <2>5. CASE SaveState \/ SaveCut
    BY <2>5 DEF SaveState, SaveCut, place, EntryEffectsHold
  <2>6. CASE UNCHANGED <<place, vs, save_file, entries, fresh>> /\ (up' => up)
    BY <2>6 DEF place, EntryEffectsHold
  <2> QED
    BY <2>1, <2>3, <2>4, <2>5, <2>6, StepCases
<1> QED
  BY <1>1, <1>2, ShellTypes, PTL DEF Spec

-----------------------------------------------------------------------------
(* The counters never report fewer mutations of a kind than there are      *)
(* variables holding a value of that kind, fired or loaded.                *)

LEMMA FiringCovers ==
  ASSUME NEW l \in Locations \cup {NoLocation}, NEW state \in VariableState,
         Covered(state)
  PROVE  Covered(FireEntry(l, state))
<1>1. CASE l = NoLocation
  BY <1>1 DEF FireEntry
<1>2. CASE l # NoLocation
  <2>1. Effects[l] \in Seq(Effect)
    BY <1>2, ShellAssumption
  <2> QED
    BY <1>2, <2>1, DispatchCovers DEF FireEntry
<1> QED
  BY <1>1, <1>2

LEMMA EmptyStateCovers == Covered(EmptyState)
<1>1. \A k \in Kinds : VarsOfKind(EmptyState.values, k) = {}
  BY DEF VarsOfKind, EmptyState, NoValues
<1> QED
  BY <1>1, FS_EmptySet DEF Covered, EmptyState

LEMMA LoadedCovers ==
  ASSUME NEW file \in Snapshot
  PROVE  Covered(LoadState(file))
<1>1. \A k \in Kinds :
        /\ LoadState(file).counts[k] = Cardinality(VarsOfKind(file.values, k))
        /\ Cardinality(VarsOfKind(file.values, k)) \in Nat
  BY VarsOfKindTyped DEF LoadState
<1>2. LoadState(file).values = file.values
  BY DEF LoadState
<1> QED
  BY <1>1, <1>2 DEF Covered

THEOREM ShellCountersCover == Spec => []CountersCoverValues
<1>1. CountersCoverValues <=> Covered(vs)
  BY DEF CountersCoverValues, Covered
<1>2. Init => Covered(vs)
  BY EmptyStateCovers DEF Init
<1>3. TypeOK /\ Covered(vs) /\ [Next]_vars => Covered(vs')
  <2> SUFFICES ASSUME TypeOK, Covered(vs), [Next]_vars PROVE Covered(vs')
    OBVIOUS
  <2>1. ASSUME NEW l \in Locations \cup {NoLocation}, NEW s \in StartScenes,
               NEW created \in BOOLEAN, Launch(l, s, created)
        PROVE  Covered(vs')
    <3>1. \E here \in Locations \cup {NoLocation} : vs' = FireEntry(here, EmptyState)
      BY <2>1 DEF Launch
    <3> QED
      BY <3>1, FiringCovers, EmptyStateTyped, EmptyStateCovers
  <2>2. ASSUME NEW created \in BOOLEAN, SpaceAdvance(created) \/ Backspace(created)
        PROVE  Covered(vs')
    <3>1. \/ vs' = vs
          \/ \E l \in Locations : vs' = FireEntry(l, vs)
      BY <2>2, EnterableTyped DEF SpaceAdvance, Backspace, EnterStep
    <3> QED
      BY <3>1, FiringCovers DEF TypeOK
  <2>3. CASE LoadSave
    BY <2>3, LoadedCovers DEF LoadSave, TypeOK
  <2>4. CASE SaveState \/ SaveCut \/ UNCHANGED <<place, vs, save_file, entries, fresh>>
    BY <2>4 DEF SaveState, SaveCut
  <2> QED
    BY <2>1, <2>2, <2>3, <2>4, StepCases
<1>4. Init => CountersCoverValues
  BY <1>1, <1>2
<1>5. TypeOK /\ CountersCoverValues /\ [Next]_vars => CountersCoverValues'
  <2>1. Covered(vs') => CountersCoverValues'
    BY DEF CountersCoverValues, Covered
  <2> QED
    BY <1>1, <1>3, <2>1
<1> QED
  BY <1>4, <1>5, ShellTypes, PTL DEF Spec
-----------------------------------------------------------------------------
(* What the window plays belongs to the scene the player is in or to the   *)
(* startup scene, never to a scene walked past, whichever open or attach   *)
(* fails on the way.                                                       *)

LEMMA ShownFilmIsTheScenes ==
  ASSUME NEW s \in SceneIds, NEW p \in Player, NEW created \in BOOLEAN,
         ShowFilm(s, p, created).ok
  PROVE  ShowFilm(s, p, created).player.video = s
<1>1. CASE OpenOk(s)
  <2>1. Open(p, s) \in Player /\ Open(p, s).video = s
    BY <1>1, OpenTyped, OpenVideo
  <2>2. Attach(Open(p, s), created).video = s
    BY <2>1, VideoKept
  <2> QED
    BY <1>1, <2>2 DEF ShowFilm
<1>2. CASE ~OpenOk(s)
  BY <1>2 DEF ShowFilm, OpenOk
<1> QED
  BY <1>1, <1>2

THEOREM ShellNoForeignPicture == Spec => []NoForeignPicture
<1>1. Init => NoForeignPicture
  BY DEF Init, NoForeignPicture
<1>2. TypeOK /\ NoForeignPicture /\ [Next]_vars => NoForeignPicture'
  <2> SUFFICES ASSUME TypeOK, NoForeignPicture, [Next]_vars
               PROVE  NoForeignPicture'
    OBVIOUS
  <2> USE DEF place, pointer
  <2>1. ASSUME NEW l \in Locations \cup {NoLocation}, NEW s \in StartScenes,
               NEW created \in BOOLEAN, Launch(l, s, created)
        PROVE  NoForeignPicture'
    <3>1. PICK scene \in SceneIds :
            /\ scene_id' = scene
            /\ fmv' = ShowFilm(scene, NewPlayer, created).player
            /\ fmv_ok' = ShowFilm(scene, NewPlayer, created).ok
      <4> DEFINE scene == IF l # NoLocation /\ l \in Enterable THEN Resolve(l) ELSE s
      <4>1. scene \in SceneIds
        BY EnterableTyped, ShellAssumption
      <4> QED
        BY <2>1, <4>1 DEF Launch
    <3> QED
      BY <3>1, ShownFilmIsTheScenes, NewPlayerTyped DEF NoForeignPicture
  <2>2. ASSUME NEW i \in Steps, NEW created \in BOOLEAN, up,
               EnterStep(i, created), boot_scene' = boot_scene
        PROVE  NoForeignPicture'
    <3>1. CASE LocationOf(i) \in Enterable
      <4> DEFINE s == Resolve(LocationOf(i))
      <4>1. /\ s \in SceneIds /\ scene_id' = s
            /\ fmv' = ShowFilm(s, fmv, created).player
            /\ fmv_ok' = ShowFilm(s, fmv, created).ok
        BY <2>2, <3>1, EnterableTyped DEF EnterStep
      <4> HIDE DEF s
      <4> QED
        BY <4>1, ShownFilmIsTheScenes DEF NoForeignPicture, TypeOK
    <3>2. CASE LocationOf(i) \notin Enterable
      BY <2>2, <3>2 DEF EnterStep, NoForeignPicture
    <3> QED
      BY <3>1, <3>2
  <2>3. ASSUME NEW created \in BOOLEAN, SpaceAdvance(created)
        PROVE  NoForeignPicture'
    BY <2>2, <2>3, StepIndexTyped DEF SpaceAdvance
  <2>4. ASSUME NEW created \in BOOLEAN, Backspace(created)
        PROVE  NoForeignPicture'
    BY <2>2, <2>4, StepIndexTyped DEF Backspace
  <2>5. ASSUME NEW created \in BOOLEAN, SpaceReplay(created)
        PROVE  NoForeignPicture'
    <3>1. Open(fmv, boot_scene) \in Player /\ boot_scene \in SceneIds
      BY <2>5, OpenTyped DEF SpaceReplay, TypeOK
    <3>2. fmv'.video = Open(fmv, boot_scene).video
      BY <2>5, <3>1, VideoKept DEF SpaceReplay
    <3>3. fmv'.video \in {fmv.video, boot_scene}
      BY <3>1, <3>2, OpenVideo DEF TypeOK
    <3> QED
      BY <2>5, <3>3 DEF SpaceReplay, NoForeignPicture
  <2>6. CASE EndOfFrame
    BY <2>6, VideoKept DEF EndOfFrame, NoForeignPicture, TypeOK
  <2>7. CASE Tick
    <3>1. fmv'.video = fmv.video
      BY <2>7 DEF Tick, TypeOK, Player
    <3> QED
      BY <2>7, <3>1 DEF Tick, NoForeignPicture
  <2>8. CASE UNCHANGED <<boot_scene, scene_id, fmv, fmv_ok>> /\ up
    BY <2>8 DEF NoForeignPicture
  <2>9. ASSUME SaveState \/ SaveCut \/ LoadSave \/ ToggleDebug \/ Quit \/ Crash
        PROVE  UNCHANGED <<boot_scene, scene_id, fmv, fmv_ok>> /\ up
    BY <2>9 DEF SaveState, SaveCut, LoadSave, ToggleDebug, Quit, Crash
  <2>10. ASSUME NEW pt \in Points, Click(pt)
         PROVE  UNCHANGED <<boot_scene, scene_id, fmv, fmv_ok>> /\ up
    BY <2>10 DEF Click
  <2>11. CASE UNCHANGED vars
    BY <2>11 DEF vars, NoForeignPicture
  <2> QED
    BY <2>1, <2>3, <2>4, <2>5, <2>6, <2>7, <2>8, <2>9, <2>10, <2>11
    DEF Next, Walk
<1> QED
  BY <1>1, <1>2, ShellTypes, PTL DEF Spec

-----------------------------------------------------------------------------
(* The shell implements Walkthrough. Entering a step is a Travel: that no  *)
(* stop was passed on the way is what NearestStop says. A step that cannot *)
(* be entered, a film, a click and a crash are invisible.                  *)

LEMMA SlotsTyped ==
  /\ \A file \in Snapshot : SlotOf(file) = file.values /\ SlotOf(file) # NoFile
  /\ SlotOf(NoFile) = NoFile /\ SlotOf(Damaged) = NoFile
<1>1. \A file \in Snapshot : file \notin {NoFile, Damaged}
  BY ShellAssumption
<1>2. \A file \in Snapshot : file.values \in Values
  BY DEF Snapshot
<1> QED
  BY <1>1, <1>2, ShellAssumption DEF SlotOf

LEMMA StopsAreEnterable ==
  /\ W!Steps = Steps
  /\ \A i : W!LocationOf(i) = LocationOf(i)
  /\ \A i : i \in W!Stops <=> i \in Steps /\ LocationOf(i) \in Enterable
BY DEF W!Steps, Steps, W!LocationOf, LocationOf, W!Stops

(* Both modules extend Dispatcher: what they take from it is the same.     *)
LEMMA SameDispatcher ==
  /\ \A S : W!Min(S) = Min(S)
  /\ \A effs, values : W!DispatchValues(effs, values) = DispatchValues(effs, values)
  /\ W!NoValues = NoValues
<1>1. \A S : W!Min(S) = Min(S) /\ W!Max(S) = Max(S)
  BY Zenon DEF W!Min, Min, W!Max, Max
<1>2. \A effs, v : W!Writes(effs, v) = Writes(effs, v)
  BY DEF W!Writes, Writes
<1>3. W!NoValues = NoValues
  BY DEF W!NoValues, NoValues
<1> QED
  BY <1>1, <1>2, <1>3 DEF W!DispatchValues, DispatchValues

LEMMA LaunchBegins ==
  ASSUME NEW l \in Locations \cup {NoLocation}, NEW s \in StartScenes,
         NEW created \in BOOLEAN, Launch(l, s, created)
  PROVE  W!Begin
<1> DEFINE here == IF l # NoLocation /\ l \in Enterable THEN l ELSE NoLocation
<1>1. here \in Enterable \cup {NoLocation}
  OBVIOUS
<1>2. resolved_location' = here /\ vs' = FireEntry(here, EmptyState)
  BY DEF Launch
<1>3. anchor' = W!FirstStepAt(here)
  <2>1. \A i \in Steps : LocationOf(i) # NoLocation
    BY StepsTyped, SceneAssumption
  <2>2. FirstStepAt(NoLocation) = -1
    BY <2>1 DEF FirstStepAt
  <2>3. anchor' = FirstStepAt(here)
    BY <2>2 DEF Launch
  <2>4. W!FirstStepAt(here) = FirstStepAt(here)
    BY SameDispatcher, StopsAreEnterable DEF W!FirstStepAt, FirstStepAt
  <2> QED
    BY <2>3, <2>4
<1>4. vs'.values = W!Entered(here, NoValues)
  BY <1>2, SameDispatcher DEF FireEntry, DispatchScene, EmptyState, W!Entered
<1>5. SlotOf(save_file)' = SlotOf(save_file)
  BY DEF Launch, SlotOf
<1> HIDE DEF here
<1> QED
  BY <1>1, <1>2, <1>3, <1>4, <1>5, SameDispatcher DEF W!Begin

LEMMA EnteringTravels ==
  ASSUME TypeOK, NearestStop, up, step_idx \in Steps, NEW i \in Steps,
         i = step_idx + 1 \/ i = step_idx - 1, NEW created \in BOOLEAN,
         EnterStep(i, created), save_file' = save_file
  PROVE  W!Travel \/ UNCHANGED <<anchor, resolved_location, vs, save_file>>
<1>1. CASE LocationOf(i) \notin Enterable
  BY <1>1 DEF EnterStep
<1>2. CASE LocationOf(i) \in Enterable
  <2>1. step_idx >= 0
    <3>1. step_idx \in Nat
      BY StepsTyped
    <3> QED
      BY <3>1
  <2>2. /\ anchor \in Steps
        /\ \A k \in Strays(anchor, step_idx) : LocationOf(k) \notin Enterable
    BY <2>1 DEF NearestStop
  <2>3. anchor \in Nat /\ i \in Nat /\ step_idx \in Nat
    BY <2>2, StepsTyped
  <2>4. W!Between(anchor, i) \cap W!Stops = {}
    <3> SUFFICES ASSUME NEW k \in W!Between(anchor, i), k \in W!Stops PROVE FALSE
      OBVIOUS
    <3>1. k \in Steps /\ LocationOf(k) \in Enterable
      BY StopsAreEnterable
    <3>2. (anchor < k /\ k < i) \/ (i < k /\ k < anchor)
      BY DEF W!Between
    <3>3. k \in Nat
      BY <3>1, StepsTyped
    <3>4. (anchor < k /\ k <= step_idx) \/ (step_idx <= k /\ k < anchor)
      BY <2>3, <3>2, <3>3
    <3>5. k \in Strays(anchor, step_idx)
      BY <3>1, <3>4 DEF Strays
    <3> QED
      BY <2>2, <3>1, <3>5
  <2>5. ASSUME i = anchor
        PROVE  ({anchor - 1, anchor + 1} \cap W!Steps) \ W!Stops # {}
    <3>1. (anchor < step_idx /\ step_idx <= step_idx)
            \/ (step_idx <= step_idx /\ step_idx < anchor)
      BY <2>3, <2>5
    <3>2. step_idx \in Strays(anchor, step_idx)
      BY <3>1 DEF Strays
    <3>3. step_idx \in {anchor - 1, anchor + 1}
      BY <2>3, <2>5
    <3>4. step_idx \in W!Steps /\ step_idx \notin W!Stops
      BY <2>2, <3>2, StopsAreEnterable
    <3> QED
      BY <3>3, <3>4
  <2>6. i \in W!Reachable(anchor)
    BY <1>2, <2>4, <2>5, StopsAreEnterable DEF W!Reachable
  <2>7. /\ anchor' = i /\ resolved_location' = LocationOf(i)
        /\ vs' = FireEntry(LocationOf(i), vs)
    BY <1>2 DEF EnterStep
  <2>8. vs'.values = W!Entered(resolved_location', vs.values)
    BY <2>7, SameDispatcher DEF FireEntry, DispatchScene, W!Entered
  <2>9. anchor # -1 /\ SlotOf(save_file)' = SlotOf(save_file)
    BY <2>3 DEF SlotOf
  <2>10. resolved_location' = W!LocationOf(i)
    BY <2>7, StopsAreEnterable
  <2> QED
    BY <2>6, <2>7, <2>8, <2>9, <2>10 DEF W!Travel
<1> QED
  BY <1>1, <1>2

THEOREM ShellImplementsWalkthrough == Spec => WalkSpec
<1>1. Init => W!Init
  BY SameDispatcher DEF Init, W!Init, EmptyState
<1>2. TypeOK /\ NearestStop /\ [Next]_vars => [W!Next]_(W!walk)
  <2> SUFFICES ASSUME TypeOK, NearestStop, [Next]_vars
               PROVE  W!Next \/ UNCHANGED W!walk
    OBVIOUS
  <2>1. UNCHANGED <<anchor, resolved_location, vs, save_file>>
          => UNCHANGED W!walk
    BY DEF W!walk, SlotOf
  <2>2. ASSUME NEW l \in Locations \cup {NoLocation}, NEW s \in StartScenes,
               NEW created \in BOOLEAN, Launch(l, s, created)
        PROVE  W!Next
    BY <2>2, LaunchBegins DEF W!Next
  <2>3. ASSUME NEW created \in BOOLEAN, SpaceAdvance(created)
        PROVE  W!Next \/ UNCHANGED W!walk
    <3>1. /\ step_idx \in Steps /\ step_idx + 1 \in Steps /\ up
          /\ EnterStep(step_idx + 1, created) /\ save_file' = save_file
      BY <2>3, StepIndexTyped DEF SpaceAdvance
    <3> QED
      BY <2>1, <3>1, EnteringTravels DEF W!Next
  <2>4. ASSUME NEW created \in BOOLEAN, Backspace(created)
        PROVE  W!Next \/ UNCHANGED W!walk
    <3>1. /\ step_idx \in Steps /\ step_idx - 1 \in Steps /\ up
          /\ EnterStep(step_idx - 1, created) /\ save_file' = save_file
      BY <2>4, StepIndexTyped DEF Backspace
    <3> QED
      BY <2>1, <3>1, EnteringTravels DEF W!Next
  <2>5. CASE SaveState
    <3>1. SaveText(vs) \in Snapshot /\ SaveText(vs).values = vs.values
      BY DEF SaveText, Snapshot, TypeOK, VariableState
    <3>2. SlotOf(save_file') = vs.values
      BY <2>5, <3>1, SlotsTyped DEF SaveState
    <3>3. SlotOf(save_file)' = vs.values
      BY <3>2 DEF SlotOf
    <3>4. UNCHANGED <<anchor, resolved_location, vs>>
      BY <2>5 DEF SaveState, place
    <3>5. W!Save
      BY <3>3, <3>4 DEF W!Save
    <3> QED
      BY <3>5 DEF W!Next
  <2>6. CASE SaveCut
    <3>1. SlotOf(save_file)' = NoFile
      BY <2>6 DEF SaveCut, SlotOf
    <3>2. UNCHANGED <<anchor, resolved_location, vs>>
      BY <2>6 DEF SaveCut, place
    <3>3. W!SpoilSave
      BY <3>1, <3>2 DEF W!SpoilSave
    <3> QED
      BY <3>3 DEF W!Next
  <2>7. CASE LoadSave
    <3>1. save_file \in Snapshot
      BY <2>7 DEF LoadSave, TypeOK
    <3>2. SlotOf(save_file) # NoFile /\ SlotOf(save_file) = save_file.values
      BY <3>1, SlotsTyped
    <3>3. /\ vs'.values = save_file.values /\ SlotOf(save_file)' = SlotOf(save_file)
          /\ UNCHANGED <<anchor, resolved_location>>
      BY <2>7 DEF LoadSave, LoadState, place, SlotOf
    <3>4. W!Restore
      BY <3>2, <3>3 DEF W!Restore
    <3> QED
      BY <3>4 DEF W!Next
  <2>8. CASE UNCHANGED <<place, vs, save_file, entries, fresh>>
    BY <2>1, <2>8 DEF place
  <2> QED
    BY <2>2, <2>3, <2>4, <2>5, <2>6, <2>7, <2>8, StepCases
<1> QED
  BY <1>1, <1>2, ShellTypes, ShellNearestStop, PTL DEF Spec, WalkSpec, W!Spec
=============================================================================
