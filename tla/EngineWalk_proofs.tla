------------------------- MODULE EngineWalk_proofs --------------------------
(***************************************************************************)
(* What the two passes of the reference engine report, for any catalog, any*)
(* triggers and any flow.                                                  *)
(***************************************************************************)
EXTENDS EngineWalk, ShellLemmas

-----------------------------------------------------------------------------
(* A list of checkpoints: the first n of it are n, unless it is shorter; a *)
(* list that repeats one has fewer than its length.                        *)
LEMMA PrefixCounted ==
  ASSUME NEW S, NEW seq \in Seq(S), NEW n \in Nat
  PROVE  /\ IsFiniteSet(Prefix(seq, n))
         /\ Cardinality(Prefix(seq, n)) \in Nat
         /\ Cardinality(Prefix(seq, n)) <= Smaller(n, Len(seq))
         /\ Distinct(seq) => Cardinality(Prefix(seq, n)) = Smaller(n, Len(seq))
<1> DEFINE m == Smaller(n, Len(seq))
           T == Prefix(seq, n)
           f == [i \in 1 .. m |-> seq[i]]
<1>1. m \in Nat /\ m <= Len(seq) /\ DOMAIN seq = 1 .. Len(seq) /\ Len(seq) \in Nat
  BY LenProperties DEF Smaller
<1>2. f \in Surjection(1 .. m, T)
  BY DEF Surjection, Prefix
<1>3. IsFiniteSet(1 .. m) /\ Cardinality(1 .. m) = m
  BY <1>1, FS_Interval
<1>4. Distinct(seq) => f \in Injection(1 .. m, T)
  <2> SUFFICES ASSUME Distinct(seq)  PROVE f \in Injection(1 .. m, T)
    OBVIOUS
  <2>1. f \in [1 .. m -> T]
    BY <1>2 DEF Surjection
  <2>2. \A i, j \in 1 .. m : f[i] = f[j] => i = j
    BY <1>1 DEF Distinct
  <2> HIDE DEF f, m, T
  <2> QED
    BY <2>1, <2>2 DEF Injection, IsInjective
<1> HIDE DEF f, m
<1>5. /\ IsFiniteSet(T) /\ Cardinality(T) <= Cardinality(1 .. m)
      /\ Cardinality(T) = Cardinality(1 .. m) <=> f \in Injection(1 .. m, T)
  BY <1>2, <1>3, FS_Surjection
<1>6. Cardinality(T) \in Nat
  BY <1>5, FS_CardinalityType
<1> QED
  BY <1>3, <1>4, <1>5, <1>6 DEF m

(* What a list holds. *)
Members(seq) == {seq[i] : i \in DOMAIN seq}

LEMMA RepeatedAreFewer ==
  ASSUME NEW S, NEW seq \in Seq(S), ~Distinct(seq)
  PROVE  \A fired \in SUBSET Members(seq) :
           /\ IsFiniteSet(fired)
           /\ Cardinality(fired) \in Nat
           /\ Cardinality(fired) < Len(seq)
<1> DEFINE n == Len(seq)
<1>1. n \in Nat /\ DOMAIN seq = 1 .. n
  BY LenProperties
<1>2. PICK a \in 1 .. n, b \in 1 .. n : seq[a] = seq[b] /\ a # b
  BY <1>1 DEF Distinct
<1> DEFINE D == (1 .. n) \ {b}
           f == [i \in D |-> seq[i]]
<1>3. f \in Surjection(D, Members(seq))
  <2>1. \A y \in Members(seq) : \E i \in D : seq[i] = y
    <3> SUFFICES ASSUME NEW y \in Members(seq)  PROVE \E i \in D : seq[i] = y
      OBVIOUS
    <3>1. PICK k \in 1 .. n : seq[k] = y
      BY <1>1 DEF Members
    <3>2. CASE k = b
      BY <1>2, <3>1, <3>2
    <3>3. CASE k # b
      BY <3>1, <3>3
    <3> QED
      BY <3>2, <3>3
  <2>2. \A i \in D : seq[i] \in Members(seq)
    BY <1>1 DEF Members
  <2> HIDE DEF D
  <2>3. f \in [D -> Members(seq)]
    BY <2>2
  <2>4. \A y \in Members(seq) : \E i \in D : f[i] = y
    BY <2>1
  <2> HIDE DEF f
  <2> QED
    BY <2>3, <2>4 DEF Surjection
<1>4. IsFiniteSet(1 .. n) /\ Cardinality(1 .. n) = n
  <2>1. n \in Int /\ 1 \in Int /\ n >= 0
    BY <1>1
  <2> HIDE DEF n
  <2>2. IsFiniteSet(1 .. n) /\ Cardinality(1 .. n) = IF 1 > n THEN 0 ELSE n - 1 + 1
    BY <2>1, FS_Interval
  <2> QED
    BY <2>1, <2>2
<1>5. IsFiniteSet(D) /\ Cardinality(D) = n - 1
  BY <1>2, <1>4, FS_RemoveElement
<1> HIDE DEF D, f
<1>6. IsFiniteSet(Members(seq)) /\ Cardinality(Members(seq)) <= n - 1
  BY <1>3, <1>5, FS_Surjection
<1> SUFFICES ASSUME NEW fired \in SUBSET Members(seq)
             PROVE  /\ IsFiniteSet(fired) /\ Cardinality(fired) \in Nat
                    /\ Cardinality(fired) < n
  OBVIOUS
<1>7. IsFiniteSet(fired) /\ Cardinality(fired) <= Cardinality(Members(seq))
  BY <1>6, FS_Subset
<1>8. Cardinality(fired) \in Nat /\ Cardinality(Members(seq)) \in Nat
  BY <1>6, <1>7, FS_CardinalityType
<1> QED
  BY <1>1, <1>6, <1>7, <1>8

-----------------------------------------------------------------------------
(* One machine after p passes. The passes of the phases before are whole   *)
(* rounds; those of the phase it is in fired the checkpoints in order. A   *)
(* list that repeats a checkpoint never has all of its length fired.       *)
LastPhase(sc) == Larger(sc.phases - 1, 0)
Into(sc, loc, p) == p - Len(sc.checkpoints) * loc.phase_index

InRound(sc, loc, p) ==
  LET r == Into(sc, loc, p) n == Len(sc.checkpoints) IN
  /\ r \in Nat
  /\ loc.phase_index < LastPhase(sc) => r < n
  /\ loc.fired = Prefix(sc.checkpoints, r)
  /\ loc.advanced_any <=> (loc.phase_index > 0 \/ (sc.phases = 1 /\ r >= n))

Stuck(sc, loc) ==
  /\ loc.phase_index = 0
  /\ loc.fired \subseteq Members(sc.checkpoints)
  /\ loc.advanced_any = FALSE

MachineOk(sc, loc, p) ==
  /\ loc = [phase_index |-> loc.phase_index, fired |-> loc.fired,
            advanced_any |-> loc.advanced_any]
  /\ loc.advanced_any \in BOOLEAN
  /\ loc.phase_index \in Nat /\ loc.phase_index <= LastPhase(sc)
  /\ CASE sc.checkpoints = <<>> -> loc = NewLoc
       [] sc.checkpoints # <<>> /\ Distinct(sc.checkpoints) -> InRound(sc, loc, p)
       [] OTHER -> Stuck(sc, loc)

(* What the entries of the catalog are. *)
SceneOk(sc) ==
  /\ sc.phases \in Nat
  /\ sc.checkpoints \in Seq(Members(sc.checkpoints))
  /\ Len(sc.checkpoints) \in Nat
  /\ DOMAIN sc.checkpoints = 1 .. Len(sc.checkpoints)
  /\ sc.checkpoints # <<>> => Len(sc.checkpoints) > 0

LEMMA CatalogOk == \A l \in Catalog : SceneOk(Scene[l])
<1> SUFFICES ASSUME NEW l \in Catalog  PROVE SceneOk(Scene[l])
  OBVIOUS
<1> DEFINE cps == Scene[l].checkpoints
<1>1. cps \in Seq(Checkpoint) /\ Scene[l].phases \in Nat
  BY CatalogAssumption
<1> HIDE DEF cps
<1>2. Len(cps) \in Nat /\ DOMAIN cps = 1 .. Len(cps)
  BY <1>1, LenProperties
<1>3. cps \in Seq(Members(cps))
  BY <1>1, <1>2, IsASeq DEF Members
<1>4. cps # <<>> => Len(cps) > 0
  BY <1>1, <1>2, EmptySeq
<1> QED
  BY <1>1, <1>2, <1>3, <1>4 DEF SceneOk, cps

LEMMA ModSmall ==
  ASSUME NEW n \in Nat, n > 0
  PROVE  n % n = 0 /\ \A k \in Nat : k < n => k % n = k
<1>1. n % n = 0
  OBVIOUS
<1>2. ASSUME NEW k \in Nat, k < n  PROVE k % n = k
  BY <1>2
<1> QED
  BY <1>1, <1>2

LEMMA NewMachine ==
  ASSUME NEW sc, SceneOk(sc)
  PROVE  MachineOk(sc, NewLoc, 0)
<1> DEFINE cps == sc.checkpoints
<1>1. Len(cps) \in Nat /\ sc.phases \in Nat /\ (cps # <<>> => Len(cps) > 0)
  BY DEF SceneOk
<1>2. LastPhase(sc) \in Nat /\ 0 <= LastPhase(sc)
  BY <1>1 DEF LastPhase, Larger
<1>3. Into(sc, NewLoc, 0) = 0
  BY <1>1 DEF Into, NewLoc
<1>4. Prefix(cps, 0) = {}
  BY <1>1 DEF Prefix, Smaller
<1>5. cps # <<>> => InRound(sc, NewLoc, 0)
  BY <1>1, <1>2, <1>3, <1>4 DEF InRound, NewLoc
<1>6. Stuck(sc, NewLoc)
  BY DEF Stuck, NewLoc
<1> QED
  BY <1>2, <1>5, <1>6 DEF MachineOk, NewLoc

(* The pass fires the next of the round. *)
LEMMA FiresNext ==
  ASSUME NEW sc, SceneOk(sc), NEW loc, NEW p \in Nat,
         sc.checkpoints # <<>>, Distinct(sc.checkpoints), InRound(sc, loc, p)
  PROVE  LET r == Into(sc, loc, p) IN
         /\ FiredNext(sc, loc) = Prefix(sc.checkpoints, r + 1)
         /\ AllFired(sc, loc) <=> r + 1 >= Len(sc.checkpoints)
<1> DEFINE cps == sc.checkpoints
           n == Len(cps)
           r == Into(sc, loc, p)
           at == (Cardinality(loc.fired) % n) + 1
<1>1. n \in Nat /\ n > 0 /\ r \in Nat /\ loc.fired = Prefix(cps, r)
  BY DEF InRound, SceneOk
<1>2. cps \in Seq(Members(cps))
  BY DEF SceneOk
<1> HIDE DEF cps, r
<1>3. Distinct(cps)
  BY DEF cps
<1>4. Cardinality(Prefix(cps, r)) = Smaller(r, n)
  BY <1>1, <1>2, <1>3, PrefixCounted
<1>5. Cardinality(Prefix(cps, r + 1)) = Smaller(r + 1, n)
  BY <1>1, <1>2, <1>3, PrefixCounted
<1>6. FiredNext(sc, loc) = Prefix(cps, r) \cup {cps[at]}
  BY <1>1 DEF FiredNext, cps
<1>7. Prefix(cps, r) \cup {cps[at]} = Prefix(cps, r + 1)
  <2>1. CASE r < n
    <3>1. at = r + 1
      <4>1. Cardinality(loc.fired) = r
        BY <1>1, <1>4, <2>1 DEF Smaller
      <4>2. r % n = r
        BY <1>1, <2>1, ModSmall
      <4> QED
        BY <4>1, <4>2
    <3>2. Smaller(r, n) = r /\ Smaller(r + 1, n) = r + 1
      BY <1>1, <2>1 DEF Smaller
    <3>3. 1 .. r + 1 = (1 .. r) \cup {r + 1}
      BY <1>1
    <3> HIDE DEF at, n
    <3> QED
      BY <3>1, <3>2, <3>3 DEF Prefix, n
  <2>2. CASE ~(r < n)
    <3>1. at = 1
      <4>1. Cardinality(loc.fired) = n
        BY <1>1, <1>4, <2>2 DEF Smaller
      <4>2. n % n = 0
        BY <1>1, ModSmall
      <4> QED
        BY <4>1, <4>2
    <3>2. Smaller(r, n) = n /\ Smaller(r + 1, n) = n
      BY <1>1, <2>2 DEF Smaller
    <3>3. 1 \in 1 .. n
      BY <1>1
    <3> HIDE DEF at, n
    <3> QED
      BY <3>1, <3>2, <3>3 DEF Prefix, n
  <2> QED
    BY <2>1, <2>2
<1>8. AllFired(sc, loc) <=> Smaller(r + 1, n) >= n
  BY <1>5, <1>6, <1>7 DEF AllFired, cps
<1>9. Smaller(r + 1, n) >= n <=> r + 1 >= n
  BY <1>1 DEF Smaller
<1> QED
  BY <1>6, <1>7, <1>8, <1>9 DEF cps, r

(* One pass more, by what a pass does. *)
LEMMA PassBeforeTheEnd ==
  ASSUME NEW sc, SceneOk(sc), NEW p \in Nat, NEW loc, MachineOk(sc, loc, p),
         sc.checkpoints # <<>>, Distinct(sc.checkpoints), ~RoundEnds(sc, loc)
  PROVE  MachineOk(sc, Simulated(sc, loc), p + 1)
<1> DEFINE n == Len(sc.checkpoints)
           r == Into(sc, loc, p)
           k == n * loc.phase_index
           after == Simulated(sc, loc)
<1>1. n \in Nat /\ n > 0 /\ sc.phases \in Nat
  BY DEF SceneOk
<1>2. InRound(sc, loc, p)
  BY Zenon DEF MachineOk
<1>3. /\ loc = [phase_index |-> loc.phase_index, fired |-> loc.fired,
                advanced_any |-> loc.advanced_any]
      /\ loc.advanced_any \in BOOLEAN
      /\ loc.phase_index \in Nat /\ loc.phase_index <= LastPhase(sc)
  BY Zenon DEF MachineOk
<1>4. after = [loc EXCEPT !.fired = FiredNext(sc, loc)]
  BY Zenon DEF Simulated
<1>5. /\ after.phase_index = loc.phase_index
      /\ after.fired = FiredNext(sc, loc)
      /\ after.advanced_any = loc.advanced_any
      /\ after = [phase_index |-> after.phase_index, fired |-> after.fired,
                  advanced_any |-> after.advanced_any]
  BY <1>3, <1>4
<1> HIDE DEF after
<1>6. /\ FiredNext(sc, loc) = Prefix(sc.checkpoints, r + 1)
      /\ AllFired(sc, loc) <=> r + 1 >= n
  BY <1>2, FiresNext
<1>7. sc.phases = 0 \/ ~(r + 1 >= n)
  BY <1>1, <1>6 DEF RoundEnds
<1>8. k \in Int /\ r = p - k /\ Into(sc, after, p + 1) = p + 1 - k
  BY <1>1, <1>3, <1>5 DEF Into
<1>9. r \in Nat /\ (loc.advanced_any <=> (loc.phase_index > 0 \/ (sc.phases = 1 /\ r >= n)))
  BY <1>2 DEF InRound
<1>10. Into(sc, after, p + 1) = r + 1
  BY <1>8
<1> HIDE DEF r, k
<1>11. loc.phase_index < LastPhase(sc) => r + 1 < n
  BY <1>1, <1>3, <1>7, <1>9 DEF LastPhase, Larger
<1>12. loc.advanced_any <=> (loc.phase_index > 0 \/ (sc.phases = 1 /\ r + 1 >= n))
  BY <1>1, <1>7, <1>9
<1>13. InRound(sc, after, p + 1)
  BY <1>1, <1>5, <1>6, <1>9, <1>10, <1>11, <1>12 DEF InRound
<1> QED
  BY <1>3, <1>5, <1>13 DEF MachineOk, after

LEMMA PassAtTheEnd ==
  ASSUME NEW sc, SceneOk(sc), NEW p \in Nat, NEW loc, MachineOk(sc, loc, p),
         Distinct(sc.checkpoints), RoundEnds(sc, loc)
  PROVE  MachineOk(sc, Simulated(sc, loc), p + 1)
<1> DEFINE n == Len(sc.checkpoints)
           r == Into(sc, loc, p)
           k == n * loc.phase_index
           after == Simulated(sc, loc)
<1>0. sc.checkpoints # <<>> /\ AllFired(sc, loc) /\ sc.phases > 0
  BY DEF RoundEnds
<1>1. n \in Nat /\ n > 0 /\ sc.phases \in Nat
  BY <1>0 DEF SceneOk
<1>2. InRound(sc, loc, p)
  BY <1>0, Zenon DEF MachineOk
<1>3. /\ loc = [phase_index |-> loc.phase_index, fired |-> loc.fired,
                advanced_any |-> loc.advanced_any]
      /\ loc.advanced_any \in BOOLEAN
      /\ loc.phase_index \in Nat /\ loc.phase_index <= LastPhase(sc)
  BY Zenon DEF MachineOk
<1>4. LastPhase(sc) = sc.phases - 1
  BY <1>0, <1>1 DEF LastPhase, Larger
<1>6. /\ FiredNext(sc, loc) = Prefix(sc.checkpoints, r + 1)
      /\ AllFired(sc, loc) <=> r + 1 >= n
  BY <1>0, <1>2, FiresNext
<1>7. /\ r \in Nat /\ r + 1 >= n
      /\ loc.phase_index < LastPhase(sc) => r < n
      /\ loc.advanced_any <=> (loc.phase_index > 0 \/ (sc.phases = 1 /\ r >= n))
  BY <1>0, <1>2, <1>6 DEF InRound
<1>8. CASE AtLastPhase(sc, loc)
  <2>1. after = [loc EXCEPT !.fired = FiredNext(sc, loc), !.advanced_any = TRUE]
    BY <1>0, <1>8, Zenon DEF Simulated
  <2>2. /\ after.phase_index = loc.phase_index
        /\ after.fired = FiredNext(sc, loc)
        /\ after.advanced_any = TRUE
        /\ after = [phase_index |-> after.phase_index, fired |-> after.fired,
                    advanced_any |-> after.advanced_any]
    BY <1>3, <2>1
  <2> HIDE DEF after
  <2>3. loc.phase_index + 1 = sc.phases
    BY <1>8 DEF AtLastPhase
  <2>4. k \in Int /\ r = p - k /\ Into(sc, after, p + 1) = p + 1 - k
    BY <1>1, <1>3, <2>2 DEF Into
  <2>5. Into(sc, after, p + 1) = r + 1
    BY <2>4
  <2> HIDE DEF r, k
  <2>6. loc.phase_index > 0 \/ (sc.phases = 1 /\ r + 1 >= n)
    BY <1>1, <1>3, <1>7, <2>3
  <2>7. ~(loc.phase_index < LastPhase(sc))
    BY <1>1, <1>3, <1>4, <2>3
  <2>8. InRound(sc, after, p + 1)
    BY <1>1, <1>6, <1>7, <2>2, <2>5, <2>6, <2>7 DEF InRound
  <2> QED
    BY <1>0, <1>3, <2>2, <2>8 DEF MachineOk, after
<1>9. CASE ~AtLastPhase(sc, loc)
  <2>1. after = [phase_index |-> loc.phase_index + 1, fired |-> {}, advanced_any |-> TRUE]
    BY <1>0, <1>9, Zenon DEF Simulated
  <2>2. /\ after.phase_index = loc.phase_index + 1
        /\ after.fired = {}
        /\ after.advanced_any = TRUE
        /\ after = [phase_index |-> after.phase_index, fired |-> after.fired,
                    advanced_any |-> after.advanced_any]
    BY <2>1
  <2> HIDE DEF after
  <2>3. loc.phase_index < LastPhase(sc)
    BY <1>1, <1>3, <1>4, <1>9 DEF AtLastPhase
  <2>4. r + 1 = n
    BY <1>1, <1>7, <2>3
  <2>5. k \in Int /\ r = p - k /\ n * (loc.phase_index + 1) = k + n
    BY <1>1, <1>3 DEF Into
  <2>6. Into(sc, after, p + 1) = p + 1 - (k + n)
    BY <2>2, <2>5 DEF Into
  <2>7. Into(sc, after, p + 1) = 0
    BY <1>1, <2>4, <2>5, <2>6
  <2> HIDE DEF r, k
  <2>8. Prefix(sc.checkpoints, 0) = {}
    BY <1>1 DEF Prefix, Smaller
  <2>9. loc.phase_index + 1 > 0 /\ loc.phase_index + 1 \in Nat
        /\ loc.phase_index + 1 <= LastPhase(sc)
    BY <1>1, <1>3, <1>4, <2>3
  <2>10. InRound(sc, after, p + 1)
    BY <1>1, <2>2, <2>7, <2>8, <2>9 DEF InRound
  <2> QED
    BY <1>0, <2>2, <2>9, <2>10 DEF MachineOk, after
<1> QED
  BY <1>8, <1>9

(* A list that repeats a checkpoint never ends its first round. *)
LEMMA NeverAllFired ==
  ASSUME NEW sc, SceneOk(sc), NEW loc, Stuck(sc, loc),
         sc.checkpoints # <<>>, ~Distinct(sc.checkpoints)
  PROVE  FiredNext(sc, loc) \subseteq Members(sc.checkpoints) /\ ~AllFired(sc, loc)
<1> DEFINE cps == sc.checkpoints
           n == Len(cps)
           c == Cardinality(loc.fired)
<1>1. n \in Nat /\ n > 0 /\ cps \in Seq(Members(cps)) /\ DOMAIN cps = 1 .. n
  BY DEF SceneOk
<1>2. loc.fired \subseteq Members(cps)
  BY DEF Stuck
<1>3. \A fired \in SUBSET Members(cps) : Cardinality(fired) \in Nat /\ Cardinality(fired) < n
  BY <1>1, RepeatedAreFewer
<1>4. c \in Nat /\ c < n
  BY <1>2, <1>3
<1>5. c % n = c
  <2> HIDE DEF c, n
  <2> QED
    BY <1>1, <1>4, ModSmall
<1>6. (c % n) + 1 \in DOMAIN cps
  BY <1>1, <1>4, <1>5
<1>7. FiredNext(sc, loc) = loc.fired \cup {cps[(c % n) + 1]}
  BY DEF FiredNext
<1>8. cps[(c % n) + 1] \in Members(cps)
  BY <1>6 DEF Members
<1>9. FiredNext(sc, loc) \subseteq Members(cps)
  BY <1>2, <1>7, <1>8
<1>10. Cardinality(FiredNext(sc, loc)) \in Nat /\ Cardinality(FiredNext(sc, loc)) < n
  BY <1>3, <1>9
<1>11. ~(Cardinality(FiredNext(sc, loc)) >= n)
  BY <1>1, <1>10
<1> QED
  BY <1>9, <1>11 DEF AllFired

LEMMA PassKeepsMachine ==
  ASSUME NEW sc, SceneOk(sc), NEW p \in Nat, NEW loc, MachineOk(sc, loc, p)
  PROVE  MachineOk(sc, Simulated(sc, loc), p + 1)
<1>1. CASE sc.checkpoints = <<>>
  <2>1. Simulated(sc, loc) = loc
    BY <1>1, Zenon DEF Simulated
  <2> QED
    BY <1>1, <2>1, Zenon DEF MachineOk
<1>2. CASE sc.checkpoints # <<>> /\ Distinct(sc.checkpoints)
  BY <1>2, PassBeforeTheEnd, PassAtTheEnd
<1>3. CASE sc.checkpoints # <<>> /\ ~Distinct(sc.checkpoints)
  <2> DEFINE after == Simulated(sc, loc)
  <2>1. Stuck(sc, loc)
    BY <1>3, Zenon DEF MachineOk
  <2>2. FiredNext(sc, loc) \subseteq Members(sc.checkpoints) /\ ~RoundEnds(sc, loc)
    BY <1>3, <2>1, NeverAllFired DEF RoundEnds
  <2>3. /\ loc = [phase_index |-> loc.phase_index, fired |-> loc.fired,
                  advanced_any |-> loc.advanced_any]
        /\ loc.advanced_any \in BOOLEAN
        /\ loc.phase_index \in Nat /\ loc.phase_index <= LastPhase(sc)
    BY Zenon DEF MachineOk
  <2>4. after = [loc EXCEPT !.fired = FiredNext(sc, loc)]
    BY <1>3, <2>2, Zenon DEF Simulated
  <2>5. /\ after.phase_index = loc.phase_index
        /\ after.fired = FiredNext(sc, loc)
        /\ after.advanced_any = loc.advanced_any
        /\ after = [phase_index |-> after.phase_index, fired |-> after.fired,
                    advanced_any |-> after.advanced_any]
    BY <2>3, <2>4
  <2> HIDE DEF after
  <2>6. Stuck(sc, after)
    BY <2>1, <2>2, <2>5 DEF Stuck
  <2> QED
    BY <1>3, <2>3, <2>5, <2>6 DEF MachineOk, after
<1> QED
  BY <1>1, <1>2, <1>3

-----------------------------------------------------------------------------
(* What the invariant of a machine says of the phase it is in.             *)
LEMMA Quotient ==
  ASSUME NEW p \in Nat, NEW n \in Nat, n > 0, NEW q \in Nat, NEW k, k = n * q, p - k \in Nat
  PROVE  /\ p \div n \in Nat /\ q <= p \div n
         /\ p - k < n => p \div n = q
<1> DEFINE d == p \div n  e == p % n
<1>1. d \in Nat /\ e \in Nat /\ e < n
  OBVIOUS
<1>2. p = n * d + e
  OBVIOUS
<1> HIDE DEF d, e
<1>3. q <= d
  <2>1. CASE d < q
    <3>1. PICK m \in Nat : q = d + 1 + m
      <4>1. q - d - 1 \in Nat /\ q = d + 1 + (q - d - 1)
        BY <1>1, <2>1
      <4> QED
        BY <4>1
    <3>2. k = n * d + n + n * m
      BY <1>1, <3>1
    <3>3. n * m \in Nat /\ n * d \in Nat
      BY <1>1, <3>1
    <3> QED
      BY <1>1, <1>2, <3>2, <3>3
  <2> QED
    BY <1>1, <2>1
<1>4. p - k < n => d = q
  <2> SUFFICES ASSUME p - k < n, d # q  PROVE FALSE
    OBVIOUS
  <2>1. PICK m \in Nat : d = q + 1 + m
    <3>1. d - q - 1 \in Nat /\ d = q + 1 + (d - q - 1)
      BY <1>1, <1>3
    <3> QED
      BY <3>1
  <2>2. n * d = k + n + n * m
    BY <1>1, <2>1
  <2>3. n * m \in Nat /\ k \in Nat
    BY <1>1, <2>1
  <2> QED
    BY <1>1, <1>2, <2>2, <2>3
<1> QED
  BY <1>1, <1>3, <1>4 DEF d

LEMMA PhaseOfPasses ==
  ASSUME NEW sc, SceneOk(sc), NEW p \in Nat, NEW loc, MachineOk(sc, loc, p),
         sc.checkpoints # <<>>, Distinct(sc.checkpoints)
  PROVE  /\ loc.phase_index = Smaller(p \div Len(sc.checkpoints), LastPhase(sc))
         /\ loc.fired = Prefix(sc.checkpoints, p - Len(sc.checkpoints) * loc.phase_index)
<1> DEFINE n == Len(sc.checkpoints)
           q == loc.phase_index
           k == n * q
           last == LastPhase(sc)
<1>1. n \in Nat /\ n > 0 /\ sc.phases \in Nat
  BY DEF SceneOk
<1>2. InRound(sc, loc, p)
  BY Zenon DEF MachineOk
<1>3. q \in Nat /\ q <= last
  BY Zenon DEF MachineOk
<1>4. /\ p - k \in Nat /\ (q < last => p - k < n)
      /\ loc.fired = Prefix(sc.checkpoints, p - k)
  BY <1>2 DEF InRound, Into
<1>5. last \in Nat
  BY <1>1 DEF LastPhase, Larger
<1> HIDE DEF n, q, last
<1>6. /\ p \div n \in Nat /\ q <= p \div n
      /\ p - k < n => p \div n = q
  BY <1>1, <1>3, <1>4, Quotient
<1>7. q = Smaller(p \div n, last)
  BY <1>3, <1>4, <1>5, <1>6 DEF Smaller
<1> QED
  BY <1>4, <1>7 DEF n, q, last

-----------------------------------------------------------------------------
(* What a pass adds to the totals. A location has as many advances as the  *)
(* phases it moved, and one for a single phase completed.                  *)
Granted(loc) == IF loc.advanced_any /\ loc.phase_index = 0 THEN 1 ELSE 0

LEMMA MachineAdvances ==
  ASSUME NEW sc, SceneOk(sc), NEW p \in Nat, NEW loc, MachineOk(sc, loc, p)
  PROVE  /\ loc.phase_index \in Nat /\ loc.advanced_any \in BOOLEAN
         /\ loc.phase_index > 0 => loc.advanced_any
         /\ loc.advanced_any /\ loc.phase_index = 0 => sc.phases = 1
<1>1. loc.phase_index \in Nat /\ loc.advanced_any \in BOOLEAN
  BY Zenon DEF MachineOk
<1>2. CASE sc.checkpoints = <<>>
  <2>1. loc = NewLoc
    BY <1>2, Zenon DEF MachineOk
  <2> QED
    BY <2>1 DEF NewLoc
<1>3. CASE sc.checkpoints # <<>> /\ Distinct(sc.checkpoints)
  <2>1. InRound(sc, loc, p)
    BY <1>3, Zenon DEF MachineOk
  <2> QED
    BY <1>1, <2>1 DEF InRound
<1>4. CASE sc.checkpoints # <<>> /\ ~Distinct(sc.checkpoints)
  <2>1. Stuck(sc, loc)
    BY <1>4, Zenon DEF MachineOk
  <2> QED
    BY <1>1, <2>1 DEF Stuck
<1> QED
  BY <1>2, <1>3, <1>4

LEMMA PassAdvances ==
  ASSUME NEW sc, SceneOk(sc), NEW p \in Nat, NEW loc, MachineOk(sc, loc, p)
  PROVE  LET after == Simulated(sc, loc) IN
         /\ after.phase_index \in Nat
         /\ Advances(sc, loc) \in BOOLEAN
         /\ (after.phase_index - loc.phase_index) + (Granted(after) - Granted(loc))
              = IF Advances(sc, loc) THEN 1 ELSE 0
<1> DEFINE after == Simulated(sc, loc)
<1>1. /\ loc.phase_index \in Nat /\ loc.advanced_any \in BOOLEAN
      /\ loc.phase_index > 0 => loc.advanced_any
      /\ loc.advanced_any /\ loc.phase_index = 0 => sc.phases = 1
  BY MachineAdvances
<1>2. loc = [phase_index |-> loc.phase_index, fired |-> loc.fired,
             advanced_any |-> loc.advanced_any]
  BY Zenon DEF MachineOk
<1>3. sc.phases \in Nat
  BY DEF SceneOk
<1>4. Advances(sc, loc) \in BOOLEAN
  BY DEF Advances, RoundEnds
<1>5. CASE ~RoundEnds(sc, loc)
  <2>1. after = loc \/ after = [loc EXCEPT !.fired = FiredNext(sc, loc)]
    BY <1>5, Zenon DEF Simulated
  <2>2. after.phase_index = loc.phase_index /\ after.advanced_any = loc.advanced_any
    BY <1>2, <2>1
  <2>3. ~Advances(sc, loc)
    BY <1>5 DEF Advances
  <2> HIDE DEF after
  <2> QED
    BY <1>1, <1>4, <2>2, <2>3 DEF Granted, after
<1>6. CASE RoundEnds(sc, loc) /\ AtLastPhase(sc, loc)
  <2>0. sc.checkpoints # <<>>
    BY <1>6 DEF RoundEnds
  <2>1. after = [loc EXCEPT !.fired = FiredNext(sc, loc), !.advanced_any = TRUE]
    BY <1>6, <2>0, Zenon DEF Simulated
  <2>2. after.phase_index = loc.phase_index /\ after.advanced_any = TRUE
    BY <1>2, <2>1
  <2>3. Advances(sc, loc) <=> ~loc.advanced_any
    BY <1>6 DEF Advances
  <2> HIDE DEF after
  <2> QED
    BY <1>1, <1>4, <2>2, <2>3 DEF Granted, after
<1>7. CASE RoundEnds(sc, loc) /\ ~AtLastPhase(sc, loc)
  <2>0. sc.checkpoints # <<>>
    BY <1>7 DEF RoundEnds
  <2>1. after = [phase_index |-> loc.phase_index + 1, fired |-> {}, advanced_any |-> TRUE]
    BY <1>7, <2>0, Zenon DEF Simulated
  <2>2. after.phase_index = loc.phase_index + 1 /\ after.advanced_any = TRUE
    BY <2>1
  <2>3. Advances(sc, loc)
    BY <1>7 DEF Advances
  <2> HIDE DEF after
  <2>4. ~(loc.advanced_any /\ loc.phase_index = 0)
    BY <1>1, <1>3, <1>7 DEF AtLastPhase
  <2> QED
    BY <1>1, <1>4, <2>2, <2>3, <2>4 DEF Granted, after
<1> QED
  BY <1>5, <1>6, <1>7

(* A machine is finished after a round for each of its phases.             *)
Finishes(sc, p) ==
  IF sc.phases * Len(sc.checkpoints) > 0 /\ Distinct(sc.checkpoints)
  THEN Larger(p - sc.phases * Len(sc.checkpoints) + 1, 0) ELSE 0

LEMMA PassCompletes ==
  ASSUME NEW sc, SceneOk(sc), NEW p \in Nat, NEW loc, MachineOk(sc, loc, p)
  PROVE  /\ Finishes(sc, p) \in Int /\ Finishes(sc, p + 1) \in Int
         /\ Finishes(sc, p + 1) - Finishes(sc, p) = IF Completes(sc, loc) THEN 1 ELSE 0
<1> DEFINE n == Len(sc.checkpoints)
           ph == sc.phases
           all == ph * n
<1>1. n \in Nat /\ ph \in Nat /\ (sc.checkpoints # <<>> => n > 0)
  BY DEF SceneOk
<1>2. all \in Nat
  BY <1>1
<1>3. CASE sc.checkpoints # <<>> /\ Distinct(sc.checkpoints) /\ ph > 0
  <2> DEFINE q == loc.phase_index
             r == Into(sc, loc, p)
             k == n * q
  <2>1. n > 0 /\ all > 0
    BY <1>1, <1>3
  <2>2. InRound(sc, loc, p) /\ q \in Nat /\ q <= LastPhase(sc)
    BY <1>3, Zenon DEF MachineOk
  <2>3. LastPhase(sc) = ph - 1
    BY <1>1, <1>3 DEF LastPhase, Larger
  <2>4. r \in Nat /\ (q < ph - 1 => r < n) /\ q <= ph - 1
    BY <2>2, <2>3 DEF InRound
  <2>5. AllFired(sc, loc) <=> r + 1 >= n
    BY <1>3, <2>2, FiresNext
  <2>6. Completes(sc, loc) <=> (r + 1 >= n /\ q + 1 = ph)
    BY <1>3, <2>5 DEF Completes, RoundEnds, AtLastPhase
  <2>7. k \in Nat /\ p = k + r
    <3>1. k \in Nat
      BY <1>1, <2>2
    <3>2. r = p - k
      BY DEF Into
    <3> HIDE DEF k, r
    <3> QED
      BY <3>1, <3>2
  <2>8. (r + 1 >= n /\ q + 1 = ph) <=> p + 1 >= all
    <3>1. CASE q + 1 = ph
      <4>1. all = k + n
        BY <1>1, <2>2, <3>1
      <4> HIDE DEF k, all, r
      <4> QED
        BY <1>1, <1>2, <2>4, <2>7, <3>1, <4>1
    <3>2. CASE q + 1 # ph
      <4>1. r < n /\ ph - 2 - q \in Nat
        BY <1>1, <2>2, <2>4, <3>2
      <4>2. PICK m \in Nat : m = ph - 2 - q
        BY <4>1
      <4>3. all = k + n + n + n * m
        <5>1. ph = q + 2 + m
          BY <1>1, <2>2, <4>2
        <5>2. (q + 2 + m) * n = n * q + n + n + n * m
          BY <1>1, <2>2, <4>2
        <5> QED
          BY <5>1, <5>2
      <4>4. n * m \in Nat
        BY <1>1, <4>2
      <4> HIDE DEF k, all, r
      <4>5. ~(p + 1 >= all)
        BY <1>1, <1>2, <2>1, <2>4, <2>7, <4>1, <4>3, <4>4
      <4> QED
        BY <3>2, <4>5
    <3> QED
      BY <3>1, <3>2
  <2>9. /\ Finishes(sc, p) = Larger(p - all + 1, 0)
        /\ Finishes(sc, p + 1) = Larger((p + 1) - all + 1, 0)
    BY <1>3, <2>1, Zenon DEF Finishes
  <2> HIDE DEF all, k, r, q
  <2>10. Completes(sc, loc) <=> p + 1 >= all
    BY <2>6, <2>8
  <2>11. Larger(p - all + 1, 0) \in Int /\ Larger((p + 1) - all + 1, 0) \in Int
         /\ Larger((p + 1) - all + 1, 0) - Larger(p - all + 1, 0) = IF p + 1 >= all THEN 1 ELSE 0
    BY <1>2 DEF Larger
  <2> QED
    BY <2>9, <2>10, <2>11
<1>4. CASE ~(sc.checkpoints # <<>> /\ Distinct(sc.checkpoints) /\ ph > 0)
  <2>1. ~(all > 0 /\ Distinct(sc.checkpoints))
    <3>1. sc.checkpoints = <<>> => n = 0
      OBVIOUS
    <3>2. n = 0 \/ ph = 0 => all = 0
      BY <1>1
    <3> QED
      BY <1>1, <1>4, <3>1, <3>2
  <2>2. ~Completes(sc, loc)
    <3>1. CASE sc.checkpoints = <<>> \/ ~(ph > 0)
      BY <3>1 DEF Completes, RoundEnds
    <3>2. CASE sc.checkpoints # <<>> /\ ~Distinct(sc.checkpoints)
      <4>1. Stuck(sc, loc)
        BY <3>2, Zenon DEF MachineOk
      <4> QED
        BY <3>2, <4>1, NeverAllFired DEF Completes, RoundEnds
    <3> QED
      BY <1>4, <3>1, <3>2
  <2>3. \A x : Finishes(sc, x) = 0
    BY <2>1, Zenon DEF Finishes
  <2>4. Finishes(sc, p) = 0 /\ Finishes(sc, p + 1) = 0
    BY <2>3, Zenon
  <2> QED
    BY <2>2, <2>4
<1> QED
  BY <1>3, <1>4

-----------------------------------------------------------------------------
(* The invariant of the simulation, and the two totals over it.            *)
SimTyped ==
  /\ by_location = [l \in Catalog |-> by_location[l]]
  /\ passes \in [Catalog -> Nat]
  /\ \A l \in Catalog : MachineOk(Scene[l], by_location[l], passes[l])

Moved(by) == [l \in Catalog |-> by[l].phase_index]
GrantedTo(by) == {l \in Catalog : by[l].advanced_any /\ by[l].phase_index = 0}
Finished(ps) == [l \in Catalog |-> Finishes(Scene[l], ps[l])]

SimInv ==
  /\ SimTyped
  /\ total_advances = SumFunction(Moved(by_location)) + Cardinality(GrantedTo(by_location))
  /\ total_completions = SumFunction(Finished(passes))

LEMMA TotalsAre == SimInv => TotalsAccount
<1>1. \A l : Completions(l) = Finishes(Scene[l], passes[l])
  BY DEF Completions, Rounds, Finishes
<1>2. [l \in Catalog |-> Completions(l)] = Finished(passes)
  BY <1>1 DEF Finished
<1> QED
  BY <1>2, Zenon DEF SimInv, TotalsAccount, Moved, GrantedTo

LEMMA ClosedForm == SimInv => SimulationClosedForm
<1> SUFFICES ASSUME SimInv, NEW l \in Catalog
             PROVE  LET cps == Scene[l].checkpoints
                        loc == by_location[l]
                        last == Larger(Scene[l].phases - 1, 0)
                    IN  CASE cps = <<>> -> loc = NewLoc
                          [] cps # <<>> /\ Distinct(cps) ->
                               /\ loc.phase_index = Smaller(passes[l] \div Len(cps), last)
                               /\ loc.fired = Prefix(cps, passes[l] - Len(cps) * loc.phase_index)
                          [] OTHER -> loc.phase_index = 0
  BY Zenon DEF SimulationClosedForm
<1> DEFINE cps == Scene[l].checkpoints
           loc == by_location[l]
<1>1. MachineOk(Scene[l], loc, passes[l]) /\ passes[l] \in Nat /\ SceneOk(Scene[l])
  BY CatalogOk DEF SimInv, SimTyped
<1>2. CASE cps = <<>>
  <2>1. loc = NewLoc
    BY <1>1, <1>2, Zenon DEF MachineOk
  <2> QED
    BY <1>2, <2>1, Zenon
<1>3. CASE cps # <<>> /\ Distinct(cps)
  <2>1. /\ loc.phase_index = Smaller(passes[l] \div Len(cps), LastPhase(Scene[l]))
        /\ loc.fired = Prefix(cps, passes[l] - Len(cps) * loc.phase_index)
    BY <1>1, <1>3, PhaseOfPasses
  <2> QED
    BY <1>3, <2>1, Zenon DEF LastPhase
<1>4. CASE cps # <<>> /\ ~Distinct(cps)
  <2>1. Stuck(Scene[l], loc)
    BY <1>1, <1>4, Zenon DEF MachineOk
  <2>2. loc.phase_index = 0
    BY <2>1 DEF Stuck
  <2> QED
    BY <1>4, <2>2, Zenon
<1> QED
  BY <1>2, <1>3, <1>4

LEMMA SimInvInit == Init => SimInv
<1> SUFFICES ASSUME Init  PROVE SimInv
  OBVIOUS
<1>1. /\ by_location = [l \in Catalog |-> NewLoc] /\ passes = [l \in Catalog |-> 0]
      /\ total_advances = 0 /\ total_completions = 0
  BY DEF Init
<1>2. \A l \in Catalog : MachineOk(Scene[l], NewLoc, 0)
  BY CatalogOk, NewMachine
<1>3. SimTyped
  <2>1. \A l \in Catalog : by_location[l] = NewLoc /\ passes[l] = 0
    BY <1>1
  <2>2. by_location = [l \in Catalog |-> by_location[l]] /\ passes \in [Catalog -> Nat]
    BY <1>1
  <2> QED
    BY <1>2, <2>1, <2>2 DEF SimTyped
<1>4. IsFiniteSet(Catalog)
  BY CatalogAssumption
<1>5. SumFunction(Moved(by_location)) = 0
  <2>1. Moved(by_location) \in [Catalog -> Int] /\ \A l \in Catalog : Moved(by_location)[l] = 0
    BY <1>1 DEF Moved, NewLoc
  <2> QED
    BY <1>4, <2>1, SumOfZeros
<1>6. GrantedTo(by_location) = {}
  BY <1>1 DEF GrantedTo, NewLoc
<1>7. SumFunction(Finished(passes)) = 0
  <2>1. ASSUME NEW l \in Catalog  PROVE Finishes(Scene[l], 0) = 0
    <3>1. Scene[l].phases \in Nat /\ Len(Scene[l].checkpoints) \in Nat
      BY CatalogOk DEF SceneOk
    <3>2. PICK k \in Nat : k = Scene[l].phases * Len(Scene[l].checkpoints)
      BY <3>1
    <3>3. Finishes(Scene[l], 0) = IF k > 0 /\ Distinct(Scene[l].checkpoints)
                                  THEN Larger(0 - k + 1, 0) ELSE 0
      BY <3>2, Zenon DEF Finishes
    <3>4. k > 0 => Larger(0 - k + 1, 0) = 0
      BY <3>2 DEF Larger
    <3> QED
      BY <3>3, <3>4
  <2>2. Finished(passes) \in [Catalog -> Int] /\ \A l \in Catalog : Finished(passes)[l] = 0
    BY <1>1, <2>1 DEF Finished
  <2> QED
    BY <1>4, <2>2, SumOfZeros
<1>8. Cardinality({}) = 0
  BY FS_EmptySet
<1> QED
  BY <1>1, <1>3, <1>5, <1>6, <1>7, <1>8 DEF SimInv

(* One location passed: everything the totals are made of changes there.   *)
LEMMA PassKeepsSim ==
  ASSUME SimInv, NEW l \in Catalog, NEW action_count, StepPasses(l, action_count)
  PROVE  SimInv'
<1> DEFINE sc == Scene[l]
           loc == by_location[l]
           p == passes[l]
           after == Simulated(sc, loc)
<1>1. /\ by_location = [k \in Catalog |-> by_location[k]] /\ passes \in [Catalog -> Nat]
      /\ \A k \in Catalog : MachineOk(Scene[k], by_location[k], passes[k])
  BY DEF SimInv, SimTyped
<1>2. SceneOk(sc) /\ p \in Nat /\ MachineOk(sc, loc, p)
  BY <1>1, CatalogOk
<1>3. /\ by_location' = [by_location EXCEPT ![l] = after]
      /\ passes' = [passes EXCEPT ![l] = p + 1]
      /\ total_advances' = Increment(total_advances, Advances(sc, loc))
      /\ total_completions' = Increment(total_completions, Completes(sc, loc))
  BY DEF StepPasses
<1>4. MachineOk(sc, after, p + 1)
  BY <1>2, PassKeepsMachine
<1>5. /\ by_location'[l] = after /\ passes'[l] = p + 1
      /\ \A k \in Catalog : k # l => by_location'[k] = by_location[k] /\ passes'[k] = passes[k]
      /\ by_location' = [k \in Catalog |-> by_location'[k]] /\ passes' \in [Catalog -> Nat]
  BY <1>1, <1>2, <1>3
<1>6. SimTyped'
  <2>1. \A k \in Catalog : MachineOk(Scene[k], by_location'[k], passes'[k])
    <3> SUFFICES ASSUME NEW k \in Catalog  PROVE MachineOk(Scene[k], by_location'[k], passes'[k])
      OBVIOUS
    <3> HIDE DEF after, p, loc, sc
    <3>1. CASE k = l
      BY <1>4, <1>5, <3>1 DEF sc
    <3>2. CASE k # l
      BY <1>1, <1>5, <3>2
    <3> QED
      BY <3>1, <3>2
  <2> QED
    BY <1>5, <2>1 DEF SimTyped
<1>7. IsFiniteSet(Catalog)
  BY CatalogAssumption
<1> DEFINE step == after.phase_index - loc.phase_index
           grant == Granted(after) - Granted(loc)
<1>8. /\ after.phase_index \in Nat /\ loc.phase_index \in Nat
      /\ Advances(sc, loc) \in BOOLEAN
      /\ step + grant = IF Advances(sc, loc) THEN 1 ELSE 0
  BY <1>2, PassAdvances, MachineAdvances
<1>9. /\ SumFunction(Moved(by_location')) \in Int /\ SumFunction(Moved(by_location)) \in Int
      /\ SumFunction(Moved(by_location')) = SumFunction(Moved(by_location)) + step
  <2> DEFINE F == Moved(by_location)  G == Moved(by_location')
  <2>1. \A k \in Catalog : by_location[k].phase_index \in Nat
    BY <1>1, Zenon DEF MachineOk
  <2>2. F \in [Catalog -> Int]
    BY <2>1 DEF Moved
  <2>3. /\ \A k \in Catalog : F[k] = by_location[k].phase_index
        /\ \A k \in Catalog : G[k] = by_location'[k].phase_index
        /\ G = [k \in Catalog |-> G[k]]
    BY DEF Moved
  <2> HIDE DEF F, G
  <2>4. \A k \in Catalog : k # l => G[k] = F[k]
    BY <1>5, <2>3
  <2>5. G[l] = after.phase_index /\ F[l] = loc.phase_index
    BY <1>5, <2>3
  <2>6. G \in [Catalog -> Int]
    <3>1. \A k \in Catalog : G[k] \in Int
      BY <1>8, <2>2, <2>4, <2>5
    <3> QED
      BY <2>3, <3>1
  <2>7. SumFunction(G) \in Int /\ SumFunction(F) \in Int
        /\ SumFunction(G) = SumFunction(F) + (G[l] - F[l])
    BY <1>7, <2>2, <2>4, <2>6, SumChange
  <2> QED
    BY <2>5, <2>7 DEF F, G
<1>10. /\ Cardinality(GrantedTo(by_location')) \in Nat /\ Cardinality(GrantedTo(by_location)) \in Nat
       /\ Cardinality(GrantedTo(by_location')) = Cardinality(GrantedTo(by_location)) + grant
  <2> DEFINE S == GrantedTo(by_location)  T == GrantedTo(by_location')
  <2>1. S \in SUBSET Catalog /\ T \in SUBSET Catalog
    BY DEF GrantedTo
  <2>2. IsFiniteSet(S) /\ IsFiniteSet(T)
    BY <1>7, <2>1, FS_Subset
  <2>3. /\ l \in S <=> (loc.advanced_any /\ loc.phase_index = 0)
        /\ l \in T <=> (after.advanced_any /\ after.phase_index = 0)
        /\ \A k \in Catalog : k # l => (k \in S <=> k \in T)
    BY <1>5 DEF GrantedTo
  <2>4. /\ Granted(loc) = IF l \in S THEN 1 ELSE 0
        /\ Granted(after) = IF l \in T THEN 1 ELSE 0
    BY <2>3, Zenon DEF Granted
  <2> HIDE DEF S, T
  <2>5. T \ {l} = S \ {l}
    BY <2>1, <2>3
  <2>6. /\ Cardinality(S \ {l}) = IF l \in S THEN Cardinality(S) - 1 ELSE Cardinality(S)
        /\ Cardinality(T \ {l}) = IF l \in T THEN Cardinality(T) - 1 ELSE Cardinality(T)
        /\ Cardinality(S) \in Nat /\ Cardinality(T) \in Nat
    BY <2>2, FS_RemoveElement, FS_CardinalityType
  <2> QED
    BY <2>4, <2>5, <2>6 DEF S, T
<1>11. Granted(after) \in Int /\ Granted(loc) \in Int /\ grant \in Int /\ step \in Int
  BY <1>8 DEF Granted
<1>12. total_advances = SumFunction(Moved(by_location)) + Cardinality(GrantedTo(by_location))
  BY DEF SimInv
<1>13. total_advances' = total_advances + IF Advances(sc, loc) THEN 1 ELSE 0
  <2>1. total_advances \in Int
    BY <1>9, <1>10, <1>12
  <2>2. total_advances' = IF Advances(sc, loc) THEN total_advances + 1 ELSE total_advances
    BY <1>3, Zenon DEF Increment
  <2> QED
    BY <2>1, <2>2
<1>14. total_advances' = SumFunction(Moved(by_location')) + Cardinality(GrantedTo(by_location'))
  <2> HIDE DEF step, grant, loc, sc, after
  <2> QED
    BY <1>8, <1>9, <1>10, <1>11, <1>12, <1>13
<1>15. total_completions' = SumFunction(Finished(passes'))
  <2> DEFINE F == Finished(passes)  G == Finished(passes')
  <2>1. ASSUME NEW k \in Catalog  PROVE Finishes(Scene[k], passes[k]) \in Int
    <3>1. SceneOk(Scene[k]) /\ passes[k] \in Nat /\ MachineOk(Scene[k], by_location[k], passes[k])
      BY <1>1, CatalogOk
    <3> QED
      BY <3>1, PassCompletes
  <2>2. /\ \A k \in Catalog : F[k] = Finishes(Scene[k], passes[k])
        /\ \A k \in Catalog : G[k] = Finishes(Scene[k], passes'[k])
        /\ F = [k \in Catalog |-> F[k]] /\ G = [k \in Catalog |-> G[k]]
    BY DEF Finished
  <2>3. /\ Finishes(sc, p) \in Int /\ Finishes(sc, p + 1) \in Int
        /\ Finishes(sc, p + 1) - Finishes(sc, p) = IF Completes(sc, loc) THEN 1 ELSE 0
    BY <1>2, PassCompletes
  <2> HIDE DEF F, G
  <2>4. \A k \in Catalog : k # l => G[k] = F[k]
    BY <1>5, <2>2
  <2>5. G[l] = Finishes(sc, p + 1) /\ F[l] = Finishes(sc, p)
    BY <1>5, <2>2
  <2>6. F \in [Catalog -> Int]
    BY <2>1, <2>2
  <2>7. G \in [Catalog -> Int]
    <3>1. \A k \in Catalog : G[k] \in Int
      BY <2>3, <2>4, <2>5, <2>6
    <3> QED
      BY <2>2, <3>1
  <2>8. SumFunction(G) \in Int /\ SumFunction(F) \in Int
        /\ SumFunction(G) = SumFunction(F) + (G[l] - F[l])
    BY <1>7, <2>4, <2>6, <2>7, SumChange
  <2>9. total_completions = SumFunction(F)
    BY DEF SimInv, F
  <2>10. total_completions' = IF Completes(sc, loc) THEN total_completions + 1 ELSE total_completions
    BY <1>3, Zenon DEF Increment
  <2> HIDE DEF sc, loc, p
  <2> QED
    BY <2>3, <2>5, <2>8, <2>9, <2>10 DEF G
<1> QED
  BY <1>6, <1>14, <1>15 DEF SimInv

LEMMA SimInvStep == SimInv /\ [Next]_vars => SimInv'
<1> SUFFICES ASSUME SimInv, [Next]_vars  PROVE SimInv'
  OBVIOUS
<1>1. ASSUME UNCHANGED simulation  PROVE SimInv'
  BY <1>1 DEF SimInv, SimTyped, simulation, Moved, GrantedTo, Finished
<1>2. CASE Next
  <2>1. PICK l \in Places, action_count \in 0 .. 1 : ValidateStep(l, action_count)
    BY <1>2 DEF Next
  <2>2. CASE StepFails(l, action_count) \/ StepIsWalkthroughOnly(l, action_count)
    BY <1>1, <2>2 DEF StepFails, StepIsWalkthroughOnly
  <2>3. CASE StepPasses(l, action_count)
    <3>1. l \in Catalog
      BY <2>3 DEF StepPasses
    <3> QED
      BY <2>3, <3>1, PassKeepsSim
  <2> QED
    BY <2>1, <2>2, <2>3 DEF ValidateStep
<1>3. CASE UNCHANGED vars
  BY <1>1, <1>3 DEF vars
<1> QED
  BY <1>2, <1>3

(* Where a phase machine stands is a function of how often its location    *)
(* was passed, whatever was walked in between: the passes fire the declared*)
(* checkpoints in order, one phase after the other, and a list that repeats*)
(* one never leaves its first phase (xfiles_engine.cpp:988-1017).          *)
THEOREM MachinesFollowPasses == Spec => []SimulationClosedForm
<1> QED
  BY ClosedForm, SimInvInit, SimInvStep, PTL DEF Spec

(* The two totals of the report are sums over the locations: nothing is    *)
(* counted twice or missed (xfiles_engine.cpp:988-1017).                   *)
THEOREM TotalsAreOfTheLocations == Spec => []TotalsAccount
<1> QED
  BY TotalsAre, SimInvInit, SimInvStep, PTL DEF Spec

-----------------------------------------------------------------------------
(* Looking up the triggers of a step: the fold goes over the references    *)
(* one after the other.                                                    *)
Trigger == {Triggers[i] : i \in DOMAIN Triggers}

LEMMA TriggersTyped ==
  /\ Triggers \in Seq(Trigger) /\ \A t \in Trigger : t.effect \in Effect
  /\ \A id : Defined(id) =>
       /\ TriggerById(id) \in Trigger
       /\ EffectById(Triggers, id) = TriggerById(id).effect
  /\ \A id : ~Defined(id) => EffectById(Triggers, id) = Uninterpreted
<1>1. Triggers \in Seq(Trigger) /\ \A t \in Trigger : t.effect \in Effect
  BY TriggersAssumption DEF Trigger
<1>2. ASSUME NEW id, Defined(id)
      PROVE  TriggerById(id) \in Trigger /\ EffectById(Triggers, id) = TriggerById(id).effect
  <2> DEFINE S == {i \in DOMAIN Triggers : Triggers[i].id = id}
  <2>1. S # {} /\ S \in SUBSET DOMAIN Triggers
    BY <1>2 DEF Defined
  <2>2. Max(S) \in S
    <3> HIDE DEF S
    <3> QED
      BY <1>1, <2>1, LastFirst
  <2>3. Triggers[Max(S)] \in Trigger
    BY <2>2 DEF Trigger
  <2>4. TriggerById(id) = Triggers[Max(S)]
    BY DEF TriggerById
  <2>5. EffectById(Triggers, id) = Triggers[Max(S)].effect
    BY <2>1, Zenon DEF EffectById
  <2> QED
    BY <2>3, <2>4, <2>5
<1>3. ASSUME NEW id, ~Defined(id)  PROVE EffectById(Triggers, id) = Uninterpreted
  <2>1. {i \in DOMAIN Triggers : Triggers[i].id = id} = {}
    BY <1>3 DEF Defined
  <2> QED
    BY <2>1, Zenon DEF EffectById
<1> QED
  BY <1>1, <1>2, <1>3

LEMMA ResolveTyped ==
  ASSUME NEW found \in Seq(Trigger), NEW id
  PROVE  Resolve(found, id) \in Seq(Trigger)
BY TriggersTyped DEF Resolve

(* The list found after the first k references. *)
FoundBy(refs, found) ==
  /\ found[Len(refs)] = Resolved(refs)
  /\ found[0] = <<>>
  /\ \A k \in 0 .. Len(refs) : found[k] \in Seq(Trigger)
  /\ \A k \in 1 .. Len(refs) : found[k] = Resolve(found[k - 1], refs[k])

LEMMA LastOfPrefix ==
  ASSUME NEW k \in Nat, k > 0
  PROVE  Max(1 .. k) = k /\ (1 .. k) \ {k} = 1 .. k - 1 /\ 1 .. k # {}
<1>1. 1 .. k \in SUBSET Int /\ k \in 1 .. k /\ \A i \in 1 .. k : k >= i
  OBVIOUS
<1>2. Max(1 .. k) = k
  BY <1>1, MaxIs
<1> QED
  BY <1>1, <1>2

LEMMA FoundExists ==
  ASSUME NEW R, NEW refs \in Seq(R)
  PROVE  \E found : FoundBy(refs, found)
<1> DEFINE D == DOMAIN refs
           n == Len(refs)
           Rec(g) == g = [s \in SUBSET D |->
                            IF s = {} THEN <<>> ELSE Resolve(g[s \ {Max(s)}], refs[Max(s)])]
           iter == CHOOSE g : Rec(g)
           c == [s \in SUBSET D |-> Max(s)]
           op == [v \in Seq(Trigger) |-> [i \in D |-> Resolve(v, refs[i])]]
<1>1. IsFiniteSet(D) /\ \A s \in SUBSET D : s # {} => Max(s) \in s
  BY LastFirst
<1>2. Resolved(refs) = iter[D]
  BY DEF Resolved, FoldLeft, MapThenFoldSet
<1>3. n \in Nat /\ D = 1 .. n
  BY LenProperties
<1>4. \A v \in Seq(Trigger), i \in D : Resolve(v, refs[i]) \in Seq(Trigger)
  BY ResolveTyped
<1>5. PICK f \in [SUBSET D -> Seq(Trigger)] : \A s \in SUBSET D :
        f[s] = IF s = {} THEN <<>> ELSE op[f[s \ {c[s]}]][c[s]]
  <2>1. \A s \in SUBSET D : s # {} => c[s] \in s
    BY <1>1
  <2>2. \A v \in Seq(Trigger), i \in D : op[v][i] \in Seq(Trigger)
    BY <1>4
  <2>3. <<>> \in Seq(Trigger)
    OBVIOUS
  <2> HIDE DEF c, op, D
  <2>4. FoldsTo(D, Seq(Trigger), <<>>, c, op)
    BY <1>1, <2>1, <2>2, <2>3, FoldExists
  <2> QED
    BY <2>4 DEF FoldsTo
<1>6. Rec(iter)
  <2>1. \A s \in SUBSET D : s # {} =>
           op[f[s \ {c[s]}]][c[s]] = Resolve(f[s \ {Max(s)}], refs[Max(s)])
    BY <1>1
  <2>2. f = [s \in SUBSET D |-> f[s]]
    OBVIOUS
  <2>3. Rec(f)
    BY <1>5, <2>1, <2>2
  <2> HIDE DEF Rec
  <2> QED
    BY <2>3
<1>7. \A s \in SUBSET D :
        iter[s] = IF s = {} THEN <<>> ELSE Resolve(iter[s \ {Max(s)}], refs[Max(s)])
  <2> DEFINE it == iter
  <2>1. Rec(it)
    BY <1>6
  <2> HIDE DEF it
  <2>2. \A s \in SUBSET D :
          it[s] = IF s = {} THEN <<>> ELSE Resolve(it[s \ {Max(s)}], refs[Max(s)])
    BY <2>1
  <2> QED
    BY <2>2 DEF it
<1> HIDE DEF iter, op, n, D
<1> DEFINE found == [k \in 0 .. n |-> iter[1 .. k]]
<1>8. found[0] = <<>> /\ found[n] = Resolved(refs)
  <2>1. 1 .. 0 = {} /\ {} \in SUBSET D
    OBVIOUS
  <2>2. iter[1 .. 0] = <<>>
    BY <1>7, <2>1
  <2> QED
    BY <1>2, <1>3, <2>2
<1>9. \A k \in 1 .. n : found[k] = Resolve(found[k - 1], refs[k])
  <2> SUFFICES ASSUME NEW k \in 1 .. n  PROVE found[k] = Resolve(found[k - 1], refs[k])
    OBVIOUS
  <2>1. k \in Nat /\ k > 0 /\ k \in 0 .. n /\ k - 1 \in 0 .. n /\ 1 .. k \in SUBSET D
    BY <1>3
  <2>2. Max(1 .. k) = k /\ (1 .. k) \ {k} = 1 .. k - 1 /\ 1 .. k # {}
    BY <2>1, LastOfPrefix
  <2>3. iter[1 .. k] = Resolve(iter[(1 .. k) \ {Max(1 .. k)}], refs[Max(1 .. k)])
    BY <1>7, <2>1, <2>2
  <2> QED
    BY <2>1, <2>2, <2>3
<1>10. \A k \in 0 .. n : found[k] \in Seq(Trigger)
  <2> DEFINE Typed == {k \in Nat : k <= n => found[k] \in Seq(Trigger)}
  <2>1. 0 \in Typed
    <3>1. <<>> \in Seq(Trigger)
      OBVIOUS
    <3> QED
      BY <1>8, <3>1
  <2>2. ASSUME NEW k \in Nat, k \in Typed  PROVE k + 1 \in Typed
    <3> SUFFICES ASSUME k + 1 <= n  PROVE found[k + 1] \in Seq(Trigger)
      OBVIOUS
    <3>1. k <= n /\ k + 1 \in 1 .. n /\ (k + 1) - 1 = k
      BY <1>3
    <3>2. found[k] \in Seq(Trigger) /\ found[k + 1] = Resolve(found[k], refs[k + 1])
      BY <1>9, <2>2, <3>1
    <3> QED
      BY <3>2, ResolveTyped
  <2>3. \A k \in Nat : k \in Typed
    <3> HIDE DEF Typed
    <3> QED
      BY <2>1, <2>2, SetInduction
  <2> SUFFICES ASSUME NEW k \in 0 .. n  PROVE found[k] \in Seq(Trigger)
    OBVIOUS
  <2>4. k \in Nat /\ k <= n
    BY <1>3
  <2> HIDE DEF found
  <2> QED
    BY <2>3, <2>4
<1>11. FoundBy(refs, found)
  BY <1>8, <1>9, <1>10 DEF FoundBy, n
<1> QED
  BY <1>11

LEMMA EffectsTyped ==
  ASSUME NEW triggers \in Seq(Trigger)
  PROVE  /\ EffectsOf(triggers) \in Seq(Effect)
         /\ Len(EffectsOf(triggers)) = Len(triggers)
         /\ \A i \in 1 .. Len(triggers) : EffectsOf(triggers)[i] = triggers[i].effect
         /\ \A t \in Trigger : EffectsOf(Append(triggers, t)) = Append(EffectsOf(triggers), t.effect)
<1>1. Len(triggers) \in Nat /\ DOMAIN triggers = 1 .. Len(triggers)
      /\ \A i \in 1 .. Len(triggers) : triggers[i] \in Trigger
  BY LenProperties, ElementOfSeq
<1>2. EffectsOf(triggers) = [i \in 1 .. Len(triggers) |-> triggers[i].effect]
  BY <1>1 DEF EffectsOf
<1>3. \A i \in 1 .. Len(triggers) : triggers[i].effect \in Effect
  BY <1>1, TriggersTyped
<1>4. EffectsOf(triggers) \in Seq(Effect) /\ Len(EffectsOf(triggers)) = Len(triggers)
  BY <1>1, <1>2, <1>3
<1>5. ASSUME NEW t \in Trigger
      PROVE  EffectsOf(Append(triggers, t)) = Append(EffectsOf(triggers), t.effect)
  <2>1. Append(triggers, t) \in Seq(Trigger)
    OBVIOUS
  <2>2. /\ DOMAIN Append(triggers, t) = 1 .. Len(triggers) + 1
        /\ \A i \in 1 .. Len(triggers) : Append(triggers, t)[i] = triggers[i]
        /\ Append(triggers, t)[Len(triggers) + 1] = t
    BY <1>1, AppendProperties
  <2>3. EffectsOf(Append(triggers, t)) =
          [i \in 1 .. Len(triggers) + 1 |-> Append(triggers, t)[i].effect]
    BY <2>2 DEF EffectsOf
  <2>4. /\ Append(EffectsOf(triggers), t.effect) =
             [i \in 1 .. Len(triggers) + 1 |-> Append(EffectsOf(triggers), t.effect)[i]]
        /\ \A i \in 1 .. Len(triggers) :
             Append(EffectsOf(triggers), t.effect)[i] = EffectsOf(triggers)[i]
        /\ Append(EffectsOf(triggers), t.effect)[Len(triggers) + 1] = t.effect
    BY <1>4, AppendProperties
  <2>5. \A i \in 1 .. Len(triggers) + 1 :
          Append(triggers, t)[i].effect = Append(EffectsOf(triggers), t.effect)[i]
    BY <1>1, <1>2, <2>2, <2>4
  <2> QED
    BY <2>3, <2>4, <2>5
<1> QED
  BY <1>1, <1>2, <1>4, <1>5

-----------------------------------------------------------------------------
(* The two programs keep one story of the variables.                       *)
Agree(one, other) ==
  /\ one.values = other.values
  /\ \A k \in Kinds \ {"uninterpreted"} : one.counts[k] = other.counts[k]
  /\ one.counts["uninterpreted"] <= other.counts["uninterpreted"]

LEMMA SameEffectAgrees ==
  ASSUME NEW one \in VariableState, NEW other \in VariableState, Agree(one, other),
         NEW eff \in Effect
  PROVE  Agree(ApplyEffect(eff, one), ApplyEffect(eff, other))
<1>1. one.counts \in [Kinds -> Nat] /\ other.counts \in [Kinds -> Nat]
  BY DEF VariableState
<1>2. KindOfEffect(eff) \in Kinds /\ "uninterpreted" \in Kinds
  BY KindsTyped DEF Kinds
<1>3. ApplyEffect(eff, one).values = ApplyEffect(eff, other).values
  BY DEF Agree, ApplyEffect
<1>4. /\ ApplyEffect(eff, one).counts = [one.counts EXCEPT ![KindOfEffect(eff)] = @ + 1]
      /\ ApplyEffect(eff, other).counts = [other.counts EXCEPT ![KindOfEffect(eff)] = @ + 1]
  BY DEF ApplyEffect
<1>5. one.counts["uninterpreted"] \in Nat /\ other.counts["uninterpreted"] \in Nat
  BY <1>1, <1>2
<1> QED
  BY <1>1, <1>2, <1>3, <1>4, <1>5 DEF Agree

LEMMA UninterpretedAgrees ==
  ASSUME NEW one \in VariableState, NEW other \in VariableState, Agree(one, other)
  PROVE  Agree(one, ApplyEffect(Uninterpreted, other))
<1>1. one.counts \in [Kinds -> Nat] /\ other.counts \in [Kinds -> Nat]
  BY DEF VariableState
<1>2. KindOfEffect(Uninterpreted) = "uninterpreted" /\ "uninterpreted" \in Kinds
  BY DEF KindOfEffect, Kinds
<1>3. ApplyEffect(Uninterpreted, other) =
        [values |-> other.values, counts |-> [other.counts EXCEPT !["uninterpreted"] = @ + 1]]
  BY <1>2 DEF ApplyEffect
<1>4. one.counts["uninterpreted"] \in Nat /\ other.counts["uninterpreted"] \in Nat
  BY <1>1, <1>2
<1> QED
  BY <1>1, <1>2, <1>3, <1>4 DEF Agree

(* A repeated id and an id nobody defines leave the two agreeing.          *)
LEMMA StepAgrees ==
  ASSUME NEW R, NEW refs \in Seq(R), NEW one \in VariableState, NEW other \in VariableState,
         Agree(one, other)
  PROVE  Agree(DispatchScene(EffectsOf(Resolved(refs)), one),
               DispatchScene(LoadSceneEffects(Triggers, refs), other))
<1> DEFINE n == Len(refs)
           Told(k) == [i \in 1 .. k |-> EffectById(Triggers, refs[i])]
<1>1. n \in Nat /\ DOMAIN refs = 1 .. n
  BY LenProperties
<1>2. PICK found : FoundBy(refs, found)
  BY FoundExists
<1>3. /\ found[n] = Resolved(refs) /\ found[0] = <<>>
      /\ \A k \in 0 .. n : found[k] \in Seq(Trigger)
      /\ \A k \in 1 .. n : found[k] = Resolve(found[k - 1], refs[k])
  BY <1>2 DEF FoundBy
<1>4. \A id : EffectById(Triggers, id) \in Effect
  <2>1. Uninterpreted \in Effect
    BY DEF Effect
  <2> QED
    BY <2>1, TriggersTyped
<1>5. \A k \in Nat : Told(k) \in Seq(Effect) /\ Len(Told(k)) = k
  BY <1>4
<1>6. ASSUME NEW k \in Nat
      PROVE  Told(k + 1) = Append(Told(k), EffectById(Triggers, refs[k + 1]))
  <2> DEFINE e == EffectById(Triggers, refs[k + 1])
  <2>1. /\ Append(Told(k), e) = [i \in 1 .. k + 1 |-> Append(Told(k), e)[i]]
        /\ \A i \in 1 .. k : Append(Told(k), e)[i] = Told(k)[i]
        /\ Append(Told(k), e)[k + 1] = e
    BY <1>4, <1>5, AppendProperties
  <2>2. \A i \in 1 .. k + 1 : Told(k + 1)[i] = Append(Told(k), e)[i]
    BY <2>1
  <2> QED
    BY <2>1, <2>2
<1> HIDE DEF Told
<1> DEFINE Same == {k \in Nat : k <= n =>
                      Agree(DispatchScene(EffectsOf(found[k]), one), DispatchScene(Told(k), other))}
<1>7. 0 \in Same
  <2>1. EffectsOf(found[0]) = <<>>
    BY <1>3 DEF EffectsOf
  <2>2. Told(0) = <<>>
    BY <1>5
  <2>3. DispatchScene(EffectsOf(found[0]), one) = one /\ DispatchScene(Told(0), other) = other
    BY <2>1, <2>2, DispatchEmpty
  <2> QED
    BY <2>3
<1>8. ASSUME NEW k \in Nat, k \in Same  PROVE k + 1 \in Same
  <2> SUFFICES ASSUME k + 1 <= n
               PROVE  Agree(DispatchScene(EffectsOf(found[k + 1]), one),
                            DispatchScene(Told(k + 1), other))
    OBVIOUS
  <2> DEFINE id == refs[k + 1]
             now == DispatchScene(EffectsOf(found[k]), one)
             then == DispatchScene(Told(k), other)
  <2>1. k \in 0 .. n /\ k <= n /\ k + 1 \in 1 .. n /\ (k + 1) - 1 = k
    BY <1>1
  <2>2. found[k] \in Seq(Trigger) /\ found[k + 1] = Resolve(found[k], id)
    BY <1>3, <2>1
  <2>3. EffectsOf(found[k]) \in Seq(Effect)
    BY <2>2, EffectsTyped
  <2>4. now \in VariableState /\ then \in VariableState /\ Agree(now, then)
    BY <1>5, <1>8, <2>1, <2>3, DispatchSceneTyped
  <2>5. DispatchScene(Told(k + 1), other) = ApplyEffect(EffectById(Triggers, id), then)
    BY <1>4, <1>5, <1>6, DispatchAppend
  <2>6. CASE Defined(id)
    <3> DEFINE t == TriggerById(id)
    <3>1. t \in Trigger /\ t.effect \in Effect /\ EffectById(Triggers, id) = t.effect
      BY <2>6, TriggersTyped
    <3>2. found[k + 1] = Append(found[k], t)
      BY <2>2, <2>6 DEF Resolve
    <3> HIDE DEF t
    <3>3. EffectsOf(found[k + 1]) = Append(EffectsOf(found[k]), t.effect)
      BY <2>2, <3>1, <3>2, EffectsTyped
    <3>4. DispatchScene(EffectsOf(found[k + 1]), one) = ApplyEffect(t.effect, now)
      BY <2>3, <3>1, <3>3, DispatchAppend
    <3> QED
      BY <2>4, <2>5, <3>1, <3>4, SameEffectAgrees
  <2>7. CASE ~Defined(id)
    <3>1. found[k + 1] = found[k] /\ EffectById(Triggers, id) = Uninterpreted
      BY <2>2, <2>7, TriggersTyped DEF Resolve
    <3> QED
      BY <2>4, <2>5, <3>1, UninterpretedAgrees
  <2> QED
    BY <2>6, <2>7
<1>9. n \in Same
  <2> HIDE DEF Same
  <2> QED
    BY <1>1, <1>7, <1>8, SetInduction
<1>10. LoadSceneEffects(Triggers, refs) = Told(n)
  BY <1>1 DEF LoadSceneEffects, Told
<1> QED
  BY <1>1, <1>3, <1>9, <1>10

-----------------------------------------------------------------------------
(* The invariant of the dispatch pass.                                     *)
DispatchInv ==
  /\ vs \in VariableState /\ shell \in VariableState
  /\ Agree(vs, shell)

LEMMA ReportStays == DispatchInv /\ UNCHANGED report => DispatchInv'
  BY DEF DispatchInv, report, Agree

LEMMA DispatchInvInit == Init => DispatchInv
<1> SUFFICES ASSUME Init  PROVE DispatchInv
  OBVIOUS
<1>1. vs = EmptyState /\ shell = EmptyState
  BY DEF Init
<1>2. EmptyState \in VariableState
  BY DEF EmptyState, VariableState, Values, NoValues
<1>3. EmptyState.counts["uninterpreted"] = 0
  BY DEF EmptyState, Kinds
<1>4. Agree(EmptyState, EmptyState)
  BY <1>3 DEF Agree
<1> QED
  BY <1>1, <1>2, <1>4 DEF DispatchInv

LEMMA RefsAreList == \A l \in Catalog : Scene[l].refs \in Seq(Members(Scene[l].refs))
  BY CatalogAssumption DEF Members

LEMMA StepDispatched ==
  ASSUME NEW l \in Catalog, DispatchStep(l)
  PROVE  /\ vs' = DispatchScene(EffectsOf(Resolved(Scene[l].refs)), vs)
         /\ shell' = DispatchScene(LoadSceneEffects(Triggers, Scene[l].refs), shell)
         /\ listed' = Listed(Resolved(Scene[l].refs), vs.values, listed)
         /\ Resolved(Scene[l].refs) \in Seq(Trigger)
         /\ LoadSceneEffects(Triggers, Scene[l].refs) \in Seq(Effect)
<1> DEFINE refs == Scene[l].refs  n == Len(refs)
<1>1. /\ vs' = DispatchScene(EffectsOf(Resolved(refs)), vs)
      /\ shell' = DispatchScene(LoadSceneEffects(Triggers, refs), shell)
      /\ listed' = Listed(Resolved(refs), vs.values, listed)
  BY Zenon DEF DispatchStep
<1>2. refs \in Seq(Members(refs))
  BY RefsAreList
<1> HIDE DEF refs
<1>3. n \in Nat /\ DOMAIN refs = 1 .. n
  BY <1>2, LenProperties
<1>4. PICK found : FoundBy(refs, found)
  BY <1>2, FoundExists
<1>5. Resolved(refs) \in Seq(Trigger)
  BY <1>3, <1>4 DEF FoundBy
<1>6. \A id : EffectById(Triggers, id) \in Effect
  <2>1. Uninterpreted \in Effect
    BY DEF Effect
  <2> QED
    BY <2>1, TriggersTyped
<1>7. LoadSceneEffects(Triggers, refs) \in Seq(Effect)
  BY <1>3, <1>6 DEF LoadSceneEffects
<1> QED
  BY <1>1, <1>5, <1>7 DEF refs

LEMMA DispatchInvStep == DispatchInv /\ [Next]_vars => DispatchInv'
<1> SUFFICES ASSUME DispatchInv, [Next]_vars  PROVE DispatchInv'
  OBVIOUS
<1>1. CASE Next
  <2>1. PICK l \in Places : DispatchStep(l)
    BY <1>1 DEF Next
  <2>2. CASE l \notin Catalog
    <3>1. UNCHANGED report
      BY <2>1, <2>2, Zenon DEF DispatchStep
    <3> QED
      BY <3>1, ReportStays
  <2>3. CASE l \in Catalog
    <3> DEFINE refs == Scene[l].refs
               one == EffectsOf(Resolved(refs))
               other == LoadSceneEffects(Triggers, refs)
    <3>1. /\ vs' = DispatchScene(one, vs) /\ shell' = DispatchScene(other, shell)
          /\ Resolved(refs) \in Seq(Trigger) /\ other \in Seq(Effect)
      BY <2>1, <2>3, StepDispatched
    <3>2. one \in Seq(Effect)
      BY <3>1, EffectsTyped
    <3>3. vs \in VariableState /\ shell \in VariableState /\ Agree(vs, shell)
      BY DEF DispatchInv
    <3>4. vs' \in VariableState /\ shell' \in VariableState
      BY <3>1, <3>2, <3>3, DispatchSceneTyped
    <3>5. refs \in Seq(Members(refs))
      BY <2>3, RefsAreList
    <3>6. Agree(DispatchScene(one, vs), DispatchScene(other, shell))
      BY <3>3, <3>5, StepAgrees
    <3>7. Agree(vs', shell')
      BY <3>1, <3>6
    <3> QED
      BY <3>4, <3>7 DEF DispatchInv, Agree
  <2> QED
    BY <2>2, <2>3
<1>2. CASE UNCHANGED vars
  BY <1>2, ReportStays DEF vars
<1> QED
  BY <1>1, <1>2

(* The engine and the playable shell tell one story of the variables after *)
(* any walk, and differ only in the ids nobody defines, which the shell    *)
(* counts (xfiles_engine.cpp:932-969, xfiles_play.cpp:217-226).            *)
THEOREM EngineAndShellAgree == Spec => []EngineAgreesWithShell
<1>1. DispatchInv => EngineAgreesWithShell
  BY DEF DispatchInv, Agree, EngineAgreesWithShell
<1> QED
  BY <1>1, DispatchInvInit, DispatchInvStep, PTL DEF Spec

-----------------------------------------------------------------------------
(* The timeline. Where the triggers declare the variable they set, the last*)
(* value a step lists for a variable is the one the step leaves it with.   *)
WritesDeclared ==
  \A i \in DOMAIN Triggers :
    Triggers[i].effect # Uninterpreted =>
      Contains(Triggers[i].vars_written, Triggers[i].effect.var)

(* The writers among the first i triggers. *)
LEMMA WritesOfPrefix ==
  ASSUME NEW triggers \in Seq(Trigger), NEW i \in DOMAIN triggers, NEW v
  PROVE  /\ EffectsOf(SubSeq(triggers, 1, i)) \in Seq(Effect)
         /\ Writes(EffectsOf(SubSeq(triggers, 1, i)), v) =
              {j \in Writes(EffectsOf(triggers), v) : j <= i}
         /\ \A j \in Writes(EffectsOf(triggers), v) : j <= i =>
              EffectsOf(SubSeq(triggers, 1, i))[j] = EffectsOf(triggers)[j]
<1> DEFINE n == Len(triggers)
           part == SubSeq(triggers, 1, i)
<1>1. n \in Nat /\ DOMAIN triggers = 1 .. n /\ \A j \in 1 .. n : triggers[j] \in Trigger
  BY LenProperties, ElementOfSeq
<1>2. i \in 1 .. n /\ i \in Nat /\ i <= n
  BY <1>1
<1>3. /\ part \in Seq(Trigger) /\ Len(part) = i
      /\ \A j \in 1 .. i : part[j] = triggers[j]
  <2>1. \A j \in 1 .. i : triggers[j] \in Trigger
    BY <1>1, <1>2
  <2>2. /\ part \in Seq(Trigger)
        /\ Len(part) = IF 1 <= i THEN i - 1 + 1 ELSE 0
        /\ \A j \in 1 .. i - 1 + 1 : part[j] = triggers[1 + j - 1]
    BY <1>2, <2>1, SubSeqProperties
  <2> QED
    BY <1>2, <2>2
<1> HIDE DEF part, n
<1>4. /\ EffectsOf(part) \in Seq(Effect) /\ Len(EffectsOf(part)) = i
      /\ \A j \in 1 .. i : EffectsOf(part)[j] = triggers[j].effect
  BY <1>3, EffectsTyped
<1>5. /\ EffectsOf(triggers) \in Seq(Effect) /\ Len(EffectsOf(triggers)) = n
      /\ \A j \in 1 .. n : EffectsOf(triggers)[j] = triggers[j].effect
  BY EffectsTyped DEF n
<1>6. DOMAIN EffectsOf(part) = 1 .. i /\ DOMAIN EffectsOf(triggers) = 1 .. n
  BY <1>4, <1>5, LenProperties
<1>7. \A j \in 1 .. i : j \in 1 .. n /\ EffectsOf(part)[j] = EffectsOf(triggers)[j]
  BY <1>2, <1>4, <1>5
<1>8. \A j \in 1 .. n : j <= i <=> j \in 1 .. i
  BY <1>2
<1> QED
  BY <1>4, <1>6, <1>7, <1>8 DEF Writes, part

LEMMA ListedIsFinal ==
  ASSUME WritesDeclared, NEW triggers \in Seq(Trigger), NEW before \in Values
  PROVE  Listed(triggers, before, before) = DispatchValues(EffectsOf(triggers), before)
<1> DEFINE effs == EffectsOf(triggers)
           final == DispatchValues(effs, before)
<1>1. Len(triggers) \in Nat /\ DOMAIN triggers = 1 .. Len(triggers)
  BY LenProperties
<1>2. effs \in Seq(Effect) /\ Len(effs) = Len(triggers)
      /\ \A i \in 1 .. Len(triggers) : effs[i] = triggers[i].effect
  BY EffectsTyped
<1>3. ASSUME NEW v \in Vars
      PROVE  Listed(triggers, before, before)[v] = final[v]
  <2> DEFINE W == Writes(effs, v)
             at == Listers(triggers, before, v)
  <2>1. final[v] = IF W = {} THEN before[v] ELSE effs[Max(W)].val
    BY DEF DispatchValues
  <2>2. Listed(triggers, before, before)[v] =
          IF at = {} THEN before[v] ELSE ValuesAfter(triggers, Max(at), before)[v]
    BY DEF Listed
  <2>3. at \in SUBSET DOMAIN triggers
    BY DEF Listers
  <2>4. at # {} => Max(at) \in at /\ \A i \in at : i <= Max(at)
    <3>1. at \in SUBSET Int /\ Len(triggers) \in Int /\ \A i \in at : i <= Len(triggers)
      BY <1>1, <2>3
    <3> HIDE DEF at
    <3> QED
      BY <3>1, MaxExists
  <2>5. \A i \in DOMAIN triggers :
          ValuesAfter(triggers, i, before)[v] =
            LET P == {j \in W : j <= i} IN
            IF P = {} THEN before[v] ELSE EffectsOf(SubSeq(triggers, 1, i))[Max(P)].val
    <3> SUFFICES ASSUME NEW i \in DOMAIN triggers
                 PROVE  ValuesAfter(triggers, i, before)[v] =
                          LET P == {j \in W : j <= i} IN
                          IF P = {} THEN before[v]
                          ELSE EffectsOf(SubSeq(triggers, 1, i))[Max(P)].val
      OBVIOUS
    <3>1. Writes(EffectsOf(SubSeq(triggers, 1, i)), v) = {j \in W : j <= i}
      BY WritesOfPrefix
    <3> HIDE DEF W
    <3> QED
      BY <3>1 DEF ValuesAfter, DispatchValues
  <2>6. CASE W = {}
    <3>1. \A i \in DOMAIN triggers : ValuesAfter(triggers, i, before)[v] = before[v]
      BY <2>5, <2>6
    <3> HIDE DEF at, W
    <3> QED
      BY <2>1, <2>2, <2>3, <2>4, <2>6, <3>1
  <2>7. CASE W # {}
    <3> DEFINE m == Max(W)
    <3>1. m \in W /\ W \in SUBSET (1 .. Len(effs)) /\ \A i \in W : i <= m
      BY <1>2, <2>7, WritesTyped
    <3>2. m \in DOMAIN triggers /\ effs[m] # Uninterpreted /\ effs[m].var = v /\ m \in Int
      BY <1>1, <1>2, <3>1 DEF Writes
    <3> HIDE DEF m
    <3>3. \A i \in DOMAIN triggers : i >= m => ValuesAfter(triggers, i, before)[v] = effs[m].val
      <4> SUFFICES ASSUME NEW i \in DOMAIN triggers, i >= m
                   PROVE  ValuesAfter(triggers, i, before)[v] = effs[m].val
        OBVIOUS
      <4> DEFINE P == {j \in W : j <= i}
      <4>1. P \in SUBSET Int /\ m \in P /\ \A j \in P : m >= j
        BY <1>1, <1>2, <3>1, <3>2
      <4>2. Max(P) = m
        BY <4>1, MaxIs
      <4>3. EffectsOf(SubSeq(triggers, 1, i))[m] = effs[m]
        BY <3>1, WritesOfPrefix
      <4> HIDE DEF W, effs
      <4> QED
        BY <2>5, <4>1, <4>2, <4>3
    <3>4. effs[m] = triggers[m].effect /\ triggers[m] \in Trigger
      BY <1>1, <1>2, <3>2, ElementOfSeq
    <3>5. Contains(triggers[m].vars_written, v)
      BY <3>2, <3>4 DEF WritesDeclared, Trigger
    <3>6. effs[m].val # Unset
      <4>1. effs[m] \in Effect
        BY <3>4, TriggersTyped
      <4>2. effs[m].val \in GrammarVals
        BY <3>2, <4>1, EffectCases
      <4> QED
        BY <4>2, ValuesAssumption DEF Vals
    <3>7. m >= m
      BY <3>2
    <3>8. m \in at
      BY <3>2, <3>3, <3>5, <3>6, <3>7 DEF Listers
    <3> HIDE DEF at, effs
    <3>9. Max(at) \in DOMAIN triggers /\ Max(at) >= m
      BY <1>1, <2>3, <2>4, <3>2, <3>8
    <3>10. Listed(triggers, before, before)[v] = effs[m].val
      BY <2>2, <3>3, <3>8, <3>9
    <3> HIDE DEF W
    <3> QED
      BY <2>1, <2>7, <3>10 DEF m
  <2> QED
    BY <2>6, <2>7
<1>4. Listed(triggers, before, before) =
        [v \in Vars |-> Listed(triggers, before, before)[v]]
  BY DEF Listed
<1>5. final = [v \in Vars |-> final[v]]
  BY DEF DispatchValues
<1> HIDE DEF final
<1> QED
  BY <1>3, <1>4, <1>5 DEF final

(* When the triggers declare what they write, the timeline explains the    *)
(* final state: the last value it lists for a variable is the variable's   *)
(* value, and what it never lists was never set (xfiles_engine.cpp:951-966).*)
THEOREM TimelineIsComplete ==
  ASSUME WritesDeclared
  PROVE  Spec => []TimelineExplainsValues
<1> DEFINE Inv == vs \in VariableState /\ shell \in VariableState /\ Agree(vs, shell)
                  /\ listed = vs.values
<1>1. Init => DispatchInv /\ TimelineExplainsValues
  <2> SUFFICES ASSUME Init  PROVE DispatchInv /\ listed = vs.values
    BY DEF TimelineExplainsValues
  <2>1. listed = NoValues /\ vs = EmptyState
    BY DEF Init
  <2> QED
    BY <2>1, DispatchInvInit DEF EmptyState
<1>2. DispatchInv /\ TimelineExplainsValues /\ [Next]_vars
        => DispatchInv' /\ TimelineExplainsValues'
  <2> SUFFICES ASSUME DispatchInv, listed = vs.values, [Next]_vars
               PROVE  listed' = vs'.values
    BY DispatchInvStep DEF TimelineExplainsValues
  <2>1. CASE Next
    <3>1. PICK l \in Places : DispatchStep(l)
      BY <2>1 DEF Next
    <3>2. CASE l \notin Catalog
      <4>1. UNCHANGED report
        BY <3>1, <3>2, Zenon DEF DispatchStep
      <4> QED
        BY <4>1 DEF report
    <3>3. CASE l \in Catalog
      <4> DEFINE triggers == Resolved(Scene[l].refs)
      <4>1. /\ vs' = DispatchScene(EffectsOf(triggers), vs)
            /\ listed' = Listed(triggers, vs.values, listed)
            /\ triggers \in Seq(Trigger)
        BY <3>1, <3>3, StepDispatched
      <4>2. vs.values \in Values
        BY DEF DispatchInv, VariableState
      <4> HIDE DEF triggers
      <4>3. Listed(triggers, vs.values, vs.values) = DispatchValues(EffectsOf(triggers), vs.values)
        BY <4>1, <4>2, ListedIsFinal
      <4>4. vs'.values = DispatchValues(EffectsOf(triggers), vs.values)
        BY <4>1 DEF DispatchScene
      <4> QED
        BY <4>1, <4>3, <4>4
    <3> QED
      BY <3>2, <3>3
  <2>2. CASE UNCHANGED vars
    BY <2>2 DEF vars, report
  <2> QED
    BY <2>1, <2>2
<1> QED
  BY <1>1, <1>2, PTL DEF Spec
=============================================================================
