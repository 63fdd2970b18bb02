----------------------------- MODULE ShellLemmas ----------------------------
(***************************************************************************)
(* Facts about the functions the playable shell is built from: dispatching *)
(* the triggers of a location, resolving a location to a scene, and the    *)
(* calls of the film player. They hold for all values of the constants.    *)
(***************************************************************************)
EXTENDS Dispatcher, SceneAssets, FmvPlayer, ExtremaLemmas, FiniteSetTheorems,
        FunctionTheorems, SequenceTheorems

-----------------------------------------------------------------------------
(* Dispatcher.                                                             *)

(* What the effects of a list are, and which indices name a variable. *)
LEMMA EffectCases ==
  ASSUME NEW eff \in Effect, eff # Uninterpreted
  PROVE  eff.var \in Vars /\ eff.val \in GrammarVals
BY DEF Effect

LEMMA KindsTyped ==
  /\ \A x : KindOfValue(x) \in Kinds
  /\ \A eff : KindOfEffect(eff) \in Kinds
BY DEF KindOfValue, KindOfEffect, Kinds

LEMMA WritesTyped ==
  ASSUME NEW effs \in Seq(Effect), NEW v
  PROVE  /\ Writes(effs, v) \in SUBSET (1 .. Len(effs))
         /\ Writes(effs, v) # {} =>
              /\ Max(Writes(effs, v)) \in Writes(effs, v)
              /\ \A i \in Writes(effs, v) : i <= Max(Writes(effs, v))
<1>1. Len(effs) \in Int /\ DOMAIN effs = 1 .. Len(effs)
  BY LenProperties
<1>2. Writes(effs, v) \in SUBSET (1 .. Len(effs))
  BY <1>1 DEF Writes
<1>3. /\ Writes(effs, v) \in SUBSET Int
      /\ \A i \in Writes(effs, v) : i <= Len(effs)
  BY <1>1, <1>2
<1> QED
  BY <1>1, <1>2, <1>3, MaxExists

LEMMA OfKindTyped ==
  ASSUME NEW effs \in Seq(Effect), NEW k
  PROVE  /\ OfKind(effs, k) \in SUBSET (1 .. Len(effs))
         /\ IsFiniteSet(OfKind(effs, k))
         /\ Cardinality(OfKind(effs, k)) \in Nat
<1>1. Len(effs) \in Int /\ DOMAIN effs = 1 .. Len(effs)
  BY LenProperties
<1>2. OfKind(effs, k) \in SUBSET (1 .. Len(effs))
  BY <1>1 DEF OfKind
<1>3. IsFiniteSet(1 .. Len(effs))
  BY <1>1, FS_Interval
<1>4. IsFiniteSet(OfKind(effs, k))
  BY <1>2, <1>3, FS_Subset
<1> QED
  BY <1>2, <1>4, FS_CardinalityType

(* DispatchValues and DispatchScene stay within their types. *)
LEMMA DispatchValuesTyped ==
  ASSUME NEW effs \in Seq(Effect), NEW values \in Values
  PROVE  DispatchValues(effs, values) \in Values
<1> SUFFICES ASSUME NEW v \in Vars, Writes(effs, v) # {}
             PROVE  effs[Max(Writes(effs, v))].val \in Vals
  BY DEF DispatchValues, Values
<1> DEFINE m == Max(Writes(effs, v))
<1>1. m \in Writes(effs, v)
  BY WritesTyped
<1>2. m \in DOMAIN effs /\ effs[m] # Uninterpreted
  BY <1>1 DEF Writes
<1>3. effs[m] \in Effect
  BY <1>2, ElementOfSeq, LenProperties
<1> QED
  BY <1>2, <1>3, EffectCases DEF Vals

LEMMA DispatchSceneTyped ==
  ASSUME NEW effs \in Seq(Effect), NEW state \in VariableState
  PROVE  DispatchScene(effs, state) \in VariableState
<1>1. DispatchValues(effs, state.values) \in Values
  BY DispatchValuesTyped DEF VariableState
<1>2. \A k \in Kinds :
        state.counts[k] + Cardinality(OfKind(effs, k)) \in Nat
  BY OfKindTyped DEF VariableState
<1> QED
  BY <1>1, <1>2 DEF DispatchScene, VariableState

(* An empty list changes nothing. *)
LEMMA DispatchEmpty ==
  ASSUME NEW state \in VariableState
  PROVE  DispatchScene(<<>>, state) = state
<1>1. \A v : Writes(<<>>, v) = {}
  BY DEF Writes
<1>2. DispatchValues(<<>>, state.values) = state.values
  BY <1>1 DEF DispatchValues, VariableState, Values
<1>3. \A k : Cardinality(OfKind(<<>>, k)) = 0
  BY FS_EmptySet DEF OfKind
<1>4. [k \in Kinds |-> state.counts[k] + Cardinality(OfKind(<<>>, k))]
        = state.counts
  BY <1>3 DEF VariableState
<1> QED
  BY <1>2, <1>4 DEF DispatchScene, VariableState

-----------------------------------------------------------------------------
(* One effect more: what it adds to the indices that name a variable and   *)
(* to those of its kind.                                                   *)
LEMMA WritesAppend ==
  ASSUME NEW effs \in Seq(Effect), NEW eff \in Effect, NEW v
  PROVE  Writes(Append(effs, eff), v) =
           IF eff # Uninterpreted /\ eff.var = v
           THEN Writes(effs, v) \cup {Len(effs) + 1}
           ELSE Writes(effs, v)
<1>1. /\ Len(effs) \in Nat
      /\ DOMAIN effs = 1 .. Len(effs)
      /\ DOMAIN Append(effs, eff) = 1 .. Len(effs) + 1
      /\ \A i \in 1 .. Len(effs) : Append(effs, eff)[i] = effs[i]
      /\ Append(effs, eff)[Len(effs) + 1] = eff
  BY LenProperties, AppendProperties
<1>2. 1 .. Len(effs) + 1 = (1 .. Len(effs)) \cup {Len(effs) + 1}
  BY <1>1
<1> QED
  BY <1>1, <1>2 DEF Writes

LEMMA OfKindAppend ==
  ASSUME NEW effs \in Seq(Effect), NEW eff \in Effect, NEW k
  PROVE  Cardinality(OfKind(Append(effs, eff), k)) =
           Cardinality(OfKind(effs, k)) + IF KindOfEffect(eff) = k THEN 1 ELSE 0
<1>1. /\ Len(effs) \in Nat
      /\ DOMAIN effs = 1 .. Len(effs)
      /\ DOMAIN Append(effs, eff) = 1 .. Len(effs) + 1
      /\ \A i \in 1 .. Len(effs) : Append(effs, eff)[i] = effs[i]
      /\ Append(effs, eff)[Len(effs) + 1] = eff
  BY LenProperties, AppendProperties
<1>2. 1 .. Len(effs) + 1 = (1 .. Len(effs)) \cup {Len(effs) + 1}
  BY <1>1
<1>3. OfKind(Append(effs, eff), k) =
        IF KindOfEffect(eff) = k THEN OfKind(effs, k) \cup {Len(effs) + 1}
        ELSE OfKind(effs, k)
  BY <1>1, <1>2 DEF OfKind
<1>4. Len(effs) + 1 \notin OfKind(effs, k)
  BY <1>1 DEF OfKind
<1>5. IsFiniteSet(OfKind(effs, k)) /\ Cardinality(OfKind(effs, k)) \in Nat
  BY OfKindTyped
<1>6. Cardinality(OfKind(effs, k) \cup {Len(effs) + 1}) =
        Cardinality(OfKind(effs, k)) + 1
  BY <1>4, <1>5, FS_AddElement
<1> QED
  BY <1>3, <1>5, <1>6

LEMMA DispatchValuesAppend ==
  ASSUME NEW effs \in Seq(Effect), NEW eff \in Effect, NEW values \in Values,
         NEW v \in Vars
  PROVE  DispatchValues(Append(effs, eff), values)[v] =
           IF eff # Uninterpreted /\ eff.var = v THEN eff.val
           ELSE DispatchValues(effs, values)[v]
<1> DEFINE longer == Append(effs, eff)
<1>1. /\ Len(effs) \in Nat
      /\ \A i \in 1 .. Len(effs) : longer[i] = effs[i]
      /\ longer[Len(effs) + 1] = eff
  BY LenProperties, AppendProperties
<1>2. Writes(effs, v) \in SUBSET (1 .. Len(effs))
  BY WritesTyped
<1>3. CASE eff # Uninterpreted /\ eff.var = v
  <2>1. Writes(longer, v) = Writes(effs, v) \cup {Len(effs) + 1}
    BY <1>3, WritesAppend
  <2>2. /\ Writes(longer, v) \in SUBSET Int
        /\ \A i \in Writes(longer, v) : Len(effs) + 1 >= i
    BY <1>1, <1>2, <2>1
  <2>3. Max(Writes(longer, v)) = Len(effs) + 1
    BY <2>1, <2>2, MaxIs
  <2> QED
    BY <1>1, <1>3, <2>1, <2>3 DEF DispatchValues
<1>4. CASE ~(eff # Uninterpreted /\ eff.var = v)
  <2>1. Writes(longer, v) = Writes(effs, v)
    BY <1>4, WritesAppend
  <2>2. Writes(effs, v) # {} =>
          longer[Max(Writes(effs, v))] = effs[Max(Writes(effs, v))]
    BY <1>1, <1>2, WritesTyped
  <2> QED
    BY <1>4, <2>1, <2>2 DEF DispatchValues
<1> QED
  BY <1>3, <1>4

LEMMA DispatchAppend ==
  ASSUME NEW effs \in Seq(Effect), NEW eff \in Effect,
         NEW state \in VariableState
  PROVE  DispatchScene(Append(effs, eff), state) =
           ApplyEffect(eff, DispatchScene(effs, state))
<1> DEFINE before == DispatchScene(effs, state)
           after  == DispatchScene(Append(effs, eff), state)
<1>1. state.values \in Values /\ state.counts \in [Kinds -> Nat]
  BY DEF VariableState
<1>2. before.values = DispatchValues(effs, state.values)
  BY DEF DispatchScene
<1>3. after.values = ApplyEffect(eff, before).values
  <2>1. before.values \in Values
    BY <1>1, <1>2, DispatchValuesTyped
  <2>2. after.values = DispatchValues(Append(effs, eff), state.values)
    BY DEF DispatchScene
  <2>3. after.values = [v \in Vars |-> after.values[v]]
    BY <2>2 DEF DispatchValues
  <2>4. \A v \in Vars :
          after.values[v] = IF eff # Uninterpreted /\ eff.var = v THEN eff.val
                            ELSE before.values[v]
    BY <1>1, <1>2, <2>2, DispatchValuesAppend
  <2>5. ApplyEffect(eff, before).values =
          IF eff = Uninterpreted THEN before.values
          ELSE [before.values EXCEPT ![eff.var] = eff.val]
    BY DEF ApplyEffect
  <2> HIDE DEF before, after
  <2>6. CASE eff = Uninterpreted
    BY <2>1, <2>3, <2>4, <2>5, <2>6 DEF Values
  <2>7. CASE eff # Uninterpreted
    <3>1. eff.var \in Vars
      BY <2>7, EffectCases
    <3> QED
      BY <2>1, <2>3, <2>4, <2>5, <2>7, <3>1 DEF Values
  <2> QED
    BY <2>6, <2>7
<1>4. after.counts = ApplyEffect(eff, before).counts
  <2>1. before.counts =
          [k \in Kinds |-> state.counts[k] + Cardinality(OfKind(effs, k))]
    BY DEF DispatchScene
  <2>2. after.counts =
          [k \in Kinds |-> state.counts[k]
                           + Cardinality(OfKind(Append(effs, eff), k))]
    BY DEF DispatchScene
  <2>3. ApplyEffect(eff, before).counts =
          [before.counts EXCEPT ![KindOfEffect(eff)] = @ + 1]
    BY DEF ApplyEffect
  <2> HIDE DEF before, after
  <2>4. \A k \in Kinds :
          Cardinality(OfKind(effs, k)) \in Nat /\ state.counts[k] \in Nat
    BY <1>1, OfKindTyped
  <2>5. \A k \in Kinds : after.counts[k] =
          before.counts[k] + IF KindOfEffect(eff) = k THEN 1 ELSE 0
    BY <2>1, <2>2, <2>4, OfKindAppend
  <2>6. \A k \in Kinds : before.counts[k] \in Nat
    BY <2>1, <2>4
  <2>7. KindOfEffect(eff) \in Kinds
    BY KindsTyped
  <2>8. after.counts = [k \in Kinds |-> after.counts[k]]
    BY <2>2
  <2>9. \A k \in Kinds : after.counts[k] =
          [before.counts EXCEPT ![KindOfEffect(eff)] = @ + 1][k]
    BY <2>1, <2>5, <2>6, <2>7
  <2> QED
    BY <2>1, <2>3, <2>8, <2>9
<1> QED
  BY <1>3, <1>4 DEF DispatchScene, ApplyEffect

(* Firing the same triggers again changes no value: each variable already  *)
(* has the value of the last effect that names it.                         *)
LEMMA DispatchIdempotent ==
  ASSUME NEW effs \in Seq(Effect), NEW values \in Values
  PROVE  DispatchValues(effs, DispatchValues(effs, values))
           = DispatchValues(effs, values)
<1> DEFINE once == DispatchValues(effs, values)
<1>1. \A v \in Vars : Writes(effs, v) # {} =>
        once[v] = effs[Max(Writes(effs, v))].val
  BY DEF DispatchValues
<1>2. once \in [Vars -> Vals \cup {Unset}]
  BY DispatchValuesTyped DEF Values
<1> HIDE DEF once
<1>3. \A v \in Vars : DispatchValues(effs, once)[v] = once[v]
  BY <1>1 DEF DispatchValues
<1>4. DispatchValues(effs, once) \in [Vars -> Vals \cup {Unset}]
  BY <1>2, DispatchValuesTyped DEF Values
<1> QED
  BY <1>2, <1>3, <1>4 DEF once

(* The counters grow by at least the variables that turn to their kind:    *)
(* each of them was written last by an effect of that kind, and different  *)
(* variables by different effects.                                         *)
Covered(state) ==
  \A k \in Kinds : Cardinality(VarsOfKind(state.values, k)) <= state.counts[k]

LEMMA VarsOfKindTyped ==
  ASSUME NEW values, NEW k
  PROVE  /\ IsFiniteSet(VarsOfKind(values, k))
         /\ Cardinality(VarsOfKind(values, k)) \in Nat
<1>1. VarsOfKind(values, k) \in SUBSET Vars
  BY DEF VarsOfKind
<1> QED
  BY <1>1, VarsAssumption, FS_Subset, FS_CardinalityType

LEMMA NewVarsOfKind ==
  ASSUME NEW effs \in Seq(Effect), NEW values \in Values, NEW k \in Kinds
  PROVE  Cardinality(VarsOfKind(DispatchValues(effs, values), k)
                       \ VarsOfKind(values, k)) <= Cardinality(OfKind(effs, k))
<1> DEFINE after == VarsOfKind(DispatchValues(effs, values), k)
           gained == after \ VarsOfKind(values, k)
           writer == [v \in gained |-> Max(Writes(effs, v))]
<1>1. ASSUME NEW v \in gained
      PROVE  /\ writer[v] \in OfKind(effs, k)
             /\ effs[writer[v]].var = v
  <2>1. /\ v \in Vars
        /\ KindOfValue(DispatchValues(effs, values)[v]) = k
        /\ DispatchValues(effs, values)[v] # Unset
        /\ ~(values[v] # Unset /\ KindOfValue(values[v]) = k)
    BY DEF VarsOfKind
  <2>2. Writes(effs, v) # {}
    BY <2>1 DEF DispatchValues
  <2>3. writer[v] \in Writes(effs, v)
    BY <2>2, WritesTyped
  <2>4. /\ writer[v] \in DOMAIN effs /\ effs[writer[v]] # Uninterpreted
        /\ effs[writer[v]].var = v
    BY <2>3 DEF Writes
  <2>5. DispatchValues(effs, values)[v] = effs[writer[v]].val
    BY <2>1, <2>2 DEF DispatchValues
  <2>6. KindOfEffect(effs[writer[v]]) = k
    BY <2>1, <2>4, <2>5 DEF KindOfEffect
  <2> QED
    BY <2>4, <2>6 DEF OfKind
<1>2. writer \in [gained -> OfKind(effs, k)]
  BY <1>1
<1>3. \A v, w \in gained : writer[v] = writer[w] => v = w
  BY <1>1
<1> HIDE DEF writer, gained
<1>4. writer \in Injection(gained, OfKind(effs, k))
  BY <1>2, <1>3, Fun_IsInj
<1>5. Cardinality(gained) <= Cardinality(OfKind(effs, k))
  BY <1>4, OfKindTyped, FS_Injection
<1> QED
  BY <1>5 DEF gained

LEMMA DispatchCovers ==
  ASSUME NEW effs \in Seq(Effect), NEW state \in VariableState, Covered(state)
  PROVE  Covered(DispatchScene(effs, state))
<1> SUFFICES ASSUME NEW k \in Kinds
             PROVE  Cardinality(VarsOfKind(DispatchValues(effs, state.values), k))
                      <= state.counts[k] + Cardinality(OfKind(effs, k))
  BY DEF Covered, DispatchScene
<1> DEFINE before == VarsOfKind(state.values, k)
           after  == VarsOfKind(DispatchValues(effs, state.values), k)
<1>1. Cardinality(after \ before) <= Cardinality(OfKind(effs, k))
  <2>1. state.values \in Values
    BY DEF VariableState
  <2> QED
    BY <2>1, NewVarsOfKind
<1>2. Cardinality(before) <= state.counts[k]
  BY DEF Covered
<1>3. /\ IsFiniteSet(before) /\ Cardinality(before) \in Nat
      /\ IsFiniteSet(after) /\ Cardinality(after) \in Nat
  BY VarsOfKindTyped
<1>4. state.counts[k] \in Nat /\ Cardinality(OfKind(effs, k)) \in Nat
  BY OfKindTyped DEF VariableState
<1> HIDE DEF before, after
<1>5. IsFiniteSet(after \ before) /\ Cardinality(after \ before) \in Nat
  BY <1>3, FS_Subset, FS_CardinalityType, after \ before \in SUBSET after
<1>6. /\ IsFiniteSet(before \cup (after \ before))
      /\ Cardinality(before \cup (after \ before)) =
           Cardinality(before) + Cardinality(after \ before)
             - Cardinality(before \cap (after \ before))
  BY <1>3, <1>5, FS_Union
<1>7. Cardinality(before \cap (after \ before)) = 0
  <2>1. before \cap (after \ before) = {}
    OBVIOUS
  <2> QED
    BY <2>1, FS_EmptySet
<1>8. Cardinality(after) <= Cardinality(before \cup (after \ before))
  BY <1>6, FS_Subset, after \in SUBSET (before \cup (after \ before))
<1>9. Cardinality(before \cup (after \ before)) =
        Cardinality(before) + Cardinality(after \ before)
  BY <1>3, <1>5, <1>6, <1>7
<1>10. Cardinality(after) <= state.counts[k] + Cardinality(OfKind(effs, k))
  BY <1>1, <1>2, <1>3, <1>4, <1>5, <1>8, <1>9
<1> QED
  BY <1>10 DEF after

-----------------------------------------------------------------------------
(* Applying an effect keeps the state within its type. *)
LEMMA ApplyEffectTyped ==
  ASSUME NEW eff \in Effect, NEW state \in VariableState
  PROVE  ApplyEffect(eff, state) \in VariableState
<1>1. state.values \in Values /\ state.counts \in [Kinds -> Nat]
  BY DEF VariableState
<1>2. ApplyEffect(eff, state).counts \in [Kinds -> Nat]
  BY <1>1, KindsTyped DEF ApplyEffect
<1>3. ApplyEffect(eff, state).values \in Values
  BY <1>1, EffectCases DEF ApplyEffect, Values, Vals
<1> QED
  BY <1>2, <1>3 DEF ApplyEffect, VariableState

-----------------------------------------------------------------------------
(* SceneAssets.                                                            *)

(* The first candidate of a location is one of its entries.                *)
LEMMA CandidatesTyped ==
  ASSUME NEW hints \in Seq(Hint), NEW l
  PROVE  /\ Candidates(hints, l) \in SUBSET (1 .. Len(hints))
         /\ ByteDirect(hints, l) \subseteq Candidates(hints, l)
         /\ Candidates(hints, l) # {} =>
              Min(Candidates(hints, l)) \in Candidates(hints, l)
         /\ ByteDirect(hints, l) # {} =>
              Min(ByteDirect(hints, l)) \in ByteDirect(hints, l)
<1>1. Len(hints) \in Nat /\ DOMAIN hints = 1 .. Len(hints)
  BY LenProperties
<1>2. /\ Candidates(hints, l) \in SUBSET (1 .. Len(hints))
      /\ ByteDirect(hints, l) \subseteq Candidates(hints, l)
  BY <1>1 DEF Candidates, ByteDirect
<1>3. Candidates(hints, l) \in SUBSET Nat /\ ByteDirect(hints, l) \in SUBSET Nat
  BY <1>1, <1>2
<1> QED
  BY <1>2, <1>3, MinExists

(* The indices one more entry adds. *)
LEMMA CandidatesAppend ==
  ASSUME NEW hints \in Seq(Hint), NEW hint \in Hint, NEW l
  PROVE  /\ Candidates(Append(hints, hint), l) =
              IF hint.location = l THEN Candidates(hints, l) \cup {Len(hints) + 1}
              ELSE Candidates(hints, l)
         /\ ByteDirect(Append(hints, hint), l) =
              IF hint.location = l /\ hint.scene \in HotScenes
              THEN ByteDirect(hints, l) \cup {Len(hints) + 1}
              ELSE ByteDirect(hints, l)
<1>1. /\ Len(hints) \in Nat
      /\ DOMAIN hints = 1 .. Len(hints)
      /\ DOMAIN Append(hints, hint) = 1 .. Len(hints) + 1
      /\ \A i \in 1 .. Len(hints) : Append(hints, hint)[i] = hints[i]
      /\ Append(hints, hint)[Len(hints) + 1] = hint
  BY LenProperties, AppendProperties
<1>2. 1 .. Len(hints) + 1 = (1 .. Len(hints)) \cup {Len(hints) + 1}
  BY <1>1
<1>3. Candidates(Append(hints, hint), l) =
        IF hint.location = l THEN Candidates(hints, l) \cup {Len(hints) + 1}
        ELSE Candidates(hints, l)
  BY <1>1, <1>2 DEF Candidates
<1>4. \A i \in Candidates(hints, l) : Append(hints, hint)[i] = hints[i]
  BY <1>1 DEF Candidates
<1> QED
  BY <1>1, <1>3, <1>4 DEF ByteDirect

(* A new index above all others is the least only of an empty set. *)
LEMMA MinWithLarger ==
  ASSUME NEW n \in Nat, NEW S \in SUBSET (1 .. n)
  PROVE  Min(S \cup {n + 1}) = IF S = {} THEN n + 1 ELSE Min(S)
<1> DEFINE T == S \cup {n + 1}
<1>1. T \in SUBSET Int /\ S \in SUBSET Nat
  OBVIOUS
<1>2. CASE S = {}
  <2>1. n + 1 \in T /\ \A i \in T : n + 1 <= i
    BY <1>2
  <2> QED
    BY <1>1, <1>2, <2>1, MinIs
<1>3. CASE S # {}
  <2>1. Min(S) \in S /\ \A i \in S : Min(S) <= i
    BY <1>1, <1>3, MinExists
  <2>2. Min(S) \in 1 .. n
    BY <2>1
  <2>3. Min(S) \in T /\ \A i \in T : Min(S) <= i
    BY <2>1, <2>2
  <2> QED
    BY <1>1, <1>3, <2>3, MinIs
<1> QED
  BY <1>2, <1>3

(* One entry more: RecordHint does to the table what the closed form says. *)
LEMMA MatchAppend ==
  ASSUME NEW hints \in Seq(Hint), NEW hint \in Hint, NEW l \in Locations
  PROVE  MatchFor(Append(hints, hint), l) =
           IF /\ hint.location = l
              /\ Improves(MatchOf(hint), MatchFor(hints, l))
           THEN MatchOf(hint)
           ELSE MatchFor(hints, l)
<1> DEFINE longer == Append(hints, hint)
           n == Len(hints)
<1>1. /\ n \in Nat
      /\ \A i \in 1 .. n : longer[i] = hints[i]
      /\ longer[n + 1] = hint
  BY LenProperties, AppendProperties
<1>2. /\ Candidates(hints, l) \in SUBSET (1 .. n)
      /\ ByteDirect(hints, l) \in SUBSET (1 .. n)
      /\ ByteDirect(hints, l) \subseteq Candidates(hints, l)
  BY CandidatesTyped
<1>3. /\ Candidates(hints, l) # {} =>
           Min(Candidates(hints, l)) \in Candidates(hints, l)
      /\ ByteDirect(hints, l) # {} =>
           Min(ByteDirect(hints, l)) \in ByteDirect(hints, l)
  BY CandidatesTyped
<1>4. /\ Candidates(hints, l) # {} =>
           longer[Min(Candidates(hints, l))] = hints[Min(Candidates(hints, l))]
      /\ ByteDirect(hints, l) # {} =>
           longer[Min(ByteDirect(hints, l))] = hints[Min(ByteDirect(hints, l))]
  BY <1>1, <1>2, <1>3
<1>5. CASE hint.location # l
  <2>1. /\ Candidates(longer, l) = Candidates(hints, l)
        /\ ByteDirect(longer, l) = ByteDirect(hints, l)
    BY <1>5, CandidatesAppend
  <2> QED
    BY <1>4, <1>5, <2>1 DEF MatchFor
<1>6. CASE hint.location = l /\ hint.scene \in HotScenes
  <2>1. /\ Candidates(longer, l) = Candidates(hints, l) \cup {n + 1}
        /\ ByteDirect(longer, l) = ByteDirect(hints, l) \cup {n + 1}
    BY <1>6, CandidatesAppend
  <2>2. Min(ByteDirect(longer, l)) =
          IF ByteDirect(hints, l) = {} THEN n + 1 ELSE Min(ByteDirect(hints, l))
    BY <1>1, <1>2, <2>1, MinWithLarger
  <2>3. MatchFor(longer, l) = IF ByteDirect(hints, l) = {} THEN MatchOf(hint)
                              ELSE MatchFor(hints, l)
    BY <1>1, <1>4, <2>1, <2>2 DEF MatchFor
  <2>4. ByteDirect(hints, l) = {} <=> Improves(MatchOf(hint), MatchFor(hints, l))
    <3>1. CASE ByteDirect(hints, l) # {}
      <4>1. hints[Min(ByteDirect(hints, l))].scene \in HotScenes
        BY <1>3, <3>1 DEF ByteDirect
      <4> QED
        BY <3>1, <4>1 DEF MatchFor, MatchOf, Improves, NoMatch
    <3>2. CASE ByteDirect(hints, l) = {} /\ Candidates(hints, l) # {}
      <4>1. Min(Candidates(hints, l)) \notin ByteDirect(hints, l)
        BY <3>2
      <4>2. hints[Min(Candidates(hints, l))].scene \notin HotScenes
        BY <1>3, <3>2, <4>1 DEF ByteDirect
      <4> QED
        BY <1>6, <3>2, <4>2 DEF MatchFor, MatchOf, Improves
    <3>3. CASE Candidates(hints, l) = {}
      BY <1>2, <3>3 DEF MatchFor, Improves
    <3> QED
      BY <3>1, <3>2, <3>3
  <2> QED
    BY <1>6, <2>3, <2>4
<1>7. CASE hint.location = l /\ hint.scene \notin HotScenes
  <2>1. /\ Candidates(longer, l) = Candidates(hints, l) \cup {n + 1}
        /\ ByteDirect(longer, l) = ByteDirect(hints, l)
    BY <1>7, CandidatesAppend
  <2>2. Min(Candidates(longer, l)) =
          IF Candidates(hints, l) = {} THEN n + 1 ELSE Min(Candidates(hints, l))
    BY <1>1, <1>2, <2>1, MinWithLarger
  <2>3. MatchFor(longer, l) = IF Candidates(hints, l) = {} THEN MatchOf(hint)
                              ELSE MatchFor(hints, l)
    BY <1>1, <1>2, <1>4, <2>1, <2>2 DEF MatchFor
  <2>4. Candidates(hints, l) = {} <=> Improves(MatchOf(hint), MatchFor(hints, l))
    <3>1. CASE Candidates(hints, l) = {}
      BY <1>2, <3>1 DEF MatchFor, Improves
    <3>2. CASE Candidates(hints, l) # {}
      <4>1. MatchFor(hints, l) # NoMatch
        BY <1>2, <3>2 DEF MatchFor, MatchOf, NoMatch
      <4> QED
        BY <1>7, <3>2, <4>1 DEF MatchOf, Improves
    <3> QED
      BY <3>1, <3>2
  <2> QED
    BY <1>7, <2>3, <2>4
<1> QED
  BY <1>5, <1>6, <1>7

(* A location resolves to a scene of the asset directory with hotspots, or *)
(* to none.                                                                *)
LEMMA SceneForTyped ==
  ASSUME NEW hints \in Seq(Hint), NEW l \in Locations, SceneFor(hints, l) # NoScene
  PROVE  SceneFor(hints, l) \in HotScenes
<1>1. /\ ByteDirect(hints, l) # {} =>
           Min(ByteDirect(hints, l)) \in ByteDirect(hints, l)
      /\ Candidates(hints, l) # {} =>
           Min(Candidates(hints, l)) \in Candidates(hints, l)
  BY CandidatesTyped
<1>2. CASE ByteDirect(hints, l) # {}
  <2>1. hints[Min(ByteDirect(hints, l))].scene \in HotScenes
    BY <1>1, <1>2 DEF ByteDirect
  <2> QED
    BY <1>2, <2>1 DEF SceneFor, MatchFor, MatchOf, SceneOf
<1>3. CASE ByteDirect(hints, l) = {} /\ Candidates(hints, l) # {}
  <2>1. Min(Candidates(hints, l)) \notin ByteDirect(hints, l)
    BY <1>3
  <2>2. hints[Min(Candidates(hints, l))].scene \notin HotScenes
    BY <1>1, <1>3, <2>1 DEF ByteDirect
  <2> QED
    BY <1>3, <2>2 DEF SceneFor, MatchFor, MatchOf, SceneOf
<1>4. CASE ByteDirect(hints, l) = {} /\ Candidates(hints, l) = {}
  BY <1>4 DEF SceneFor, MatchFor, SceneOf, NoMatch
<1> QED
  BY <1>2, <1>3, <1>4

-----------------------------------------------------------------------------
(* FmvPlayer.                                                              *)

LEMMA FilmTyped ==
  /\ \A f \in SceneIds : Film[f] \in FilmFile
  /\ \A f \in SceneIds \cup {NoFilm} : /\ Frames(f) \in Seq(FrameData)
                                       /\ Len(Frames(f)) \in Nat
  /\ Frames(NoFilm) = <<>> /\ Len(Frames(NoFilm)) = 0
<1>1. \A f \in SceneIds : Film[f] \in FilmFile
  BY FilmAssumption
<1>2. \A f \in SceneIds : Film[f].frames \in Seq(FrameData)
  BY <1>1 DEF FilmFile
<1>3. \A f \in SceneIds \cup {NoFilm} : Frames(f) \in Seq(FrameData)
  BY <1>2, EmptySeq, FilmAssumption DEF Frames
<1> QED
  BY <1>1, <1>3, LenProperties, EmptySeq DEF Frames

(* A frame that can be loaded is a frame of the file behind source_. *)
LEMMA LoadableTyped ==
  ASSUME NEW p \in Player, NEW i \in Nat, Loadable(p, i)
  PROVE  p.source \in SceneIds
<1>1. p.source \in SceneIds \cup {NoFilm}
  BY DEF Player
<1>2. CASE p.source = NoFilm
  BY <1>2, FilmTyped DEF Loadable
<1> QED
  BY <1>1, <1>2

(* Decoding gives a picture of the film decoded, or keeps the one before.  *)
LEMMA DecodeTyped ==
  ASSUME NEW d \in Picture, NEW f, NEW from \in Nat, NEW to \in Int,
         to >= from => f \in SceneIds
  PROVE  Decode(d, f, from, to) \in Picture
<1>1. CASE to < from
  BY <1>1 DEF Decode
<1>2. CASE to >= from
  <2>1. f \in SceneIds /\ to \in Nat
    BY <1>2
  <2>2. [film |-> f, frame |-> to] \in Picture /\ Mixed \in Picture
    BY <2>1 DEF Picture
  <2>3. Decode(d, f, from, to) \in {[film |-> f, frame |-> to], Mixed}
    BY <1>2 DEF Decode
  <2> QED
    BY <2>2, <2>3
<1> QED
  BY <1>1, <1>2

(* Loading a run of frames keeps the player within its type: the index     *)
(* never goes below the first frame.                                       *)
LEMMA LoadRunTyped ==
  ASSUME NEW p \in Player, NEW from \in Nat, NEW to \in Nat
  PROVE  LoadRun(p, from, to) \in Player
<1> DEFINE unloadable == {i \in from .. to : ~Loadable(p, i)}
           last == IF unloadable = {} THEN to ELSE Min(unloadable) - 1
           pic == Decode(p.decoder, p.source, from, last)
<1>1. unloadable # {} =>
        /\ Min(unloadable) \in unloadable
        /\ \A i \in unloadable : Min(unloadable) <= i
  <2>1. unloadable \in SUBSET Nat
    OBVIOUS
  <2> QED
    BY <2>1, MinExists
<1>2. unloadable # {} => Min(unloadable) \in Nat /\ Min(unloadable) >= from
  BY <1>1
<1>3. last \in Int
  BY <1>2
<1>4. last >= from => p.source \in SceneIds
  <2> SUFFICES ASSUME last >= from PROVE p.source \in SceneIds
    OBVIOUS
  <2>1. from <= to
    BY <1>1
  <2>2. from \notin unloadable
    BY <1>1, <1>2
  <2>3. Loadable(p, from)
    BY <2>1, <2>2
  <2> QED
    BY <2>3, LoadableTyped
<1>5. p.decoder \in Picture /\ p.picture \in Picture
  BY DEF Player
<1>6. pic \in Picture
  BY <1>3, <1>4, <1>5, DecodeTyped
<1>7. LoadRun(p, from, to) =
        [p EXCEPT !.decoder = pic,
                  !.picture = IF last < from THEN @ ELSE pic,
                  !.frame = IF unloadable = {} THEN to ELSE Min(unloadable),
                  !.done = IF unloadable = {} THEN @ ELSE TRUE]
  BY DEF LoadRun
<1> HIDE DEF unloadable, last, pic
<1> QED
  BY <1>2, <1>5, <1>6, <1>7 DEF Player

(* So do the four calls of the player. *)
LEMMA NewPlayerTyped == NewPlayer \in Player
BY DEF NewPlayer, Player, Picture

LEMMA OpenTyped ==
  ASSUME NEW p \in Player, NEW f \in SceneIds
  PROVE  Open(p, f) \in Player
<1>1. OpenOk(f) \in BOOLEAN
  BY DEF OpenOk
<1> QED
  BY <1>1 DEF Open, Player

LEMMA AttachTyped ==
  ASSUME NEW p \in Player, NEW created \in BOOLEAN
  PROVE  Attach(p, created) \in Player
<1> DEFINE blank == [p EXCEPT !.texture = created, !.picture = Blank]
<1>1. blank \in Player /\ [blank EXCEPT !.age = 0] \in Player
  BY DEF Player, Picture
<1>2. LoadRun([blank EXCEPT !.age = 0], 0, 0) \in Player
  BY <1>1, LoadRunTyped
<1> HIDE DEF blank
<1>3. Attach(p, created) \in {p, blank, LoadRun([blank EXCEPT !.age = 0], 0, 0)}
  BY DEF Attach, blank
<1> QED
  BY <1>1, <1>2, <1>3

LEMMA PumpTyped ==
  ASSUME NEW p \in Player
  PROVE  Pump(p) \in Player
<1>1. p.frame + 1 \in Nat /\ p.age \in Nat
  BY DEF Player
<1>2. LoadRun(p, p.frame + 1, p.age) \in Player
  BY <1>1, LoadRunTyped
<1>3. [p EXCEPT !.done = TRUE] \in Player
  BY DEF Player
<1>4. Pump(p) \in {p, [p EXCEPT !.done = TRUE], LoadRun(p, p.frame + 1, p.age)}
  BY DEF Pump
<1> QED
  BY <1>2, <1>3, <1>4

(* Only open() changes whose tracks are played.                            *)
LEMMA VideoKept ==
  ASSUME NEW p \in Player
  PROVE  /\ \A from, to \in Nat : LoadRun(p, from, to).video = p.video
         /\ Pump(p).video = p.video
         /\ \A created \in BOOLEAN : Attach(p, created).video = p.video
<1>1. ASSUME NEW q \in Player, NEW from \in Nat, NEW to \in Nat
      PROVE  LoadRun(q, from, to).video = q.video
  BY DEF LoadRun, Player
<1>2. Pump(p).video = p.video
  <2>1. p.frame + 1 \in Nat /\ p.age \in Nat
    BY DEF Player
  <2>2. LoadRun(p, p.frame + 1, p.age).video = p.video
    BY <1>1, <2>1
  <2>3. [p EXCEPT !.done = TRUE].video = p.video
    BY DEF Player
  <2> QED
    BY <2>2, <2>3 DEF Pump
<1>3. ASSUME NEW created \in BOOLEAN
      PROVE  Attach(p, created).video = p.video
  <2> DEFINE blank == [p EXCEPT !.texture = created, !.picture = Blank]
             clocked == [blank EXCEPT !.age = 0]
  <2>1. /\ blank \in Player /\ blank.video = p.video
        /\ clocked \in Player /\ clocked.video = p.video
    BY DEF Player, Picture
  <2>2. Attach(p, created) \in {p, blank, LoadRun(clocked, 0, 0)}
    BY DEF Attach
  <2> HIDE DEF blank, clocked
  <2>3. LoadRun(clocked, 0, 0).video = p.video
    BY <1>1, <2>1
  <2> QED
    BY <2>1, <2>2, <2>3
<1> QED
  BY <1>1, <1>2, <1>3

LEMMA OpenVideo ==
  ASSUME NEW p \in Player, NEW f \in SceneIds
  PROVE  /\ Open(p, f).video \in {p.video, f}
         /\ OpenOk(f) => Open(p, f).video = f
BY DEF Open, OpenOk, Player
=============================================================================
