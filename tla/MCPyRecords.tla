----------------------------- MODULE MCPyRecords -----------------------------
(***************************************************************************)
(* Records of every class of the registry, filled with bytes that tell     *)
(* their place, or with nothing, in three versions and cut at every byte.  *)
(***************************************************************************)
EXTENDS PyRecords

(* A class with the reads no class of the registry makes.                  *)
TestSpec == Spec_("X", <<String("e"), DwordF("NULL"), BufF("vers", 3), Short("f")>>)
MCSpecs ==
  38 :> TestSpec @@ ALL_CLASSES
MCFills == {"blank", "large"}
MCVersions == [blank |-> {None, <<0, 0, 0, 5>>},
               large |-> {<<0, 0, 0, 4>>, <<0, 0, 0, 5>>}]
MCLead == <<1, 2, 3>>

(* A number that tells its place: small, or with its first bit set.        *)
Told(first, n, i) == [k \in 1 .. n |-> IF k = n THEN 30 + i ELSE IF k = 1 THEN first ELSE 0]
MCValueOf(fill_, op, i) ==
  CASE op.kind = "ObjList" -> <<Told(0, 4, i), FOURCC.NULL, FOURCC.NULL, Told(0, 4, i + 1)>>
    [] op.kind # "ObjList" /\ fill_ = "blank" -> None
    [] fill_ # "blank" /\ op.kind = "SubObj" ->
         IF i % 3 = 0 THEN None ELSE <<Told(200, 4, i), Told(0, 4, 7), Told(0, 4, i)>>
    [] fill_ # "blank" /\ op.kind = "BaseInit" -> <<171, 205, 239>>
    [] fill_ # "blank" /\ op.kind = "String" -> Told(40, 3, i)
    [] fill_ # "blank" /\ op.kind = "BufF" -> Told(200, op.n - 1, i)
    [] fill_ # "blank" /\ op.kind \in NUMBERS -> Told(200 * (i % 2), op.n, i)
=============================================================================
