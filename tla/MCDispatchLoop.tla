--------------------------- MODULE MCDispatchLoop ---------------------------
(***************************************************************************)
(* Two variables, one integer literal, lists of up to three effects, and   *)
(* three states on entry: empty, one variable set, one hand-edited value.  *)
(***************************************************************************)
EXTENDS DispatchLoop

CONSTANTS x, y

MCStarts ==
  {EmptyState,
   [EmptyState EXCEPT !.values[x] = "true", !.counts["set_true"] = 2],
   [EmptyState EXCEPT !.values[y] = "maybe", !.counts["uninterpreted"] = 1]}
=============================================================================
