------------------------------- MODULE PyData --------------------------------
(***************************************************************************)
(* The idioms of the Python tool-chain the other modules share: None, the  *)
(* defaults of dict.get and `or', dicts filled from lists, slices.         *)
(***************************************************************************)
EXTENDS Integers, SequencesExt, FiniteSetsExt

CONSTANT None     \* Python's None, and a member that is not there
ASSUME NoneAssumption == None \notin Int

Default(x, otherwise) == IF x = None THEN otherwise ELSE x
(* `a or b' for lists. *)
OrElse(x, otherwise) == IF x \in {None, <<>>} THEN otherwise ELSE x
RowsOf(artifact) == IF artifact = None THEN <<>> ELSE artifact
OneIf(b) == IF b THEN 1 ELSE 0

(* seq[:n] *)
FirstOf(seq, n) == SubSeq(seq, 1, Min({n, Len(seq)}))

(* A dict filled from a list: a later item replaces an earlier one.        *)
LastByKey(seq, Key(_)) ==
  [k \in {Key(seq[i]) : i \in DOMAIN seq} |->
     seq[Max({i \in DOMAIN seq : Key(seq[i]) = k})]]

(* `if x not in seen: append' *)
AppendNew(seq, x) == IF Contains(seq, x) THEN seq ELSE Append(seq, x)
KeepFirsts(seq) == FoldLeft(AppendNew, <<>>, seq)

AsSeq(set) == FoldSet(LAMBDA x, acc : Append(acc, x), <<>>, set)
Ascending(set) == SortSeq(AsSeq(set), LAMBDA a, b : a < b)
SumOf(seq, Measure(_)) == FoldLeft(LAMBDA n, x : n + Measure(x), 0, seq)
=============================================================================
