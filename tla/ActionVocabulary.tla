-------------------------- MODULE ActionVocabulary --------------------------
(***************************************************************************)
(* action_vocabulary.json (extractors/action_vocabulary.py): the records of*)
(* class VCStdAction, tallied by opcode. A record is its eight header bytes*)
(* and its arguments, or shorter than the header. An argument is a member  *)
(* of a small set, with the ASCII runs it holds.                           *)
(***************************************************************************)
EXTENDS PyData

CONSTANTS
  Short,        \* a payload below the header size
  MaxSamples,   \* 4, the argument samples kept for an opcode
  MaxRuns       \* 5, the ASCII runs shown for an opcode

ASSUME VocabularyAssumption == MaxSamples \in Nat /\ MaxRuns \in Nat

NewOpcode ==
  [count |-> 0, flags_seen |-> {}, arg_sizes |-> <<>>, rid_seen |-> <<>>,
   sample_args |-> <<>>, ascii_runs_seen |-> <<>>]

NoVocabulary ==
  [per_opcode |-> <<>>, decoded |-> <<>>, short_records |-> 0, rid_set |-> {},
   rid_collisions |-> 0]

EntryOf(per_opcode, opcode) ==
  IF opcode \in DOMAIN per_opcode THEN per_opcode[opcode] ELSE NewOpcode
WithEntry(per_opcode, opcode, entry) ==
  [op \in DOMAIN per_opcode \cup {opcode} |->
     IF op = opcode THEN entry ELSE per_opcode[op]]

(* What one more record makes of the entry of its opcode. *)
Tallied(entry, rec) ==
  [count |-> entry.count + 1,
   flags_seen |-> entry.flags_seen \cup {rec.flags},
   arg_sizes |-> Append(entry.arg_sizes, rec.arg_size),
   rid_seen |-> Append(entry.rid_seen, rec.rid),
   sample_args |-> IF rec.arg_size > 0 /\ Len(entry.sample_args) < MaxSamples
                   THEN Append(entry.sample_args, rec.args) ELSE entry.sample_args,
   ascii_runs_seen |-> FoldLeft(AppendNew, entry.ascii_runs_seen, rec.ascii_runs)]

(* Mutated form: a record whose id was seen before is not tallied again. *)
MutDecodeAction(voc, rec) ==
  IF rec = Short THEN [voc EXCEPT !.short_records = @ + 1]
  ELSE IF rec.rid \in voc.rid_set THEN [voc EXCEPT !.rid_collisions = @ + 1]
  ELSE [voc EXCEPT
    !.per_opcode = WithEntry(@, rec.opcode, Tallied(EntryOf(@, rec.opcode), rec)),
    !.decoded = Append(@, rec),
    !.rid_set = @ \cup {rec.rid}]

(* The body of the loop of build_action_vocabulary. *)
DecodeAction(voc, rec) ==
  IF rec = Short THEN [voc EXCEPT !.short_records = @ + 1]
  ELSE [voc EXCEPT
    !.per_opcode = WithEntry(@, rec.opcode, Tallied(EntryOf(@, rec.opcode), rec)),
    !.decoded = Append(@, rec),
    !.rid_set = @ \cup {rec.rid},
    !.rid_collisions = @ + (IF rec.rid \in voc.rid_set THEN 1 ELSE 0)]

-----------------------------------------------------------------------------
(* The rollup: action_types in opcode order, and the statistics. The effect*)
(* of an opcode is undetermined whatever the evidence.                     *)
MinOf(seq) == Min({seq[i] : i \in DOMAIN seq})
MaxOf(seq) == Max({seq[i] : i \in DOMAIN seq})
Histogram(seq) ==
  [x \in {seq[i] : i \in DOMAIN seq} |-> Len(SelectSeq(seq, LAMBDA y : y = x))]

ActionType(op, entry) ==
  [action_type |-> op, count |-> entry.count,
   flags_seen |-> Ascending(entry.flags_seen),
   arg_size_min |-> MinOf(entry.arg_sizes), arg_size_max |-> MaxOf(entry.arg_sizes),
   arg_size_histogram |-> Histogram(entry.arg_sizes),
   sample_args |-> entry.sample_args,
   ascii_runs_seen |-> FirstOf(entry.ascii_runs_seen, MaxRuns),
   candidate_effect |-> "undetermined",
   persistent_record_ids |-> SortSeq(entry.rid_seen, LAMBDA a, b : a < b)]

VocabularyFile(voc) ==
  LET ops == Ascending(DOMAIN voc.per_opcode) IN
  [stats |->
     [vcstdaction_records_total |-> Len(voc.decoded) + voc.short_records,
      vcstdaction_records_decoded |-> Len(voc.decoded),
      vcstdaction_short_records |-> voc.short_records,
      distinct_action_types |-> Len(ops),
      action_types_byte_direct_effect |-> 0,
      action_types_undetermined |-> Len(ops),
      distinct_persistent_record_ids |-> Cardinality(voc.rid_set),
      persistent_record_id_collisions |-> voc.rid_collisions],
   action_types |-> [i \in DOMAIN ops |-> ActionType(ops[i], voc.per_opcode[ops[i]])]]
=============================================================================
