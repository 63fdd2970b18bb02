---------------------------- MODULE Conversations ----------------------------
(***************************************************************************)
(* conversations.json (python/.../extractors/conversations.py): every      *)
(* VCConversation record decoded into grammar slots, the list containers   *)
(* split into entries, the slots resolved against the dialogue table, the  *)
(* record index and the file itself, the edges between records.            *)
(*                                                                         *)
(* A u32 is a small number. It may be a dialogue id, an id of the record   *)
(* index and an offset of the file at once: which one it is taken for is   *)
(* what this module is about. A payload is the list of its dwords.         *)
(***************************************************************************)
EXTENDS PyData

CONSTANTS
  Dll,          \* dialogue id -> text, the string table
  DLL_ID_MAX,   \* 1105, the last id looked up in it
  NoText,       \* the empty text, which the table may hold
  IndexedAt,    \* id -> offset: what resolve_offset answers
  Extended,     \* the ids it answers from extended_offsets
  ClassAt,      \* offset -> class id: where the bytes are a marker
  ListHeader, PairSize   \* 16 and 8

VC_CONVERSATION_CLASS_ID == 49
NoTarget == [offset |-> None, class_id |-> None, source |-> None]

ASSUME DllAssumption == DOMAIN Dll \subseteq Nat \ {0} /\ DLL_ID_MAX \in Nat
ASSUME IndexAssumption == Extended \subseteq DOMAIN IndexedAt

GRAMMAR_FIELDS ==
  <<"conversation_id", "topic", "response_1", "next_conversation_id", "prompt",
    "response_2", "flags">>
InDll(v) == v \in DOMAIN Dll /\ v <= DLL_ID_MAX
StringSlots == {"prompt", "response_1", "response_2"}
HandleSlots == {"conversation_id", "topic", "next_conversation_id"}
LinkSlots == StringSlots \cup HandleSlots

-----------------------------------------------------------------------------
(* _resolve_handle, then _resolve_direct_offset: an id of the index whose  *)
(* offset is a marker, or an offset other than 0 that is one.              *)
ResolveHandle(v) ==
  IF v \notin DOMAIN IndexedAt \/ IndexedAt[v] \notin DOMAIN ClassAt THEN NoTarget
  ELSE [offset |-> IndexedAt[v], class_id |-> ClassAt[IndexedAt[v]],
        source |-> IF v \in Extended THEN "extended" ELSE "page-aligned"]

ResolveDirectOffset(v) ==
  IF v = 0 \/ v \notin DOMAIN ClassAt THEN NoTarget
  ELSE [offset |-> v, class_id |-> ClassAt[v], source |-> "direct-offset"]

TargetOf(v) ==
  IF ResolveHandle(v) # NoTarget THEN ResolveHandle(v) ELSE ResolveDirectOffset(v)

-----------------------------------------------------------------------------
(* A slot: its dword or None, the text it stands for, where it leads.      *)
Slot(v, text, target, certainty, reason) ==
  [raw_u32 |-> v, text |-> text, target |-> target,
   certainty |-> certainty, reason |-> reason]

AbsentSlot(reason) == Slot(None, None, NoTarget, "undetermined", reason)

(* _slot: prompt and the two responses. *)
StringSlot(v) ==
  IF v = None THEN AbsentSlot("field-not-present-in-payload")
  ELSE IF InDll(v) THEN Slot(v, Dll[v], NoTarget, "byte-direct", None)
  ELSE IF TargetOf(v) # NoTarget
       THEN Slot(v, None, TargetOf(v), "byte-direct", None)
  ELSE Slot(v, None, NoTarget, "undetermined",
            "u32-not-in-dll-string-range-and-not-in-extended-index")

(* _raw_slot: the three handles are byte-direct whatever they lead to; a   *)
(* text they happen to name is a cross-reference beside them.              *)
RawSlot(v) ==
  IF v = None THEN AbsentSlot("field-not-present-in-payload")
  ELSE Slot(v, IF InDll(v) THEN Dll[v] ELSE None, TargetOf(v),
            "byte-direct", None)

FlagsSlot(v) ==
  IF v = None THEN AbsentSlot("field-not-present-in-payload")
  ELSE Slot(v, None, NoTarget, "byte-direct", None)

HasText(slot) == slot.certainty = "byte-direct" /\ slot.text \notin {None, NoText}
HasTarget(slot) == slot.target # NoTarget

Certainty(sure) == IF sure THEN "byte-direct" ELSE "undetermined"

-----------------------------------------------------------------------------
(* _decode_conversation_record: dwords in read order. *)
DwordFor(dwords, field) ==
  LET i == CHOOSE k \in DOMAIN GRAMMAR_FIELDS : GRAMMAR_FIELDS[k] = field
  IN  IF i \in DOMAIN dwords THEN dwords[i] ELSE None

DecodeConversationRecord(offset, dwords) ==
  LET slots == [f \in LinkSlots \cup {"flags"} |->
                  LET v == DwordFor(dwords, f) IN
                  CASE f \in StringSlots -> StringSlot(v)
                    [] f \in HandleSlots -> RawSlot(v)
                    [] OTHER -> FlagsSlot(v)]
      sure == \/ \E f \in StringSlots : HasText(slots[f])
              \/ \E f \in HandleSlots : slots[f].certainty = "byte-direct"
              \/ \E f \in LinkSlots : HasTarget(slots[f])
  IN  [record_offset |-> offset, kind |-> "conversation_record", slots |-> slots,
       raw_dwords |-> dwords, certainty |-> Certainty(sure)]

(* _decode_list_container: the container, its entries and their edges.     *)
ListEntry(offset, k, pair) ==
  LET prompt == StringSlot(pair[2]) IN
  [record_offset |-> offset + ListHeader + (k - 1) * PairSize,
   kind |-> "list_container_entry",
   slots |-> [f \in LinkSlots \cup {"flags"} |->
     CASE f = "prompt" -> prompt
       [] f = "conversation_id" ->
            Slot(pair[1], None, TargetOf(pair[1]), "byte-direct", None)
       [] f \in {"response_1", "response_2"} ->
            AbsentSlot("list-entry-has-no-response-slot")
       [] f = "topic" -> AbsentSlot("list-entry-has-no-topic-slot")
       [] f = "next_conversation_id" -> AbsentSlot("list-entry-has-no-next-slot")
       [] f = "flags" -> AbsentSlot("list-entry-has-no-flags-slot")],
   certainty |-> Certainty(prompt.certainty = "byte-direct")]

ListContainer(offset) ==
  [record_offset |-> offset, kind |-> "list_container", slots |-> <<>>,
   certainty |-> "byte-direct"]

ListEntries(offset, pairs) ==
  [k \in DOMAIN pairs |-> ListEntry(offset, k, pairs[k])]

-----------------------------------------------------------------------------
Edge(from, to, via, slot, class_id) ==
  [from |-> from, to |-> to, via |-> via, slot |-> slot,
   cross_conversation |-> class_id = VC_CONVERSATION_CLASS_ID]

(* _emit_handle_edges: one edge for every slot that leads somewhere.       *)
HandleEdges(record) ==
  LET linked == {f \in LinkSlots : /\ record.slots[f].certainty = "byte-direct"
                                   /\ HasTarget(record.slots[f])}
      edge(f) == LET t == record.slots[f].target IN
                 Edge(record.record_offset, t.offset, "handle_target", f, t.class_id)
      fields == AsSeq(linked)
  IN  [i \in DOMAIN fields |-> edge(fields[i])]

ContainerEdges(offset, entries) ==
  [k \in DOMAIN entries |->
     Edge(offset, entries[k].record_offset, "list_container_entry", None, None)]

(* The next link of a record, when it is another record of the class.      *)
NextLink(record, class31) ==
  LET nxt == record.slots["next_conversation_id"].raw_u32 IN
  IF nxt \in class31 \ {record.record_offset}
  THEN <<Edge(record.record_offset, nxt, "next_link", None, None)>> ELSE <<>>

-----------------------------------------------------------------------------
(* The statistics of extract_conversations. *)
NoStats ==
  [with_resolved_text |-> 0, with_resolved_handle |-> 0,
   conversation_records |-> 0, list_containers |-> 0, list_container_entries |-> 0,
   extended |-> 0, page_aligned |-> 0, direct_offset |-> 0,
   handles_unresolved |-> 0, undetermined_total |-> 0]

Count(slots, fields, Test(_)) == Cardinality({f \in fields : Test(slots[f])})

(* _tally_slot over some slots of one record: a slot counts once, by where *)
(* it was resolved, or as undetermined.                                    *)
TallySlots(stats, slots, fields) ==
  LET from(s) == Count(slots, fields, LAMBDA slot : slot.target.source = s)
      missing(slot) == ~HasTarget(slot) /\ slot.certainty = "undetermined"
  IN  [stats EXCEPT
        !.extended = @ + from("extended"),
        !.page_aligned = @ + from("page-aligned"),
        !.direct_offset = @ + from("direct-offset"),
        !.undetermined_total = @ + Count(slots, fields, missing),
        !.handles_unresolved =
           @ + Count(slots, fields, LAMBDA slot : missing(slot) /\ slot.raw_u32 # None)]

(* Mutated form: the topic is left out of the tally. *)
MutTallyRecord(stats, record) ==
  [TallySlots(stats, record.slots, LinkSlots \ {"topic"}) EXCEPT
     !.conversation_records = @ + 1]

TallyRecord(stats, record) ==
  LET slots == record.slots
      text == \E f \in LinkSlots : HasText(slots[f])
      handle == \E f \in LinkSlots : HasTarget(slots[f])
  IN  [TallySlots(stats, slots, LinkSlots) EXCEPT
        !.conversation_records = @ + 1,
        !.with_resolved_text = @ + OneIf(text),
        !.with_resolved_handle = @ + OneIf(handle)]

TallyEntry(stats, entry) ==
  LET slots == entry.slots
      handle == \E f \in {"conversation_id", "prompt"} : HasTarget(slots[f])
  IN  [TallySlots(stats, slots, {"prompt", "conversation_id"}) EXCEPT
        !.list_container_entries = @ + 1,
        !.with_resolved_text = @ + OneIf(HasText(slots["prompt"])),
        !.with_resolved_handle = @ + OneIf(handle)]

TallyContainer(stats, entries) ==
  FoldLeft(TallyEntry, [stats EXCEPT !.list_containers = @ + 1], entries)

HandlesResolved(stats) == stats.extended + stats.page_aligned + stats.direct_offset
=============================================================================
