------------------------------ MODULE HdbIndex -------------------------------
(***************************************************************************)
(* A resolver over a file of the HDB: the constructor indexes page after   *)
(* page, then a caller extends it as often as it likes, by either scope or *)
(* by a set of classes, whose order is that of a Python set (cli.py and    *)
(* the extractors attach one, then extend and ask it). The other indexes   *)
(* and scans of the same file stand beside it.                             *)
(***************************************************************************)
EXTENDS HdbResolver, HdbScans

CONSTANTS
  Files,          \* bound: the files
  ClassSets,      \* bound: the classes a caller names together
  MaxCalls        \* bound on the extensions

ASSUME FilesAssumption ==
  \A file \in Files : file \in Seq(Words) /\ Size(file) >= HEADER_SIZE

VARIABLES
  raw, phase,     \* "building", "attached", "failed"
  scanned,        \* pages indexed
  resolver,
  pending,        \* classes the current class extension has left
  report, calls

vars == <<raw, phase, scanned, resolver, pending, report, calls>>

NoReport == [before |-> 0, after |-> 0, added |-> 0, per_class |-> <<>>]

Init ==
  /\ raw \in Files
  /\ phase = "building" /\ scanned = 0 /\ calls = 0
  /\ resolver = NewResolver /\ pending = {} /\ report = NoReport

-----------------------------------------------------------------------------
(* The constructor: a page the container does not have raises IndexError.  *)
BuildPage ==
  /\ phase = "building" /\ scanned \in ResolverPages(raw)
  /\ IF scanned \in Pages(raw)
     THEN /\ resolver' = IndexPage(resolver, raw, scanned)
          /\ scanned' = scanned + 1
          /\ UNCHANGED phase
     ELSE phase' = "failed" /\ UNCHANGED <<resolver, scanned>>
  /\ UNCHANGED <<raw, pending, report, calls>>

Attach ==
  /\ phase = "building" /\ scanned \notin ResolverPages(raw)
  /\ phase' = "attached"
  /\ UNCHANGED <<raw, scanned, resolver, pending, report, calls>>

Idle == phase = "attached" /\ pending = {}

ExtendWithNeoIdListEntries(scope) ==
  /\ Idle /\ calls < MaxCalls
  /\ calls' = calls + 1
  /\ resolver' = ExtendBy(resolver, raw, ScopePairs(raw, scope))
  /\ report' = [before |-> Cardinality(DOMAIN resolver.id_index),
                after |-> Cardinality(DOMAIN resolver'.id_index),
                added |-> Cardinality(NewIds(resolver, raw, ScopePairs(raw, scope))),
                per_class |-> <<>>]
  /\ UNCHANGED <<raw, phase, scanned, pending>>

ExtendWithClassIndex(class_ids) ==
  /\ Idle /\ calls < MaxCalls
  /\ calls' = calls + 1
  /\ pending' = class_ids
  /\ report' = [before |-> Cardinality(DOMAIN resolver.id_index),
                after |-> Cardinality(DOMAIN resolver.id_index),
                added |-> 0, per_class |-> <<>>]
  /\ UNCHANGED <<raw, phase, scanned, resolver>>

(* One class of the extension, in whatever order the set gives them.       *)
ExtendClass(class_id) ==
  LET pairs == ClassPairs(raw, class_id)
      new == Cardinality(NewIds(resolver, raw, pairs))
  IN
  /\ class_id \in pending
  /\ pending' = pending \ {class_id}
  /\ resolver' = ExtendBy(resolver, raw, pairs)
  /\ report' =
       [report EXCEPT
         !.after = Cardinality(DOMAIN resolver'.id_index),
         !.added = @ + new,
         !.per_class = Extended(@, [c \in {class_id} |->
           [records_scanned |-> Cardinality(ClassRegions(raw, class_id)),
            pair_candidates |-> Cardinality(pairs),
            ids_added |-> new]])]
  /\ UNCHANGED <<raw, phase, scanned, calls>>

Next ==
  \/ BuildPage \/ Attach
  \/ \E scope \in {"global", "neoidlist_records"} : ExtendWithNeoIdListEntries(scope)
  \/ \E class_ids \in ClassSets : ExtendWithClassIndex(class_ids)
  \/ \E class_id \in pending : ExtendClass(class_id)

Spec == Init /\ [][Next]_vars

-----------------------------------------------------------------------------
OffsetsOn(page, id) ==
  {PageOffset(page) + s : s \in {t \in SlotMarkers(raw, PageOffset(page)) :
                                   Value32(raw, page, t) = id}}
RecordsWith(id) == UNION {OffsetsOn(page, id) : page \in 0 .. scanned - 1}
Targets(id) ==
  {AsInt(WordAt(raw, pos)) : pos \in {p \in ScopePairs(raw, "global") :
                                        WordAt(raw, p + 4) = id}}

(* Whatever was indexed and extended, in whatever order, every known id    *)
(* leads to a marker: the first record that carries it, or, when none does,*)
(* a marker some pair of the file names for it.                            *)
EveryIdHasItsRecord ==
  \A id \in DOMAIN resolver.id_index :
    LET off == ResolveOffset(resolver, raw, id) IN
    /\ off \in AllMarkers(raw)
    /\ ClassifyHandle(resolver, raw, id) = <<"neoid", off>>
    /\ IF RecordsWith(id) # {} THEN off = Min(RecordsWith(id)) ELSE off \in Targets(id)

(* An extension never moves or loses an id: its offset, and its record and *)
(* payload where it has them, stay what they were (the promise "backward   *)
(* compatible", and "never re-bound" of the class extension).              *)
ExtensionsOnlyAdd ==
  [][phase = "attached" =>
       \A id \in DOMAIN resolver.id_index :
         /\ ResolveOffset(resolver', raw', id) = ResolveOffset(resolver, raw, id)
         /\ ResolvePayload(resolver', raw', id) = ResolvePayload(resolver, raw, id)]_vars

(* The three indexes of one file agree: what the table pages or the pairs  *)
(* of HandleResolver know, a global extension knows too, also one that came*)
(* after others; an id only one marker is named for leads to it in each;   *)
(* and the reports account for the growth of the index. A row of a table   *)
(* may lead into the header, which nobody else reads as records.           *)
IndexesAgree ==
  LET table == MasterIndex(raw).id_to_offset
      master == RestrictValues(table, LAMBDA off : off >= HEADER_SIZE)
      handles == HandleIndex(raw)
      global == ExtendBy(resolver, raw, ScopePairs(raw, "global"))
      inRange(id) == id # Zero /\ AtMost(id, NEOID_CEILING)
  IN
  Idle =>
    /\ Coverage(handles).distinct_neoids
         = Coverage(handles).unambiguous + Coverage(handles).ambiguous
    /\ \A id \in DOMAIN master \cup DOMAIN handles :
         inRange(id) => ResolveOffset(global, raw, id) # None
    /\ \A id \in DOMAIN handles :
         Targets(id) = handles[id] /\ ~ResolveHandleId(handles, raw, id).ambiguous
         /\ RecordsWith(id) = {} =>
           /\ ResolveOffset(global, raw, id) = ResolveHandleId(handles, raw, id).offset
           /\ id \in DOMAIN master => master[id] = ResolveOffset(global, raw, id)
    /\ report.after = report.before + report.added
    /\ report.per_class # <<>> =>
         report.added = SumFunction([c \in DOMAIN report.per_class |->
                                       report.per_class[c].ids_added])

(* The scans of one file tell one story: the parts of the container add up *)
(* to it, every record of the leaf catalog, every VCNav and every record a *)
(* trigger's pair names is where the record index has it, an exact offset  *)
(* is never moved, and no two records the leaves name begin together. A    *)
(* VCNav has a label only on a page that has a string, unless it is a tab  *)
(* or DEL that makes the label: the page index takes neither for text.     *)
Separates(words) == \E i \in DOMAIN words : NavText(words[i]) /\ ~Text(words[i])

ScansAgree ==
  LET index == RecordIndex(raw)
      triggers == DecodedTriggers(raw)
      walked == WalkRecords(raw)
      followed == FollowedRecords(raw)
      rows == PageIndex(raw)
      inventory == BtreeInventory(raw)
  IN
  phase = "attached" /\ calls = 0 =>
    /\ to_bytes(raw) = raw
    /\ \A tag \in DOMAIN page_type_distribution(raw) :
         page_type_distribution(raw)[tag]
           = Cardinality({p \in DOMAIN rows : rows[p].tag = tag})
    /\ \A leaf \in ResolvedLeafRecords(raw) :
         FindByOffset(index, leaf.offset).class_id = leaf.class_id
    /\ SumFunction(ResolvedCatalog(raw).by_class) = ResolvedCatalog(raw).total_resolved
    /\ \A nav \in NavTargets(raw).entries :
         LET rec == FindByOffset(index, nav.record_offset) IN
         nav.label # <<>> /\ ~Separates(NavPayload(raw, rec))
           => rows[rec.page_id].n_strings > 0
    /\ \A a, b \in walked : a.abs_off = b.abs_off => a = b
    /\ \A f \in followed :
         rows[(f.source_neoidlist_off - HEADER_SIZE) \div PAGE_SIZE].has_id_marker
    /\ SumFunction(categorize_followed(followed)) = Cardinality(followed)
    /\ SumFunction([k \in DOMAIN inventory |-> inventory[k].page_count])
         = Cardinality(ResolverPages(raw))
    /\ \A t \in DOMAIN triggers : \A pair \in triggers[t] :
         LET named == FindByOffset(index, AsInt(WordAt(raw, pair.at))) IN
         IF named # None
         THEN pair.read.byte_offset = named.byte_offset
              /\ pair.read.target_class_id = named.class_id
         ELSE pair.read.certainty = "byte-direct" => MagicAt(raw, pair.read.byte_offset)

(* What the doc of the typed records says: a record of a class of the      *)
(* registry is decoded with its class, so it is in the list, as long as the*)
(* record index has it. (The list is made from pages cut at offset 0.)     *)
EveryClassRecordIsTyped ==
  phase = "attached" =>
    \A rec \in RecordIndex(raw) :
      rec.class_id \in CLASS_IDS =>
        [marker_offset_abs |-> rec.byte_offset, marker_flag16 |-> rec.class_id,
         payload_size |-> rec.payload_size] \in TypedRecords(raw).typed_records
=============================================================================
