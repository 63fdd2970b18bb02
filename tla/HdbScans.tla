------------------------------ MODULE HdbScans -------------------------------
(***************************************************************************)
(* The readers of the whole file beside the resolver: the master index of  *)
(* the table pages (btree/master_index.py), the index of pairs             *)
(* (btree/handle_resolver.py), the walk over the records named by FOURCCs  *)
(* (btree/leaf.py, walker.py, follow_pointers.py), the leaf catalog        *)
(* (btree/leaf_resolver.py), and the extractors of pages, triggers and     *)
(* navigation. Text is seen by the word: a printable run is a run of words *)
(* of four printable bytes.                                                *)
(***************************************************************************)
EXTENDS HdbFile

CONSTANTS
  ENTRY_START, MIN_ENTRIES, VALID_PERCENT,  \* 0x30, 3, 80: what makes a table page
  MAX_CLASS_ID, MAX_NEOID,                  \* 0x5C, 200 000
  MIN_PAIR_OFFSET, MAX_PAIR_OFFSET, MAX_PAIR_ID,  \* 100, 6 100 000, 1 000 000
  CLASS_IDS                                 \* the ids of the registry's classes

ASSUME ScansAssumption == ENTRY_START \in Nat /\ ENTRY_START % 4 = 0

-----------------------------------------------------------------------------
(* MasterIndex.build: a page of tag 0 is a table when enough of its rows,  *)
(* read up to the first (0, 0), lead to markers; the first row with an id  *)
(* keeps it, and one that differs is a conflict.                           *)
LeadsToMarker(raw, word) ==
  \E o \in Every4(0, Size(raw) - 7) : word = Num(o) /\ MarkerAt(raw, o)

RowSlots(raw, page) ==
  LET slots == {s \in ENTRY_START .. PAGE_SIZE - 8 : (s - ENTRY_START) % 8 = 0}
      empty(s) == WordAt(raw, PageOffset(page) + s) = Zero
                  /\ WordAt(raw, PageOffset(page) + s + 4) = Zero
      end == Min({s \in slots : empty(s)} \cup {PAGE_SIZE})
  IN  {PageOffset(page) + s : s \in {t \in slots : t < end}}

ValidRows(raw, page) ==
  {row \in RowSlots(raw, page) : LeadsToMarker(raw, WordAt(raw, row))}

IsTable(raw, page) ==
  /\ TagOf(raw, page) = 0
  /\ Cardinality(RowSlots(raw, page)) >= MIN_ENTRIES
  /\ 100 * Cardinality(ValidRows(raw, page))
       >= VALID_PERCENT * Cardinality(RowSlots(raw, page))

MasterIndex(raw) ==
  LET tables == {p \in Pages(raw) : IsTable(raw, p)}
      total == UNION {RowSlots(raw, p) : p \in tables}
      rows == UNION {ValidRows(raw, p) : p \in tables}
      first(id) == Min({row \in rows : WordAt(raw, row + 4) = id})
      conflicts == {row \in rows :
                      WordAt(raw, row) # WordAt(raw, first(WordAt(raw, row + 4)))}
      ids == {WordAt(raw, row + 4) : row \in rows}
  IN  [id_to_offset |-> [id \in ids |-> AsInt(WordAt(raw, first(id)))],
       stats |-> [index_table_pages |-> Cardinality(tables),
                  pixel_or_other_pages |->
                    Cardinality({p \in Pages(raw) \ tables : TagOf(raw, p) = 0}),
                  total_entries |-> Cardinality(total),
                  validated_entries |-> Cardinality(rows),
                  dropped_unvalidated |-> Cardinality(total \ rows),
                  conflicting_ids |-> Cardinality(conflicts),
                  unique_ids |-> Cardinality(ids)]]

(* HandleResolver: every offset paired with the id, at any word but the    *)
(* last two; the lowest one is chosen.                                     *)
Accepted(raw, o) ==
  \E target \in Every4(HEADER_SIZE, Size(raw) - 7) :
    /\ WordAt(raw, o) = Num(target) /\ MarkerAt(raw, target)
    /\ ClassOf(raw, target) \in 1 .. MAX_CLASS_ID
    /\ WordAt(raw, o + 4) # Zero /\ AtMost(WordAt(raw, o + 4), MAX_NEOID)

HandleIndex(raw) ==
  LET at == {o \in Every4(HEADER_SIZE, Size(raw) - 8) : Accepted(raw, o)} IN
  [id \in {WordAt(raw, o + 4) : o \in at} |->
     {AsInt(WordAt(raw, o)) : o \in {p \in at : WordAt(raw, p + 4) = id}}]

ResolveHandleId(handles, raw, id) ==
  IF id \notin DOMAIN handles THEN None
  ELSE [offset |-> Min(handles[id]), class_id |-> ClassOf(raw, Min(handles[id])),
        ambiguous |-> Cardinality(handles[id]) > 1]

Coverage(handles) ==
  LET one == {id \in DOMAIN handles : Cardinality(handles[id]) = 1} IN
  [distinct_neoids |-> Cardinality(DOMAIN handles), unambiguous |-> Cardinality(one),
   ambiguous |-> Cardinality(DOMAIN handles \ one)]

-----------------------------------------------------------------------------
(* Records named by a FOURCC. A CNeoIDList record is 30 bytes with 'ID  '  *)
(* at +16; an NPfl record runs to the next NPfl or to the end of the page. *)
ID_FOURCC == Word(18756, 8224)
NPFL_FOURCC == Word(20048, 26220)
Positions(raw, page, fourcc) ==
  {o \in Every4(0, PAGE_SIZE) : WordAt(raw, PageOffset(page) + o) = fourcc}

IdListAt(raw, page, off) ==
  /\ WordAt(raw, PageOffset(page) + off) = Num(1)
  /\ WordAt(raw, PageOffset(page) + off + 12) = Num(11)
IdLists(raw, page) ==
  {o - 16 : o \in {p \in Positions(raw, page, ID_FOURCC) :
                     p >= 16 /\ p + 14 <= PAGE_SIZE /\ IdListAt(raw, page, p - 16)}}

LeafRecord(page, off, end, class_id) ==
  [page_id |-> page, record_off |-> off, abs_off |-> PageOffset(page) + off,
   end |-> end, class_id |-> class_id]
NPflRecords(page, positions) ==
  {LeafRecord(page, o, Min({p \in positions : p > o} \cup {PAGE_SIZE}), None) :
     o \in positions}

(* iter_records_in_leaf: an NPfl inside an id list is not a record.        *)
RecordsInLeaf(raw, page) ==
  LET lists == {LeafRecord(page, o, o + 30, 11) : o \in IdLists(raw, page)}
      consumed(o) == \E r \in lists : o \in r.record_off .. r.end - 1
  IN  lists \cup
      NPflRecords(page, {o \in Positions(raw, page, NPFL_FOURCC) : ~consumed(o)})

WalkRecords(raw) ==
  (UNION {RecordsInLeaf(raw, p) : p \in {q \in Pages(raw) : TagOf(raw, q) = 195}})
  \cup (UNION {NPflRecords(p, Positions(raw, p, NPFL_FOURCC)) :
                 p \in {q \in Pages(raw) : classify_page(raw, q) = -1}})

(* iter_followed_records: the id lists of every page, to where they point. *)
FollowedRecords(raw) ==
  LET target(page, off) == WordAt(raw, PageOffset(page) + off + 8)
      inside(word) == word.hi < 32768 /\ AsInt(word) \in 1 .. Size(raw) - 1
      page_of(off) == IF off >= HEADER_SIZE THEN (off - HEADER_SIZE) \div PAGE_SIZE ELSE -1
      followed(page, off) ==
        LET to == AsInt(target(page, off)) IN
        [source_neoidlist_off |-> PageOffset(page) + off, target_off |-> to,
         target_page_id |-> page_of(to),
         target_page_tag |-> IF page_of(to) \in Pages(raw)
                             THEN TagOf(raw, page_of(to)) ELSE 0]
  IN  UNION {{followed(p, o) : o \in {i \in IdLists(raw, p) : inside(target(p, i))}} :
               p \in Pages(raw)}

categorize_followed(records) ==
  [tag \in {r.target_page_tag : r \in records} |->
     Cardinality({r \in records : r.target_page_tag = tag})]

-----------------------------------------------------------------------------
(* Text, by the word: a run is a longest stretch of words that are text.   *)
Bytes(word) ==
  <<FirstByte(word), SecondByte(word), word.lo \div 256, word.lo % 256>>
Printable(byte) == byte \in 32 .. 126
Text(word) == \A k \in 1 .. 4 : Printable(Bytes(word)[k])

Runs(places) ==
  {run \in places \X places :
     /\ run[1] <= run[2] /\ run[1] .. run[2] \subseteq places
     /\ run[1] - 1 \notin places /\ run[2] + 1 \notin places}
TextRuns(words) == Runs({i \in DOMAIN words : Text(words[i])})
RunText(words, run) == SubSeq(words, run[1], run[2])

(* resolve_leaf_records: the records of the leaves that are of a class,    *)
(* with the page the upper half of their id names.                         *)
ResolvedLeafRecords(raw) ==
  LET slots(p) == {s \in SlotMarkers(raw, PageOffset(p)) :
                     /\ ClassOf(raw, PageOffset(p) + s) \in CLASS_IDS
                     /\ s + 24 <= PAGE_SIZE}
      value32(p, s) == WordAt(raw, PageOffset(p) + s + 8)
      reached(q) == q \in 1 .. Size(raw) \div PAGE_SIZE - 1
      resolved(p, s) ==
        LET q == value32(p, s).hi IN
        [page_id |-> p, offset |-> PageOffset(p) + s,
         class_id |-> ClassOf(raw, PageOffset(p) + s), target_page_id |-> q,
         target_page_tag |-> IF reached(q) THEN TagOf(raw, q) ELSE 0,
         target_strings |-> IF reached(q)
           THEN {RunText(PageWords(raw, q), run) : run \in TextRuns(PageWords(raw, q))}
           ELSE {}]
  IN  UNION {{resolved(p, s) : s \in slots(p)} :
               p \in {q \in Pages(raw) : TagOf(raw, q) = 195}}

(* build_resolved_catalog: how many of each class, and with strings.       *)
ResolvedCatalog(raw) ==
  LET records == ResolvedLeafRecords(raw)
      by(S) == [c \in {r.class_id : r \in S} |-> Cardinality({r \in S : r.class_id = c})]
  IN  [total_resolved |-> Cardinality(records), by_class |-> by(records),
       by_class_with_strings |-> by({r \in records : r.target_strings # {}})]

(* dump_page_index *)
PageIndex(raw) ==
  [p \in Pages(raw) |->
     LET runs == TextRuns(PageWords(raw, p)) IN
     [abs_off |-> PageOffset(p), tag |-> TagOf(raw, p), kind |-> KindOf(raw, p),
      n_strings |-> Cardinality(runs),
      first_string |-> IF runs = {} THEN None
                       ELSE RunText(PageWords(raw, p),
                                    CHOOSE run \in runs : \A other \in runs : run[1] <= other[1]),
      has_id_marker |-> Positions(raw, p, ID_FOURCC) # {}]]

-----------------------------------------------------------------------------
(* Two extractors cut the file into pages from offset 0, not from behind   *)
(* the header: the inventory of pages and the typed records.               *)
Grid0(raw) == 0 .. Size(raw) \div PAGE_SIZE - 1
Grid0Tag(raw, page) == FirstByte(WordAt(raw, page * PAGE_SIZE))
Grid0Kind(raw, page) == SecondByte(WordAt(raw, page * PAGE_SIZE))

(* _walk_pages and build_btree_inventory. The tail is measured in words.   *)
MarkerCount(raw, page) ==
  Cardinality({s \in SLOTS : /\ s >= 8 /\ s < PAGE_SIZE - 8
                             /\ MagicAt(raw, page * PAGE_SIZE + s)})
ZeroTail(raw, page) ==
  PAGE_SIZE - 4 - Max({-4} \cup {o \in Every4(0, PAGE_SIZE) :
                                  WordAt(raw, page * PAGE_SIZE + o) # Zero})

BtreeInventory(raw) ==
  LET key(p) == <<Grid0Tag(raw, p), Grid0Kind(raw, p)>>
      bucket(k) == {p \in Grid0(raw) : key(p) = k}
      markers(k) == {MarkerCount(raw, p) : p \in bucket(k)}
      tails(k) == {ZeroTail(raw, p) : p \in bucket(k)}
  IN  [k \in {key(p) : p \in Grid0(raw)} |->
         [page_count |-> Cardinality(bucket(k)),
          marker_total |-> SumFunction([p \in bucket(k) |-> MarkerCount(raw, p)]),
          marker_per_page |-> <<Min(markers(k)), Max(markers(k))>>,
          zero_tail |-> <<Min(tails(k)), Max(tails(k))>>,
          sample_page_ids |-> FirstOf(Ascending(bucket(k)), 4)]]

(* extract_typed_records: every marker on that grid, typed when its class  *)
(* is in the registry (decoding a typed one has not failed here).          *)
TypedRecords(raw) ==
  LET pages == {p \in Grid0(raw) : Grid0Tag(raw, p) \in MARKER_TAGS}
      meta(p, s) ==
        LET markers == SlotMarkers(raw, p * PAGE_SIZE) IN
        [marker_offset_abs |-> p * PAGE_SIZE + s,
         marker_flag16 |-> ClassOf(raw, p * PAGE_SIZE + s),
         payload_size |-> NextSlot(markers, s) - s - 8]
      all == UNION {{meta(p, s) : s \in SlotMarkers(raw, p * PAGE_SIZE)} : p \in pages}
  IN  [typed_records |-> {m \in all : m.marker_flag16 \in CLASS_IDS},
       container_records |-> {m \in all : m.marker_flag16 \notin CLASS_IDS}]

-----------------------------------------------------------------------------
(* decode_part_ref: the sixteen bytes of a CNeoPart sub-record.            *)
PART_SUBRECORD_IDS == {15, 16, 17, 20, 21, 27, 28, 29}
decode_part_ref(raw, off, payload_size) ==
  IF payload_size < 16 THEN [certainty |-> "truncated"]
  ELSE LET w(k) == WordAt(raw, off + 4 * k) IN
       [operand_a_ref |-> w(0).hi, operand_a_class_id |-> SecondByte(w(1)),
        sub_flag |-> w(1).lo \div 256, operand_b_ref |-> w(2).hi,
        aux |-> <<w(2).lo, w(3).hi>>, relation_raw |-> w(3).lo \div 256,
        operand_b_class_id |-> w(3).lo % 256, certainty |-> "byte-direct"]

(* _resolve_raw_marker: at the offset or near it, nearer ones first; the   *)
(* tag byte is not looked at.                                              *)
DELTAS == <<0, -4, -8, 4, 8, -16, 16>>

(* Mutated form: the offsets before are tried first. *)
MutResolveRawMarker(raw, boff) ==
  LET fits(off) == off >= HEADER_SIZE /\ off + 8 <= Size(raw) /\ MagicAt(raw, off)
      near == {off \in {boff + DELTAS[k] : k \in DOMAIN DELTAS} : fits(off)}
  IN  IF ~(boff >= HEADER_SIZE /\ boff + 8 <= Size(raw)) \/ near = {} THEN None ELSE Min(near)

ResolveRawMarker(raw, boff) ==
  LET inside(off) == off >= HEADER_SIZE /\ off + 8 <= Size(raw)
      hits == {k \in DOMAIN DELTAS :
                 inside(boff + DELTAS[k]) /\ MagicAt(raw, boff + DELTAS[k])}
  IN  IF ~inside(boff) \/ hits = {} THEN None ELSE boff + DELTAS[Min(hits)]

(* How far a target reaches: as indexed, or to the next aligned marker of  *)
(* a known class within a page's length.                                   *)
TargetSize(raw, index, off) ==
  LET limit == Min({off + PAGE_SIZE, Size(raw)})
      stops(o) == MagicAt(raw, o) /\ ClassOf(raw, o) <= MAX_CLASS_ID
      ends == {o \in off + 8 .. limit - 8 : (o - off) % 8 = 0 /\ stops(o)}
      past == off + 8 * ((limit - off) \div 8)
      end == IF ends = {} THEN Max({past, off + 8}) ELSE Min(ends)
  IN  IF FindByOffset(index, off) # None THEN FindByOffset(index, off).payload_size
      ELSE IF end > off + 8 THEN end - off - 8 ELSE 8

(* decode_trigger, decode_all_triggers: the pairs behind the 24 bytes of a *)
(* VCTrigger's head.                                                       *)
TriggerPair(raw, index, boff, id) ==
  LET off == ResolveRawMarker(raw, boff)
      size == TargetSize(raw, index, off)
      class_id == ClassOf(raw, off)
  IN  IF off = None
      THEN [byte_offset |-> boff, neoid |-> id, target_class_id |-> 0,
            target_payload_size |-> 0, certainty |-> "unresolved", part_fields |-> None]
      ELSE [byte_offset |-> off, neoid |-> id, target_class_id |-> class_id,
            target_payload_size |-> size, certainty |-> "byte-direct",
            part_fields |-> IF class_id \in PART_SUBRECORD_IDS /\ size >= 16
                            THEN decode_part_ref(raw, off + 8, size) ELSE None]

PairSlots(raw, trigger) ==
  LET base == trigger.byte_offset + 8
      plausible(o) == /\ ~AtMost(WordAt(raw, o), MIN_PAIR_OFFSET - 1)
                      /\ AtMost(WordAt(raw, o), MAX_PAIR_OFFSET)
                      /\ WordAt(raw, o + 4) # Zero
                      /\ AtMost(WordAt(raw, o + 4), MAX_PAIR_ID)
  IN  {o \in base + 24 .. base + trigger.payload_size - 8 :
         (o - base) % 8 = 0 /\ plausible(o)}

DecodedTriggers(raw) ==
  LET index == RecordIndex(raw)
      pair(o) == [at |-> o, read |-> TriggerPair(raw, index, AsInt(WordAt(raw, o)),
                                                 WordAt(raw, o + 4))]
  IN  [t \in FindByClass(index, 81) |-> {pair(o) : o \in PairSlots(raw, t)}]

-----------------------------------------------------------------------------
(* _longest_printable_run: tab and DEL count as text. The label is the     *)
(* longest run of a VCNav's payload, the first of those of equal length,   *)
(* shown with DEL as a slash and tab as a blank, without the blanks around.*)
TAB == 9
DEL == 127
NavText(word) ==
  \A k \in 1 .. 4 : Printable(Bytes(word)[k]) \/ Bytes(word)[k] \in {TAB, DEL}

Displayed(byte) ==
  CASE byte = DEL -> 47 [] byte = TAB -> 32 [] OTHER -> byte
Stripped(text) ==
  LET shown == {i \in DOMAIN text : text[i] # 32} IN
  IF shown = {} THEN <<>> ELSE SubSeq(text, Min(shown), Max(shown))

NavLabel(words) ==
  LET runs == Runs({i \in DOMAIN words : NavText(words[i])})
      length(run) == run[2] - run[1]
      longest == {run \in runs : \A o \in runs : length(o) <= length(run)}
      best == CHOOSE run \in longest : \A o \in longest : run[1] <= o[1]
      text == [i \in 1 .. 4 * (length(best) + 1) |->
                 Displayed(Bytes(words[best[1] + (i - 1) \div 4])[((i - 1) % 4) + 1])]
  IN  IF runs = {} THEN <<>> ELSE Stripped(text)

NavPayload(raw, r) ==
  SubSeq(raw, (r.byte_offset + 8) \div 4 + 1, (r.byte_offset + 8 + r.payload_size) \div 4)

(* build_navigation_targets *)
NavTargets(raw) ==
  LET navs == FindByClass(RecordIndex(raw), 51)
      label(r) == NavLabel(NavPayload(raw, r))
      bucket(r) == (r.payload_size \div 16) * 16
  IN  [entries |-> {[record_offset |-> r.byte_offset, label |-> label(r)] : r \in navs},
       with_label |-> Cardinality({r \in navs : label(r) # <<>>}),
       by_size_class |-> [b \in {bucket(r) : r \in navs} |->
                            Cardinality({r \in navs : bucket(r) = b})]]
=============================================================================
