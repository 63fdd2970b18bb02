----------------------------- MODULE HdbResolver -----------------------------
(***************************************************************************)
(* MasterHDBResolver (btree/master_resolver.py): the flat hash from NeoID  *)
(* to record, and its two extensions by embedded [offset, id] pairs. A     *)
(* NeoID is a word. A resolver is a record of its three members.           *)
(***************************************************************************)
EXTENDS HdbFile

CONSTANT NEOID_CEILING    \* 0x100000

(* The slots a resolver looks at: every page of len(raw) // PAGE_SIZE, one *)
(* more than the container has when the trailer and the header make up a   *)
(* page together. The container then raises IndexError.                    *)
ResolverPages(raw) == 0 .. Size(raw) \div PAGE_SIZE - 1

NewResolver == [id_index |-> <<>>, extended_offsets |-> <<>>, btree_root |-> None]

(* dict.setdefault, key by key: what f has stays, g fills in.              *)
Extended(f, g) ==
  [x \in DOMAIN f \cup DOMAIN g |-> IF x \in DOMAIN f THEN f[x] ELSE g[x]]

-----------------------------------------------------------------------------
(* parse_page_records: a record's id is the word behind its marker, when   *)
(* the page has one there; its number counts the markers before it.        *)
Value32(raw, page, slot) ==
  IF slot + 12 <= PAGE_SIZE THEN WordAt(raw, PageOffset(page) + slot + 8) ELSE Zero
RecIdx(raw, page, slot) ==
  Cardinality({m \in SlotMarkers(raw, PageOffset(page)) : m < slot})
SlotOfRec(raw, loc) ==
  CHOOSE slot \in SlotMarkers(raw, PageOffset(loc.page)) :
    RecIdx(raw, loc.page, slot) = loc.rec

(* One page of _build_index: the first record with an id keeps it.         *)

(* Mutated form: the last record of the page with the id has it. *)
MutIndexPage(r, raw, page) ==
  LET slots == SlotMarkers(raw, PageOffset(page))
      ids == {Value32(raw, page, s) : s \in slots} \ {Zero}
      last(id) == Max({s \in slots : Value32(raw, page, s) = id})
  IN  [r EXCEPT !.id_index =
         Extended([id \in ids |-> [page |-> page, rec |-> RecIdx(raw, page, last(id))]], @)]

IndexPage(r, raw, page) ==
  LET slots == SlotMarkers(raw, PageOffset(page))
      ids == {Value32(raw, page, s) : s \in slots} \ ({Zero} \cup DOMAIN r.id_index)
      first(id) == Min({s \in slots : Value32(raw, page, s) = id})
  IN  [r EXCEPT
        !.btree_root = IF @ = None /\ TagOf(raw, page) = 194 THEN page ELSE @,
        !.id_index =
          Extended(@, [id \in ids |-> [page |-> page, rec |-> RecIdx(raw, page, first(id))]])]

-----------------------------------------------------------------------------
ExtensionOnly == [page |-> -1, rec |-> -1]

(* resolve_offset, and what resolve_record and resolve_payload make of a   *)
(* record: the page its marker's class names as target.                    *)
ResolveOffset(r, raw, id) ==
  IF id \in DOMAIN r.extended_offsets THEN r.extended_offsets[id]
  ELSE IF id \notin DOMAIN r.id_index \/ r.id_index[id] = ExtensionOnly THEN None
  ELSE PageOffset(r.id_index[id].page) + SlotOfRec(raw, r.id_index[id])

ResolvePayload(r, raw, id) ==
  IF id \notin DOMAIN r.id_index \/ r.id_index[id] = ExtensionOnly THEN None
  ELSE LET loc == r.id_index[id]
           target == ClassOf(raw, PageOffset(loc.page) + SlotOfRec(raw, loc))
       IN  IF target \in ResolverPages(raw) THEN target ELSE None

(* classify_handle, with a resolver and without. *)
DirectOffset(raw, handle) ==
  IF \E o \in Every4(4, Size(raw) - 7) : handle = Num(o) /\ MarkerAt(raw, o)
  THEN <<"direct-offset", AsInt(handle)>> ELSE <<"unknown", None>>

ClassifyHandle(r, raw, handle) ==
  IF handle # Zero /\ ResolveOffset(r, raw, handle) # None
  THEN <<"neoid", ResolveOffset(r, raw, handle)>>
  ELSE DirectOffset(raw, handle)

-----------------------------------------------------------------------------
(* The extensions. A pair is accepted where its first word is the offset of*)
(* a marker anywhere in the file and its second an id below the ceiling.   *)
AllMarkers(raw) == {o \in Every4(HEADER_SIZE, Size(raw) - 7) : MarkerAt(raw, o)}

IsPair(raw, pos) ==
  /\ \E o \in AllMarkers(raw) : WordAt(raw, pos) = Num(o)
  /\ WordAt(raw, pos + 4) # Zero /\ AtMost(WordAt(raw, pos + 4), NEOID_CEILING)

(* The accepted positions of a region, a record [start, end]. *)
PairsIn(raw, region) ==
  {pos \in Every4(region.start, region.end - 7) : IsPair(raw, pos)}
Region(start, end) == [start |-> start, end |-> end]
Worthwhile(region) == region.end > region.start + 4

(* The payloads of the CNeoIDIndex and CNeoIDList records, on the slots.   *)
IdListRegions(raw) ==
  {region \in {Region(rec.byte_offset + 8, rec.byte_offset + 8 + rec.payload_size) :
                 rec \in FindByClass(RecordIndex(raw), 7) \cup FindByClass(RecordIndex(raw), 11)} :
     Worthwhile(region)}
(* The payloads of a class, from any marker to the next or to the end.     *)
ClassRegions(raw, class_id) ==
  LET next(o) == Min({m \in AllMarkers(raw) : m > o} \cup {Size(raw)}) IN
  {region \in {Region(o + 8, next(o)) :
                 o \in {m \in AllMarkers(raw) : ClassOf(raw, m) = class_id}} :
     Worthwhile(region)}

(* Mutated form: the global sweep goes by rows of eight bytes. *)
MutScopePairs(raw, scope) ==
  IF scope = "global"
  THEN {pos \in PairsIn(raw, Region(HEADER_SIZE, Size(raw))) : pos % 8 = 0}
  ELSE UNION {PairsIn(raw, region) : region \in IdListRegions(raw)}

ScopePairs(raw, scope) ==
  IF scope = "global" THEN PairsIn(raw, Region(HEADER_SIZE, Size(raw)))
  ELSE UNION {PairsIn(raw, region) : region \in IdListRegions(raw)}
ClassPairs(raw, class_id) ==
  UNION {PairsIn(raw, region) : region \in ClassRegions(raw, class_id)}

NewIds(r, raw, pairs) ==
  {WordAt(raw, pos + 4) : pos \in pairs}
  \ (DOMAIN r.id_index \cup DOMAIN r.extended_offsets)

(* Mutated form: an id already indexed is bound again. *)
MutExtendBy(r, raw, pairs) ==
  LET ids == {WordAt(raw, pos + 4) : pos \in pairs}
      first(id) == Min({pos \in pairs : WordAt(raw, pos + 4) = id})
  IN  [r EXCEPT
        !.id_index = Extended([id \in ids |-> ExtensionOnly], @),
        !.extended_offsets = Extended([id \in ids |-> AsInt(WordAt(raw, first(id)))], @)]

(* What a sweep over some pairs in file order adds: the first wins. *)
ExtendBy(r, raw, pairs) ==
  LET ids == NewIds(r, raw, pairs)
      first(id) == Min({pos \in pairs : WordAt(raw, pos + 4) = id})
  IN  [r EXCEPT
        !.id_index = Extended(@, [id \in ids |-> ExtensionOnly]),
        !.extended_offsets = Extended(@, [id \in ids |-> AsInt(WordAt(raw, first(id)))])]
=============================================================================
