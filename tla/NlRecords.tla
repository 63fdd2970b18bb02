----------------------------- MODULE NlRecords ------------------------------
(***************************************************************************)
(* Writing a tree of persistent objects through InMemoryHDBSerializer and  *)
(* reading it back: VCObject::Write and Read, write_obj and read_obj, their*)
(* list forms, and the typed slots of the serializer. The calls that nest  *)
(* in C++ are frames of a stack, one field per step.                       *)
(*                                                                         *)
(* The tree is revealed as it is written, the file's end and a class id    *)
(* from elsewhere as they are read: the code looks at neither before.      *)
(* A token is one typed write: its width, its tag, its value. Values are   *)
(* named after the object and the member they belong to.                   *)
(***************************************************************************)
EXTENDS Integers, SequencesExt, NlLayouts

CONSTANTS
  ReadLayout,    \* class -> the reads of its Read body
  WriteLayout,   \* class -> the writes of its Write body
  Roots,         \* bound: classes of the object written
  Children,      \* bound: classes of the objects under it
  Versions,      \* bound: record versions
  MaxObjects,    \* bound: objects in a tree
  MaxItems,      \* bound: items of one list
  ListCap,       \* the 65536 of read_obj_list
  NoClass,       \* class id 0, written for a null pointer
  Zero           \* what a constructor leaves in a member

Classes == DOMAIN ReadLayout
Members(c) == {ReadLayout[c][k].name : k \in DOMAIN ReadLayout[c]}
NoObject == 0

\* One read or write for each member; pointers and vectors carry the tags of
\* read_obj and read_obj_list.
WellFormed(body) ==
  /\ DOMAIN body = 1 .. Len(body) /\ Len(body) \in Nat
  /\ \A k \in DOMAIN body :
       /\ body[k].kind \in {"dword", "short", "byte", "sub", "list"}
       /\ body[k].kind = "sub" => body[k].tag = "NPTc"
       /\ body[k].kind = "list" => body[k].tag = "NPlt"
  /\ \A j, k \in DOMAIN body : body[j].name = body[k].name => j = k

ASSUME LayoutAssumption ==
  /\ DOMAIN WriteLayout = Classes
  /\ Roots \cup Children \subseteq Classes
  /\ \A c \in Classes :
       {WriteLayout[c][k].name : k \in DOMAIN WriteLayout[c]} = Members(c)
  /\ \A c \in Classes : WellFormed(ReadLayout[c]) /\ WellFormed(WriteLayout[c])
ASSUME IdAssumption == NoClass \notin Classes
ASSUME BoundAssumption ==
  /\ Versions \subseteq Nat
  /\ {MaxObjects, MaxItems, ListCap} \subseteq Nat

VARIABLES
  phase,        \* "writing", "reading", "done", or "garbled": see ReadAcross
  has_version,  \* has_version_field(), from the class metadata
  wversion,     \* current_version() of the serializer that writes
  objs,         \* the objects written, in the order they are reached
  wstack,       \* the Write calls in progress, innermost first
  stream,       \* output_
  tampered,     \* "no", "cut" or "foreign"
  robjs,        \* the objects read, in the order they are made
  rstack,       \* the Read calls in progress
  cursor,       \* tokens consumed
  version,      \* current_version() of the serializer that reads
  error         \* error_

writing == <<objs, wstack, stream>>
reading == <<robjs, rstack, cursor, version, error>>
vars == <<phase, has_version, wversion, writing, tampered, reading>>

(***************************************************************************)
(* Objects. vals maps a member to its value, to the number of the object a *)
(* pointer refers to, or to the numbers of a vector's objects.             *)
(***************************************************************************)
ItemOf(c, m) ==
  ReadLayout[c][CHOOSE k \in DOMAIN ReadLayout[c] : ReadLayout[c][k].name = m]
IsList(c, m) == ItemOf(c, m).kind = "list"
IsPointer(c, m) == ItemOf(c, m).kind = "sub"

Blank(c) ==
  [m \in Members(c) |->
     IF IsList(c, m) THEN <<>> ELSE IF IsPointer(c, m) THEN NoObject ELSE Zero]

\* An object as a loader made it: set are the members its version has.
Loaded(n, c, v) ==
  [m \in Members(c) |->
     IF IsList(c, m) \/ IsPointer(c, m) \/ ~Present(ItemOf(c, m), v)
     THEN Blank(c)[m] ELSE <<n, m>>]

\* The member item of the object f is about refers to object n as well.
Linked(os, f, item, n) ==
  [os EXCEPT ![f.obj].vals[item.name] =
     IF item.kind = "sub" THEN n ELSE Append(@, n)]

\* left is the number of items still to come when a list is under way.
Frame(n, v) == [obj |-> n, pos |-> 1, left |-> 0, saved |-> v]
Past(f) == [f EXCEPT !.pos = @ + 1, !.left = 0]
PastItem(f) == IF f.left > 1 THEN [f EXCEPT !.left = @ - 1] ELSE Past(f)

Token(kind, tag, val) == [kind |-> kind, tag |-> tag, val |-> val]
ClassToken(c) == Token("dword", "NPTc", c)

-----------------------------------------------------------------------------
(***************************************************************************)
(* Writing.                                                                *)
(***************************************************************************)
RecordVersions == IF has_version THEN Versions ELSE {0}
OwnVersion(v) == IF has_version THEN v ELSE wversion

\* write_obj up to the first field: the class id, then VCObject::Write.
Header(n, c, v) ==
  << ClassToken(c), Token("buffer", "NPfl", <<n, "NPfl">>) >>
    \o (IF has_version THEN << Token("dword", "vers", v) >> ELSE <<>>)

Record(n, c, v) == [class |-> c, vers |-> v, vals |-> Loaded(n, c, OwnVersion(v))]

Init ==
  /\ phase = "writing"
  /\ has_version \in BOOLEAN
  /\ wversion \in Versions
  /\ \E c \in Roots, v \in RecordVersions :
       /\ objs = << Record(1, c, v) >>
       /\ stream = Header(1, c, v)
  /\ wstack = << Frame(1, 0) >>
  /\ tampered = "no"
  /\ robjs = <<>> /\ rstack = <<>> /\ cursor = 0
  /\ version = (IF has_version THEN 0 ELSE wversion) /\ error = FALSE

WBody(f) == WriteLayout[objs[f.obj].class]
WTop == Head(wstack)
WItem == WBody(WTop)[WTop.pos]
AtWrite(kinds) ==
  /\ wstack # <<>>
  /\ WTop.pos \in DOMAIN WBody(WTop)
  /\ WItem.kind \in kinds
  /\ Present(WItem, wversion)

WContinue(f) == wstack' = << f >> \o Tail(wstack)

WriteField ==
  /\ AtWrite({"dword", "short", "byte"})
  /\ stream' = Append(stream, Token(WItem.kind, WItem.tag,
                                    objs[WTop.obj].vals[WItem.name]))
  /\ WContinue(Past(WTop))
  /\ UNCHANGED <<phase, has_version, wversion, objs, tampered, reading>>

\* A null pointer is written as class id 0.
WriteNull ==
  /\ AtWrite({"sub"})
  /\ stream' = Append(stream, ClassToken(NoClass))
  /\ WContinue(Past(WTop))
  /\ UNCHANGED <<phase, has_version, wversion, objs, tampered, reading>>

WriteCount ==
  /\ AtWrite({"list"})
  /\ WTop.left = 0
  /\ \E n \in 0 .. MaxItems :
       /\ Len(objs) + n <= MaxObjects
       /\ stream' = Append(stream, Token("dword", "NPlt", n))
       /\ WContinue(IF n = 0 THEN Past(WTop) ELSE [WTop EXCEPT !.left = n])
  /\ UNCHANGED <<phase, has_version, wversion, objs, tampered, reading>>

\* write_obj of a pointer or of the next item of a vector.
WriteObject ==
  /\ AtWrite({"sub", "list"})
  /\ WItem.kind = "list" => WTop.left > 0
  /\ Len(objs) < MaxObjects
  /\ \E c \in Children, v \in RecordVersions :
       LET n == Len(objs) + 1
       IN /\ objs' = Append(Linked(objs, WTop, WItem, n), Record(n, c, v))
          /\ stream' = stream \o Header(n, c, v)
          /\ wstack' = << Frame(n, 0), PastItem(WTop) >> \o Tail(wstack)
  /\ UNCHANGED <<phase, has_version, wversion, tampered, reading>>

WriteSkip ==
  /\ wstack # <<>>
  /\ WTop.pos \in DOMAIN WBody(WTop)
  /\ ~Present(WItem, wversion)
  /\ WContinue(Past(WTop))
  /\ UNCHANGED <<phase, has_version, wversion, objs, stream, tampered, reading>>

WriteReturn ==
  /\ wstack # <<>>
  /\ WTop.pos \notin DOMAIN WBody(WTop)
  /\ wstack' = Tail(wstack)
  /\ UNCHANGED <<phase, has_version, wversion, objs, stream, tampered, reading>>

-----------------------------------------------------------------------------
(***************************************************************************)
(* Reading. Every slot fails, once and for all, on the wrong tag and on the*)
(* end of the file; every body returns when it sees the failure, and each  *)
(* read_obj puts back the version it found.                                *)
(***************************************************************************)
\* What set_current_version left in the reading serializer: nothing, or,
\* when records carry no version, the version they were written at.
StartVersion == IF has_version THEN 0 ELSE wversion

Reading == phase = "reading" /\ rstack # <<>>
NextToken == stream[cursor + 1]
TagIs(tag) == cursor < Len(stream) /\ NextToken.tag = tag

RBody(f) == ReadLayout[robjs[f.obj].class]
RTop == Head(rstack)
RItem == RBody(RTop)[RTop.pos]
AtRead(kinds) ==
  /\ Reading
  /\ RTop.pos \in DOMAIN RBody(RTop)
  /\ RItem.kind \in kinds
  /\ Present(RItem, version)

RContinue(f) == rstack' = << f >> \o Tail(rstack)

\* The width the next read takes, and the tag it asks for: a class id within
\* a list.
WireKind(item) == IF item.kind \in {"sub", "list"} THEN "dword" ELSE item.kind
TagAsked == IF RItem.kind = "list" /\ RTop.left > 0 THEN "NPTc" ELSE RItem.tag
Expects(item) == TagIs(TagAsked) /\ NextToken.kind = WireKind(item)

\* make_vc_object and VCObject::Read: the header sets the version.
NewObject(c, v) == [class |-> c, vers |-> v, vals |-> Blank(c)]

ReadKnown(os, caller) ==
  LET c == NextToken.val
      v == IF has_version THEN stream[cursor + 3].val ELSE 0
  IN /\ robjs' = Append(os, NewObject(c, v))
     /\ cursor' = cursor + (IF has_version THEN 3 ELSE 2)
     /\ version' = IF has_version THEN v ELSE version
     /\ rstack' = << Frame(Len(os) + 1, version) >> \o caller

StartRead ==
  /\ phase = "writing"
  /\ wstack = <<>>
  /\ phase' = "reading"
  /\ ReadKnown(<<>>, <<>>)
  /\ UNCHANGED <<has_version, wversion, writing, tampered, error>>

ReadField ==
  /\ AtRead({"dword", "short", "byte"})
  /\ Expects(RItem)
  /\ robjs' = [robjs EXCEPT ![RTop.obj].vals[RItem.name] = NextToken.val]
  /\ cursor' = cursor + 1
  /\ RContinue(Past(RTop))
  /\ UNCHANGED <<phase, has_version, wversion, writing, tampered, version, error>>

\* A count above the cap is taken for damage: the list stays empty, and the
\* error flag stays down.
ReadCount ==
  /\ AtRead({"list"})
  /\ RTop.left = 0
  /\ Expects(RItem)
  /\ RContinue(IF NextToken.val \in 1 .. ListCap
               THEN [RTop EXCEPT !.left = NextToken.val] ELSE Past(RTop))
  /\ cursor' = cursor + 1
  /\ UNCHANGED <<phase, has_version, wversion, writing, tampered, robjs,
                 version, error>>

\* read_obj is about to look at a class id.
AtClassId ==
  /\ AtRead({"sub", "list"})
  /\ RItem.kind = "list" => RTop.left > 0
  /\ Expects(RItem)

ReadObject ==
  /\ AtClassId
  /\ NextToken.val \in Classes
  /\ ReadKnown(Linked(robjs, RTop, RItem, Len(robjs) + 1),
               << PastItem(RTop) >> \o Tail(rstack))
  /\ UNCHANGED <<phase, has_version, wversion, writing, tampered, error>>

\* No object for class id 0, nor for one the factory does not know: a pointer
\* stays null, a list ends here, and the bytes of the record stay in the way.
ReadNothing ==
  /\ AtClassId
  /\ \/ NextToken.val = NoClass /\ UNCHANGED tampered
     \/ /\ tampered = "no"
        /\ NextToken.val \in Classes
        /\ tampered' = "foreign"
  /\ cursor' = cursor + 1
  /\ RContinue(Past(RTop))
  /\ UNCHANGED <<phase, has_version, wversion, writing, robjs, version, error>>

ReadSkip ==
  /\ Reading
  /\ RTop.pos \in DOMAIN RBody(RTop)
  /\ ~Present(RItem, version)
  /\ RContinue(Past(RTop))
  /\ UNCHANGED <<phase, has_version, wversion, writing, tampered, robjs,
                 cursor, version, error>>

\* Forgetting to put back the version of the record around.
MutReadReturn ==
  /\ Reading
  /\ RTop.pos \notin DOMAIN RBody(RTop)
  /\ rstack' = Tail(rstack)
  /\ phase' = IF Len(rstack) = 1 THEN "done" ELSE phase
  /\ UNCHANGED <<has_version, wversion, writing, tampered, robjs, cursor,
                 version, error>>

ReadReturn ==
  /\ Reading
  /\ RTop.pos \notin DOMAIN RBody(RTop)
  /\ rstack' = Tail(rstack)
  /\ version' = RTop.saved
  /\ phase' = IF Len(rstack) = 1 THEN "done" ELSE phase
  /\ UNCHANGED <<has_version, wversion, writing, tampered, robjs, cursor, error>>

\* The sticky failure: every body in progress returns without another field,
\* and every read_obj on the way puts back the version it found.
Fail ==
  /\ error' = TRUE
  /\ rstack' = <<>>
  /\ version' = StartVersion
  /\ phase' = "done"
  /\ UNCHANGED <<has_version, wversion, writing, cursor>>

\* Taking a missing field for zero and reading on.
MutWrongTag ==
  /\ AtRead({"dword", "short", "byte", "sub", "list"})
  /\ ~TagIs(TagAsked)
  /\ RContinue(Past(RTop))
  /\ UNCHANGED <<phase, has_version, wversion, writing, tampered, robjs,
                 cursor, version, error>>

WrongTag ==
  /\ AtRead({"dword", "short", "byte", "sub", "list"})
  /\ ~TagIs(TagAsked)
  /\ Fail
  /\ UNCHANGED <<tampered, robjs>>

\* The right tag in front of a value of another width: the read takes part of
\* it, or more than it. What the reads behind it find depends on the bytes of
\* the values, so the run ends here.
ReadAcross ==
  /\ AtRead({"dword", "short", "byte", "sub", "list"})
  /\ TagIs(TagAsked) /\ ~Expects(RItem)
  /\ phase' = "garbled"
  /\ UNCHANGED <<has_version, wversion, writing, tampered, reading>>

\* The file ends where a field should be.
FileEnds ==
  /\ AtRead({"dword", "short", "byte", "sub", "list"})
  /\ tampered = "no"
  /\ tampered' = "cut"
  /\ Fail
  /\ UNCHANGED robjs

\* The file ends in a header: the object is made, and owned, all the same.
FileEndsInHeader ==
  /\ AtClassId
  /\ tampered = "no"
  /\ NextToken.val \in Classes
  /\ tampered' = "cut"
  /\ robjs' = Append(Linked(robjs, RTop, RItem, Len(robjs) + 1),
                     NewObject(NextToken.val, 0))
  /\ Fail

Write ==
  \/ WriteField \/ WriteNull \/ WriteCount \/ WriteObject
  \/ WriteSkip \/ WriteReturn
Read ==
  \/ ReadField \/ ReadCount \/ ReadObject \/ ReadNothing
  \/ ReadSkip \/ ReadReturn \/ WrongTag \/ ReadAcross
Next == Write \/ StartRead \/ Read \/ FileEnds \/ FileEndsInHeader
Spec == Init /\ [][Next]_vars

-----------------------------------------------------------------------------
(***************************************************************************)
(* Properties.                                                             *)
(***************************************************************************)
\* Every version met asks for the same fields as the one the tree is written
\* at: Write asks the serializer, Read asks the record.
SameGates ==
  \A n \in DOMAIN objs : \A k \in DOMAIN WriteLayout[objs[n].class] :
    LET item == WriteLayout[objs[n].class][k]
    IN Present(item, OwnVersion(objs[n].vers)) <=> Present(item, wversion)

ListsFit == \A i \in DOMAIN stream : stream[i].tag = "NPlt" => stream[i].val <= ListCap

Accepted == phase = "done" /\ ~error /\ cursor = Len(stream)

\* What Write produces, Read consumes identically (hdb_serializer.h), when
\* all records of the tree are at versions with the same fields.
ReadsBack ==
  phase \in {"done", "garbled"} /\ tampered = "no" /\ SameGates /\ ListsFit
    => Accepted /\ robjs = objs

\* Whatever the versions and the damage: a stream read to its end without an
\* error, no read across a field of another width, gives the tree that was
\* written, never another one.
NeverMisread == Accepted => robjs = objs

\* While a body runs, the version it is gated by is that of its own record,
\* however many nested records were read in between (read_obj in vc_factory.cpp).
VersionIsOwn ==
  Reading => version = IF has_version THEN robjs[RTop.obj].vers ELSE wversion

\* A file cut short costs the fields behind the cut and no others: everything
\* read so far is what was written, everything else is still blank.
CutFileReadsTrue ==
  tampered # "foreign" /\ SameGates /\ ListsFit =>
    \A n \in DOMAIN robjs :
      /\ n \in DOMAIN objs
      /\ robjs[n].class = objs[n].class
      /\ robjs[n].vers \in {0, objs[n].vers}
      /\ \A m \in Members(objs[n].class) :
           IF IsList(objs[n].class, m)
           THEN IsPrefix(robjs[n].vals[m], objs[n].vals[m])
           ELSE robjs[n].vals[m] \in {objs[n].vals[m], Blank(objs[n].class)[m]}
=============================================================================
