-------------------------- MODULE NlRecords_proofs ---------------------------
(***************************************************************************)
(* Proofs about NlRecords: a body is gated by the version of its own       *)
(* record; a tree written and read back is the tree; a file cut short      *)
(* costs only what is behind the cut.                                      *)
(*                                                                         *)
(* The argument in order. Lists, and the one way an object changes. The    *)
(* versions the frames put aside (Nested). What a body says of its members.*)
(* Writing as steps from moment to moment (WriteStep), and what every      *)
(* moment is like (Written, Grows); the moments so far (History). Reading  *)
(* as those same steps again: the reader has the frames and the objects of *)
(* one of the moments, but for the fields still ahead of it (Follows), and *)
(* each read takes it to the next moment (ReadFaced). What it has then is  *)
(* true to what the writer ended with (AllTrue).                           *)
(***************************************************************************)
EXTENDS NlRecords, SequenceTheorems, TLAPS

-----------------------------------------------------------------------------
(* Lists: stacks, streams and tables of objects, whatever they hold.       *)
AList(s) == s \in Seq({s[i] : i \in DOMAIN s})

LEMMA ListIs ==
  ASSUME NEW s, AList(s)
  PROVE  /\ Len(s) \in Nat /\ DOMAIN s = 1 .. Len(s)
         /\ s # <<>> <=> Len(s) > 0
         /\ s = [i \in 1 .. Len(s) |-> s[i]]
<1>1. Len(s) \in Nat /\ DOMAIN s = 1 .. Len(s) /\ s = [i \in 1 .. Len(s) |-> s[i]]
  BY LenProperties DEF AList
<1>2. s # <<>> => Len(s) \in Nat \ {0}
  BY EmptySeq DEF AList
<1>3. s = <<>> => Len(s) = 0
  OBVIOUS
<1> QED
  BY <1>1, <1>2, <1>3

LEMMA SeqIsList ==
  ASSUME NEW S, NEW s \in Seq(S)
  PROVE  AList(s)
<1>1. Len(s) \in Nat /\ DOMAIN s = 1 .. Len(s) /\ s \in [1 .. Len(s) -> S]
  BY LenProperties
<1>2. s \in [1 .. Len(s) -> {s[i] : i \in DOMAIN s}]
  BY <1>1
<1> QED
  BY <1>1, <1>2 DEF AList

LEMMA ListsEqual ==
  ASSUME NEW s, NEW t, AList(s), AList(t), Len(s) = Len(t),
         \A i \in 1 .. Len(s) : s[i] = t[i]
  PROVE  s = t
  BY ListIs, Zenon

LEMMA Appended ==
  ASSUME NEW s, AList(s), NEW e
  PROVE  /\ AList(Append(s, e)) /\ Len(Append(s, e)) = Len(s) + 1
         /\ \A i \in 1 .. Len(s) : Append(s, e)[i] = s[i]
         /\ Append(s, e)[Len(s) + 1] = e
<1> DEFINE S == {s[i] : i \in DOMAIN s} \cup {e}
<1>1. s \in Seq(S)
  BY SeqMonotonic DEF AList
<1>2. Append(s, e) \in Seq(S) /\ Len(Append(s, e)) = Len(s) + 1
      /\ \A i \in 1 .. Len(s) : Append(s, e)[i] = s[i]
      /\ Append(s, e)[Len(s) + 1] = e
  BY <1>1, AppendProperties
<1> HIDE DEF S
<1>3. AList(Append(s, e))
  BY <1>2, SeqIsList
<1> QED
  BY <1>2, <1>3

LEMMA Changed ==
  ASSUME NEW s, AList(s), NEW n \in 1 .. Len(s), NEW e
  PROVE  /\ AList([s EXCEPT ![n] = e]) /\ Len([s EXCEPT ![n] = e]) = Len(s)
         /\ \A i \in 1 .. Len(s) : i # n => [s EXCEPT ![n] = e][i] = s[i]
         /\ [s EXCEPT ![n] = e][n] = e
<1> DEFINE S == {s[i] : i \in DOMAIN s} \cup {e}
<1>1. s \in Seq(S)
  BY SeqMonotonic DEF AList
<1>2. /\ [s EXCEPT ![n] = e] \in Seq(S) /\ Len([s EXCEPT ![n] = e]) = Len(s)
      /\ \A i \in 1 .. Len(s) : [s EXCEPT ![n] = e][i] = IF i = n THEN e ELSE s[i]
  BY <1>1, ExceptSeq
<1> QED
  BY <1>2, SeqIsList

LEMMA Concatenated ==
  ASSUME NEW s, NEW t, AList(s), AList(t)
  PROVE  /\ AList(s \o t) /\ Len(s \o t) = Len(s) + Len(t)
         /\ \A i \in 1 .. Len(s) : (s \o t)[i] = s[i]
         /\ \A i \in 1 .. Len(t) : (s \o t)[Len(s) + i] = t[i]
<1> DEFINE S == {s[i] : i \in DOMAIN s} \cup {t[i] : i \in DOMAIN t}
<1>1. s \in Seq(S) /\ t \in Seq(S)
  BY SeqMonotonic DEF AList
<1>2. Len(s) \in Nat /\ Len(t) \in Nat
  BY ListIs
<1>3. /\ s \o t \in Seq(S) /\ Len(s \o t) = Len(s) + Len(t)
      /\ \A i \in 1 .. Len(s) + Len(t) :
           (s \o t)[i] = IF i <= Len(s) THEN s[i] ELSE t[i - Len(s)]
  BY <1>1, ConcatProperties
<1>4. \A i \in 1 .. Len(s) : i \in 1 .. Len(s) + Len(t) /\ i <= Len(s)
  BY <1>2
<1>5. \A i \in 1 .. Len(t) : /\ Len(s) + i \in 1 .. Len(s) + Len(t)
                             /\ ~(Len(s) + i <= Len(s)) /\ (Len(s) + i) - Len(s) = i
  BY <1>2
<1> QED
  BY <1>3, <1>4, <1>5, SeqIsList

LEMMA Popped ==
  ASSUME NEW s, AList(s), s # <<>>
  PROVE  /\ Head(s) = s[1]
         /\ AList(Tail(s)) /\ Len(Tail(s)) = Len(s) - 1
         /\ \A i \in 1 .. Len(s) - 1 : Tail(s)[i] = s[i + 1]
<1> DEFINE S == {s[i] : i \in DOMAIN s}
<1>1. s \in Seq(S)
  BY DEF AList
<1>2. Len(s) \in Nat
  BY ListIs
<1> HIDE DEF S
<1>3. /\ Tail(s) \in Seq(S) /\ Len(Tail(s)) = Len(s) - 1
      /\ \A i \in 1 .. Len(Tail(s)) : Tail(s)[i] = s[i + 1]
  BY <1>1, HeadTailProperties
<1>4. AList(Tail(s))
  BY <1>3, SeqIsList
<1>5. Head(s) = s[1]
  OBVIOUS
<1> QED
  BY <1>3, <1>4, <1>5

LEMMA Single ==
  ASSUME NEW f
  PROVE  AList(<<f>>) /\ Len(<<f>>) = 1 /\ <<f>>[1] = f
<1>1. <<f>> \in Seq({f})
  OBVIOUS
<1> QED
  BY <1>1, SeqIsList

(* The innermost frame changed, and a frame pushed on the changed one.     *)
LEMMA Replaced ==
  ASSUME NEW s, AList(s), s # <<>>, NEW f
  PROVE  LET r == <<f>> \o Tail(s) IN
         /\ AList(r) /\ Len(r) = Len(s) /\ r # <<>>
         /\ r[1] = f /\ \A i \in 1 .. Len(s) : i # 1 => r[i] = s[i]
<1> DEFINE r == <<f>> \o Tail(s)
           t == Tail(s)
<1>1. AList(<<f>>) /\ Len(<<f>>) = 1 /\ <<f>>[1] = f
  BY Single
<1>2. AList(t) /\ Len(t) = Len(s) - 1 /\ \A i \in 1 .. Len(s) - 1 : t[i] = s[i + 1]
  BY Popped
<1>3. Len(s) \in Nat /\ Len(s) > 0
  BY ListIs
<1> HIDE DEF t
<1>4. /\ AList(<<f>> \o t) /\ Len(<<f>> \o t) = 1 + Len(t)
      /\ \A i \in 1 .. 1 : (<<f>> \o t)[i] = <<f>>[i]
      /\ \A i \in 1 .. Len(t) : (<<f>> \o t)[1 + i] = t[i]
  BY <1>1, <1>2, Concatenated
<1>5. r = <<f>> \o t
  BY DEF t
<1> HIDE DEF r
<1>6. AList(r) /\ Len(r) = Len(s) /\ r[1] = f
  BY <1>1, <1>2, <1>3, <1>4, <1>5
<1>7. ASSUME NEW i \in 1 .. Len(s), i # 1  PROVE r[i] = s[i]
  <2>1. i - 1 \in 1 .. Len(t) /\ 1 + (i - 1) = i /\ (i - 1) + 1 = i
        /\ i - 1 \in 1 .. Len(s) - 1
    BY <1>2, <1>3, <1>7
  <2> QED
    BY <1>2, <1>4, <1>5, <2>1
<1>8. r # <<>>
  BY <1>3, <1>6, ListIs
<1> QED
  BY <1>6, <1>7, <1>8 DEF r

LEMMA Pushed ==
  ASSUME NEW s, AList(s), NEW g
  PROVE  LET r == <<g>> \o s IN
         /\ AList(r) /\ Len(r) = Len(s) + 1 /\ r # <<>>
         /\ r[1] = g /\ \A i \in 1 .. Len(s) : r[i + 1] = s[i]
<1> DEFINE r == <<g>> \o s
<1>1. AList(<<g>>) /\ Len(<<g>>) = 1 /\ <<g>>[1] = g
  BY Single
<1>2. /\ AList(r) /\ Len(r) = 1 + Len(s)
      /\ \A i \in 1 .. 1 : r[i] = <<g>>[i]
      /\ \A i \in 1 .. Len(s) : r[1 + i] = s[i]
  BY <1>1, Concatenated
<1> HIDE DEF r
<1>3. Len(s) \in Nat
  BY ListIs
<1>4. \A i \in 1 .. Len(s) : 1 + i = i + 1
  BY <1>3
<1>5. r # <<>>
  BY <1>2, <1>3, ListIs
<1> QED
  BY <1>1, <1>2, <1>3, <1>4, <1>5 DEF r

(* Two frames pushed at once are the two pushed one after the other.       *)
LEMMA PushedTogether ==
  ASSUME NEW t, AList(t), NEW f, NEW g
  PROVE  <<g, f>> \o t = <<g>> \o (<<f>> \o t)
<1> DEFINE S == {t[i] : i \in DOMAIN t} \cup {f, g}
<1>1. t \in Seq(S)
  BY SeqMonotonic DEF AList
<1>2. <<g>> \in Seq(S) /\ <<f>> \in Seq(S)
  OBVIOUS
<1> HIDE DEF S
<1>3. (<<g>> \o <<f>>) \o t = <<g>> \o (<<f>> \o t)
  BY <1>1, <1>2, ConcatAssociative
<1>4. <<g>> \o <<f>> = <<g, f>>
  <2>1. <<g, f>> \in Seq({f, g}) /\ Len(<<g, f>>) = 2
        /\ <<g, f>>[1] = g /\ <<g, f>>[2] = f
    OBVIOUS
  <2>2. AList(<<f>>) /\ Len(<<f>>) = 1 /\ <<f>>[1] = f
    BY Single
  <2>3. /\ AList(<<g>> \o <<f>>) /\ Len(<<g>> \o <<f>>) = 2
        /\ (<<g>> \o <<f>>)[1] = g /\ (<<g>> \o <<f>>)[2] = f
    BY <2>2, Pushed
  <2>4. AList(<<g, f>>)
    BY <2>1, SeqIsList
  <2>5. \A i \in 1 .. 2 : i = 1 \/ i = 2
    OBVIOUS
  <2> QED
    BY <2>1, <2>3, <2>4, <2>5, ListsEqual
<1> QED
  BY <1>3, <1>4

-----------------------------------------------------------------------------
(* Objects: records of a class, a version and the values of the members.   *)
Shaped(o) == o = [class |-> o.class, vers |-> o.vers, vals |-> o.vals]
SetTo(os, n, m, x) == [os EXCEPT ![n].vals[m] = x]

LEMMA MemberAssigned ==
  ASSUME NEW os, AList(os), NEW n \in 1 .. Len(os), Shaped(os[n]), NEW m, NEW x,
         NEW r, r = SetTo(os, n, m, x)
  PROVE  /\ AList(r) /\ Len(r) = Len(os)
         /\ \A i \in 1 .. Len(os) : i # n => r[i] = os[i]
         /\ Shaped(r[n]) /\ r[n].class = os[n].class /\ r[n].vers = os[n].vers
         /\ DOMAIN r[n].vals = DOMAIN os[n].vals
         /\ m \in DOMAIN os[n].vals => r[n].vals[m] = x
         /\ \A k \in DOMAIN os[n].vals : k # m => r[n].vals[k] = os[n].vals[k]
<1> DEFINE new == [os[n] EXCEPT !.vals[m] = x]
<1>1. DOMAIN os = 1 .. Len(os)
  BY ListIs
<1>2. r = [os EXCEPT ![n] = new]
  BY <1>1 DEF SetTo
<1>3. new = [class |-> os[n].class, vers |-> os[n].vers, vals |-> [os[n].vals EXCEPT ![m] = x]]
  BY DEF Shaped
<1> HIDE DEF new
<1>4. /\ AList([os EXCEPT ![n] = new]) /\ Len([os EXCEPT ![n] = new]) = Len(os)
      /\ \A i \in 1 .. Len(os) : i # n => [os EXCEPT ![n] = new][i] = os[i]
      /\ [os EXCEPT ![n] = new][n] = new
  BY Changed
<1>6. /\ AList(r) /\ Len(r) = Len(os) /\ r[n] = new
      /\ \A i \in 1 .. Len(os) : i # n => r[i] = os[i]
  BY <1>2, <1>4
<1>5. Shaped(new) /\ new.class = os[n].class /\ new.vers = os[n].vers
      /\ new.vals = [os[n].vals EXCEPT ![m] = x]
  BY <1>3 DEF Shaped
<1>7. /\ DOMAIN new.vals = DOMAIN os[n].vals
      /\ m \in DOMAIN os[n].vals => new.vals[m] = x
      /\ \A k \in DOMAIN os[n].vals : k # m => new.vals[k] = os[n].vals[k]
  BY <1>5
<1> QED
  BY <1>5, <1>6, <1>7

LinkValue(os, f, item, n) ==
  IF item.kind = "sub" THEN n ELSE Append(os[f.obj].vals[item.name], n)

LEMMA LinkedIs ==
  ASSUME NEW os, NEW f, NEW item, NEW n
  PROVE  Linked(os, f, item, n) = SetTo(os, f.obj, item.name, LinkValue(os, f, item, n))
  BY DEF Linked, SetTo, LinkValue

-----------------------------------------------------------------------------
(* The versions of the frames: each frame has put aside what gates the body*)
(* around it.                                                              *)
Framed(f) == f = [obj |-> f.obj, pos |-> f.pos, left |-> f.left, saved |-> f.saved]

LEMMA PastIs ==
  ASSUME NEW f, Framed(f)
  PROVE  /\ Framed(Past(f)) /\ Past(f).obj = f.obj /\ Past(f).saved = f.saved
         /\ Past(f).pos = f.pos + 1 /\ Past(f).left = 0
         /\ Framed(PastItem(f)) /\ PastItem(f).obj = f.obj /\ PastItem(f).saved = f.saved
         /\ f.left > 1 => PastItem(f).pos = f.pos /\ PastItem(f).left = f.left - 1
         /\ ~(f.left > 1) => PastItem(f).pos = f.pos + 1 /\ PastItem(f).left = 0
<1>1. Past(f) = [obj |-> f.obj, pos |-> f.pos + 1, left |-> 0, saved |-> f.saved]
  <2>1. f = [obj |-> f.obj, pos |-> f.pos, left |-> f.left, saved |-> f.saved]
    BY DEF Framed
  <2> DEFINE g == [obj |-> f.obj, pos |-> f.pos + 1, left |-> f.left, saved |-> f.saved]
  <2>2. Past(f) = [[f EXCEPT !.pos = f.pos + 1] EXCEPT !.left = 0]
    BY DEF Past
  <2>3. [f EXCEPT !.pos = f.pos + 1] = g
    BY <2>1
  <2>4. [g EXCEPT !.left = 0]
          = [obj |-> f.obj, pos |-> f.pos + 1, left |-> 0, saved |-> f.saved]
    OBVIOUS
  <2> HIDE DEF g
  <2> QED
    BY <2>2, <2>3, <2>4
<1>2. f.left > 1 => PastItem(f) = [obj |-> f.obj, pos |-> f.pos, left |-> f.left - 1,
                                   saved |-> f.saved]
  BY DEF PastItem, Framed
<1>3. ~(f.left > 1) => PastItem(f) = Past(f)
  BY DEF PastItem
<1> QED
  BY <1>1, <1>2, <1>3 DEF Framed

Gate(rs, ver, i) == IF i = 1 THEN ver ELSE rs[i - 1].saved

Nested(ro, rs, ver) ==
  /\ AList(ro) /\ AList(rs)
  /\ \A n \in 1 .. Len(ro) : Shaped(ro[n])
  /\ \A i \in 1 .. Len(rs) :
       /\ Framed(rs[i]) /\ rs[i].obj \in 1 .. Len(ro)
       /\ Gate(rs, ver, i) = OwnVersion(ro[rs[i].obj].vers)
       /\ ~has_version => rs[i].saved = wversion
  /\ ~has_version => ver = wversion

LEMMA ValueKeepsNesting ==
  ASSUME NEW ro, NEW rs, NEW ver, Nested(ro, rs, ver),
         NEW n \in 1 .. Len(ro), NEW m, NEW x
  PROVE  /\ Nested(SetTo(ro, n, m, x), rs, ver)
         /\ Len(SetTo(ro, n, m, x)) = Len(ro)
<1> DEFINE r == SetTo(ro, n, m, x)
<1>1. /\ AList(r) /\ Len(r) = Len(ro)
      /\ \A i \in 1 .. Len(ro) : i # n => r[i] = ro[i]
      /\ Shaped(r[n]) /\ r[n].class = ro[n].class /\ r[n].vers = ro[n].vers
  <2>1. AList(ro) /\ Shaped(ro[n])
    BY DEF Nested
  <2>2. r = SetTo(ro, n, m, x)
    OBVIOUS
  <2> HIDE DEF r
  <2> QED
    BY <2>1, <2>2, MemberAssigned
<1> HIDE DEF r
<1>2. \A i \in 1 .. Len(ro) : Shaped(r[i]) /\ r[i].vers = ro[i].vers
  BY <1>1 DEF Nested
<1>3. \A i \in 1 .. Len(rs) :
        /\ Framed(rs[i]) /\ rs[i].obj \in 1 .. Len(r)
        /\ Gate(rs, ver, i) = OwnVersion(r[rs[i].obj].vers)
        /\ ~has_version => rs[i].saved = wversion
  BY <1>1, <1>2 DEF Nested
<1> QED
  BY <1>1, <1>2, <1>3, Zenon DEF Nested, r

LEMMA ReplacedKeepsNesting ==
  ASSUME NEW ro, NEW rs, NEW ver, Nested(ro, rs, ver), rs # <<>>,
         NEW f, Framed(f), f.obj = rs[1].obj, f.saved = rs[1].saved
  PROVE  Nested(ro, <<f>> \o Tail(rs), ver)
<1> DEFINE r == <<f>> \o Tail(rs)
<1>1. /\ AList(r) /\ Len(r) = Len(rs)
      /\ r[1] = f /\ \A i \in 1 .. Len(rs) : i # 1 => r[i] = rs[i]
  BY Replaced DEF Nested
<1>2. Len(rs) \in Nat /\ Len(rs) > 0
  BY ListIs DEF Nested
<1> HIDE DEF r
<1>3. \A i \in 1 .. Len(rs) : /\ Framed(r[i]) /\ r[i].obj = rs[i].obj
                              /\ r[i].saved = rs[i].saved
  BY <1>1, <1>2 DEF Nested
<1>4. \A i \in 1 .. Len(rs) : i # 1 => i - 1 \in 1 .. Len(rs)
  BY <1>2
<1>5. \A i \in 1 .. Len(rs) : Gate(r, ver, i) = Gate(rs, ver, i)
  BY <1>3, <1>4 DEF Gate
<1>6. \A i \in 1 .. Len(r) :
        /\ Framed(r[i]) /\ r[i].obj \in 1 .. Len(ro)
        /\ Gate(r, ver, i) = OwnVersion(ro[r[i].obj].vers)
        /\ ~has_version => r[i].saved = wversion
  BY <1>1, <1>3, <1>5 DEF Nested
<1> QED
  BY <1>1, <1>6, Zenon DEF Nested, r

LEMMA PushKeepsNesting ==
  ASSUME NEW ro, NEW rs, NEW ver, Nested(ro, rs, ver), NEW o, Shaped(o),
         NEW new, new = OwnVersion(o.vers)
  PROVE  Nested(Append(ro, o), <<Frame(Len(ro) + 1, ver)>> \o rs, new)
<1> DEFINE r == <<Frame(Len(ro) + 1, ver)>> \o rs
           q == Append(ro, o)
           f == Frame(Len(ro) + 1, ver)
<1>1. /\ AList(r) /\ Len(r) = Len(rs) + 1
      /\ r[1] = f /\ \A i \in 1 .. Len(rs) : r[i + 1] = rs[i]
  BY Pushed DEF Nested
<1>2. /\ AList(q) /\ Len(q) = Len(ro) + 1 /\ q[Len(ro) + 1] = o
      /\ \A i \in 1 .. Len(ro) : q[i] = ro[i]
  BY Appended DEF Nested
<1>3. Len(rs) \in Nat /\ Len(ro) \in Nat
  BY ListIs DEF Nested
<1>4. Framed(f) /\ f.obj = Len(ro) + 1 /\ f.saved = ver
  BY DEF Frame, Framed
<1> HIDE DEF r, q, f
<1>5. \A n \in 1 .. Len(q) : n \in 1 .. Len(ro) \/ n = Len(ro) + 1
  BY <1>2, <1>3
<1>6. \A n \in 1 .. Len(q) : Shaped(q[n])
  BY <1>2, <1>5 DEF Nested
<1>7. ~has_version => ver = wversion /\ new = wversion
  BY DEF Nested, OwnVersion
<1>8. \A i \in 1 .. Len(r) : i = 1 \/ (i - 1 \in 1 .. Len(rs) /\ (i - 1) + 1 = i /\ i # 1)
  BY <1>1, <1>3
<1>9. ASSUME NEW i \in 1 .. Len(r)
      PROVE  /\ Framed(r[i]) /\ r[i].obj \in 1 .. Len(q)
             /\ Gate(r, new, i) = OwnVersion(q[r[i].obj].vers)
             /\ ~has_version => r[i].saved = wversion
  <2>1. CASE i = 1
    <3>1. r[i].obj = Len(ro) + 1 /\ Len(ro) + 1 \in 1 .. Len(q)
      BY <1>1, <1>2, <1>3, <1>4, <2>1
    <3>2. q[r[i].obj] = o
      BY <1>2, <3>1
    <3> QED
      BY <1>1, <1>4, <1>7, <2>1, <3>1, <3>2 DEF Gate
  <2>2. CASE i # 1
    <3> DEFINE j == i - 1
    <3>1. j \in 1 .. Len(rs) /\ j + 1 = i
      BY <1>8, <2>2
    <3>2. r[i] = rs[j]
      BY <1>1, <3>1
    <3>3. /\ Framed(rs[j]) /\ rs[j].obj \in 1 .. Len(ro)
          /\ Gate(rs, ver, j) = OwnVersion(ro[rs[j].obj].vers)
          /\ ~has_version => rs[j].saved = wversion
      BY <3>1 DEF Nested
    <3>4. rs[j].obj \in 1 .. Len(q) /\ q[rs[j].obj] = ro[rs[j].obj]
      BY <1>2, <1>3, <3>3
    <3>5. Gate(r, new, i) = r[j].saved
      BY <2>2 DEF Gate
    <3>6. r[j].saved = Gate(rs, ver, j)
      <4>1. CASE j = 1
        BY <1>1, <1>4, <4>1 DEF Gate
      <4>2. CASE j # 1
        <5>1. j - 1 \in 1 .. Len(rs) /\ (j - 1) + 1 = j
          BY <1>3, <3>1, <4>2
        <5>2. r[j] = rs[j - 1]
          BY <1>1, <5>1
        <5> QED
          BY <4>2, <5>2 DEF Gate
      <4> QED
        BY <4>1, <4>2
    <3> HIDE DEF j
    <3> QED
      BY <3>2, <3>3, <3>4, <3>5, <3>6
  <2> QED
    BY <2>1, <2>2
<1> QED
  BY <1>1, <1>2, <1>6, <1>7, <1>9, Zenon DEF Nested, r, q, f

LEMMA PopKeepsNesting ==
  ASSUME NEW ro, NEW rs, NEW ver, Nested(ro, rs, ver), rs # <<>>
  PROVE  Nested(ro, Tail(rs), rs[1].saved)
<1> DEFINE r == Tail(rs)
<1>1. /\ AList(r) /\ Len(r) = Len(rs) - 1
      /\ \A i \in 1 .. Len(rs) - 1 : r[i] = rs[i + 1]
  BY Popped DEF Nested
<1>2. Len(rs) \in Nat /\ Len(rs) > 0 /\ 1 \in 1 .. Len(rs)
  BY ListIs DEF Nested
<1> HIDE DEF r
<1>3. ASSUME NEW i \in 1 .. Len(r)
      PROVE  /\ Framed(r[i]) /\ r[i].obj \in 1 .. Len(ro)
             /\ Gate(r, rs[1].saved, i) = OwnVersion(ro[r[i].obj].vers)
             /\ ~has_version => r[i].saved = wversion
  <2>1. /\ i \in 1 .. Len(rs) - 1 /\ i + 1 \in 1 .. Len(rs) /\ (i + 1) - 1 = i
        /\ i + 1 # 1
    BY <1>1, <1>2
  <2>2. r[i] = rs[i + 1]
    BY <1>1, <2>1
  <2>3. /\ Framed(rs[i + 1]) /\ rs[i + 1].obj \in 1 .. Len(ro)
        /\ Gate(rs, ver, i + 1) = OwnVersion(ro[rs[i + 1].obj].vers)
        /\ ~has_version => rs[i + 1].saved = wversion
    BY <2>1 DEF Nested
  <2>4. Gate(rs, ver, i + 1) = rs[i].saved
    BY <2>1 DEF Gate
  <2>5. Gate(r, rs[1].saved, i) = rs[i].saved
    <3>1. CASE i = 1
      BY <3>1 DEF Gate
    <3>2. CASE i # 1
      <4>1. i - 1 \in 1 .. Len(rs) - 1 /\ (i - 1) + 1 = i
        BY <1>2, <2>1, <3>2
      <4>2. r[i - 1] = rs[i]
        BY <1>1, <4>1
      <4> QED
        BY <3>2, <4>2 DEF Gate
    <3> QED
      BY <3>1, <3>2
  <2> QED
    BY <2>2, <2>3, <2>4, <2>5
<1>4. ~has_version => rs[1].saved = wversion
  BY <1>2 DEF Nested
<1> QED
  BY <1>1, <1>3, <1>4, Zenon DEF Nested, r

LEMMA NothingNested ==
  ASSUME NEW ro, AList(ro), \A n \in 1 .. Len(ro) : Shaped(ro[n]),
         NEW ver, ~has_version => ver = wversion
  PROVE  Nested(ro, <<>>, ver)
<1>1. AList(<<>>) /\ Len(<<>>) = 0
  BY DEF AList
<1>2. \A i \in 1 .. 0 : FALSE
  OBVIOUS
<1> QED
  BY <1>1, <1>2 DEF Nested

-----------------------------------------------------------------------------
VersionInv ==
  /\ Nested(robjs, rstack, version)
  /\ phase = "writing" => rstack = <<>>

LEMMA VersionInvInit == Init => VersionInv
<1> SUFFICES ASSUME Init  PROVE VersionInv
  OBVIOUS
<1>1. robjs = <<>> /\ rstack = <<>> /\ (~has_version => version = wversion)
  BY DEF Init
<1>2. AList(<<>>) /\ \A n \in 1 .. Len(<<>>) : FALSE
  BY DEF AList
<1>3. Nested(<<>>, <<>>, version)
  BY <1>1, <1>2, NothingNested
<1> QED
  BY <1>1, <1>3 DEF VersionInv

(* What a step makes of the nesting, since the two settings never change.  *)
LEMMA NestedStays ==
  ASSUME UNCHANGED <<has_version, wversion>>,
         Nested(robjs', rstack', version')
  PROVE  Nested(robjs, rstack, version)'
  BY DEF Nested, OwnVersion, Gate

LEMMA ReadStepNests ==
  ASSUME VersionInv, Read
  PROVE  VersionInv'
<1> USE DEF VersionInv
<1>1. Nested(robjs, rstack, version) /\ AList(robjs) /\ AList(rstack)
  BY DEF Nested
<1>2. phase # "writing" /\ rstack # <<>> /\ UNCHANGED <<has_version, wversion>>
  BY DEF Read, ReadField, ReadCount, ReadObject, ReadNothing, ReadSkip, ReadReturn,
         WrongTag, ReadAcross, Fail, AtRead, AtClassId, Reading
<1>3. Len(rstack) \in Nat /\ Len(rstack) > 0 /\ 1 \in 1 .. Len(rstack)
  BY <1>1, <1>2, ListIs
<1>4. RTop = rstack[1]
  BY <1>1, <1>2, Popped DEF RTop
<1>5. Framed(RTop) /\ RTop.obj \in 1 .. Len(robjs)
  BY <1>1, <1>3, <1>4 DEF Nested
<1>6. /\ Framed(Past(RTop)) /\ Past(RTop).obj = RTop.obj /\ Past(RTop).saved = RTop.saved
      /\ Framed(PastItem(RTop)) /\ PastItem(RTop).obj = RTop.obj
      /\ PastItem(RTop).saved = RTop.saved
  BY <1>5, PastIs
<1>7. phase' # "writing"
  BY <1>2 DEF Read, ReadField, ReadCount, ReadObject, ReadNothing, ReadSkip, ReadReturn,
         WrongTag, ReadAcross, Fail
<1>8. SUFFICES Nested(robjs', rstack', version')
  BY <1>2, <1>7, NestedStays
<1>9. ASSUME NEW f, RContinue(f), Framed(f), f.obj = RTop.obj, f.saved = RTop.saved,
             UNCHANGED <<robjs, version>>
      PROVE  Nested(robjs', rstack', version')
  BY <1>1, <1>2, <1>4, <1>9, ReplacedKeepsNesting DEF RContinue
<1>10. CASE ReadField
  <2> DEFINE r == SetTo(robjs, RTop.obj, RItem.name, NextToken.val)
  <2>1. robjs' = r /\ version' = version /\ rstack' = <<Past(RTop)>> \o Tail(rstack)
    BY <1>10 DEF ReadField, SetTo, RContinue
  <2> HIDE DEF r
  <2>2. Nested(robjs, <<Past(RTop)>> \o Tail(rstack), version)
    BY <1>1, <1>2, <1>4, <1>6, ReplacedKeepsNesting
  <2>3. Nested(r, <<Past(RTop)>> \o Tail(rstack), version)
    BY <1>5, <2>2, ValueKeepsNesting DEF r
  <2> QED
    BY <2>1, <2>3
<1>11. CASE ReadCount
  <2> DEFINE f == IF NextToken.val \in 1 .. ListCap
                  THEN [RTop EXCEPT !.left = NextToken.val] ELSE Past(RTop)
  <2>1. Framed([RTop EXCEPT !.left = NextToken.val])
        /\ [RTop EXCEPT !.left = NextToken.val].obj = RTop.obj
        /\ [RTop EXCEPT !.left = NextToken.val].saved = RTop.saved
    BY <1>5 DEF Framed
  <2>2. Framed(f) /\ f.obj = RTop.obj /\ f.saved = RTop.saved
    BY <1>6, <2>1
  <2>3. RContinue(f) /\ UNCHANGED <<robjs, version>>
    BY <1>11 DEF ReadCount
  <2> HIDE DEF f
  <2> QED
    BY <1>9, <2>2, <2>3
<1>12. CASE ReadObject
  <2> DEFINE os == Linked(robjs, RTop, RItem, Len(robjs) + 1)
             st == <<PastItem(RTop)>> \o Tail(rstack)
             v == IF has_version THEN stream[cursor + 3].val ELSE 0
             o == NewObject(NextToken.val, v)
  <2>1. /\ robjs' = Append(os, o) /\ rstack' = <<Frame(Len(os) + 1, version)>> \o st
        /\ version' = IF has_version THEN v ELSE version
    BY <1>12 DEF ReadObject, ReadKnown
  <2>2. Nested(robjs, st, version)
    BY <1>1, <1>2, <1>4, <1>6, ReplacedKeepsNesting
  <2>3. os = SetTo(robjs, RTop.obj, RItem.name,
                   LinkValue(robjs, RTop, RItem, Len(robjs) + 1))
    BY LinkedIs
  <2> HIDE DEF st, os
  <2>4. Nested(os, st, version)
    BY <1>5, <2>2, <2>3, ValueKeepsNesting
  <2>5. Shaped(o) /\ o.vers = v
    BY DEF NewObject, Shaped
  <2>6. version' = OwnVersion(o.vers)
    BY <1>1, <2>1, <2>5 DEF OwnVersion, Nested
  <2> HIDE DEF o, v
  <2>7. Nested(Append(os, o), <<Frame(Len(os) + 1, version)>> \o st, version')
    BY <2>4, <2>5, <2>6, PushKeepsNesting
  <2> QED
    BY <2>1, <2>7
<1>13. CASE ReadNothing
  BY <1>6, <1>9, <1>13 DEF ReadNothing
<1>14. CASE ReadSkip
  BY <1>6, <1>9, <1>14 DEF ReadSkip
<1>15. CASE ReadReturn
  <2>1. rstack' = Tail(rstack) /\ version' = rstack[1].saved /\ robjs' = robjs
    BY <1>4, <1>15 DEF ReadReturn
  <2> QED
    BY <1>1, <1>2, <2>1, PopKeepsNesting
<1>16. CASE WrongTag
  <2>1. robjs' = robjs /\ rstack' = <<>> /\ version' = StartVersion
    BY <1>16 DEF WrongTag, Fail
  <2>2. ~has_version => StartVersion = wversion
    BY DEF StartVersion
  <2> QED
    BY <1>1, <2>1, <2>2, NothingNested DEF Nested
<1>17. CASE ReadAcross
  BY <1>1, <1>17 DEF ReadAcross, reading
<1> QED
  BY <1>10, <1>11, <1>12, <1>13, <1>14, <1>15, <1>16, <1>17 DEF Read

(* Everything else: nothing is read while the tree is written, the first   *)
(* record is read from the stream alone, a failure empties the stack.      *)
LEMMA NextKeepsVersion ==
  ASSUME VersionInv, [Next]_vars
  PROVE  VersionInv'
<1>1. Nested(robjs, rstack, version) /\ AList(robjs)
      /\ (phase = "writing" => rstack = <<>>)
      /\ \A n \in 1 .. Len(robjs) : Shaped(robjs[n])
  BY DEF VersionInv, Nested
<1>2. UNCHANGED <<has_version, wversion>>
  BY DEF Next, Write, WriteField, WriteNull, WriteCount, WriteObject, WriteSkip,
         WriteReturn, StartRead, Read, ReadField, ReadCount, ReadObject, ReadNothing,
         ReadSkip, ReadReturn, WrongTag, ReadAcross, FileEnds, FileEndsInHeader, Fail, vars
<1>3. ~has_version => StartVersion = wversion
  BY DEF StartVersion
<1>4. CASE Write \/ UNCHANGED vars
  <2>1. UNCHANGED <<phase, robjs, rstack, version>>
    BY <1>4 DEF Write, WriteField, WriteNull, WriteCount, WriteObject, WriteSkip,
                WriteReturn, reading, vars
  <2> QED
    BY <1>1, <1>2, <2>1, NestedStays DEF VersionInv
<1>5. CASE StartRead
  <2> DEFINE v == IF has_version THEN stream[cursor + 3].val ELSE 0
             o == NewObject(NextToken.val, v)
  <2>1. /\ robjs' = Append(<<>>, o) /\ rstack' = <<Frame(Len(<<>>) + 1, version)>> \o <<>>
        /\ version' = IF has_version THEN v ELSE version
        /\ phase' = "reading"
    BY <1>5 DEF StartRead, ReadKnown
  <2>2. AList(<<>>) /\ (\A n \in 1 .. Len(<<>>) : FALSE)
        /\ (~has_version => version = wversion)
    BY <1>1 DEF AList, Nested
  <2>3. Nested(<<>>, <<>>, version)
    BY <2>2, NothingNested
  <2>4. Shaped(o) /\ o.vers = v
    BY DEF NewObject, Shaped
  <2>5. version' = OwnVersion(o.vers)
    BY <2>1, <2>2, <2>4 DEF OwnVersion
  <2> HIDE DEF o, v
  <2>6. Nested(Append(<<>>, o), <<Frame(Len(<<>>) + 1, version)>> \o <<>>, version')
    BY <2>3, <2>4, <2>5, PushKeepsNesting
  <2> QED
    BY <1>2, <2>1, <2>6, NestedStays DEF VersionInv
<1>6. CASE Read
  BY <1>6, ReadStepNests
<1>7. CASE FileEnds
  <2>1. rstack' = <<>> /\ robjs' = robjs /\ version' = StartVersion /\ phase' = "done"
    BY <1>7 DEF FileEnds, Fail
  <2>2. Nested(robjs', rstack', version')
    BY <1>1, <1>3, <2>1, NothingNested
  <2> QED
    BY <1>2, <2>1, <2>2, NestedStays DEF VersionInv
<1>8. CASE FileEndsInHeader
  <2> DEFINE os == Linked(robjs, RTop, RItem, Len(robjs) + 1)
             o == NewObject(NextToken.val, 0)
  <2>1. /\ rstack' = <<>> /\ robjs' = Append(os, o)
        /\ version' = StartVersion /\ phase' = "done" /\ rstack # <<>>
    BY <1>8 DEF FileEndsInHeader, Fail, AtClassId, AtRead, Reading
  <2>2. AList(rstack) /\ \A i \in 1 .. Len(rstack) : rstack[i].obj \in 1 .. Len(robjs)
    BY <1>1 DEF Nested
  <2>3. RTop.obj \in 1 .. Len(robjs)
    BY <2>1, <2>2, ListIs, Popped DEF RTop
  <2>4. os = SetTo(robjs, RTop.obj, RItem.name,
                   LinkValue(robjs, RTop, RItem, Len(robjs) + 1))
    BY LinkedIs
  <2> HIDE DEF os
  <2>5. Nested(os, rstack, version)
    BY <1>1, <2>3, <2>4, ValueKeepsNesting
  <2>6. AList(os) /\ \A n \in 1 .. Len(os) : Shaped(os[n])
    BY <2>5 DEF Nested
  <2>7. Shaped(o)
    BY DEF NewObject, Shaped
  <2> HIDE DEF o
  <2>8. AList(Append(os, o)) /\ Len(Append(os, o)) = Len(os) + 1
        /\ Append(os, o)[Len(os) + 1] = o
        /\ \A n \in 1 .. Len(os) : Append(os, o)[n] = os[n]
    BY <2>6, Appended
  <2>9. \A n \in 1 .. Len(Append(os, o)) : n = Len(os) + 1 \/ n \in 1 .. Len(os)
    BY <2>6, <2>8, ListIs
  <2>10. \A n \in 1 .. Len(Append(os, o)) : Shaped(Append(os, o)[n])
    BY <2>6, <2>7, <2>8, <2>9
  <2>11. Nested(robjs', rstack', version')
    BY <1>3, <2>1, <2>8, <2>10, NothingNested
  <2> QED
    BY <1>2, <2>1, <2>11, NestedStays DEF VersionInv
<1> QED
  BY <1>4, <1>5, <1>6, <1>7, <1>8 DEF Next

LEMMA VersionInvGivesOwn == VersionInv => VersionIsOwn
<1> SUFFICES ASSUME VersionInv, Reading
             PROVE  version = IF has_version THEN robjs[RTop.obj].vers ELSE wversion
  BY DEF VersionIsOwn
<1>1. AList(rstack) /\ rstack # <<>>
  BY DEF VersionInv, Nested, Reading
<1>2. RTop = rstack[1] /\ 1 \in 1 .. Len(rstack)
  BY <1>1, ListIs, Popped DEF RTop
<1>3. Gate(rstack, version, 1) = OwnVersion(robjs[rstack[1].obj].vers)
  BY <1>2 DEF VersionInv, Nested
<1> QED
  BY <1>2, <1>3 DEF Gate, OwnVersion

(* VersionIsOwn: while a body runs, current_version() is the version of    *)
(* its own record: read_obj and read_obj_list put back what they found.    *)
THEOREM BodiesKnowTheirVersion == Spec => []VersionIsOwn
<1>1. Init => VersionInv
  BY VersionInvInit
<1>2. VersionInv /\ [Next]_vars => VersionInv'
  BY NextKeepsVersion
<1>3. VersionInv => VersionIsOwn
  BY VersionInvGivesOwn
<1> QED
  BY <1>1, <1>2, <1>3, PTL DEF Spec

-----------------------------------------------------------------------------
(* What the bodies of a class say of its members.                          *)
BodiesAgree == WriteLayout = ReadLayout

Scalar(c, m) == ~IsList(c, m) /\ ~IsPointer(c, m)
ScalarKinds == {"dword", "short", "byte"}

LEMMA BodyIs ==
  ASSUME NEW c \in Classes, NEW k \in DOMAIN ReadLayout[c]
  PROVE  /\ k \in Nat \ {0}
         /\ ReadLayout[c][k].name \in Members(c)
         /\ ItemOf(c, ReadLayout[c][k].name) = ReadLayout[c][k]
         /\ IsList(c, ReadLayout[c][k].name) <=> ReadLayout[c][k].kind = "list"
         /\ IsPointer(c, ReadLayout[c][k].name) <=> ReadLayout[c][k].kind = "sub"
         /\ Scalar(c, ReadLayout[c][k].name) <=> ReadLayout[c][k].kind \in ScalarKinds
         /\ ReadLayout[c][k].kind = "sub" => ReadLayout[c][k].tag = "NPTc"
         /\ ReadLayout[c][k].kind = "list" => ReadLayout[c][k].tag = "NPlt"
         /\ \A j \in DOMAIN ReadLayout[c] :
              ReadLayout[c][j].name = ReadLayout[c][k].name => j = k
         /\ \A j \in Nat \ {0} : j \in DOMAIN ReadLayout[c] \/ k < j
<1> DEFINE b == ReadLayout[c]
<1>1. WellFormed(b)
  BY LayoutAssumption
<1>2. /\ DOMAIN b = 1 .. Len(b) /\ Len(b) \in Nat
      /\ b[k].kind \in {"dword", "short", "byte", "sub", "list"}
      /\ b[k].kind = "sub" => b[k].tag = "NPTc"
      /\ b[k].kind = "list" => b[k].tag = "NPlt"
      /\ \A j \in DOMAIN b : b[j].name = b[k].name => j = k
  BY <1>1 DEF WellFormed
<1>3. ItemOf(c, b[k].name) = b[k]
  BY <1>2, Zenon DEF ItemOf
<1>4. b[k].name \in Members(c)
  BY DEF Members
<1> QED
  BY <1>2, <1>3, <1>4 DEF IsList, IsPointer, Scalar, ScalarKinds

LEMMA MembersAreRead ==
  ASSUME NEW c \in Classes, NEW m \in Members(c)
  PROVE  \E k \in DOMAIN ReadLayout[c] : k >= 1 /\ ReadLayout[c][k].name = m
<1>1. PICK k \in DOMAIN ReadLayout[c] : ReadLayout[c][k].name = m
  BY DEF Members
<1> QED
  BY <1>1, BodyIs

LEMMA BlankIs ==
  ASSUME NEW c \in Classes
  PROVE  /\ DOMAIN Blank(c) = Members(c) /\ Blank(c) = [m \in Members(c) |-> Blank(c)[m]]
         /\ \A m \in Members(c) :
              /\ IsList(c, m) => Blank(c)[m] = <<>>
              /\ IsPointer(c, m) => Blank(c)[m] = NoObject /\ ~IsList(c, m)
              /\ Scalar(c, m) => Blank(c)[m] = Zero
  BY DEF Blank, Scalar, IsList, IsPointer

LEMMA LoadedIs ==
  ASSUME NEW c \in Classes, NEW n, NEW v
  PROVE  /\ DOMAIN Loaded(n, c, v) = Members(c)
         /\ Loaded(n, c, v) = [m \in Members(c) |-> Loaded(n, c, v)[m]]
         /\ \A m \in Members(c) :
              /\ IsList(c, m) => Loaded(n, c, v)[m] = <<>>
              /\ IsPointer(c, m) => Loaded(n, c, v)[m] = NoObject
              /\ Scalar(c, m) /\ ~Present(ItemOf(c, m), v) => Loaded(n, c, v)[m] = Zero
<1>1. \A m \in Members(c) :
         Loaded(n, c, v)[m] = IF IsList(c, m) \/ IsPointer(c, m) \/ ~Present(ItemOf(c, m), v)
                              THEN Blank(c)[m] ELSE <<n, m>>
  BY DEF Loaded
<1>2. /\ DOMAIN Loaded(n, c, v) = Members(c)
      /\ Loaded(n, c, v) = [m \in Members(c) |-> Loaded(n, c, v)[m]]
  BY DEF Loaded
<1>3. ASSUME NEW m \in Members(c)
      PROVE  /\ IsList(c, m) => Loaded(n, c, v)[m] = <<>>
             /\ IsPointer(c, m) => Loaded(n, c, v)[m] = NoObject
             /\ Scalar(c, m) /\ ~Present(ItemOf(c, m), v) => Loaded(n, c, v)[m] = Zero
  BY <1>1, BlankIs, Zenon
<1> QED
  BY <1>2, <1>3

LEMMA HeaderIs ==
  ASSUME NEW n, NEW c, NEW v
  PROVE  /\ AList(Header(n, c, v))
         /\ Len(Header(n, c, v)) = IF has_version THEN 3 ELSE 2
         /\ Header(n, c, v)[1] = ClassToken(c)
         /\ has_version => Header(n, c, v)[3] = Token("dword", "vers", v)
         /\ \A i \in 1 .. Len(Header(n, c, v)) : Header(n, c, v)[i].tag # "NPlt"
<1> DEFINE a == ClassToken(c)
           b == Token("buffer", "NPfl", <<n, "NPfl">>)
           d == Token("dword", "vers", v)
           t == IF has_version THEN <<d>> ELSE <<>>
<1>1. a.tag = "NPTc" /\ b.tag = "NPfl" /\ d.tag = "vers"
  BY DEF ClassToken, Token
<1>2. Header(n, c, v) = <<a, b>> \o t
  BY DEF Header
<1> HIDE DEF a, b, d
<1>3. AList(<<a, b>>) /\ Len(<<a, b>>) = 2 /\ <<a, b>>[1] = a /\ <<a, b>>[2] = b
  <2>1. <<a, b>> \in Seq({a, b})
    OBVIOUS
  <2> QED
    BY <2>1, SeqIsList
<1>4. CASE has_version
  <2>1. t = <<d>> /\ AList(<<d>>) /\ Len(<<d>>) = 1 /\ <<d>>[1] = d
    BY <1>4, Single
  <2> HIDE DEF t
  <2>2. /\ AList(<<a, b>> \o t) /\ Len(<<a, b>> \o t) = 3
        /\ \A i \in 1 .. 2 : (<<a, b>> \o t)[i] = <<a, b>>[i]
        /\ \A i \in 1 .. 1 : (<<a, b>> \o t)[2 + i] = t[i]
    BY <1>3, <2>1, Concatenated
  <2>3. (<<a, b>> \o t)[1] = a /\ (<<a, b>> \o t)[2] = b /\ (<<a, b>> \o t)[3] = d
    BY <1>3, <2>1, <2>2
  <2>4. \A i \in 1 .. 3 : i = 1 \/ i = 2 \/ i = 3
    OBVIOUS
  <2> QED
    BY <1>1, <1>2, <1>4, <2>2, <2>3, <2>4 DEF a, d
<1>5. CASE ~has_version
  <2>1. t = <<>> /\ AList(<<>>) /\ Len(<<>>) = 0
    BY <1>5 DEF AList
  <2> HIDE DEF t
  <2>2. /\ AList(<<a, b>> \o t) /\ Len(<<a, b>> \o t) = 2
        /\ \A i \in 1 .. 2 : (<<a, b>> \o t)[i] = <<a, b>>[i]
    BY <1>3, <2>1, Concatenated
  <2>3. (<<a, b>> \o t)[1] = a /\ (<<a, b>> \o t)[2] = b
    BY <1>3, <2>2
  <2>4. \A i \in 1 .. 2 : i = 1 \/ i = 2
    OBVIOUS
  <2> QED
    BY <1>1, <1>2, <1>5, <2>2, <2>3, <2>4 DEF a
<1> QED
  BY <1>4, <1>5

-----------------------------------------------------------------------------
(* A moment of the writing: the objects reached, the calls in progress, the*)
(* output.                                                                 *)
Moment(os, st, out) == [objs |-> os, stack |-> st, out |-> out]

Inner(a) == a.stack[1]
BodyAt(a) == ReadLayout[a.objs[Inner(a).obj].class]
ItemAt(a) == BodyAt(a)[Inner(a).pos]
InBody(a) == a.stack # <<>> /\ Inner(a).pos \in DOMAIN BodyAt(a)
Asks(a, kinds) == InBody(a) /\ ItemAt(a).kind \in kinds /\ Present(ItemAt(a), wversion)
Continued(a, f) == <<f>> \o Tail(a.stack)

FieldStep(a, b) ==
  /\ Asks(a, ScalarKinds)
  /\ b = Moment(a.objs, Continued(a, Past(Inner(a))),
                Append(a.out, Token(ItemAt(a).kind, ItemAt(a).tag,
                                    a.objs[Inner(a).obj].vals[ItemAt(a).name])))

NullStep(a, b) ==
  /\ Asks(a, {"sub"})
  /\ b = Moment(a.objs, Continued(a, Past(Inner(a))), Append(a.out, ClassToken(NoClass)))

CountStep(a, b) ==
  /\ Asks(a, {"list"}) /\ Inner(a).left = 0
  /\ \E n \in Nat :
       b = Moment(a.objs,
                  Continued(a, IF n = 0 THEN Past(Inner(a)) ELSE [Inner(a) EXCEPT !.left = n]),
                  Append(a.out, Token("dword", "NPlt", n)))

Hung(a) == Linked(a.objs, Inner(a), ItemAt(a), Len(a.objs) + 1)
ObjectStep(a, b) ==
  /\ Asks(a, {"sub", "list"}) /\ (ItemAt(a).kind = "list" => Inner(a).left > 0)
  /\ \E c \in Classes, v \in Nat :
       /\ ~has_version => v = 0
       /\ b = Moment(Append(Hung(a), Record(Len(a.objs) + 1, c, v)),
                     <<Frame(Len(a.objs) + 1, 0)>> \o Continued(a, PastItem(Inner(a))),
                     a.out \o Header(Len(a.objs) + 1, c, v))

SkipStep(a, b) ==
  /\ InBody(a) /\ ~Present(ItemAt(a), wversion)
  /\ b = Moment(a.objs, Continued(a, Past(Inner(a))), a.out)

ReturnStep(a, b) ==
  /\ a.stack # <<>> /\ ~InBody(a)
  /\ b = Moment(a.objs, Tail(a.stack), a.out)

WriteStep(a, b) ==
  FieldStep(a, b) \/ NullStep(a, b) \/ CountStep(a, b) \/ ObjectStep(a, b)
    \/ SkipStep(a, b) \/ ReturnStep(a, b)

LEMMA MomentIs ==
  ASSUME NEW os, NEW st, NEW out
  PROVE  /\ Moment(os, st, out).objs = os /\ Moment(os, st, out).stack = st
         /\ Moment(os, st, out).out = out
  BY DEF Moment

(* An object as the writer holds it.                                       *)
Whole(o) ==
  /\ Shaped(o) /\ o.class \in Classes
  /\ o.vals = [m \in Members(o.class) |-> o.vals[m]]
  /\ ~has_version => o.vers = 0
  /\ \A m \in Members(o.class) :
       /\ IsList(o.class, m) => AList(o.vals[m])
       /\ Scalar(o.class, m) /\ ~Present(ItemOf(o.class, m), OwnVersion(o.vers))
            => o.vals[m] = Zero

Placed(a, f) == Framed(f) /\ f.obj \in 1 .. Len(a.objs) /\ f.pos \in Nat \ {0} /\ f.left \in Nat

(* A pointer still ahead of the frame about its object is null.            *)
Ahead(o, f) ==
  \A p \in DOMAIN ReadLayout[o.class] :
    p >= f.pos /\ ReadLayout[o.class][p].kind = "sub"
      => o.vals[ReadLayout[o.class][p].name] = NoObject

(* Items are only awaited where a vector is written.                       *)
Listing(o, f) ==
  f.left # 0 => /\ f.pos \in DOMAIN ReadLayout[o.class]
                /\ ReadLayout[o.class][f.pos].kind = "list"

Written(a) ==
  /\ AList(a.objs) /\ AList(a.stack) /\ AList(a.out)
  /\ \A n \in 1 .. Len(a.objs) : Whole(a.objs[n])
  /\ \A i \in 1 .. Len(a.stack) : /\ Placed(a, a.stack[i])
                                 /\ Ahead(a.objs[a.stack[i].obj], a.stack[i])
                                 /\ Listing(a.objs[a.stack[i].obj], a.stack[i])
  /\ \A i, j \in 1 .. Len(a.stack) : i # j => a.stack[i].obj # a.stack[j].obj

LEMMA WriterIsAt ==
  ASSUME NEW a, Written(a), a.stack # <<>>
  PROVE  /\ Len(a.stack) \in Nat /\ 1 \in 1 .. Len(a.stack)
         /\ Head(a.stack) = Inner(a) /\ Placed(a, Inner(a))
         /\ Whole(a.objs[Inner(a).obj]) /\ Ahead(a.objs[Inner(a).obj], Inner(a))
         /\ Listing(a.objs[Inner(a).obj], Inner(a))
         /\ a.objs[Inner(a).obj].class \in Classes
<1>1. Len(a.stack) \in Nat /\ 1 \in 1 .. Len(a.stack) /\ Head(a.stack) = Inner(a)
  BY ListIs, Popped DEF Written, Inner
<1>2. /\ Placed(a, Inner(a)) /\ Ahead(a.objs[Inner(a).obj], Inner(a))
      /\ Listing(a.objs[Inner(a).obj], Inner(a))
  BY <1>1 DEF Written, Inner
<1>3. Whole(a.objs[Inner(a).obj])
  BY <1>2 DEF Written, Placed
<1> QED
  BY <1>1, <1>2, <1>3 DEF Whole

(* The frame on top changed for one about the same object, further on.     *)
LEMMA OnwardIsWritten ==
  ASSUME NEW a, Written(a), a.stack # <<>>, NEW f, Framed(f), f.obj = Inner(a).obj,
         f.pos \in Nat, f.left \in Nat, f.pos >= Inner(a).pos,
         Listing(a.objs[Inner(a).obj], f),
         NEW out, AList(out)
  PROVE  Written(Moment(a.objs, Continued(a, f), out))
<1> DEFINE b == Moment(a.objs, Continued(a, f), out)
           r == Continued(a, f)
<1>1. Placed(a, Inner(a)) /\ Ahead(a.objs[Inner(a).obj], Inner(a)) /\ Len(a.stack) \in Nat
  BY WriterIsAt
<1>2. b.objs = a.objs /\ b.stack = r /\ b.out = out
  BY MomentIs
<1>3. /\ AList(r) /\ Len(r) = Len(a.stack)
      /\ r[1] = f /\ \A i \in 1 .. Len(a.stack) : i # 1 => r[i] = a.stack[i]
  BY Replaced DEF Written, Continued
<1> HIDE DEF r, b
<1>4. Placed(b, f)
  BY <1>1, <1>2 DEF Placed
<1>5. a.objs[f.obj].class \in Classes
  BY WriterIsAt
<1>6. Ahead(a.objs[f.obj], f)
  <2>1. \A p \in DOMAIN ReadLayout[a.objs[f.obj].class] :
           p >= f.pos => p >= Inner(a).pos
    BY <1>1, <1>5, BodyIs DEF Placed
  <2> QED
    BY <1>1, <2>1 DEF Ahead
<1>7. \A i \in 1 .. Len(r) : /\ Placed(b, r[i]) /\ Ahead(b.objs[r[i].obj], r[i])
                             /\ Listing(b.objs[r[i].obj], r[i])
  <2> TAKE i \in 1 .. Len(r)
  <2>1. CASE i = 1
    BY <1>2, <1>3, <1>4, <1>6, <2>1
  <2>2. CASE i # 1
    <3>1. /\ r[i] = a.stack[i] /\ Placed(a, a.stack[i])
          /\ Ahead(a.objs[a.stack[i].obj], a.stack[i])
          /\ Listing(a.objs[a.stack[i].obj], a.stack[i])
      BY <1>3, <2>2 DEF Written
    <3> QED
      BY <1>2, <3>1 DEF Placed
  <2> QED
    BY <2>1, <2>2
<1>8. \A i \in 1 .. Len(r) : r[i].obj = a.stack[i].obj
  BY <1>3 DEF Inner
<1>9. \A i, j \in 1 .. Len(r) : i # j => r[i].obj # r[j].obj
  BY <1>3, <1>8 DEF Written
<1> QED
  BY <1>2, <1>3, <1>7, <1>9 DEF Written, b

-----------------------------------------------------------------------------
(* What is written stays written.                                          *)
Prefix(s, t) ==
  /\ AList(s) /\ AList(t) /\ Len(s) <= Len(t)
  /\ \A i \in 1 .. Len(s) : s[i] = t[i]

Less(o, z) ==
  /\ o.class = z.class /\ o.vers = z.vers /\ o.class \in Classes
  /\ \A m \in Members(o.class) :
       /\ IsList(o.class, m) => Prefix(o.vals[m], z.vals[m])
       /\ IsPointer(o.class, m) => o.vals[m] = NoObject \/ o.vals[m] = z.vals[m]
       /\ Scalar(o.class, m) => o.vals[m] = z.vals[m]

Grows(a, z) ==
  /\ AList(a.objs) /\ AList(z.objs) /\ Len(a.objs) <= Len(z.objs)
  /\ \A n \in 1 .. Len(a.objs) : Less(a.objs[n], z.objs[n])
  /\ Prefix(a.out, z.out)

LEMMA PrefixTrans ==
  ASSUME NEW s, NEW t, NEW u, Prefix(s, t), Prefix(t, u)
  PROVE  Prefix(s, u)
<1>1. AList(s) /\ AList(u) /\ Len(s) \in Nat /\ Len(t) \in Nat /\ Len(u) \in Nat
      /\ Len(s) <= Len(t) /\ Len(t) <= Len(u)
  BY ListIs DEF Prefix
<1>2. \A i \in 1 .. Len(s) : i \in 1 .. Len(t)
  BY <1>1
<1>3. \A i \in 1 .. Len(s) : s[i] = u[i]
  BY <1>2 DEF Prefix
<1> QED
  BY <1>1, <1>3 DEF Prefix

LEMMA PrefixSame ==
  ASSUME NEW s, AList(s)
  PROVE  Prefix(s, s)
  BY ListIs DEF Prefix

LEMMA PrefixAppend ==
  ASSUME NEW s, AList(s), NEW e
  PROVE  Prefix(s, Append(s, e))
<1>1. Len(s) \in Nat
  BY ListIs
<1>2. /\ AList(Append(s, e)) /\ Len(Append(s, e)) = Len(s) + 1
      /\ \A i \in 1 .. Len(s) : Append(s, e)[i] = s[i]
  BY Appended
<1> QED
  BY <1>1, <1>2 DEF Prefix

LEMMA PrefixConcat ==
  ASSUME NEW s, AList(s), NEW t, AList(t)
  PROVE  Prefix(s, s \o t)
<1>1. Len(s) \in Nat /\ Len(t) \in Nat
  BY ListIs
<1>2. /\ AList(s \o t) /\ Len(s \o t) = Len(s) + Len(t)
      /\ \A i \in 1 .. Len(s) : (s \o t)[i] = s[i]
  BY Concatenated
<1> QED
  BY <1>1, <1>2 DEF Prefix

LEMMA LessTrans ==
  ASSUME NEW o, NEW p, NEW q, Less(o, p), Less(p, q)
  PROVE  Less(o, q)
<1>1. o.class = p.class /\ p.class = q.class /\ o.vers = q.vers /\ o.class \in Classes
  BY DEF Less
<1>2. ASSUME NEW m \in Members(o.class)
      PROVE  /\ IsList(o.class, m) => Prefix(o.vals[m], q.vals[m])
             /\ IsPointer(o.class, m) => o.vals[m] = NoObject \/ o.vals[m] = q.vals[m]
             /\ Scalar(o.class, m) => o.vals[m] = q.vals[m]
  <2>1. m \in Members(p.class)
    BY <1>1
  <2>2. IsList(o.class, m) => Prefix(o.vals[m], q.vals[m])
    <3> SUFFICES ASSUME IsList(o.class, m)  PROVE Prefix(o.vals[m], q.vals[m])
      OBVIOUS
    <3>1. Prefix(o.vals[m], p.vals[m]) /\ Prefix(p.vals[m], q.vals[m])
      BY <1>1, <2>1 DEF Less
    <3> QED
      BY <3>1, PrefixTrans
  <2>3. /\ IsPointer(o.class, m) => o.vals[m] = NoObject \/ o.vals[m] = p.vals[m]
        /\ Scalar(o.class, m) => o.vals[m] = p.vals[m]
    BY DEF Less
  <2>4. /\ IsPointer(o.class, m) => p.vals[m] = NoObject \/ p.vals[m] = q.vals[m]
        /\ Scalar(o.class, m) => p.vals[m] = q.vals[m]
    BY <1>1, <2>1 DEF Less
  <2> QED
    BY <2>2, <2>3, <2>4
<1> QED
  BY <1>1, <1>2 DEF Less

LEMMA LessSame ==
  ASSUME NEW o, Whole(o)
  PROVE  Less(o, o)
  BY PrefixSame DEF Less, Whole

LEMMA GrowsTrans ==
  ASSUME NEW a, NEW b, NEW z, Grows(a, b), Grows(b, z)
  PROVE  Grows(a, z)
<1>1. /\ AList(a.objs) /\ AList(z.objs) /\ Len(a.objs) \in Nat /\ Len(b.objs) \in Nat
      /\ Len(z.objs) \in Nat /\ Len(a.objs) <= Len(b.objs) /\ Len(b.objs) <= Len(z.objs)
  BY ListIs DEF Grows
<1>2. \A n \in 1 .. Len(a.objs) : n \in 1 .. Len(b.objs)
  BY <1>1
<1>3. ASSUME NEW n \in 1 .. Len(a.objs)  PROVE Less(a.objs[n], z.objs[n])
  <2>1. Less(a.objs[n], b.objs[n]) /\ Less(b.objs[n], z.objs[n])
    BY <1>2 DEF Grows
  <2> QED
    BY <2>1, LessTrans
<1>4. Prefix(a.out, z.out)
  BY PrefixTrans DEF Grows
<1> QED
  BY <1>1, <1>3, <1>4 DEF Grows

LEMMA GrowsOut ==
  ASSUME NEW a, Written(a), NEW st, NEW out, Prefix(a.out, out)
  PROVE  Grows(a, Moment(a.objs, st, out))
<1> DEFINE b == Moment(a.objs, st, out)
<1>1. b.objs = a.objs /\ b.out = out
  BY MomentIs
<1> HIDE DEF b
<1>2. AList(a.objs) /\ Len(a.objs) \in Nat /\ \A n \in 1 .. Len(a.objs) : Whole(a.objs[n])
  BY ListIs DEF Written
<1>3. \A n \in 1 .. Len(a.objs) : Less(a.objs[n], a.objs[n])
  BY <1>2, LessSame
<1>4. Grows(a, b)
  BY <1>1, <1>2, <1>3 DEF Grows
<1> QED
  BY <1>4 DEF b

LEMMA GrowsSame ==
  ASSUME NEW a, Written(a)
  PROVE  Grows(a, a)
<1>1. /\ AList(a.objs) /\ Len(a.objs) \in Nat /\ AList(a.out)
      /\ \A n \in 1 .. Len(a.objs) : Whole(a.objs[n])
  BY ListIs DEF Written
<1>2. \A n \in 1 .. Len(a.objs) : Less(a.objs[n], a.objs[n])
  BY <1>1, LessSame
<1>3. Prefix(a.out, a.out)
  BY <1>1, PrefixSame
<1> QED
  BY <1>1, <1>2, <1>3 DEF Grows

(* An object hung under the member in turn.                                *)
LEMMA HungIs ==
  ASSUME NEW a, Written(a), Asks(a, {"sub", "list"})
  PROVE  /\ AList(Hung(a)) /\ Len(Hung(a)) = Len(a.objs)
         /\ \A n \in 1 .. Len(a.objs) : Whole(Hung(a)[n]) /\ Less(a.objs[n], Hung(a)[n])
         /\ \A n \in 1 .. Len(a.objs) : n # Inner(a).obj => Hung(a)[n] = a.objs[n]
         /\ \A m \in Members(a.objs[Inner(a).obj].class) :
              m # ItemAt(a).name =>
                Hung(a)[Inner(a).obj].vals[m] = a.objs[Inner(a).obj].vals[m]
         /\ Hung(a)[Inner(a).obj].vals[ItemAt(a).name]
              = LinkValue(a.objs, Inner(a), ItemAt(a), Len(a.objs) + 1)
<1> DEFINE os == a.objs
           n0 == Inner(a).obj
           o == os[n0]
           c == o.class
           m0 == ItemAt(a).name
           x == LinkValue(os, Inner(a), ItemAt(a), Len(os) + 1)
           r == Hung(a)
           z == r[n0]
<1>1. /\ AList(os) /\ n0 \in 1 .. Len(os) /\ Whole(o) /\ c \in Classes
      /\ Ahead(o, Inner(a)) /\ Inner(a).pos \in Nat
  <2>1. a.stack # <<>> /\ AList(os)
    BY DEF Asks, InBody, Written
  <2>2. /\ Whole(a.objs[Inner(a).obj]) /\ Ahead(a.objs[Inner(a).obj], Inner(a))
        /\ a.objs[Inner(a).obj].class \in Classes /\ Placed(a, Inner(a))
    BY <2>1, WriterIsAt
  <2> QED
    BY <2>1, <2>2 DEF Placed
<1>2. Inner(a).pos \in DOMAIN ReadLayout[c] /\ ItemAt(a) = ReadLayout[c][Inner(a).pos]
      /\ (ItemAt(a).kind = "sub" \/ ItemAt(a).kind = "list")
  BY DEF Asks, InBody, BodyAt, ItemAt
<1>3. /\ m0 \in Members(c) /\ ~Scalar(c, m0)
      /\ IsList(c, m0) <=> ItemAt(a).kind = "list"
      /\ IsPointer(c, m0) <=> ItemAt(a).kind = "sub"
  <2> DEFINE k == Inner(a).pos
  <2>1. c \in Classes /\ k \in DOMAIN ReadLayout[c] /\ ItemAt(a) = ReadLayout[c][k]
    BY <1>1, <1>2
  <2> HIDE DEF k, c
  <2>2. /\ ItemAt(a).name \in Members(c)
        /\ IsList(c, ItemAt(a).name) <=> ItemAt(a).kind = "list"
        /\ IsPointer(c, ItemAt(a).name) <=> ItemAt(a).kind = "sub"
    BY <2>1, BodyIs
  <2> QED
    BY <1>2, <2>2 DEF Scalar
<1>4. r = SetTo(os, n0, m0, x)
  BY LinkedIs DEF Hung
<1>5. Shaped(o) /\ o.vals = [m \in Members(c) |-> o.vals[m]]
  BY <1>1 DEF Whole
<1>6. DOMAIN o.vals = Members(c)
  BY <1>5
<1> HIDE DEF x, r
<1>7. /\ AList(r) /\ Len(r) = Len(os)
      /\ \A i \in 1 .. Len(os) : i # n0 => r[i] = os[i]
      /\ Shaped(z) /\ z.class = c /\ z.vers = o.vers
      /\ DOMAIN z.vals = Members(c)
      /\ z.vals[m0] = x
      /\ \A k \in Members(c) : k # m0 => z.vals[k] = o.vals[k]
  BY <1>1, <1>3, <1>4, <1>5, <1>6, MemberAssigned
<1>8. z.vals = [m \in Members(c) |-> z.vals[m]]
  <2>1. r[n0] = [os[n0] EXCEPT !.vals[m0] = x]
    BY <1>1, <1>4, ListIs DEF SetTo
  <2>2. o = [class |-> o.class, vers |-> o.vers, vals |-> o.vals]
    BY <1>5 DEF Shaped
  <2>3. z.vals = [o.vals EXCEPT ![m0] = x]
    BY <2>1, <2>2
  <2> QED
    BY <1>5, <2>3
<1>9. IsList(c, m0) => AList(o.vals[m0]) /\ x = Append(o.vals[m0], Len(os) + 1)
  BY <1>1, <1>3 DEF Whole, x, LinkValue
<1>10. IsList(c, m0) => Prefix(o.vals[m0], x) /\ AList(x)
  <2> SUFFICES ASSUME IsList(c, m0)  PROVE Prefix(o.vals[m0], x) /\ AList(x)
    OBVIOUS
  <2> DEFINE t == o.vals[m0]
  <2>1. AList(t) /\ x = Append(t, Len(os) + 1)
    BY <1>9
  <2> HIDE DEF t
  <2>2. Prefix(t, x) /\ AList(x)
    BY <2>1, PrefixAppend, Appended
  <2> QED
    BY <2>2 DEF t
<1>11. IsPointer(c, m0) => o.vals[m0] = NoObject
  <2>1. ItemAt(a).kind = "sub" => o.vals[ReadLayout[c][Inner(a).pos].name] = NoObject
    <3>1. Inner(a).pos >= Inner(a).pos
      BY <1>1
    <3>2. Ahead(o, Inner(a)) /\ Inner(a).pos \in DOMAIN ReadLayout[o.class]
          /\ ItemAt(a) = ReadLayout[o.class][Inner(a).pos]
      BY <1>1, <1>2
    <3> HIDE DEF o
    <3> QED
      BY <3>1, <3>2 DEF Ahead, c
  <2> QED
    BY <1>2, <1>3, <2>1
<1> HIDE DEF z, o, n0, m0, c
<1>12. Whole(z)
  <2>1. \A m \in Members(c) :
          /\ IsList(c, m) => AList(z.vals[m])
          /\ Scalar(c, m) /\ ~Present(ItemOf(c, m), OwnVersion(z.vers)) => z.vals[m] = Zero
    <3> TAKE m \in Members(c)
    <3>1. CASE m = m0
      BY <1>3, <1>7, <1>10, <3>1
    <3>2. CASE m # m0
      BY <1>1, <1>7, <3>2 DEF Whole, c
    <3> QED
      BY <3>1, <3>2
  <2>2. ~has_version => z.vers = 0
    BY <1>1, <1>7 DEF Whole
  <2> QED
    BY <1>1, <1>7, <1>8, <2>1, <2>2 DEF Whole
<1>13. Less(o, z)
  <2>1. ASSUME NEW m \in Members(c)
        PROVE  /\ IsList(c, m) => Prefix(o.vals[m], z.vals[m])
               /\ IsPointer(c, m) => o.vals[m] = NoObject \/ o.vals[m] = z.vals[m]
               /\ Scalar(c, m) => o.vals[m] = z.vals[m]
    <3>1. CASE m = m0
      BY <1>3, <1>7, <1>10, <1>11, <3>1
    <3>2. CASE m # m0
      <4>1. z.vals[m] = o.vals[m]
        BY <1>7, <3>2
      <4>2. IsList(c, m) => AList(o.vals[m])
        BY <1>1 DEF Whole, c
      <4> QED
        BY <4>1, <4>2, PrefixSame
    <3> QED
      BY <3>1, <3>2
  <2> QED
    BY <1>1, <1>7, <2>1 DEF Less, c
<1>14. \A n \in 1 .. Len(os) : Whole(r[n]) /\ Less(os[n], r[n])
  <2> TAKE n \in 1 .. Len(os)
  <2>1. Whole(os[n])
    BY DEF Written
  <2> QED
    BY <1>7, <1>12, <1>13, <2>1, LessSame DEF z, o
<1> QED
  BY <1>7, <1>14, Zenon DEF r, z, o, n0, m0, c, x

LEMMA RecordIs ==
  ASSUME NEW c \in Classes, NEW n, NEW v, ~has_version => v = 0
  PROVE  /\ Whole(Record(n, c, v))
         /\ Record(n, c, v).class = c /\ Record(n, c, v).vers = v
         /\ \A m \in Members(c) :
              /\ IsList(c, m) => Record(n, c, v).vals[m] = <<>>
              /\ IsPointer(c, m) => Record(n, c, v).vals[m] = NoObject
         /\ \A f : Ahead(Record(n, c, v), f)
<1> DEFINE o == Record(n, c, v)
           w == OwnVersion(v)
<1>1. o = [class |-> c, vers |-> v, vals |-> Loaded(n, c, w)]
  BY DEF Record
<1> HIDE DEF w
<1>2. Shaped(o) /\ o.class = c /\ o.vers = v /\ o.vals = Loaded(n, c, w)
  BY <1>1 DEF Shaped
<1> HIDE DEF o
<1>3. /\ o.vals = [m \in Members(c) |-> o.vals[m]]
      /\ \A m \in Members(c) :
           /\ IsList(c, m) => o.vals[m] = <<>>
           /\ IsPointer(c, m) => o.vals[m] = NoObject
           /\ Scalar(c, m) /\ ~Present(ItemOf(c, m), w) => o.vals[m] = Zero
  BY <1>2, LoadedIs
<1>4. AList(<<>>)
  BY DEF AList
<1>5. Whole(o)
  BY <1>2, <1>3, <1>4 DEF Whole, w
<1>6. ASSUME NEW f  PROVE Ahead(o, f)
  <2>1. ASSUME NEW p \in DOMAIN ReadLayout[o.class], ReadLayout[o.class][p].kind = "sub"
        PROVE  o.vals[ReadLayout[o.class][p].name] = NoObject
    <3>1. p \in DOMAIN ReadLayout[c] /\ ReadLayout[c][p].kind = "sub"
      BY <1>2, <2>1
    <3>2. ReadLayout[c][p].name \in Members(c) /\ IsPointer(c, ReadLayout[c][p].name)
      BY <3>1, BodyIs
    <3> QED
      BY <1>2, <1>3, <3>2
  <2> QED
    BY <2>1 DEF Ahead
<1> QED
  BY <1>2, <1>3, <1>5, <1>6 DEF o

LEMMA FirstIsWritten ==
  ASSUME NEW c \in Classes, NEW v, ~has_version => v = 0
  PROVE  Written(Moment(<<Record(1, c, v)>>, <<Frame(1, 0)>>, Header(1, c, v)))
<1> DEFINE o == Record(1, c, v)
           f == Frame(1, 0)
           h == Header(1, c, v)
           a == Moment(<<o>>, <<f>>, h)
<1>1. Whole(o) /\ Ahead(o, f)
  BY RecordIs
<1>2. f = [obj |-> 1, pos |-> 1, left |-> 0, saved |-> 0]
  BY DEF Frame
<1>3. Framed(f) /\ f.obj = 1 /\ f.pos \in Nat /\ f.left \in Nat
  BY <1>2 DEF Framed
<1>4. AList(h)
  BY HeaderIs
<1> HIDE DEF o, f, h
<1>5. AList(<<o>>) /\ Len(<<o>>) = 1 /\ <<o>>[1] = o
  BY Single
<1>6. AList(<<f>>) /\ Len(<<f>>) = 1 /\ <<f>>[1] = f
  BY Single
<1>7. a.objs = <<o>> /\ a.stack = <<f>> /\ a.out = h
  BY DEF Moment
<1> HIDE DEF a
<1>8. \A i \in 1 .. 1 : i = 1
  OBVIOUS
<1>9. Placed(a, f) /\ Listing(o, f)
  BY <1>2, <1>3, <1>5, <1>7 DEF Placed, Listing, f
<1>10. Written(a)
  BY <1>1, <1>3, <1>4, <1>5, <1>6, <1>7, <1>8, <1>9 DEF Written
<1> QED
  BY <1>10 DEF a, o, f, h

LEMMA OnwardStep ==
  ASSUME NEW a, Written(a), a.stack # <<>>, NEW b, NEW f, NEW out,
         Framed(f), f.obj = Inner(a).obj, f.pos \in Nat, f.left \in Nat,
         f.pos >= Inner(a).pos, Listing(a.objs[Inner(a).obj], f), Prefix(a.out, out),
         b = Moment(a.objs, Continued(a, f), out)
  PROVE  Written(b) /\ Grows(a, b)
<1>1. AList(out)
  BY DEF Prefix
<1> QED
  BY <1>1, OnwardIsWritten, GrowsOut

LEMMA ObjectIsWritten ==
  ASSUME NEW a, NEW b, Written(a), ObjectStep(a, b)
  PROVE  Written(b) /\ Grows(a, b)
<1> DEFINE n == Len(a.objs) + 1
<1>1. PICK c \in Classes, v \in Nat :
        /\ ~has_version => v = 0
        /\ b = Moment(Append(Hung(a), Record(n, c, v)),
                      <<Frame(n, 0)>> \o Continued(a, PastItem(Inner(a))),
                      a.out \o Header(n, c, v))
  BY DEF ObjectStep
<1> DEFINE os == Hung(a)
           o == Record(n, c, v)
           f == PastItem(Inner(a))
           g == Frame(n, 0)
           r == Continued(a, f)
           st == <<g>> \o r
           h == Header(n, c, v)
<1>2. b.objs = Append(os, o) /\ b.stack = st /\ b.out = a.out \o h
  BY <1>1 DEF Moment
<1>3. Asks(a, {"sub", "list"}) /\ a.stack # <<>>
  BY DEF ObjectStep, Asks, InBody
<1>4. Placed(a, Inner(a)) /\ Len(a.stack) \in Nat
  BY <1>3, WriterIsAt
<1>5. /\ Framed(f) /\ f.obj = Inner(a).obj /\ f.pos \in Nat \ {0} /\ f.left \in Nat
      /\ f.pos >= Inner(a).pos
  <2>1. Framed(Inner(a)) /\ Inner(a).pos \in Nat \ {0} /\ Inner(a).left \in Nat
    BY <1>4 DEF Placed
  <2> QED
    BY <2>1, PastIs
<1>6. Whole(o) /\ o.class = c /\ (\A e : Ahead(o, e))
  BY <1>1, RecordIs
<1>7. AList(h) /\ AList(a.out)
  BY HeaderIs DEF Written
<1> HIDE DEF o, h
<1>8. Prefix(a.out, b.out)
  BY <1>2, <1>7, PrefixConcat
<1>9. /\ AList(os) /\ Len(os) = Len(a.objs) /\ Len(os) \in Nat
      /\ \A i \in 1 .. Len(os) : Whole(os[i]) /\ Less(a.objs[i], os[i])
  BY <1>3, HungIs, ListIs
<1>10. /\ AList(b.objs) /\ Len(b.objs) = n /\ b.objs[n] = o
       /\ \A i \in 1 .. Len(os) : b.objs[i] = os[i]
  BY <1>2, <1>9, Appended
<1>11. \A i \in 1 .. n : i = n \/ i \in 1 .. Len(os)
  BY <1>9
<1>12. \A i \in 1 .. Len(b.objs) : Whole(b.objs[i])
  BY <1>6, <1>9, <1>10, <1>11
<1>13. AList(a.objs) /\ Len(a.objs) <= Len(b.objs)
  BY <1>9, <1>10 DEF Written
<1>14. Grows(a, b)
  BY <1>8, <1>9, <1>10, <1>13 DEF Grows
(* The frames.                                                             *)
<1>15. /\ AList(r) /\ Len(r) = Len(a.stack)
       /\ r[1] = f /\ \A i \in 1 .. Len(a.stack) : i # 1 => r[i] = a.stack[i]
  BY <1>3, Replaced DEF Written, Continued
<1>16. /\ g = [obj |-> n, pos |-> 1, left |-> 0, saved |-> 0]
  BY DEF Frame
<1>17. Framed(g) /\ g.obj = n /\ g.pos \in Nat \ {0} /\ g.left \in Nat
  BY <1>16 DEF Framed
<1> HIDE DEF r, f, g, os
<1>18. /\ AList(st) /\ Len(st) = Len(r) + 1 /\ st[1] = g
       /\ \A i \in 1 .. Len(r) : st[i + 1] = r[i]
  BY <1>15, Pushed
<1> HIDE DEF st
<1>19. ASSUME NEW i \in 1 .. Len(r)
       PROVE  /\ Placed(b, r[i]) /\ r[i].obj \in 1 .. Len(a.objs)
              /\ Ahead(b.objs[r[i].obj], r[i]) /\ Listing(b.objs[r[i].obj], r[i])
              /\ r[i].obj = a.stack[i].obj
  <2>1. i \in 1 .. Len(a.stack) /\ 1 \in 1 .. Len(a.stack)
    BY <1>4, <1>15
  <2>2. /\ Placed(a, a.stack[i]) /\ Ahead(a.objs[a.stack[i].obj], a.stack[i])
        /\ Listing(a.objs[a.stack[i].obj], a.stack[i])
        /\ i # 1 => a.stack[i].obj # Inner(a).obj
    BY <2>1 DEF Written, Inner
  <2>3. r[i].obj = a.stack[i].obj /\ Framed(r[i]) /\ r[i].pos \in Nat \ {0} /\ r[i].left \in Nat
    BY <1>5, <1>15, <2>1, <2>2 DEF Placed, Inner
  <2>4. r[i].obj \in 1 .. Len(a.objs) /\ r[i].obj \in 1 .. Len(b.objs)
    BY <1>9, <1>10, <2>2, <2>3 DEF Placed
  <2>5. b.objs[r[i].obj] = os[r[i].obj]
    BY <1>9, <1>10, <2>4
  <2>6. Ahead(os[r[i].obj], r[i]) /\ Listing(os[r[i].obj], r[i])
    <3>1. CASE i = 1
      <4> DEFINE z == a.objs[Inner(a).obj]
                 y == os[Inner(a).obj]
                 cl == z.class
      <4>1. r[i] = f /\ r[i].obj = Inner(a).obj
        BY <1>5, <1>15, <3>1
      <4>2. /\ y.class = cl /\ cl \in Classes /\ Ahead(z, Inner(a)) /\ Whole(z)
            /\ Listing(z, Inner(a))
            /\ Inner(a).pos \in Nat
        BY <1>3, <1>4, <1>9, WriterIsAt DEF Less, Placed
      <4>3. /\ Inner(a).pos \in DOMAIN ReadLayout[cl]
            /\ ItemAt(a) = ReadLayout[cl][Inner(a).pos]
            /\ \A m \in Members(cl) : m # ItemAt(a).name => y.vals[m] = z.vals[m]
        BY <1>3, HungIs DEF Asks, InBody, BodyAt, ItemAt, os
      <4>4. ItemAt(a).kind = "sub" => f.pos = Inner(a).pos + 1
        <5>1. Framed(Inner(a)) /\ Inner(a).left \in Nat
          BY <1>4 DEF Placed
        <5>2. ItemAt(a).kind = "sub" => Inner(a).left = 0
          BY <4>2, <4>3, Zenon DEF Listing
        <5> QED
          BY <5>1, <5>2, PastIs DEF f
      <4> HIDE DEF z, y, cl
      <4>5. ASSUME NEW p \in DOMAIN ReadLayout[cl], p >= f.pos, ReadLayout[cl][p].kind = "sub"
            PROVE  y.vals[ReadLayout[cl][p].name] = NoObject
        <5>1. p \in Nat /\ p # Inner(a).pos /\ p >= Inner(a).pos
          BY <1>4, <1>5, <4>2, <4>3, <4>4, <4>5, BodyIs DEF Placed
        <5>2. ReadLayout[cl][p].name # ItemAt(a).name /\ ReadLayout[cl][p].name \in Members(cl)
          BY <4>2, <4>3, <5>1, BodyIs
        <5>3. z.vals[ReadLayout[cl][p].name] = NoObject
          BY <4>2, <4>5, <5>1, Zenon DEF Ahead, cl
        <5> QED
          BY <4>3, <5>2, <5>3
      <4>6. Listing(y, f)
        <5>1. CASE Inner(a).left > 1
          <6>1. f.pos = Inner(a).pos
            BY <1>4, <5>1, PastIs DEF Placed, f
          <6>2. Inner(a).left # 0
            BY <5>1
          <6>3. ReadLayout[cl][Inner(a).pos].kind = "list"
            BY <4>2, <6>2 DEF Listing, cl
          <6> QED
            BY <4>2, <4>3, <6>1, <6>3 DEF Listing
        <5>2. CASE ~(Inner(a).left > 1)
          <6>1. f.left = 0
            BY <1>4, <5>2, PastIs DEF Placed, f
          <6> QED
            BY <6>1 DEF Listing
        <5> QED
          BY <5>1, <5>2
      <4>7. Ahead(y, f)
        BY <4>2, <4>5 DEF Ahead
      <4> QED
        BY <4>1, <4>6, <4>7 DEF y
    <3>2. CASE i # 1
      BY <1>9, <1>15, <2>1, <2>2, <2>3, <3>2, <1>3, HungIs DEF Placed, os
    <3> QED
      BY <3>1, <3>2
  <2> QED
    BY <2>2, <2>3, <2>4, <2>5, <2>6 DEF Placed
<1>20. \A i \in 1 .. Len(st) : i = 1 \/ (i # 1 /\ i - 1 \in 1 .. Len(r) /\ (i - 1) + 1 = i)
  BY <1>4, <1>15, <1>18
<1>21. Placed(b, g) /\ Ahead(b.objs[g.obj], g) /\ Listing(b.objs[g.obj], g)
  <2>1. g.left = 0
    BY <1>16
  <2> QED
    BY <1>6, <1>9, <1>10, <1>17, <2>1 DEF Placed, Listing
<1>22. \A i \in 1 .. Len(st) : /\ Placed(b, st[i]) /\ Ahead(b.objs[st[i].obj], st[i])
                               /\ Listing(b.objs[st[i].obj], st[i])
  BY <1>18, <1>19, <1>20, <1>21
<1>23. \A i, j \in 1 .. Len(st) : i # j => st[i].obj # st[j].obj
  <2>1. \A i \in 1 .. Len(r) : r[i].obj # n
    BY <1>9, <1>19
  <2>2. \A i, j \in 1 .. Len(r) : i # j => r[i].obj # r[j].obj
    BY <1>15, <1>19 DEF Written
  <2> TAKE i, j \in 1 .. Len(st)
  <2>3. CASE i = 1 \/ j = 1
    <3>1. \A k \in 1 .. Len(st) : k # 1 => st[k].obj # n
      <4> TAKE k \in 1 .. Len(st)
      <4> HAVE k # 1
      <4>1. k - 1 \in 1 .. Len(r) /\ (k - 1) + 1 = k
        BY <1>20
      <4>2. st[k] = r[k - 1]
        BY <1>18, <4>1
      <4> QED
        BY <2>1, <4>1, <4>2
    <3>2. st[1].obj = n
      BY <1>17, <1>18
    <3> QED
      BY <2>3, <3>1, <3>2
  <2>4. CASE i # 1 /\ j # 1
    <3>1. /\ i - 1 \in 1 .. Len(r) /\ j - 1 \in 1 .. Len(r)
          /\ st[i] = r[i - 1] /\ st[j] = r[j - 1]
      BY <1>18, <1>20, <2>4
    <3>2. i # j => i - 1 # j - 1
      BY <1>18, <1>15, <1>4
    <3> QED
      BY <2>2, <3>1, <3>2
  <2> QED
    BY <2>3, <2>4
<1>24. AList(b.out)
  BY <1>8 DEF Prefix
<1> QED
  BY <1>2, <1>10, <1>12, <1>14, <1>18, <1>22, <1>23, <1>24 DEF Written

LEMMA StepIsWritten ==
  ASSUME NEW a, NEW b, Written(a), WriteStep(a, b)
  PROVE  Written(b) /\ Grows(a, b)
<1>1. a.stack # <<>>
  BY DEF WriteStep, FieldStep, NullStep, CountStep, ObjectStep, SkipStep, ReturnStep,
         Asks, InBody
<1>2. /\ Placed(a, Inner(a)) /\ AList(a.out) /\ AList(a.stack) /\ Len(a.stack) \in Nat
      /\ Listing(a.objs[Inner(a).obj], Inner(a))
  BY <1>1, WriterIsAt DEF Written
<1>3. Framed(Inner(a)) /\ Inner(a).pos \in Nat /\ Inner(a).left \in Nat
  BY <1>2 DEF Placed
<1> DEFINE p == Past(Inner(a))
<1>4. /\ Framed(p) /\ p.obj = Inner(a).obj /\ p.pos \in Nat /\ p.left \in Nat
      /\ p.pos >= Inner(a).pos /\ p.left = 0
  BY <1>3, PastIs
<1>5. Listing(a.objs[Inner(a).obj], p)
  BY <1>4 DEF Listing
<1>6. \A e : Prefix(a.out, Append(a.out, e))
  BY <1>2, PrefixAppend
<1>7. Prefix(a.out, a.out)
  BY <1>2, PrefixSame
<1>8. ASSUME NEW out, Prefix(a.out, out), b = Moment(a.objs, Continued(a, p), out)
      PROVE  Written(b) /\ Grows(a, b)
  <2> HIDE DEF p
  <2> QED
    BY <1>1, <1>4, <1>5, <1>8, OnwardStep
<1>9. CASE FieldStep(a, b)
  BY <1>6, <1>8, <1>9 DEF FieldStep
<1>10. CASE NullStep(a, b)
  BY <1>6, <1>8, <1>10 DEF NullStep
<1>11. CASE SkipStep(a, b)
  BY <1>7, <1>8, <1>11 DEF SkipStep
<1>12. CASE ObjectStep(a, b)
  BY <1>12, ObjectIsWritten
<1>13. CASE CountStep(a, b)
  <2>1. PICK n \in Nat :
          b = Moment(a.objs,
                     Continued(a, IF n = 0 THEN p ELSE [Inner(a) EXCEPT !.left = n]),
                     Append(a.out, Token("dword", "NPlt", n)))
    BY <1>13 DEF CountStep
  <2>2. CASE n = 0
    BY <1>6, <1>8, <2>1, <2>2
  <2>3. CASE n # 0
    <3> DEFINE f == [Inner(a) EXCEPT !.left = n]
    <3>1. f = [obj |-> Inner(a).obj, pos |-> Inner(a).pos, left |-> n, saved |-> Inner(a).saved]
      BY <1>3 DEF Framed
    <3>2. /\ Framed(f) /\ f.obj = Inner(a).obj /\ f.pos = Inner(a).pos /\ f.left = n
      BY <3>1 DEF Framed
    <3> HIDE DEF f
    <3>3. f.pos \in Nat /\ f.left \in Nat /\ f.pos >= Inner(a).pos
      BY <1>3, <3>2
    <3>4. Listing(a.objs[Inner(a).obj], f)
      BY <1>13, <3>2 DEF Listing, CountStep, Asks, InBody, ItemAt, BodyAt
    <3>5. b = Moment(a.objs, Continued(a, f), Append(a.out, Token("dword", "NPlt", n)))
      BY <2>1, <2>3 DEF f
    <3> QED
      BY <1>1, <1>6, <3>2, <3>3, <3>4, <3>5, OnwardStep
  <2> QED
    BY <2>2, <2>3
<1>14. CASE ReturnStep(a, b)
  <2> DEFINE r == Tail(a.stack)
  <2>1. b = Moment(a.objs, r, a.out)
    BY <1>14 DEF ReturnStep
  <2>2. Grows(a, b)
    BY <1>7, <2>1, GrowsOut
  <2>3. b.objs = a.objs /\ b.stack = r /\ b.out = a.out
    BY <2>1, MomentIs
  <2>4. AList(r) /\ Len(r) = Len(a.stack) - 1
        /\ \A i \in 1 .. Len(a.stack) - 1 : r[i] = a.stack[i + 1]
    BY <1>1, <1>2, Popped
  <2> HIDE DEF r
  <2>5. \A i \in 1 .. Len(r) : i \in Nat /\ i + 1 \in 1 .. Len(a.stack) /\ r[i] = a.stack[i + 1]
    BY <1>2, <2>4
  <2>6. \A i \in 1 .. Len(r) : /\ Placed(b, r[i]) /\ Ahead(b.objs[r[i].obj], r[i])
                               /\ Listing(b.objs[r[i].obj], r[i])
    BY <2>3, <2>5 DEF Written, Placed
  <2>7. \A i, j \in 1 .. Len(r) : i # j => i + 1 # j + 1
    BY <2>5
  <2>8. \A i, j \in 1 .. Len(r) : i # j => r[i].obj # r[j].obj
    BY <2>5, <2>7 DEF Written
  <2> QED
    BY <2>2, <2>3, <2>4, <2>6, <2>8 DEF Written
<1> QED
  BY <1>9, <1>10, <1>11, <1>12, <1>13, <1>14 DEF WriteStep

-----------------------------------------------------------------------------
(* The writing so far, moment by moment.                                   *)
History(W, K, now) ==
  /\ K \in Nat \ {0} /\ W[K] = now
  /\ \E c \in Classes, v \in Nat :
       /\ ~has_version => v = 0
       /\ W[1] = Moment(<<Record(1, c, v)>>, <<Frame(1, 0)>>, Header(1, c, v))
  /\ \A i \in 1 .. K : Written(W[i]) /\ Grows(W[i], now)
  /\ \A i \in 1 .. K - 1 : WriteStep(W[i], W[i + 1])

LEMMA HistoryBegins ==
  ASSUME NEW c \in Classes, NEW v \in Nat, ~has_version => v = 0, NEW now,
         now = Moment(<<Record(1, c, v)>>, <<Frame(1, 0)>>, Header(1, c, v))
  PROVE  Written(now) /\ \E W, K : History(W, K, now)
<1> DEFINE W == [i \in {1} |-> now]
<1>1. Written(now)
  BY FirstIsWritten
<1>2. Grows(now, now)
  BY <1>1, GrowsSame
<1>3. W[1] = now
  OBVIOUS
<1> HIDE DEF W
<1>4. \A i \in 1 .. 1 : i = 1
  OBVIOUS
<1>5. \A i \in 1 .. 1 - 1 : FALSE
  OBVIOUS
<1>6. \A i \in 1 .. 1 : Written(W[i]) /\ Grows(W[i], now)
  BY <1>1, <1>2, <1>3, <1>4
<1>7. \E c_1 \in Classes, v_1 \in Nat :
       /\ ~has_version => v_1 = 0
       /\ W[1] = Moment(<<Record(1, c_1, v_1)>>, <<Frame(1, 0)>>, Header(1, c_1, v_1))
  BY <1>3
<1>8. 1 \in Nat \ {0}
  OBVIOUS
<1>9. History(W, 1, now)
  BY <1>3, <1>5, <1>6, <1>7, <1>8, Zenon DEF History
<1> QED
  BY <1>1, <1>9

LEMMA HistoryGoesOn ==
  ASSUME NEW now, NEW next, NEW W, NEW K, History(W, K, now), WriteStep(now, next)
  PROVE  \E V : History(V, K + 1, next)
<1> DEFINE V == [i \in 1 .. K + 1 |-> IF i <= K THEN W[i] ELSE next]
<1>1. K \in Nat \ {0} /\ K + 1 \in Nat \ {0} /\ W[K] = now /\ Written(now)
      /\ (K + 1) - 1 = K /\ 1 \in 1 .. K + 1 /\ 1 <= K
  BY DEF History
<1>2. /\ \A i \in 1 .. K : V[i] = W[i]
      /\ V[K + 1] = next
  BY <1>1
<1>3. Written(next) /\ Grows(now, next)
  BY <1>1, StepIsWritten
<1> HIDE DEF V
<1>4. \A i \in 1 .. K + 1 : i \in 1 .. K \/ i = K + 1
  BY <1>1
<1>5. \A i \in 1 .. K : Written(W[i]) /\ Grows(W[i], now)
  BY DEF History
<1>6. \A i \in 1 .. K : Written(W[i]) /\ Grows(W[i], next)
  BY <1>3, <1>5, GrowsTrans
<1>7. Grows(next, next)
  BY <1>3, GrowsSame
<1>8. \A i \in 1 .. K + 1 : Written(V[i]) /\ Grows(V[i], next)
  BY <1>2, <1>3, <1>4, <1>6, <1>7
<1>9. ASSUME NEW i \in 1 .. K  PROVE WriteStep(V[i], V[i + 1])
  <2>1. CASE i = K
    BY <1>1, <1>2, <2>1
  <2>2. CASE i # K
    <3>1. i \in 1 .. K - 1 /\ i + 1 \in 1 .. K
      BY <1>1, <2>2
    <3>2. WriteStep(W[i], W[i + 1])
      BY <3>1 DEF History
    <3> QED
      BY <1>2, <3>1, <3>2
  <2> QED
    BY <2>1, <2>2
<1>10. V[1] = W[1]
  BY <1>1, <1>2
<1>11. \E c \in Classes, v \in Nat :
       /\ ~has_version => v = 0
       /\ V[1] = Moment(<<Record(1, c, v)>>, <<Frame(1, 0)>>, Header(1, c, v))
  BY <1>10 DEF History
<1>12. \A i \in 1 .. (K + 1) - 1 : WriteStep(V[i], V[i + 1])
  BY <1>1, <1>9
<1>13. History(V, K + 1, next)
  BY <1>1, <1>2, <1>8, <1>11, <1>12, Zenon DEF History
<1> QED
  BY <1>13

Now == Moment(objs, wstack, stream)

LEMMA NowIs == Now.objs = objs /\ Now.stack = wstack /\ Now.out = stream
  BY DEF Now, Moment

LEMMA WriteIsStep ==
  ASSUME BodiesAgree, Written(Now), Write
  PROVE  WriteStep(Now, Moment(objs', wstack', stream'))
<1> DEFINE a == Now
           b == Moment(objs', wstack', stream')
<1> SUFFICES WriteStep(a, b)
  OBVIOUS
<1>1. a.objs = objs /\ a.stack = wstack /\ a.out = stream
  BY NowIs
<1>2. wstack # <<>>
  BY DEF Write, WriteField, WriteNull, WriteCount, WriteObject, WriteSkip, WriteReturn, AtWrite
<1>3. Head(a.stack) = Inner(a) /\ a.stack # <<>>
  BY <1>1, <1>2, WriterIsAt
<1> HIDE DEF a
<1>4. WTop = Inner(a)
  BY <1>1, <1>3 DEF WTop
<1>5. WBody(WTop) = BodyAt(a)
  BY <1>1, <1>4 DEF WBody, BodyAt, BodiesAgree
<1>6. WItem = ItemAt(a)
  BY <1>4, <1>5 DEF WItem, ItemAt
<1>7. InBody(a) <=> WTop.pos \in DOMAIN WBody(WTop)
  BY <1>3, <1>4, <1>5 DEF InBody
<1>8. ASSUME NEW kinds, AtWrite(kinds)  PROVE Asks(a, kinds)
  BY <1>6, <1>7, <1>8 DEF AtWrite, Asks
<1>9. \A f : WContinue(f) => wstack' = Continued(a, f)
  BY <1>1 DEF WContinue, Continued
<1>10. ASSUME UNCHANGED objs  PROVE objs' = a.objs
  BY <1>1, <1>10
<1>11. CASE WriteField
  <2>1. /\ Asks(a, ScalarKinds) /\ objs' = a.objs
        /\ wstack' = Continued(a, Past(Inner(a)))
        /\ stream' = Append(a.out, Token(ItemAt(a).kind, ItemAt(a).tag,
                                         a.objs[Inner(a).obj].vals[ItemAt(a).name]))
    BY <1>1, <1>4, <1>6, <1>8, <1>9, <1>11 DEF WriteField, ScalarKinds
  <2> QED
    BY <2>1 DEF FieldStep, WriteStep
<1>12. CASE WriteNull
  <2>1. /\ Asks(a, {"sub"}) /\ objs' = a.objs
        /\ wstack' = Continued(a, Past(Inner(a)))
        /\ stream' = Append(a.out, ClassToken(NoClass))
    BY <1>1, <1>4, <1>8, <1>9, <1>12 DEF WriteNull
  <2> QED
    BY <2>1 DEF NullStep, WriteStep
<1>13. CASE WriteCount
  <2>1. PICK n \in 0 .. MaxItems :
          /\ stream' = Append(stream, Token("dword", "NPlt", n))
          /\ WContinue(IF n = 0 THEN Past(WTop) ELSE [WTop EXCEPT !.left = n])
    BY <1>13 DEF WriteCount
  <2>2. n \in Nat
    BY BoundAssumption
  <2>3. /\ Asks(a, {"list"}) /\ Inner(a).left = 0 /\ objs' = a.objs
        /\ stream' = Append(a.out, Token("dword", "NPlt", n))
    BY <1>1, <1>4, <1>8, <1>13, <2>1 DEF WriteCount
  <2>4. wstack' = Continued(a, IF n = 0 THEN Past(Inner(a)) ELSE [Inner(a) EXCEPT !.left = n])
    BY <1>4, <1>9, <2>1
  <2> QED
    BY <2>2, <2>3, <2>4, Zenon DEF CountStep, WriteStep
<1>14. CASE WriteObject
  <2> DEFINE n == Len(objs) + 1
  <2>1. PICK c \in Children, v \in RecordVersions :
          /\ objs' = Append(Linked(objs, WTop, WItem, n), Record(n, c, v))
          /\ stream' = stream \o Header(n, c, v)
          /\ wstack' = << Frame(n, 0), PastItem(WTop) >> \o Tail(wstack)
    BY <1>14 DEF WriteObject
  <2>2. c \in Classes /\ v \in Nat /\ (~has_version => v = 0)
    BY LayoutAssumption, BoundAssumption DEF RecordVersions
  <2>3. Asks(a, {"sub", "list"}) /\ (ItemAt(a).kind = "list" => Inner(a).left > 0)
    BY <1>4, <1>6, <1>8, <1>14 DEF WriteObject
  <2>4. AList(wstack)
    BY <1>1 DEF Written, a
  <2>5. AList(Tail(wstack))
    BY <1>2, <2>4, Popped
  <2>6. wstack' = <<Frame(n, 0)>> \o (<<PastItem(WTop)>> \o Tail(wstack))
    <3> DEFINE f == PastItem(WTop)
               g == Frame(n, 0)
               t == Tail(wstack)
    <3> HIDE DEF f, g, t
    <3>1. wstack' = <<g, f>> \o t
      BY <2>1 DEF f, g, t
    <3>2. wstack' = <<g>> \o (<<f>> \o t)
      BY <2>5, <3>1, PushedTogether DEF t
    <3> QED
      BY <3>2 DEF f, g, t
  <2>7. /\ objs' = Append(Hung(a), Record(Len(a.objs) + 1, c, v))
        /\ stream' = a.out \o Header(Len(a.objs) + 1, c, v)
        /\ wstack' = <<Frame(Len(a.objs) + 1, 0)>> \o Continued(a, PastItem(Inner(a)))
    BY <1>1, <1>4, <1>6, <2>1, <2>6 DEF Hung, Continued
  <2> QED
    BY <2>2, <2>3, <2>7, Zenon DEF ObjectStep, WriteStep
<1>15. CASE WriteSkip
  <2>1. /\ InBody(a) /\ ~Present(ItemAt(a), wversion) /\ objs' = a.objs /\ stream' = a.out
        /\ wstack' = Continued(a, Past(Inner(a)))
    BY <1>1, <1>4, <1>6, <1>7, <1>9, <1>15 DEF WriteSkip
  <2> QED
    BY <2>1 DEF SkipStep, WriteStep
<1>16. CASE WriteReturn
  <2>1. ~InBody(a) /\ objs' = a.objs /\ stream' = a.out /\ wstack' = Tail(a.stack)
    BY <1>1, <1>7, <1>16 DEF WriteReturn
  <2> QED
    BY <1>3, <2>1 DEF ReturnStep, WriteStep
<1> QED
  BY <1>11, <1>12, <1>13, <1>14, <1>15, <1>16 DEF Write

-----------------------------------------------------------------------------
(* Reading is writing over again: the same frames, the same objects, but   *)
(* for the fields not come to yet.                                         *)
Awaited(rs, n, c, m) ==
  \E j \in 1 .. Len(rs) :
    /\ rs[j].obj = n
    /\ \E p \in DOMAIN ReadLayout[c] : p >= rs[j].pos /\ ReadLayout[c][p].name = m

Like(o, r, n, rs) ==
  /\ Shaped(r) /\ r.class = o.class /\ r.vers = o.vers
  /\ r.vals = [m \in Members(o.class) |-> r.vals[m]]
  /\ \A m \in Members(o.class) :
       \/ r.vals[m] = o.vals[m]
       \/ Scalar(o.class, m) /\ r.vals[m] = Zero /\ Awaited(rs, n, o.class, m)

SameFrame(f, g) == Framed(g) /\ g.obj = f.obj /\ g.pos = f.pos /\ g.left = f.left

SameFrames(st, rs) ==
  /\ AList(st) /\ AList(rs) /\ Len(st) = Len(rs)
  /\ \A i \in 1 .. Len(rs) : SameFrame(st[i], rs[i])

Follows(a, ro, rs, cur) ==
  /\ cur = Len(a.out) /\ SameFrames(a.stack, rs)
  /\ AList(a.objs) /\ AList(ro) /\ Len(ro) = Len(a.objs)
  /\ \A n \in 1 .. Len(ro) : Like(a.objs[n], ro[n], n, rs)

LEMMA FollowerIsAt ==
  ASSUME NEW a, NEW ro, NEW rs, NEW cur, Follows(a, ro, rs, cur), Written(a), rs # <<>>
  PROVE  /\ a.stack # <<>> /\ 1 \in 1 .. Len(rs) /\ Head(rs) = rs[1]
         /\ SameFrame(Inner(a), rs[1]) /\ rs[1].obj \in 1 .. Len(ro)
         /\ ReadLayout[ro[rs[1].obj].class] = BodyAt(a)
         /\ Like(a.objs[rs[1].obj], ro[rs[1].obj], rs[1].obj, rs)
<1>1. /\ AList(a.stack) /\ AList(rs) /\ Len(a.stack) = Len(rs)
      /\ \A i \in 1 .. Len(rs) : SameFrame(a.stack[i], rs[i])
  BY DEF Follows, SameFrames
<1>2. a.stack # <<>> /\ 1 \in 1 .. Len(rs) /\ Head(rs) = rs[1]
  BY <1>1, ListIs, Popped
<1>3. SameFrame(Inner(a), rs[1])
  BY <1>1, <1>2 DEF Inner
<1>4. Placed(a, Inner(a))
  BY <1>2, WriterIsAt
<1>5. rs[1].obj = Inner(a).obj /\ rs[1].obj \in 1 .. Len(ro)
  BY <1>3, <1>4 DEF Placed, SameFrame, Follows
<1>6. Like(a.objs[rs[1].obj], ro[rs[1].obj], rs[1].obj, rs)
  BY <1>5 DEF Follows
<1>7. ro[rs[1].obj].class = a.objs[Inner(a).obj].class
  BY <1>5, <1>6 DEF Like
<1> QED
  BY <1>2, <1>3, <1>5, <1>6, <1>7 DEF BodyAt

LEMMA FramesOnward ==
  ASSUME NEW st, NEW rs, SameFrames(st, rs), rs # <<>>, NEW f, NEW g, SameFrame(f, g)
  PROVE  SameFrames(<<f>> \o Tail(st), <<g>> \o Tail(rs))
<1> DEFINE s == <<f>> \o Tail(st)
           r == <<g>> \o Tail(rs)
<1>1. AList(st) /\ AList(rs) /\ Len(st) = Len(rs) /\ Len(rs) \in Nat /\ Len(rs) > 0 /\ st # <<>>
  BY ListIs DEF SameFrames
<1>2. /\ AList(s) /\ Len(s) = Len(st) /\ s[1] = f
      /\ \A i \in 1 .. Len(st) : i # 1 => s[i] = st[i]
  BY <1>1, Replaced
<1>3. /\ AList(r) /\ Len(r) = Len(rs) /\ r[1] = g
      /\ \A i \in 1 .. Len(rs) : i # 1 => r[i] = rs[i]
  BY <1>1, Replaced
<1> HIDE DEF s, r
<1>4. \A i \in 1 .. Len(r) : SameFrame(s[i], r[i])
  BY <1>1, <1>2, <1>3 DEF SameFrames
<1>5. SameFrames(s, r)
  BY <1>1, <1>2, <1>3, <1>4 DEF SameFrames
<1> QED
  BY <1>5 DEF s, r

LEMMA FramesPushed ==
  ASSUME NEW st, NEW rs, SameFrames(st, rs), NEW f, NEW g, SameFrame(f, g)
  PROVE  SameFrames(<<f>> \o st, <<g>> \o rs)
<1> DEFINE q == <<f>> \o st
           r == <<g>> \o rs
<1>1. AList(st) /\ AList(rs) /\ Len(st) = Len(rs) /\ Len(rs) \in Nat
  BY ListIs DEF SameFrames
<1>2. /\ AList(q) /\ Len(q) = Len(st) + 1 /\ q[1] = f
      /\ \A i \in 1 .. Len(st) : q[i + 1] = st[i]
  <2>1. AList(st)
    BY <1>1
  <2> QED
    BY <2>1, Pushed
<1>3. /\ AList(r) /\ Len(r) = Len(rs) + 1 /\ r[1] = g
      /\ \A i \in 1 .. Len(rs) : r[i + 1] = rs[i]
  BY <1>1, Pushed
<1> HIDE DEF q, r
<1>4. ASSUME NEW i \in 1 .. Len(r)  PROVE SameFrame(q[i], r[i])
  <2>1. CASE i = 1
    BY <1>2, <1>3, <2>1
  <2>2. CASE i # 1
    <3>1. i - 1 \in 1 .. Len(rs) /\ (i - 1) + 1 = i
      BY <1>1, <1>3, <2>2
    <3>2. q[i] = st[i - 1] /\ r[i] = rs[i - 1]
      BY <1>1, <1>2, <1>3, <3>1
    <3> QED
      BY <3>1, <3>2 DEF SameFrames
  <2> QED
    BY <2>1, <2>2
<1>5. SameFrames(q, r)
  BY <1>1, <1>2, <1>3, <1>4 DEF SameFrames
<1> QED
  BY <1>5 DEF q, r

LEMMA FramesPopped ==
  ASSUME NEW st, NEW rs, SameFrames(st, rs), rs # <<>>
  PROVE  SameFrames(Tail(st), Tail(rs))
<1>1. AList(st) /\ AList(rs) /\ Len(st) = Len(rs) /\ Len(rs) \in Nat /\ st # <<>>
  BY ListIs DEF SameFrames
<1>2. /\ AList(Tail(st)) /\ Len(Tail(st)) = Len(st) - 1
      /\ \A i \in 1 .. Len(st) - 1 : Tail(st)[i] = st[i + 1]
  BY <1>1, Popped
<1>3. /\ AList(Tail(rs)) /\ Len(Tail(rs)) = Len(rs) - 1
      /\ \A i \in 1 .. Len(rs) - 1 : Tail(rs)[i] = rs[i + 1]
  BY <1>1, Popped
<1>4. \A i \in 1 .. Len(rs) - 1 : i + 1 \in 1 .. Len(rs)
  BY <1>1
<1>5. \A i \in 1 .. Len(Tail(rs)) : SameFrame(Tail(st)[i], Tail(rs)[i])
  BY <1>1, <1>2, <1>3, <1>4 DEF SameFrames
<1> QED
  BY <1>1, <1>2, <1>3, <1>5 DEF SameFrames

(* What is awaited stays awaited until it has been read.                   *)
LEMMA AwaitedOnward ==
  ASSUME NEW rs, AList(rs), rs # <<>>, NEW g, g.obj = rs[1].obj, NEW n, NEW c, NEW m,
         Awaited(rs, n, c, m),
         n = rs[1].obj => \A p \in DOMAIN ReadLayout[c] :
                            p >= rs[1].pos /\ ReadLayout[c][p].name = m => p >= g.pos
  PROVE  Awaited(<<g>> \o Tail(rs), n, c, m)
<1> DEFINE r == <<g>> \o Tail(rs)
<1>1. /\ AList(r) /\ Len(r) = Len(rs) /\ r[1] = g
      /\ \A i \in 1 .. Len(rs) : i # 1 => r[i] = rs[i]
  BY Replaced
<1> HIDE DEF r
<1>2. PICK j \in 1 .. Len(rs) :
        /\ rs[j].obj = n
        /\ \E p \in DOMAIN ReadLayout[c] : p >= rs[j].pos /\ ReadLayout[c][p].name = m
  BY DEF Awaited
<1>3. PICK p \in DOMAIN ReadLayout[c] : p >= rs[j].pos /\ ReadLayout[c][p].name = m
  BY <1>2
<1>4. r[j].obj = n /\ p >= r[j].pos
  BY <1>1, <1>2, <1>3
<1>5. Awaited(r, n, c, m)
  BY <1>1, <1>3, <1>4 DEF Awaited
<1> QED
  BY <1>5 DEF r

LEMMA AwaitedPushed ==
  ASSUME NEW rs, AList(rs), NEW g, NEW n, NEW c, NEW m, Awaited(rs, n, c, m)
  PROVE  Awaited(<<g>> \o rs, n, c, m)
<1> DEFINE r == <<g>> \o rs
<1>1. AList(r) /\ Len(r) = Len(rs) + 1 /\ \A i \in 1 .. Len(rs) : r[i + 1] = rs[i]
  BY Pushed
<1> HIDE DEF r
<1>2. PICK j \in 1 .. Len(rs) :
        /\ rs[j].obj = n
        /\ \E p \in DOMAIN ReadLayout[c] : p >= rs[j].pos /\ ReadLayout[c][p].name = m
  BY DEF Awaited
<1>3. j + 1 \in 1 .. Len(r) /\ r[j + 1] = rs[j]
  BY <1>1, ListIs
<1>4. Awaited(r, n, c, m)
  BY <1>2, <1>3 DEF Awaited
<1> QED
  BY <1>4 DEF r

LEMMA AwaitedPopped ==
  ASSUME NEW rs, AList(rs), rs # <<>>, NEW n, NEW c, NEW m, Awaited(rs, n, c, m),
         n = rs[1].obj => \A p \in DOMAIN ReadLayout[c] : ~(p >= rs[1].pos)
  PROVE  Awaited(Tail(rs), n, c, m)
<1>1. /\ Len(Tail(rs)) = Len(rs) - 1 /\ Len(rs) \in Nat
      /\ \A i \in 1 .. Len(rs) - 1 : Tail(rs)[i] = rs[i + 1]
  BY Popped, ListIs
<1>2. PICK j \in 1 .. Len(rs) :
        /\ rs[j].obj = n
        /\ \E p \in DOMAIN ReadLayout[c] : p >= rs[j].pos /\ ReadLayout[c][p].name = m
  BY DEF Awaited
<1>3. j # 1
  BY <1>2
<1>4. j - 1 \in 1 .. Len(rs) - 1 /\ (j - 1) + 1 = j
  BY <1>1, <1>3
<1>5. j - 1 \in 1 .. Len(Tail(rs)) /\ Tail(rs)[j - 1] = rs[j]
  BY <1>1, <1>4
<1> QED
  BY <1>2, <1>5 DEF Awaited

(* o and r become y and z: alike in the member m0, otherwise what they were.*)
Settled(o, r, y, z, m0) ==
  /\ y.class = o.class /\ y.vers = o.vers
  /\ Shaped(z) /\ z.class = r.class /\ z.vers = r.vers
  /\ z.vals = [m \in Members(o.class) |-> z.vals[m]]
  /\ \A m \in Members(o.class) : m # m0 => z.vals[m] = r.vals[m] /\ y.vals[m] = o.vals[m]
  /\ z.vals[m0] = y.vals[m0]

LEMMA LikeOnward ==
  ASSUME NEW rs, AList(rs), rs # <<>>, NEW n, n = rs[1].obj,
         NEW o, NEW r, Like(o, r, n, rs), o.class \in Classes,
         NEW k, k = rs[1].pos, k \in DOMAIN ReadLayout[o.class],
         NEW m0, m0 = ReadLayout[o.class][k].name,
         NEW g, g.obj = n, g.pos = k \/ g.pos = k + 1,
         NEW y, NEW z, Settled(o, r, y, z, m0)
  PROVE  Like(y, z, n, <<g>> \o Tail(rs))
<1> DEFINE c == o.class
           t == <<g>> \o Tail(rs)
<1>1. z.class = y.class /\ z.vers = y.vers /\ y.class = c
  BY DEF Like, Settled
<1>2. ASSUME NEW m \in Members(c)
      PROVE  \/ z.vals[m] = y.vals[m]
             \/ Scalar(c, m) /\ z.vals[m] = Zero /\ Awaited(t, n, c, m)
  <2>1. CASE m = m0
    BY <2>1 DEF Settled
  <2>2. CASE m # m0
    <3>1. z.vals[m] = r.vals[m] /\ y.vals[m] = o.vals[m]
      BY <2>2 DEF Settled
    <3>2. CASE r.vals[m] = o.vals[m]
      BY <3>1, <3>2
    <3>3. CASE Scalar(c, m) /\ r.vals[m] = Zero /\ Awaited(rs, n, c, m)
      <4>1. ASSUME NEW p \in DOMAIN ReadLayout[c], p >= rs[1].pos, ReadLayout[c][p].name = m
            PROVE  p >= g.pos
        <5>1. p \in Nat /\ k \in Nat /\ p # k
          BY <2>2, <4>1, BodyIs
        <5>2. p >= k
          BY <4>1
        <5> QED
          BY <5>1, <5>2
      <4>2. Awaited(t, n, c, m)
        BY <3>3, <4>1, AwaitedOnward
      <4> QED
        BY <3>1, <3>3, <4>2
    <3> QED
      BY <3>2, <3>3 DEF Like
  <2> QED
    BY <2>1, <2>2
<1> HIDE DEF t
<1>3. Like(y, z, n, t)
  BY <1>1, <1>2 DEF Like, Settled
<1> QED
  BY <1>3 DEF t

Elsewhere(os, ps, n0) ==
  /\ AList(ps) /\ Len(ps) = Len(os)
  /\ \A n \in 1 .. Len(os) : n # n0 => ps[n] = os[n]

LEMMA FollowsOnward ==
  ASSUME NEW a, NEW ro, NEW rs, NEW cur, Follows(a, ro, rs, cur), Written(a), rs # <<>>,
         InBody(a),
         NEW f, NEW g, SameFrame(f, g), g.obj = rs[1].obj,
         g.pos = rs[1].pos \/ g.pos = rs[1].pos + 1,
         NEW os, NEW po, NEW n0, n0 = rs[1].obj,
         Elsewhere(a.objs, os, n0), Elsewhere(ro, po, n0),
         Settled(a.objs[n0], ro[n0], os[n0], po[n0], ItemAt(a).name),
         NEW out
  PROVE  Follows(Moment(os, Continued(a, f), out), po, <<g>> \o Tail(rs), Len(out))
<1> DEFINE t == <<g>> \o Tail(rs)
           k == rs[1].pos
           b == Moment(os, Continued(a, f), out)
           o == a.objs[n0]
           r == ro[n0]
           c == o.class
<1>1. /\ SameFrame(Inner(a), rs[1]) /\ n0 \in 1 .. Len(ro)
      /\ Like(o, r, n0, rs)
      /\ a.stack # <<>>
  BY FollowerIsAt
<1>2. SameFrames(a.stack, rs) /\ AList(rs) /\ AList(a.objs) /\ AList(ro) /\ Len(ro) = Len(a.objs)
  BY DEF Follows, SameFrames
<1>3. /\ Inner(a).obj = n0 /\ Inner(a).pos = k
  BY <1>1 DEF SameFrame
<1>4. c \in Classes
  BY <1>1, <1>3, WriterIsAt
<1>5. /\ k \in DOMAIN ReadLayout[c] /\ ItemAt(a).name = ReadLayout[c][k].name
  BY <1>3 DEF InBody, ItemAt, BodyAt
<1>6. SameFrames(Continued(a, f), t)
  BY <1>2, FramesOnward DEF Continued
<1> DEFINE y == os[n0]
           z == po[n0]
           m0 == ItemAt(a).name
<1>7. Like(y, z, n0, t)
  <2>1. Settled(o, r, y, z, m0) /\ m0 = ReadLayout[o.class][k].name
    BY <1>5
  <2>2. k = rs[1].pos /\ (g.pos = k \/ g.pos = k + 1) /\ g.obj = n0 /\ n0 = rs[1].obj
    OBVIOUS
  <2>3. Like(o, r, n0, rs) /\ o.class \in Classes /\ k \in DOMAIN ReadLayout[o.class] /\ AList(rs)
    BY <1>1, <1>2, <1>4, <1>5
  <2> HIDE DEF o, r, y, z, m0, k
  <2> QED
    BY <2>1, <2>2, <2>3, LikeOnward
<1> HIDE DEF t
<1>8. ASSUME NEW n \in 1 .. Len(po)  PROVE Like(os[n], po[n], n, t)
  <2>1. CASE n = n0
    BY <1>7, <2>1
  <2>2. CASE n # n0
    <3>1. n \in 1 .. Len(ro) /\ n \in 1 .. Len(a.objs)
      BY <1>2 DEF Elsewhere
    <3>2. os[n] = a.objs[n] /\ po[n] = ro[n]
      BY <2>2, <3>1 DEF Elsewhere
    <3>3. Like(a.objs[n], ro[n], n, rs)
      BY <3>1 DEF Follows
    <3>4. \A m : Awaited(rs, n, a.objs[n].class, m) => Awaited(t, n, a.objs[n].class, m)
      BY <1>2, <2>2, AwaitedOnward DEF t
    <3>5. Like(a.objs[n], ro[n], n, t)
      BY <3>3, <3>4 DEF Like
    <3> QED
      BY <3>2, <3>5
  <2> QED
    BY <2>1, <2>2
<1>9. b.objs = os /\ b.stack = Continued(a, f) /\ b.out = out
  BY DEF Moment
<1> HIDE DEF b
<1>10. AList(os) /\ AList(po) /\ Len(po) = Len(os)
  BY <1>2 DEF Elsewhere
<1>11. Follows(b, po, t, Len(out))
  BY <1>6, <1>8, <1>9, <1>10 DEF Follows
<1> QED
  BY <1>11 DEF b, t

LEMMA FollowsPushed ==
  ASSUME NEW a, NEW ro, NEW rs, NEW cur, Follows(a, ro, rs, cur),
         NEW c \in Classes, NEW v, ~has_version => v = 0, NEW out,
         NEW f, f = Frame(Len(a.objs) + 1, 0), NEW g, NEW saved, g = Frame(Len(ro) + 1, saved)
  PROVE  Follows(Moment(Append(a.objs, Record(Len(a.objs) + 1, c, v)), <<f>> \o a.stack, out),
                 Append(ro, NewObject(c, v)), <<g>> \o rs, Len(out))
<1> DEFINE n == Len(a.objs) + 1
           o == Record(n, c, v)
           r == NewObject(c, v)
           os == Append(a.objs, o)
           po == Append(ro, r)
           t == <<g>> \o rs
           b == Moment(os, <<f>> \o a.stack, out)
<1>1. /\ AList(a.objs) /\ AList(ro) /\ Len(ro) = Len(a.objs) /\ Len(ro) \in Nat
      /\ SameFrames(a.stack, rs) /\ AList(rs)
  BY ListIs DEF Follows, SameFrames
<1>2. /\ f = [obj |-> n, pos |-> 1, left |-> 0, saved |-> 0]
      /\ g = [obj |-> n, pos |-> 1, left |-> 0, saved |-> saved]
  BY <1>1 DEF Frame
<1>3. SameFrame(f, g) /\ g.obj = n /\ g.pos = 1
  BY <1>2 DEF SameFrame, Framed
<1>4. SameFrames(<<f>> \o a.stack, t)
  BY <1>1, <1>3, FramesPushed
<1>5. /\ Whole(o) /\ o.class = c /\ o.vers = v
      /\ \A m \in Members(c) : /\ IsList(c, m) => o.vals[m] = <<>>
                               /\ IsPointer(c, m) => o.vals[m] = NoObject
  BY RecordIs
<1>6. Shaped(r) /\ r.class = c /\ r.vers = v /\ r.vals = Blank(c)
  BY DEF NewObject, Shaped
<1> HIDE DEF o, r
<1>7. /\ AList(os) /\ Len(os) = n /\ os[n] = o
      /\ \A i \in 1 .. Len(a.objs) : os[i] = a.objs[i]
  BY <1>1, Appended
<1>8. /\ AList(po) /\ Len(po) = n /\ po[n] = r
      /\ \A i \in 1 .. Len(ro) : po[i] = ro[i]
  BY <1>1, Appended
<1>9. /\ Len(t) = Len(rs) + 1 /\ t[1] = g /\ Len(rs) \in Nat
  BY <1>1, Pushed, ListIs
<1>10. \A m : \A i \in 1 .. Len(ro) :
         Awaited(rs, i, ro[i].class, m) => Awaited(t, i, ro[i].class, m)
  BY <1>1, AwaitedPushed
<1> HIDE DEF os, po, t
<1>11. Like(o, r, n, t)
  <2>1. /\ r.vals = [m \in Members(c) |-> r.vals[m]]
        /\ \A m \in Members(c) : /\ IsList(c, m) => r.vals[m] = <<>>
                                 /\ IsPointer(c, m) => r.vals[m] = NoObject
                                 /\ Scalar(c, m) => r.vals[m] = Zero
    BY <1>6, BlankIs
  <2>2. ASSUME NEW m \in Members(c)  PROVE Awaited(t, n, c, m)
    <3>1. PICK p \in DOMAIN ReadLayout[c] : p >= 1 /\ ReadLayout[c][p].name = m
      BY MembersAreRead
    <3>2. 1 \in 1 .. Len(t)
      BY <1>9
    <3> QED
      BY <1>3, <1>9, <3>1, <3>2 DEF Awaited
  <2>3. \A m \in Members(c) : \/ r.vals[m] = o.vals[m]
                              \/ Scalar(c, m) /\ r.vals[m] = Zero /\ Awaited(t, n, c, m)
    BY <1>5, <2>1, <2>2 DEF Scalar
  <2> QED
    BY <1>5, <1>6, <2>1, <2>3 DEF Like
<1>12. ASSUME NEW i \in 1 .. Len(po)  PROVE Like(os[i], po[i], i, t)
  <2>1. CASE i = n
    BY <1>7, <1>8, <1>11, <2>1
  <2>2. CASE i # n
    <3>1. i \in 1 .. Len(ro) /\ i \in 1 .. Len(a.objs)
      BY <1>1, <1>8, <2>2
    <3>2. Like(a.objs[i], ro[i], i, rs)
      BY <3>1 DEF Follows
    <3>3. Like(a.objs[i], ro[i], i, t)
      BY <1>10, <3>1, <3>2 DEF Like
    <3> QED
      BY <1>7, <1>8, <3>1, <3>3
  <2> QED
    BY <2>1, <2>2
<1>13. b.objs = os /\ b.stack = <<f>> \o a.stack /\ b.out = out
  BY DEF Moment
<1> HIDE DEF b
<1>14. Follows(b, po, t, Len(out))
  BY <1>4, <1>7, <1>8, <1>12, <1>13 DEF Follows
<1> QED
  BY <1>14 DEF b, os, po, t, o, r

LEMMA PastSame ==
  ASSUME NEW f, NEW g, Framed(f), SameFrame(f, g), f.left \in Nat
  PROVE  /\ SameFrame(Past(f), Past(g)) /\ Past(g).obj = g.obj /\ Past(g).pos = g.pos + 1
         /\ SameFrame(PastItem(f), PastItem(g)) /\ PastItem(g).obj = g.obj
         /\ PastItem(g).pos = g.pos \/ PastItem(g).pos = g.pos + 1
<1>1. Framed(g) /\ g.obj = f.obj /\ g.pos = f.pos /\ g.left = f.left
  BY DEF SameFrame
<1>2. /\ Past(f).obj = f.obj /\ Past(f).pos = f.pos + 1 /\ Past(f).left = 0
      /\ PastItem(f).obj = f.obj
      /\ f.left > 1 => PastItem(f).pos = f.pos /\ PastItem(f).left = f.left - 1
      /\ ~(f.left > 1) => PastItem(f).pos = f.pos + 1 /\ PastItem(f).left = 0
  BY PastIs
<1>3. /\ Framed(Past(g)) /\ Past(g).obj = g.obj /\ Past(g).pos = g.pos + 1 /\ Past(g).left = 0
      /\ Framed(PastItem(g)) /\ PastItem(g).obj = g.obj
      /\ g.left > 1 => PastItem(g).pos = g.pos /\ PastItem(g).left = g.left - 1
      /\ ~(g.left > 1) => PastItem(g).pos = g.pos + 1 /\ PastItem(g).left = 0
  BY <1>1, PastIs
<1> QED
  BY <1>1, <1>2, <1>3 DEF SameFrame

(* The member the bodies are at: its class, and both values of it.         *)
LEMMA MemberAt ==
  ASSUME NEW a, NEW ro, NEW rs, NEW cur, Follows(a, ro, rs, cur), Written(a), rs # <<>>,
         InBody(a), NEW n0, n0 = rs[1].obj
  PROVE  /\ n0 \in 1 .. Len(ro) /\ n0 \in 1 .. Len(a.objs) /\ n0 = Inner(a).obj
         /\ AList(ro) /\ AList(a.objs) /\ AList(rs) /\ Len(ro) = Len(a.objs)
         /\ SameFrame(Inner(a), rs[1]) /\ Placed(a, Inner(a))
         /\ Like(a.objs[n0], ro[n0], n0, rs) /\ Whole(a.objs[n0])
         /\ ItemAt(a).name \in Members(a.objs[n0].class)
         /\ ItemOf(a.objs[n0].class, ItemAt(a).name) = ItemAt(a)
         /\ IsList(a.objs[n0].class, ItemAt(a).name) <=> ItemAt(a).kind = "list"
         /\ IsPointer(a.objs[n0].class, ItemAt(a).name) <=> ItemAt(a).kind = "sub"
         /\ Scalar(a.objs[n0].class, ItemAt(a).name) <=> ItemAt(a).kind \in ScalarKinds
<1>1. /\ SameFrame(Inner(a), rs[1]) /\ n0 \in 1 .. Len(ro) /\ a.stack # <<>>
      /\ Like(a.objs[n0], ro[n0], n0, rs)
  BY FollowerIsAt
<1>2. AList(ro) /\ AList(a.objs) /\ AList(rs) /\ Len(ro) = Len(a.objs)
  BY DEF Follows, SameFrames
<1>3. n0 = Inner(a).obj
  BY <1>1 DEF SameFrame
<1>4. Whole(a.objs[n0]) /\ a.objs[n0].class \in Classes /\ Placed(a, Inner(a))
  BY <1>1, <1>3, WriterIsAt
<1> DEFINE c == a.objs[n0].class
           k == Inner(a).pos
           item == ItemAt(a)
<1>5. k \in DOMAIN ReadLayout[c] /\ item = ReadLayout[c][k]
  BY <1>3 DEF InBody, ItemAt, BodyAt
<1> HIDE DEF c, k, item
<1>6. c \in Classes
  BY <1>4 DEF c
<1>7. /\ item.name \in Members(c) /\ ItemOf(c, item.name) = item
      /\ IsList(c, item.name) <=> item.kind = "list"
      /\ IsPointer(c, item.name) <=> item.kind = "sub"
      /\ Scalar(c, item.name) <=> item.kind \in ScalarKinds
  BY <1>5, <1>6, BodyIs
<1> QED
  BY <1>1, <1>2, <1>3, <1>4, <1>7 DEF c, item

LEMMA FollowPlain ==
  ASSUME NEW a, NEW ro, NEW rs, NEW cur, Follows(a, ro, rs, cur), Written(a), rs # <<>>,
         InBody(a), NEW n0, n0 = rs[1].obj,
         ItemAt(a).kind \in ScalarKinds => ~Present(ItemAt(a), OwnVersion(a.objs[n0].vers)),
         NEW f, NEW g, SameFrame(f, g), g.obj = n0,
         g.pos = rs[1].pos \/ g.pos = rs[1].pos + 1, NEW out
  PROVE  Follows(Moment(a.objs, Continued(a, f), out), ro, <<g>> \o Tail(rs), Len(out))
<1> DEFINE o == a.objs[n0]
           r == ro[n0]
           c == o.class
           m0 == ItemAt(a).name
<1>1. /\ AList(ro) /\ AList(a.objs)
      /\ Like(o, r, n0, rs) /\ Whole(o)
      /\ m0 \in Members(c)
      /\ ItemOf(c, m0) = ItemAt(a)
      /\ Scalar(c, m0) <=> ItemAt(a).kind \in ScalarKinds
  BY MemberAt
<1>2. r.vals[m0] = o.vals[m0]
  <2>1. Scalar(c, m0) => o.vals[m0] = Zero
    BY <1>1 DEF Whole
  <2> QED
    BY <1>1, <2>1 DEF Like
<1>3. Settled(o, r, o, r, m0)
  BY <1>1, <1>2, Zenon DEF Settled, Like
<1>4. Elsewhere(a.objs, a.objs, n0) /\ Elsewhere(ro, ro, n0)
  BY <1>1 DEF Elsewhere
<1>5. Settled(a.objs[n0], ro[n0], a.objs[n0], ro[n0], ItemAt(a).name)
  BY <1>3
<1> HIDE DEF o, r, m0, c
<1> QED
  BY <1>4, <1>5, FollowsOnward

LEMMA FollowField ==
  ASSUME NEW a, NEW b, NEW ro, NEW rs, NEW cur, Follows(a, ro, rs, cur), Written(a),
         rs # <<>>, FieldStep(a, b), NEW n0, n0 = rs[1].obj
  PROVE  Follows(b, SetTo(ro, n0, ItemAt(a).name, a.objs[n0].vals[ItemAt(a).name]),
                 <<Past(rs[1])>> \o Tail(rs), cur + 1)
<1> DEFINE o == a.objs[n0]
           r == ro[n0]
           c == o.class
           m0 == ItemAt(a).name
           po == SetTo(ro, n0, m0, o.vals[m0])
           z == po[n0]
           e == Token(ItemAt(a).kind, ItemAt(a).tag, o.vals[m0])
           out == Append(a.out, e)
<1>1. InBody(a)
  BY DEF FieldStep, Asks
<1>2. /\ AList(ro) /\ AList(a.objs) /\ n0 \in 1 .. Len(ro) /\ n0 = Inner(a).obj
      /\ SameFrame(Inner(a), rs[1]) /\ Placed(a, Inner(a))
      /\ Like(o, r, n0, rs) /\ m0 \in Members(c)
  BY <1>1, MemberAt
<1>3. b = Moment(a.objs, Continued(a, Past(Inner(a))), out)
  BY <1>2 DEF FieldStep
<1>4. /\ SameFrame(Past(Inner(a)), Past(rs[1])) /\ Past(rs[1]).obj = n0
      /\ Past(rs[1]).pos = rs[1].pos + 1
  BY <1>2, PastSame DEF Placed
<1>5. /\ Shaped(r) /\ r.class = c /\ r.vals = [m \in Members(c) |-> r.vals[m]]
  BY <1>2 DEF Like
<1>6. DOMAIN r.vals = Members(c)
  BY <1>5
<1>7. /\ AList(po) /\ Len(po) = Len(ro)
      /\ \A i \in 1 .. Len(ro) : i # n0 => po[i] = ro[i]
      /\ Shaped(z) /\ z.class = r.class /\ z.vers = r.vers
      /\ z.vals[m0] = o.vals[m0]
      /\ \A m \in Members(c) : m # m0 => z.vals[m] = r.vals[m]
  <2> DEFINE x == o.vals[m0]
  <2>1. Shaped(ro[n0]) /\ po = SetTo(ro, n0, m0, x) /\ m0 \in DOMAIN ro[n0].vals
        /\ DOMAIN ro[n0].vals = Members(c)
    BY <1>2, <1>5, <1>6
  <2> HIDE DEF x, po, m0, c
  <2>2. /\ AList(po) /\ Len(po) = Len(ro)
        /\ \A i \in 1 .. Len(ro) : i # n0 => po[i] = ro[i]
        /\ Shaped(po[n0]) /\ po[n0].class = ro[n0].class /\ po[n0].vers = ro[n0].vers
        /\ m0 \in DOMAIN ro[n0].vals => po[n0].vals[m0] = x
        /\ \A m \in DOMAIN ro[n0].vals : m # m0 => po[n0].vals[m] = ro[n0].vals[m]
    BY <1>2, <2>1, MemberAssigned
  <2> QED
    BY <2>1, <2>2 DEF x
<1>8. z.vals = [m \in Members(c) |-> z.vals[m]]
  <2>1. z = [r EXCEPT !.vals[m0] = o.vals[m0]]
    BY <1>2, ListIs DEF SetTo
  <2>2. z.vals = [r.vals EXCEPT ![m0] = o.vals[m0]]
    BY <1>5, <2>1 DEF Shaped
  <2> QED
    BY <1>5, <2>2
<1> HIDE DEF po
<1>9. Settled(o, r, o, z, m0)
  BY <1>7, <1>8, Zenon DEF Settled
<1>10. Elsewhere(a.objs, a.objs, n0) /\ Elsewhere(ro, po, n0)
  BY <1>2, <1>7 DEF Elsewhere
<1>11. Settled(a.objs[n0], ro[n0], a.objs[n0], po[n0], ItemAt(a).name)
  BY <1>9
<1>12. Len(out) = cur + 1
  BY Appended DEF Follows, Written
<1> HIDE DEF o, r, m0, c, z, out
<1>13. Follows(Moment(a.objs, Continued(a, Past(Inner(a))), out), po,
               <<Past(rs[1])>> \o Tail(rs), Len(out))
  BY <1>1, <1>4, <1>10, <1>11, FollowsOnward
<1>14. Follows(b, po, <<Past(rs[1])>> \o Tail(rs), cur + 1)
  BY <1>3, <1>12, <1>13
<1> QED
  BY <1>14 DEF po, o, m0

LEMMA FollowHung ==
  ASSUME NEW a, NEW ro, NEW rs, NEW cur, Follows(a, ro, rs, cur), Written(a),
         rs # <<>>, Asks(a, {"sub", "list"}), NEW n0, n0 = rs[1].obj
  PROVE  /\ Follows(Moment(Hung(a), Continued(a, PastItem(Inner(a))), a.out),
                    Linked(ro, rs[1], ItemAt(a), Len(ro) + 1),
                    <<PastItem(rs[1])>> \o Tail(rs), cur)
         /\ Len(Linked(ro, rs[1], ItemAt(a), Len(ro) + 1)) = Len(ro)
         /\ Len(Hung(a)) = Len(a.objs)
<1> DEFINE o == a.objs[n0]
           r == ro[n0]
           c == o.class
           m0 == ItemAt(a).name
           x == LinkValue(ro, rs[1], ItemAt(a), Len(ro) + 1)
           po == Linked(ro, rs[1], ItemAt(a), Len(ro) + 1)
           os == Hung(a)
           y == os[n0]
           z == po[n0]
<1>1. InBody(a) /\ (ItemAt(a).kind = "sub" \/ ItemAt(a).kind = "list")
  BY DEF Asks
<1>2. /\ AList(ro) /\ AList(a.objs) /\ n0 \in 1 .. Len(ro) /\ n0 = Inner(a).obj
      /\ n0 \in 1 .. Len(a.objs) /\ Len(ro) = Len(a.objs)
      /\ SameFrame(Inner(a), rs[1]) /\ Placed(a, Inner(a))
      /\ Like(o, r, n0, rs) /\ m0 \in Members(c)
      /\ Scalar(c, m0) <=> ItemAt(a).kind \in ScalarKinds
  BY <1>1, MemberAt
<1>3. r.vals[m0] = o.vals[m0]
  BY <1>1, <1>2 DEF Like, ScalarKinds
<1>4. x = LinkValue(a.objs, Inner(a), ItemAt(a), Len(a.objs) + 1)
  BY <1>2, <1>3 DEF LinkValue
<1>5. /\ AList(os) /\ Len(os) = Len(a.objs)
      /\ \A n \in 1 .. Len(a.objs) : n # n0 => os[n] = a.objs[n]
      /\ \A m \in Members(c) : m # m0 => y.vals[m] = o.vals[m]
      /\ y.vals[m0] = x /\ y.class = o.class /\ y.vers = o.vers
  <2>1. /\ AList(Hung(a)) /\ Len(Hung(a)) = Len(a.objs)
        /\ \A n \in 1 .. Len(a.objs) : Whole(Hung(a)[n]) /\ Less(a.objs[n], Hung(a)[n])
        /\ \A n \in 1 .. Len(a.objs) : n # Inner(a).obj => Hung(a)[n] = a.objs[n]
        /\ \A m \in Members(a.objs[Inner(a).obj].class) :
             m # ItemAt(a).name =>
               Hung(a)[Inner(a).obj].vals[m] = a.objs[Inner(a).obj].vals[m]
        /\ Hung(a)[Inner(a).obj].vals[ItemAt(a).name]
             = LinkValue(a.objs, Inner(a), ItemAt(a), Len(a.objs) + 1)
    BY HungIs
  <2>2. Less(o, y)
    BY <1>2, <2>1
  <2>3. y.class = o.class /\ y.vers = o.vers
    BY <2>2 DEF Less
  <2> HIDE DEF x
  <2> QED
    BY <1>2, <1>4, <2>1, <2>3
<1>6. po = SetTo(ro, n0, m0, x)
  BY LinkedIs
<1>7. /\ Shaped(r) /\ r.class = c /\ r.vals = [m \in Members(c) |-> r.vals[m]]
  BY <1>2 DEF Like
<1>8. DOMAIN r.vals = Members(c)
  BY <1>7
<1>9. /\ AList(po) /\ Len(po) = Len(ro)
      /\ \A i \in 1 .. Len(ro) : i # n0 => po[i] = ro[i]
      /\ Shaped(z) /\ z.class = r.class /\ z.vers = r.vers
      /\ z.vals[m0] = x
      /\ \A m \in Members(c) : m # m0 => z.vals[m] = r.vals[m]
  <2>1. Shaped(ro[n0]) /\ m0 \in DOMAIN ro[n0].vals /\ DOMAIN ro[n0].vals = Members(c)
    BY <1>2, <1>7, <1>8
  <2> HIDE DEF x, po, m0, c
  <2>2. /\ AList(po) /\ Len(po) = Len(ro)
        /\ \A i \in 1 .. Len(ro) : i # n0 => po[i] = ro[i]
        /\ Shaped(po[n0]) /\ po[n0].class = ro[n0].class /\ po[n0].vers = ro[n0].vers
        /\ m0 \in DOMAIN ro[n0].vals => po[n0].vals[m0] = x
        /\ \A m \in DOMAIN ro[n0].vals : m # m0 => po[n0].vals[m] = ro[n0].vals[m]
    BY <1>2, <1>6, <2>1, MemberAssigned
  <2> QED
    BY <2>1, <2>2
<1> HIDE DEF x
<1>10. z.vals = [m \in Members(c) |-> z.vals[m]]
  <2>1. z = [r EXCEPT !.vals[m0] = x]
    BY <1>2, <1>6, ListIs DEF SetTo
  <2>2. z.vals = [r.vals EXCEPT ![m0] = x]
    BY <1>7, <2>1 DEF Shaped
  <2> QED
    BY <1>7, <2>2
<1> HIDE DEF po, os
<1>11. Settled(o, r, y, z, m0)
  BY <1>5, <1>9, <1>10, Zenon DEF Settled
<1>12. Elsewhere(a.objs, os, n0) /\ Elsewhere(ro, po, n0)
  BY <1>5, <1>9 DEF Elsewhere
<1>13. Settled(a.objs[n0], ro[n0], os[n0], po[n0], ItemAt(a).name)
  BY <1>11
<1> DEFINE f == PastItem(Inner(a))
           g == PastItem(rs[1])
<1>14. /\ SameFrame(f, g) /\ g.obj = n0
       /\ g.pos = rs[1].pos \/ g.pos = rs[1].pos + 1
  BY <1>2, PastSame DEF Placed
<1>15. Len(a.out) = cur
  BY DEF Follows
<1> HIDE DEF o, r, m0, c, z, y, f, g
<1>16. Follows(Moment(os, Continued(a, f), a.out), po, <<g>> \o Tail(rs), Len(a.out))
  BY <1>1, <1>12, <1>13, <1>14, FollowsOnward
<1> QED
  BY <1>5, <1>9, <1>15, <1>16 DEF po, os, f, g

LEMMA FollowObject ==
  ASSUME NEW a, NEW ro, NEW rs, NEW cur, Follows(a, ro, rs, cur), Written(a),
         rs # <<>>, Asks(a, {"sub", "list"}), NEW n, n = Len(a.objs) + 1,
         NEW c \in Classes, NEW v, ~has_version => v = 0, NEW saved, NEW out
  PROVE  Follows(Moment(Append(Hung(a), Record(n, c, v)),
                        <<Frame(n, 0)>> \o Continued(a, PastItem(Inner(a))), out),
                 Append(Linked(ro, rs[1], ItemAt(a), Len(ro) + 1), NewObject(c, v)),
                 <<Frame(Len(ro) + 1, saved)>> \o (<<PastItem(rs[1])>> \o Tail(rs)), Len(out))
<1> DEFINE po == Linked(ro, rs[1], ItemAt(a), Len(ro) + 1)
           os == Hung(a)
           st == Continued(a, PastItem(Inner(a)))
           t == <<PastItem(rs[1])>> \o Tail(rs)
           b == Moment(os, st, a.out)
<1>1. Follows(b, po, t, cur) /\ Len(po) = Len(ro) /\ Len(os) = Len(a.objs)
  BY FollowHung
<1>2. b.objs = os /\ b.stack = st
  BY MomentIs
<1> HIDE DEF po, os, st, t, b
<1> DEFINE f == Frame(Len(b.objs) + 1, 0)
           g == Frame(Len(po) + 1, saved)
<1>3. f = Frame(Len(b.objs) + 1, 0) /\ g = Frame(Len(po) + 1, saved)
  OBVIOUS
<1> HIDE DEF f, g
<1>4. Follows(Moment(Append(b.objs, Record(Len(b.objs) + 1, c, v)), <<f>> \o b.stack, out),
              Append(po, NewObject(c, v)), <<g>> \o t, Len(out))
  BY <1>1, <1>3, FollowsPushed
<1>5. Len(b.objs) + 1 = n
  BY <1>1, <1>2
<1> QED
  BY <1>1, <1>2, <1>4, <1>5 DEF f, g, po, os, st, t

LEMMA FollowReturn ==
  ASSUME NEW a, NEW b, NEW ro, NEW rs, NEW cur, Follows(a, ro, rs, cur), Written(a),
         rs # <<>>, ReturnStep(a, b)
  PROVE  Follows(b, ro, Tail(rs), cur)
<1> DEFINE n0 == rs[1].obj
           c == a.objs[n0].class
<1>1. /\ SameFrame(Inner(a), rs[1]) /\ a.stack # <<>> /\ n0 = Inner(a).obj
  BY FollowerIsAt DEF SameFrame
<1>2. c \in Classes /\ Placed(a, Inner(a))
  BY <1>1, WriterIsAt
<1>3. SameFrames(a.stack, rs) /\ AList(rs)
  BY DEF Follows, SameFrames
<1>4. b = Moment(a.objs, Tail(a.stack), a.out)
  BY DEF ReturnStep
<1>5. b.objs = a.objs /\ b.stack = Tail(a.stack) /\ b.out = a.out
  BY <1>4, MomentIs
<1>6. SameFrames(b.stack, Tail(rs))
  BY <1>3, <1>5, FramesPopped
<1>7. \A p \in DOMAIN ReadLayout[c] : ~(p >= rs[1].pos)
  <2> TAKE p \in DOMAIN ReadLayout[c]
  <2>1. rs[1].pos \in Nat \ {0} /\ rs[1].pos \notin DOMAIN ReadLayout[c]
    BY <1>1, <1>2 DEF ReturnStep, InBody, BodyAt, SameFrame, Placed
  <2>2. p < rs[1].pos /\ p \in Nat
    BY <1>2, <2>1, BodyIs
  <2> QED
    BY <2>1, <2>2
<1>8. ASSUME NEW n \in 1 .. Len(ro)  PROVE Like(b.objs[n], ro[n], n, Tail(rs))
  <2>1. Like(a.objs[n], ro[n], n, rs)
    BY DEF Follows
  <2>2. ASSUME NEW m, Awaited(rs, n, a.objs[n].class, m)
        PROVE  Awaited(Tail(rs), n, a.objs[n].class, m)
    <3>1. n = rs[1].obj => \A p \in DOMAIN ReadLayout[a.objs[n].class] : ~(p >= rs[1].pos)
      BY <1>7
    <3> QED
      BY <1>3, <2>2, <3>1, AwaitedPopped
  <2> QED
    BY <1>5, <2>1, <2>2 DEF Like
<1> QED
  BY <1>5, <1>6, <1>8 DEF Follows

LEMMA FollowedToTheEnd ==
  ASSUME NEW a, NEW ro, NEW rs, NEW cur, Follows(a, ro, rs, cur), Written(a), rs = <<>>
  PROVE  a.stack = <<>> /\ ro = a.objs /\ cur = Len(a.out)
<1>1. /\ AList(a.stack) /\ Len(a.stack) = Len(rs) /\ AList(ro) /\ AList(a.objs)
      /\ Len(ro) = Len(a.objs) /\ cur = Len(a.out)
  BY DEF Follows, SameFrames
<1>2. Len(rs) = 0
  OBVIOUS
<1>3. a.stack = <<>>
  BY <1>1, <1>2, ListIs
<1>4. ASSUME NEW n \in 1 .. Len(ro)  PROVE ro[n] = a.objs[n]
  <2> DEFINE o == a.objs[n]
             r == ro[n]
  <2>1. Like(o, r, n, rs) /\ Whole(o)
    BY <1>1 DEF Follows, Written
  <2>2. \A c, m : ~Awaited(rs, n, c, m)
    BY <1>2 DEF Awaited
  <2> HIDE DEF o, r
  <2>3. /\ o.vals = [m \in Members(o.class) |-> o.vals[m]]
        /\ r.vals = [m \in Members(o.class) |-> r.vals[m]]
        /\ \A m \in Members(o.class) : r.vals[m] = o.vals[m]
    BY <2>1, <2>2 DEF Like, Whole
  <2>4. r.vals = o.vals
    BY <2>3
  <2>5. /\ o = [class |-> o.class, vers |-> o.vers, vals |-> o.vals]
        /\ r = [class |-> r.class, vers |-> r.vers, vals |-> r.vals]
        /\ r.class = o.class /\ r.vers = o.vers
    BY <2>1 DEF Like, Whole, Shaped
  <2>6. r = o
    BY <2>4, <2>5
  <2> QED
    BY <2>6 DEF o, r
<1> QED
  BY <1>1, <1>3, <1>4, ListsEqual

-----------------------------------------------------------------------------
(* The two settings of a run never change, so neither does what has been   *)
(* written under them.                                                     *)
Settings == <<has_version, wversion>>

LEMMA OwnVersionStays ==
  ASSUME UNCHANGED Settings
  PROVE  \A v : OwnVersion(v)' = OwnVersion(v)
  BY DEF Settings, OwnVersion

LEMMA WrittenStays ==
  ASSUME UNCHANGED Settings, NEW CONSTANT a, Written(a)
  PROVE  Written(a)'
<1>1. has_version' = has_version
  BY DEF Settings
<1>2. \A o : Whole(o) => Whole(o)'
  BY <1>1, OwnVersionStays DEF Whole
<1> QED
  BY <1>2 DEF Written

LEMMA WriteStepStays ==
  ASSUME UNCHANGED Settings, NEW CONSTANT a, NEW CONSTANT b, WriteStep(a, b)
  PROVE  WriteStep(a, b)'
<1>1. has_version' = has_version /\ wversion' = wversion
  BY DEF Settings
<1>2. \A kinds : Asks(a, kinds) => Asks(a, kinds)'
  BY <1>1 DEF Asks
<1>3. \A n, c, v : Header(n, c, v)' = Header(n, c, v)
  BY <1>1 DEF Header
<1>4. \A n, c, v : Record(n, c, v)' = Record(n, c, v)
  BY OwnVersionStays DEF Record
<1>5. CASE FieldStep(a, b)
  BY <1>2, <1>5 DEF FieldStep, WriteStep
<1>6. CASE NullStep(a, b)
  BY <1>2, <1>6 DEF NullStep, WriteStep
<1>7. CASE CountStep(a, b)
  BY <1>2, <1>7 DEF CountStep, WriteStep
<1>8. CASE ObjectStep(a, b)
  <2>1. PICK c \in Classes, v \in Nat :
          /\ ~has_version => v = 0
          /\ b = Moment(Append(Hung(a), Record(Len(a.objs) + 1, c, v)),
                        <<Frame(Len(a.objs) + 1, 0)>> \o Continued(a, PastItem(Inner(a))),
                        a.out \o Header(Len(a.objs) + 1, c, v))
    BY <1>8 DEF ObjectStep
  <2>2. /\ ~has_version' => v = 0
        /\ b = Moment(Append(Hung(a), Record(Len(a.objs) + 1, c, v)'),
                      <<Frame(Len(a.objs) + 1, 0)>> \o Continued(a, PastItem(Inner(a))),
                      a.out \o Header(Len(a.objs) + 1, c, v)')
    BY <1>1, <1>3, <1>4, <2>1
  <2>3. Asks(a, {"sub", "list"})' /\ (ItemAt(a).kind = "list" => Inner(a).left > 0)
    BY <1>2, <1>8 DEF ObjectStep
  <2>4. ObjectStep(a, b)'
    BY <2>2, <2>3 DEF ObjectStep
  <2> QED
    BY <2>4 DEF WriteStep
<1>9. CASE SkipStep(a, b)
  BY <1>1, <1>9 DEF SkipStep, WriteStep
<1>10. CASE ReturnStep(a, b)
  BY <1>10 DEF ReturnStep, WriteStep
<1> QED
  BY <1>5, <1>6, <1>7, <1>8, <1>9, <1>10 DEF WriteStep

LEMMA HistoryStays ==
  ASSUME UNCHANGED Settings, NEW CONSTANT W, NEW CONSTANT K,
         History(W, K, Moment(objs', wstack', stream'))
  PROVE  History(W, K, Now)'
<1>1. has_version' = has_version
  BY DEF Settings
<1>2. \A n, c, v : Header(n, c, v)' = Header(n, c, v)
  BY <1>1 DEF Header
<1>3. \A n, c, v : Record(n, c, v)' = Record(n, c, v)
  BY OwnVersionStays DEF Record
<1>4. \A i : Written(W[i]) => Written(W[i])'
  BY WrittenStays
<1>5. \A i : WriteStep(W[i], W[i + 1]) => WriteStep(W[i], W[i + 1])'
  BY WriteStepStays
<1>6. Now' = Moment(objs', wstack', stream')
  BY DEF Now
<1> QED
  BY <1>1, <1>2, <1>3, <1>4, <1>5, <1>6 DEF History

-----------------------------------------------------------------------------
(* What the next read finds.                                               *)
LEMMA TokenRead ==
  ASSUME NEW s, AList(s), NEW e, Prefix(Append(s, e), stream)
  PROVE  Len(s) < Len(stream) /\ stream[Len(s) + 1] = e /\ Len(Append(s, e)) = Len(s) + 1
<1> DEFINE t == Append(s, e)
<1>1. Len(t) = Len(s) + 1 /\ t[Len(s) + 1] = e /\ Len(s) \in Nat
  BY Appended, ListIs
<1> HIDE DEF t
<1>2. Len(t) <= Len(stream) /\ Len(stream) \in Nat
  BY ListIs DEF Prefix, t
<1>3. \A i \in 1 .. Len(t) : t[i] = stream[i]
  BY DEF Prefix, t
<1>4. Len(s) + 1 \in 1 .. Len(t)
  BY <1>1
<1> QED
  BY <1>1, <1>2, <1>3, <1>4 DEF t

LEMMA HeaderRead ==
  ASSUME NEW s, AList(s), NEW n, NEW c, NEW v, Prefix(s \o Header(n, c, v), stream)
  PROVE  /\ Len(s) < Len(stream) /\ stream[Len(s) + 1] = ClassToken(c)
         /\ has_version => stream[Len(s) + 3].val = v
         /\ Len(s \o Header(n, c, v)) = Len(s) + (IF has_version THEN 3 ELSE 2)
<1> DEFINE h == Header(n, c, v)
           t == s \o h
<1>1. /\ AList(h) /\ Len(h) = (IF has_version THEN 3 ELSE 2)
      /\ h[1] = ClassToken(c)
      /\ has_version => h[3] = Token("dword", "vers", v)
  BY HeaderIs
<1>8. has_version => h[3].val = v
  BY <1>1 DEF Token
<1> HIDE DEF h
<1>2. /\ Len(t) = Len(s) + Len(h)
      /\ \A i \in 1 .. Len(h) : t[Len(s) + i] = h[i]
  <2>1. AList(s) /\ AList(h)
    BY <1>1
  <2>2. /\ Len(s \o h) = Len(s) + Len(h)
        /\ \A i \in 1 .. Len(h) : (s \o h)[Len(s) + i] = h[i]
    BY <2>1, Concatenated
  <2> QED
    BY <2>2
<1>3. Len(s) \in Nat /\ Len(stream) \in Nat /\ Len(t) <= Len(stream)
      /\ \A i \in 1 .. Len(t) : t[i] = stream[i]
  BY ListIs DEF Prefix, h
<1> HIDE DEF t
<1>4. Len(h) \in {2, 3} /\ (has_version => Len(h) = 3)
  BY <1>1
<1>5. \A l \in {2, 3} : l \in Nat /\ l >= 2 /\ 1 \in 1 .. l
  OBVIOUS
<1>6. Len(h) \in Nat /\ Len(h) >= 2 /\ 1 \in 1 .. Len(h)
  BY <1>4, <1>5
<1>7. has_version => 3 \in 1 .. Len(h)
  BY <1>4
<1>9. \A i \in 1 .. Len(h) : stream[Len(s) + i] = h[i]
  BY <1>2, <1>3, <1>6
<1>10. Len(s) < Len(stream)
  BY <1>2, <1>3, <1>6
<1> QED
  BY <1>1, <1>2, <1>6, <1>7, <1>8, <1>9, <1>10 DEF t, h

LEMMA ReaderIsAt ==
  ASSUME BodiesAgree, VersionIsOwn, SameGates, Reading, wstack = <<>>,
         NEW W, NEW K, History(W, K, Now), NEW k \in 1 .. K,
         NEW a, a = W[k], NEW b, b = W[k + 1], Follows(a, robjs, rstack, cursor)
  PROVE  /\ k + 1 \in 1 .. K /\ Written(a) /\ WriteStep(a, b) /\ Grows(b, Now)
         /\ AList(a.out) /\ cursor = Len(a.out) /\ Prefix(b.out, stream)
         /\ rstack # <<>> /\ RTop = rstack[1] /\ SameFrame(Inner(a), RTop)
         /\ InBody(a) <=> RTop.pos \in DOMAIN RBody(RTop)
         /\ RItem = ItemAt(a) /\ RTop.left = Inner(a).left
         /\ version = OwnVersion(a.objs[rstack[1].obj].vers)
         /\ InBody(a) => (Present(ItemAt(a), version) <=> Present(ItemAt(a), wversion))
<1>1. Written(a) /\ rstack # <<>>
  BY DEF History, Reading
<1>2. /\ a.stack # <<>> /\ Head(rstack) = rstack[1]
      /\ SameFrame(Inner(a), rstack[1]) /\ rstack[1].obj \in 1 .. Len(robjs)
      /\ ReadLayout[robjs[rstack[1].obj].class] = BodyAt(a)
      /\ Like(a.objs[rstack[1].obj], robjs[rstack[1].obj], rstack[1].obj, rstack)
  BY <1>1, FollowerIsAt
<1>3. RTop = rstack[1]
  BY <1>2 DEF RTop
<1>4. k # K
  BY <1>2, NowIs DEF History
<1>5. k \in 1 .. K - 1 /\ k + 1 \in 1 .. K
  BY <1>4 DEF History
<1>6. WriteStep(a, b) /\ Grows(b, Now)
  BY <1>5 DEF History
<1>7. AList(a.out) /\ cursor = Len(a.out) /\ Prefix(b.out, stream)
  BY <1>1, <1>6, NowIs DEF Written, Follows, Grows
<1>8. RBody(RTop) = BodyAt(a)
  BY <1>2, <1>3 DEF RBody
<1>9. SameFrame(Inner(a), RTop) /\ RTop.left = Inner(a).left /\ RTop.pos = Inner(a).pos
      /\ RTop.obj = Inner(a).obj
  BY <1>2, <1>3 DEF SameFrame
<1>10. InBody(a) <=> RTop.pos \in DOMAIN RBody(RTop)
  BY <1>2, <1>8, <1>9 DEF InBody
<1>11. RItem = ItemAt(a)
  BY <1>8, <1>9 DEF RItem, ItemAt
<1> DEFINE n0 == rstack[1].obj
<1>12. robjs[n0].vers = a.objs[n0].vers /\ robjs[n0].class = a.objs[n0].class
  BY <1>2 DEF Like
<1>13. version = OwnVersion(a.objs[n0].vers)
  BY <1>3, <1>12 DEF VersionIsOwn, OwnVersion
<1>14. InBody(a) => (Present(ItemAt(a), version) <=> Present(ItemAt(a), wversion))
  <2> HAVE InBody(a)
  <2>1. n0 \in 1 .. Len(a.objs) /\ Grows(a, Now) /\ n0 = Inner(a).obj
    BY <1>2, <1>3, <1>9 DEF Follows, History
  <2>2. AList(objs) /\ n0 \in 1 .. Len(objs) /\ Less(a.objs[n0], objs[n0])
    BY <2>1, NowIs, ListIs DEF Grows
  <2>3. n0 \in DOMAIN objs /\ objs[n0].class = a.objs[n0].class /\ objs[n0].vers = a.objs[n0].vers
    BY <2>2, ListIs DEF Less
  <2>4. WriteLayout[objs[n0].class] = BodyAt(a)
    BY <2>1, <2>3 DEF BodyAt, BodiesAgree
  <2>5. Inner(a).pos \in DOMAIN WriteLayout[objs[n0].class]
        /\ ItemAt(a) = WriteLayout[objs[n0].class][Inner(a).pos]
    BY <2>4 DEF InBody, ItemAt
  <2> QED
    BY <1>13, <2>3, <2>5 DEF SameGates
<1> QED
  BY <1>1, <1>3, <1>5, <1>6, <1>7, <1>9, <1>10, <1>11, <1>13, <1>14

-----------------------------------------------------------------------------
(* What has been read so far is true to what was written.                  *)
TrueTo(r, o) ==
  /\ r.class = o.class /\ r.vers \in {0, o.vers}
  /\ \A m \in Members(o.class) :
       IF IsList(o.class, m)
       THEN IsPrefix(r.vals[m], o.vals[m])
       ELSE r.vals[m] \in {o.vals[m], Blank(o.class)[m]}

AllTrue(ro) == \A n \in DOMAIN ro : n \in DOMAIN objs /\ TrueTo(ro[n], objs[n])

LEMMA PrefixIsPrefix ==
  ASSUME NEW s, NEW t, Prefix(s, t)
  PROVE  IsPrefix(s, t)
<1> DEFINE S == {s[i] : i \in DOMAIN s}
           n == Len(s)
           u == SubSeq(s, 1, n)
           v == SubSeq(t, 1, n)
<1>1. AList(s) /\ n \in Nat /\ n <= Len(t) /\ DOMAIN s = 1 .. n
      /\ \A i \in 1 .. n : s[i] = t[i]
  BY ListIs DEF Prefix
<1>2. \A i \in 1 .. n : s[i] \in S /\ t[i] \in S
  BY <1>1
<1> HIDE DEF S, n
<1>3. /\ u \in Seq(S) /\ Len(u) = (IF 1 <= n THEN n - 1 + 1 ELSE 0)
      /\ \A i \in 1 .. n - 1 + 1 : u[i] = s[1 + i - 1]
  BY <1>1, <1>2, SubSeqProperties
<1>4. /\ v \in Seq(S) /\ Len(v) = (IF 1 <= n THEN n - 1 + 1 ELSE 0)
      /\ \A i \in 1 .. n - 1 + 1 : v[i] = t[1 + i - 1]
  BY <1>1, <1>2, SubSeqProperties
<1> HIDE DEF u, v
<1>5. Len(u) = Len(v) /\ Len(u) = n
  BY <1>1, <1>3, <1>4
<1>6. \A i \in 1 .. n : u[i] = v[i]
  <2> TAKE i \in 1 .. n
  <2>1. i \in 1 .. n - 1 + 1 /\ 1 + i - 1 = i
    BY <1>1
  <2> QED
    BY <1>1, <1>3, <1>4, <2>1
<1>7. AList(u) /\ AList(v)
  BY <1>3, <1>4, SeqIsList
<1>8. u = v
  BY <1>5, <1>6, <1>7, ListsEqual
<1> QED
  BY <1>1, <1>8 DEF IsPrefix, u, v, n

LEMMA FollowsIsTrue ==
  ASSUME NEW a, NEW ro, NEW rs, NEW cur, Follows(a, ro, rs, cur), Grows(a, Now)
  PROVE  AllTrue(ro)
<1>1. /\ AList(ro) /\ Len(ro) = Len(a.objs) /\ Len(ro) \in Nat /\ DOMAIN ro = 1 .. Len(ro)
      /\ AList(objs) /\ DOMAIN objs = 1 .. Len(objs) /\ Len(objs) \in Nat
      /\ Len(a.objs) <= Len(objs)
  BY NowIs, ListIs DEF Follows, Grows
<1>2. ASSUME NEW n \in DOMAIN ro  PROVE n \in DOMAIN objs /\ TrueTo(ro[n], objs[n])
  <2> DEFINE o == a.objs[n]
             r == ro[n]
             z == objs[n]
  <2>1. n \in DOMAIN objs
    BY <1>1
  <2>2. Like(o, r, n, rs) /\ Less(o, z)
    BY <1>1, NowIs DEF Follows, Grows
  <2> HIDE DEF o, r, z
  <2>3. r.class = z.class /\ r.vers = z.vers /\ o.class = z.class /\ z.class \in Classes
    BY <2>2 DEF Like, Less
  <2>4. ASSUME NEW m \in Members(z.class)
        PROVE  IF IsList(z.class, m)
               THEN IsPrefix(r.vals[m], z.vals[m])
               ELSE r.vals[m] \in {z.vals[m], Blank(z.class)[m]}
    <3>1. \/ r.vals[m] = o.vals[m]
          \/ Scalar(z.class, m) /\ r.vals[m] = Zero
      BY <2>2, <2>3 DEF Like
    <3>2. /\ IsList(z.class, m) => Prefix(o.vals[m], z.vals[m])
          /\ IsPointer(z.class, m) => o.vals[m] = NoObject \/ o.vals[m] = z.vals[m]
          /\ Scalar(z.class, m) => o.vals[m] = z.vals[m]
      BY <2>2, <2>3 DEF Less
    <3>3. /\ IsPointer(z.class, m) => Blank(z.class)[m] = NoObject
          /\ Scalar(z.class, m) => Blank(z.class)[m] = Zero
      BY <2>3, BlankIs
    <3>4. CASE IsList(z.class, m)
      <4>1. Prefix(r.vals[m], z.vals[m])
        BY <3>1, <3>2, <3>4 DEF Scalar
      <4>2. IsPrefix(r.vals[m], z.vals[m])
        BY <4>1, PrefixIsPrefix
      <4> QED
        BY <3>4, <4>2
    <3>5. CASE ~IsList(z.class, m)
      <4>1. IsPointer(z.class, m) \/ Scalar(z.class, m)
        BY <3>5 DEF Scalar
      <4>2. r.vals[m] = z.vals[m] \/ r.vals[m] = Blank(z.class)[m]
        BY <3>1, <3>2, <3>3, <4>1 DEF Scalar
      <4> QED
        BY <3>5, <4>2
    <3> QED
      BY <3>4, <3>5
  <2>5. TrueTo(r, z)
    BY <2>3, <2>4 DEF TrueTo
  <2> QED
    BY <2>1, <2>5 DEF r, z
<1> QED
  BY <1>2 DEF AllTrue

(* Only the version of the last object is not known yet.                   *)
LEMMA HeaderCutIsTrue ==
  ASSUME NEW os, AList(os), NEW c, NEW v, AllTrue(Append(os, NewObject(c, v)))
  PROVE  AllTrue(Append(os, NewObject(c, 0)))
<1> DEFINE p == Append(os, NewObject(c, v))
           q == Append(os, NewObject(c, 0))
           n == Len(os) + 1
<1>1. /\ AList(p) /\ Len(p) = n /\ p[n] = NewObject(c, v)
      /\ \A i \in 1 .. Len(os) : p[i] = os[i]
  BY Appended
<1>2. /\ AList(q) /\ Len(q) = n /\ q[n] = NewObject(c, 0)
      /\ \A i \in 1 .. Len(os) : q[i] = os[i]
  BY Appended
<1>3. Len(os) \in Nat
  BY ListIs
<1> HIDE DEF p, q
<1>4. DOMAIN p = 1 .. n /\ DOMAIN q = 1 .. n
  BY <1>1, <1>2, ListIs
<1>5. \A i \in 1 .. n : i = n \/ i \in 1 .. Len(os)
  BY <1>3
<1>6. ASSUME NEW i \in 1 .. n  PROVE i \in DOMAIN objs /\ TrueTo(q[i], objs[i])
  <2>1. i \in DOMAIN objs /\ TrueTo(p[i], objs[i])
    BY <1>4, Zenon DEF AllTrue, p
  <2>2. q[i].class = p[i].class /\ q[i].vers \in {0, p[i].vers} /\ q[i].vals = p[i].vals
    BY <1>1, <1>2, <1>5 DEF NewObject
  <2> QED
    BY <2>1, <2>2 DEF TrueTo
<1> QED
  BY <1>4, <1>6 DEF AllTrue, q

-----------------------------------------------------------------------------
(* Each read takes what the write in its place left.                       *)
Stepped(b) ==
  /\ Follows(b, robjs', rstack', cursor') /\ error' = error /\ phase' # "garbled"
  /\ phase' = "done" => rstack' = <<>>

Puts(b, out) == \E os, st : b = Moment(os, st, out)
Reads(a, b) == AList(a.out) /\ cursor = Len(a.out) /\ Prefix(b.out, stream)

LEMMA StepToken ==
  ASSUME NEW a, NEW b, Reads(a, b), NEW e, Puts(b, Append(a.out, e))
  PROVE  /\ cursor < Len(stream) /\ NextToken = e /\ Len(b.out) = cursor + 1
         /\ b.out = Append(a.out, e)
<1> DEFINE s == a.out
<1>1. b.out = Append(s, e)
  BY DEF Moment, Puts
<1>2. AList(s) /\ Prefix(Append(s, e), stream) /\ cursor = Len(s)
  BY <1>1 DEF Reads
<1> HIDE DEF s
<1>3. Len(s) < Len(stream) /\ stream[Len(s) + 1] = e /\ Len(Append(s, e)) = Len(s) + 1
  BY <1>2, TokenRead
<1> QED
  BY <1>1, <1>2, <1>3 DEF NextToken, s

HeaderTaken(b, c, v) ==
  /\ cursor < Len(stream) /\ NextToken = ClassToken(c)
  /\ has_version => stream[cursor + 3].val = v
  /\ Len(b.out) = cursor + (IF has_version THEN 3 ELSE 2)

LEMMA StepHeader ==
  ASSUME NEW a, NEW b, Reads(a, b), NEW n, NEW c, NEW v, Puts(b, a.out \o Header(n, c, v))
  PROVE  HeaderTaken(b, c, v) /\ b.out = a.out \o Header(n, c, v)
<1> DEFINE s == a.out
<1>1. b.out = s \o Header(n, c, v)
  BY DEF Moment, Puts
<1>2. AList(s) /\ Prefix(s \o Header(n, c, v), stream) /\ cursor = Len(s)
  BY <1>1 DEF Reads
<1> HIDE DEF s
<1>3. /\ Len(s) < Len(stream) /\ stream[Len(s) + 1] = ClassToken(c)
      /\ has_version => stream[Len(s) + 3].val = v
      /\ Len(s \o Header(n, c, v)) = Len(s) + (IF has_version THEN 3 ELSE 2)
  BY <1>2, HeaderRead
<1> QED
  BY <1>1, <1>2, <1>3 DEF NextToken, HeaderTaken, s

(* The reader before what the writer did in the step from a to b.          *)
Facing(a, b) ==
  /\ Written(a) /\ WriteStep(a, b)
  /\ AList(a.out) /\ cursor = Len(a.out) /\ Prefix(b.out, stream)
  /\ rstack # <<>> /\ RTop = rstack[1] /\ SameFrame(Inner(a), RTop)
  /\ InBody(a) <=> RTop.pos \in DOMAIN RBody(RTop)
  /\ RItem = ItemAt(a) /\ RTop.left = Inner(a).left
  /\ version = OwnVersion(a.objs[rstack[1].obj].vers)
  /\ InBody(a) => (Present(ItemAt(a), version) <=> Present(ItemAt(a), wversion))

LEMMA ReadFaced ==
  ASSUME BodiesAgree, ListsFit, AList(robjs), AList(rstack),
         NEW a, NEW b, Follows(a, robjs, rstack, cursor), Facing(a, b),
         Read, tampered' = "no"
  PROVE  Stepped(b)
<1>1. Reading
  BY DEF Read, ReadField, ReadCount, ReadObject, ReadNothing, ReadSkip, ReadReturn,
         WrongTag, ReadAcross, AtRead, AtClassId
<1>2. /\ Written(a) /\ WriteStep(a, b)
      /\ AList(a.out) /\ cursor = Len(a.out) /\ Prefix(b.out, stream)
      /\ rstack # <<>> /\ RTop = rstack[1] /\ SameFrame(Inner(a), RTop)
      /\ InBody(a) <=> RTop.pos \in DOMAIN RBody(RTop)
      /\ RItem = ItemAt(a) /\ RTop.left = Inner(a).left
      /\ version = OwnVersion(a.objs[rstack[1].obj].vers)
      /\ InBody(a) => (Present(ItemAt(a), version) <=> Present(ItemAt(a), wversion))
  BY DEF Facing
<1> DEFINE n0 == rstack[1].obj
<1>3. InBody(a) =>
        /\ n0 = Inner(a).obj /\ SameFrame(Inner(a), rstack[1]) /\ Placed(a, Inner(a))
        /\ Framed(Inner(a)) /\ Inner(a).left \in Nat
        /\ ItemAt(a).kind = "sub" => ItemAt(a).tag = "NPTc"
        /\ ItemAt(a).kind = "list" => ItemAt(a).tag = "NPlt"
  <2> HAVE InBody(a)
  <2>1. /\ n0 = Inner(a).obj /\ SameFrame(Inner(a), rstack[1]) /\ Placed(a, Inner(a))
        /\ Whole(a.objs[n0])
    BY <1>2, MemberAt
  <2>2. Framed(Inner(a)) /\ Inner(a).left \in Nat
    BY <2>1 DEF Placed
  <2> DEFINE c == a.objs[n0].class
             p == Inner(a).pos
  <2>3. c \in Classes /\ p \in DOMAIN ReadLayout[c] /\ ItemAt(a) = ReadLayout[c][p]
    BY <2>1 DEF Whole, InBody, ItemAt, BodyAt
  <2> HIDE DEF c, p
  <2>4. /\ ItemAt(a).kind = "sub" => ItemAt(a).tag = "NPTc"
        /\ ItemAt(a).kind = "list" => ItemAt(a).tag = "NPlt"
    BY <2>3, BodyIs
  <2> QED
    BY <2>1, <2>2, <2>4
<1>4. InBody(a) =>
        /\ SameFrame(Past(Inner(a)), Past(RTop)) /\ Past(RTop).obj = n0
        /\ Past(RTop).pos = rstack[1].pos + 1
  BY <1>2, <1>3, PastSame
<1>5. CASE FieldStep(a, b)
  <2> DEFINE e == Token(ItemAt(a).kind, ItemAt(a).tag, a.objs[n0].vals[ItemAt(a).name])
  <2>1. /\ InBody(a) /\ ItemAt(a).kind \in ScalarKinds /\ Present(ItemAt(a), version)
        /\ b = Moment(a.objs, Continued(a, Past(Inner(a))), Append(a.out, e))
    BY <1>2, <1>3, <1>5 DEF FieldStep, Asks
  <2>3. e.kind = ItemAt(a).kind /\ e.tag = ItemAt(a).tag /\ e.val = a.objs[n0].vals[ItemAt(a).name]
    BY DEF Token
  <2> HIDE DEF e
  <2>4. cursor < Len(stream) /\ NextToken = e /\ Len(b.out) = cursor + 1 /\ b.out = Append(a.out, e)
    <3>1. Reads(a, b) /\ Puts(b, Append(a.out, e))
      BY <1>2, <2>1 DEF Reads, Puts
    <3> QED
      BY <3>1, StepToken
  <2>5. RItem.kind # "sub" /\ RItem.kind # "list" /\ RTop.pos \in DOMAIN RBody(RTop)
        /\ Present(RItem, version)
    BY <1>2, <2>1 DEF ScalarKinds
  <2>6. TagIs(TagAsked) /\ Expects(RItem)
    BY <1>2, <2>3, <2>4, <2>5 DEF TagIs, TagAsked, Expects, WireKind
  <2>7. ReadField
    BY <2>5, <2>6, Zenon DEF Read, ReadCount, ReadObject, ReadNothing, ReadSkip,
                             ReadReturn, WrongTag, ReadAcross, AtClassId, AtRead
  <2>8. /\ robjs' = SetTo(robjs, n0, ItemAt(a).name, a.objs[n0].vals[ItemAt(a).name])
        /\ rstack' = <<Past(rstack[1])>> \o Tail(rstack) /\ cursor' = cursor + 1
        /\ error' = error /\ phase' = "reading"
    BY <1>1, <1>2, <2>3, <2>4, <2>7 DEF ReadField, RContinue, SetTo, Reading
  <2>9. Follows(b, robjs', rstack', cursor')
    BY <1>2, <1>5, <2>8, FollowField
  <2> QED
    BY <1>2, <2>8, <2>9 DEF Stepped
<1>6. CASE NullStep(a, b)
  <2> DEFINE e == ClassToken(NoClass)
  <2>1. /\ InBody(a) /\ ItemAt(a).kind = "sub" /\ Present(ItemAt(a), version)
        /\ b = Moment(a.objs, Continued(a, Past(Inner(a))), Append(a.out, e))
    BY <1>2, <1>6 DEF NullStep, Asks
  <2>3. e.kind = "dword" /\ e.tag = "NPTc" /\ e.val = NoClass
    BY DEF ClassToken, Token
  <2> HIDE DEF e
  <2>4. cursor < Len(stream) /\ NextToken = e /\ Len(b.out) = cursor + 1 /\ b.out = Append(a.out, e)
    <3>1. Reads(a, b) /\ Puts(b, Append(a.out, e))
      BY <1>2, <2>1 DEF Reads, Puts
    <3> QED
      BY <3>1, StepToken
  <2>5. RItem.kind = "sub" /\ RItem.tag = "NPTc" /\ RTop.pos \in DOMAIN RBody(RTop)
        /\ Present(RItem, version)
    BY <1>2, <1>3, <2>1
  <2>6. TagIs(TagAsked) /\ Expects(RItem) /\ NextToken.val \notin Classes
    BY <2>3, <2>4, <2>5, IdAssumption DEF TagIs, TagAsked, Expects, WireKind
  <2>7. ReadNothing
    BY <2>5, <2>6, Zenon DEF Read, ReadField, ReadCount, ReadObject, ReadSkip,
                             ReadReturn, WrongTag, ReadAcross, AtRead
  <2>8. /\ robjs' = robjs
        /\ rstack' = <<Past(rstack[1])>> \o Tail(rstack) /\ cursor' = cursor + 1
        /\ error' = error /\ phase' = "reading"
    BY <1>1, <1>2, <2>7 DEF ReadNothing, RContinue, Reading
  <2>9. ItemAt(a).kind \notin ScalarKinds
    BY <2>1 DEF ScalarKinds
  <2>10. Follows(Moment(a.objs, Continued(a, Past(Inner(a))), Append(a.out, e)),
                 robjs, <<Past(rstack[1])>> \o Tail(rstack), Len(Append(a.out, e)))
    BY <1>2, <1>4, <2>1, <2>9, FollowPlain
  <2>11. Follows(b, robjs', rstack', cursor')
    BY <2>1, <2>4, <2>8, <2>10
  <2> QED
    BY <1>2, <2>8, <2>11 DEF Stepped
<1>7. CASE CountStep(a, b)
  <2>1. PICK n \in Nat :
      b = Moment(a.objs,
                 Continued(a, IF n = 0 THEN Past(Inner(a)) ELSE [Inner(a) EXCEPT !.left = n]),
                 Append(a.out, Token("dword", "NPlt", n)))
    BY <1>7 DEF CountStep
  <2> DEFINE e == Token("dword", "NPlt", n)
             f == IF n = 0 THEN Past(Inner(a)) ELSE [Inner(a) EXCEPT !.left = n]
             g == IF n = 0 THEN Past(RTop) ELSE [RTop EXCEPT !.left = n]
  <2>2. b = Moment(a.objs, Continued(a, f), Append(a.out, e))
    BY <2>1 DEF e
  <2>3. e.kind = "dword" /\ e.tag = "NPlt" /\ e.val = n
    BY DEF Token
  <2>4. /\ InBody(a) /\ ItemAt(a).kind = "list" /\ Present(ItemAt(a), version)
        /\ Inner(a).left = 0
    BY <1>2, <1>7 DEF CountStep, Asks
  <2> HIDE DEF e, f, g
  <2>5. cursor < Len(stream) /\ NextToken = e /\ Len(b.out) = cursor + 1 /\ b.out = Append(a.out, e)
    <3>1. Reads(a, b) /\ Puts(b, Append(a.out, e))
      BY <1>2, <2>2 DEF Reads, Puts
    <3> QED
      BY <3>1, StepToken
  <2>6. RItem.kind = "list" /\ RItem.tag = "NPlt" /\ RTop.pos \in DOMAIN RBody(RTop)
        /\ Present(RItem, version) /\ RTop.left = 0
    BY <1>2, <1>3, <2>4
  <2>7. TagIs(TagAsked) /\ Expects(RItem) /\ ~(RTop.left > 0)
    BY <2>3, <2>5, <2>6 DEF TagIs, TagAsked, Expects, WireKind
  <2>8. ReadCount
    BY <2>6, <2>7, Zenon DEF Read, ReadField, ReadObject, ReadNothing, ReadSkip,
                             ReadReturn, WrongTag, ReadAcross, AtRead, AtClassId
  <2>9. n <= ListCap
    <3>1. cursor + 1 \in DOMAIN stream
      BY <1>2, <2>5, ListIs DEF Prefix
    <3> QED
      BY <2>3, <2>5, <3>1 DEF ListsFit, NextToken
  <2>10. NextToken.val \in 1 .. ListCap <=> n # 0
    BY <2>3, <2>5, <2>9, BoundAssumption
  <2>11. /\ robjs' = robjs
         /\ rstack' = <<g>> \o Tail(rstack) /\ cursor' = cursor + 1
         /\ error' = error /\ phase' = "reading"
    <3>1. /\ robjs' = robjs /\ cursor' = cursor + 1 /\ error' = error /\ phase' = "reading"
          /\ rstack' = <<IF NextToken.val \in 1 .. ListCap
                         THEN [RTop EXCEPT !.left = NextToken.val] ELSE Past(RTop)>>
                          \o Tail(rstack)
      BY <1>1, <2>8 DEF ReadCount, RContinue, Reading
    <3> QED
      BY <2>3, <2>5, <2>10, <3>1 DEF g
  <2>12. SameFrame(f, g) /\ g.obj = n0 /\ (g.pos = rstack[1].pos \/ g.pos = rstack[1].pos + 1)
    <3>1. CASE n = 0
      BY <1>4, <2>4, <3>1 DEF f, g
    <3>2. CASE n # 0
      <4>1. Framed(Inner(a)) /\ Framed(RTop) /\ RTop.obj = Inner(a).obj /\ RTop.pos = Inner(a).pos
        BY <1>2, <1>3, <2>4 DEF SameFrame
      <4>2. /\ f = [obj |-> Inner(a).obj, pos |-> Inner(a).pos, left |-> n, saved |-> Inner(a).saved]
            /\ g = [obj |-> RTop.obj, pos |-> RTop.pos, left |-> n, saved |-> RTop.saved]
        BY <3>2, <4>1 DEF Framed, f, g
      <4>3. SameFrame(f, g) /\ g.obj = RTop.obj /\ g.pos = RTop.pos
        BY <4>1, <4>2 DEF SameFrame, Framed
      <4> QED
        BY <1>2, <4>3
    <3> QED
      BY <3>1, <3>2
  <2>13. ItemAt(a).kind \notin ScalarKinds
    BY <2>4 DEF ScalarKinds
  <2>15. Follows(Moment(a.objs, Continued(a, f), Append(a.out, e)),
                 robjs, <<g>> \o Tail(rstack), Len(Append(a.out, e)))
    BY <1>2, <2>4, <2>12, <2>13, FollowPlain
  <2>16. Follows(b, robjs', rstack', cursor')
    BY <2>2, <2>5, <2>11, <2>15
  <2> QED
    BY <1>2, <2>11, <2>16 DEF Stepped
<1>8. CASE ObjectStep(a, b)
  <2> DEFINE n == Len(a.objs) + 1
  <2>1. PICK c \in Classes, v \in Nat :
           /\ ~has_version => v = 0
           /\ b = Moment(Append(Hung(a), Record(n, c, v)),
                         <<Frame(n, 0)>> \o Continued(a, PastItem(Inner(a))),
                         a.out \o Header(n, c, v))
    BY <1>8 DEF ObjectStep
  <2> HIDE DEF n
  <2>3. /\ InBody(a) /\ (ItemAt(a).kind = "sub" \/ ItemAt(a).kind = "list")
        /\ Present(ItemAt(a), version) /\ (ItemAt(a).kind = "list" => Inner(a).left > 0)
        /\ Asks(a, {"sub", "list"})
    BY <1>2, <1>8 DEF ObjectStep, Asks
  <2>4. /\ cursor < Len(stream) /\ NextToken = ClassToken(c)
        /\ has_version => stream[cursor + 3].val = v
        /\ Len(b.out) = cursor + (IF has_version THEN 3 ELSE 2)
        /\ b.out = a.out \o Header(n, c, v)
    <3>1. Reads(a, b) /\ Puts(b, a.out \o Header(n, c, v))
      BY <1>2, <2>1 DEF Reads, Puts
    <3>2. HeaderTaken(b, c, v)
      BY <3>1, StepHeader, Zenon
    <3>3. b.out = a.out \o Header(n, c, v)
      BY <3>1 DEF Puts, Moment
    <3> QED
      BY <3>2, <3>3 DEF HeaderTaken
  <2>5. NextToken.kind = "dword" /\ NextToken.tag = "NPTc" /\ NextToken.val = c
    BY <2>4 DEF ClassToken, Token
  <2>6. /\ RItem.kind = "sub" \/ RItem.kind = "list"
        /\ RItem.kind = "list" => RTop.left > 0
        /\ RItem.kind = "sub" => RItem.tag = "NPTc"
        /\ RTop.pos \in DOMAIN RBody(RTop) /\ Present(RItem, version)
    BY <1>2, <1>3, <2>3
  <2>7. TagIs(TagAsked) /\ Expects(RItem) /\ NextToken.val # NoClass
    BY <2>4, <2>5, <2>6, IdAssumption DEF TagIs, TagAsked, Expects, WireKind
  <2>8. RItem.kind = "list" => RTop.left # 0
    BY <2>6
  <2>9. ~ReadField /\ ~ReadCount /\ ~ReadSkip /\ ~ReadReturn /\ ~WrongTag /\ ~ReadAcross
    BY <2>6, <2>7, <2>8 DEF ReadField, ReadCount, ReadSkip, ReadReturn, WrongTag,
                            ReadAcross, AtRead
  <2>10. ~ReadNothing
    BY <2>7 DEF ReadNothing
  <2>11. ReadObject
    BY <2>9, <2>10 DEF Read
  <2> DEFINE po == Linked(robjs, RTop, RItem, Len(robjs) + 1)
  <2>12. /\ robjs' = Append(po, NewObject(c, v))
         /\ rstack' = <<Frame(Len(po) + 1, version)>> \o (<<PastItem(RTop)>> \o Tail(rstack))
         /\ cursor' = cursor + (IF has_version THEN 3 ELSE 2)
         /\ error' = error /\ phase' = "reading"
    BY <1>1, <2>1, <2>4, <2>5, <2>11 DEF ReadObject, ReadKnown, Reading
  <2>13. Len(po) = Len(robjs)
    <3>1. Len(Linked(robjs, rstack[1], ItemAt(a), Len(robjs) + 1)) = Len(robjs)
      BY <1>2, <2>3, FollowHung
    <3> QED
      BY <1>2, <3>1
  <2> HIDE DEF n0
  <2>14. Follows(Moment(Append(Hung(a), Record(n, c, v)),
                        <<Frame(n, 0)>> \o Continued(a, PastItem(Inner(a))), b.out),
                 Append(Linked(robjs, rstack[1], ItemAt(a), Len(robjs) + 1), NewObject(c, v)),
                 <<Frame(Len(robjs) + 1, version)>> \o (<<PastItem(rstack[1])>> \o Tail(rstack)),
                 Len(b.out))
    BY <1>2, <2>1, <2>3, FollowObject DEF n
  <2>15. Follows(b, robjs', rstack', cursor')
    BY <1>2, <2>1, <2>4, <2>12, <2>13, <2>14
  <2> QED
    BY <1>2, <2>12, <2>15 DEF Stepped
<1>9. CASE SkipStep(a, b)
  <2>1. /\ InBody(a) /\ ~Present(ItemAt(a), version)
        /\ b = Moment(a.objs, Continued(a, Past(Inner(a))), a.out)
    BY <1>2, <1>9 DEF SkipStep
  <2>2. RTop.pos \in DOMAIN RBody(RTop) /\ ~Present(RItem, version)
    BY <1>2, <2>1
  <2>3. ReadSkip
    BY <2>2, Zenon DEF Read, ReadField, ReadCount, ReadObject, ReadNothing,
                       ReadReturn, WrongTag, ReadAcross, AtRead, AtClassId
  <2>4. /\ robjs' = robjs
        /\ rstack' = <<Past(rstack[1])>> \o Tail(rstack) /\ cursor' = cursor
        /\ error' = error /\ phase' = "reading"
    BY <1>1, <1>2, <2>3 DEF ReadSkip, RContinue, Reading
  <2>5. ~Present(ItemAt(a), OwnVersion(a.objs[n0].vers))
    BY <1>2, <2>1
  <2>6. Follows(Moment(a.objs, Continued(a, Past(Inner(a))), a.out),
                robjs, <<Past(rstack[1])>> \o Tail(rstack), Len(a.out))
    BY <1>2, <1>4, <2>1, <2>5, FollowPlain
  <2>7. Follows(b, robjs', rstack', cursor')
    BY <1>2, <2>1, <2>4, <2>6
  <2> QED
    BY <1>2, <2>4, <2>7 DEF Stepped
<1>10. CASE ReturnStep(a, b)
  <2>1. RTop.pos \notin DOMAIN RBody(RTop)
    BY <1>2, <1>10 DEF ReturnStep
  <2>2. ReadReturn
    BY <2>1, Zenon DEF Read, ReadField, ReadCount, ReadObject, ReadNothing,
                       ReadSkip, WrongTag, ReadAcross, AtRead, AtClassId
  <2>3. /\ robjs' = robjs /\ rstack' = Tail(rstack) /\ cursor' = cursor
        /\ error' = error /\ phase' = (IF Len(rstack) = 1 THEN "done" ELSE "reading")
    BY <1>1, <2>2 DEF ReadReturn, Reading
  <2>4. Len(rstack) = 1 => Tail(rstack) = <<>>
    <3>1. AList(Tail(rstack)) /\ Len(Tail(rstack)) = Len(rstack) - 1
      BY <1>2, Popped
    <3> DEFINE t == Tail(rstack)
    <3> HIDE DEF t
    <3>2. Len(rstack) = 1 => Len(t) = 0
      BY <3>1 DEF t
    <3>3. AList(t)
      BY <3>1 DEF t
    <3>4. Len(t) = 0 => t = <<>>
      BY <3>3, ListIs
    <3> QED
      BY <3>2, <3>4 DEF t
  <2>5. Follows(b, robjs', rstack', cursor')
    BY <1>2, <1>10, <2>3, FollowReturn
  <2> QED
    BY <1>2, <2>3, <2>4, <2>5 DEF Stepped
<1> QED
  BY <1>2, <1>5, <1>6, <1>7, <1>8, <1>9, <1>10 DEF WriteStep

LEMMA ReadStepFollows ==
  ASSUME BodiesAgree, VersionIsOwn, SameGates, ListsFit, AList(robjs), AList(rstack),
         wstack = <<>>,
         NEW W, NEW K, History(W, K, Now), NEW k \in 1 .. K,
         Follows(W[k], robjs, rstack, cursor),
         Read, tampered' = "no"
  PROVE  k + 1 \in 1 .. K /\ Stepped(W[k + 1])
<1>1. Reading
  BY DEF Read, ReadField, ReadCount, ReadObject, ReadNothing, ReadSkip, ReadReturn,
         WrongTag, ReadAcross, AtRead, AtClassId
<1>2. k + 1 \in 1 .. K /\ Facing(W[k], W[k + 1])
  BY <1>1, ReaderIsAt DEF Facing
<1>3. ASSUME NEW a, NEW b, Follows(a, robjs, rstack, cursor), Facing(a, b)
      PROVE  Stepped(b)
  BY <1>3, ReadFaced
<1> QED
  BY <1>2, <1>3

-----------------------------------------------------------------------------
(* The invariant: the tree has a history, and the reader follows it.       *)
Begun == \E W, K : History(W, K, Now)
Followed == \E W, K : /\ History(W, K, Now)
                      /\ \E k \in 1 .. K : Follows(W[k], robjs, rstack, cursor)

Faithful ==
  /\ tampered = "no" => /\ phase # "garbled" /\ error = FALSE /\ Followed
                        /\ phase = "done" => rstack = <<>>
  /\ tampered = "cut" => phase = "done" /\ AllTrue(robjs)

TreeInv ==
  /\ Begun
  /\ tampered \in {"no", "cut", "foreign"}
  /\ phase = "writing" => /\ robjs = <<>> /\ rstack = <<>> /\ cursor = 0
                          /\ tampered = "no" /\ error = FALSE
  /\ phase # "writing" => wstack = <<>>
  /\ phase # "writing" /\ SameGates /\ ListsFit => Faithful

LEMMA TreeInvInit == Init => TreeInv
<1> SUFFICES ASSUME Init  PROVE TreeInv
  OBVIOUS
<1>1. PICK c \in Roots, v \in RecordVersions : objs = <<Record(1, c, v)>> /\ stream = Header(1, c, v)
  BY DEF Init
<1>2. c \in Classes /\ v \in Nat /\ (~has_version => v = 0)
  <2>1. c \in Classes
    BY LayoutAssumption
  <2>2. v \in Nat
    BY BoundAssumption DEF RecordVersions
  <2>3. ~has_version => v = 0
    BY DEF RecordVersions
  <2> QED
    BY <2>1, <2>2, <2>3
<1>3. wstack = <<Frame(1, 0)>> /\ phase = "writing" /\ tampered = "no" /\ robjs = <<>>
      /\ rstack = <<>> /\ cursor = 0 /\ error = FALSE
  BY DEF Init
<1>4. Now = Moment(<<Record(1, c, v)>>, <<Frame(1, 0)>>, Header(1, c, v))
  BY <1>1, <1>3 DEF Now
<1>5. Begun
  BY <1>2, <1>4, HistoryBegins DEF Begun
<1> QED
  BY <1>3, <1>5 DEF TreeInv

LEMMA BegunStays ==
  ASSUME Begun, UNCHANGED <<has_version, wversion, objs, wstack, stream>>
  PROVE  Begun'
<1>1. PICK W, K : History(W, K, Now)
  BY DEF Begun
<1>2. History(W, K, Moment(objs', wstack', stream'))
  BY <1>1 DEF Now
<1>3. History(W, K, Now)'
  BY <1>2, HistoryStays DEF Settings
<1> QED
  BY <1>3 DEF Begun

LEMMA WriteKeepsTree ==
  ASSUME BodiesAgree, TreeInv, Write
  PROVE  TreeInv'
<1>1. wstack # <<>>
  BY DEF Write, WriteField, WriteNull, WriteCount, WriteObject, WriteSkip, WriteReturn, AtWrite
<1>2. UNCHANGED <<phase, has_version, wversion, tampered, robjs, rstack, cursor, error>>
  BY DEF Write, WriteField, WriteNull, WriteCount, WriteObject, WriteSkip, WriteReturn, reading
<1>3. phase = "writing" /\ Begun /\ tampered \in {"no", "cut", "foreign"}
      /\ robjs = <<>> /\ rstack = <<>> /\ cursor = 0 /\ tampered = "no" /\ error = FALSE
  BY <1>1 DEF TreeInv
<1>4. PICK W, K : History(W, K, Now)
  BY <1>3 DEF Begun
<1>5. Written(Now)
  BY <1>4 DEF History
<1>6. WriteStep(Now, Moment(objs', wstack', stream'))
  BY <1>5, WriteIsStep
<1>7. PICK V : History(V, K + 1, Moment(objs', wstack', stream'))
  BY <1>4, <1>6, HistoryGoesOn
<1>8. History(V, K + 1, Now)'
  BY <1>2, <1>7, HistoryStays DEF Settings
<1>9. Begun'
  BY <1>8 DEF Begun
<1> QED
  BY <1>2, <1>3, <1>9 DEF TreeInv

(* The first record.                                                       *)
LEMMA RootFollows ==
  ASSUME NEW a, NEW c \in Classes, NEW v, ~has_version => v = 0,
         a = Moment(<<Record(1, c, v)>>, <<Frame(1, 0)>>, Header(1, c, v)), NEW saved
  PROVE  Follows(a, Append(<<>>, NewObject(c, v)), <<Frame(Len(<<>>) + 1, saved)>> \o <<>>,
                 Len(Header(1, c, v)))
<1> DEFINE z == Moment(<<>>, <<>>, <<>>)
<1>1. AList(<<>>) /\ Len(<<>>) = 0
  BY DEF AList
<1>2. z.objs = <<>> /\ z.stack = <<>> /\ z.out = <<>>
  BY MomentIs
<1>3. Follows(z, <<>>, <<>>, 0)
  BY <1>1, <1>2 DEF Follows, SameFrames
<1> HIDE DEF z
<1>4. Frame(Len(z.objs) + 1, 0) = Frame(1, 0) /\ Len(z.objs) + 1 = 1
  BY <1>1, <1>2
<1>5. Follows(Moment(Append(z.objs, Record(Len(z.objs) + 1, c, v)),
                     <<Frame(Len(z.objs) + 1, 0)>> \o z.stack, Header(1, c, v)),
              Append(<<>>, NewObject(c, v)), <<Frame(Len(<<>>) + 1, saved)>> \o <<>>,
              Len(Header(1, c, v)))
  BY <1>3, FollowsPushed
<1>6. \A e : Append(<<>>, e) = <<e>> /\ <<e>> \o <<>> = <<e>>
  OBVIOUS
<1>7. Moment(Append(z.objs, Record(Len(z.objs) + 1, c, v)),
             <<Frame(Len(z.objs) + 1, 0)>> \o z.stack, Header(1, c, v)) = a
  BY <1>2, <1>4, <1>6
<1> QED
  BY <1>5, <1>7

LEMMA StartKeepsTree ==
  ASSUME TreeInv, StartRead
  PROVE  TreeInv'
<1>1. /\ phase = "writing" /\ wstack = <<>> /\ phase' = "reading"
      /\ UNCHANGED <<has_version, wversion, objs, wstack, stream, tampered, error>>
      /\ ReadKnown(<<>>, <<>>)
  BY DEF StartRead, writing
<1>2. Begun /\ tampered = "no" /\ error = FALSE /\ robjs = <<>> /\ rstack = <<>> /\ cursor = 0
  BY <1>1 DEF TreeInv
<1>3. Begun'
  BY <1>1, <1>2, BegunStays
<1>4. PICK W, K : History(W, K, Now)
  BY <1>2 DEF Begun
<1>5. PICK c \in Classes, v \in Nat :
         /\ ~has_version => v = 0
         /\ W[1] = Moment(<<Record(1, c, v)>>, <<Frame(1, 0)>>, Header(1, c, v))
  BY <1>4 DEF History
<1>6. 1 \in 1 .. K /\ Grows(W[1], Now)
  BY <1>4 DEF History
<1> DEFINE h == Header(1, c, v)
<1>7. /\ AList(h) /\ Len(h) = (IF has_version THEN 3 ELSE 2)
      /\ h[1] = ClassToken(c)
      /\ has_version => h[3] = Token("dword", "vers", v)
  BY HeaderIs
<1>8. c = h[1].val /\ (has_version => h[3].val = v)
  BY <1>7 DEF ClassToken, Token
<1>9. W[1].out = h
  BY <1>5, MomentIs
<1> HIDE DEF h
<1>10. Prefix(h, stream)
  BY <1>6, <1>9, NowIs DEF Grows
<1>11. 1 \in 1 .. Len(h) /\ (has_version => 3 \in 1 .. Len(h))
  BY <1>7
<1>12. stream[1].val = c /\ (has_version => stream[3].val = v)
  BY <1>8, <1>10, <1>11 DEF Prefix
<1>13. NextToken.val = c /\ (IF has_version THEN stream[cursor + 3].val ELSE 0) = v
  BY <1>2, <1>5, <1>12 DEF NextToken
<1>14. /\ robjs' = Append(<<>>, NewObject(c, v))
       /\ rstack' = <<Frame(Len(<<>>) + 1, version)>> \o <<>>
       /\ cursor' = cursor + (IF has_version THEN 3 ELSE 2)
  BY <1>1, <1>13 DEF ReadKnown
<1>15. cursor' = Len(h)
  BY <1>2, <1>7, <1>14
<1>16. Follows(W[1], robjs', rstack', cursor')
  BY <1>5, <1>14, <1>15, RootFollows DEF h
<1>17. History(W, K, Now)'
  <2>1. History(W, K, Moment(objs', wstack', stream'))
    BY <1>1, <1>4 DEF Now
  <2> QED
    BY <1>1, <2>1, HistoryStays DEF Settings
<1>18. Followed'
  BY <1>6, <1>16, <1>17 DEF Followed
<1> QED
  BY <1>1, <1>2, <1>3, <1>18 DEF TreeInv, Faithful

(* The gates and the counts do not change once the tree is written.        *)
LEMMA GatesStay ==
  ASSUME UNCHANGED <<has_version, wversion, objs, stream>>
  PROVE  (SameGates' <=> SameGates) /\ (ListsFit' <=> ListsFit)
<1>1. SameGates' <=> SameGates
  BY DEF SameGates, OwnVersion
<1>2. ListsFit' <=> ListsFit
  BY DEF ListsFit
<1> QED
  BY <1>1, <1>2

LEMMA TrueStays ==
  ASSUME UNCHANGED objs, AllTrue(robjs')
  PROVE  AllTrue(robjs)'
  BY DEF AllTrue

LEMMA ReadFrame ==
  ASSUME TreeInv, Reading
  PROVE  phase = "reading" /\ wstack = <<>> /\ Begun /\ rstack # <<>>
  BY DEF TreeInv, Reading

LEMMA ReadKeepsTree ==
  ASSUME BodiesAgree, VersionInv, TreeInv, Read
  PROVE  TreeInv'
<1>1. Reading
  BY DEF Read, ReadField, ReadCount, ReadObject, ReadNothing, ReadSkip, ReadReturn,
         WrongTag, ReadAcross, AtRead, AtClassId
<1>2. /\ UNCHANGED <<has_version, wversion, objs, wstack, stream>>
      /\ tampered' = tampered \/ tampered' = "foreign"
      /\ phase' \in {"reading", "done", "garbled"}
  BY <1>1 DEF Read, ReadField, ReadCount, ReadObject, ReadNothing, ReadSkip, ReadReturn,
         WrongTag, ReadAcross, Fail, Reading, writing
<1>3. phase = "reading" /\ wstack = <<>> /\ Begun /\ rstack # <<>>
  BY <1>1, ReadFrame
<1>4. Begun'
  BY <1>2, <1>3, BegunStays
<1>5. tampered' \in {"no", "cut", "foreign"}
  BY <1>2 DEF TreeInv
<1>6. ASSUME SameGates', ListsFit'  PROVE Faithful'
  <2>1. SameGates /\ ListsFit
    BY <1>2, <1>6, GatesStay
  <2>2. Faithful
    BY <1>3, <2>1 DEF TreeInv
  <2>3. tampered # "cut"
    BY <1>3, <2>2 DEF Faithful
  <2>4. tampered' # "cut"
    BY <1>2, <2>3
  <2>5. ASSUME tampered' = "no"
        PROVE  phase' # "garbled" /\ error' = FALSE /\ Followed' /\ (phase' = "done" => rstack' = <<>>)
    <3>1. error = FALSE /\ Followed
      BY <1>2, <2>2, <2>5 DEF Faithful
    <3>2. PICK W, K : /\ History(W, K, Now)
                      /\ \E k \in 1 .. K : Follows(W[k], robjs, rstack, cursor)
      BY <3>1 DEF Followed
    <3>3. PICK k \in 1 .. K : Follows(W[k], robjs, rstack, cursor)
      BY <3>2
    <3>4. VersionIsOwn /\ AList(robjs) /\ AList(rstack)
      BY VersionInvGivesOwn DEF VersionInv, Nested
    <3>5. k + 1 \in 1 .. K /\ Stepped(W[k + 1])
      BY <1>3, <2>1, <2>5, <3>2, <3>3, <3>4, ReadStepFollows
    <3>6. History(W, K, Moment(objs', wstack', stream'))
      BY <1>2, <3>2 DEF Now
    <3>7. History(W, K, Now)'
      BY <1>2, <3>6, HistoryStays DEF Settings
    <3>8. Followed'
      BY <3>5, <3>7 DEF Followed, Stepped
    <3> QED
      BY <3>1, <3>5, <3>8 DEF Stepped
  <2> QED
    BY <2>4, <2>5 DEF Faithful
<1>7. phase' # "writing" /\ wstack' = <<>>
  BY <1>2, <1>3
<1> QED
  BY <1>4, <1>5, <1>6, <1>7 DEF TreeInv

LEMMA FailFrame ==
  ASSUME TreeInv, Reading, Fail, tampered' = "cut",
         SameGates /\ ListsFit => AllTrue(robjs')
  PROVE  TreeInv'
<1>1. UNCHANGED <<has_version, wversion, objs, wstack, stream>> /\ phase' = "done"
  BY DEF Fail, writing
<1>2. wstack = <<>> /\ Begun
  BY ReadFrame
<1>3. Begun'
  BY <1>1, <1>2, BegunStays
<1>4. ASSUME SameGates', ListsFit'  PROVE Faithful'
  <2>1. SameGates /\ ListsFit
    BY <1>1, <1>4, GatesStay
  <2>2. AllTrue(robjs)'
    BY <1>1, <2>1, TrueStays
  <2> QED
    BY <1>1, <2>2 DEF Faithful
<1> QED
  BY <1>1, <1>2, <1>3, <1>4 DEF TreeInv

LEMMA FileEndKeepsTree ==
  ASSUME TreeInv, FileEnds
  PROVE  TreeInv'
<1>1. Reading /\ Fail /\ tampered = "no" /\ tampered' = "cut" /\ robjs' = robjs
  BY DEF FileEnds, AtRead
<1>2. ASSUME SameGates, ListsFit  PROVE AllTrue(robjs')
  <2>1. Followed
    BY <1>1, <1>2, ReadFrame DEF TreeInv, Faithful
  <2>2. PICK W, K : /\ History(W, K, Now)
                    /\ \E k \in 1 .. K : Follows(W[k], robjs, rstack, cursor)
    BY <2>1 DEF Followed
  <2>3. PICK k \in 1 .. K : Follows(W[k], robjs, rstack, cursor)
    BY <2>2
  <2>4. Grows(W[k], Now)
    BY <2>2 DEF History
  <2>5. AllTrue(robjs)
    BY <2>3, <2>4, FollowsIsTrue
  <2> QED
    BY <1>1, <2>5
<1> QED
  BY <1>1, <1>2, FailFrame

(* A record whose header is cut is one the writer put there.               *)
LEMMA CutHeaderIsTrue ==
  ASSUME BodiesAgree,
         NEW a, NEW b, Follows(a, robjs, rstack, cursor), Facing(a, b), Grows(b, Now),
         AtClassId, NextToken.val \in Classes
  PROVE  AllTrue(Append(Linked(robjs, RTop, RItem, Len(robjs) + 1),
                        NewObject(NextToken.val, 0)))
<1>1. /\ Written(a) /\ WriteStep(a, b) /\ AList(b.out)
      /\ AList(a.out) /\ cursor = Len(a.out) /\ Prefix(b.out, stream)
      /\ rstack # <<>> /\ RTop = rstack[1]
      /\ InBody(a) <=> RTop.pos \in DOMAIN RBody(RTop)
      /\ RItem = ItemAt(a) /\ RTop.left = Inner(a).left
      /\ InBody(a) => (Present(ItemAt(a), version) <=> Present(ItemAt(a), wversion))
  BY DEF Facing, Prefix
<1>2. /\ InBody(a) /\ ItemAt(a).kind \in {"sub", "list"} /\ Present(ItemAt(a), wversion)
      /\ ItemAt(a).kind = "list" => Inner(a).left > 0
  BY <1>1 DEF AtClassId, AtRead
<1>3. ~FieldStep(a, b) /\ ~SkipStep(a, b) /\ ~ReturnStep(a, b)
  BY <1>2 DEF FieldStep, SkipStep, ReturnStep, Asks, ScalarKinds
<1>4. ~CountStep(a, b)
  BY <1>2 DEF CountStep, Asks
<1>5. ~NullStep(a, b)
  <2> SUFFICES ASSUME NullStep(a, b)  PROVE FALSE
    OBVIOUS
  <2> DEFINE e == ClassToken(NoClass)
  <2>1. Puts(b, Append(a.out, e))
    BY DEF NullStep, Puts
  <2>2. e.val = NoClass
    BY DEF ClassToken, Token
  <2> HIDE DEF e
  <2>3. Reads(a, b)
    BY <1>1 DEF Reads
  <2>4. NextToken = e
    BY <2>1, <2>3, StepToken
  <2> QED
    BY <2>2, <2>4, IdAssumption
<1>6. ObjectStep(a, b)
  BY <1>1, <1>3, <1>4, <1>5 DEF WriteStep
<1> DEFINE n == Len(a.objs) + 1
           po == Linked(robjs, rstack[1], ItemAt(a), Len(robjs) + 1)
<1>7. PICK c \in Classes, v \in Nat :
         /\ ~has_version => v = 0
         /\ b = Moment(Append(Hung(a), Record(n, c, v)),
                       <<Frame(n, 0)>> \o Continued(a, PastItem(Inner(a))),
                       a.out \o Header(n, c, v))
  BY <1>6 DEF ObjectStep
<1>8. Asks(a, {"sub", "list"})
  BY <1>6 DEF ObjectStep
<1> HIDE DEF n
<1>9. NextToken.val = c
  <2>1. Reads(a, b) /\ Puts(b, a.out \o Header(n, c, v))
    BY <1>1, <1>7 DEF Reads, Puts
  <2>2. HeaderTaken(b, c, v)
    BY <2>1, StepHeader, Zenon
  <2> QED
    BY <2>2 DEF HeaderTaken, ClassToken, Token
<1>10. Follows(Moment(Append(Hung(a), Record(n, c, v)),
                      <<Frame(n, 0)>> \o Continued(a, PastItem(Inner(a))), a.out \o Header(n, c, v)),
               Append(po, NewObject(c, v)),
               <<Frame(Len(robjs) + 1, version)>> \o (<<PastItem(rstack[1])>> \o Tail(rstack)),
               Len(a.out \o Header(n, c, v)))
  BY <1>1, <1>7, <1>8, FollowObject DEF n
<1>11. AList(po)
  <2>1. Follows(Moment(Hung(a), Continued(a, PastItem(Inner(a))), a.out), po,
                <<PastItem(rstack[1])>> \o Tail(rstack), cursor)
    BY <1>1, <1>8, FollowHung
  <2> QED
    BY <2>1 DEF Follows
<1> HIDE DEF po
<1>12. AllTrue(Append(po, NewObject(c, v)))
  BY <1>7, <1>10, FollowsIsTrue
<1>13. AllTrue(Append(po, NewObject(c, 0)))
  BY <1>11, <1>12, HeaderCutIsTrue
<1> QED
  BY <1>1, <1>9, <1>13 DEF po

LEMMA HeaderEndKeepsTree ==
  ASSUME BodiesAgree, VersionInv, TreeInv, FileEndsInHeader
  PROVE  TreeInv'
<1>1. /\ Reading /\ Fail /\ tampered = "no" /\ tampered' = "cut"
      /\ AtClassId /\ NextToken.val \in Classes
      /\ robjs' = Append(Linked(robjs, RTop, RItem, Len(robjs) + 1), NewObject(NextToken.val, 0))
  BY DEF FileEndsInHeader, AtClassId, AtRead
<1>2. ASSUME SameGates, ListsFit  PROVE AllTrue(robjs')
  <2>1. Followed
    BY <1>1, <1>2, ReadFrame DEF TreeInv, Faithful
  <2>2. PICK W, K : /\ History(W, K, Now)
                    /\ \E k \in 1 .. K : Follows(W[k], robjs, rstack, cursor)
    BY <2>1 DEF Followed
  <2>3. PICK k \in 1 .. K : Follows(W[k], robjs, rstack, cursor)
    BY <2>2
  <2>4. VersionIsOwn /\ wstack = <<>>
    BY <1>1, ReadFrame, VersionInvGivesOwn
  <2>5. Facing(W[k], W[k + 1]) /\ Grows(W[k + 1], Now)
    BY <1>1, <1>2, <2>2, <2>3, <2>4, ReaderIsAt DEF Facing
  <2>6. ASSUME NEW a, NEW b, Follows(a, robjs, rstack, cursor), Facing(a, b), Grows(b, Now)
        PROVE  AllTrue(Append(Linked(robjs, RTop, RItem, Len(robjs) + 1),
                              NewObject(NextToken.val, 0)))
    BY <1>1, <2>6, CutHeaderIsTrue
  <2> QED
    BY <1>1, <2>3, <2>5, <2>6
<1> QED
  BY <1>1, <1>2, FailFrame

LEMMA StutterKeepsTree ==
  ASSUME TreeInv, UNCHANGED vars
  PROVE  TreeInv'
<1>1. UNCHANGED <<phase, has_version, wversion, objs, wstack, stream, tampered,
                  robjs, rstack, cursor, error>>
  BY DEF vars, writing, reading
<1>2. Begun /\ Begun'
  BY <1>1, BegunStays DEF TreeInv
<1>3. Followed => Followed'
  <2> SUFFICES ASSUME Followed  PROVE Followed'
    OBVIOUS
  <2>2. PICK W, K : /\ History(W, K, Now)
                    /\ \E k \in 1 .. K : Follows(W[k], robjs, rstack, cursor)
    BY DEF Followed
  <2>3. History(W, K, Moment(objs', wstack', stream'))
    BY <1>1, <2>2 DEF Now
  <2>4. History(W, K, Now)'
    BY <1>1, <2>3, HistoryStays DEF Settings
  <2> QED
    BY <1>1, <2>2, <2>4 DEF Followed
<1>4. AllTrue(robjs) => AllTrue(robjs)'
  BY <1>1, TrueStays
<1>5. Faithful => Faithful'
  BY <1>1, <1>3, <1>4 DEF Faithful
<1>6. (SameGates' <=> SameGates) /\ (ListsFit' <=> ListsFit)
  BY <1>1, GatesStay
<1> QED
  BY <1>1, <1>2, <1>5, <1>6 DEF TreeInv

LEMMA NextKeepsTree ==
  ASSUME BodiesAgree, VersionInv, TreeInv, [Next]_vars
  PROVE  TreeInv'
<1>1. CASE Write
  BY <1>1, WriteKeepsTree
<1>2. CASE StartRead
  BY <1>2, StartKeepsTree
<1>3. CASE Read
  BY <1>3, ReadKeepsTree
<1>4. CASE FileEnds
  BY <1>4, FileEndKeepsTree
<1>5. CASE FileEndsInHeader
  BY <1>5, HeaderEndKeepsTree
<1>6. CASE UNCHANGED vars
  BY <1>6, StutterKeepsTree
<1> QED
  BY <1>1, <1>2, <1>3, <1>4, <1>5, <1>6 DEF Next

LEMMA TreeReadsBack == TreeInv => ReadsBack
<1> SUFFICES ASSUME TreeInv, phase \in {"done", "garbled"}, tampered = "no", SameGates, ListsFit
             PROVE  Accepted /\ robjs = objs
  BY DEF ReadsBack
<1>1. phase = "done" /\ error = FALSE /\ rstack = <<>> /\ Followed /\ wstack = <<>>
  BY DEF TreeInv, Faithful
<1>2. PICK W, K : /\ History(W, K, Now)
                  /\ \E k \in 1 .. K : Follows(W[k], robjs, rstack, cursor)
  BY <1>1 DEF Followed
<1>3. PICK k \in 1 .. K : Follows(W[k], robjs, rstack, cursor)
  BY <1>2
<1>4. Written(W[k])
  BY <1>2 DEF History
<1>5. W[k].stack = <<>> /\ robjs = W[k].objs /\ cursor = Len(W[k].out)
  BY <1>1, <1>3, <1>4, FollowedToTheEnd
<1>6. k = K
  <2> SUFFICES ASSUME k # K  PROVE FALSE
    OBVIOUS
  <2>1. k \in 1 .. K - 1
    BY <1>2 DEF History
  <2>2. WriteStep(W[k], W[k + 1])
    BY <1>2, <2>1 DEF History
  <2> QED
    BY <1>5, <2>2 DEF WriteStep, FieldStep, NullStep, CountStep, ObjectStep, SkipStep,
                      ReturnStep, Asks, InBody
<1>7. W[K].objs = objs /\ W[K].out = stream
  BY <1>2, NowIs DEF History
<1> QED
  BY <1>1, <1>5, <1>6, <1>7 DEF Accepted

LEMMA TreeCutReadsTrue == TreeInv => CutFileReadsTrue
<1> SUFFICES ASSUME TreeInv, tampered # "foreign", SameGates, ListsFit
             PROVE  AllTrue(robjs)
  BY DEF CutFileReadsTrue, AllTrue, TrueTo
<1>1. CASE phase = "writing"
  BY <1>1 DEF TreeInv, AllTrue
<1>2. CASE phase # "writing" /\ tampered = "cut"
  BY <1>2 DEF TreeInv, Faithful
<1>3. CASE phase # "writing" /\ tampered = "no"
  <2>1. PICK W, K : /\ History(W, K, Now)
                    /\ \E k \in 1 .. K : Follows(W[k], robjs, rstack, cursor)
    BY <1>3 DEF TreeInv, Faithful, Followed
  <2>2. PICK k \in 1 .. K : Follows(W[k], robjs, rstack, cursor)
    BY <2>1
  <2>3. Grows(W[k], Now)
    BY <2>1 DEF History
  <2> QED
    BY <2>2, <2>3, FollowsIsTrue
<1> QED
  BY <1>1, <1>2, <1>3 DEF TreeInv

(* The bodies of the source agree, class by class.                         *)
LEMMA BodiesOfTheSource == WriteBodies = ReadBodies
<1>1. /\ WriteAction = ReadAction /\ WriteActionList = ReadActionList
      /\ WriteAtomicFamily = ReadAtomicFamily /\ WriteBlob = ReadBlob
      /\ WriteCharacterFamily = ReadCharacterFamily
  BY DEF WriteAction, ReadAction, WriteActionList, ReadActionList, WriteAtomicFamily,
         ReadAtomicFamily, WriteBlob, ReadBlob, WriteCharacterFamily, ReadCharacterFamily
<1>2. /\ WriteConversation = ReadConversation /\ WriteEmailFamily = ReadEmailFamily
      /\ WriteHotspotFamily = ReadHotspotFamily /\ WriteIconFamily = ReadIconFamily
  BY DEF WriteConversation, ReadConversation, WriteEmailFamily, ReadEmailFamily,
         WriteHotspotFamily, ReadHotspotFamily, WriteIconFamily, ReadIconFamily
<1>3. WriteGameState = ReadGameState
  BY DEF WriteGameState, ReadGameState
<1>4. /\ WriteListFamily = ReadListFamily /\ WriteNav = ReadNav
      /\ WriteSceneGraph = ReadSceneGraph
  BY DEF WriteListFamily, ReadListFamily, WriteNav, ReadNav, WriteSceneGraph, ReadSceneGraph
<1>5. WriteRemaining = ReadRemaining /\ WriteUiFamily = ReadUiFamily
  BY DEF WriteRemaining, ReadRemaining, WriteUiFamily, ReadUiFamily
<1> QED
  BY <1>1, <1>2, <1>3, <1>4, <1>5 DEF WriteBodies, ReadBodies

CodeLayouts == ReadLayout = ReadBodies /\ WriteLayout = WriteBodies

LEMMA CodeBodiesAgree == CodeLayouts => BodiesAgree
  BY BodiesOfTheSource DEF CodeLayouts, BodiesAgree

(* ReadsBack: what Write produces, Read consumes identically, for every    *)
(* tree, every record version and every length, provided the two bodies of *)
(* a class agree, as those of the source do (CodeBodiesAgree).             *)
THEOREM WrittenTreesReadBack == BodiesAgree => (Spec => []ReadsBack)
<1>1. Init => VersionInv /\ TreeInv
  BY VersionInvInit, TreeInvInit
<1>2. BodiesAgree /\ VersionInv /\ TreeInv /\ [Next]_vars => VersionInv' /\ TreeInv'
  BY NextKeepsVersion, NextKeepsTree
<1>3. TreeInv => ReadsBack
  BY TreeReadsBack
<1> SUFFICES ASSUME BodiesAgree  PROVE Spec => []ReadsBack
  OBVIOUS
<1>4. VersionInv /\ TreeInv /\ [Next]_vars => VersionInv' /\ TreeInv'
  BY <1>2
<1> QED
  BY <1>1, <1>3, <1>4, PTL DEF Spec

(* CutFileReadsTrue: wherever the file ends, the objects read are objects  *)
(* written, every member either as written or still blank.                 *)
THEOREM CutFilesReadTrue == BodiesAgree => (Spec => []CutFileReadsTrue)
<1>1. Init => VersionInv /\ TreeInv
  BY VersionInvInit, TreeInvInit
<1>2. BodiesAgree /\ VersionInv /\ TreeInv /\ [Next]_vars => VersionInv' /\ TreeInv'
  BY NextKeepsVersion, NextKeepsTree
<1>3. TreeInv => CutFileReadsTrue
  BY TreeCutReadsTrue
<1> SUFFICES ASSUME BodiesAgree  PROVE Spec => []CutFileReadsTrue
  OBVIOUS
<1>4. VersionInv /\ TreeInv /\ [Next]_vars => VersionInv' /\ TreeInv'
  BY <1>2
<1> QED
  BY <1>1, <1>3, <1>4, PTL DEF Spec
=============================================================================
