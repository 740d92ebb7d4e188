--------------------------- MODULE ArchiveProofs ---------------------------
(***************************************************************************)
(* What is proved of byte strings and archives: what a slice of a          *)
(* concatenation is, that what the images and their ramdisks are made of   *)
(* stays well formed, that CpioArchive reads what it writes, and that each *)
(* of the two readers of archives refuses what the other writes.           *)
(* Parse and ConcatAll are recursive functions over bytes and over         *)
(* sequences; the facts about them are by induction, in the form of        *)
(* SetInduction.                                                           *)
(***************************************************************************)
EXTENDS MagiskUninstall, SequenceTheorems, WellFoundedInduction, TLAPS

-----------------------------------------------------------------------------
(* Byte strings: slices, concatenation, padding.                            *)

\* The blob p is in b at offset o: each of its atoms, and no other.
Holds(b, o, p) ==
    /\ o + p.size <= b.size
    /\ \A y \in DOMAIN p.at : o + y \in DOMAIN b.at /\ b.at[o + y] = p.at[y]
    /\ \A x \in DOMAIN b.at :
          p.size > 0 /\ x < o + p.size /\ EndOf(b, x) > o => x >= o /\ x - o \in DOMAIN p.at

\* What Slice makes of the atom at x.
Here(b, o, n)  == {x \in DOMAIN b.at : n > 0 /\ x < o + n /\ EndOf(b, x) > o}
Moved(o, x)    == IF x < o THEN 0 ELSE x - o
Cut(b, o, n, y) ==
    LET x == CHOOSE z \in Here(b, o, n) : Moved(o, z) = y
    IN  [size |-> Smaller(EndOf(b, x), o + n) - (o + y),
         val  |-> IF x >= o /\ EndOf(b, x) <= o + n THEN b.at[x].val ELSE Torn]

\* A slice, by these parts.
LEMMA SliceIs ==
    ASSUME NEW b, NEW o, NEW n
    PROVE  Slice(b, o, n)
             = [size |-> n,
                at   |-> [y \in {Moved(o, x) : x \in Here(b, o, n)} |-> Cut(b, o, n, y)]]
BY DEF Slice, Here, Moved, Cut, EndOf

\* A slice of where p is held is p.
LEMMA SliceHeld ==
    ASSUME NEW b, NEW p, IsBlob(b), IsBlob(p), NEW o \in Nat, Holds(b, o, p)
    PROVE  Slice(b, o, p.size) = p
<1> DEFINE n == p.size
           H == Here(b, o, n)
<1>1. \A x \in DOMAIN b.at : x \in Nat /\ b.at[x].size \in Nat \ {0} /\ EndOf(b, x) \in Nat
  BY DEF IsBlob, EndOf
<1>2. n \in Nat /\ p = [size |-> n, at |-> p.at]
  BY DEF IsBlob
<1>3. \A y \in DOMAIN p.at : /\ y \in Nat /\ p.at[y].size \in Nat \ {0} /\ y + p.at[y].size <= n
                             /\ p.at[y] = [size |-> p.at[y].size, val |-> p.at[y].val]
  BY DEF IsBlob, EndOf
<1>4. \A y \in DOMAIN p.at : o + y \in H /\ Moved(o, o + y) = y
  BY <1>2, <1>3 DEF Holds, Here, Moved, EndOf
<1>5. \A x \in H : x >= o /\ x \in Nat /\ x - o \in DOMAIN p.at /\ Moved(o, x) = x - o
  BY <1>1, <1>2 DEF Holds, Here, Moved
<1>6. {Moved(o, x) : x \in H} = DOMAIN p.at
  <2> HIDE DEF H
  <2>1. \A y \in DOMAIN p.at : y \in {Moved(o, x) : x \in H}
    BY <1>4
  <2> QED BY <1>5, <2>1
<1>7. ASSUME NEW y \in DOMAIN p.at PROVE Cut(b, o, n, y) = p.at[y]
  <2>1. (CHOOSE z \in H : Moved(o, z) = y) = o + y
    <3> DEFINE c == CHOOSE z \in H : Moved(o, z) = y
    <3>1. c \in H /\ Moved(o, c) = y
      <4> HIDE DEF H
      <4> QED BY <1>4
    <3> HIDE DEF c
    <3>2. c \in Nat /\ c - o = y
      BY <1>5, <3>1
    <3> QED BY <1>3, <3>2 DEF c
  <2>2. b.at[o + y] = p.at[y] /\ y \in Nat /\ p.at[y].size \in Nat \ {0} /\ y + p.at[y].size <= n
    BY <1>3 DEF Holds
  <2>3. EndOf(b, o + y) = o + y + p.at[y].size
    BY <2>2 DEF EndOf
  <2>4. Smaller(EndOf(b, o + y), o + n) - (o + y) = p.at[y].size
    BY <1>2, <2>2, <2>3 DEF Smaller
  <2>5. o + y >= o /\ EndOf(b, o + y) <= o + n
    BY <1>2, <2>2, <2>3
  <2>6. Cut(b, o, n, y) = [size |-> p.at[y].size, val |-> p.at[y].val]
    BY <2>1, <2>2, <2>4, <2>5 DEF Cut
  <2> QED BY <1>3, <2>6
<1>8. p.at = [y \in DOMAIN p.at |-> p.at[y]]
  BY DEF IsBlob
<1> HIDE DEF n, H
<1>9. [y \in {Moved(o, x) : x \in H} |-> Cut(b, o, n, y)] = p.at
  BY <1>6, <1>7, <1>8
<1> QED BY <1>2, <1>9, SliceIs DEF n, H

\* Two blobs in a row.
Row(a, b, c) ==
    /\ c.size = a.size + b.size /\ c.size \in Nat
    /\ c = [size |-> c.size, at |-> c.at]
    /\ DOMAIN c.at = DOMAIN a.at \cup {a.size + y : y \in DOMAIN b.at}
    /\ \A x \in DOMAIN a.at : x < a.size /\ x \in DOMAIN c.at /\ c.at[x] = a.at[x]
    /\ \A y \in DOMAIN b.at : a.size + y \in DOMAIN c.at /\ c.at[a.size + y] = b.at[y]
    /\ \A x \in DOMAIN c.at : \/ x \in DOMAIN a.at /\ x < a.size /\ c.at[x] = a.at[x]
                              \/ /\ x >= a.size /\ x - a.size \in DOMAIN b.at
                                 /\ c.at[x] = b.at[x - a.size]
    /\ c.at = [x \in DOMAIN c.at |-> c.at[x]]

\* The atoms of a concatenation: those of the first, then those of the second.
LEMMA ConcatAt ==
    ASSUME NEW a, NEW b, IsBlob(a), IsBlob(b)
    PROVE  Row(a, b, Concat(a, b))
<1> DEFINE D == DOMAIN a.at \cup {a.size + y : y \in DOMAIN b.at}
           c == Concat(a, b)
<1>1. /\ a.size \in Nat /\ b.size \in Nat /\ DOMAIN b.at \subseteq Nat
      /\ \A x \in DOMAIN a.at : x \in Nat /\ x < a.size
  <2>1. a.size \in Nat /\ b.size \in Nat /\ DOMAIN b.at \subseteq Nat
    BY DEF IsBlob
  <2>2. ASSUME NEW x \in DOMAIN a.at PROVE x \in Nat /\ x < a.size
    <3>1. x \in Nat /\ a.at[x].size \in Nat \ {0} /\ x + a.at[x].size <= a.size
      BY DEF IsBlob, EndOf
    <3> QED BY <2>1, <3>1
  <2> QED BY <2>1, <2>2
<1>2. c.at = [x \in D |-> IF x < a.size THEN a.at[x] ELSE b.at[x - a.size]]
  BY DEF Concat
<1>3. \A y \in DOMAIN b.at : /\ a.size + y \in D /\ ~(a.size + y < a.size)
                             /\ (a.size + y) - a.size = y
  BY <1>1
<1>4. c.size = a.size + b.size /\ c.size \in Nat /\ c = [size |-> c.size, at |-> c.at]
  BY <1>1 DEF Concat
<1>5. \A x \in D : \/ x \in DOMAIN a.at /\ x < a.size
                   \/ x >= a.size /\ x - a.size \in DOMAIN b.at /\ ~(x < a.size)
  BY <1>1, <1>3
<1> HIDE DEF c
<1>6. DOMAIN c.at = D
  BY <1>2
<1>7. \A x \in DOMAIN a.at : x < a.size /\ x \in DOMAIN c.at /\ c.at[x] = a.at[x]
  BY <1>1, <1>2, <1>6
<1>8. \A y \in DOMAIN b.at : a.size + y \in DOMAIN c.at /\ c.at[a.size + y] = b.at[y]
  <2> TAKE y \in DOMAIN b.at
  <2>1. c.at[a.size + y] = b.at[(a.size + y) - a.size]
    BY <1>2, <1>3
  <2> QED BY <1>3, <1>6, <2>1
<1>9. \A x \in DOMAIN c.at : \/ x \in DOMAIN a.at /\ x < a.size /\ c.at[x] = a.at[x]
                             \/ /\ x >= a.size /\ x - a.size \in DOMAIN b.at
                                /\ c.at[x] = b.at[x - a.size]
  BY <1>2, <1>5, <1>6, <1>7
<1>10. c.at = [x \in DOMAIN c.at |-> c.at[x]]
  BY <1>2, <1>6
<1>11. Row(a, b, c)
  BY <1>4, <1>6, <1>7, <1>8, <1>9, <1>10 DEF Row
<1> QED BY <1>11 DEF c

\* What an atom of a blob is.
LEMMA AtomIn ==
    ASSUME NEW b, IsBlob(b), NEW x \in DOMAIN b.at
    PROVE  /\ x \in Nat /\ b.at[x].size \in Nat \ {0} /\ b.size \in Nat
           /\ EndOf(b, x) = x + b.at[x].size /\ EndOf(b, x) \in Nat
           /\ EndOf(b, x) <= b.size /\ x < b.size
           /\ b.at[x] = [size |-> b.at[x].size, val |-> b.at[x].val]
<1>1. /\ x \in Nat /\ b.at[x].size \in Nat \ {0} /\ b.size \in Nat
      /\ EndOf(b, x) = x + b.at[x].size /\ EndOf(b, x) <= b.size
      /\ b.at[x] = [size |-> b.at[x].size, val |-> b.at[x].val]
  BY DEF IsBlob, EndOf
<1>2. EndOf(b, x) \in Nat /\ x < b.size
  BY <1>1
<1> QED BY <1>1, <1>2

\* A concatenation is well formed, and as long as both.
LEMMA ConcatIsBlob ==
    ASSUME NEW a, NEW b, IsBlob(a), IsBlob(b)
    PROVE  IsBlob(Concat(a, b)) /\ Concat(a, b).size = a.size + b.size
<1> DEFINE c == Concat(a, b)
<1>0. a.size \in Nat /\ b.size \in Nat
  BY DEF IsBlob
<1>1. /\ c.size = a.size + b.size /\ c.size \in Nat
      /\ c = [size |-> c.size, at |-> c.at]
      /\ \A x \in DOMAIN a.at : x < a.size /\ c.at[x] = a.at[x]
      /\ \A y \in DOMAIN b.at : c.at[a.size + y] = b.at[y]
      /\ \A x \in DOMAIN c.at : \/ x \in DOMAIN a.at /\ x < a.size
                                \/ /\ x >= a.size /\ x - a.size \in DOMAIN b.at
                                   /\ c.at[x] = b.at[x - a.size]
      /\ c.at = [x \in DOMAIN c.at |-> c.at[x]]
      /\ DOMAIN c.at = DOMAIN a.at \cup {a.size + y : y \in DOMAIN b.at}
  BY ConcatAt DEF Row
<1> HIDE DEF c
<1>2. ASSUME NEW x \in DOMAIN c.at
      PROVE  /\ x \in Nat /\ c.at[x].size \in Nat \ {0} /\ EndOf(c, x) = x + c.at[x].size
             /\ EndOf(c, x) <= c.size
             /\ x \in DOMAIN a.at => EndOf(c, x) = EndOf(a, x) /\ EndOf(c, x) <= a.size
             /\ x \notin DOMAIN a.at => /\ x >= a.size /\ x - a.size \in DOMAIN b.at
                                        /\ EndOf(c, x) = a.size + EndOf(b, x - a.size)
             /\ c.at[x] = [size |-> c.at[x].size, val |-> c.at[x].val]
  <2>1. EndOf(c, x) = x + c.at[x].size
    BY DEF EndOf
  <2>2. CASE x \in DOMAIN a.at
    <3>1. /\ x \in Nat /\ a.at[x].size \in Nat \ {0} /\ EndOf(a, x) = x + a.at[x].size
          /\ EndOf(a, x) <= a.size /\ EndOf(a, x) \in Nat
          /\ a.at[x] = [size |-> a.at[x].size, val |-> a.at[x].val]
      BY <2>2, AtomIn
    <3>2. c.at[x] = a.at[x]
      BY <1>1, <2>2
    <3>3. EndOf(c, x) = EndOf(a, x)
      BY <2>1, <3>1, <3>2
    <3>4. EndOf(c, x) <= c.size
      BY <1>0, <1>1, <3>1, <3>3
    <3> QED BY <2>1, <2>2, <3>1, <3>2, <3>3, <3>4
  <2>3. CASE x \notin DOMAIN a.at
    <3>1. x >= a.size /\ x - a.size \in DOMAIN b.at /\ c.at[x] = b.at[x - a.size]
      BY <1>1, <2>3
    <3>2. PICK y \in DOMAIN b.at : x = a.size + y
      BY <1>1, <2>3
    <3>3. /\ y \in Nat /\ b.at[y].size \in Nat \ {0} /\ EndOf(b, y) = y + b.at[y].size
          /\ EndOf(b, y) <= b.size
          /\ b.at[y] = [size |-> b.at[y].size, val |-> b.at[y].val]
      BY AtomIn
    <3>4. x - a.size = y /\ c.at[x] = b.at[y]
      BY <1>0, <3>1, <3>2, <3>3
    <3> QED BY <1>0, <1>1, <2>1, <2>3, <3>1, <3>2, <3>3, <3>4
  <2> QED BY <2>2, <2>3
<1>3. ASSUME NEW x \in DOMAIN c.at, NEW y \in DOMAIN c.at, x < y PROVE EndOf(c, x) <= y
  <2>1. CASE x \in DOMAIN a.at /\ y \in DOMAIN a.at
    <3>1. EndOf(a, x) <= y
      BY <1>3, <2>1 DEF IsBlob
    <3> QED BY <1>2, <2>1, <3>1
  <2>2. CASE x \in DOMAIN a.at /\ y \notin DOMAIN a.at
    <3>1. EndOf(c, x) <= a.size /\ EndOf(c, x) \in Nat /\ y >= a.size /\ y \in Nat
      <4>1. x \in Nat /\ c.at[x].size \in Nat /\ EndOf(c, x) = x + c.at[x].size
        BY <1>2
      <4>2. EndOf(c, x) \in Nat
        BY <4>1
      <4> QED BY <1>2, <2>2, <4>2
    <3> QED BY <1>0, <3>1
  <2>3. CASE x \notin DOMAIN a.at
    <3>1. x >= a.size /\ x \in Nat /\ y \in Nat
      BY <1>2, <2>3
    <3>2. y \notin DOMAIN a.at
      <4>1. y \in DOMAIN a.at => y < a.size
        BY <1>1
      <4> QED BY <1>0, <1>3, <3>1, <4>1
    <3>3. x - a.size \in DOMAIN b.at /\ y - a.size \in DOMAIN b.at /\ y >= a.size
      BY <1>2, <2>3, <3>2
    <3>4. x - a.size < y - a.size
      BY <1>0, <1>3, <3>1
    <3>5. EndOf(b, x - a.size) <= y - a.size
      BY <3>3, <3>4 DEF IsBlob
    <3>6. EndOf(c, x) = a.size + EndOf(b, x - a.size) /\ EndOf(b, x - a.size) \in Nat
      <4>1. EndOf(b, x - a.size) \in Nat
        BY <3>3, AtomIn
      <4> QED BY <1>2, <2>3, <4>1
    <3> QED BY <1>0, <3>1, <3>5, <3>6
  <2> QED BY <2>1, <2>2, <2>3
<1>4. c.at = [x \in DOMAIN c.at |-> [size |-> c.at[x].size, val |-> c.at[x].val]]
  <2>1. \A x \in DOMAIN c.at : c.at[x] = [size |-> c.at[x].size, val |-> c.at[x].val]
    BY <1>2
  <2> QED BY <1>1, <2>1
<1>5. IsBlob(c)
  BY <1>1, <1>2, <1>3, <1>4 DEF IsBlob
<1> QED BY <1>1, <1>5 DEF c

\* What the first of two blobs holds, both hold, and what the second holds.
LEMMA HoldsLeft ==
    ASSUME NEW a, NEW b, NEW p, NEW o \in Nat, IsBlob(a), IsBlob(b), IsBlob(p), Holds(a, o, p)
    PROVE  Holds(Concat(a, b), o, p)
<1> DEFINE c == Concat(a, b)
<1>0. a.size \in Nat /\ b.size \in Nat /\ p.size \in Nat
  BY DEF IsBlob
<1>1. IsBlob(c) /\ c.size = a.size + b.size
  BY ConcatIsBlob
<1>r. Row(a, b, c)
  BY ConcatAt
<1> HIDE DEF c
<1>2. /\ \A x \in DOMAIN a.at : x < a.size /\ x \in DOMAIN c.at /\ c.at[x] = a.at[x]
      /\ \A y \in DOMAIN b.at : a.size + y \in DOMAIN c.at /\ c.at[a.size + y] = b.at[y]
      /\ \A x \in DOMAIN c.at : \/ x \in DOMAIN a.at /\ x < a.size /\ c.at[x] = a.at[x]
                                \/ /\ x >= a.size /\ x - a.size \in DOMAIN b.at
                                   /\ c.at[x] = b.at[x - a.size]
  BY <1>r DEF Row
<1>3. o + p.size <= c.size
  BY <1>0, <1>1 DEF Holds
<1>4. \A y \in DOMAIN p.at : o + y \in DOMAIN c.at /\ c.at[o + y] = p.at[y]
  BY <1>2 DEF Holds
<1>5. ASSUME NEW x \in DOMAIN c.at, p.size > 0, x < o + p.size, EndOf(c, x) > o
      PROVE  x >= o /\ x - o \in DOMAIN p.at
  <2>1. o + p.size <= a.size
    BY DEF Holds
  <2>2. x \in DOMAIN a.at
    <3>1. x \in Nat
      BY <1>1, AtomIn
    <3> QED BY <1>0, <1>2, <1>5, <2>1, <3>1
  <2>3. EndOf(a, x) = EndOf(c, x)
    BY <1>2, <2>2 DEF EndOf
  <2> QED BY <1>5, <2>2, <2>3 DEF Holds
<1>6. Holds(c, o, p)
  BY <1>3, <1>4, <1>5 DEF Holds
<1> QED BY <1>6 DEF c

\* ... and of the second, moved by the size of the first.
LEMMA HoldsRight ==
    ASSUME NEW a, NEW b, NEW p, NEW o \in Nat, IsBlob(a), IsBlob(b), IsBlob(p), Holds(b, o, p)
    PROVE  Holds(Concat(a, b), a.size + o, p)
<1> DEFINE c == Concat(a, b)
<1>0. a.size \in Nat /\ b.size \in Nat /\ p.size \in Nat
  BY DEF IsBlob
<1>1. IsBlob(c) /\ c.size = a.size + b.size
  BY ConcatIsBlob
<1>r. Row(a, b, c)
  BY ConcatAt
<1> HIDE DEF c
<1>2. /\ \A x \in DOMAIN a.at : x < a.size /\ x \in DOMAIN c.at /\ c.at[x] = a.at[x]
      /\ \A y \in DOMAIN b.at : a.size + y \in DOMAIN c.at /\ c.at[a.size + y] = b.at[y]
      /\ \A x \in DOMAIN c.at : \/ x \in DOMAIN a.at /\ x < a.size /\ c.at[x] = a.at[x]
                                \/ /\ x >= a.size /\ x - a.size \in DOMAIN b.at
                                   /\ c.at[x] = b.at[x - a.size]
  BY <1>r DEF Row
<1>3. (a.size + o) + p.size <= c.size
  BY <1>0, <1>1 DEF Holds
<1>4. ASSUME NEW y \in DOMAIN p.at
      PROVE  (a.size + o) + y \in DOMAIN c.at /\ c.at[(a.size + o) + y] = p.at[y]
  <2>1. o + y \in DOMAIN b.at /\ b.at[o + y] = p.at[y]
    BY DEF Holds
  <2>2. y \in Nat
    BY AtomIn
  <2>3. (a.size + o) + y = a.size + (o + y)
    BY <1>0, <2>2
  <2> QED BY <1>2, <2>1, <2>3
<1>5. ASSUME NEW x \in DOMAIN c.at, p.size > 0, x < (a.size + o) + p.size, EndOf(c, x) > a.size + o
      PROVE  x >= a.size + o /\ x - (a.size + o) \in DOMAIN p.at
  <2>1. x \in Nat /\ EndOf(c, x) = x + c.at[x].size /\ c.at[x].size \in Nat
    BY <1>1, AtomIn
  <2>2. ~(x \in DOMAIN a.at /\ c.at[x] = a.at[x])
    <3> SUFFICES ASSUME x \in DOMAIN a.at, c.at[x] = a.at[x] PROVE FALSE
      OBVIOUS
    <3>1. x + c.at[x].size <= a.size
      BY AtomIn
    <3> QED BY <1>0, <1>5, <2>1, <3>1
  <2>3. x >= a.size /\ x - a.size \in DOMAIN b.at /\ c.at[x] = b.at[x - a.size]
    BY <1>2, <2>2
  <2>4. /\ x - a.size \in Nat /\ EndOf(b, x - a.size) = (x - a.size) + c.at[x].size
    BY <1>0, <2>1, <2>3 DEF EndOf
  <2>5. x - a.size < o + p.size /\ EndOf(b, x - a.size) > o
    BY <1>0, <1>5, <2>1, <2>4
  <2>6. x - a.size >= o /\ (x - a.size) - o \in DOMAIN p.at
    BY <1>5, <2>3, <2>5 DEF Holds
  <2>7. (x - a.size) - o = x - (a.size + o)
    BY <1>0, <2>1
  <2> QED BY <1>0, <2>1, <2>6, <2>7
<1>6. Holds(c, a.size + o, p)
  BY <1>3, <1>4, <1>5 DEF Holds
<1> QED BY <1>6 DEF c

\* Padding adds bytes at the end, and nothing to the atoms.
LEMMA PadToIsBlob ==
    ASSUME NEW p, IsBlob(p), NEW k \in Nat, Align(p.size, k) \in Nat, Align(p.size, k) >= p.size
    PROVE  IsBlob(PadTo(p, k)) /\ PadTo(p, k).size = Align(p.size, k) /\ Holds(PadTo(p, k), 0, p)
<1> DEFINE q == PadTo(p, k)
<1>1. q = [size |-> Align(p.size, k), at |-> p.at]
  BY DEF PadTo, IsBlob
<1> HIDE DEF q
<1>2. q.size = Align(p.size, k) /\ q.at = p.at /\ q = [size |-> q.size, at |-> q.at]
  BY <1>1
<1>3. ASSUME NEW x \in DOMAIN q.at
      PROVE  EndOf(q, x) = EndOf(p, x) /\ EndOf(q, x) <= q.size
  <2>1. EndOf(q, x) = EndOf(p, x)
    BY <1>2 DEF EndOf
  <2>2. EndOf(p, x) <= p.size /\ EndOf(p, x) \in Nat /\ p.size \in Nat
    BY <1>2, AtomIn
  <2> QED BY <1>2, <2>1, <2>2
<1>4. IsBlob(q)
  BY <1>2, <1>3 DEF IsBlob
<1>5. Holds(q, 0, p)
  <2>1. p.size \in Nat /\ \A x \in DOMAIN p.at : x \in Nat
    BY DEF IsBlob
  <2>2. 0 + p.size <= q.size
    BY <1>2, <2>1
  <2>3. \A y \in DOMAIN p.at : 0 + y = y /\ y - 0 = y
    BY <2>1
  <2> QED BY <1>2, <2>1, <2>2, <2>3 DEF Holds
<1> QED BY <1>2, <1>4, <1>5 DEF q

\* The least of some numbers, and induction over them.
LEMMA LeastNat ==
    ASSUME NEW T \in SUBSET Nat, T # {}
    PROVE  \E m \in T : \A k \in T : m <= k
<1> DEFINE Less == OpToRel(<, Nat)
<1>1. IsWellFoundedOn(Less, Nat)
  BY NatLessThanWellFounded
<1>2. PICK m \in T : \A k \in T : ~(<<k, m>> \in Less)
  <2> HIDE DEF Less
  <2> QED BY <1>1, WFMin
<1>3. \A k \in T : ~(k < m)
  BY <1>2 DEF OpToRel
<1> QED BY <1>3

\* A set of numbers that has 0 and with each number the next has them all.
LEMMA SetInduction ==
    ASSUME NEW S \in SUBSET Nat, 0 \in S, \A n \in S : n + 1 \in S
    PROVE  S = Nat
<1> SUFFICES ASSUME S # Nat PROVE FALSE
  OBVIOUS
<1> DEFINE T == Nat \ S
<1>1. PICK m \in T : \A k \in T : m <= k
  <2>1. T \in SUBSET Nat /\ T # {}
    OBVIOUS
  <2> HIDE DEF T
  <2> QED BY <2>1, LeastNat
<1>2. m \in Nat /\ m # 0 /\ m - 1 \in Nat /\ m - 1 \notin T
  BY <1>1
<1>3. m - 1 \in S
  BY <1>2
<1>4. (m - 1) + 1 \in S
  BY <1>3
<1> QED BY <1>1, <1>2, <1>4

\* Zeros are a blob without atoms.
LEMMA ZerosIsBlob ==
    ASSUME NEW n \in Nat
    PROVE  IsBlob(Zeros(n)) /\ Zeros(n).size = n /\ DOMAIN Zeros(n).at = {}
<1>1. DOMAIN Zeros(n).at = {}
  BY DEF Zeros
<1> QED BY <1>1 DEF Zeros, IsBlob

\* So is a blob of one atom, or of none.
LEMMA AtomIsBlob ==
    ASSUME NEW n \in Nat, NEW v
    PROVE  /\ IsBlob(Atom(n, v)) /\ Atom(n, v).size = n
           /\ n > 0 => /\ DOMAIN Atom(n, v).at = {0}
                       /\ Atom(n, v).at[0] = [size |-> n, val |-> v]
           /\ \A x \in DOMAIN Atom(n, v).at : Atom(n, v).at[x].val = v
<1>1. CASE n = 0
  BY <1>1, ZerosIsBlob DEF Atom
<1>2. CASE n # 0
  <2> DEFINE a == Atom(n, v)
  <2>1. /\ a.size = n /\ DOMAIN a.at = {0} /\ a.at[0] = [size |-> n, val |-> v]
        /\ a = [size |-> a.size, at |-> a.at]
        /\ a.at = [x \in DOMAIN a.at |-> a.at[x]]
    BY <1>2 DEF Atom
  <2> HIDE DEF a
  <2>2. \A x \in DOMAIN a.at : x = 0 /\ a.at[x].size = n /\ a.at[x].val = v
                               /\ a.at[x] = [size |-> a.at[x].size, val |-> a.at[x].val]
    BY <2>1
  <2>3. a.at = [x \in DOMAIN a.at |-> [size |-> a.at[x].size, val |-> a.at[x].val]]
    BY <2>1, <2>2
  <2>4. IsBlob(a)
    BY <1>2, <2>1, <2>2, <2>3 DEF IsBlob, EndOf
  <2> QED BY <2>1, <2>2, <2>4 DEF a
<1> QED BY <1>1, <1>2

\* A blob without bytes has no atoms.
LEMMA EmptyIsZeros ==
    ASSUME NEW b, IsBlob(b), b.size = 0
    PROVE  b = Zeros(0)
<1>1. DOMAIN b.at = {}
  <2> SUFFICES ASSUME NEW x \in DOMAIN b.at PROVE FALSE
    OBVIOUS
  <2>1. x \in Nat /\ x < b.size
    BY AtomIn
  <2> QED BY <2>1
<1>2. b.at = [o \in {} |-> Torn]
  <2>1. b.at = [x \in DOMAIN b.at |-> [size |-> b.at[x].size, val |-> b.at[x].val]]
    BY DEF IsBlob
  <2> QED BY <1>1, <2>1
<1>3. b = [size |-> 0, at |-> b.at]
  BY DEF IsBlob
<1> QED BY <1>2, <1>3 DEF Zeros

\* A slice of a blob is a blob; its atoms are those of the blob, unless cut.
LEMMA SliceIsBlob ==
    ASSUME NEW b, IsBlob(b), NEW o \in Nat, NEW n \in Nat
    PROVE  /\ IsBlob(Slice(b, o, n)) /\ Slice(b, o, n).size = n
           /\ \A y \in DOMAIN Slice(b, o, n).at :
                 \/ Slice(b, o, n).at[y].val = Torn
                 \/ \E x \in DOMAIN b.at : o <= x /\ Slice(b, o, n).at[y] = b.at[x]
<1> DEFINE s == Slice(b, o, n)
           H == Here(b, o, n)
           At(y) == CHOOSE z \in H : Moved(o, z) = y
<1>1. s = [size |-> n, at |-> [y \in {Moved(o, x) : x \in H} |-> Cut(b, o, n, y)]]
  BY SliceIs
<1>2. \A x \in H : /\ x \in DOMAIN b.at /\ x \in Nat /\ EndOf(b, x) \in Nat /\ x < EndOf(b, x)
                   /\ n > 0 /\ x < o + n /\ EndOf(b, x) > o
  <2> TAKE x \in H
  <2>1. x \in DOMAIN b.at /\ n > 0 /\ x < o + n /\ EndOf(b, x) > o
    BY DEF Here
  <2>2. x \in Nat /\ b.at[x].size \in Nat \ {0} /\ EndOf(b, x) = x + b.at[x].size
        /\ EndOf(b, x) \in Nat
    BY <2>1, AtomIn
  <2> QED BY <2>1, <2>2
<1> HIDE DEF s, H
<1>3. s = [size |-> s.size, at |-> s.at] /\ s.size = n /\ DOMAIN s.at = {Moved(o, x) : x \in H}
      /\ s.at = [y \in DOMAIN s.at |-> Cut(b, o, n, y)]
  BY <1>1
<1>4. ASSUME NEW y \in DOMAIN s.at
      PROVE  /\ At(y) \in H /\ Moved(o, At(y)) = y
             /\ s.at[y] = [size |-> Smaller(EndOf(b, At(y)), o + n) - (o + y),
                           val  |-> IF At(y) >= o /\ EndOf(b, At(y)) <= o + n
                                    THEN b.at[At(y)].val ELSE Torn]
  <2>1. \E z \in H : Moved(o, z) = y
    BY <1>3
  <2>2. At(y) \in H /\ Moved(o, At(y)) = y
    BY <2>1
  <2> QED BY <1>3, <2>2 DEF Cut, H
<1> HIDE DEF At
<1>5. ASSUME NEW y \in DOMAIN s.at
      PROVE  /\ y \in Nat /\ s.at[y].size \in Nat \ {0}
             /\ EndOf(s, y) <= n /\ o + EndOf(s, y) <= EndOf(b, At(y)) /\ EndOf(s, y) \in Nat
             /\ s.at[y] = [size |-> s.at[y].size, val |-> s.at[y].val]
             /\ s.at[y].val = Torn \/ (o <= At(y) /\ s.at[y] = b.at[At(y)])
  <2> DEFINE x == At(y)
  <2>1. /\ x \in Nat /\ EndOf(b, x) \in Nat /\ x < EndOf(b, x)
        /\ n > 0 /\ x < o + n /\ EndOf(b, x) > o /\ Moved(o, x) = y
    BY <1>2, <1>4
  <2>2. /\ s.at[y].size = Smaller(EndOf(b, x), o + n) - (o + y)
        /\ s.at[y] = [size |-> s.at[y].size, val |-> s.at[y].val]
        /\ \/ s.at[y].val = Torn
           \/ x >= o /\ EndOf(b, x) <= o + n /\ s.at[y].val = b.at[x].val
    <3> DEFINE m == Smaller(EndOf(b, x), o + n) - (o + y)
               v == IF x >= o /\ EndOf(b, x) <= o + n THEN b.at[x].val ELSE Torn
    <3>1. s.at[y] = [size |-> m, val |-> v]
      BY <1>4
    <3>2. v = Torn \/ (x >= o /\ EndOf(b, x) <= o + n /\ v = b.at[x].val)
      OBVIOUS
    <3> HIDE DEF m, v
    <3>3. s.at[y].size = m /\ s.at[y].val = v
      BY <3>1
    <3> QED BY <3>1, <3>2, <3>3 DEF m
  <2> HIDE DEF x
  <2>3. y \in Nat /\ (x < o => y = 0) /\ (x >= o => o + y = x)
    BY <2>1 DEF Moved
  <2>4. Smaller(EndOf(b, x), o + n) \in Nat /\ Smaller(EndOf(b, x), o + n) <= o + n
        /\ Smaller(EndOf(b, x), o + n) <= EndOf(b, x) /\ Smaller(EndOf(b, x), o + n) > o + y
    BY <2>1, <2>3 DEF Smaller
  <2>5. EndOf(s, y) = y + s.at[y].size
    BY DEF EndOf
  <2> DEFINE m == Smaller(EndOf(b, x), o + n)
  <2> HIDE DEF m
  <2>6. s.at[y].size = m - (o + y) /\ m \in Nat /\ m <= o + n /\ m <= EndOf(b, x) /\ m > o + y
    BY <2>2, <2>4 DEF m
  <2>7. s.at[y].size \in Nat \ {0} /\ EndOf(s, y) = m - o
    BY <2>3, <2>5, <2>6
  <2>8. EndOf(s, y) <= n /\ o + EndOf(s, y) <= EndOf(b, x) /\ EndOf(s, y) \in Nat
    BY <2>1, <2>3, <2>6, <2>7
  <2>9. ASSUME x >= o, EndOf(b, x) <= o + n, s.at[y].val = b.at[x].val
        PROVE  s.at[y] = b.at[x]
    <3>1. b.at[x] = [size |-> b.at[x].size, val |-> b.at[x].val] /\ b.at[x].size \in Nat
          /\ EndOf(b, x) = x + b.at[x].size
      BY <1>2, <1>4, AtomIn DEF x
    <3>2. m = EndOf(b, x)
      BY <2>1, <2>9 DEF Smaller, m
    <3>3. s.at[y].size = b.at[x].size
      BY <2>1, <2>3, <2>6, <2>9, <3>1, <3>2
    <3> QED BY <2>2, <2>9, <3>1, <3>3
  <2> QED BY <2>2, <2>3, <2>7, <2>8, <2>9 DEF x
<1>6. ASSUME NEW y \in DOMAIN s.at, NEW z \in DOMAIN s.at, y < z
      PROVE  EndOf(s, y) <= z
  <2> DEFINE w == At(y)
             x == At(z)
  <2>1. w \in H /\ x \in H /\ Moved(o, w) = y /\ Moved(o, x) = z
    BY <1>4
  <2>2. /\ w \in DOMAIN b.at /\ w \in Nat
        /\ x \in DOMAIN b.at /\ x \in Nat
    BY <1>2, <2>1
  <2>3. y \in Nat /\ z \in Nat /\ EndOf(s, y) \in Nat /\ o + EndOf(s, y) <= EndOf(b, w)
        /\ EndOf(b, w) \in Nat
    BY <1>2, <1>5, <2>1
  <2> HIDE DEF w, x
  <2>4. x >= o /\ o + z = x /\ w < x
    BY <1>6, <2>1, <2>2, <2>3 DEF Moved
  <2>5. EndOf(b, w) <= x
    BY <2>2, <2>4 DEF IsBlob
  <2> QED BY <2>2, <2>3, <2>4, <2>5
<1>7. s.at = [y \in DOMAIN s.at |-> [size |-> s.at[y].size, val |-> s.at[y].val]]
  <2>1. s.at = [y \in DOMAIN s.at |-> s.at[y]]
    BY <1>3
  <2> QED BY <1>5, <2>1
<1>8. IsBlob(s)
  <2>1. DOMAIN s.at \subseteq Nat
    BY <1>5
  <2> QED BY <1>3, <1>5, <1>6, <1>7, <2>1 DEF IsBlob
<1>9. \A y \in DOMAIN s.at : \/ s.at[y].val = Torn
                            \/ \E x \in DOMAIN b.at : o <= x /\ s.at[y] = b.at[x]
  BY <1>2, <1>4, <1>5
<1> QED BY <1>3, <1>8, <1>9 DEF s

\* A blob holds itself.
LEMMA HoldsWhole ==
    ASSUME NEW b, IsBlob(b)
    PROVE  Holds(b, 0, b)
<1>1. b.size \in Nat /\ \A x \in DOMAIN b.at : x \in Nat /\ 0 + x = x /\ x - 0 = x
  BY DEF IsBlob
<1> QED BY <1>1 DEF Holds

\* What is held in something held is held.
LEMMA HoldsWithin ==
    ASSUME NEW a, NEW q, NEW p, IsBlob(a), IsBlob(q), IsBlob(p),
           NEW o \in Nat, NEW d \in Nat, Holds(a, o, q), Holds(q, d, p)
    PROVE  Holds(a, o + d, p)
<1>0. a.size \in Nat /\ q.size \in Nat /\ p.size \in Nat
  BY DEF IsBlob
<1>1. (o + d) + p.size <= a.size
  <2>1. o + q.size <= a.size /\ d + p.size <= q.size
    BY DEF Holds
  <2> QED BY <1>0, <2>1
<1>2. ASSUME NEW y \in DOMAIN p.at
      PROVE  (o + d) + y \in DOMAIN a.at /\ a.at[(o + d) + y] = p.at[y]
  <2>1. y \in Nat
    BY AtomIn
  <2>2. d + y \in DOMAIN q.at /\ q.at[d + y] = p.at[y]
    BY DEF Holds
  <2>3. o + (d + y) \in DOMAIN a.at /\ a.at[o + (d + y)] = p.at[y]
    BY <2>2 DEF Holds
  <2>4. o + (d + y) = (o + d) + y
    BY <2>1
  <2> QED BY <2>3, <2>4
<1>3. ASSUME NEW x \in DOMAIN a.at, p.size > 0, x < (o + d) + p.size, EndOf(a, x) > o + d
      PROVE  x >= o + d /\ x - (o + d) \in DOMAIN p.at
  <2>1. x \in Nat /\ EndOf(a, x) = x + a.at[x].size /\ a.at[x].size \in Nat \ {0}
    BY AtomIn
  <2>2. o + q.size <= a.size /\ d + p.size <= q.size
    BY DEF Holds
  <2>3. q.size > 0 /\ x < o + q.size /\ EndOf(a, x) > o
    BY <1>0, <1>3, <2>1, <2>2
  <2>4. x >= o /\ x - o \in DOMAIN q.at
    BY <2>3 DEF Holds
  <2>5. q.at[x - o] = a.at[x]
    <3>1. a.at[o + (x - o)] = q.at[x - o]
      BY <2>4 DEF Holds
    <3>2. o + (x - o) = x
      BY <2>1
    <3> QED BY <3>1, <3>2
  <2>6. EndOf(q, x - o) = (x - o) + a.at[x].size
    BY <2>5 DEF EndOf
  <2>7. x - o < d + p.size /\ EndOf(q, x - o) > d
    BY <1>0, <1>3, <2>1, <2>4, <2>6
  <2>8. x - o >= d /\ (x - o) - d \in DOMAIN p.at
    BY <1>3, <2>4, <2>7 DEF Holds
  <2>9. (x - o) - d = x - (o + d)
    BY <2>1
  <2> QED BY <2>1, <2>8, <2>9
<1> QED BY <1>1, <1>2, <1>3 DEF Holds

\* What an offset reads where a blob is held.
LEMMA HoldsRead ==
    ASSUME NEW b, NEW p, NEW o \in Nat, Holds(b, o, p), 0 \in DOMAIN p.at
    PROVE  o \in DOMAIN b.at /\ b.at[o] = p.at[0] /\ ReadAt(b, o) = p.at[0].val
<1>1. o + 0 \in DOMAIN b.at /\ b.at[o + 0] = p.at[0]
  BY DEF Holds
<1>2. o + 0 = o
  OBVIOUS
<1> QED BY <1>1, <1>2 DEF ReadAt

\* The function Joined(bs) exists, and this is its recursion.
LEMMA JoinedUnfolds ==
    ASSUME NEW bs, Len(bs) \in Nat
    PROVE  Joined(bs) = [i \in 0 .. Len(bs) |->
                           IF i = 0 THEN Zeros(0) ELSE Concat(Joined(bs)[i - 1], bs[i])]
<1> DEFINE Is(f, n) == f = [i \in 0 .. n |->
                              IF i = 0 THEN Zeros(0) ELSE Concat(f[i - 1], bs[i])]
           S == {n \in Nat : \E f : Is(f, n)}
<1>1. S = Nat
  <2>1. 0 \in S
    <3> DEFINE f == [i \in 0 .. 0 |-> Zeros(0)]
    <3>1. \A i \in 0 .. 0 : i = 0
      OBVIOUS
    <3>2. f = [i \in 0 .. 0 |-> IF i = 0 THEN Zeros(0) ELSE Concat(f[i - 1], bs[i])]
      BY <3>1
    <3> QED BY <3>2
  <2>2. ASSUME NEW n \in S PROVE n + 1 \in S
    <3>1. n \in Nat /\ \E f : Is(f, n)
      OBVIOUS
    <3>2. PICK f : Is(f, n)
      BY <3>1
    <3> DEFINE g == [i \in 0 .. n + 1 |->
                       IF i = n + 1 THEN Concat(f[n], bs[n + 1]) ELSE f[i]]
    <3>3. \A i \in 0 .. n : g[i] = f[i]
      BY <3>1
    <3>4. g[n + 1] = Concat(f[n], bs[n + 1])
      BY <3>1
    <3>5. g = [i \in 0 .. n + 1 |-> g[i]]
      OBVIOUS
    <3> HIDE DEF g
    <3>6. ASSUME NEW i \in 0 .. n + 1
          PROVE  g[i] = IF i = 0 THEN Zeros(0) ELSE Concat(g[i - 1], bs[i])
      <4>1. CASE i = n + 1
        <5>1. i # 0 /\ i - 1 = n /\ n \in 0 .. n
          BY <3>1, <4>1
        <5> QED BY <3>3, <3>4, <4>1, <5>1
      <4>2. CASE i # n + 1
        <5>1. i \in 0 .. n /\ (i # 0 => i - 1 \in 0 .. n)
          BY <3>1, <4>2
        <5>2. f[i] = IF i = 0 THEN Zeros(0) ELSE Concat(f[i - 1], bs[i])
          BY <3>2, <5>1
        <5> QED BY <3>3, <5>1, <5>2
      <4> QED BY <4>1, <4>2
    <3>7. Is(g, n + 1)
      BY <3>5, <3>6
    <3>8. n + 1 \in Nat /\ \E h : Is(h, n + 1)
      <4> HIDE DEF Is
      <4> QED BY <3>1, <3>7
    <3> QED BY <3>8
  <2>3. S \in SUBSET Nat
    OBVIOUS
  <2> HIDE DEF S
  <2> QED BY <2>1, <2>2, <2>3, SetInduction
<1>2. \E f : Is(f, Len(bs))
  BY <1>1
<1>3. Joined(bs) = CHOOSE f : Is(f, Len(bs))
  BY DEF Joined
<1>4. Is(Joined(bs), Len(bs))
  <2> HIDE DEF Is
  <2> QED BY <1>2, <1>3
<1> QED BY <1>4

-----------------------------------------------------------------------------
(* Blobs joined one after the other.                                        *)

\* The blobs joined, one more at a time.
LEMMA JoinedStep ==
    ASSUME NEW bs, Len(bs) \in Nat
    PROVE  /\ Joined(bs)[0] = Zeros(0)
           /\ \A i \in 1 .. Len(bs) : Joined(bs)[i] = Concat(Joined(bs)[i - 1], bs[i])
<1> DEFINE f == Joined(bs)
<1>1. f = [i \in 0 .. Len(bs) |-> IF i = 0 THEN Zeros(0) ELSE Concat(f[i - 1], bs[i])]
  BY JoinedUnfolds
<1> HIDE DEF f
<1>2. f[0] = Zeros(0)
  BY <1>1
<1>3. \A i \in 1 .. Len(bs) : f[i] = Concat(f[i - 1], bs[i])
  <2> TAKE i \in 1 .. Len(bs)
  <2>1. i \in 0 .. Len(bs) /\ i # 0
    OBVIOUS
  <2> QED BY <1>1, <2>1
<1> QED BY <1>2, <1>3 DEF f

\* Every atom of c is one of the first j blobs.
AtomsOf(c, bs, j) ==
    \A x \in DOMAIN c.at : \E i \in 1 .. j : \E y \in DOMAIN bs[i].at : c.at[x] = bs[i].at[y]

\* Blobs in a row: where each is held, and that their atoms are all there is.
LEMMA JoinedHolds ==
    ASSUME NEW bs, Len(bs) \in Nat, \A i \in 1 .. Len(bs) : IsBlob(bs[i]),
           NEW j \in 0 .. Len(bs)
    PROVE  /\ IsBlob(Joined(bs)[j])
           /\ \A i \in 1 .. j : /\ Joined(bs)[i - 1].size \in Nat
                                /\ Joined(bs)[i].size = Joined(bs)[i - 1].size + bs[i].size
                                /\ Holds(Joined(bs)[j], Joined(bs)[i - 1].size, bs[i])
           /\ AtomsOf(Joined(bs)[j], bs, j)
<1> DEFINE f == Joined(bs)
           A(k) == \A i \in 1 .. k : /\ f[i - 1].size \in Nat
                                     /\ f[i].size = f[i - 1].size + bs[i].size
                                     /\ Holds(f[k], f[i - 1].size, bs[i])
           B(k) == AtomsOf(f[k], bs, k)
           C(k) == k <= Len(bs) => IsBlob(f[k]) /\ A(k) /\ B(k)
           S == {k \in Nat : C(k)}
<1>0. f[0] = Zeros(0) /\ \A i \in 1 .. Len(bs) : f[i] = Concat(f[i - 1], bs[i])
  BY JoinedStep
<1> HIDE DEF f
<1>1. 0 \in S
  BY <1>0, ZerosIsBlob DEF AtomsOf
<1>2. ASSUME NEW k \in S PROVE k + 1 \in S
  <2> SUFFICES ASSUME k + 1 <= Len(bs)
               PROVE  IsBlob(f[k + 1]) /\ A(k + 1) /\ B(k + 1)
    OBVIOUS
  <2> DEFINE a == f[k]
             b == bs[k + 1]
             c == f[k + 1]
  <2>1. k \in Nat /\ IsBlob(a) /\ A(k) /\ B(k)
    <3>1. k \in Nat /\ C(k)
      <4> HIDE DEF C
      <4> QED OBVIOUS
    <3>2. k <= Len(bs)
      BY <3>1
    <3> HIDE DEF A, B
    <3> QED BY <3>1, <3>2
  <2>2. c = Concat(a, b) /\ IsBlob(b)
    <3>1. k + 1 \in 1 .. Len(bs) /\ (k + 1) - 1 = k
      BY <2>1
    <3> QED BY <1>0, <3>1
  <2>3. IsBlob(c) /\ c.size = a.size + b.size /\ a.size \in Nat /\ b.size \in Nat
    <3> HIDE DEF a, b, c, A, B
    <3>1. IsBlob(c) /\ c.size = a.size + b.size
      BY <2>1, <2>2, ConcatIsBlob
    <3> QED BY <2>1, <2>2, <3>1 DEF IsBlob
  <2>4. Row(a, b, c)
    BY <2>1, <2>2, ConcatAt
  <2>5. A(k + 1)
    <3> SUFFICES ASSUME NEW i \in 1 .. k + 1
                 PROVE  /\ f[i - 1].size \in Nat
                        /\ f[i].size = f[i - 1].size + bs[i].size
                        /\ Holds(c, f[i - 1].size, bs[i])
      OBVIOUS
    <3>1. CASE i = k + 1
      <4>1. Holds(b, 0, b)
        BY <2>2, HoldsWhole
      <4>2. Holds(c, a.size + 0, b)
        BY <2>1, <2>2, <4>1, HoldsRight
      <4>3. a.size + 0 = a.size /\ i - 1 = k
        BY <2>1, <2>3, <3>1
      <4>4. f[i - 1] = a /\ bs[i] = b /\ f[i] = c
        BY <3>1, <4>3
      <4> HIDE DEF a, b, c
      <4> QED BY <2>3, <4>2, <4>3, <4>4
    <3>2. CASE i # k + 1
      <4>1. i \in 1 .. k
        BY <2>1, <3>2
      <4>2. f[i - 1].size \in Nat /\ f[i].size = f[i - 1].size + bs[i].size
            /\ Holds(a, f[i - 1].size, bs[i])
        BY <2>1, <4>1
      <4>3. IsBlob(bs[i])
        BY <2>1, <4>1
      <4>4. Holds(c, f[i - 1].size, bs[i])
        <5> HIDE DEF a, b, c
        <5> QED BY <2>1, <2>2, <4>2, <4>3, HoldsLeft
      <4> QED BY <4>2, <4>4
    <3> QED BY <3>1, <3>2
  <2>6. B(k + 1)
    <3> SUFFICES ASSUME NEW x \in DOMAIN c.at
                 PROVE  \E i \in 1 .. k + 1 : \E y \in DOMAIN bs[i].at :
                           c.at[x] = bs[i].at[y]
      BY DEF AtomsOf
    <3>1. CASE x \in DOMAIN a.at
      <4>1. c.at[x] = a.at[x]
        <5> HIDE DEF a, b, c
        <5> QED BY <2>4, <3>1 DEF Row
      <4>2. PICK i \in 1 .. k : \E y \in DOMAIN bs[i].at : a.at[x] = bs[i].at[y]
        BY <2>1, <3>1 DEF AtomsOf
      <4>3. i \in 1 .. k + 1
        BY <2>1
      <4> HIDE DEF a, b, c
      <4> QED BY <4>1, <4>2, <4>3
    <3>2. CASE x \notin DOMAIN a.at
      <4>1. x - a.size \in DOMAIN b.at /\ c.at[x] = b.at[x - a.size]
        <5> HIDE DEF a, b, c
        <5> QED BY <2>4, <3>2 DEF Row
      <4>2. k + 1 \in 1 .. k + 1
        BY <2>1
      <4> HIDE DEF a, c
      <4> QED BY <4>1, <4>2
    <3> QED BY <3>1, <3>2
  <2> QED BY <2>3, <2>5, <2>6
<1>3. S = Nat
  <2>1. S \in SUBSET Nat
    OBVIOUS
  <2> HIDE DEF S
  <2> QED BY <1>1, <1>2, <2>1, SetInduction
<1>4. IsBlob(f[j]) /\ A(j) /\ B(j)
  <2>1. C(j)
    <3> HIDE DEF C
    <3>1. j \in Nat
      OBVIOUS
    <3> QED BY <1>3, <3>1
  <2> HIDE DEF A, B
  <2> QED BY <2>1
<1> QED BY <1>4 DEF f

-----------------------------------------------------------------------------
(* Well formed to any depth.                                                *)

\* Well formed to any depth: so is what it holds compressed, and what that holds.
Fine(v) == \E B : Closed(B) /\ Proper(v, B)
Good(b) == IsBlob(b) /\ \A x \in DOMAIN b.at : Fine(b.at[x].val) /\ HeaderWhole(b.at[x])

\* What is compressed may be in a larger set.
LEMMA ProperInMore ==
    ASSUME NEW v, NEW B, NEW C, B \subseteq C, Proper(v, B)
    PROVE  Proper(v, C)
  BY DEF Proper

\* A member of a closed set is well formed to any depth ...
LEMMA ClosedIsGood ==
    ASSUME NEW B, Closed(B), NEW b \in B
    PROVE  Good(b)
  BY DEF Closed, Good, Fine

\* ... and what is well formed to any depth is in a closed set.
LEMMA GoodIsClosed ==
    ASSUME NEW b, Good(b)
    PROVE  \E B : b \in B /\ Closed(B)
<1> DEFINE Of(x) == CHOOSE B : Closed(B) /\ Proper(b.at[x].val, B)
           U == {b} \cup UNION {Of(x) : x \in DOMAIN b.at}
<1>1. ASSUME NEW x \in DOMAIN b.at
      PROVE  Closed(Of(x)) /\ Proper(b.at[x].val, Of(x)) /\ Of(x) \subseteq U
  <2>1. \E B : Closed(B) /\ Proper(b.at[x].val, B)
    BY DEF Good, Fine
  <2>2. Closed(Of(x)) /\ Proper(b.at[x].val, Of(x))
    BY <2>1
  <2> HIDE DEF Of
  <2> QED BY <2>2
<1> HIDE DEF Of
<1>2. ASSUME NEW c \in U, NEW y \in DOMAIN c.at
      PROVE  IsBlob(c) /\ Proper(c.at[y].val, U) /\ HeaderWhole(c.at[y])
  <2>1. CASE c = b
    <3> HIDE DEF U
    <3> QED BY <1>1, <2>1, ProperInMore DEF Good
  <2>2. CASE c # b
    <3>1. PICK x \in DOMAIN b.at : c \in Of(x)
      BY <2>2
    <3> HIDE DEF U
    <3>2. IsBlob(c) /\ Proper(c.at[y].val, Of(x)) /\ HeaderWhole(c.at[y])
      BY <1>1, <3>1 DEF Closed
    <3> QED BY <1>1, <3>1, <3>2, ProperInMore
  <2> QED BY <2>1, <2>2
<1>3. ASSUME NEW c \in U PROVE IsBlob(c)
  <2>1. CASE c = b
    BY <2>1 DEF Good
  <2>2. CASE c # b
    <3>1. PICK x \in DOMAIN b.at : c \in Of(x)
      BY <2>2
    <3> QED BY <1>1, <3>1 DEF Closed
  <2> QED BY <2>1, <2>2
<1>4. b \in U
  OBVIOUS
<1> HIDE DEF U
<1>5. Closed(U)
  BY <1>2, <1>3 DEF Closed
<1> QED BY <1>4, <1>5

\* Bytes without a meaning are well formed.
LEMMA TornIsFine == Fine(Torn) /\ ~IsHeader(Torn)
<1>1. Closed({}) /\ Proper(Torn, {})
  BY DEF Closed, Proper, Torn, IsBootHeader
<1> QED BY <1>1 DEF Fine, IsHeader, Torn

\* So are zeros,
LEMMA GoodZeros ==
    ASSUME NEW n \in Nat
    PROVE  Good(Zeros(n)) /\ Zeros(n).size = n
  BY ZerosIsBlob DEF Good

\* and a blob of one atom,
LEMMA GoodAtom ==
    ASSUME NEW n \in Nat, NEW v, Fine(v), IsHeader(v) => n = HeaderSize
    PROVE  Good(Atom(n, v)) /\ Atom(n, v).size = n
<1>1. CASE n = 0
  BY <1>1, ZerosIsBlob DEF Atom, Good
<1>2. CASE n # 0
  <2> DEFINE a == Atom(n, v)
  <2>1. IsBlob(a) /\ a.size = n /\ DOMAIN a.at = {0} /\ a.at[0] = [size |-> n, val |-> v]
    BY <1>2, AtomIsBlob
  <2> HIDE DEF a
  <2>2. Fine(a.at[0].val) /\ HeaderWhole(a.at[0])
    BY <2>1 DEF HeaderWhole
  <2>3. Good(a)
    BY <2>1, <2>2 DEF Good
  <2> QED BY <2>1, <2>3 DEF a
<1> QED BY <1>1, <1>2

\* and a slice, whatever it cuts,
LEMMA GoodSlice ==
    ASSUME NEW b, Good(b), NEW o \in Nat, NEW n \in Nat
    PROVE  Good(Slice(b, o, n)) /\ Slice(b, o, n).size = n
<1>1. IsBlob(b)
  BY DEF Good
<1> DEFINE s == Slice(b, o, n)
<1>2. /\ IsBlob(s) /\ s.size = n
      /\ \A y \in DOMAIN s.at :
            s.at[y].val = Torn \/ \E x \in DOMAIN b.at : s.at[y] = b.at[x]
  BY <1>1, SliceIsBlob
<1> HIDE DEF s
<1>3. Good(s)
  BY <1>2, TornIsFine DEF Good, HeaderWhole
<1> QED BY <1>2, <1>3 DEF s

\* and a concatenation.
LEMMA GoodConcat ==
    ASSUME NEW a, NEW b, Good(a), Good(b)
    PROVE  Good(Concat(a, b)) /\ Concat(a, b).size = a.size + b.size
<1> DEFINE c == Concat(a, b)
<1>1. IsBlob(a) /\ IsBlob(b)
  BY DEF Good
<1>2. IsBlob(c) /\ c.size = a.size + b.size /\ Row(a, b, c)
  BY <1>1, ConcatIsBlob, ConcatAt
<1> HIDE DEF c
<1>3. Good(c)
  BY <1>2 DEF Row, Good
<1> QED BY <1>2, <1>3 DEF c

\* Rounding up to a multiple of k: not down, and by less than k.
LEMMA AlignUp ==
    ASSUME NEW n \in Nat, NEW k \in Nat \ {0}
    PROVE  /\ Align(n, k) \in Nat /\ Align(n, k) >= n /\ Align(n, k) < n + k
           /\ n > 0 => Align(n, k) >= k
           /\ n > 0 /\ n <= k => Align(n, k) = k
<1> DEFINE q == (n + k - 1) \div k
<1>1. n + k - 1 \in Nat
  OBVIOUS
<1>2. q \in Nat /\ q * k <= n + k - 1 /\ n + k - 1 < q * k + k
  BY <1>1
<1>3. q * k \in Nat
  BY <1>2
<1>4. Align(n, k) = q * k
  BY DEF Align
<1> HIDE DEF q
<1>5. Align(n, k) \in Nat /\ Align(n, k) >= n /\ Align(n, k) < n + k
  BY <1>2, <1>3, <1>4
<1>6. ASSUME n > 0 PROVE q * k >= k
  <2>1. q # 0
    BY <1>2, <1>6
  <2> QED BY <1>2, <2>1
<1>7. ASSUME n > 0, n <= k PROVE q * k = k
  <2>1. q * k >= k /\ q * k < 2 * k
    BY <1>2, <1>3, <1>6, <1>7
  <2>2. q < 2
    BY <1>2, <2>1
  <2> QED BY <1>2, <1>7, <2>1, <2>2
<1> QED BY <1>4, <1>5, <1>6, <1>7

\* Padding keeps a blob well formed, and at its beginning.
LEMMA GoodPadTo ==
    ASSUME NEW b, Good(b), NEW k \in Nat \ {0}
    PROVE  /\ Good(PadTo(b, k)) /\ PadTo(b, k).size = Align(b.size, k)
           /\ Holds(PadTo(b, k), 0, b)
<1>1. IsBlob(b) /\ b.size \in Nat
  BY DEF Good, IsBlob
<1>2. Align(b.size, k) \in Nat /\ Align(b.size, k) >= b.size
  BY <1>1, AlignUp
<1>3. IsBlob(PadTo(b, k)) /\ PadTo(b, k).size = Align(b.size, k) /\ Holds(PadTo(b, k), 0, b)
  BY <1>1, <1>2, PadToIsBlob
<1>4. PadTo(b, k).at = b.at
  BY <1>1 DEF PadTo, IsBlob
<1> QED BY <1>3, <1>4 DEF Good

\* So does joining.
LEMMA GoodJoined ==
    ASSUME NEW bs, Len(bs) \in Nat, \A i \in 1 .. Len(bs) : Good(bs[i]), NEW j \in 0 .. Len(bs)
    PROVE  Good(Joined(bs)[j])
<1>1. \A i \in 1 .. Len(bs) : IsBlob(bs[i])
  BY DEF Good
<1> DEFINE c == Joined(bs)[j]
<1>2. IsBlob(c) /\ AtomsOf(c, bs, j)
  BY <1>1, JoinedHolds
<1> HIDE DEF c
<1>3. \A i \in 1 .. j : \A y \in DOMAIN bs[i].at :
         Fine(bs[i].at[y].val) /\ HeaderWhole(bs[i].at[y])
  BY DEF Good
<1>4. Good(c)
  BY <1>2, <1>3 DEF Good, AtomsOf
<1> QED BY <1>4 DEF c

\* What is compressed is decompressed again.
LEMMA GoodGzip ==
    ASSUME NEW b, Good(b)
    PROVE  /\ Good(Gzip(b)) /\ Decompress(Gzip(b)) = b
           /\ Gzip(b).size = GzipSize(b.size) /\ GzipSize(b.size) \in Nat \ {0}
<1> DEFINE v == [kind |-> "gzip", of |-> b]
<1>1. GzipSize(b.size) \in Nat \ {0}
  BY DEF Good, IsBlob, GzipSize
<1>2. PICK B : b \in B /\ Closed(B)
  BY GoodIsClosed
<1>3. Proper(v, B)
  BY <1>2 DEF Proper, IsBootHeader
<1>4. Fine(v)
  BY <1>2, <1>3 DEF Fine
<1>5. v.kind = "gzip" /\ v.of = b /\ ~IsHeader(v)
  BY DEF IsHeader
<1>6. Gzip(b) = Atom(GzipSize(b.size), v)
  BY DEF Gzip
<1> HIDE DEF v
<1>7. 0 \in DOMAIN Gzip(b).at /\ Gzip(b).at[0] = [size |-> GzipSize(b.size), val |-> v]
  BY <1>1, <1>6, AtomIsBlob
<1>8. ReadAt(Gzip(b), 0) = v
  BY <1>7 DEF ReadAt
<1>9. Decompress(Gzip(b)) = b
  BY <1>5, <1>8 DEF Decompress
<1> QED BY <1>1, <1>4, <1>5, <1>6, <1>9, GoodAtom

\* Decompressing what is well formed gives what is well formed.
LEMMA GoodDecompress ==
    ASSUME NEW b, Good(b)
    PROVE  Good(Decompress(b))
<1> DEFINE v == ReadAt(b, 0)
<1>1. CASE v.kind = "gzip"
  <2>1. 0 \in DOMAIN b.at /\ v = b.at[0].val
    BY <1>1 DEF ReadAt, Torn
  <2>2. Fine(v)
    BY <2>1 DEF Good
  <2>3. PICK B : Closed(B) /\ Proper(v, B)
    BY <2>2 DEF Fine
  <2>4. v.of \in B
    BY <1>1, <2>3 DEF Proper
  <2>5. Good(v.of)
    BY <2>3, <2>4, ClosedIsGood
  <2> QED BY <1>1, <2>5 DEF Decompress
<1>2. CASE v.kind # "gzip"
  BY <1>2 DEF Decompress
<1> QED BY <1>1, <1>2

-----------------------------------------------------------------------------
(* What Parse returns, of whatever bytes, is an archive or a refusal.       *)

\* A header that reads as one has its sizes in it.
LEMMA HeaderSizes ==
    ASSUME NEW b, Good(b), NEW o, IsHeader(ReadAt(b, o))
    PROVE  ReadAt(b, o).namesize \in Nat /\ ReadAt(b, o).filesize \in Nat
<1>1. o \in DOMAIN b.at /\ ReadAt(b, o) = b.at[o].val
  BY DEF ReadAt, IsHeader, Torn
<1>2. PICK B : Proper(ReadAt(b, o), B)
  BY <1>1 DEF Good, Fine
<1> QED BY <1>2 DEF Proper, IsHeader

\* An entry takes up some bytes, so that the parser gets on.
LEMMA EntrySizeGrows ==
    ASSUME NEW n \in Nat, NEW f \in Nat
    PROVE  DataOffset(n) \in Nat /\ EntrySize(n, f) \in Nat /\ EntrySize(n, f) > 0
<1>1. Align(n, 4) \in Nat /\ Align(f, 4) \in Nat
  BY 4 \in Nat \ {0}, AlignUp
<1> QED BY <1>1 DEF DataOffset, EntrySize, HeaderSize

\* A turn of the loop looks at later offsets only.
LEMMA ParseAtAgrees ==
    ASSUME NEW b, Good(b), NEW o \in Nat, NEW f, NEW g,
           \A x \in 0 .. b.size : x > o => f[x] = g[x]
    PROVE  ParseAt(b, o, f) = ParseAt(b, o, g)
<1> DEFINE h == ReadAt(b, o)
           next == o + EntrySize(h.namesize, h.filesize)
<1>1. CASE IsHeader(h) /\ next <= b.size
  <2>1. h.namesize \in Nat /\ h.filesize \in Nat
    BY <1>1, HeaderSizes
  <2>2. next \in 0 .. b.size /\ next > o
    <3>1. EntrySize(h.namesize, h.filesize) \in Nat /\ EntrySize(h.namesize, h.filesize) > 0
      BY <2>1, EntrySizeGrows
    <3>2. b.size \in Nat
      BY DEF Good, IsBlob
    <3> QED BY <1>1, <3>1, <3>2
  <2>3. f[next] = g[next]
    BY <2>2
  <2> QED BY <2>3 DEF ParseAt
<1>2. CASE ~IsHeader(h)
  BY <1>2 DEF ParseAt
<1>3. CASE IsHeader(h) /\ ~(next <= b.size)
  <2>1. h.namesize \in Nat /\ h.filesize \in Nat
    BY <1>3, HeaderSizes
  <2>2. next > b.size
    <3>1. EntrySize(h.namesize, h.filesize) \in Nat
      BY <2>1, EntrySizeGrows
    <3>2. b.size \in Nat
      BY DEF Good, IsBlob
    <3> QED BY <1>3, <3>1, <3>2
  <2> QED BY <2>2 DEF ParseAt
<1> QED BY <1>1, <1>2, <1>3

\* The function ParsedFrom(b) exists, and this is its recursion.
LEMMA ParsedUnfolds ==
    ASSUME NEW b, Good(b), NEW o \in 0 .. b.size
    PROVE  ParsedFrom(b)[o] = ParseAt(b, o, ParsedFrom(b))
<1> DEFINE Is(f, n) == f = [x \in b.size - n .. b.size |-> ParseAt(b, x, f)]
           C(n) == n <= b.size => \E f : Is(f, n)
           S == {n \in Nat : C(n)}
<1>0. b.size \in Nat
  BY DEF Good, IsBlob
<1>1. ASSUME NEW n \in Nat, n <= b.size, NEW f, NEW g, NEW m,
             m = b.size - n, g = [x \in m .. b.size |-> IF x = m THEN ParseAt(b, m, f) ELSE f[x]],
             \A x \in m + 1 .. b.size : f[x] = ParseAt(b, x, f)
      PROVE  g = [x \in m .. b.size |-> ParseAt(b, x, g)]
  <2>1. m \in Nat /\ m <= b.size
    BY <1>0, <1>1
  <2>2. \A x \in m + 1 .. b.size : g[x] = f[x]
    BY <1>0, <1>1, <2>1
  <2>3. ASSUME NEW x \in m .. b.size PROVE g[x] = ParseAt(b, x, g)
    <3>1. x \in Nat /\ \A y \in 0 .. b.size : y > x => f[y] = g[y]
      BY <1>0, <2>1, <2>2
    <3>2. ParseAt(b, x, f) = ParseAt(b, x, g)
      BY <3>1, ParseAtAgrees
    <3>3. CASE x = m
      BY <1>1, <2>1, <3>2, <3>3
    <3>4. CASE x # m
      <4>1. x \in m + 1 .. b.size
        BY <1>0, <2>1, <3>4
      <4> QED BY <1>1, <2>2, <3>2, <4>1
    <3> QED BY <3>3, <3>4
  <2>4. g = [x \in m .. b.size |-> g[x]]
    BY <1>1
  <2> QED BY <2>3, <2>4
<1>2. S = Nat
  <2>1. 0 \in S
    <3> DEFINE m == b.size - 0
               f == [x \in {} |-> x]
               g == [x \in m .. b.size |-> IF x = m THEN ParseAt(b, m, f) ELSE f[x]]
    <3>1. m \in Nat /\ \A x \in m + 1 .. b.size : f[x] = ParseAt(b, x, f)
      BY <1>0
    <3>2. g = [x \in m .. b.size |-> ParseAt(b, x, g)]
      <4> HIDE DEF f
      <4> QED BY <1>0, <1>1, <3>1
    <3>3. Is(g, 0)
      BY <3>2
    <3>4. \E k : Is(k, 0)
      <4> HIDE DEF Is
      <4> QED BY <3>3
    <3> HIDE DEF Is
    <3> QED BY <3>4
  <2>2. ASSUME NEW n \in S PROVE n + 1 \in S
    <3>1. n \in Nat /\ C(n)
      <4> HIDE DEF C
      <4> QED OBVIOUS
    <3>2. SUFFICES ASSUME n + 1 <= b.size PROVE \E f : Is(f, n + 1)
      BY <3>1
    <3>3. PICK f : Is(f, n)
      <4> HIDE DEF Is
      <4> QED BY <1>0, <3>1, <3>2
    <3> DEFINE m == b.size - (n + 1)
               g == [x \in m .. b.size |-> IF x = m THEN ParseAt(b, m, f) ELSE f[x]]
    <3>4. \A x \in m + 1 .. b.size : f[x] = ParseAt(b, x, f)
      <4>1. m + 1 = b.size - n
        BY <1>0, <3>1
      <4> HIDE DEF m
      <4> QED BY <3>3, <4>1
    <3>5. g = [x \in m .. b.size |-> ParseAt(b, x, g)]
      <4>1. n + 1 \in Nat /\ n + 1 <= b.size
        BY <3>1, <3>2
      <4> HIDE DEF m
      <4> QED BY <1>1, <3>4, <4>1 DEF m
    <3>6. Is(g, n + 1)
      BY <3>5
    <3> HIDE DEF Is
    <3> QED BY <3>6
  <2>3. S \in SUBSET Nat
    OBVIOUS
  <2> HIDE DEF S
  <2> QED BY <2>1, <2>2, <2>3, SetInduction
<1>3. C(b.size)
  <2> HIDE DEF C
  <2> QED BY <1>0, <1>2
<1>4. \E f : Is(f, b.size)
  <2> HIDE DEF Is
  <2> QED BY <1>0, <1>3
<1> DEFINE p == ParsedFrom(b)
           Rec(f) == f = [x \in 0 .. b.size |-> ParseAt(b, x, f)]
<1>5. \E f : Rec(f)
  <2>1. b.size - b.size = 0
    BY <1>0
  <2>2. \A f : Is(f, b.size) <=> Rec(f)
    BY <2>1
  <2> HIDE DEF Is, Rec
  <2> QED BY <1>4, <2>2
<1>6. p = CHOOSE f : Rec(f)
  BY DEF ParsedFrom
<1>7. Rec(p)
  <2> HIDE DEF Rec, p
  <2> QED BY <1>5, <1>6
<1> HIDE DEF p
<1>8. p[o] = ParseAt(b, o, p)
  BY <1>7
<1> QED BY <1>8 DEF p

\* Entries of an archive: none has the trailer's name.
GoodEntry(e) ==
    /\ e = [name |-> e.name, data |-> e.data]
    /\ NameSize(e.name) \in Nat \ {0} /\ e.name # Trailer.name
    /\ Good(e.data)
GoodEntries(es) == \E S : es \in Seq(S) /\ \A e \in S : GoodEntry(e)

\* What Parse returns, whether it throws or not.
IsArchive(r) ==
    /\ r = [ok |-> r.ok, entries |-> r.entries]
    /\ r.ok \in BOOLEAN /\ GoodEntries(r.entries)

\* The entries of a ramdisk, by their index.
LEMMA GoodIndex ==
    ASSUME NEW es, GoodEntries(es)
    PROVE  /\ Len(es) \in Nat /\ DOMAIN es = 1 .. Len(es)
           /\ \A i \in 1 .. Len(es) : GoodEntry(es[i])
<1>1. PICK S : es \in Seq(S) /\ \A e \in S : GoodEntry(e)
  BY DEF GoodEntries
<1>2. Len(es) \in Nat /\ DOMAIN es = 1 .. Len(es) /\ \A i \in 1 .. Len(es) : es[i] \in S
  BY <1>1
<1> QED BY <1>1, <1>2

\* An empty ramdisk is well formed, and so is the refusal of one.
LEMMA NoEntries == GoodEntries(<<>>) /\ IsArchive(Read(<<>>)) /\ IsArchive(Invalid)
<1> DEFINE none == {}
<1>1. <<>> \in Seq(none) /\ \A e \in none : GoodEntry(e)
  OBVIOUS
<1> HIDE DEF none
<1>2. GoodEntries(<<>>)
  BY <1>1 DEF GoodEntries
<1> QED BY <1>2 DEF IsArchive, Read, Invalid

\* One more entry in front.
LEMMA BeforeIsArchive ==
    ASSUME NEW e, GoodEntry(e), NEW r, IsArchive(r)
    PROVE  IsArchive(Before(e, r))
<1>1. PICK S : r.entries \in Seq(S) /\ \A d \in S : GoodEntry(d)
  BY DEF IsArchive, GoodEntries
<1> DEFINE es == <<e>> \o r.entries
<1>2. es \in Seq(S \cup {e})
  BY <1>1
<1>3. GoodEntries(es)
  <2> HIDE DEF es
  <2>1. \A d \in S \cup {e} : GoodEntry(d)
    BY <1>1
  <2> QED BY <1>2, <2>1 DEF GoodEntries
<1>4. Before(e, r) = [ok |-> r.ok, entries |-> es]
  <2>1. r = [ok |-> r.ok, entries |-> r.entries]
    BY DEF IsArchive
  <2>2. Before(e, r) = [r EXCEPT !.entries = es]
    BY DEF Before
  <2> HIDE DEF es
  <2> QED BY <2>1, <2>2
<1> HIDE DEF es
<1> QED BY <1>3, <1>4 DEF IsArchive

\* The name read anywhere has a size.
LEMMA NameSized ==
    ASSUME NEW b, Good(b), NEW o
    PROVE  NameSize(NameAt(b, o)) \in Nat \ {0}
<1> DEFINE v == ReadAt(b, o)
<1>1. CASE v.kind = "name"
  <2>1. o \in DOMAIN b.at /\ v = b.at[o].val
    BY <1>1 DEF ReadAt, Torn
  <2>2. PICK B : Proper(v, B)
    BY <2>1 DEF Good, Fine
  <2> QED BY <1>1, <2>2 DEF Proper, NameAt
<1>2. CASE v.kind # "name"
  BY <1>2, ContentsAssumption DEF NameAt
<1> QED BY <1>1, <1>2

\* A turn of the loop returns entries if the turns after it do.
LEMMA TurnIsArchive ==
    ASSUME NEW b, Good(b), NEW o \in Nat, NEW f,
           \A x \in 0 .. b.size : x > o => IsArchive(f[x])
    PROVE  IsArchive(ParseAt(b, o, f))
<1> DEFINE h == ReadAt(b, o)
           name == NameAt(b, o + HeaderSize)
           at   == o + DataOffset(h.namesize)
           data == IF h.filesize > 0 /\ InRange(b, at, h.filesize)
                   THEN Slice(b, at, h.filesize) ELSE Zeros(h.filesize)
           next == o + EntrySize(h.namesize, h.filesize)
           e    == [name |-> name, data |-> data]
           rest == IF next > b.size THEN Read(<<>>) ELSE f[next]
<1>0. b.size \in Nat
  BY DEF Good, IsBlob
<1>1. \/ ParseAt(b, o, f) \in {Read(<<>>), Invalid}
      \/ IsHeader(h) /\ name # Trailer.name /\ ParseAt(b, o, f) = Before(e, rest)
  BY DEF ParseAt
<1>2. CASE ParseAt(b, o, f) \in {Read(<<>>), Invalid}
  BY <1>2, NoEntries
<1>3. CASE IsHeader(h) /\ name # Trailer.name /\ ParseAt(b, o, f) = Before(e, rest)
  <2>1. h.namesize \in Nat /\ h.filesize \in Nat
    BY <1>3, HeaderSizes
  <2>2. DataOffset(h.namesize) \in Nat /\ EntrySize(h.namesize, h.filesize) \in Nat
        /\ EntrySize(h.namesize, h.filesize) > 0
    BY <2>1, EntrySizeGrows
  <2>3. at \in Nat /\ next \in Nat /\ next > o
    BY <2>2
  <2>4. Good(data)
    <3> HIDE DEF at
    <3> QED BY <2>1, <2>3, GoodSlice, GoodZeros
  <2>5. GoodEntry(e)
    <3>1. NameSize(name) \in Nat \ {0}
      BY NameSized
    <3>2. e.name = name /\ e.data = data /\ e = [name |-> e.name, data |-> e.data]
      OBVIOUS
    <3> HIDE DEF name, data, e
    <3> QED BY <1>3, <2>4, <3>1, <3>2 DEF GoodEntry, name
  <2>6. IsArchive(rest)
    <3> HIDE DEF next
    <3>1. CASE next > b.size
      BY <3>1, NoEntries
    <3>2. CASE ~(next > b.size)
      <4>1. next \in 0 .. b.size /\ next > o
        BY <1>0, <2>3, <3>2
      <4> QED BY <3>2, <4>1
    <3> QED BY <3>1, <3>2
  <2> HIDE DEF e, rest
  <2> QED BY <1>3, <2>5, <2>6, BeforeIsArchive
<1> QED BY <1>1, <1>2, <1>3

\* Whatever bytes are parsed, the entries are well formed.
LEMMA ParseIsArchive ==
    ASSUME NEW b, Good(b)
    PROVE  IsArchive(Parse(b))
<1> DEFINE p == ParsedFrom(b)
           C(n) == \A o \in 0 .. b.size : b.size - o <= n => IsArchive(p[o])
           S == {n \in Nat : C(n)}
<1>0. b.size \in Nat
  BY DEF Good, IsBlob
<1>1. \A o \in 0 .. b.size : p[o] = ParseAt(b, o, p)
  BY ParsedUnfolds
<1> HIDE DEF p
<1>2. ASSUME NEW n \in Nat, NEW o \in 0 .. b.size, b.size - o <= n,
             \A x \in 0 .. b.size : x > o => IsArchive(p[x])
      PROVE  IsArchive(p[o])
  BY <1>1, <1>2, TurnIsArchive
<1>3. S = Nat
  <2>1. 0 \in S
    <3>1. ASSUME NEW o \in 0 .. b.size, b.size - o <= 0 PROVE IsArchive(p[o])
      <4>1. \A x \in 0 .. b.size : ~(x > o)
        BY <1>0, <3>1
      <4> QED BY <1>2, <3>1, <4>1
    <3> QED BY <3>1
  <2>2. ASSUME NEW n \in S PROVE n + 1 \in S
    <3>1. n \in Nat /\ C(n)
      <4> HIDE DEF C
      <4> QED OBVIOUS
    <3>2. ASSUME NEW o \in 0 .. b.size, b.size - o <= n + 1 PROVE IsArchive(p[o])
      <4>1. \A x \in 0 .. b.size : x > o => b.size - x <= n
        BY <1>0, <3>1, <3>2
      <4>2. \A x \in 0 .. b.size : x > o => IsArchive(p[x])
        BY <3>1, <4>1
      <4> QED BY <1>2, <3>1, <3>2, <4>2
    <3> QED BY <3>1, <3>2
  <2>3. S \in SUBSET Nat
    OBVIOUS
  <2> HIDE DEF S
  <2> QED BY <2>1, <2>2, <2>3, SetInduction
<1>4. C(b.size)
  <2> HIDE DEF C
  <2> QED BY <1>0, <1>3
<1>5. IsArchive(p[0])
  <2>1. 0 \in 0 .. b.size /\ b.size - 0 <= b.size
    BY <1>0
  <2> QED BY <1>4, <2>1
<1> QED BY <1>5 DEF p, Parse

-----------------------------------------------------------------------------
(* What CpioArchive writes, it reads.                                       *)

\* Rounding up twice is rounding up once.
LEMMA AlignAligned ==
    ASSUME NEW n \in Nat
    PROVE  Align(Align(n, 4), 4) = Align(n, 4)
<1> DEFINE q == (n + 3) \div 4
<1>1. q \in Nat /\ Align(n, 4) = q * 4
  BY DEF Align
<1> HIDE DEF q
<1>2. Align(q * 4, 4) = q * 4
  BY <1>1 DEF Align
<1> QED BY <1>1, <1>2

\* An entry as it is written: a header, the name and the data, each where it is read.
LEMMA EntryWritten ==
    ASSUME NEW e, NameSize(e.name) \in Nat \ {0}, Good(e.data)
    PROVE  LET n == Align(NameSize(e.name), 4)
               w == WriteEntry(e)
           IN  /\ Good(w) /\ n \in Nat \ {0} /\ Align(n, 4) = n
               /\ w.size = HeaderSize + n + Align(e.data.size, 4)
               /\ w.size = EntrySize(n, e.data.size)
               /\ Holds(w, 0, Header(n, e.data.size))
               /\ Holds(w, HeaderSize, NameBlob(e))
               /\ Holds(w, HeaderSize + n, e.data)
<1> DEFINE n == Align(NameSize(e.name), 4)
           h == Header(n, e.data.size)
           hv == [kind |-> "070701", namesize |-> n, filesize |-> e.data.size]
           nv == [kind |-> "name", name |-> e.name]
           m == NameBlob(e)
           pm == PadTo(m, 4)
           pd == PadTo(e.data, 4)
           r == Concat(pm, pd)
           w == WriteEntry(e)
<1>0. 4 \in Nat \ {0} /\ HeaderSize = 110 /\ e.data.size \in Nat
  BY DEF HeaderSize, Good, IsBlob
<1>1. n \in Nat \ {0} /\ Align(n, 4) = n /\ Align(e.data.size, 4) \in Nat
  <2>1. n \in Nat /\ n >= NameSize(e.name)
    BY <1>0, AlignUp
  <2>2. Align(n, 4) = n
    BY AlignAligned
  <2>3. Align(e.data.size, 4) \in Nat
    BY <1>0, AlignUp
  <2> QED BY <2>1, <2>2, <2>3
<1>2. w = Concat(h, r)
  BY DEF WriteEntry
<1>3. Good(h) /\ h.size = HeaderSize
  <2>1. Proper(hv, {})
    BY <1>0, <1>1 DEF Proper, IsBootHeader
  <2>2. Fine(hv)
    BY <2>1 DEF Fine, Closed
  <2>3. h = Atom(HeaderSize, hv)
    BY DEF Header
  <2> HIDE DEF h, hv
  <2> QED BY <1>0, <2>2, <2>3, GoodAtom
<1>4. Good(m) /\ m.size = NameSize(e.name)
  <2>1. Proper(nv, {})
    BY DEF Proper, IsBootHeader
  <2>2. Fine(nv) /\ ~IsHeader(nv)
    BY <2>1 DEF Fine, Closed, IsHeader
  <2>3. m = Atom(NameSize(e.name), nv)
    BY DEF NameBlob
  <2> HIDE DEF m, nv
  <2> QED BY <2>2, <2>3, GoodAtom
<1>5. Good(pm) /\ pm.size = n /\ Holds(pm, 0, m)
  BY <1>0, <1>4, GoodPadTo
<1>6. Good(pd) /\ pd.size = Align(e.data.size, 4) /\ Holds(pd, 0, e.data)
  BY <1>0, GoodPadTo
<1> HIDE DEF n, h, m, pm, pd
<1>7. Good(r) /\ r.size = n + Align(e.data.size, 4)
  BY <1>5, <1>6, GoodConcat
<1>8. Holds(r, 0, m) /\ Holds(r, n, e.data)
  <2>1. Holds(r, 0, m)
    BY <1>4, <1>5, <1>6, HoldsLeft DEF Good
  <2>2. Holds(r, pm.size + 0, e.data)
    BY <1>5, <1>6, HoldsRight DEF Good
  <2>3. pm.size + 0 = n
    BY <1>1, <1>5
  <2> QED BY <2>1, <2>2, <2>3
<1> HIDE DEF r
<1>9. Good(w) /\ w.size = HeaderSize + (n + Align(e.data.size, 4))
  BY <1>2, <1>3, <1>7, GoodConcat
<1>10. Holds(w, 0, h)
  <2>1. Holds(h, 0, h)
    BY <1>3, HoldsWhole DEF Good
  <2> QED BY <1>2, <1>3, <1>7, <2>1, HoldsLeft DEF Good
<1>11. Holds(w, HeaderSize + 0, m) /\ Holds(w, HeaderSize + n, e.data)
  BY <1>1, <1>2, <1>3, <1>4, <1>7, <1>8, HoldsRight DEF Good
<1>12. HeaderSize + 0 = HeaderSize /\ w.size = HeaderSize + n + Align(e.data.size, 4)
  BY <1>0, <1>1, <1>9
<1>13. w.size = EntrySize(n, e.data.size)
  BY <1>1, <1>12 DEF EntrySize, DataOffset
<1> QED BY <1>1, <1>9, <1>10, <1>11, <1>12, <1>13 DEF n, h, m

\* What the loop reads where an entry is.
LEMMA EntryRead ==
    ASSUME NEW e, NameSize(e.name) \in Nat \ {0}, Good(e.data),
           NEW b, Good(b), NEW o \in Nat, Holds(b, o, WriteEntry(e)), NEW f
    PROVE  /\ o + WriteEntry(e).size <= b.size /\ WriteEntry(e).size \in Nat
           /\ e.name = Trailer.name => ParseAt(b, o, f) = Read(<<>>)
           /\ e.name # Trailer.name /\ e = [name |-> e.name, data |-> e.data] =>
                 ParseAt(b, o, f)
                   = Before(e, IF o + WriteEntry(e).size > b.size THEN Read(<<>>)
                               ELSE f[o + WriteEntry(e).size])
<1> DEFINE n == Align(NameSize(e.name), 4)
           size == e.data.size
           w == WriteEntry(e)
           h == Header(n, size)
           m == NameBlob(e)
           hv == [kind |-> "070701", namesize |-> n, filesize |-> size]
           nv == [kind |-> "name", name |-> e.name]
           at == o + DataOffset(n)
<1>0. 4 \in Nat \ {0} /\ HeaderSize = 110 /\ size \in Nat /\ b.size \in Nat /\ IsBlob(b)
      /\ IsBlob(e.data)
  BY DEF HeaderSize, Good, IsBlob
<1>1. /\ Good(w) /\ n \in Nat \ {0} /\ Align(n, 4) = n
      /\ w.size = HeaderSize + n + Align(size, 4)
      /\ w.size = EntrySize(n, size)
      /\ Holds(w, 0, h) /\ Holds(w, HeaderSize, m) /\ Holds(w, HeaderSize + n, e.data)
  BY EntryWritten
<1>2. IsBlob(h) /\ 0 \in DOMAIN h.at /\ h.at[0].val = hv /\ h.size = HeaderSize
  <2>1. h = Atom(HeaderSize, hv)
    BY DEF Header
  <2> HIDE DEF h, hv
  <2>2. HeaderSize \in Nat /\ HeaderSize > 0
    BY <1>0
  <2>3. IsBlob(h) /\ h.size = HeaderSize /\ DOMAIN h.at = {0}
    BY <2>1, <2>2, AtomIsBlob
  <2>4. \A x \in DOMAIN Atom(HeaderSize, hv).at : Atom(HeaderSize, hv).at[x].val = hv
    BY <2>2, AtomIsBlob
  <2> QED BY <2>1, <2>3, <2>4
<1>3. IsBlob(m) /\ 0 \in DOMAIN m.at /\ m.at[0].val = nv
  <2>1. m = Atom(NameSize(e.name), nv)
    BY DEF NameBlob
  <2> HIDE DEF m, nv
  <2>2. NameSize(e.name) \in Nat /\ NameSize(e.name) > 0
    OBVIOUS
  <2>3. IsBlob(m) /\ DOMAIN m.at = {0}
    BY <2>1, <2>2, AtomIsBlob
  <2>4. \A x \in DOMAIN Atom(NameSize(e.name), nv).at :
            Atom(NameSize(e.name), nv).at[x].val = nv
    BY <2>2, AtomIsBlob
  <2> QED BY <2>1, <2>3, <2>4
<1>4. hv.kind = "070701" /\ hv.namesize = n /\ hv.filesize = size
      /\ nv.kind = "name" /\ nv.name = e.name
  OBVIOUS
<1> HIDE DEF n, size, w, h, m, hv, nv
<1>5. IsBlob(w) /\ w.size \in Nat /\ Align(size, 4) \in Nat /\ Align(size, 4) >= size
  BY <1>0, <1>1, AlignUp DEF Good, IsBlob
<1>6. o + w.size <= b.size
  BY DEF Holds, w
<1>7. ReadAt(b, o) = hv
  <2>1. Holds(b, o + 0, h)
    BY <1>0, <1>1, <1>2, <1>5, HoldsWithin DEF w
  <2>2. o + 0 = o
    OBVIOUS
  <2> QED BY <1>2, <2>1, <2>2, HoldsRead
<1>8. NameAt(b, o + HeaderSize) = e.name
  <2>1. Holds(b, o + HeaderSize, m)
    BY <1>0, <1>1, <1>3, <1>5, HoldsWithin DEF w
  <2>2. ReadAt(b, o + HeaderSize) = nv
    BY <1>0, <1>3, <2>1, HoldsRead
  <2> QED BY <1>4, <2>2 DEF NameAt
<1>9. at = o + (HeaderSize + n) /\ at \in Nat
  BY <1>0, <1>1 DEF DataOffset
<1> HIDE DEF at
<1>10. Slice(b, at, size) = e.data
  <2>1. Holds(b, at, e.data)
    BY <1>0, <1>1, <1>5, <1>9, HoldsWithin DEF w
  <2> QED BY <1>0, <1>9, <2>1, SliceHeld DEF size
<1>11. at + size <= b.size /\ ~(o + HeaderSize > b.size) /\ o + HeaderSize + n <= b.size
  <2>1. o + (HeaderSize + n + Align(size, 4)) <= b.size
    BY <1>1, <1>6
  <2> QED BY <1>0, <1>1, <1>5, <1>9, <2>1
<1>12. e.data = IF size > 0 /\ InRange(b, at, size) THEN Slice(b, at, size) ELSE Zeros(size)
  <2>1. CASE size > 0
    BY <1>10, <1>11, <2>1 DEF InRange
  <2>2. CASE size = 0
    BY <1>0, <2>2, EmptyIsZeros DEF size
  <2> QED BY <1>0, <2>1, <2>2
<1>13. ~(size > 0 /\ at >= b.size)
  BY <1>0, <1>9, <1>11
<1>14. IsHeader(hv) /\ InRange(b, o + HeaderSize, n)
  BY <1>4, <1>11 DEF IsHeader, InRange
<1>15. ASSUME e.name = Trailer.name PROVE ParseAt(b, o, f) = Read(<<>>)
  BY <1>4, <1>7, <1>8, <1>11, <1>14, <1>15 DEF ParseAt
<1>16. ASSUME e.name # Trailer.name, e = [name |-> e.name, data |-> e.data]
       PROVE  ParseAt(b, o, f)
                = Before(e, IF o + w.size > b.size THEN Read(<<>>) ELSE f[o + w.size])
  <2> DEFINE d == IF size > 0 /\ InRange(b, at, size) THEN Slice(b, at, size) ELSE Zeros(size)
             rest == IF o + w.size > b.size THEN Read(<<>>) ELSE f[o + w.size]
  <2>1. ParseAt(b, o, f) = Before([name |-> e.name, data |-> d],
                                  IF o + EntrySize(n, size) > b.size THEN Read(<<>>)
                                  ELSE f[o + EntrySize(n, size)])
    BY <1>4, <1>7, <1>8, <1>11, <1>13, <1>14, <1>16 DEF ParseAt, at
  <2>2. d = e.data
    BY <1>12
  <2>3. ParseAt(b, o, f) = Before([name |-> e.name, data |-> d], rest)
    BY <1>1, <2>1
  <2> HIDE DEF d, rest
  <2>4. ParseAt(b, o, f) = Before(e, rest)
    BY <1>16, <2>2, <2>3
  <2> QED BY <2>4 DEF rest
<1> QED BY <1>5, <1>6, <1>15, <1>16 DEF w

\* The trailer is an entry that can be written.
LEMMA TrailerWritten ==
    NameSize(Trailer.name) \in Nat \ {0} /\ Good(Trailer.data)
  BY ContentsAssumption, GoodZeros DEF Trailer

\* One more entry in front of those that were read.
LEMMA BeforeRead ==
    ASSUME NEW e, NEW q
    PROVE  Before(e, Read(q)) = Read(<<e>> \o q)
<1> DEFINE l == <<e>> \o q
<1>1. Before(e, Read(q)) = [[ok |-> TRUE, entries |-> q] EXCEPT !.entries = l]
  BY DEF Before, Read
<1> HIDE DEF l
<1>2. Before(e, Read(q)) = [ok |-> TRUE, entries |-> l]
  BY <1>1
<1> QED BY <1>2 DEF l, Read

\* What Serialize writes is well formed.
LEMMA GoodSerialize ==
    ASSUME NEW es, GoodEntries(es)
    PROVE  Good(Serialize(es))
<1> DEFINE w == [i \in DOMAIN es |-> WriteEntry(es[i])]
<1>1. Len(es) \in Nat /\ DOMAIN es = 1 .. Len(es) /\ \A i \in 1 .. Len(es) : GoodEntry(es[i])
  BY GoodIndex
<1>2. Len(w) = Len(es) /\ \A i \in 1 .. Len(es) : w[i] = WriteEntry(es[i])
  BY <1>1
<1>3. \A i \in 1 .. Len(es) : Good(w[i])
  <2> TAKE i \in 1 .. Len(es)
  <2>1. NameSize(es[i].name) \in Nat \ {0} /\ Good(es[i].data)
    BY <1>1 DEF GoodEntry
  <2> HIDE DEF w
  <2> QED BY <1>2, <2>1, EntryWritten
<1>4. Serialize(es) = Concat(Joined(w)[Len(w)], WriteEntry(Trailer))
  BY DEF Serialize, ConcatAll
<1> HIDE DEF w
<1>5. Good(Joined(w)[Len(w)])
  <2>1. Len(w) \in Nat /\ Len(w) \in 0 .. Len(w) /\ \A i \in 1 .. Len(w) : Good(w[i])
    BY <1>1, <1>2, <1>3
  <2> QED BY <2>1, GoodJoined
<1>6. Good(WriteEntry(Trailer))
  BY TrailerWritten, EntryWritten
<1> QED BY <1>4, <1>5, <1>6, GoodConcat

\* CpioArchive reads back what it has written: parsing the bytes of any archive, with
\* however many entries of whatever names and sizes, returns those entries.
THEOREM ParseSerialize ==
    ASSUME NEW es, GoodEntries(es)
    PROVE  Parse(Serialize(es)) = Read(es)
<1> DEFINE w == [i \in DOMAIN es |-> WriteEntry(es[i])]
           n == Len(es)
           s == Serialize(es)
           t == WriteEntry(Trailer)
           p == ParsedFrom(s)
           off(k) == Joined(w)[k].size
           C(m) == m <= n => p[off(n - m)] = Read(SubSeq(es, n - m + 1, n))
           S == {m \in Nat : C(m)}
<1>1. n \in Nat /\ DOMAIN es = 1 .. n /\ \A i \in 1 .. n : GoodEntry(es[i])
  BY GoodIndex
<1>2. Len(w) = n /\ \A i \in 1 .. n : w[i] = WriteEntry(es[i])
  BY <1>1
<1>3. \A i \in 1 .. n : NameSize(es[i].name) \in Nat \ {0} /\ Good(es[i].data)
                        /\ es[i].name # Trailer.name
                        /\ es[i] = [name |-> es[i].name, data |-> es[i].data]
  BY <1>1 DEF GoodEntry
<1>4. s = Concat(Joined(w)[n], t)
  <2>1. s = Concat(Joined(w)[Len(w)], t)
    BY DEF Serialize, ConcatAll
  <2> QED BY <1>2, <2>1
<1>5. Good(s) /\ s.size \in Nat
  <2>1. Good(s)
    BY GoodSerialize
  <2> HIDE DEF s
  <2> QED BY <2>1 DEF Good, IsBlob
<1>6. Good(t)
  BY TrailerWritten, EntryWritten
<1>7. \A o \in 0 .. s.size : p[o] = ParseAt(s, o, p)
  BY <1>5, ParsedUnfolds
<1> HIDE DEF w, s, t, p
<1>8. /\ IsBlob(Joined(w)[n])
      /\ \A i \in 1 .. n : /\ off(i - 1) \in Nat
                           /\ off(i) = off(i - 1) + WriteEntry(es[i]).size
                           /\ Holds(Joined(w)[n], off(i - 1), WriteEntry(es[i]))
  <2>1. \A i \in 1 .. n : IsBlob(w[i])
    BY <1>2, <1>3, EntryWritten DEF Good
  <2>2. n \in 0 .. n
    BY <1>1
  <2>3. /\ IsBlob(Joined(w)[n])
        /\ \A i \in 1 .. n : /\ off(i - 1) \in Nat
                             /\ off(i) = off(i - 1) + w[i].size
                             /\ Holds(Joined(w)[n], off(i - 1), w[i])
    BY <1>1, <1>2, <2>1, <2>2, JoinedHolds
  <2> HIDE DEF off
  <2> QED BY <1>2, <2>3
<1>9. off(0) = 0
  BY <1>1, <1>2, JoinedStep DEF Zeros
<1>10. p[off(n)] = Read(<<>>)
  <2>1. off(n) \in Nat
    BY <1>8 DEF IsBlob
  <2>2. Holds(s, off(n) + 0, t)
    <3>1. Holds(t, 0, t)
      BY <1>6, HoldsWhole DEF Good
    <3> QED BY <1>4, <1>6, <1>8, <3>1, HoldsRight DEF Good
  <2> HIDE DEF off
  <2>3. Holds(s, off(n), t) /\ off(n) + 0 = off(n)
    BY <2>1, <2>2
  <2>4. ParseAt(s, off(n), p) = Read(<<>>) /\ off(n) + t.size <= s.size /\ t.size \in Nat
    BY <1>5, <2>1, <2>3, TrailerWritten, EntryRead DEF t
  <2>5. off(n) \in 0 .. s.size
    BY <1>5, <2>1, <2>4
  <2> QED BY <1>7, <2>4, <2>5
<1>11. ASSUME NEW i \in 1 .. n
       PROVE  p[off(i - 1)] = Before(es[i], p[off(i)])
  <2> DEFINE e == es[i]
  <2>1. /\ off(i - 1) \in Nat /\ off(i) = off(i - 1) + WriteEntry(e).size
        /\ Holds(s, off(i - 1), WriteEntry(e))
    <3>1. IsBlob(WriteEntry(e))
      BY <1>3, EntryWritten DEF Good
    <3> HIDE DEF off
    <3> QED BY <1>4, <1>6, <1>8, <3>1, HoldsLeft DEF Good
  <2> HIDE DEF off
  <2>2. NameSize(e.name) \in Nat \ {0} /\ Good(e.data) /\ e.name # Trailer.name
        /\ e = [name |-> e.name, data |-> e.data]
    BY <1>3
  <2> HIDE DEF e
  <2>3. /\ off(i) <= s.size /\ WriteEntry(e).size \in Nat
        /\ ParseAt(s, off(i - 1), p)
             = Before(e, IF off(i) > s.size THEN Read(<<>>) ELSE p[off(i)])
    BY <1>5, <2>1, <2>2, EntryRead
  <2>4. off(i - 1) \in 0 .. s.size /\ ~(off(i) > s.size)
    BY <1>5, <2>1, <2>3
  <2> QED BY <1>7, <2>3, <2>4 DEF e
<1>12. es \in Seq({es[i] : i \in 1 .. n})
  BY <1>1, GoodIndex DEF GoodEntries
<1> HIDE DEF off
<1>13. 0 \in S
  <2>1. n - 0 = n /\ n - 0 + 1 = n + 1 /\ SubSeq(es, n + 1, n) = <<>>
    BY <1>1, <1>12
  <2> QED BY <1>10, <2>1
<1>14. ASSUME NEW m \in S PROVE m + 1 \in S
  <2>1. m \in Nat /\ C(m)
    <3> HIDE DEF C
    <3> QED OBVIOUS
  <2> SUFFICES ASSUME m + 1 <= n
               PROVE  p[off(n - (m + 1))] = Read(SubSeq(es, n - (m + 1) + 1, n))
    BY <2>1
  <2> DEFINE i == n - m
  <2>2. i \in 1 .. n /\ n - (m + 1) = i - 1 /\ n - (m + 1) + 1 = i /\ m <= n
    BY <1>1, <2>1
  <2>3. p[off(i)] = Read(SubSeq(es, i + 1, n))
    BY <2>1, <2>2
  <2> HIDE DEF i
  <2>4. p[off(i - 1)] = Before(es[i], Read(SubSeq(es, i + 1, n)))
    BY <1>11, <2>2, <2>3
  <2>5. <<es[i]>> \o SubSeq(es, i + 1, n) = SubSeq(es, i, n)
    <3>1. PICK T : es \in Seq(T)
      BY <1>12
    <3>2. i \in 1 .. Len(es) /\ n \in i .. Len(es)
      BY <1>1, <2>2
    <3> HIDE DEF n
    <3> QED BY <3>1, <3>2, SubSeqRecursiveFirst
  <2>6. Before(es[i], Read(SubSeq(es, i + 1, n))) = Read(<<es[i]>> \o SubSeq(es, i + 1, n))
    BY BeforeRead
  <2> QED BY <2>2, <2>4, <2>5, <2>6
<1>15. S = Nat
  <2>1. S \in SUBSET Nat
    OBVIOUS
  <2> HIDE DEF S
  <2> QED BY <1>13, <1>14, <2>1, SetInduction
<1>16. p[off(0)] = Read(SubSeq(es, 1, n))
  <2>1. C(n)
    <3> HIDE DEF C
    <3> QED BY <1>1, <1>15
  <2>2. n - n = 0 /\ n - n + 1 = 1
    BY <1>1
  <2> QED BY <1>1, <2>1, <2>2
<1>17. SubSeq(es, 1, n) = es
  BY <1>1, <1>12
<1> QED BY <1>9, <1>16, <1>17 DEF p, s, Parse

-----------------------------------------------------------------------------
(* The two formats of archives.                                             *)

\* Rounding up to a multiple of four.
LEMMA AlignFour ==
    ASSUME NEW n \in Nat
    PROVE  /\ Align(n, 4) \in Nat
           /\ Align(n, 4) % 4 = 0
           /\ Align(n, 4) >= n /\ Align(n, 4) < n + 4
  BY DEF Align

\* CpioArchive takes the data of an entry, whatever the length of its name, to begin
\* at an offset that is no multiple of four, and the reference at one that is: the two
\* never agree, in any entry of any archive, though the code says that it is ported.
THEOREM DataNeverWhereNewcHasThem ==
    ASSUME NEW n \in Nat
    PROVE  /\ DataOffset(n) % 4 = 2
           /\ NewcDataOffset(n) % 4 = 0
           /\ DataOffset(n) # NewcDataOffset(n)
<1>1. DataOffset(n) % 4 = 2
  <2>1. PICK k \in Nat : Align(n, 4) = 4 * k
    BY AlignFour
  <2>2. DataOffset(n) = 4 * (k + 27) + 2
    BY <2>1 DEF DataOffset, HeaderSize
  <2> QED BY <2>2
<1>2. NewcDataOffset(n) % 4 = 0
  BY AlignFour, n + 110 \in Nat DEF NewcDataOffset, HeaderSize
<1> QED BY <1>1, <1>2

\* Nor does it find the next entry where the reference has it.
THEOREM EntryNeverWhereNewcHasIt ==
    ASSUME NEW n \in Nat, NEW f \in Nat
    PROVE  EntrySize(n, f) # NewcEntrySize(n, f)
<1>1. DataOffset(n) # NewcDataOffset(n)
  BY DataNeverWhereNewcHasThem
<1>2. DataOffset(n) \in Nat /\ NewcDataOffset(n) \in Nat /\ Align(f, 4) \in Nat
  BY AlignFour, n + 110 \in Nat DEF DataOffset, NewcDataOffset, HeaderSize
<1> QED BY <1>1, <1>2 DEF EntrySize, NewcEntrySize

-----------------------------------------------------------------------------
(* The two formats refuse each other.                                        *)

LEMMA NewcEntrySizeGrows ==
    ASSUME NEW n \in Nat, NEW f \in Nat
    PROVE  /\ NewcDataOffset(n) \in Nat /\ NewcDataOffset(n) >= HeaderSize + 2
           /\ NewcEntrySize(n, f) \in Nat /\ NewcEntrySize(n, f) > 0
<1>1. 110 + n \in Nat
  OBVIOUS
<1>2. /\ Align(110 + n, 4) \in Nat /\ Align(110 + n, 4) % 4 = 0 /\ Align(110 + n, 4) >= 110 + n
      /\ Align(f, 4) \in Nat
  BY <1>1, AlignFour
<1>3. Align(110 + n, 4) >= 112
  BY <1>2
<1> QED BY <1>2, <1>3 DEF NewcDataOffset, NewcEntrySize, HeaderSize


\* One turn of the reference's reader looks at what the later turns return, and no more.
LEMMA NewcAtAgrees ==
    ASSUME NEW b, Good(b), NEW o \in Nat, NEW f, NEW g,
           \A x \in 0 .. b.size : x > o => f[x] = g[x]
    PROVE  NewcAt(b, o, f) = NewcAt(b, o, g)
<1> DEFINE h == ReadAt(b, o)
           next == o + NewcEntrySize(h.namesize, h.filesize)
<1>1. CASE IsHeader(h) /\ next <= b.size
  <2>1. h.namesize \in Nat /\ h.filesize \in Nat
    BY <1>1, HeaderSizes
  <2>2. next \in 0 .. b.size /\ next > o
    <3>1. NewcEntrySize(h.namesize, h.filesize) \in Nat /\ NewcEntrySize(h.namesize, h.filesize) > 0
      BY <2>1, NewcEntrySizeGrows
    <3>2. b.size \in Nat
      BY DEF Good, IsBlob
    <3> QED BY <1>1, <3>1, <3>2
  <2>3. f[next] = g[next]
    BY <2>2
  <2> QED BY <2>3 DEF NewcAt
<1>2. CASE ~IsHeader(h)
  BY <1>2 DEF NewcAt
<1>3. CASE IsHeader(h) /\ ~(next <= b.size)
  <2>1. h.namesize \in Nat /\ h.filesize \in Nat
    BY <1>3, HeaderSizes
  <2>2. next > b.size
    <3>1. NewcEntrySize(h.namesize, h.filesize) \in Nat
      BY <2>1, NewcEntrySizeGrows
    <3>2. b.size \in Nat
      BY DEF Good, IsBlob
    <3> QED BY <1>3, <3>1, <3>2
  <2> QED BY <2>2 DEF NewcAt
<1> QED BY <1>1, <1>2, <1>3

\* So the function NewcFrom(b) exists, and this is its recursion.
LEMMA NewcUnfolds ==
    ASSUME NEW b, Good(b), NEW o \in 0 .. b.size
    PROVE  NewcFrom(b)[o] = NewcAt(b, o, NewcFrom(b))
<1> DEFINE Is(f, n) == f = [x \in b.size - n .. b.size |-> NewcAt(b, x, f)]
           C(n) == n <= b.size => \E f : Is(f, n)
           S == {n \in Nat : C(n)}
<1>0. b.size \in Nat
  BY DEF Good, IsBlob
<1>1. ASSUME NEW n \in Nat, n <= b.size, NEW f, NEW g, NEW m,
             m = b.size - n, g = [x \in m .. b.size |-> IF x = m THEN NewcAt(b, m, f) ELSE f[x]],
             \A x \in m + 1 .. b.size : f[x] = NewcAt(b, x, f)
      PROVE  g = [x \in m .. b.size |-> NewcAt(b, x, g)]
  <2>1. m \in Nat /\ m <= b.size
    BY <1>0, <1>1
  <2>2. \A x \in m + 1 .. b.size : g[x] = f[x]
    BY <1>0, <1>1, <2>1
  <2>3. ASSUME NEW x \in m .. b.size PROVE g[x] = NewcAt(b, x, g)
    <3>1. x \in Nat /\ \A y \in 0 .. b.size : y > x => f[y] = g[y]
      BY <1>0, <2>1, <2>2
    <3>2. NewcAt(b, x, f) = NewcAt(b, x, g)
      BY <3>1, NewcAtAgrees
    <3>3. CASE x = m
      BY <1>1, <2>1, <3>2, <3>3
    <3>4. CASE x # m
      <4>1. x \in m + 1 .. b.size
        BY <1>0, <2>1, <3>4
      <4> QED BY <1>1, <2>2, <3>2, <4>1
    <3> QED BY <3>3, <3>4
  <2>4. g = [x \in m .. b.size |-> g[x]]
    BY <1>1
  <2> QED BY <2>3, <2>4
<1>2. S = Nat
  <2>1. 0 \in S
    <3> DEFINE m == b.size - 0
               f == [x \in {} |-> x]
               g == [x \in m .. b.size |-> IF x = m THEN NewcAt(b, m, f) ELSE f[x]]
    <3>1. m \in Nat /\ \A x \in m + 1 .. b.size : f[x] = NewcAt(b, x, f)
      BY <1>0
    <3>2. g = [x \in m .. b.size |-> NewcAt(b, x, g)]
      <4> HIDE DEF f
      <4> QED BY <1>0, <1>1, <3>1
    <3>3. Is(g, 0)
      BY <3>2
    <3>4. \E k : Is(k, 0)
      <4> HIDE DEF Is
      <4> QED BY <3>3
    <3> HIDE DEF Is
    <3> QED BY <3>4
  <2>2. ASSUME NEW n \in S PROVE n + 1 \in S
    <3>1. n \in Nat /\ C(n)
      <4> HIDE DEF C
      <4> QED OBVIOUS
    <3>2. SUFFICES ASSUME n + 1 <= b.size PROVE \E f : Is(f, n + 1)
      BY <3>1
    <3>3. PICK f : Is(f, n)
      <4> HIDE DEF Is
      <4> QED BY <1>0, <3>1, <3>2
    <3> DEFINE m == b.size - (n + 1)
               g == [x \in m .. b.size |-> IF x = m THEN NewcAt(b, m, f) ELSE f[x]]
    <3>4. \A x \in m + 1 .. b.size : f[x] = NewcAt(b, x, f)
      <4>1. m + 1 = b.size - n
        BY <1>0, <3>1
      <4> HIDE DEF m
      <4> QED BY <3>3, <4>1
    <3>5. g = [x \in m .. b.size |-> NewcAt(b, x, g)]
      <4>1. n + 1 \in Nat /\ n + 1 <= b.size
        BY <3>1, <3>2
      <4> HIDE DEF m
      <4> QED BY <1>1, <3>4, <4>1 DEF m
    <3>6. Is(g, n + 1)
      BY <3>5
    <3> HIDE DEF Is
    <3> QED BY <3>6
  <2>3. S \in SUBSET Nat
    OBVIOUS
  <2> HIDE DEF S
  <2> QED BY <2>1, <2>2, <2>3, SetInduction
<1>3. C(b.size)
  <2> HIDE DEF C
  <2> QED BY <1>0, <1>2
<1>4. \E f : Is(f, b.size)
  <2> HIDE DEF Is
  <2> QED BY <1>0, <1>3
<1> DEFINE p == NewcFrom(b)
           Rec(f) == f = [x \in 0 .. b.size |-> NewcAt(b, x, f)]
<1>5. \E f : Rec(f)
  <2>1. b.size - b.size = 0
    BY <1>0
  <2>2. \A f : Is(f, b.size) <=> Rec(f)
    BY <2>1
  <2> HIDE DEF Is, Rec
  <2> QED BY <1>4, <2>2
<1>6. p = CHOOSE f : Rec(f)
  BY DEF NewcFrom
<1>7. Rec(p)
  <2> HIDE DEF Rec, p
  <2> QED BY <1>5, <1>6
<1> HIDE DEF p
<1>8. p[o] = NewcAt(b, o, p)
  BY <1>7
<1> QED BY <1>8 DEF p

\* An entry ends, for one reader, two bytes before or after it does for the other.
LEMMA TwoBytesApart ==
    ASSUME NEW n \in Nat, NEW f \in Nat
    PROVE  \/ EntrySize(n, f) = NewcEntrySize(n, f) + 2
           \/ EntrySize(n, f) + 2 = NewcEntrySize(n, f)
<1>1. 110 + n \in Nat
  OBVIOUS
<1>2. /\ Align(n, 4) \in Nat /\ Align(n, 4) % 4 = 0 /\ Align(n, 4) >= n /\ Align(n, 4) < n + 4
      /\ Align(110 + n, 4) \in Nat /\ Align(110 + n, 4) % 4 = 0
      /\ Align(110 + n, 4) >= 110 + n /\ Align(110 + n, 4) < 114 + n
      /\ Align(f, 4) \in Nat
  BY <1>1, AlignFour
<1>3. \/ 110 + Align(n, 4) = Align(110 + n, 4) + 2
      \/ 110 + Align(n, 4) + 2 = Align(110 + n, 4)
  BY <1>2
<1> QED BY <1>2, <1>3
     DEF EntrySize, NewcEntrySize, DataOffset, NewcDataOffset, HeaderSize

\* Two bytes from a header no other begins, because each is whole.
LEMMA NoHeaderNear ==
    ASSUME NEW b, Good(b), NEW p \in Nat, IsHeader(ReadAt(b, p)),
           NEW q \in Nat, q = p + 2 \/ q + 2 = p
    PROVE  ~IsHeader(ReadAt(b, q)) /\ p + HeaderSize <= b.size /\ b.size \in Nat
<1>1. p \in DOMAIN b.at /\ b.at[p].size = HeaderSize
  <2>1. p \in DOMAIN b.at
    BY TornIsFine DEF ReadAt
  <2> QED BY <2>1 DEF ReadAt, Good, HeaderWhole
<1>2. IsBlob(b) /\ EndOf(b, p) = p + 110
  BY <1>1 DEF Good, EndOf, HeaderSize
<1>3. p + HeaderSize <= b.size /\ b.size \in Nat
  BY <1>1, <1>2 DEF IsBlob, HeaderSize
<1>4. SUFFICES ASSUME IsHeader(ReadAt(b, q)) PROVE FALSE
  BY <1>3
<1>5. q \in DOMAIN b.at /\ b.at[q].size = HeaderSize
  <2>1. q \in DOMAIN b.at
    BY <1>4, TornIsFine DEF ReadAt
  <2> QED BY <1>4, <2>1 DEF ReadAt, Good, HeaderWhole
<1>6. EndOf(b, q) = q + 110
  BY <1>5 DEF EndOf, HeaderSize
<1>7. (p < q => p + 110 <= q) /\ (q < p => q + 110 <= p)
  BY <1>1, <1>2, <1>5, <1>6 DEF IsBlob
<1> QED BY <1>7

\* CpioArchive refuses the archives of the reference that have an entry: where the
\* second header is, two bytes from where it looks, is no header for it, and it throws
\* instead of reading less than there is.  What it says of the ramdisks it can read it
\* does not say of one that it has misread.
THEOREM NewcIsRefused ==
    ASSUME NEW b, Good(b), FirstEntry(b), NewcGoesOn(b)
    PROVE  ~Parse(b).ok
<1> DEFINE p == NewcNext(b)
           q == OwnNext(b)
           h == ReadAt(b, 0)
           r == ParsedFrom(b)
<1>1. h.namesize \in Nat /\ h.filesize \in Nat
  BY HeaderSizes DEF FirstEntry
<1>2. p \in Nat /\ q \in Nat /\ q > 0 /\ (q = p + 2 \/ q + 2 = p)
  BY <1>1, TwoBytesApart, EntrySizeGrows, NewcEntrySizeGrows DEF OwnNext, NewcNext
<1>3. ~IsHeader(ReadAt(b, q)) /\ b.size \in Nat
  <2> HIDE DEF q
  <2> QED BY <1>2, NoHeaderNear DEF NewcGoesOn
<1>4. p + 112 <= b.size
  <2>1. ReadAt(b, p).namesize \in Nat
    BY HeaderSizes DEF NewcGoesOn
  <2>2. /\ NewcDataOffset(ReadAt(b, p).namesize) \in Nat
        /\ NewcDataOffset(ReadAt(b, p).namesize) >= HeaderSize + 2
    BY <2>1, NewcEntrySizeGrows
  <2>3. p + NewcDataOffset(ReadAt(b, p).namesize) <= b.size
    BY DEF InRange, NewcGoesOn
  <2> HIDE DEF p
  <2> QED BY <1>2, <1>3, <2>2, <2>3 DEF HeaderSize
<1>5. q + HeaderSize <= b.size /\ q \in 0 .. b.size /\ 0 \in 0 .. b.size
  BY <1>2, <1>3, <1>4 DEF HeaderSize
<1>6. r[q] = Invalid
  <2>1. r[q] = ParseAt(b, q, r)
    BY <1>5, ParsedUnfolds
  <2> HIDE DEF q, r
  <2> QED BY <1>2, <1>3, <1>5, <2>1 DEF ParseAt, HeaderSize
<1>7. r[0] = ParseAt(b, 0, r)
  BY <1>5, ParsedUnfolds
<1>8. 0 + q = q /\ 0 + HeaderSize = HeaderSize /\ ~(q > b.size) /\ ~(HeaderSize > b.size)
  BY <1>2, <1>3, <1>5 DEF HeaderSize
<1>9. \A e : Before(e, Invalid).ok = FALSE
  BY DEF Before, Invalid
<1>10. r[0].ok = FALSE
  <2> DEFINE at == 0 + DataOffset(h.namesize)
             data == IF h.filesize > 0 /\ InRange(b, at, h.filesize)
                     THEN Slice(b, at, h.filesize) ELSE Zeros(h.filesize)
  <2>1. r[0] = Invalid \/ r[0] = Before([name |-> NameAt(b, HeaderSize), data |-> data], r[q])
    <3> HIDE DEF r, data
    <3> QED BY <1>7, <1>8 DEF ParseAt, FirstEntry, OwnNext, data
  <2> HIDE DEF r, data
  <2> QED BY <1>6, <1>9, <2>1 DEF Invalid
<1> QED BY <1>10 DEF Parse

\* And the reference refuses those of CpioArchive that have one: it does not read less
\* than there is of a ramdisk that the uninstaller wrote, it reads nothing.
THEOREM OwnIsRefused ==
    ASSUME NEW b, Good(b), FirstEntry(b), GoesOn(b)
    PROVE  ~NewcLoad(b).ok
<1> DEFINE p == OwnNext(b)
           q == NewcNext(b)
           h == ReadAt(b, 0)
           r == NewcFrom(b)
<1>1. h.namesize \in Nat /\ h.filesize \in Nat
  BY HeaderSizes DEF FirstEntry
<1>2. p \in Nat /\ q \in Nat /\ q > 0 /\ (q = p + 2 \/ q + 2 = p)
  BY <1>1, TwoBytesApart, EntrySizeGrows, NewcEntrySizeGrows DEF OwnNext, NewcNext
<1>3. ~IsHeader(ReadAt(b, q)) /\ b.size \in Nat /\ p + 110 <= b.size
  <2> HIDE DEF p, q
  <2> QED BY <1>2, NoHeaderNear DEF p, HeaderSize, GoesOn
<1>4. q < b.size /\ q \in 0 .. b.size /\ 0 \in 0 .. b.size
  BY <1>2, <1>3
<1>5. r[q] = Invalid
  <2>1. r[q] = NewcAt(b, q, r)
    BY <1>4, NewcUnfolds
  <2> HIDE DEF q, r
  <2> QED BY <1>2, <1>3, <1>4, <2>1 DEF NewcAt
<1>6. r[0] = NewcAt(b, 0, r)
  BY <1>4, NewcUnfolds
<1>7. 0 + q = q /\ 0 + HeaderSize = HeaderSize /\ ~(q > b.size) /\ ~(0 >= b.size)
  BY <1>2, <1>3, <1>4 DEF HeaderSize
<1>8. \A e : Before(e, Invalid).ok = FALSE
  BY DEF Before, Invalid
<1>9. r[0].ok = FALSE
  <2> DEFINE e == [name |-> NameAt(b, HeaderSize),
                   data |-> Slice(b, 0 + NewcDataOffset(h.namesize), h.filesize)]
  <2>1. r[0] = Invalid \/ r[0] = Before(e, r[q])
    <3> HIDE DEF r
    <3> QED BY <1>6, <1>7 DEF NewcAt, FirstEntry, NewcNext
  <2> HIDE DEF r, e
  <2> QED BY <1>5, <1>8, <2>1 DEF Invalid
<1> QED BY <1>9 DEF NewcLoad


\* The first two of the blobs that an archive is put together from.
LEMMA FirstTwo ==
    ASSUME NEW bs, Len(bs) \in Nat \ {0}, \A i \in 1 .. Len(bs) : Good(bs[i]),
           NEW t, Good(t), NEW s, s = Concat(ConcatAll(bs), t)
    PROVE  /\ Good(s) /\ Good(bs[1]) /\ Holds(s, 0, bs[1])
           /\ Len(bs) = 1 => Holds(s, bs[1].size, t)
           /\ Len(bs) # 1 => Good(bs[2]) /\ Holds(s, bs[1].size, bs[2])
<1> DEFINE n == Len(bs)
           c == Joined(bs)[n]
<1>1. n \in 0 .. n /\ 1 \in 1 .. n /\ n \in Nat /\ (n # 1 => 2 \in 1 .. n)
  <2>1. n \in Nat \ {0}
    OBVIOUS
  <2> HIDE DEF n
  <2> QED BY <2>1
<1>2. s = Concat(c, t)
  BY DEF ConcatAll
<1>3. Good(c)
  BY <1>1, GoodJoined
<1>4. Good(s)
  BY <1>2, <1>3, GoodConcat
<1>5. \A i \in 1 .. n : IsBlob(bs[i])
  BY DEF Good
<1>6. \A i \in 1 .. n : /\ Joined(bs)[i - 1].size \in Nat
                        /\ Joined(bs)[i].size = Joined(bs)[i - 1].size + bs[i].size
                        /\ Holds(c, Joined(bs)[i - 1].size, bs[i])
  BY <1>1, <1>5, JoinedHolds
<1>7. Joined(bs)[0].size = 0
  BY <1>1, JoinedStep DEF Zeros
<1>8. IsBlob(c) /\ IsBlob(t) /\ c.size \in Nat /\ bs[1].size \in Nat
  BY <1>1, <1>3, <1>5 DEF Good, IsBlob
<1>9. \A i \in 1 .. n : Holds(s, Joined(bs)[i - 1].size, bs[i])
  <2> HIDE DEF c
  <2> QED BY <1>2, <1>5, <1>6, <1>8, HoldsLeft
<1>10. 1 - 1 = 0 /\ 2 - 1 = 1 /\ Joined(bs)[1].size = 0 + bs[1].size /\ 0 + bs[1].size = bs[1].size
  BY <1>1, <1>6, <1>7, <1>8
<1>11. Holds(s, 0, bs[1]) /\ (n # 1 => Holds(s, bs[1].size, bs[2]))
  BY <1>1, <1>7, <1>9, <1>10
<1>12. ASSUME n = 1 PROVE Holds(s, bs[1].size, t)
  <2>1. Holds(t, 0, t) /\ c.size = bs[1].size /\ c.size + 0 = c.size
    BY <1>8, <1>10, <1>12, HoldsWhole
  <2>2. Holds(s, c.size + 0, t)
    <3> HIDE DEF c
    <3> QED BY <1>2, <1>8, <2>1, HoldsRight
  <2> QED BY <2>1, <2>2
<1> QED BY <1>1, <1>4, <1>11, <1>12

\* The blobs of a header and of a name.
LEMMA HeaderAtom ==
    ASSUME NEW i, NEW j
    PROVE  /\ IsBlob(Header(i, j)) /\ 0 \in DOMAIN Header(i, j).at
           /\ Header(i, j).at[0].val = [kind |-> "070701", namesize |-> i, filesize |-> j]
<1> DEFINE v == [kind |-> "070701", namesize |-> i, filesize |-> j]
<1>1. Header(i, j) = Atom(HeaderSize, v) /\ HeaderSize \in Nat /\ HeaderSize > 0
  BY DEF Header, HeaderSize
<1> HIDE DEF v
<1>2. /\ IsBlob(Header(i, j)) /\ DOMAIN Header(i, j).at = {0}
      /\ Header(i, j).at[0] = [size |-> HeaderSize, val |-> v]
  BY <1>1, AtomIsBlob
<1> QED BY <1>2 DEF v

LEMMA NameAtom ==
    ASSUME NEW e, NameSize(e.name) \in Nat \ {0}
    PROVE  /\ IsBlob(NameBlob(e)) /\ 0 \in DOMAIN NameBlob(e).at
           /\ NameBlob(e).at[0].val = [kind |-> "name", name |-> e.name]
<1> DEFINE v == [kind |-> "name", name |-> e.name]
           n == NameSize(e.name)
<1>1. NameBlob(e) = Atom(n, v) /\ n \in Nat /\ n > 0
  BY DEF NameBlob
<1> HIDE DEF v, n
<1>2. /\ IsBlob(NameBlob(e)) /\ DOMAIN NameBlob(e).at = {0}
      /\ NameBlob(e).at[0] = [size |-> n, val |-> v]
  BY <1>1, AtomIsBlob
<1> QED BY <1>2 DEF v

\* The header and the name with which an entry begins, and the header after it.
LEMMA FirstRead ==
    ASSUME NEW s, Good(s), NEW x, Good(x), NEW y, Good(y),
           Holds(s, 0, x), Holds(s, x.size, y),
           NEW e, e.name # Trailer.name, NameSize(e.name) \in Nat \ {0},
           NEW n \in Nat, NEW f \in Nat, NEW m \in Nat, NEW g \in Nat,
           Holds(x, 0, Header(n, f)), Holds(x, HeaderSize, NameBlob(e)), Holds(y, 0, Header(m, g))
    PROVE  /\ FirstEntry(s) /\ ReadAt(s, 0).namesize = n /\ ReadAt(s, 0).filesize = f
           /\ IsHeader(ReadAt(s, x.size)) /\ ReadAt(s, x.size).namesize = m
<1>1. \A i, j \in Nat : IsBlob(Header(i, j)) /\ 0 \in DOMAIN Header(i, j).at
  BY HeaderAtom
<1>2. IsBlob(NameBlob(e)) /\ 0 \in DOMAIN NameBlob(e).at
  BY NameAtom
<1>3. /\ IsBlob(s) /\ IsBlob(x) /\ IsBlob(y) /\ x.size \in Nat
      /\ 0 + 0 = 0 /\ 0 + HeaderSize = HeaderSize /\ x.size + 0 = x.size /\ HeaderSize \in Nat
  BY DEF Good, IsBlob, HeaderSize
<1>4. /\ Holds(s, 0, Header(n, f)) /\ Holds(s, HeaderSize, NameBlob(e))
      /\ Holds(s, x.size, Header(m, g))
  <2>1. Holds(s, 0 + 0, Header(n, f))
    BY <1>1, <1>3, HoldsWithin
  <2>2. Holds(s, 0 + HeaderSize, NameBlob(e))
    BY <1>2, <1>3, HoldsWithin
  <2>3. Holds(s, x.size + 0, Header(m, g))
    BY <1>1, <1>3, HoldsWithin
  <2> QED BY <1>3, <2>1, <2>2, <2>3
<1>5. /\ ReadAt(s, 0) = [kind |-> "070701", namesize |-> n, filesize |-> f]
      /\ ReadAt(s, HeaderSize) = [kind |-> "name", name |-> e.name]
      /\ ReadAt(s, x.size) = [kind |-> "070701", namesize |-> m, filesize |-> g]
  <2>1. ReadAt(s, 0) = Header(n, f).at[0].val
    BY <1>1, <1>4, HoldsRead
  <2>2. ReadAt(s, HeaderSize) = NameBlob(e).at[0].val
    BY <1>2, <1>3, <1>4, HoldsRead
  <2>3. ReadAt(s, x.size) = Header(m, g).at[0].val
    BY <1>1, <1>3, <1>4, HoldsRead
  <2> QED BY <2>1, <2>2, <2>3, HeaderAtom, NameAtom
<1> QED BY <1>5 DEF FirstEntry, IsHeader, NameAt

\* What CpioArchive writes goes on where it looks.
LEMMA SerializeIsCpio ==
    ASSUME NEW es, GoodEntries(es)
    PROVE  /\ IsCpio(Serialize(es))
           /\ Len(es) # 0 => FirstEntry(Serialize(es)) /\ GoesOn(Serialize(es))
<1> DEFINE w == [i \in DOMAIN es |-> WriteEntry(es[i])]
           s == Serialize(es)
           t == WriteEntry(Trailer)
<1>1. Len(es) \in Nat /\ DOMAIN es = 1 .. Len(es) /\ \A i \in 1 .. Len(es) : GoodEntry(es[i])
  BY GoodIndex
<1>2. Len(w) = Len(es) /\ \A i \in 1 .. Len(es) : w[i] = WriteEntry(es[i])
  BY <1>1
<1>3. s = Concat(ConcatAll(w), t)
  BY DEF Serialize
<1>4. Good(t) /\ \A i \in 1 .. Len(es) : Good(w[i])
  BY <1>1, <1>2, EntryWritten, TrailerWritten DEF GoodEntry
<1> HIDE DEF w, s
<1>5. CASE Len(es) = 0
  <2>1. Joined(w)[0] = Zeros(0)
    BY <1>2, <1>5, JoinedStep
  <2>2. s = Concat(Zeros(0), t)
    BY <1>2, <1>3, <1>5, <2>1 DEF ConcatAll
  <2>3. Holds(s, 0, t) /\ IsBlob(t) /\ IsBlob(s)
    <3>1. IsBlob(Zeros(0)) /\ IsBlob(t) /\ Holds(t, 0, t) /\ 0 \in Nat /\ Zeros(0).size + 0 = 0
      BY <1>4, ZerosIsBlob, HoldsWhole DEF Good
    <3>2. Holds(s, Zeros(0).size + 0, t)
      BY <2>2, <3>1, HoldsRight
    <3>3. IsBlob(s)
      BY <2>2, <3>1, ConcatIsBlob
    <3> QED BY <3>1, <3>2, <3>3
  <2>4. Holds(t, HeaderSize, NameBlob(Trailer)) /\ IsBlob(NameBlob(Trailer))
        /\ 0 \in DOMAIN NameBlob(Trailer).at
        /\ NameBlob(Trailer).at[0].val = [kind |-> "name", name |-> Trailer.name]
    BY TrailerWritten, EntryWritten, NameAtom
  <2>5. HeaderSize \in Nat /\ 0 + HeaderSize = HeaderSize
    BY DEF HeaderSize
  <2>6. Holds(s, HeaderSize, NameBlob(Trailer))
    BY <2>3, <2>4, <2>5, HoldsWithin
  <2>7. NameAt(s, HeaderSize) = Trailer.name
    BY <2>4, <2>5, <2>6, HoldsRead DEF NameAt
  <2> QED BY <1>5, <2>7 DEF IsCpio, FirstEntry, s
<1>6. CASE Len(es) # 0
  <2> DEFINE e == es[1]
             g == IF Len(es) = 1 THEN Trailer ELSE es[2]
             n == Align(NameSize(e.name), 4)
             m == Align(NameSize(g.name), 4)
  <2>1. Len(w) \in Nat \ {0} /\ 1 \in 1 .. Len(es) /\ (Len(es) # 1 => 2 \in 1 .. Len(es))
    BY <1>1, <1>2, <1>6
  <2>2. Good(s) /\ Holds(s, 0, w[1]) /\ Holds(s, w[1].size, WriteEntry(g))
    BY <1>2, <1>3, <1>4, <2>1, FirstTwo
  <2>3. /\ NameSize(e.name) \in Nat \ {0} /\ Good(e.data) /\ e.name # Trailer.name
        /\ NameSize(g.name) \in Nat \ {0} /\ Good(g.data)
    BY <1>1, <2>1, TrailerWritten DEF GoodEntry
  <2>4. w[1] = WriteEntry(e)
    BY <1>2, <2>1
  <2> HIDE DEF e, g, n, m
  <2>5. /\ n \in Nat /\ Good(w[1]) /\ w[1].size = EntrySize(n, e.data.size)
        /\ Holds(w[1], 0, Header(n, e.data.size)) /\ Holds(w[1], HeaderSize, NameBlob(e))
    BY <2>3, <2>4, EntryWritten DEF n
  <2>6. m \in Nat /\ Good(WriteEntry(g)) /\ Holds(WriteEntry(g), 0, Header(m, g.data.size))
    BY <2>3, EntryWritten DEF m
  <2>7. e.data.size \in Nat /\ g.data.size \in Nat
    BY <2>3 DEF Good, IsBlob
  <2>8. /\ FirstEntry(s) /\ ReadAt(s, 0).namesize = n /\ ReadAt(s, 0).filesize = e.data.size
        /\ IsHeader(ReadAt(s, w[1].size))
    BY <2>2, <2>3, <2>5, <2>6, <2>7, FirstRead
  <2>9. GoesOn(s)
    BY <2>5, <2>8 DEF GoesOn, OwnNext
  <2> QED BY <2>8, <2>9 DEF IsCpio, s
<1> QED BY <1>5, <1>6

\* What the reference writes of an entry.
LEMMA NewcEntryWritten ==
    ASSUME NEW e, NameSize(e.name) \in Nat \ {0}, Good(e.data)
    PROVE  LET n == NameSize(e.name)
               w == NewcEntry(e)
           IN  /\ Good(w) /\ w.size = NewcEntrySize(n, e.data.size)
               /\ NewcDataOffset(n) \in Nat /\ NewcDataOffset(n) <= w.size
               /\ Holds(w, 0, Header(n, e.data.size))
               /\ Holds(w, HeaderSize, NameBlob(e))
<1> DEFINE n == NameSize(e.name)
           h == Header(n, e.data.size)
           hv == [kind |-> "070701", namesize |-> n, filesize |-> e.data.size]
           nv == [kind |-> "name", name |-> e.name]
           m == NameBlob(e)
           c == Concat(h, m)
           pc4 == PadTo(c, 4)
           pd == PadTo(e.data, 4)
           w == NewcEntry(e)
<1>1. 4 \in Nat \ {0} /\ HeaderSize = 110 /\ e.data.size \in Nat /\ Align(e.data.size, 4) \in Nat
  BY AlignFour DEF HeaderSize, Good, IsBlob
<1>2. Good(h) /\ h.size = HeaderSize
  <2>1. Proper(hv, {})
    BY <1>1 DEF Proper, IsBootHeader
  <2>2. Fine(hv)
    BY <2>1 DEF Fine, Closed
  <2>3. h = Atom(HeaderSize, hv)
    BY DEF Header
  <2> HIDE DEF h, hv
  <2> QED BY <1>1, <2>2, <2>3, GoodAtom
<1>3. Good(m) /\ m.size = n
  <2>1. Proper(nv, {})
    BY DEF Proper, IsBootHeader
  <2>2. Fine(nv) /\ ~IsHeader(nv)
    BY <2>1 DEF Fine, Closed, IsHeader
  <2>3. m = Atom(n, nv)
    BY DEF NameBlob
  <2> HIDE DEF m, nv
  <2> QED BY <2>2, <2>3, GoodAtom
<1>4. w = Concat(pc4, pd)
  BY DEF NewcEntry
<1> HIDE DEF h, m
<1>5. Good(c) /\ c.size = HeaderSize + n
  BY <1>2, <1>3, GoodConcat
<1>6. Holds(c, 0, h) /\ Holds(c, HeaderSize, m)
  <2>1. Holds(h, 0, h) /\ Holds(m, 0, m) /\ h.size + 0 = HeaderSize
    BY <1>1, <1>2, <1>3, HoldsWhole DEF Good
  <2>2. Holds(c, h.size + 0, m) /\ Holds(c, 0, h)
    BY <1>2, <1>3, <2>1, HoldsRight, HoldsLeft DEF Good
  <2> QED BY <2>1, <2>2
<1> HIDE DEF c
<1>7. Good(pc4) /\ pc4.size = NewcDataOffset(n) /\ Holds(pc4, 0, c)
  BY <1>1, <1>5, GoodPadTo DEF NewcDataOffset
<1>8. Good(pd) /\ pd.size = Align(e.data.size, 4)
  BY <1>1, GoodPadTo
<1>9. NewcDataOffset(n) \in Nat /\ n \in Nat
  BY <1>7 DEF Good, IsBlob
<1>10. Holds(pc4, 0 + 0, h) /\ Holds(pc4, 0 + HeaderSize, m) /\ 0 + 0 = 0 /\ 0 + HeaderSize = HeaderSize
  <2>1. IsBlob(pc4) /\ IsBlob(c) /\ IsBlob(h) /\ IsBlob(m) /\ 0 \in Nat /\ HeaderSize \in Nat
    BY <1>1, <1>2, <1>3, <1>5, <1>7 DEF Good
  <2> HIDE DEF pc4
  <2> QED BY <1>1, <1>6, <1>7, <2>1, HoldsWithin
<1> HIDE DEF pc4, pd
<1>11. Good(w) /\ w.size = NewcDataOffset(n) + Align(e.data.size, 4)
  BY <1>4, <1>7, <1>8, GoodConcat
<1>12. Holds(w, 0, h) /\ Holds(w, HeaderSize, m)
  <2>1. Holds(pc4, 0, h) /\ Holds(pc4, HeaderSize, m) /\ 0 \in Nat /\ HeaderSize \in Nat
    BY <1>1, <1>10
  <2> QED BY <1>2, <1>3, <1>4, <1>7, <1>8, <2>1, HoldsLeft DEF Good
<1> QED BY <1>1, <1>9, <1>11, <1>12 DEF NewcEntrySize, h, m

\* A ramdisk that other tools have packed, with whatever entries in it, is refused by
\* CpioArchive, and one that CpioArchive has packed by them: nobody reads a part of
\* the other's archive as the whole of it.
THEOREM NoArchiveIsMisread ==
    ASSUME NEW es, GoodEntries(es), Len(es) # 0
    PROVE  ~Parse(NewcDump(es)).ok /\ ~NewcLoad(Serialize(es)).ok
<1> DEFINE w == [i \in DOMAIN es |-> NewcEntry(es[i])]
           s == NewcDump(es)
           t == NewcEntry(Trailer)
           e == es[1]
           g == IF Len(es) = 1 THEN Trailer ELSE es[2]
           n == NameSize(e.name)
           m == NameSize(g.name)
<1>1. Len(es) \in Nat /\ DOMAIN es = 1 .. Len(es) /\ \A i \in 1 .. Len(es) : GoodEntry(es[i])
  BY GoodIndex
<1>2. Len(w) = Len(es) /\ \A i \in 1 .. Len(es) : w[i] = NewcEntry(es[i])
  BY <1>1
<1>3. s = Concat(ConcatAll(w), t)
  BY DEF NewcDump
<1>4. Good(t) /\ \A i \in 1 .. Len(es) : Good(w[i])
  BY <1>1, <1>2, NewcEntryWritten, TrailerWritten DEF GoodEntry
<1> HIDE DEF w, s
<1>5. Len(w) \in Nat \ {0} /\ 1 \in 1 .. Len(es) /\ (Len(es) # 1 => 2 \in 1 .. Len(es))
  BY <1>1, <1>2
<1>6. Good(s) /\ Holds(s, 0, w[1]) /\ Holds(s, w[1].size, NewcEntry(g))
  BY <1>2, <1>3, <1>4, <1>5, FirstTwo
<1>7. /\ n \in Nat \ {0} /\ Good(e.data) /\ e.name # Trailer.name
      /\ m \in Nat \ {0} /\ Good(g.data) /\ w[1] = NewcEntry(e)
  BY <1>1, <1>2, <1>5, TrailerWritten DEF GoodEntry
<1> HIDE DEF e, g
<1>8. /\ Good(w[1]) /\ w[1].size = NewcEntrySize(n, e.data.size)
      /\ Holds(w[1], 0, Header(n, e.data.size)) /\ Holds(w[1], HeaderSize, NameBlob(e))
  BY <1>7, NewcEntryWritten
<1>9. /\ Good(NewcEntry(g)) /\ Holds(NewcEntry(g), 0, Header(m, g.data.size))
      /\ NewcDataOffset(m) \in Nat /\ NewcDataOffset(m) <= NewcEntry(g).size
  BY <1>7, NewcEntryWritten
<1>10. e.data.size \in Nat /\ g.data.size \in Nat /\ n \in Nat /\ m \in Nat
  BY <1>7 DEF Good, IsBlob
<1>11. /\ FirstEntry(s) /\ ReadAt(s, 0).namesize = n /\ ReadAt(s, 0).filesize = e.data.size
       /\ IsHeader(ReadAt(s, w[1].size)) /\ ReadAt(s, w[1].size).namesize = m
  <2> HIDE DEF n, m
  <2> QED BY <1>6, <1>7, <1>8, <1>9, <1>10, FirstRead DEF n
<1>12. w[1].size = NewcNext(s)
  BY <1>8, <1>11 DEF NewcNext
<1>13. w[1].size + NewcDataOffset(m) <= s.size
  <2>1. w[1].size + NewcEntry(g).size <= s.size /\ s.size \in Nat /\ w[1].size \in Nat
        /\ NewcEntry(g).size \in Nat
    BY <1>6, <1>8, <1>9 DEF Holds, Good, IsBlob
  <2> QED BY <1>9, <2>1
<1>14. NewcGoesOn(s)
  BY <1>11, <1>12, <1>13 DEF NewcGoesOn, InRange
<1>15. ~Parse(s).ok
  BY <1>6, <1>11, <1>14, NewcIsRefused
<1>16. ~NewcLoad(Serialize(es)).ok
  BY GoodSerialize, SerializeIsCpio, OwnIsRefused
<1> QED BY <1>15, <1>16 DEF s

=============================================================================
