-------------------------------- MODULE Blob --------------------------------
(***************************************************************************)
(* Byte strings, kept sparsely: a blob has a size and holds, at some of    *)
(* its offsets, atoms: runs of bytes with a meaning (a header, a name, the *)
(* contents of a file).  Bytes outside the atoms are zero.  Offsets and    *)
(* sizes are those of the code, in bytes; only the contents of an atom     *)
(* are abstract.  A slice that cuts an atom in two keeps its bytes but not *)
(* its meaning.                                                            *)
(***************************************************************************)
EXTENDS Naturals, Sequences

\* What bytes without a meaning of their own read as; every atom is a record
\* with a kind.
Torn == [kind |-> "torn"]

Zeros(n) == [size |-> n, at |-> [o \in {} |-> Torn]]

\* A blob of one atom; an atom of no bytes is no atom.
Atom(n, v) ==
    IF n = 0 THEN Zeros(0)
    ELSE [size |-> n, at |-> [o \in {0} |-> [size |-> n, val |-> v]]]

\* A blob: its atoms lie in it one after another and none is empty.
EndOf(b, x) == x + b.at[x].size
IsBlob(b) ==
    /\ b = [size |-> b.size, at |-> b.at] /\ b.size \in Nat
    /\ b.at = [x \in DOMAIN b.at |-> [size |-> b.at[x].size, val |-> b.at[x].val]]
    /\ DOMAIN b.at \subseteq Nat
    /\ \A x \in DOMAIN b.at :
          /\ b.at[x].size \in Nat \ {0} /\ EndOf(b, x) <= b.size
          /\ \A y \in DOMAIN b.at : x < y => EndOf(b, x) <= y

Smaller(m, n) == IF m < n THEN m ELSE n

\* span.Slice(o, n), or Stream.Write of that part of an array.
Slice(b, o, n) ==
    LET here    == {x \in DOMAIN b.at : n > 0 /\ x < o + n /\ EndOf(b, x) > o}
        Start(x) == IF x < o THEN 0 ELSE x - o
        Whole(x) == x >= o /\ EndOf(b, x) <= o + n
    IN  [size |-> n,
         at   |-> [y \in {Start(x) : x \in here} |->
                     LET x == CHOOSE z \in here : Start(z) = y
                     IN  [size |-> Smaller(EndOf(b, x), o + n) - (o + y),
                          val  |-> IF Whole(x) THEN b.at[x].val ELSE Torn]]]

\* A slice the runtime refuses with ArgumentOutOfRangeException.
InRange(b, o, n) == o + n <= b.size

Concat(a, b) ==
    [size |-> a.size + b.size,
     at   |-> [x \in DOMAIN a.at \cup {a.size + y : y \in DOMAIN b.at} |->
                 IF x < a.size THEN a.at[x] ELSE b.at[x - a.size]]]

Align(n, k) == ((n + k - 1) \div k) * k

PadTo(b, k) == [b EXCEPT !.size = Align(@, k)]

\* What is read at an offset: the atom that begins there, or bytes without one.
ReadAt(b, o) == IF o \in DOMAIN b.at THEN b.at[o].val ELSE Torn

\* The blobs of bs one after the other; Joined(bs)[i] is the first i of them.
Joined(bs) ==
    LET Upto[i \in 0 .. Len(bs)] ==
          IF i = 0 THEN Zeros(0) ELSE Concat(Upto[i - 1], bs[i])
    IN  Upto
ConcatAll(bs) == Joined(bs)[Len(bs)]
=============================================================================
