-------------------------- MODULE UninstallProofs --------------------------
(***************************************************************************)
(* What is proved of the uninstaller: its types; that the image it writes  *)
(* reads back, by the reference's layout, as what was put into it; that    *)
(* "no Magisk" is said only where there is none; what of Magisk is left in *)
(* what it writes; and which files it keeps as they are, whatever else the *)
(* ramdisk holds that ends in a name it looks for. A run may take what an  *)
(* earlier one wrote: the last section shows that what the constants       *)
(* promise of the images holds of the outputs too.                         *)
(***************************************************************************)
EXTENDS ArchiveProofs

-----------------------------------------------------------------------------
(* The edits of a ramdisk keep its entries well formed.                     *)

\* The function ChosenUpto(s, K) exists, and this is its recursion.
LEMMA ChosenUnfolds ==
    ASSUME NEW s, Len(s) \in Nat, NEW K
    PROVE  ChosenUpto(s, K)
             = [i \in 0 .. Len(s) |->
                  IF i = 0 THEN <<>>
                  ELSE IF i \in K THEN Append(ChosenUpto(s, K)[i - 1], s[i])
                  ELSE ChosenUpto(s, K)[i - 1]]
<1> DEFINE New(q, i) == IF i \in K THEN Append(q, s[i]) ELSE q
           Is(f, n) == f = [i \in 0 .. n |-> IF i = 0 THEN <<>> ELSE New(f[i - 1], i)]
           S == {n \in Nat : \E f : Is(f, n)}
<1> HIDE DEF New
<1>1. S = Nat
  <2>1. 0 \in S
    <3> DEFINE f == [i \in 0 .. 0 |-> <<>>]
    <3>1. \A i \in 0 .. 0 : i = 0
      OBVIOUS
    <3>2. f = [i \in 0 .. 0 |-> IF i = 0 THEN <<>> ELSE New(f[i - 1], i)]
      BY <3>1
    <3> QED BY <3>2
  <2>2. ASSUME NEW n \in S PROVE n + 1 \in S
    <3>1. n \in Nat /\ \E f : Is(f, n)
      OBVIOUS
    <3>2. PICK f : Is(f, n)
      BY <3>1
    <3> DEFINE g == [i \in 0 .. n + 1 |-> IF i = n + 1 THEN New(f[n], n + 1) ELSE f[i]]
    <3>3. \A i \in 0 .. n : g[i] = f[i]
      BY <3>1
    <3>4. g[n + 1] = New(f[n], n + 1)
      BY <3>1
    <3>5. g = [i \in 0 .. n + 1 |-> g[i]]
      OBVIOUS
    <3> HIDE DEF g
    <3>6. ASSUME NEW i \in 0 .. n + 1
          PROVE  g[i] = IF i = 0 THEN <<>> ELSE New(g[i - 1], i)
      <4>1. CASE i = n + 1
        <5>1. i # 0 /\ i - 1 = n /\ n \in 0 .. n
          BY <3>1, <4>1
        <5> QED BY <3>3, <3>4, <4>1, <5>1
      <4>2. CASE i # n + 1
        <5>1. i \in 0 .. n /\ (i # 0 => i - 1 \in 0 .. n)
          BY <3>1, <4>2
        <5>2. f[i] = IF i = 0 THEN <<>> ELSE New(f[i - 1], i)
          BY <3>2, <5>1
        <5> QED BY <3>3, <5>1, <5>2
      <4> QED BY <4>1, <4>2
    <3>7. Is(g, n + 1)
      BY <3>5, <3>6
    <3>8. n + 1 \in Nat /\ \E h : Is(h, n + 1)
      <4> HIDE DEF Is
      <4> QED BY <3>1, <3>7
    <3> QED BY <3>8
  <2>3. S \in SUBSET Nat
    OBVIOUS
  <2> HIDE DEF S
  <2> QED BY <2>1, <2>2, <2>3, SetInduction
<1>2. \E f : Is(f, Len(s))
  BY <1>1
<1>3. ChosenUpto(s, K) = CHOOSE f : Is(f, Len(s))
  BY DEF ChosenUpto, New
<1>4. Is(ChosenUpto(s, K), Len(s))
  <2> HIDE DEF Is
  <2> QED BY <1>2, <1>3
<1> QED BY <1>4 DEF New

\* What is chosen of a sequence is a sequence of the same things.
LEMMA ChosenIsSeq ==
    ASSUME NEW T, NEW s \in Seq(T), NEW K
    PROVE  Chosen(s, K) \in Seq(T)
<1> DEFINE f == ChosenUpto(s, K)
           C(n) == n <= Len(s) => f[n] \in Seq(T)
           S == {n \in Nat : C(n)}
<1>1. Len(s) \in Nat /\ \A i \in 1 .. Len(s) : s[i] \in T
  OBVIOUS
<1>2. f = [i \in 0 .. Len(s) |-> IF i = 0 THEN <<>>
                                 ELSE IF i \in K THEN Append(f[i - 1], s[i]) ELSE f[i - 1]]
  BY <1>1, ChosenUnfolds
<1> HIDE DEF f
<1>3. f[0] = <<>>
  BY <1>1, <1>2
<1>4. \A i \in 1 .. Len(s) : f[i] = IF i \in K THEN Append(f[i - 1], s[i]) ELSE f[i - 1]
  <2> TAKE i \in 1 .. Len(s)
  <2>1. i \in 0 .. Len(s) /\ i # 0
    BY <1>1
  <2> QED BY <1>2, <2>1
<1>5. S = Nat
  <2>1. 0 \in S
    <3>1. <<>> \in Seq(T)
      OBVIOUS
    <3>2. C(0)
      BY <1>3, <3>1
    <3> HIDE DEF C
    <3> QED BY <3>2
  <2>2. ASSUME NEW n \in S PROVE n + 1 \in S
    <3>1. n \in Nat /\ C(n)
      <4> HIDE DEF C
      <4> QED OBVIOUS
    <3>2. ASSUME n + 1 <= Len(s) PROVE f[n + 1] \in Seq(T)
      <4>1. n + 1 \in 1 .. Len(s) /\ (n + 1) - 1 = n /\ f[n] \in Seq(T)
        BY <1>1, <3>1, <3>2
      <4>2. f[n + 1] = IF n + 1 \in K THEN Append(f[n], s[n + 1]) ELSE f[n]
        BY <1>4, <4>1
      <4>3. Append(f[n], s[n + 1]) \in Seq(T)
        BY <1>1, <4>1
      <4> QED BY <4>1, <4>2, <4>3
    <3> QED BY <3>1, <3>2
  <2>3. S \in SUBSET Nat
    OBVIOUS
  <2> HIDE DEF S
  <2> QED BY <2>1, <2>2, <2>3, SetInduction
<1>6. C(Len(s))
  <2> HIDE DEF C
  <2> QED BY <1>1, <1>5
<1> QED BY <1>1, <1>6 DEF Chosen, f

\* Entries that are chosen from a ramdisk are entries of it.
LEMMA ChosenGood ==
    ASSUME NEW es, GoodEntries(es), NEW K
    PROVE  GoodEntries(Chosen(es, K))
  BY ChosenIsSeq DEF GoodEntries

\* GetEntry finds an entry that is there, the first of them.
LEMMA IndexOfEntry ==
    ASSUME NEW es, GoodEntries(es), NEW name, HasEntry(es, name)
    PROVE  /\ EntryIndex(es, name) \in 1 .. Len(es)
           /\ IsSuffix(name, es[EntryIndex(es, name)].name)
           /\ \A j \in 1 .. EntryIndex(es, name) - 1 : ~IsSuffix(name, es[j].name)
<1> DEFINE T == {i \in 1 .. Len(es) : IsSuffix(name, es[i].name)}
<1>1. Len(es) \in Nat /\ DOMAIN es = 1 .. Len(es)
  BY GoodIndex
<1>2. T \in SUBSET Nat /\ T # {}
  BY <1>1 DEF HasEntry
<1>3. PICK m \in T : \A k \in T : m <= k
  <2> HIDE DEF T
  <2> QED BY <1>2, LeastNat
<1>4. m \in DOMAIN es /\ IsSuffix(name, es[m].name)
  BY <1>1, <1>3
<1>5. \A j \in 1 .. m - 1 : ~IsSuffix(name, es[j].name)
  <2> TAKE j \in 1 .. m - 1
  <2>1. j \in 1 .. Len(es) /\ ~(m <= j)
    BY <1>1, <1>3
  <2> QED BY <1>3, <2>1
<1>6. \E i \in DOMAIN es : /\ IsSuffix(name, es[i].name)
                           /\ \A j \in 1 .. i - 1 : ~IsSuffix(name, es[j].name)
  BY <1>4, <1>5
<1>7. /\ EntryIndex(es, name) \in DOMAIN es
      /\ IsSuffix(name, es[EntryIndex(es, name)].name)
      /\ \A j \in 1 .. EntryIndex(es, name) - 1 : ~IsSuffix(name, es[j].name)
  BY <1>6 DEF EntryIndex
<1> QED BY <1>1, <1>7

\* GetEntry finds well-formed data.
LEMMA EntryDataGood ==
    ASSUME NEW es, GoodEntries(es), NEW name, HasEntry(es, name)
    PROVE  Good(EntryData(es, name))
  BY IndexOfEntry, GoodIndex DEF EntryData, GoodEntry

\* Removing an entry leaves the others.
LEMMA RemoveEntryGood ==
    ASSUME NEW es, GoodEntries(es), NEW name
    PROVE  GoodEntries(RemoveEntry(es, name))
<1>1. CASE HasEntry(es, name)
  <2> DEFINE i == EntryIndex(es, name)
  <2>1. PICK S : es \in Seq(S) /\ \A e \in S : GoodEntry(e)
    BY DEF GoodEntries
  <2>2. i \in 1 .. Len(es)
    BY <1>1, IndexOfEntry
  <2> HIDE DEF i
  <2>3. RemoveAt(es, i) \in Seq(S)
    <3>1. SubSeq(es, 1, i - 1) \in Seq(S)
      BY <2>1, <2>2
    <3>2. SubSeq(es, i + 1, Len(es)) \in Seq(S)
      BY <2>1, <2>2
    <3> QED BY <3>1, <3>2 DEF RemoveAt
  <2>4. RemoveEntry(es, name) = RemoveAt(es, i)
    BY <1>1 DEF RemoveEntry, i
  <2> QED BY <2>1, <2>3, <2>4 DEF GoodEntries
<1>2. CASE ~HasEntry(es, name)
  BY <1>2 DEF RemoveEntry
<1> QED BY <1>1, <1>2

\* The entries with other data in one of them.
LEMMA NewDataGood ==
    ASSUME NEW es, GoodEntries(es), NEW i \in 1 .. Len(es), NEW data, Good(data)
    PROVE  GoodEntries([es EXCEPT ![i].data = data])
<1> DEFINE e == [es[i] EXCEPT !.data = data]
           new == [es EXCEPT ![i] = e]
<1>1. PICK S : es \in Seq(S) /\ \A d \in S : GoodEntry(d)
  BY DEF GoodEntries
<1>2. GoodEntry(es[i])
  BY GoodIndex
<1>3. e = [name |-> es[i].name, data |-> data]
  BY <1>2 DEF GoodEntry
<1>4. e.name = es[i].name /\ e.data = data /\ e = [name |-> e.name, data |-> e.data]
  BY <1>3
<1> HIDE DEF e
<1>5. GoodEntry(e)
  BY <1>2, <1>4 DEF GoodEntry
<1>6. new \in Seq(S \cup {e})
  BY <1>1
<1>7. \A d \in S \cup {e} : GoodEntry(d)
  BY <1>1, <1>5
<1> HIDE DEF new
<1>8. GoodEntries(new)
  BY <1>6, <1>7 DEF GoodEntries
<1> QED BY <1>8 DEF new, e

\* The lines of a text file are a sequence, and so is what an edit makes of them.
LEMMA LinesAreSequence ==
    ASSUME NEW b, Good(b), NEW kind \in {"fstab", "rc"}
    PROVE  IsSequence(Lines(b, kind))
<1> DEFINE v == ReadAt(b, 0)
<1>1. CASE v.kind = kind
  <2>1. 0 \in DOMAIN b.at /\ v = b.at[0].val
    BY <1>1 DEF ReadAt, Torn
  <2>2. PICK B : Proper(v, B)
    BY <2>1 DEF Good, Fine
  <2>3. IsSequence(v.lines)
    <3> HIDE DEF v
    <3> QED BY <1>1, <2>2 DEF Proper
  <2> QED BY <1>1, <2>3 DEF Lines
<1>2. CASE v.kind # kind
  BY <1>2 DEF Lines, IsSequence
<1> QED BY <1>1, <1>2

\* Lines chosen from a text are a text.
LEMMA ChosenIsSequence ==
    ASSUME NEW s, IsSequence(s), NEW K
    PROVE  IsSequence(Chosen(s, K))
<1> DEFINE c == Chosen(s, K)
<1>1. PICK T : s \in Seq(T)
  BY DEF IsSequence
<1>2. c \in Seq(T)
  BY <1>1, ChosenIsSeq
<1> HIDE DEF c
<1>3. c \in Seq({c[i] : i \in DOMAIN c})
  BY <1>2
<1> QED BY <1>3 DEF c, IsSequence

\* A text written is well formed.
LEMMA TextGood ==
    ASSUME NEW s, IsSequence(s)
    PROVE  Good(FstabBlob(s)) /\ Good(RcBlob(s))
<1>1. Len(s) \in Nat
  BY DEF IsSequence
<1>2. FstabLineSize * Len(s) \in Nat /\ RcLineSize * Len(s) \in Nat
  BY <1>1, ContentsAssumption
<1>3. \A kind \in {"fstab", "rc"} : /\ Fine([kind |-> kind, lines |-> s])
                                     /\ ~IsHeader([kind |-> kind, lines |-> s])
  <2> TAKE kind \in {"fstab", "rc"}
  <2> DEFINE v == [kind |-> kind, lines |-> s]
  <2>1. v.kind = kind /\ v.lines = s
    OBVIOUS
  <2> HIDE DEF v
  <2>2. Proper(v, {}) /\ Closed({})
    BY <2>1 DEF Proper, Closed, IsBootHeader
  <2>3. Fine(v) /\ ~IsHeader(v)
    BY <2>1, <2>2 DEF Fine, IsHeader
  <2> QED BY <2>3 DEF v
<1> QED BY <1>2, <1>3, GoodAtom DEF FstabBlob, RcBlob

\* So is the fstab that the removal writes,
LEMMA FstabTextGood ==
    ASSUME NEW b, Good(b)
    PROVE  Good(FstabBlob(RestoreFstabFlags(RemovePatterns(Lines(b, "fstab")))))
<1> DEFINE lines == RemovePatterns(Lines(b, "fstab"))
           new == RestoreFstabFlags(lines)
<1>1. IsSequence(lines)
  BY LinesAreSequence, ChosenIsSequence DEF RemovePatterns
<1> HIDE DEF lines
<1>2. Len(lines) \in Nat /\ DOMAIN lines = 1 .. Len(lines)
  BY <1>1 DEF IsSequence
<1>3. DOMAIN new = 1 .. Len(lines) /\ new = [i \in 1 .. Len(lines) |-> new[i]]
  BY <1>2 DEF RestoreFstabFlags
<1> HIDE DEF new
<1>4. new \in Seq({new[i] : i \in DOMAIN new})
  BY <1>2, <1>3
<1>5. Good(FstabBlob(new))
  BY <1>4, TextGood DEF IsSequence
<1> QED BY <1>5 DEF new, lines

\* in every fstab,
LEMMA CleanFstabsGood ==
    ASSUME NEW es, GoodEntries(es)
    PROVE  GoodEntries(CleanFstabs(es))
<1> DEFINE New(e) == IF IsFstab(e)
                     THEN [e EXCEPT !.data =
                             FstabBlob(RestoreFstabFlags(RemovePatterns(Lines(@, "fstab"))))]
                     ELSE e
           new == [i \in DOMAIN es |-> New(es[i])]
<1>1. Len(es) \in Nat /\ DOMAIN es = 1 .. Len(es) /\ \A i \in 1 .. Len(es) : GoodEntry(es[i])
  BY GoodIndex
<1>2. ASSUME NEW e, GoodEntry(e) PROVE GoodEntry(New(e))
  <2> DEFINE d == FstabBlob(RestoreFstabFlags(RemovePatterns(Lines(e.data, "fstab"))))
             e2 == [e EXCEPT !.data = d]
  <2>1. Good(d)
    BY <1>2, FstabTextGood DEF GoodEntry
  <2>2. New(e) = IF IsFstab(e) THEN e2 ELSE e
    OBVIOUS
  <2> HIDE DEF d, New
  <2>3. e2 = [name |-> e.name, data |-> d]
    BY <1>2 DEF GoodEntry
  <2>4. e2.name = e.name /\ e2.data = d /\ e2 = [name |-> e2.name, data |-> e2.data]
    BY <2>3
  <2> HIDE DEF e2
  <2>5. GoodEntry(e2)
    BY <1>2, <2>1, <2>4 DEF GoodEntry
  <2> QED BY <1>2, <2>2, <2>5
<1>3. CleanFstabs(es) = new
  BY DEF CleanFstabs
<1> HIDE DEF New
<1>4. new \in Seq({new[i] : i \in 1 .. Len(es)})
  BY <1>1
<1>5. \A e \in {new[i] : i \in 1 .. Len(es)} : GoodEntry(e)
  BY <1>1, <1>2
<1> HIDE DEF new
<1> QED BY <1>3, <1>4, <1>5 DEF GoodEntries

\* and the init.rc without the lines of Magisk.
LEMMA CleanInitRcGood ==
    ASSUME NEW es, GoodEntries(es)
    PROVE  GoodEntries(CleanInitRc(es))
<1>1. CASE HasEntry(es, InitRc)
  <2> DEFINE i == EntryIndex(es, InitRc)
             lines == Lines(es[i].data, "rc")
             d == RcBlob(Chosen(lines, {k \in DOMAIN lines : lines[k] # "magisk"}))
  <2>1. i \in 1 .. Len(es)
    BY <1>1, IndexOfEntry
  <2>2. Good(es[i].data)
    BY <2>1, GoodIndex DEF GoodEntry
  <2>3. IsSequence(lines)
    <3> HIDE DEF i
    <3> QED BY <2>2, LinesAreSequence
  <2>4. Good(d)
    <3> HIDE DEF lines
    <3> QED BY <2>3, ChosenIsSequence, TextGood
  <2>5. CleanInitRc(es) = [es EXCEPT ![i].data = d]
    BY <1>1 DEF CleanInitRc
  <2> HIDE DEF i, lines, d
  <2>6. GoodEntries([es EXCEPT ![i].data = d])
    BY <2>1, <2>4, NewDataGood
  <2> QED BY <2>5, <2>6
<1>2. CASE ~HasEntry(es, InitRc)
  BY <1>2 DEF CleanInitRc
<1> QED BY <1>1, <1>2

\* Surgical removal keeps a ramdisk well formed.
LEMMA SurgicalGood ==
    ASSUME NEW es, GoodEntries(es)
    PROVE  GoodEntries(SurgicalRemoval(es))
  BY ChosenGood, RemoveEntryGood, CleanFstabsGood, CleanInitRcGood
     DEF SurgicalRemoval, RemoveDirectory

\* So does restoring the init,
LEMMA RestoreInitGood ==
    ASSUME NEW es, GoodEntries(es), HasEntry(es, InitBackup)
    PROVE  GoodEntries(RestoreInit(es))
<1> DEFINE name == <<"init">>
           init == Decompress(EntryData(es, InitBackup))
           new == ReplaceEntry(es, name, init)
<1>1. Good(init)
  BY EntryDataGood, GoodDecompress
<1>2. NameSize(name) \in Nat \ {0} /\ name # Trailer.name
  <2>1. NameSize(name) \in Nat \ {0}
    BY ContentsAssumption
  <2>2. name # Trailer.name
    BY DEF Trailer
  <2> QED BY <2>1, <2>2
<1> HIDE DEF name, init
<1>3. GoodEntries(new)
  <2>1. CASE HasEntry(es, name)
    BY <1>1, <2>1, IndexOfEntry, NewDataGood DEF ReplaceEntry
  <2>2. CASE ~HasEntry(es, name)
    <3> DEFINE e == [name |-> name, data |-> init]
    <3>1. e.name = name /\ e.data = init /\ e = [name |-> e.name, data |-> e.data]
      OBVIOUS
    <3>2. new = Append(es, e)
      BY <2>2 DEF ReplaceEntry
    <3> HIDE DEF e, new
    <3>3. GoodEntry(e)
      BY <1>1, <1>2, <3>1 DEF GoodEntry
    <3>4. PICK S : es \in Seq(S) /\ \A d \in S : GoodEntry(d)
      BY DEF GoodEntries
    <3>5. new \in Seq(S \cup {e}) /\ \A d \in S \cup {e} : GoodEntry(d)
      BY <3>2, <3>3, <3>4
    <3> QED BY <3>5 DEF GoodEntries
  <2> QED BY <2>1, <2>2
<1>4. RestoreInit(es)
        = RemoveEntry(RemoveDirectory(RemoveDirectory(new, Overlay), BackupDir), FullBackup)
  BY DEF RestoreInit, name, init
<1> HIDE DEF new
<1> QED BY <1>3, <1>4, ChosenGood, RemoveEntryGood DEF RemoveDirectory

\* and so does RestoreFromBackup, if it does not throw.
LEMMA RestoreIsArchive ==
    ASSUME NEW es, GoodEntries(es)
    PROVE  IsArchive(RestoreFromBackup(es)) /\ IsArchive(Read(SurgicalRemoval(es)))
<1>1. \A q : GoodEntries(q) => IsArchive(Read(q))
  BY DEF IsArchive, Read
<1>2. IsArchive(Read(SurgicalRemoval(es)))
  BY <1>1, SurgicalGood
<1>3. CASE HasEntry(es, FullBackup)
  BY <1>2, <1>3, EntryDataGood, ParseIsArchive DEF RestoreFromBackup
<1>4. CASE ~HasEntry(es, FullBackup) /\ HasEntry(es, InitBackup)
  BY <1>1, <1>2, <1>4, RestoreInitGood, NoEntries DEF RestoreFromBackup
<1>5. CASE ~HasEntry(es, FullBackup) /\ ~HasEntry(es, InitBackup)
  BY <1>2, <1>5 DEF RestoreFromBackup
<1> QED BY <1>2, <1>3, <1>4, <1>5

-----------------------------------------------------------------------------
(* The headers of ported images: pages, sizes and words.                    *)

\* The function Starts(first, page, sizes) exists, and this is its recursion.
LEMMA StartsUnfolds ==
    ASSUME NEW first, NEW page, NEW sizes, Len(sizes) \in Nat
    PROVE  Starts(first, page, sizes)
             = [i \in 1 .. Len(sizes) + 1 |->
                  IF i = 1 THEN first
                  ELSE Starts(first, page, sizes)[i - 1] + Align(sizes[i - 1], page)]
<1> DEFINE Is(f, n) == f = [i \in 1 .. n + 1 |->
                              IF i = 1 THEN first ELSE f[i - 1] + Align(sizes[i - 1], page)]
           S == {n \in Nat : \E f : Is(f, n)}
<1>1. S = Nat
  <2>1. 0 \in S
    <3> DEFINE f == [i \in 1 .. 0 + 1 |-> first]
    <3>1. \A i \in 1 .. 0 + 1 : i = 1
      OBVIOUS
    <3>2. f = [i \in 1 .. 0 + 1 |->
                 IF i = 1 THEN first ELSE f[i - 1] + Align(sizes[i - 1], page)]
      BY <3>1
    <3>3. \E h : Is(h, 0)
      <4> HIDE DEF f
      <4> QED BY <3>2
    <3> HIDE DEF Is
    <3> QED BY <3>3
  <2>2. ASSUME NEW n \in S PROVE n + 1 \in S
    <3>1. n \in Nat /\ \E f : Is(f, n)
      OBVIOUS
    <3>2. PICK f : Is(f, n)
      BY <3>1
    <3> DEFINE last == f[n + 1] + Align(sizes[n + 1], page)
               g == [i \in 1 .. n + 2 |-> IF i = n + 2 THEN last ELSE f[i]]
    <3>3. \A i \in 1 .. n + 1 : g[i] = f[i]
      BY <3>1
    <3>4. g[n + 2] = last
      BY <3>1
    <3>5. g = [i \in 1 .. n + 2 |-> g[i]]
      OBVIOUS
    <3> HIDE DEF g
    <3>6. ASSUME NEW i \in 1 .. n + 2
          PROVE  g[i] = IF i = 1 THEN first ELSE g[i - 1] + Align(sizes[i - 1], page)
      <4>1. CASE i = n + 2
        <5>1. i # 1 /\ i - 1 = n + 1 /\ n + 1 \in 1 .. n + 1
          BY <3>1, <4>1
        <5> QED BY <3>3, <3>4, <4>1, <5>1
      <4>2. CASE i # n + 2
        <5>1. i \in 1 .. n + 1 /\ (i # 1 => i - 1 \in 1 .. n + 1)
          BY <3>1, <4>2
        <5>2. f[i] = IF i = 1 THEN first ELSE f[i - 1] + Align(sizes[i - 1], page)
          BY <3>2, <5>1
        <5> QED BY <3>3, <5>1, <5>2
      <4> QED BY <4>1, <4>2
    <3>7. (n + 1) + 1 = n + 2
      BY <3>1
    <3>8. Is(g, n + 1)
      BY <3>5, <3>6, <3>7
    <3>9. n + 1 \in Nat /\ \E h : Is(h, n + 1)
      <4> HIDE DEF Is
      <4> QED BY <3>1, <3>8
    <3> QED BY <3>9
  <2>3. S \in SUBSET Nat
    OBVIOUS
  <2> HIDE DEF S
  <2> QED BY <2>1, <2>2, <2>3, SetInduction
<1>2. \E f : Is(f, Len(sizes))
  BY <1>1
<1>3. Starts(first, page, sizes) = CHOOSE f : Is(f, Len(sizes))
  BY DEF Starts
<1>4. Is(Starts(first, page, sizes), Len(sizes))
  <2> HIDE DEF Is
  <2> QED BY <1>2, <1>3
<1> QED BY <1>4

\* Where sections begin, one after the other.
LEMMA StartsStep ==
    ASSUME NEW first, NEW page, NEW sizes, Len(sizes) \in Nat
    PROVE  /\ Starts(first, page, sizes)[1] = first
           /\ \A i \in 1 .. Len(sizes) :
                 Starts(first, page, sizes)[i + 1]
                   = Starts(first, page, sizes)[i] + Align(sizes[i], page)
<1> DEFINE f == Starts(first, page, sizes)
<1>1. f = [i \in 1 .. Len(sizes) + 1 |->
             IF i = 1 THEN first ELSE f[i - 1] + Align(sizes[i - 1], page)]
  BY StartsUnfolds
<1> HIDE DEF f
<1>2. f[1] = first
  BY <1>1
<1>3. \A i \in 1 .. Len(sizes) : f[i + 1] = f[i] + Align(sizes[i], page)
  <2> TAKE i \in 1 .. Len(sizes)
  <2>1. i + 1 \in 1 .. Len(sizes) + 1 /\ i + 1 # 1 /\ (i + 1) - 1 = i
    OBVIOUS
  <2> QED BY <1>1, <2>1
<1> QED BY <1>2, <1>3 DEF f

\* The first header, by its definition.
LEMMA FirstHeader ==
    ASSUME NEW f, Good(f), HasHeader(f)
    PROVE  LET o == HeaderOffset(f) IN
           /\ o \in DOMAIN f.at /\ o \in Nat /\ IsBootHeader(f.at[o].val)
           /\ Fine(f.at[o].val)
<1> DEFINE T == {o \in DOMAIN f.at : IsBootHeader(f.at[o].val)}
<1>1. DOMAIN f.at \subseteq Nat
  BY DEF Good, IsBlob
<1>2. T \in SUBSET Nat /\ T # {}
  BY <1>1 DEF HasHeader
<1>3. PICK m \in T : \A k \in T : m <= k
  <2> HIDE DEF T
  <2> QED BY <1>2, LeastNat
<1>4. /\ m \in DOMAIN f.at /\ IsBootHeader(f.at[m].val)
      /\ \A x \in DOMAIN f.at : x < m => ~IsBootHeader(f.at[x].val)
  <2> SUFFICES ASSUME NEW x \in DOMAIN f.at, x < m, IsBootHeader(f.at[x].val) PROVE FALSE
    BY <1>3
  <2>1. x \in T /\ m \in Nat /\ x \in Nat
    BY <1>1, <1>3
  <2> QED BY <1>3, <2>1
<1>5. HeaderOffset(f) \in DOMAIN f.at /\ IsBootHeader(f.at[HeaderOffset(f)].val)
  BY <1>4 DEF HeaderOffset
<1> QED BY <1>1, <1>5 DEF Good

\* A header at the beginning is the first.
LEMMA HeaderFirst ==
    ASSUME NEW f, IsBlob(f), 0 \in DOMAIN f.at, IsBootHeader(f.at[0].val)
    PROVE  HeaderOffset(f) = 0
<1> DEFINE Is(o) == /\ IsBootHeader(f.at[o].val)
                    /\ \A x \in DOMAIN f.at : x < o => ~IsBootHeader(f.at[x].val)
<1>1. DOMAIN f.at \subseteq Nat
  BY DEF IsBlob
<1>2. Is(0)
  BY <1>1
<1>3. \A o \in DOMAIN f.at : Is(o) => o = 0
  <2> SUFFICES ASSUME NEW o \in DOMAIN f.at, Is(o), o # 0 PROVE FALSE
    OBVIOUS
  <2>1. 0 < o
    BY <1>1
  <2> QED BY <2>1
<1>4. HeaderOffset(f) = CHOOSE o \in DOMAIN f.at : Is(o)
  BY DEF HeaderOffset
<1> HIDE DEF Is
<1> QED BY <1>2, <1>3, <1>4

\* What a well-formed boot header has in it.
LEMMA HeaderWords ==
    ASSUME NEW h, IsBootHeader(h), Fine(h)
    PROVE  /\ h = [kind |-> h.kind, words |-> h.words] /\ h.kind \in {"ANDROID!", "VNDRBOOT"}
           /\ h.words \in [DOMAIN h.words -> Nat] /\ SizeWords(h) \subseteq DOMAIN h.words
           /\ \A o : Word(h, o) \in Nat
<1>1. PICK B : Proper(h, B)
  BY DEF Fine
<1>2. /\ h = [kind |-> h.kind, words |-> h.words]
      /\ h.words \in [DOMAIN h.words -> Nat] /\ SizeWords(h) \subseteq DOMAIN h.words
  BY <1>1 DEF Proper
<1>3. \A o : Word(h, o) \in Nat
  BY <1>2 DEF Word
<1> QED BY <1>2, <1>3 DEF IsBootHeader

\* The headers of Ported.
PortedHeader(h) ==
    /\ ~IsPxa(h) /\ StructSize(h) \in 1 .. RefPageSize(h)
    /\ ~IsVendor(h) => HeaderVersion(h) <= 4 /\ (HeaderVersion(h) \in {1, 2} => Word(h, 24) = 0)

\* In them parser, repacker and reference agree on pages and sizes.
LEMMA PagesAgree ==
    ASSUME NEW h, IsBootHeader(h), Fine(h), PortedHeader(h)
    PROVE  /\ PageSize(h) \in Nat \ {0} /\ StructSize(h) \in 1 .. PageSize(h)
           /\ RefPageSize(h) = PageSize(h) /\ RepackPage(h) = PageSize(h)
           /\ HeaderSpace(h) = PageSize(h)
<1>1. \A o : Word(h, o) \in Nat
  BY HeaderWords
<1>2. HeaderVersion(h) \in Nat
  BY <1>1 DEF HeaderVersion
<1>3. CASE IsVendor(h)
  <2>1. RefPageSize(h) = Word(h, 12) /\ StructSize(h) = Word(h, 2096)
    BY <1>3 DEF RefPageSize, StructSize
  <2>2. Word(h, 12) \in Nat /\ Word(h, 2096) \in Nat /\ Word(h, 2096) > 0
        /\ Word(h, 2096) <= Word(h, 12)
    BY <1>1, <2>1 DEF PortedHeader
  <2>3. Word(h, 12) \in Nat \ {0}
    BY <2>2
  <2>4. PageSize(h) = Word(h, 12) /\ RepackPage(h) = Word(h, 12)
    BY <1>3, <2>2 DEF PageSize, RepackPage, NoCase
  <2>5. HeaderSpace(h) = Align(Word(h, 2096), Word(h, 12))
    BY <1>3 DEF HeaderSpace
  <2>6. Align(Word(h, 2096), Word(h, 12)) = Word(h, 12)
    BY <2>2, <2>3, AlignUp
  <2> QED BY <2>1, <2>2, <2>3, <2>4, <2>5, <2>6
<1>4. CASE ~IsVendor(h)
  <2>1. HeaderVersion(h) <= 4 /\ ~IsPxa(h)
    BY <1>4 DEF PortedHeader
  <2>2. RefVersion(h) = HeaderVersion(h)
    BY <1>2, <2>1 DEF RefVersion
  <2>3. RefPageSize(h) = IF HeaderVersion(h) \in {3, 4} THEN 4096 ELSE Word(h, 36)
    BY <1>4, <2>1, <2>2 DEF RefPageSize
  <2>4. RefPageSize(h) \in Nat /\ StructSize(h) \in Nat
        /\ StructSize(h) > 0 /\ StructSize(h) <= RefPageSize(h)
    <3>1. RefPageSize(h) \in Nat
      BY <1>1, <2>3
    <3> QED BY <3>1 DEF PortedHeader
  <2>5. RefPageSize(h) \in Nat \ {0}
    BY <2>4
  <2>6. PageSize(h) = RefPageSize(h) /\ RepackPage(h) = PageSize(h)
    BY <1>2, <1>4, <2>1, <2>3, <2>5 DEF PageSize, RepackPage, NoCase
  <2>7. HeaderSpace(h) = RefPageSize(h)
    BY <1>4 DEF HeaderSpace
  <2> QED BY <2>4, <2>5, <2>6, <2>7
<1> QED BY <1>3, <1>4

\* ... and on the size of every section.
LEMMA SizesAgree ==
    ASSUME NEW h, IsBootHeader(h), Fine(h), PortedHeader(h)
    PROVE  /\ RefSize(h, "extra") = 0
           /\ \A s \in {"kernel", "ramdisk", "second", "recovery_dtbo", "dtb"} :
                 RefSize(h, s) = SectionSize(h, s)
           /\ \A s \in ToSet(Sections) : SectionSize(h, s) \in Nat
<1>1. \A o : Word(h, o) \in Nat
  BY HeaderWords
<1>2. HeaderVersion(h) \in Nat
  BY <1>1 DEF HeaderVersion
<1>3. \A s \in ToSet(Sections) :
         s \in {"kernel", "ramdisk", "second", "recovery_dtbo", "dtb", "signature"}
  BY DEF ToSet, Sections
<1>4. \A s \in {"kernel", "ramdisk", "second", "recovery_dtbo", "dtb", "signature"} :
         SectionSize(h, s) \in Nat
  BY <1>1, <1>2 DEF SectionSize, HasDtbo
<1>5. CASE IsVendor(h)
  <2>1. RefSize(h, "extra") = 0 /\ RefSize(h, "kernel") = 0 /\ RefSize(h, "second") = 0
        /\ RefSize(h, "recovery_dtbo") = 0
    BY <1>5 DEF RefSize
  <2>2. SectionSize(h, "kernel") = 0 /\ SectionSize(h, "second") = 0
        /\ SectionSize(h, "recovery_dtbo") = 0
    BY <1>5 DEF SectionSize, HasDtbo
  <2>3. RefSize(h, "ramdisk") = SectionSize(h, "ramdisk")
    BY <1>5 DEF RefSize, SectionSize
  <2>4. RefSize(h, "dtb") = SectionSize(h, "dtb")
    BY <1>5 DEF RefSize, SectionSize
  <2> QED BY <1>3, <1>4, <2>1, <2>2, <2>3, <2>4
<1>6. CASE ~IsVendor(h)
  <2>1. HeaderVersion(h) <= 4 /\ ~IsPxa(h) /\ (HeaderVersion(h) \in {1, 2} => Word(h, 24) = 0)
    BY <1>6 DEF PortedHeader
  <2>2. RefVersion(h) = HeaderVersion(h)
    BY <1>2, <2>1 DEF RefVersion
  <2>3. HeaderVersion(h) = 0 => Word(h, 40) = 0
    BY <1>6 DEF HeaderVersion
  <2>4. HeaderVersion(h) \in {0, 1, 2, 3, 4}
    BY <1>2, <2>1
  <2> QED BY <1>1, <1>3, <1>4, <1>6, <2>1, <2>2, <2>3, <2>4 DEF RefSize, SectionSize, HasDtbo
<1> QED BY <1>5, <1>6

\* The header that Repack writes.
Rewritten(h, k, r) == [h EXCEPT !.words = NewWords(h, k, r)]

\* Pages and sizes are numbers, and no page is empty, whatever the header.
LEMMA HeaderNumbers ==
    ASSUME NEW h, IsBootHeader(h), Fine(h)
    PROVE  /\ PageSize(h) \in Nat \ {0} /\ RepackPage(h) \in Nat \ {0}
           /\ StructSize(h) \in Nat
           /\ \A s \in ToSet(Sections) : SectionSize(h, s) \in Nat
<1>1. \A o : Word(h, o) \in Nat
  BY HeaderWords
<1>2. PageSize(h) \in Nat \ {0}
  <2> DEFINE page == IF IsVendor(h) THEN Word(h, 12)
                     ELSE IF ~IsPxa(h) /\ HeaderVersion(h) \in {3, 4} THEN 4096
                     ELSE Word(h, 36)
  <2>1. page \in Nat
    BY <1>1
  <2>2. PageSize(h) = IF page > 0 THEN page ELSE 4096
    BY DEF PageSize
  <2> HIDE DEF page
  <2> QED BY <2>1, <2>2
<1>3. RepackPage(h) \in Nat \ {0}
  BY <1>2 DEF RepackPage
<1>4. StructSize(h) \in Nat
  BY <1>1 DEF StructSize, PxaSize
<1>5. \A s \in {"kernel", "ramdisk", "second", "recovery_dtbo", "dtb", "signature"} :
         SectionSize(h, s) \in Nat
  BY <1>1 DEF SectionSize, HasDtbo
<1>6. \A s \in ToSet(Sections) :
         s \in {"kernel", "ramdisk", "second", "recovery_dtbo", "dtb", "signature"}
  BY DEF ToSet, Sections
<1> QED BY <1>2, <1>3, <1>4, <1>5, <1>6

\* It has every word of the header that was read, the two sizes replaced.
RewordedFrom(n, h, k, r) ==
    /\ n.kind = h.kind /\ n = [kind |-> n.kind, words |-> n.words]
    /\ DOMAIN n.words = DOMAIN h.words /\ n.words \in [DOMAIN h.words -> Nat]
    /\ ~IsVendor(h) =>
          /\ ~IsPxa(h) /\ HeaderVersion(h) <= 4 =>
                Word(n, 8) = k /\ Word(n, IF HeaderVersion(h) >= 3 THEN 12 ELSE 16) = r
          /\ \A o \in {20, 24, 36, 40, 1632, 1636, 1648} : Word(n, o) = Word(h, o)
    /\ IsVendor(h) =>
          Word(n, 24) = r /\ \A o \in {8, 12, 2096, 2100} : Word(n, o) = Word(h, o)

\* So NewWords says, whatever else it changes.
LEMMA NewWord ==
    ASSUME NEW h, IsBootHeader(h), Fine(h), NEW k \in Nat, NEW r \in Nat
    PROVE  RewordedFrom(Rewritten(h, k, r), h, k, r)
<1> DEFINE n == Rewritten(h, k, r)
           v == HeaderVersion(h)
           Put(o) ==
             IF IsVendor(h)
             THEN IF o = 24 THEN r ELSE IF o >= 2112 THEN 0 ELSE h.words[o]
             ELSE IF o = 8 THEN k
             ELSE IF IsPxa(h)
             THEN IF o = 16 THEN r ELSE IF o = 44 THEN Word(h, 36) ELSE h.words[o]
             ELSE IF o = (IF v >= 3 THEN 12 ELSE 16) THEN r
             ELSE IF v >= 3 /\ o \in {44, 48} THEN Word(h, o - 4)
             ELSE IF v = 4 /\ o = 1580 THEN 0
             ELSE h.words[o]
<1>1. /\ h = [kind |-> h.kind, words |-> h.words]
      /\ h.words \in [DOMAIN h.words -> Nat] /\ SizeWords(h) \subseteq DOMAIN h.words
      /\ \A o : Word(h, o) \in Nat
  BY HeaderWords
<1>2. n = [kind |-> h.kind, words |-> NewWords(h, k, r)]
  BY <1>1 DEF Rewritten
<1>3. n.words = [o \in DOMAIN h.words |-> Put(o)]
  BY <1>2 DEF NewWords
<1>4. \A o \in DOMAIN h.words : Put(o) \in Nat
  <2> TAKE o \in DOMAIN h.words
  <2>1. h.words[o] \in Nat
    BY <1>1
  <2> QED BY <1>1, <2>1
<1>5. \A o : Word(n, o) = IF o \in DOMAIN h.words THEN Put(o) ELSE 0
  <2> HIDE DEF Put, n
  <2> QED BY <1>3 DEF Word
<1>6. n.kind = h.kind /\ n = [kind |-> n.kind, words |-> n.words]
      /\ DOMAIN n.words = DOMAIN h.words /\ n.words \in [DOMAIN h.words -> Nat]
  <2>1. n.kind = h.kind /\ n = [kind |-> n.kind, words |-> n.words]
    BY <1>2
  <2> HIDE DEF Put, n
  <2> QED BY <1>3, <1>4, <2>1
<1>7. ASSUME ~IsVendor(h)
      PROVE  /\ ~IsPxa(h) /\ HeaderVersion(h) <= 4 =>
                     Word(n, 8) = k /\ Word(n, IF v >= 3 THEN 12 ELSE 16) = r
             /\ \A o \in {20, 24, 36, 40, 1632, 1636, 1648} : Word(n, o) = Word(h, o)
  <2>0. v \in Nat
    BY <1>1 DEF HeaderVersion
  <2>1. ASSUME ~IsPxa(h), v <= 4
        PROVE  8 \in DOMAIN h.words /\ (IF v >= 3 THEN 12 ELSE 16) \in DOMAIN h.words
    BY <1>1, <1>7, <2>0, <2>1 DEF SizeWords, NoCase
  <2>2. ~IsPxa(h) => Put(8) = k /\ Put(IF v >= 3 THEN 12 ELSE 16) = r
    BY <1>7, <2>0
  <2>3. ASSUME ~IsPxa(h), v <= 4 PROVE Word(n, 8) = k /\ Word(n, IF v >= 3 THEN 12 ELSE 16) = r
    <3> HIDE DEF Put, n, v
    <3> QED BY <1>5, <2>1, <2>2, <2>3
  <2>4. \A o \in {20, 24, 36, 40, 1632, 1636, 1648} : Put(o) = h.words[o]
    BY <1>7, <2>0
  <2>5. \A o \in {20, 24, 36, 40, 1632, 1636, 1648} : Word(n, o) = Word(h, o)
    <3> HIDE DEF Put, n, v
    <3> QED BY <1>5, <2>4 DEF Word
  <2> HIDE DEF Put, n
  <2> QED BY <2>3, <2>5
<1>8. ASSUME IsVendor(h)
      PROVE  /\ Word(n, 24) = r
             /\ \A o \in {8, 12, 2096, 2100} : Word(n, o) = Word(h, o)
  <2>1. 24 \in DOMAIN h.words
    BY <1>1, <1>8 DEF SizeWords
  <2>2. Put(24) = r
    BY <1>8
  <2>3. \A o \in {8, 12, 2096, 2100} : Put(o) = h.words[o]
    BY <1>8
  <2> HIDE DEF Put, n
  <2> QED BY <1>5, <2>1, <2>2, <2>3 DEF Word
<1> QED BY <1>6, <1>7, <1>8 DEF RewordedFrom

\* A well-formed header of the kind and version of another.
LikeHeader(n, h) ==
    /\ IsBootHeader(n) /\ Fine(n) /\ IsVendor(n) = IsVendor(h)
    /\ HeaderVersion(n) = HeaderVersion(h) /\ IsPxa(n) = IsPxa(h)

\* The header that is written is like the one that was read.
LEMMA NewHeaderFine ==
    ASSUME NEW h, IsBootHeader(h), Fine(h), NEW k \in Nat, NEW r \in Nat
    PROVE  LikeHeader(Rewritten(h, k, r), h)
<1> DEFINE n == Rewritten(h, k, r)
<1>1. RewordedFrom(n, h, k, r)
  BY NewWord
<1> USE DEF RewordedFrom
<1> HIDE DEF n
<1>2. IsBootHeader(n) /\ IsVendor(n) = IsVendor(h)
  BY <1>1 DEF IsBootHeader, IsVendor
<1>3. HeaderVersion(n) = HeaderVersion(h)
  BY <1>1, <1>2 DEF HeaderVersion
<1>4. IsPxa(n) = IsPxa(h)
  BY <1>1, <1>2 DEF IsPxa
<1>5. SizeWords(n) = SizeWords(h) /\ SizeWords(h) \subseteq DOMAIN h.words
      /\ h.kind \in {"ANDROID!", "VNDRBOOT"}
  BY <1>2, <1>3, <1>4, HeaderWords DEF SizeWords, NoCase
<1>6. Proper(n, {})
  BY <1>1, <1>2, <1>5 DEF Proper
<1>7. Fine(n)
  BY <1>6 DEF Fine, Closed
<1> QED BY <1>2, <1>3, <1>4, <1>7 DEF n, LikeHeader

\* A ported header with the sizes of another, but of kernel and ramdisk those given.
ResizedFrom(n, h, k, r) ==
    /\ PortedHeader(n) /\ PageSize(n) = PageSize(h)
    /\ SectionSize(n, "kernel") = IF IsVendor(h) THEN 0 ELSE k
    /\ SectionSize(n, "ramdisk") = r
    /\ \A s \in {"second", "recovery_dtbo", "dtb"} : SectionSize(n, s) = SectionSize(h, s)

\* The header that is written has the sizes of the new kernel and ramdisk.
LEMMA NewSizes ==
    ASSUME NEW h, IsBootHeader(h), Fine(h), PortedHeader(h), NEW k \in Nat, NEW r \in Nat
    PROVE  ResizedFrom(Rewritten(h, k, r), h, k, r)
<1> DEFINE n == Rewritten(h, k, r)
<1>1. RewordedFrom(n, h, k, r)
  BY NewWord
<1>2. LikeHeader(n, h)
  BY NewHeaderFine
<1> USE DEF RewordedFrom, LikeHeader
<1> HIDE DEF n
<1>3. HeaderVersion(h) \in Nat
  BY HeaderWords DEF HeaderVersion
<1>4. CASE IsVendor(h)
  <2>1. /\ RefPageSize(n) = RefPageSize(h) /\ StructSize(n) = StructSize(h)
        /\ PageSize(n) = PageSize(h)
    BY <1>1, <1>2, <1>4 DEF RefPageSize, StructSize, PageSize
  <2>2. PortedHeader(n)
    BY <1>2, <1>4, <2>1 DEF PortedHeader
  <2>3. SectionSize(n, "kernel") = 0
    BY <1>2, <1>4 DEF SectionSize
  <2>4. SectionSize(n, "ramdisk") = r
    BY <1>1, <1>2, <1>4 DEF SectionSize
  <2>5. SectionSize(n, "second") = SectionSize(h, "second")
    BY <1>1, <1>2, <1>4 DEF SectionSize
  <2>6. SectionSize(n, "recovery_dtbo") = SectionSize(h, "recovery_dtbo")
    BY <1>2, <1>4 DEF SectionSize, HasDtbo
  <2>7. SectionSize(n, "dtb") = SectionSize(h, "dtb")
    BY <1>1, <1>2, <1>4 DEF SectionSize
  <2> QED BY <1>4, <2>1, <2>2, <2>3, <2>4, <2>5, <2>6, <2>7 DEF n, ResizedFrom
<1>5. CASE ~IsVendor(h)
  <2>0. HeaderVersion(h) <= 4 /\ ~IsPxa(h)
    BY <1>5 DEF PortedHeader
  <2>1. RefPageSize(n) = RefPageSize(h)
    BY <1>1, <1>2, <1>5, <2>0 DEF RefPageSize, RefVersion
  <2>2. StructSize(n) = StructSize(h)
    BY <1>1, <1>2, <1>5, <2>0 DEF StructSize
  <2>3. PageSize(n) = PageSize(h)
    BY <1>1, <1>2, <1>5, <2>0 DEF PageSize
  <2>4. PortedHeader(n)
    BY <1>1, <1>2, <1>5, <2>1, <2>2 DEF PortedHeader
  <2>5. SectionSize(n, "kernel") = k
    BY <1>1, <1>2, <1>5, <2>0 DEF SectionSize
  <2>6. SectionSize(n, "ramdisk") = r
    BY <1>1, <1>2, <1>5, <2>0 DEF SectionSize
  <2>7. SectionSize(n, "second") = SectionSize(h, "second")
    BY <1>1, <1>2, <1>5, <2>0 DEF SectionSize
  <2>8. SectionSize(n, "recovery_dtbo") = SectionSize(h, "recovery_dtbo")
    BY <1>1, <1>2, <1>5, <2>0 DEF SectionSize, HasDtbo
  <2>9. SectionSize(n, "dtb") = SectionSize(h, "dtb")
    BY <1>1, <1>2, <1>5, <2>0 DEF SectionSize
  <2> QED BY <1>5, <2>3, <2>4, <2>5, <2>6, <2>7, <2>8, <2>9 DEF n, ResizedFrom
<1> QED BY <1>4, <1>5

-----------------------------------------------------------------------------
(* Where the parser and the reference find the sections.                    *)

\* Where ParseSections finds the sections, for a header at base.
Places(base, h) ==
    Starts(base + PageSize(h), PageSize(h),
           [i \in DOMAIN Sections |-> SectionSize(h, Sections[i])])

\* The list of the sections.
LEMMA SectionNames ==
    /\ Len(Sections) = 6 /\ DOMAIN Sections = 1 .. 6
    /\ Sections[1] = "kernel" /\ Sections[2] = "ramdisk" /\ Sections[3] = "second"
    /\ Sections[4] = "recovery_dtbo" /\ Sections[5] = "dtb" /\ Sections[6] = "signature"
    /\ ToSet(Sections) = {"kernel", "ramdisk", "second", "recovery_dtbo", "dtb", "signature"}
<1>1. ToSet(Sections) = {Sections[i] : i \in 1 .. 6}
  BY DEF ToSet, Sections
<1> QED BY <1>1 DEF Sections

\* The places of the sections, one after the other.
LEMMA PlacesAre ==
    ASSUME NEW h, IsBootHeader(h), Fine(h), NEW base \in Nat
    PROVE  /\ Places(base, h)[1] = base + PageSize(h)
           /\ \A i \in 1 .. 6 :
                 Places(base, h)[i + 1]
                   = Places(base, h)[i] + Align(SectionSize(h, Sections[i]), PageSize(h))
           /\ \A i \in 1 .. 7 : Places(base, h)[i] \in Nat
<1> DEFINE page == PageSize(h)
           first == base + page
           sizes == [i \in DOMAIN Sections |-> SectionSize(h, Sections[i])]
           A == Starts(first, page, sizes)
<1>1. Len(sizes) = 6 /\ \A i \in 1 .. 6 : sizes[i] = SectionSize(h, Sections[i])
  BY SectionNames
<1>2. page \in Nat \ {0} /\ first \in Nat
  BY HeaderNumbers
<1>3. \A i \in 1 .. 6 : SectionSize(h, Sections[i]) \in Nat
  BY SectionNames, HeaderNumbers
<1>4. Places(base, h) = A
  BY DEF Places
<1> HIDE DEF page, first, sizes
<1>5. A[1] = first /\ \A i \in 1 .. 6 : A[i + 1] = A[i] + Align(sizes[i], page)
  BY <1>1, StartsStep
<1> HIDE DEF A
<1>6. \A i \in 1 .. 6 : Align(sizes[i], page) \in Nat
  BY <1>1, <1>2, <1>3, AlignUp
<1>7. /\ A[2] = A[1] + Align(sizes[1], page) /\ A[3] = A[2] + Align(sizes[2], page)
      /\ A[4] = A[3] + Align(sizes[3], page) /\ A[5] = A[4] + Align(sizes[4], page)
      /\ A[6] = A[5] + Align(sizes[5], page) /\ A[7] = A[6] + Align(sizes[6], page)
  <2>1. \A i \in 1 .. 6 : i \in {1, 2, 3, 4, 5, 6}
    OBVIOUS
  <2>2. 1 + 1 = 2 /\ 2 + 1 = 3 /\ 3 + 1 = 4 /\ 4 + 1 = 5 /\ 5 + 1 = 6 /\ 6 + 1 = 7
    OBVIOUS
  <2>3. A[1 + 1] = A[1] + Align(sizes[1], page) /\ A[2 + 1] = A[2] + Align(sizes[2], page)
        /\ A[3 + 1] = A[3] + Align(sizes[3], page) /\ A[4 + 1] = A[4] + Align(sizes[4], page)
        /\ A[5 + 1] = A[5] + Align(sizes[5], page) /\ A[6 + 1] = A[6] + Align(sizes[6], page)
    BY <1>5
  <2> QED BY <2>2, <2>3
<1>8. /\ A[1] \in Nat /\ A[2] \in Nat /\ A[3] \in Nat /\ A[4] \in Nat
      /\ A[5] \in Nat /\ A[6] \in Nat /\ A[7] \in Nat
  <2>1. Align(sizes[1], page) \in Nat /\ Align(sizes[2], page) \in Nat
        /\ Align(sizes[3], page) \in Nat /\ Align(sizes[4], page) \in Nat
        /\ Align(sizes[5], page) \in Nat /\ Align(sizes[6], page) \in Nat
    BY <1>6
  <2> QED BY <1>2, <1>5, <1>7, <2>1
<1>9. \A i \in 1 .. 7 : i \in {1, 2, 3, 4, 5, 6, 7}
  OBVIOUS
<1>10. \A i \in 1 .. 7 : A[i] \in Nat
  BY <1>8, <1>9
<1>11. \A i \in 1 .. 6 : A[i + 1] = A[i] + Align(SectionSize(h, Sections[i]), page)
  BY <1>1, <1>5
<1> QED BY <1>4, <1>5, <1>10, <1>11 DEF first, page

\* The names of the sections, by their place in the list.
LEMMA IndexOfSection ==
    /\ (CHOOSE i \in DOMAIN Sections : Sections[i] = "kernel") = 1
    /\ (CHOOSE i \in DOMAIN Sections : Sections[i] = "ramdisk") = 2
    /\ (CHOOSE i \in DOMAIN Sections : Sections[i] = "second") = 3
    /\ (CHOOSE i \in DOMAIN Sections : Sections[i] = "dtb") = 5
    /\ (CHOOSE i \in DOMAIN Sections : Sections[i] = "signature") = 6
<1>1. \A i \in DOMAIN Sections : i \in {1, 2, 3, 4, 5, 6}
  BY SectionNames
<1>2. 1 \in DOMAIN Sections /\ 2 \in DOMAIN Sections /\ 3 \in DOMAIN Sections
      /\ 5 \in DOMAIN Sections /\ 6 \in DOMAIN Sections
  BY SectionNames
<1>3. \A i \in DOMAIN Sections :
         /\ Sections[i] = "kernel" => i = 1
         /\ Sections[i] = "ramdisk" => i = 2
         /\ Sections[i] = "second" => i = 3
         /\ Sections[i] = "dtb" => i = 5
         /\ Sections[i] = "signature" => i = 6
  BY <1>1, SectionNames
<1>4. (CHOOSE i \in DOMAIN Sections : Sections[i] = "kernel") = 1
  BY <1>2, <1>3, SectionNames
<1>5. (CHOOSE i \in DOMAIN Sections : Sections[i] = "ramdisk") = 2
  BY <1>2, <1>3, SectionNames
<1>6. (CHOOSE i \in DOMAIN Sections : Sections[i] = "second") = 3
  BY <1>2, <1>3, SectionNames
<1>7. (CHOOSE i \in DOMAIN Sections : Sections[i] = "dtb") = 5
  BY <1>2, <1>3, SectionNames
<1>8. (CHOOSE i \in DOMAIN Sections : Sections[i] = "signature") = 6
  BY <1>2, <1>3, SectionNames
<1> QED BY <1>4, <1>5, <1>6, <1>7, <1>8

\* What Parse makes of an image with a header.
LEMMA Parsed ==
    ASSUME NEW f, Good(f), HasHeader(f), NEW h, h = f.at[HeaderOffset(f)].val,
           NEW A, A = Places(HeaderOffset(f), h)
    PROVE  /\ IsBootHeader(h) /\ Fine(h) /\ HeaderOffset(f) \in Nat
           /\ ParsedImage(f).raw = f /\ ParsedImage(f).header = h
           /\ \A s \in ToSet(Sections) :
                 /\ ParsedImage(f).size[s] = SectionSize(h, s)
                 /\ SectionSize(h, s) \in Nat
                 /\ ParsedImage(f).offset[s] \in Nat
           /\ ParsedImage(f).offset["kernel"] = A[1]
           /\ ParsedImage(f).offset["ramdisk"] = A[2]
           /\ ParsedImage(f).offset["second"] = A[3]
           /\ HasDtbo(h) => ParsedImage(f).offset["recovery_dtbo"] = Word(h, 1636)
           /\ ParsedImage(f).offset["dtb"] = A[5]
           /\ Good(ParsedImage(f).tail)
<1> DEFINE base == HeaderOffset(f)
           end == A[Len(Sections) + 1]
           Index(s) == CHOOSE i \in DOMAIN Sections : Sections[i] = s
           offset == [s \in ToSet(Sections) |->
                       IF s = "recovery_dtbo"
                       THEN IF HasDtbo(h) THEN Word(h, 1636) ELSE 0
                       ELSE A[Index(s)]]
           size == [s \in ToSet(Sections) |-> SectionSize(h, s)]
           tail == IF f.size > end THEN Slice(f, end, f.size - end) ELSE Zeros(0)
<1>1. IsBootHeader(h) /\ Fine(h) /\ base \in Nat
  BY FirstHeader
<1>2. ParsedImage(f) = [raw |-> f, header |-> h, offset |-> offset, size |-> size, tail |-> tail]
  BY DEF ParsedImage, Places
<1>3. \A s \in ToSet(Sections) : SectionSize(h, s) \in Nat
  BY <1>1, HeaderNumbers
<1>4. \A i \in 1 .. 7 : A[i] \in Nat
  BY <1>1, PlacesAre
<1>5. Word(h, 1636) \in Nat
  BY <1>1, HeaderWords
<1>6. end \in Nat
  BY <1>4, SectionNames
<1>7. /\ Index("kernel") = 1 /\ Index("ramdisk") = 2 /\ Index("second") = 3
      /\ Index("dtb") = 5 /\ Index("signature") = 6
  BY IndexOfSection
<1>8. f.size \in Nat
  BY DEF Good, IsBlob
<1> HIDE DEF end, Index
<1>9. Good(tail)
  <2>1. CASE f.size > end
    <3>1. f.size - end \in Nat
      BY <1>6, <1>8, <2>1
    <3> QED BY <1>6, <2>1, <3>1, GoodSlice
  <2>2. CASE ~(f.size > end)
    BY <2>2, GoodZeros
  <2> QED BY <2>1, <2>2
<1> HIDE DEF tail
<1>10. \A s \in ToSet(Sections) : offset[s] \in Nat
  <2> TAKE s \in ToSet(Sections)
  <2>1. CASE s = "recovery_dtbo"
    BY <1>5, <2>1
  <2>2. CASE s # "recovery_dtbo"
    <3>1. Index(s) \in 1 .. 7
      BY <1>7, <2>2, SectionNames
    <3>2. offset[s] = A[Index(s)]
      BY <2>2
    <3> QED BY <1>4, <3>1, <3>2
  <2> QED BY <2>1, <2>2
<1>11. /\ offset["kernel"] = A[1] /\ offset["ramdisk"] = A[2] /\ offset["second"] = A[3]
       /\ offset["dtb"] = A[5]
       /\ HasDtbo(h) => offset["recovery_dtbo"] = Word(h, 1636)
  BY <1>7, SectionNames
<1>12. \A s \in ToSet(Sections) : size[s] = SectionSize(h, s)
  OBVIOUS
<1> HIDE DEF offset, size
<1> QED BY <1>1, <1>2, <1>3, <1>9, <1>10, <1>11, <1>12

\* Its sections, sliced, are well formed.
LEMMA ExtractGood ==
    ASSUME NEW f, Good(f), HasHeader(f), NEW s \in ToSet(Sections)
    PROVE  /\ Good(Extract(ParsedImage(f), s))
           /\ Extract(ParsedImage(f), s).size = SectionSize(f.at[HeaderOffset(f)].val, s)
<1> DEFINE im == ParsedImage(f)
           h == f.at[HeaderOffset(f)].val
<1>1. im.raw = f /\ im.size[s] = SectionSize(h, s) /\ SectionSize(h, s) \in Nat
      /\ im.offset[s] \in Nat
  BY Parsed
<1> HIDE DEF im, h
<1>2. Extract(im, s) = Slice(f, im.offset[s], SectionSize(h, s))
  BY <1>1 DEF Extract
<1> DEFINE o == im.offset[s]
           n == SectionSize(h, s)
<1>3. o \in Nat /\ n \in Nat /\ Extract(im, s) = Slice(f, o, n)
  BY <1>1, <1>2
<1> HIDE DEF o, n
<1>4. Good(Extract(im, s)) /\ Extract(im, s).size = n
  BY <1>3, GoodSlice
<1> QED BY <1>4 DEF im, h, n

\* The list of the sections of the reference.
LEMMA RefSectionNames ==
    /\ Len(RefSections) = 9 /\ DOMAIN RefSections = 1 .. 9
    /\ RefSections[1] = "kernel" /\ RefSections[2] = "ramdisk" /\ RefSections[3] = "second"
    /\ RefSections[4] = "extra" /\ RefSections[5] = "recovery_dtbo" /\ RefSections[6] = "dtb"
    /\ RefSections[7] = "signature" /\ RefSections[8] = "vendor_ramdisk_table"
    /\ RefSections[9] = "bootconfig"
  BY DEF RefSections

\* Their names, by their place in that list.
LEMMA IndexOfRefSection ==
    /\ (CHOOSE n \in DOMAIN RefSections : RefSections[n] = "kernel") = 1
    /\ (CHOOSE n \in DOMAIN RefSections : RefSections[n] = "ramdisk") = 2
    /\ (CHOOSE n \in DOMAIN RefSections : RefSections[n] = "second") = 3
    /\ (CHOOSE n \in DOMAIN RefSections : RefSections[n] = "recovery_dtbo") = 5
    /\ (CHOOSE n \in DOMAIN RefSections : RefSections[n] = "dtb") = 6
<1>1. \A n \in DOMAIN RefSections : n \in {1, 2, 3, 4, 5, 6, 7, 8, 9}
  BY RefSectionNames
<1>2. 1 \in DOMAIN RefSections /\ 2 \in DOMAIN RefSections /\ 3 \in DOMAIN RefSections
      /\ 5 \in DOMAIN RefSections /\ 6 \in DOMAIN RefSections
  BY RefSectionNames
<1>3. \A n \in DOMAIN RefSections :
         /\ RefSections[n] = "kernel" => n = 1
         /\ RefSections[n] = "ramdisk" => n = 2
         /\ RefSections[n] = "second" => n = 3
         /\ RefSections[n] = "recovery_dtbo" => n = 5
         /\ RefSections[n] = "dtb" => n = 6
  BY <1>1, RefSectionNames
<1>4. (CHOOSE n \in DOMAIN RefSections : RefSections[n] = "kernel") = 1
  BY <1>2, <1>3, RefSectionNames
<1>5. (CHOOSE n \in DOMAIN RefSections : RefSections[n] = "ramdisk") = 2
  BY <1>2, <1>3, RefSectionNames
<1>6. (CHOOSE n \in DOMAIN RefSections : RefSections[n] = "second") = 3
  BY <1>2, <1>3, RefSectionNames
<1>7. (CHOOSE n \in DOMAIN RefSections : RefSections[n] = "recovery_dtbo") = 5
  BY <1>2, <1>3, RefSectionNames
<1>8. (CHOOSE n \in DOMAIN RefSections : RefSections[n] = "dtb") = 6
  BY <1>2, <1>3, RefSectionNames
<1> QED BY <1>4, <1>5, <1>6, <1>7, <1>8

\* Where the reference finds the sections of an image with a ported header: where
\* they are, one after the other, in the parser's order.
LEMMA RefPlaces ==
    ASSUME NEW f, Good(f), HasHeader(f), NEW h, h = f.at[HeaderOffset(f)].val, PortedHeader(h),
           NEW A, A = Places(HeaderOffset(f), h)
    PROVE  /\ RefOffset(f, "kernel") = A[1] /\ RefOffset(f, "ramdisk") = A[2]
           /\ RefOffset(f, "second") = A[3] /\ RefOffset(f, "recovery_dtbo") = A[4]
           /\ RefOffset(f, "dtb") = A[5]
<1> DEFINE base == HeaderOffset(f)
           page == PageSize(h)
           sizes == [n \in DOMAIN RefSections |-> RefSize(h, RefSections[n])]
           first == base + page
           R == Starts(first, page, sizes)
<1>1. IsBootHeader(h) /\ Fine(h) /\ base \in Nat
  BY FirstHeader
<1>2. page \in Nat \ {0} /\ HeaderSpace(h) = page /\ RefPageSize(h) = page
  BY <1>1, PagesAgree
<1>3. /\ RefSize(h, "extra") = 0
      /\ \A s \in {"kernel", "ramdisk", "second", "recovery_dtbo", "dtb"} :
            RefSize(h, s) = SectionSize(h, s)
      /\ \A s \in ToSet(Sections) : SectionSize(h, s) \in Nat
  BY <1>1, SizesAgree
<1>4. Len(sizes) = 9 /\ \A n \in 1 .. 9 : sizes[n] = RefSize(h, RefSections[n])
  BY RefSectionNames
<1>5. sizes[1] = SectionSize(h, "kernel") /\ sizes[2] = SectionSize(h, "ramdisk")
      /\ sizes[3] = SectionSize(h, "second") /\ sizes[4] = 0
      /\ sizes[5] = SectionSize(h, "recovery_dtbo")
  BY <1>3, <1>4, RefSectionNames
<1>6. /\ RefOffset(f, "kernel") = R[1] /\ RefOffset(f, "ramdisk") = R[2]
      /\ RefOffset(f, "second") = R[3] /\ RefOffset(f, "recovery_dtbo") = R[5]
      /\ RefOffset(f, "dtb") = R[6]
  BY <1>2, IndexOfRefSection DEF RefOffset
<1>7. /\ A[1] = base + page /\ \A i \in 1 .. 7 : A[i] \in Nat
      /\ \A i \in 1 .. 6 : A[i + 1] = A[i] + Align(SectionSize(h, Sections[i]), page)
  BY <1>1, PlacesAre
<1> HIDE DEF sizes, page, first
<1>8. R[1] = first /\ \A n \in 1 .. 9 : R[n + 1] = R[n] + Align(sizes[n], page)
  <2>1. Len(sizes) = 9 /\ Len(sizes) \in Nat
    BY <1>4
  <2>2. /\ Starts(first, page, sizes)[1] = first
        /\ \A i \in 1 .. Len(sizes) :
              Starts(first, page, sizes)[i + 1]
                = Starts(first, page, sizes)[i] + Align(sizes[i], page)
    <3>1. Len(sizes) \in Nat
      BY <2>1
    <3> HIDE DEF R, base
    <3> QED BY <3>1, StartsStep
  <2>3. R[1] = first /\ \A n \in 1 .. Len(sizes) : R[n + 1] = R[n] + Align(sizes[n], page)
    BY <2>2
  <2> HIDE DEF R
  <2> QED BY <2>1, <2>3
<1> HIDE DEF R, base
<1>9. /\ R[1 + 1] = R[1] + Align(sizes[1], page) /\ R[2 + 1] = R[2] + Align(sizes[2], page)
      /\ R[3 + 1] = R[3] + Align(sizes[3], page) /\ R[4 + 1] = R[4] + Align(sizes[4], page)
      /\ R[5 + 1] = R[5] + Align(sizes[5], page)
  BY <1>8
<1>10. /\ A[1 + 1] = A[1] + Align(SectionSize(h, Sections[1]), page)
       /\ A[2 + 1] = A[2] + Align(SectionSize(h, Sections[2]), page)
       /\ A[3 + 1] = A[3] + Align(SectionSize(h, Sections[3]), page)
       /\ A[4 + 1] = A[4] + Align(SectionSize(h, Sections[4]), page)
  BY <1>7
<1>11. 1 + 1 = 2 /\ 2 + 1 = 3 /\ 3 + 1 = 4 /\ 4 + 1 = 5 /\ 5 + 1 = 6
  OBVIOUS
<1>12. R[1] = A[1]
  BY <1>7, <1>8 DEF first
<1>13. R[2] = A[2]
  BY <1>5, <1>9, <1>10, <1>11, <1>12, SectionNames
<1>14. R[3] = A[3]
  BY <1>5, <1>9, <1>10, <1>11, <1>13, SectionNames
<1>15. R[4] = A[4]
  BY <1>5, <1>9, <1>10, <1>11, <1>14, SectionNames
<1>16. R[5] = A[4]
  <2>1. Align(0, page) = 0
    <3>1. page \in Nat /\ page > 0 /\ (0 + page - 1) \div page = 0
      BY <1>2
    <3> QED BY <3>1 DEF Align
  <2>2. A[4] \in Nat
    BY <1>7
  <2>3. R[5] = R[4] + Align(0, page)
    BY <1>5, <1>9, <1>11
  <2> QED BY <1>15, <2>1, <2>2, <2>3
<1>17. R[6] = A[5]
  BY <1>5, <1>9, <1>10, <1>11, <1>16, SectionNames
<1> QED BY <1>6, <1>12, <1>13, <1>14, <1>16, <1>17

\* So the reference and the parser see the same bytes in each section of a ported
\* image, the recovery DTBO included.
LEMMA SectionsAgree ==
    ASSUME NEW f, Good(f), Ported(f),
           NEW s \in {"kernel", "ramdisk", "second", "recovery_dtbo", "dtb"}
    PROVE  RefSection(f, s) = Extract(ParsedImage(f), s)
<1> DEFINE h == f.at[HeaderOffset(f)].val
           A == Places(HeaderOffset(f), h)
           im == ParsedImage(f)
<1>1. HasHeader(f) /\ PortedHeader(h)
  BY DEF Ported, PortedHeader
<1>2. HasDtbo(h) => (Word(h, 1632) > 0 => Word(h, 1636) = RefOffset(f, "recovery_dtbo"))
  BY DEF Ported, HasDtbo
<1>3. s \in ToSet(Sections)
  BY SectionNames
<1>4. IsBootHeader(h) /\ Fine(h) /\ HeaderOffset(f) \in Nat
  BY <1>1, FirstHeader
<1>5. \A i \in 1 .. 7 : A[i] \in Nat
  BY <1>4, PlacesAre
<1> HIDE DEF h, A, im
<1>6. /\ im.raw = f /\ im.size[s] = SectionSize(h, s) /\ SectionSize(h, s) \in Nat
      /\ im.offset[s] \in Nat
      /\ im.offset["kernel"] = A[1] /\ im.offset["ramdisk"] = A[2]
      /\ im.offset["second"] = A[3] /\ im.offset["dtb"] = A[5]
      /\ HasDtbo(h) => im.offset["recovery_dtbo"] = Word(h, 1636)
  BY <1>1, <1>3, Parsed DEF h, A, im
<1>7. /\ RefOffset(f, "kernel") = A[1] /\ RefOffset(f, "ramdisk") = A[2]
      /\ RefOffset(f, "second") = A[3] /\ RefOffset(f, "recovery_dtbo") = A[4]
      /\ RefOffset(f, "dtb") = A[5]
  BY <1>1, RefPlaces DEF h, A
<1>8. RefSize(h, s) = SectionSize(h, s)
  BY <1>1, <1>4, SizesAgree
<1>9. RefSection(f, s) = Slice(f, RefOffset(f, s), SectionSize(h, s))
  BY <1>8 DEF RefSection, h
<1>10. Extract(im, s) = Slice(f, im.offset[s], SectionSize(h, s))
  BY <1>6 DEF Extract
<1>11. CASE SectionSize(h, s) = 0
  <2>1. RefOffset(f, s) \in Nat
    BY <1>5, <1>7
  <2>2. \A o \in Nat : Slice(f, o, 0) = Zeros(0)
    <3> TAKE o \in Nat
    <3>1. IsBlob(Slice(f, o, 0)) /\ Slice(f, o, 0).size = 0
      BY SliceIsBlob DEF Good
    <3> QED BY <3>1, EmptyIsZeros
  <2> QED BY <1>6, <1>9, <1>10, <1>11, <2>1, <2>2 DEF im
<1>12. CASE SectionSize(h, s) # 0
  <2>1. im.offset[s] = RefOffset(f, s)
    <3>1. CASE s = "recovery_dtbo"
      <4>1. HasDtbo(h) /\ Word(h, 1632) = SectionSize(h, s)
        BY <1>12, <3>1 DEF SectionSize
      <4>2. Word(h, 1632) > 0
        BY <1>6, <1>12, <4>1
      <4> QED BY <1>2, <1>6, <3>1, <4>1, <4>2 DEF h
    <3>2. CASE s # "recovery_dtbo"
      BY <1>6, <1>7, <3>2
    <3> QED BY <3>1, <3>2
  <2> QED BY <1>9, <1>10, <2>1 DEF im
<1> QED BY <1>11, <1>12

-----------------------------------------------------------------------------
(* What Repack writes.                                                      *)

\* The sections that Repack writes, and what it pads them to.
PartOf(im, k, r, i) ==
    CASE Sections[i] = "kernel" -> k
      [] Sections[i] = "ramdisk" -> r
      [] OTHER -> Extract(im, Sections[i])
Padded(im, k, r) == [i \in DOMAIN Sections |-> PadTo(PartOf(im, k, r, i), RepackPage(im.header))]
HeadOf(im, k, r)   == PadTo(NewHeader(im.header, k.size, r.size), RepackPage(im.header))

\* Repack, by these parts.
LEMMA RepackIs ==
    ASSUME NEW im, NEW k, NEW r
    PROVE  /\ Repack(im, k, r)
                = Concat(Concat(HeadOf(im, k, r), Joined(Padded(im, k, r))[6]), im.tail)
           /\ Len(Padded(im, k, r)) = 6
<1>1. Len(Padded(im, k, r)) = 6
  BY SectionNames DEF Padded
<1>2. Repack(im, k, r)
        = Concat(Concat(HeadOf(im, k, r), ConcatAll(Padded(im, k, r))), im.tail)
  BY DEF Repack, HeadOf, Padded, PartOf
<1> QED BY <1>1, <1>2 DEF ConcatAll

\* The header of a parsed image is the one that its bytes have.
LEMMA ImageHeader ==
    ASSUME NEW f
    PROVE  ParsedImage(f).header = f.at[HeaderOffset(f)].val
BY DEF ParsedImage

\* Every part is well formed, and at the beginning of what is written for it.
PartFits(im, k, r, i) ==
    /\ Good(PartOf(im, k, r, i)) /\ Good(Padded(im, k, r)[i])
    /\ Padded(im, k, r)[i].size = Align(PartOf(im, k, r, i).size, RepackPage(im.header))
    /\ Holds(Padded(im, k, r)[i], 0, PartOf(im, k, r, i))

LEMMA PartsGood ==
    ASSUME NEW f, Good(f), HasHeader(f), NEW k, Good(k), NEW r, Good(r),
           NEW im, im = ParsedImage(f), NEW i \in 1 .. 6
    PROVE  PartFits(im, k, r, i)
<1> DEFINE p == PartOf(im, k, r, i)
           page == RepackPage(im.header)
<1>1. Good(p)
  <2>1. CASE Sections[i] = "kernel"
    BY <2>1 DEF PartOf
  <2>2. CASE Sections[i] = "ramdisk"
    BY <2>2 DEF PartOf
  <2>3. CASE Sections[i] \notin {"kernel", "ramdisk"}
    <3>1. p = Extract(im, Sections[i])
      BY <2>3 DEF PartOf
    <3>2. Sections[i] \in ToSet(Sections)
      BY SectionNames
    <3> QED BY <3>1, <3>2, ExtractGood
  <2> QED BY <2>1, <2>2, <2>3
<1>2. page \in Nat \ {0}
  <2>1. im.header = f.at[HeaderOffset(f)].val
    BY ImageHeader
  <2> QED BY <2>1, FirstHeader, HeaderNumbers
<1>3. Padded(im, k, r)[i] = PadTo(p, page)
  BY SectionNames DEF Padded
<1> HIDE DEF p, page
<1>4. /\ Good(PadTo(p, page)) /\ PadTo(p, page).size = Align(p.size, page)
      /\ Holds(PadTo(p, page), 0, p)
  BY <1>1, <1>2, GoodPadTo
<1> QED BY <1>1, <1>3, <1>4 DEF p, page, PartFits

\* So is the page of the header.
LEMMA HeadGood ==
    ASSUME NEW f, Good(f), HasHeader(f), NEW k, Good(k), NEW r, Good(r),
           NEW im, im = ParsedImage(f)
    PROVE  Good(HeadOf(im, k, r))
<1> DEFINE h == im.header
           head == NewHeader(h, k.size, r.size)
           n == Rewritten(h, k.size, r.size)
           page == RepackPage(h)
<1>1. h = f.at[HeaderOffset(f)].val
  BY DEF ParsedImage
<1>2. IsBootHeader(h) /\ Fine(h)
  BY <1>1, FirstHeader
<1> HIDE DEF h
<1>3. page \in Nat \ {0} /\ StructSize(h) \in Nat
  BY <1>2, HeaderNumbers
<1>4. k.size \in Nat /\ r.size \in Nat
  BY DEF Good, IsBlob
<1>5. Fine(n) /\ ~IsHeader(n)
  <2>1. LikeHeader(n, h)
    BY <1>2, <1>4, NewHeaderFine
  <2> HIDE DEF n
  <2> QED BY <2>1 DEF LikeHeader, IsBootHeader, IsHeader
<1>6. Good(head)
  <2>1. head = Zeros(StructSize(h)) \/ head = Atom(StructSize(h), n)
    BY DEF NewHeader, Rewritten
  <2> HIDE DEF head, n
  <2> QED BY <1>3, <1>5, <2>1, GoodZeros, GoodAtom
<1>7. HeadOf(im, k, r) = PadTo(head, page)
  BY DEF HeadOf, h
<1> HIDE DEF head, page
<1> QED BY <1>3, <1>6, <1>7, GoodPadTo

\* What Repack writes is well formed, of any image that parses.
LEMMA RepackGood ==
    ASSUME NEW f, Good(f), HasHeader(f), NEW k, Good(k), NEW r, Good(r),
           NEW im, im = ParsedImage(f)
    PROVE  Good(Repack(im, k, r))
<1> DEFINE bs == Padded(im, k, r)
           head == HeadOf(im, k, r)
<1>1. Len(bs) = 6 /\ Repack(im, k, r) = Concat(Concat(head, Joined(bs)[6]), im.tail)
  BY RepackIs
<1>2. ASSUME NEW i \in 1 .. 6 PROVE Good(bs[i])
  <2>1. PartFits(im, k, r, i)
    BY PartsGood
  <2> QED BY <2>1 DEF PartFits
<1>3. Good(head)
  BY HeadGood
<1>4. Good(im.tail)
  BY Parsed
<1> HIDE DEF bs, head
<1>5. Good(Joined(bs)[6])
  <2>1. Len(bs) \in Nat /\ 6 \in 0 .. Len(bs) /\ \A i \in 1 .. Len(bs) : Good(bs[i])
    BY <1>1, <1>2
  <2> QED BY <2>1, GoodJoined
<1>6. Good(Concat(head, Joined(bs)[6]))
  BY <1>3, <1>5, GoodConcat
<1>7. Good(Concat(Concat(head, Joined(bs)[6]), im.tail))
  BY <1>4, <1>6, GoodConcat
<1> QED BY <1>1, <1>7

\* A page that begins with this header.
HeaderPage(b, h, n) ==
    LET a == Atom(StructSize(h), n)
    IN  /\ Good(b) /\ b.size = PageSize(h) /\ Holds(b, 0, a) /\ IsBlob(a)
        /\ DOMAIN a.at = {0} /\ a.at[0].val = n

\* The header of what Repack writes.
LEMMA HeadWritten ==
    ASSUME NEW f, Good(f), HasHeader(f), NEW h, h = f.at[HeaderOffset(f)].val, PortedHeader(h),
           NEW k, Good(k), NEW r, Good(r), NEW im, im = ParsedImage(f)
    PROVE  HeaderPage(HeadOf(im, k, r), h, Rewritten(h, k.size, r.size))
<1> DEFINE n == Rewritten(h, k.size, r.size)
           a == Atom(StructSize(h), n)
           page == PageSize(h)
<1>1. PortedHeader(h)
  OBVIOUS
<1>2. IsBootHeader(h) /\ Fine(h)
  BY <1>1, FirstHeader
<1>3. page \in Nat \ {0} /\ StructSize(h) \in 1 .. page /\ RepackPage(h) = page
  BY <1>1, <1>2, PagesAgree
<1>4. k.size \in Nat /\ r.size \in Nat
  BY DEF Good, IsBlob
<1>5. Fine(n) /\ ~IsHeader(n)
  <2>1. LikeHeader(n, h)
    BY <1>2, <1>4, NewHeaderFine
  <2> HIDE DEF n
  <2> QED BY <2>1 DEF LikeHeader, IsBootHeader, IsHeader
<1>6. im.header = h
  BY DEF ParsedImage
<1>7. NewHeader(h, k.size, r.size) = a
  <2>1. HeaderVersion(h) \in Nat
    BY <1>2, HeaderWords DEF HeaderVersion
  <2>2. ~NoCase(h)
    BY <1>1, <2>1 DEF PortedHeader, NoCase
  <2> QED BY <2>2 DEF NewHeader, Rewritten
<1>8. HeadOf(im, k, r) = PadTo(a, page)
  BY <1>3, <1>6, <1>7 DEF HeadOf
<1> HIDE DEF page, n
<1>9. StructSize(h) \in Nat /\ StructSize(h) > 0 /\ StructSize(h) <= page
  BY <1>3
<1>10. Good(a) /\ a.size = StructSize(h) /\ IsBlob(a) /\ DOMAIN a.at = {0} /\ a.at[0].val = n
  <2>1. Good(a) /\ a.size = StructSize(h)
    BY <1>5, <1>9, GoodAtom
  <2>2. IsBlob(a) /\ DOMAIN a.at = {0} /\ a.at[0] = [size |-> StructSize(h), val |-> n]
    BY <1>9, AtomIsBlob
  <2> HIDE DEF a
  <2> QED BY <2>1, <2>2
<1> HIDE DEF a
<1>11. Good(PadTo(a, page)) /\ PadTo(a, page).size = Align(StructSize(h), page)
       /\ Holds(PadTo(a, page), 0, a)
  BY <1>3, <1>10, GoodPadTo
<1>12. Align(StructSize(h), page) = page
  BY <1>3, <1>9, AlignUp
<1> DEFINE w == HeadOf(im, k, r)
<1>13. Good(w) /\ w.size = page /\ Holds(w, 0, a)
  BY <1>8, <1>11, <1>12
<1> HIDE DEF w
<1> QED BY <1>10, <1>13 DEF page, a, n, w, HeaderPage

\* The sections, one after the other, are where the layout of header n says.
PartsAt(im, h, k, r, n) ==
    /\ \A i \in 1 .. 5 :
          /\ PartOf(im, k, r, i).size = SectionSize(n, Sections[i])
          /\ Joined(Padded(im, k, r))[i - 1].size \in Nat
          /\ Places(0, n)[i] = PageSize(h) + Joined(Padded(im, k, r))[i - 1].size
    /\ \A i \in 1 .. 6 :
          Holds(Joined(Padded(im, k, r))[6], Joined(Padded(im, k, r))[i - 1].size,
                Padded(im, k, r)[i])
    /\ Good(Joined(Padded(im, k, r))[6])

\* The sections that have one after them, one by one.
LEMMA OneToFive == \A i \in 1 .. 5 : i = 1 \/ i = 2 \/ i = 3 \/ i = 4 \/ i = 5
<1> TAKE i \in 1 .. 5
<1>1. i \in Int /\ 1 <= i /\ i <= 5
  BY SMTT(30)
<1> QED BY <1>1

\* So they are in what Repack writes, with its header.
LEMMA PartsInPlace ==
    ASSUME NEW f, Good(f), HasHeader(f), NEW h, h = f.at[HeaderOffset(f)].val, PortedHeader(h),
           NEW k, Good(k), k.size = SectionSize(h, "kernel"), NEW r, Good(r),
           NEW im, im = ParsedImage(f), NEW n, n = Rewritten(h, k.size, r.size)
    PROVE  PartsAt(im, h, k, r, n)
<1> DEFINE page == PageSize(h)
           bs == Padded(im, k, r)
           p(i) == PartOf(im, k, r, i)
           J == Joined(bs)
           A == Places(0, n)
<1>1. HasHeader(f) /\ PortedHeader(h)
  OBVIOUS
<1>2. IsBootHeader(h) /\ Fine(h)
  BY <1>1, FirstHeader
<1>3. page \in Nat \ {0} /\ RepackPage(h) = page
  BY <1>1, <1>2, PagesAgree
<1>4. k.size \in Nat /\ r.size \in Nat
  BY DEF Good, IsBlob
<1>5. im.header = h
  BY ImageHeader
<1>6. /\ PageSize(n) = page
      /\ SectionSize(n, "kernel") = IF IsVendor(h) THEN 0 ELSE k.size
      /\ SectionSize(n, "ramdisk") = r.size
      /\ \A s \in {"second", "recovery_dtbo", "dtb"} : SectionSize(n, s) = SectionSize(h, s)
  BY <1>1, <1>2, <1>4, NewSizes DEF ResizedFrom
<1>7. IsBootHeader(n) /\ Fine(n)
  BY <1>2, <1>4, NewHeaderFine DEF LikeHeader
<1>8. \A i \in 1 .. 6 : Good(bs[i]) /\ bs[i].size = Align(p(i).size, page)
  <2> TAKE i \in 1 .. 6
  <2> HIDE DEF page, bs, p, J, A
  <2>1. PartFits(im, k, r, i)
    BY PartsGood
  <2> QED BY <1>3, <1>5, <2>1 DEF bs, p, PartFits
<1>9. Len(bs) = 6
  BY RepackIs
<1>10. \A i \in 1 .. 5 : p(i).size = SectionSize(n, Sections[i])
  <2> TAKE i \in 1 .. 5
  <2>1. CASE i = 1
    <3>1. p(1).size = k.size
      BY SectionNames DEF PartOf
    <3>2. IsVendor(h) => k.size = 0
      BY DEF SectionSize
    <3> QED BY <1>6, <2>1, <3>1, <3>2, SectionNames
  <2>2. CASE i = 2
    <3>1. p(2).size = r.size
      BY SectionNames DEF PartOf
    <3> QED BY <1>6, <2>2, <3>1, SectionNames
  <2>3. CASE i \in {3, 4, 5}
    <3>1. Sections[i] \in {"second", "recovery_dtbo", "dtb"} /\ Sections[i] \in ToSet(Sections)
      BY <2>3, SectionNames
    <3>2. p(i) = Extract(im, Sections[i])
      BY <3>1 DEF PartOf
    <3>3. Extract(im, Sections[i]).size = SectionSize(h, Sections[i])
      BY <1>1, <3>1, ExtractGood
    <3> QED BY <1>6, <3>1, <3>2, <3>3
  <2> QED BY <2>1, <2>2, <2>3
<1>11. A[1] = page /\ \A i \in 1 .. 6 : A[i + 1] = A[i] + Align(SectionSize(n, Sections[i]), page)
  <2>1. /\ A[1] = 0 + page
        /\ \A i \in 1 .. 6 : A[i + 1] = A[i] + Align(SectionSize(n, Sections[i]), page)
    BY <1>6, <1>7, PlacesAre
  <2> HIDE DEF A, page
  <2>2. A[1] = page
    BY <1>3, <2>1
  <2> QED BY <2>1, <2>2
<1> HIDE DEF page, bs, p, A
<1>12. J[0] = Zeros(0) /\ Good(J[6])
       /\ \A i \in 1 .. 6 : /\ J[i - 1].size \in Nat
                            /\ J[i].size = J[i - 1].size + bs[i].size
                            /\ Holds(J[6], J[i - 1].size, bs[i])
  <2>1. Len(bs) \in Nat /\ 6 \in 0 .. Len(bs) /\ 1 .. Len(bs) = 1 .. 6
    BY <1>9
  <2>2. \A i \in 1 .. Len(bs) : Good(bs[i]) /\ IsBlob(bs[i])
    BY <1>8, <2>1 DEF Good
  <2>3. J[0] = Zeros(0)
    BY <2>1, JoinedStep
  <2>4. Good(J[6])
    BY <2>1, <2>2, GoodJoined
  <2>5. \A i \in 1 .. 6 : /\ J[i - 1].size \in Nat
                          /\ J[i].size = J[i - 1].size + bs[i].size
                          /\ Holds(J[6], J[i - 1].size, bs[i])
    BY <2>1, <2>2, JoinedHolds
  <2> HIDE DEF J
  <2> QED BY <2>3, <2>4, <2>5
<1> HIDE DEF J
<1>13. \A i \in 1 .. 5 : A[i] = page + J[i - 1].size
  <2>0. \A i \in 1 .. 5 : bs[i].size = Align(SectionSize(n, Sections[i]), page)
    BY <1>8, <1>10
  <2>1. A[1] = page + J[0].size
    <3>1. J[0].size = 0
      BY <1>12 DEF Zeros
    <3> QED BY <1>3, <1>11, <3>1
  <2>2. ASSUME NEW i \in 1 .. 4, A[i] = page + J[i - 1].size
        PROVE  A[i + 1] = page + J[i].size
    <3>1. A[i + 1] = A[i] + bs[i].size
      BY <1>11, <2>0
    <3>2. J[i].size = J[i - 1].size + bs[i].size /\ J[i - 1].size \in Nat
      BY <1>12
    <3>3. Good(bs[i])
      BY <1>8
    <3>4. bs[i].size \in Nat
      BY <3>3 DEF Good, IsBlob
    <3> QED BY <1>3, <2>2, <3>1, <3>2, <3>4
  <2>3. 1 - 1 = 0 /\ 1 + 1 = 2 /\ 2 - 1 = 1 /\ 2 + 1 = 3 /\ 3 - 1 = 2 /\ 3 + 1 = 4
        /\ 4 - 1 = 3 /\ 4 + 1 = 5 /\ 5 - 1 = 4
    OBVIOUS
  <2>4. A[2] = page + J[1].size
    BY <2>1, <2>2, <2>3
  <2>5. A[3] = page + J[2].size
    BY <2>2, <2>3, <2>4
  <2>6. A[4] = page + J[3].size
    BY <2>2, <2>3, <2>5
  <2>7. A[5] = page + J[4].size
    BY <2>2, <2>3, <2>6
  <2> QED BY <2>1, <2>3, <2>4, <2>5, <2>6, <2>7, OneToFive, SMTT(30)
<1>14. \A i \in 1 .. 5 : /\ p(i).size = SectionSize(n, Sections[i])
                         /\ J[i - 1].size \in Nat
                         /\ A[i] = page + J[i - 1].size
  <2> TAKE i \in 1 .. 5
  <2>1. i \in 1 .. 6
    OBVIOUS
  <2> QED BY <1>10, <1>12, <1>13, <2>1
<1>15. Good(J[6]) /\ \A i \in 1 .. 6 : Holds(J[6], J[i - 1].size, bs[i])
  BY <1>12
<1> QED BY <1>14, <1>15 DEF page, bs, p, A, J, PartsAt

\* An image that begins with header n, has its sections where n says, and a tail.
Assembled(new, im, k, r, n) ==
    /\ Good(new) /\ HasHeader(new) /\ HeaderOffset(new) = 0 /\ new.at[0].val = n
    /\ \A i \in 1 .. 5 :
          /\ PartOf(im, k, r, i).size = SectionSize(n, Sections[i])
          /\ Places(0, n)[i] \in Nat
          /\ Slice(new, Places(0, n)[i], PartOf(im, k, r, i).size) = PartOf(im, k, r, i)
    /\ new.size >= im.tail.size
    /\ Slice(new, new.size - im.tail.size, im.tail.size) = im.tail

\* So is what Repack writes for a ported header.
LEMMA RepackAssembles ==
    ASSUME NEW f, Good(f), HasHeader(f), NEW h, h = f.at[HeaderOffset(f)].val, PortedHeader(h),
           NEW k, Good(k), k.size = SectionSize(h, "kernel"), NEW r, Good(r),
           NEW im, im = ParsedImage(f), NEW new, new = Repack(im, k, r)
    PROVE  Assembled(new, im, k, r, Rewritten(h, k.size, r.size))
<1> DEFINE n == Rewritten(h, k.size, r.size)
           page == PageSize(h)
           J == Joined(Padded(im, k, r))
           head == HeadOf(im, k, r)
           a == Atom(StructSize(h), n)
           c == Concat(head, J[6])
           p(i) == PartOf(im, k, r, i)
           A == Places(0, n)
<1>1. HasHeader(f) /\ PortedHeader(h)
  OBVIOUS
<1>2. IsBootHeader(h) /\ Fine(h)
  BY <1>1, FirstHeader
<1>3. k.size \in Nat /\ r.size \in Nat
  BY DEF Good, IsBlob
<1>4. IsBootHeader(n) /\ Fine(n) /\ PortedHeader(n)
  BY <1>1, <1>2, <1>3, NewHeaderFine, NewSizes DEF LikeHeader, ResizedFrom
<1>5. /\ Good(head) /\ head.size = page /\ Holds(head, 0, a)
      /\ DOMAIN a.at = {0} /\ a.at[0].val = n /\ IsBlob(a)
  <2> HIDE DEF n, page, J, a, head, c, p, A
  <2>1. HeaderPage(HeadOf(im, k, r), h, Rewritten(h, k.size, r.size))
    BY HeadWritten
  <2> QED BY <2>1 DEF page, a, head, n, HeaderPage
<1>6. /\ \A i \in 1 .. 5 : /\ p(i).size = SectionSize(n, Sections[i])
                           /\ J[i - 1].size \in Nat
                           /\ A[i] = page + J[i - 1].size
      /\ \A i \in 1 .. 6 : Holds(J[6], J[i - 1].size, Padded(im, k, r)[i])
      /\ Good(J[6])
  <2> HIDE DEF n, page, J, a, head, c, p, A
  <2>1. PartsAt(im, h, k, r, n)
    BY PartsInPlace DEF n
  <2> QED BY <2>1 DEF PartsAt, page, J, p, A
<1>7. \A i \in 1 .. 6 : /\ Good(p(i)) /\ Good(Padded(im, k, r)[i])
                        /\ Holds(Padded(im, k, r)[i], 0, p(i))
  <2> TAKE i \in 1 .. 6
  <2>1. PartFits(im, k, r, i)
    BY <1>1, PartsGood
  <2> QED BY <2>1 DEF PartFits
<1>8. new = Concat(c, im.tail)
  BY RepackIs
<1>9. Good(im.tail)
  BY <1>1, Parsed
<1>10. page \in Nat \ {0}
  BY <1>1, <1>2, PagesAgree
<1> HIDE DEF n, page, head, a, p, A
<1>11. Good(c) /\ c.size = head.size + J[6].size /\ Good(new) /\ new.size = c.size + im.tail.size
  <2>1. Good(c) /\ c.size = head.size + J[6].size
    <3>1. Good(head) /\ Good(J[6])
      BY <1>5, <1>6
    <3> QED BY <3>1, GoodConcat
  <2> HIDE DEF c, J
  <2>2. Good(new) /\ new.size = c.size + im.tail.size
    BY <1>8, <1>9, <2>1, GoodConcat
  <2> QED BY <2>1, <2>2
<1>12. /\ IsBlob(new) /\ IsBlob(c) /\ IsBlob(head) /\ IsBlob(J[6]) /\ IsBlob(im.tail)
       /\ c.size \in Nat /\ im.tail.size \in Nat
  BY <1>5, <1>6, <1>9, <1>11 DEF Good, IsBlob
\* The header is at the beginning.
<1>13. HasHeader(new) /\ HeaderOffset(new) = 0 /\ new.at[0].val = n
  <2>1. Holds(c, 0, a)
    BY <1>5, <1>12, HoldsLeft
  <2> HIDE DEF c
  <2>2. Holds(new, 0, a)
    BY <1>5, <1>8, <1>12, <2>1, HoldsLeft
  <2>3. 0 \in DOMAIN new.at /\ new.at[0] = a.at[0]
    BY <1>5, <2>2, HoldsRead
  <2>4. new.at[0].val = n
    BY <1>5, <2>3
  <2>5. HasHeader(new)
    BY <1>4, <2>3, <2>4 DEF HasHeader
  <2>6. HeaderOffset(new) = 0
    BY <1>4, <1>12, <2>3, <2>4, HeaderFirst
  <2> QED BY <2>4, <2>5, <2>6
\* Every section is where its header says.
<1>14. \A i \in 1 .. 5 : Slice(new, A[i], p(i).size) = p(i) /\ A[i] \in Nat
  <2> TAKE i \in 1 .. 5
  <2> DEFINE o == J[i - 1].size
             q == Padded(im, k, r)[i]
  <2>1. /\ o \in Nat /\ A[i] = page + o /\ Holds(J[6], o, q)
        /\ Good(p(i)) /\ Good(q) /\ Holds(q, 0, p(i))
    BY <1>6, <1>7
  <2> HIDE DEF o, q, J, c
  <2>2. IsBlob(p(i)) /\ IsBlob(q)
    BY <2>1 DEF Good
  <2>3. Holds(J[6], o, p(i))
    <3>1. Holds(J[6], o + 0, p(i)) /\ o + 0 = o
      BY <1>12, <2>1, <2>2, HoldsWithin
    <3> QED BY <3>1
  <2>4. Holds(c, page + o, p(i))
    BY <1>5, <1>12, <2>1, <2>2, <2>3, HoldsRight DEF c
  <2>5. page + o \in Nat
    BY <1>10, <2>1
  <2>6. Holds(new, page + o, p(i))
    BY <1>8, <1>12, <2>2, <2>4, <2>5, HoldsLeft
  <2>7. Slice(new, page + o, p(i).size) = p(i)
    BY <1>12, <2>2, <2>5, <2>6, SliceHeld
  <2> QED BY <2>1, <2>5, <2>7
\* The tail ends the image.
<1>15. /\ new.size >= im.tail.size
       /\ Slice(new, new.size - im.tail.size, im.tail.size) = im.tail
  <2> HIDE DEF c
  <2>1. Holds(im.tail, 0, im.tail)
    BY <1>12, HoldsWhole
  <2>2. Holds(new, c.size + 0, im.tail) /\ c.size + 0 = c.size
    BY <1>8, <1>12, <2>1, HoldsRight
  <2>3. new.size - im.tail.size = c.size /\ new.size >= im.tail.size
    BY <1>11, <1>12
  <2>4. Holds(new, c.size, im.tail)
    BY <2>2
  <2>5. Slice(new, c.size, im.tail.size) = im.tail
    BY <1>12, <2>4, SliceHeld
  <2> QED BY <2>3, <2>5
<1>16. \A i \in 1 .. 5 : /\ p(i).size = SectionSize(n, Sections[i])
                         /\ A[i] \in Nat
                         /\ Slice(new, A[i], p(i).size) = p(i)
  BY <1>6, <1>14
<1>17. Good(new)
  BY <1>11
<1> QED BY <1>13, <1>15, <1>16, <1>17 DEF Assembled, n, p, A

\* What Repack writes for a ported image, read by the reference's layout.
THEOREM RepackReadsBack ==
    ASSUME NEW f, Good(f), Ported(f), NEW h, h = f.at[HeaderOffset(f)].val,
           NEW k, Good(k), k.size = SectionSize(h, "kernel"), NEW r, Good(r),
           NEW im, im = ParsedImage(f), NEW new, new = Repack(im, k, r)
    PROVE  /\ RefSection(new, "kernel") = k /\ RefSection(new, "ramdisk") = r
           /\ \A s \in Kept : RefSection(new, s) = RefSection(f, s)
           /\ new.size >= im.tail.size
           /\ Slice(new, new.size - im.tail.size, im.tail.size) = im.tail
<1> DEFINE n == Rewritten(h, k.size, r.size)
           p(i) == PartOf(im, k, r, i)
           A == Places(0, n)
<1>1. HasHeader(f) /\ PortedHeader(h)
  BY DEF Ported, PortedHeader
<1>2. IsBootHeader(h) /\ Fine(h)
  BY <1>1, FirstHeader
<1>3. k.size \in Nat /\ r.size \in Nat
  BY DEF Good, IsBlob
<1>4. IsBootHeader(n) /\ Fine(n) /\ PortedHeader(n)
  BY <1>1, <1>2, <1>3, NewHeaderFine, NewSizes DEF LikeHeader, ResizedFrom
<1> HIDE DEF n
<1>5. Assembled(new, im, k, r, n)
  BY <1>1, RepackAssembles DEF n
<1>6. \A i \in 1 .. 5 : p(i) = IF i = 1 THEN k ELSE IF i = 2 THEN r ELSE Extract(im, Sections[i])
  BY SectionNames DEF PartOf
<1>7. Good(new) /\ HasHeader(new) /\ HeaderOffset(new) = 0 /\ new.at[0].val = n
  BY <1>5 DEF Assembled
<1>8. \A i \in 1 .. 5 : p(i).size = SectionSize(n, Sections[i])
  BY <1>5 DEF Assembled
<1>9. \A i \in 1 .. 5 : Slice(new, A[i], p(i).size) = p(i) /\ A[i] \in Nat
  BY <1>5 DEF Assembled
<1> HIDE DEF p, A
<1>10. /\ RefOffset(new, "kernel") = A[1] /\ RefOffset(new, "ramdisk") = A[2]
       /\ RefOffset(new, "second") = A[3] /\ RefOffset(new, "recovery_dtbo") = A[4]
       /\ RefOffset(new, "dtb") = A[5]
  <2> DEFINE base == HeaderOffset(new)
             x == new.at[HeaderOffset(new)].val
             B == Places(base, x)
  <2>1. x = n /\ B = A
    BY <1>7 DEF A
  <2>2. /\ RefOffset(new, "kernel") = B[1] /\ RefOffset(new, "ramdisk") = B[2]
        /\ RefOffset(new, "second") = B[3] /\ RefOffset(new, "recovery_dtbo") = B[4]
        /\ RefOffset(new, "dtb") = B[5]
    BY <1>4, <1>7, <2>1, RefPlaces
  <2> HIDE DEF B
  <2> QED BY <2>1, <2>2
<1>11. \A s \in {"kernel", "ramdisk", "second", "recovery_dtbo", "dtb"} :
          RefSection(new, s) = Slice(new, RefOffset(new, s), SectionSize(n, s))
  <2>1. \A s \in {"kernel", "ramdisk", "second", "recovery_dtbo", "dtb"} :
           RefSize(n, s) = SectionSize(n, s)
    BY <1>4, SizesAgree
  <2> QED BY <1>7, <2>1 DEF RefSection
<1>12. \A i \in 1 .. 5 : RefSection(new, Sections[i]) = p(i)
  <2> TAKE i \in 1 .. 5
  <2>1. Sections[i] \in {"kernel", "ramdisk", "second", "recovery_dtbo", "dtb"}
        /\ RefOffset(new, Sections[i]) = A[i]
    <3>1. i \in {1, 2, 3, 4, 5}
      OBVIOUS
    <3> QED BY <1>10, <3>1, SectionNames
  <2>2. p(i).size = SectionSize(n, Sections[i])
    BY <1>8
  <2>3. Slice(new, A[i], p(i).size) = p(i)
    BY <1>9
  <2> QED BY <1>11, <2>1, <2>2, <2>3
<1>13. RefSection(new, "kernel") = k /\ RefSection(new, "ramdisk") = r
  <2>1. RefSection(new, Sections[1]) = k /\ RefSection(new, Sections[2]) = r
    BY <1>6, <1>12
  <2> QED BY <2>1, SectionNames
<1>14. ASSUME NEW s \in Kept PROVE RefSection(new, s) = RefSection(f, s)
  <2>1. PICK i \in {3, 4, 5} : Sections[i] = s
    BY SectionNames DEF Kept
  <2>2. p(i) = Extract(im, s) /\ RefSection(new, s) = p(i)
    BY <1>6, <1>12, <2>1
  <2>3. s \in {"kernel", "ramdisk", "second", "recovery_dtbo", "dtb"}
    BY DEF Kept
  <2>4. RefSection(f, s) = Extract(im, s)
    BY <2>3, SectionsAgree
  <2> QED BY <2>2, <2>4
<1> QED BY <1>5, <1>13, <1>14 DEF Assembled

-----------------------------------------------------------------------------
(* The steps of the uninstaller.                                            *)

\* A sequence of one element, as image and output are.
LEMMA Singleton ==
    ASSUME NEW x
    PROVE  Len(<<x>>) = 1 /\ <<x>> # <<>>
  OBVIOUS

\* The variables keep their types; an image is there once it has parsed, and an
\* output exactly in the steps after the repacking: no run that failed has one.
THEOREM UninstallTypes == Spec => []TypeOK
<1>1. Init => TypeOK
  BY UninstallAssumption DEF Init, TypeOK, Steps, Ends, Methods
<1>2. TypeOK /\ [Next]_vars => TypeOK'
  <2> SUFFICES ASSUME TypeOK, [Next]_vars PROVE TypeOK'
    OBVIOUS
  <2> USE DEF TypeOK, Steps, Ends, Methods
  <2>1. CASE Load
    <3>1. CASE Parses(file)
      <4>1. pc' = "extract" /\ image' = <<ParsedImage(file)>>
        BY <2>1, <3>1 DEF Load
      <4>2. Len(image') = 1 /\ image' # <<>>
        BY <4>1, Singleton
      <4> QED BY <2>1, <4>1, <4>2 DEF Load
    <3>2. CASE ~Parses(file)
      BY <2>1, <3>2 DEF Load, Fail
    <3> QED BY <3>1, <3>2
  <2>2. CASE ExtractRamdisk
    BY <2>2 DEF ExtractRamdisk, Fail
  <2>3. CASE ChooseMethod
    BY <2>3 DEF ChooseMethod, ChosenMethod, Fail
  <2>4. CASE RestoreKernel
    BY <2>4 DEF RestoreKernel, Fail
  <2>5. CASE RepackImage
    <3>1. CASE CanRepack(image[1])
      <4> DEFINE new == Repack(image[1], kernel, Gzip(Serialize(restored)))
      <4>1. pc' = "avb" /\ output' = <<new>>
        BY <2>5, <3>1 DEF RepackImage
      <4>2. Len(output') = 1 /\ output' # <<>>
        BY <4>1, Singleton
      <4> HIDE DEF new
      <4> QED BY <2>5, <4>1, <4>2 DEF RepackImage
    <3>2. CASE ~CanRepack(image[1])
      BY <2>5, <3>2 DEF RepackImage, Fail
    <3> QED BY <3>1, <3>2
  <2>6. CASE RestoreAvb
    BY <2>6 DEF RestoreAvb
  <2>7. CASE WriteOutput
    BY <2>7 DEF WriteOutput
  <2>8. CASE RunAgain
    BY <2>8, UninstallAssumption DEF RunAgain
  <2>9. CASE UNCHANGED vars
    BY <2>9 DEF vars
  <2> QED BY <2>1, <2>2, <2>3, <2>4, <2>5, <2>6, <2>7, <2>8, <2>9 DEF Next
<1> QED BY <1>1, <1>2, PTL DEF Spec

\* The kernel with its table unhooked is as well formed, and as long.
LEMMA RestoreStockGood ==
    ASSUME NEW k, Good(k), ~IsStock(ReadAt(k, 0))
    PROVE  Good(RestoreStock(k)) /\ RestoreStock(k).size = k.size
<1> DEFINE v == ReadAt(k, 0)
           marks == v.marks \ {"DEFEX", "PROCA"}
           table == IF v.table = "hooked" THEN "unhooked" ELSE v.table
           w == [kind |-> "kernel", marks |-> marks, table |-> table]
           a == [size |-> k.at[0].size, val |-> w]
           c == [size |-> k.size, at |-> [k.at EXCEPT ![0] = a]]
<1>1. v.kind = "kernel"
  BY DEF IsStock
<1>2. 0 \in DOMAIN k.at /\ v = k.at[0].val
  <2>1. Torn.kind # "kernel"
    BY DEF Torn
  <2> QED BY <1>1, <2>1 DEF ReadAt
<1>3. PICK B : Closed(B) /\ Proper(v, B)
  BY <1>2 DEF Good, Fine
<1>4. v = [kind |-> "kernel", marks |-> v.marks, table |-> v.table]
  BY <1>1, <1>3 DEF Proper
<1>5. k = [size |-> k.size, at |-> k.at]
      /\ k.at = [x \in DOMAIN k.at |-> [size |-> k.at[x].size, val |-> k.at[x].val]]
      /\ IsBlob(k)
  BY DEF Good, IsBlob
<1>6. RestoreStock(k) = c
  <2>1. k.at[0] = [size |-> k.at[0].size, val |-> v]
    BY <1>2, <1>5
  <2>2. RestoreStock(k)
          = [k EXCEPT !.at = [k.at EXCEPT ![0] = [k.at[0] EXCEPT !.val = Unhooked(v)]]]
    BY <1>2, <1>5 DEF RestoreStock
  <2> HIDE DEF v
  <2>3. Unhooked(v) = w
    BY DEF Unhooked
  <2>4. [k.at[0] EXCEPT !.val = w] = a
    BY <2>1
  <2> HIDE DEF w, a
  <2> QED BY <1>5, <2>2, <2>3, <2>4
<1>7. Proper(w, {}) /\ ~IsHeader(w)
  BY DEF Proper, IsBootHeader, IsHeader
<1>8. Fine(w) /\ ~IsHeader(w)
  BY <1>7 DEF Fine, Closed
<1> HIDE DEF w
<1>9. /\ c.size = k.size /\ c = [size |-> c.size, at |-> c.at] /\ DOMAIN c.at = DOMAIN k.at
      /\ \A x \in DOMAIN k.at : /\ c.at[x].size = k.at[x].size
                                /\ c.at[x].val = IF x = 0 THEN w ELSE k.at[x].val
                                /\ c.at[x] = [size |-> c.at[x].size, val |-> c.at[x].val]
  BY <1>2, <1>5
<1>10. c.at = [x \in DOMAIN c.at |-> [size |-> c.at[x].size, val |-> c.at[x].val]]
  BY <1>9
<1> HIDE DEF c
<1>11. IsBlob(c)
  <2>1. \A x \in DOMAIN k.at : EndOf(c, x) = EndOf(k, x)
    BY <1>9 DEF EndOf
  <2> QED BY <1>5, <1>9, <1>10, <2>1 DEF IsBlob
<1>12. Good(c)
  <2>1. \A x \in DOMAIN k.at : Fine(k.at[x].val) /\ HeaderWhole(k.at[x])
    BY DEF Good
  <2>2. \A x \in DOMAIN c.at : Fine(c.at[x].val) /\ HeaderWhole(c.at[x])
    BY <1>8, <1>9, <2>1 DEF HeaderWhole
  <2> QED BY <1>11, <2>2 DEF Good
<1> QED BY <1>6, <1>9, <1>12

\* What is true of the variables besides their types: the image, the entries and the
\* kernel are well formed, and each is what the steps before made of the file.
FromFile ==
    /\ Good(file) /\ GoodEntries(found) /\ GoodEntries(restored)
    /\ image # <<>> => HasHeader(file) /\ image = <<ParsedImage(file)>>
    /\ pc \in {"repack", "avb", "write", "done"} =>
          Good(kernel) /\ kernel.size = SectionSize(file.at[HeaderOffset(file)].val, "kernel")
    /\ output # <<>> => output = <<Repack(image[1], kernel, Gzip(Serialize(restored)))>>

\* The image written is Repack of well-formed parts, so it is well formed itself.
LEMMA WrittenIsGood ==
    ASSUME TypeOK, FromFile, output # <<>>
    PROVE  /\ image # <<>> /\ HasHeader(file) /\ image[1] = ParsedImage(file)
           /\ Good(kernel) /\ kernel.size = SectionSize(file.at[HeaderOffset(file)].val, "kernel")
           /\ Good(Gzip(Serialize(restored)))
           /\ output[1] = Repack(image[1], kernel, Gzip(Serialize(restored)))
           /\ Good(output[1])
<1>1. pc \in {"avb", "write", "done"}
  BY DEF TypeOK
<1>2. image # <<>>
  BY <1>1 DEF TypeOK, Steps, Ends
<1>3. HasHeader(file) /\ image = <<ParsedImage(file)>>
  BY <1>2 DEF FromFile
<1>4. Good(kernel) /\ kernel.size = SectionSize(file.at[HeaderOffset(file)].val, "kernel")
  BY <1>1 DEF FromFile
<1>5. Good(Gzip(Serialize(restored)))
  BY GoodSerialize, GoodGzip DEF FromFile
<1>6. image[1] = ParsedImage(file)
  BY <1>3
<1>7. output[1] = Repack(image[1], kernel, Gzip(Serialize(restored)))
  BY DEF FromFile
<1>8. Good(output[1])
  BY <1>3, <1>4, <1>5, <1>6, <1>7, RepackGood DEF FromFile
<1> QED BY <1>2, <1>3, <1>4, <1>5, <1>6, <1>7, <1>8

\* It holds in every state; the image that a run wrote is a file for the next.
LEMMA FromFileHolds == Spec => []FromFile
<1>1. Init => FromFile
  <2> SUFFICES ASSUME Init PROVE FromFile
    OBVIOUS
  <2>1. Good(file)
    BY ContentsAssumption, ClosedIsGood DEF Init
  <2>2. image = <<>> /\ output = <<>> /\ found = <<>> /\ restored = <<>> /\ pc = "load"
    BY DEF Init
  <2> QED BY <2>1, <2>2, NoEntries DEF FromFile
<1>2. TypeOK /\ FromFile /\ [Next]_vars => FromFile'
  <2> SUFFICES ASSUME TypeOK, FromFile, [Next]_vars PROVE FromFile'
    OBVIOUS
  <2> DEFINE h == file.at[HeaderOffset(file)].val
  <2>1. CASE Load
    <3>1. UNCHANGED <<file, found, restored, kernel, output>> /\ output = <<>>
      BY <2>1 DEF Load, TypeOK
    <3>2. pc' \notin {"repack", "avb", "write", "done"}
      BY <2>1 DEF Load, Fail
    <3>3. image' # <<>> => HasHeader(file) /\ image' = <<ParsedImage(file)>>
      <4>1. CASE Parses(file)
        BY <2>1, <4>1 DEF Load, Parses
      <4>2. CASE ~Parses(file)
        BY <2>1, <4>2 DEF Load, FromFile
      <4> QED BY <4>1, <4>2
    <3> QED BY <3>1, <3>2, <3>3 DEF FromFile
  <2>2. CASE ExtractRamdisk
    <3> DEFINE a == RamdiskArchive(image[1])
    <3>1. image # <<>> /\ output = <<>>
      BY <2>2 DEF ExtractRamdisk, TypeOK, Steps, Ends
    <3>2. image[1] = ParsedImage(file) /\ HasHeader(file)
      BY <3>1 DEF FromFile
    <3>3. Good(Extract(image[1], "ramdisk"))
      BY <3>2, ExtractGood, SectionNames DEF FromFile
    <3>4. IsArchive(a)
      BY <3>3, GoodDecompress, ParseIsArchive, NoEntries DEF RamdiskArchive
    <3> HIDE DEF a
    <3>5. /\ UNCHANGED <<file, image, restored, kernel, output>>
          /\ pc' \notin {"repack", "avb", "write", "done"}
      BY <2>2 DEF ExtractRamdisk, Fail
    <3>6. found' = found \/ found' = a.entries
      BY <2>2 DEF ExtractRamdisk, a
    <3>7. GoodEntries(found')
      BY <3>4, <3>6 DEF FromFile, IsArchive
    <3> QED BY <3>1, <3>5, <3>7 DEF FromFile
  <2>3. CASE ChooseMethod
    <3>1. output = <<>>
      BY <2>3 DEF ChooseMethod, TypeOK
    <3>2. /\ UNCHANGED <<file, image, found, kernel, output>>
          /\ pc' \notin {"repack", "avb", "write", "done"}
      BY <2>3 DEF ChooseMethod, Fail
    <3>3. \/ restored' = restored
          \/ restored' = Read(SurgicalRemoval(found)).entries
          \/ restored' = RestoreFromBackup(found).entries
      BY <2>3 DEF ChooseMethod
    <3>4. IsArchive(RestoreFromBackup(found)) /\ IsArchive(Read(SurgicalRemoval(found)))
      BY RestoreIsArchive DEF FromFile
    <3>5. GoodEntries(restored')
      BY <3>3, <3>4 DEF FromFile, IsArchive
    <3> QED BY <3>1, <3>2, <3>5 DEF FromFile
  <2>4. CASE RestoreKernel
    <3> DEFINE k == Extract(image[1], "kernel")
    <3>1. image # <<>> /\ output = <<>>
      BY <2>4 DEF RestoreKernel, TypeOK, Steps, Ends
    <3>2. image[1] = ParsedImage(file) /\ HasHeader(file)
      BY <3>1 DEF FromFile
    <3>3. Good(k) /\ k.size = SectionSize(h, "kernel")
      BY <3>2, ExtractGood, SectionNames DEF FromFile
    <3>4. UNCHANGED <<file, image, found, restored, output>>
      BY <2>4 DEF RestoreKernel
    <3>5. CASE pc' = "failed"
      BY <3>1, <3>4, <3>5 DEF FromFile
    <3>6. CASE pc' # "failed"
      <4>1. kernel' = k \/ (~IsStock(ReadAt(k, 0)) /\ kernel' = RestoreStock(k))
        <5> DEFINE cut == \/ ~CanExtract(image[1], "kernel")
                          \/ opt.kernel /\ k.size > 0 /\ TableCut(ReadAt(k, 0))
                   new == IF opt.kernel /\ k.size > 0 /\ ~IsStock(ReadAt(k, 0))
                          THEN RestoreStock(k) ELSE k
        <5>1. IF cut THEN Fail /\ UNCHANGED kernel ELSE kernel' = new /\ pc' = "repack"
          BY <2>4 DEF RestoreKernel
        <5>2. kernel' = new
          <6> HIDE DEF cut, new
          <6> QED BY <3>6, <5>1 DEF Fail
        <5>3. new = k \/ (~IsStock(ReadAt(k, 0)) /\ new = RestoreStock(k))
          <6> HIDE DEF k
          <6> QED OBVIOUS
        <5> HIDE DEF new, k
        <5> QED BY <5>2, <5>3
      <4> HIDE DEF k, h
      <4>2. Good(kernel') /\ kernel'.size = SectionSize(h, "kernel")
        BY <3>3, <4>1, RestoreStockGood
      <4> QED BY <3>1, <3>4, <4>2 DEF FromFile, h
    <3> QED BY <3>5, <3>6
  <2>5. CASE RepackImage
    <3>1. /\ UNCHANGED <<file, image, found, restored, kernel>>
          /\ pc = "repack"
      BY <2>5 DEF RepackImage
    <3>2. output' = output \/ output' = <<Repack(image[1], kernel, Gzip(Serialize(restored)))>>
      BY <2>5 DEF RepackImage
    <3>3. output = <<>>
      BY <3>1 DEF TypeOK
    <3>4. output' # <<>> => output' = <<Repack(image'[1], kernel', Gzip(Serialize(restored')))>>
      BY <3>1, <3>2, <3>3
    <3> QED BY <3>1, <3>4 DEF FromFile
  <2>6. CASE RestoreAvb
    BY <2>6 DEF RestoreAvb, FromFile
  <2>7. CASE WriteOutput
    BY <2>7 DEF WriteOutput, FromFile
  <2>8. CASE RunAgain
    <3>1. output # <<>>
      BY <2>8 DEF RunAgain, TypeOK
    <3>2. Good(output[1])
      BY <3>1, WrittenIsGood
    <3>3. /\ pc' = "load" /\ file' = output[1] /\ image' = <<>> /\ found' = <<>>
          /\ restored' = <<>> /\ output' = <<>>
      BY <2>8 DEF RunAgain
    <3> QED BY <3>2, <3>3, NoEntries DEF FromFile
  <2>9. CASE UNCHANGED vars
    BY <2>9 DEF vars, FromFile
  <2> QED BY <2>1, <2>2, <2>3, <2>4, <2>5, <2>6, <2>7, <2>8, <2>9 DEF Next
<1> QED BY <1>1, <1>2, UninstallTypes, PTL DEF Spec

\* Whatever the image, its ramdisk and its options: what a successful run writes for
\* a ported header reads back as what was put in, and its archive parses to the
\* entries that were serialised.
THEOREM ReadsBack == Spec => []OutputReadsBack
<1>1. TypeOK /\ FromFile => OutputReadsBack
  <2> SUFFICES ASSUME TypeOK, FromFile, pc = "done", Ported(file)
               PROVE  OutputReadsBack
    BY DEF OutputReadsBack
  <2> DEFINE r == Gzip(Serialize(restored))
             new == output[1]
             rest == image[1].tail
  <2>1. output # <<>>
    BY DEF TypeOK
  <2>2. /\ image[1] = ParsedImage(file) /\ Good(kernel) /\ Good(r)
        /\ kernel.size = SectionSize(file.at[HeaderOffset(file)].val, "kernel")
        /\ new = Repack(image[1], kernel, r)
    BY <2>1, WrittenIsGood
  <2>3. Good(file) /\ GoodEntries(restored)
    BY DEF FromFile
  <2>4. Decompress(r) = Serialize(restored)
    BY <2>3, GoodSerialize, GoodGzip
  <2>5. Parse(Serialize(restored)) = Read(restored)
    BY <2>3, ParseSerialize
  <2> HIDE DEF r, new
  <2>6. /\ RefSection(new, "kernel") = kernel /\ RefSection(new, "ramdisk") = r
        /\ \A s \in Kept : RefSection(new, s) = RefSection(file, s)
        /\ new.size >= rest.size
        /\ Slice(new, new.size - rest.size, rest.size) = rest
    BY <2>2, <2>3, RepackReadsBack
  <2>7. OutputRamdisk = Read(restored)
    BY <2>4, <2>5, <2>6 DEF OutputRamdisk, new
  <2> QED BY <2>6, <2>7 DEF OutputReadsBack, new, r
<1> QED BY <1>1, UninstallTypes, FromFileHolds, PTL
-----------------------------------------------------------------------------
(* What an edit leaves of a ramdisk, in its order.                           *)

\* The elements of t are those of s at the indices in K, in their order; f says
\* where each of them was.
Picks(t, s, K, f) ==
    /\ f \in [1 .. Len(t) -> 1 .. Len(s)]
    /\ \A i, j \in 1 .. Len(t) : i < j => f[i] < f[j]
    /\ \A i \in 1 .. Len(t) : f[i] \in K /\ t[i] = s[f[i]]
    /\ \A k \in 1 .. Len(s) : k \in K => \E i \in 1 .. Len(t) : f[i] = k

\* The recursion of ChosenUpto, step by step.
LEMMA ChosenStep ==
    ASSUME NEW s, Len(s) \in Nat, NEW K
    PROVE  /\ ChosenUpto(s, K)[0] = <<>>
           /\ \A i \in 1 .. Len(s) :
                 ChosenUpto(s, K)[i]
                   = IF i \in K THEN Append(ChosenUpto(s, K)[i - 1], s[i])
                     ELSE ChosenUpto(s, K)[i - 1]
<1> DEFINE f == ChosenUpto(s, K)
<1>1. f = [i \in 0 .. Len(s) |-> IF i = 0 THEN <<>>
                                 ELSE IF i \in K THEN Append(f[i - 1], s[i]) ELSE f[i - 1]]
  BY ChosenUnfolds
<1> HIDE DEF f
<1>2. f[0] = <<>>
  BY <1>1
<1>3. \A i \in 1 .. Len(s) : f[i] = IF i \in K THEN Append(f[i - 1], s[i]) ELSE f[i - 1]
  <2> TAKE i \in 1 .. Len(s)
  <2>1. i \in 0 .. Len(s) /\ i # 0
    OBVIOUS
  <2> QED BY <1>1, <2>1
<1> QED BY <1>2, <1>3 DEF f

\* Chosen picks what it is told to.
LEMMA ChosenPicks ==
    ASSUME NEW T, NEW s \in Seq(T), NEW K
    PROVE  \E f : Picks(Chosen(s, K), s, K, f)
<1> DEFINE u == ChosenUpto(s, K)
           P(n, f) == /\ u[n] \in Seq(T)
                      /\ f \in [1 .. Len(u[n]) -> 1 .. n]
                      /\ \A i, j \in 1 .. Len(u[n]) : i < j => f[i] < f[j]
                      /\ \A i \in 1 .. Len(u[n]) : f[i] \in K /\ u[n][i] = s[f[i]]
                      /\ \A k \in 1 .. n : k \in K => \E i \in 1 .. Len(u[n]) : f[i] = k
           C(n) == n <= Len(s) => \E f : P(n, f)
           S == {n \in Nat : C(n)}
<1>1. Len(s) \in Nat /\ \A i \in 1 .. Len(s) : s[i] \in T
  OBVIOUS
<1>2. /\ u[0] = <<>>
      /\ \A i \in 1 .. Len(s) : u[i] = IF i \in K THEN Append(u[i - 1], s[i]) ELSE u[i - 1]
  BY <1>1, ChosenStep
<1> HIDE DEF u
<1>3. S = Nat
  <2>1. 0 \in S
    <3> DEFINE f == [i \in 1 .. 0 |-> 1]
    <3>1. u[0] = <<>> /\ Len(u[0]) = 0 /\ u[0] \in Seq(T)
      BY <1>2
    <3>2. f \in [1 .. 0 -> 1 .. 0]
      OBVIOUS
    <3> HIDE DEF f
    <3>3. P(0, f)
      BY <3>1, <3>2
    <3> HIDE DEF P
    <3> QED BY <3>3
  <2>2. ASSUME NEW n \in S PROVE n + 1 \in S
    <3>1. n \in Nat /\ C(n)
      <4> HIDE DEF C
      <4> QED OBVIOUS
    <3>2. SUFFICES ASSUME n + 1 <= Len(s) PROVE \E f : P(n + 1, f)
      <4> HIDE DEF P
      <4> QED BY <3>1
    <3>3. PICK f : P(n, f)
      <4> HIDE DEF P
      <4> QED BY <1>1, <3>1, <3>2
    <3>4. u[n + 1] = IF n + 1 \in K THEN Append(u[n], s[n + 1]) ELSE u[n]
      <4>1. n + 1 \in 1 .. Len(s) /\ (n + 1) - 1 = n
        BY <1>1, <3>1, <3>2
      <4> QED BY <1>2, <4>1
    <3>5. CASE n + 1 \notin K
      <4>1. u[n + 1] = u[n]
        BY <3>4, <3>5
      <4>2. f \in [1 .. Len(u[n]) -> 1 .. n + 1]
        BY <3>1, <3>3
      <4>3. \A k \in 1 .. n + 1 : k \in K => k \in 1 .. n
        BY <3>1, <3>5
      <4>4. P(n + 1, f)
        BY <3>3, <4>1, <4>2, <4>3
      <4> HIDE DEF P
      <4> QED BY <4>4
    <3>6. CASE n + 1 \in K
      <4> DEFINE m == Len(u[n])
                 g == [i \in 1 .. m + 1 |-> IF i = m + 1 THEN n + 1 ELSE f[i]]
      <4>1. m \in Nat /\ u[n] \in Seq(T) /\ s[n + 1] \in T
        BY <1>1, <3>1, <3>2, <3>3
      <4>2. /\ u[n + 1] \in Seq(T) /\ Len(u[n + 1]) = m + 1 /\ u[n + 1][m + 1] = s[n + 1]
            /\ \A i \in 1 .. m : u[n + 1][i] = u[n][i]
        BY <3>4, <3>6, <4>1
      <4>3. /\ f \in [1 .. m -> 1 .. n]
            /\ \A i, j \in 1 .. m : i < j => f[i] < f[j]
            /\ \A i \in 1 .. m : f[i] \in K /\ u[n][i] = s[f[i]]
            /\ \A k \in 1 .. n : k \in K => \E i \in 1 .. m : f[i] = k
        BY <3>3
      <4> HIDE DEF m
      <4>4. /\ g[m + 1] = n + 1 /\ \A i \in 1 .. m : g[i] = f[i] /\ f[i] \in 1 .. n
            /\ \A i \in 1 .. m + 1 : i \in 1 .. m \/ i = m + 1
        BY <4>1, <4>3
      <4>5. g \in [1 .. m + 1 -> 1 .. n + 1]
        BY <3>1, <4>1, <4>3
      <4> HIDE DEF g
      <4>6. \A i, j \in 1 .. m + 1 : i < j => g[i] < g[j]
        <5> SUFFICES ASSUME NEW i \in 1 .. m + 1, NEW j \in 1 .. m + 1, i < j PROVE g[i] < g[j]
          OBVIOUS
        <5>1. i \in 1 .. m
          BY <4>1
        <5>2. CASE j = m + 1
          BY <3>1, <4>4, <5>1, <5>2
        <5>3. CASE j # m + 1
          <6>1. j \in 1 .. m
            BY <4>1, <5>3
          <6> QED BY <4>3, <4>4, <5>1, <6>1
        <5> QED BY <5>2, <5>3
      <4>7. \A i \in 1 .. m + 1 : g[i] \in K /\ u[n + 1][i] = s[g[i]]
        BY <3>6, <4>2, <4>3, <4>4
      <4>8. \A k \in 1 .. n + 1 : k \in K => \E i \in 1 .. m + 1 : g[i] = k
        <5> SUFFICES ASSUME NEW k \in 1 .. n + 1, k \in K PROVE \E i \in 1 .. m + 1 : g[i] = k
          OBVIOUS
        <5>1. CASE k = n + 1
          BY <4>1, <4>4, <5>1
        <5>2. CASE k # n + 1
          <6>1. k \in 1 .. n
            BY <3>1, <5>2
          <6>2. PICK i \in 1 .. m : f[i] = k
            BY <4>3, <6>1
          <6>3. i \in 1 .. m + 1 /\ g[i] = k
            BY <4>1, <4>4, <6>2
          <6> QED BY <6>3
        <5> QED BY <5>1, <5>2
      <4>9. P(n + 1, g)
        BY <4>2, <4>5, <4>6, <4>7, <4>8
      <4> HIDE DEF P
      <4> QED BY <4>9
    <3> QED BY <3>5, <3>6
  <2>3. S \in SUBSET Nat
    OBVIOUS
  <2> HIDE DEF S
  <2> QED BY <2>1, <2>2, <2>3, SetInduction
<1>4. C(Len(s))
  <2> HIDE DEF C
  <2> QED BY <1>1, <1>3
<1>5. PICK f : P(Len(s), f)
  <2> HIDE DEF P
  <2> QED BY <1>1, <1>4
<1>6. Chosen(s, K) = u[Len(s)]
  BY DEF Chosen, u
<1>7. Picks(Chosen(s, K), s, K, f)
  BY <1>5, <1>6 DEF Picks
<1> QED BY <1>7

\* RemoveAt picks all but one.
LEMMA RemovePicks ==
    ASSUME NEW T, NEW s \in Seq(T), NEW k \in 1 .. Len(s)
    PROVE  \E f : Picks(RemoveAt(s, k), s, 1 .. Len(s) \ {k}, f)
<1> DEFINE n == Len(s)
           a == SubSeq(s, 1, k - 1)
           b == SubSeq(s, k + 1, n)
           t == RemoveAt(s, k)
           f == [i \in 1 .. n - 1 |-> IF i < k THEN i ELSE i + 1]
<1>1. n \in Nat /\ k \in Nat /\ 1 <= k /\ k <= n
  OBVIOUS
<1>2. /\ a \in Seq(T) /\ Len(a) = k - 1 /\ \A i \in 1 .. k - 1 : a[i] = s[i]
      /\ b \in Seq(T) /\ Len(b) = n - k /\ \A i \in 1 .. n - k : b[i] = s[k + i]
  BY <1>1
<1>3. t = a \o b
  BY DEF RemoveAt
<1> HIDE DEF a, b, n
<1>4. /\ Len(t) = n - 1
      /\ \A i \in 1 .. n - 1 : t[i] = IF i < k THEN a[i] ELSE b[i - (k - 1)]
  <2> HIDE DEF t
  <2>0. a \in Seq(T) /\ b \in Seq(T)
    BY <1>2
  <2>1. /\ Len(t) = Len(a) + Len(b)
        /\ \A i \in 1 .. Len(a) + Len(b) : t[i] = IF i <= Len(a) THEN a[i] ELSE b[i - Len(a)]
    BY <1>3, <2>0
  <2>2. Len(a) + Len(b) = n - 1 /\ Len(a) = k - 1
    BY <1>1, <1>2
  <2>3. \A i \in 1 .. n - 1 : i <= k - 1 <=> i < k
    BY <1>1
  <2> QED BY <2>1, <2>2, <2>3
<1> HIDE DEF t
<1>5. \A i \in 1 .. n - 1 : t[i] = s[f[i]]
  <2> TAKE i \in 1 .. n - 1
  <2>1. CASE i < k
    <3>1. i \in 1 .. k - 1 /\ f[i] = i
      BY <1>1, <2>1
    <3> QED BY <1>2, <1>4, <2>1, <3>1
  <2>2. CASE ~(i < k)
    <3>1. i - (k - 1) \in 1 .. n - k /\ k + (i - (k - 1)) = i + 1 /\ f[i] = i + 1
      BY <1>1, <2>2
    <3> QED BY <1>2, <1>4, <2>2, <3>1
  <2> QED BY <2>1, <2>2
<1>6. /\ f \in [1 .. n - 1 -> 1 .. n]
      /\ \A i, j \in 1 .. n - 1 : i < j => f[i] < f[j]
      /\ \A i \in 1 .. n - 1 : f[i] \in 1 .. n \ {k}
  BY <1>1
<1>7. \A m \in 1 .. n : m \in 1 .. n \ {k} => \E i \in 1 .. n - 1 : f[i] = m
  <2> SUFFICES ASSUME NEW m \in 1 .. n, m # k PROVE \E i \in 1 .. n - 1 : f[i] = m
    OBVIOUS
  <2>1. CASE m < k
    <3>1. m \in 1 .. n - 1 /\ f[m] = m
      BY <1>1, <2>1
    <3> QED BY <3>1
  <2>2. CASE ~(m < k)
    <3>1. m - 1 \in 1 .. n - 1 /\ f[m - 1] = m
      BY <1>1, <2>2
    <3> QED BY <3>1
  <2> QED BY <2>1, <2>2
<1> HIDE DEF f
<1>8. Picks(t, s, 1 .. n \ {k}, f)
  BY <1>4, <1>5, <1>6, <1>7 DEF Picks, n
<1> QED BY <1>8 DEF t, n

\* Two sequences that agree, as far as m, on what is chosen and on its elements.
LEMMA ChosenAgree ==
    ASSUME NEW s, Len(s) \in Nat, NEW K, NEW t, Len(t) \in Nat, NEW L,
           NEW m \in Nat, m <= Len(s), m <= Len(t),
           \A i \in 1 .. m : (i \in K <=> i \in L) /\ (i \in K => s[i] = t[i])
    PROVE  ChosenUpto(s, K)[m] = ChosenUpto(t, L)[m]
<1> DEFINE u == ChosenUpto(s, K)
           v == ChosenUpto(t, L)
           C(n) == n <= m => u[n] = v[n]
           S == {n \in Nat : C(n)}
<1>1. /\ u[0] = <<>>
      /\ \A i \in 1 .. Len(s) : u[i] = IF i \in K THEN Append(u[i - 1], s[i]) ELSE u[i - 1]
  BY ChosenStep
<1>2. /\ v[0] = <<>>
      /\ \A i \in 1 .. Len(t) : v[i] = IF i \in L THEN Append(v[i - 1], t[i]) ELSE v[i - 1]
  BY ChosenStep
<1> HIDE DEF u, v
<1>3. S = Nat
  <2>1. 0 \in S
    BY <1>1, <1>2
  <2>2. ASSUME NEW n \in S PROVE n + 1 \in S
    <3>1. n \in Nat /\ C(n)
      OBVIOUS
    <3>2. SUFFICES ASSUME n + 1 <= m PROVE u[n + 1] = v[n + 1]
      BY <3>1
    <3>3. /\ n + 1 \in 1 .. Len(s) /\ n + 1 \in 1 .. Len(t) /\ n + 1 \in 1 .. m
          /\ (n + 1) - 1 = n /\ u[n] = v[n]
      BY <3>1, <3>2
    <3> QED BY <1>1, <1>2, <3>3
  <2>3. S \in SUBSET Nat
    OBVIOUS
  <2> HIDE DEF S
  <2> QED BY <2>1, <2>2, <2>3, SetInduction
<1>4. C(m)
  <2> HIDE DEF C
  <2> QED BY <1>3
<1> QED BY <1>4 DEF u, v

\* All of a sequence is that sequence.
LEMMA ChosenAll ==
    ASSUME NEW T, NEW s \in Seq(T), NEW K, 1 .. Len(s) \subseteq K
    PROVE  Chosen(s, K) = s
<1> DEFINE u == ChosenUpto(s, K)
           C(n) == n <= Len(s) => u[n] = SubSeq(s, 1, n)
           S == {n \in Nat : C(n)}
<1>1. Len(s) \in Nat
  OBVIOUS
<1>2. /\ u[0] = <<>>
      /\ \A i \in 1 .. Len(s) : u[i] = IF i \in K THEN Append(u[i - 1], s[i]) ELSE u[i - 1]
  BY <1>1, ChosenStep
<1> HIDE DEF u
<1>3. S = Nat
  <2>1. 0 \in S
    <3>1. SubSeq(s, 1, 0) = <<>>
      OBVIOUS
    <3> QED BY <1>2, <3>1
  <2>2. ASSUME NEW n \in S PROVE n + 1 \in S
    <3>1. n \in Nat /\ C(n)
      OBVIOUS
    <3>2. SUFFICES ASSUME n + 1 <= Len(s) PROVE u[n + 1] = SubSeq(s, 1, n + 1)
      BY <3>1
    <3>3. /\ n + 1 \in 1 .. Len(s) /\ (n + 1) - 1 = n /\ u[n] = SubSeq(s, 1, n)
      BY <3>1, <3>2
    <3>4. u[n + 1] = Append(SubSeq(s, 1, n), s[n + 1])
      BY <1>2, <3>3
    <3>5. SubSeq(s, 1, n + 1) = Append(SubSeq(s, 1, n), s[n + 1])
      BY <1>1, <3>1, <3>2
    <3> QED BY <3>4, <3>5
  <2>3. S \in SUBSET Nat
    OBVIOUS
  <2> HIDE DEF S
  <2> QED BY <2>1, <2>2, <2>3, SetInduction
<1>4. C(Len(s))
  <2> HIDE DEF C
  <2> QED BY <1>1, <1>3
<1>5. SubSeq(s, 1, Len(s)) = s
  OBVIOUS
<1> QED BY <1>1, <1>4, <1>5 DEF Chosen, u

\* Two ways to pick the same indices are one.
LEMMA PicksAgree ==
    ASSUME NEW s, Len(s) \in Nat, NEW K, NEW t, NEW f, NEW u, NEW g,
           Len(t) \in Nat, Len(u) \in Nat, Picks(t, s, K, f), Picks(u, s, K, g),
           NEW m \in 1 .. Len(t)
    PROVE  m \in 1 .. Len(u) /\ f[m] = g[m]
<1> DEFINE C(n) == \A j \in 1 .. n : j <= Len(t) => j <= Len(u) /\ f[j] = g[j]
           S == {n \in Nat : C(n)}
<1>1. /\ f \in [1 .. Len(t) -> 1 .. Len(s)] /\ g \in [1 .. Len(u) -> 1 .. Len(s)]
      /\ \A i, j \in 1 .. Len(t) : i < j => f[i] < f[j]
      /\ \A i, j \in 1 .. Len(u) : i < j => g[i] < g[j]
      /\ \A i \in 1 .. Len(t) : f[i] \in K
      /\ \A i \in 1 .. Len(u) : g[i] \in K
      /\ \A k \in 1 .. Len(s) : k \in K => \E i \in 1 .. Len(t) : f[i] = k
      /\ \A k \in 1 .. Len(s) : k \in K => \E i \in 1 .. Len(u) : g[i] = k
  BY DEF Picks
<1>2. S = Nat
  <2>1. 0 \in S
    OBVIOUS
  <2>2. ASSUME NEW n \in S PROVE n + 1 \in S
    <3>1. n \in Nat /\ C(n)
      <4> HIDE DEF C
      <4> QED OBVIOUS
    <3>2. ASSUME n + 1 <= Len(t) PROVE n + 1 <= Len(u) /\ f[n + 1] = g[n + 1]
      <4>1. n + 1 \in 1 .. Len(t) /\ f[n + 1] \in 1 .. Len(s) /\ f[n + 1] \in K
        BY <1>1, <3>1, <3>2
      <4>2. PICK q \in 1 .. Len(u) : g[q] = f[n + 1]
        BY <1>1, <4>1
      <4>3. \A j \in 1 .. n : j \in 1 .. Len(t) /\ j \in 1 .. Len(u) /\ f[j] = g[j] /\ f[j] < f[n + 1]
        BY <1>1, <3>1, <3>2, <4>1
      <4>4. q \notin 1 .. n
        <5> SUFFICES ASSUME q \in 1 .. n PROVE FALSE
          OBVIOUS
        <5>1. q \in 1 .. Len(t) /\ f[q] = g[q] /\ f[q] < f[n + 1]
          BY <4>3
        <5>2. f[q] = f[n + 1] /\ f[n + 1] \in Nat
          BY <4>1, <4>2, <5>1
        <5> QED BY <5>1, <5>2
      <4>5. n + 1 <= q /\ n + 1 \in 1 .. Len(u)
        BY <3>1, <4>2, <4>4
      <4>6. g[n + 1] \in 1 .. Len(s) /\ g[n + 1] \in K
        BY <1>1, <4>5
      <4>7. PICK p \in 1 .. Len(t) : f[p] = g[n + 1]
        BY <1>1, <4>6
      <4>8. p \notin 1 .. n
        <5> SUFFICES ASSUME p \in 1 .. n PROVE FALSE
          OBVIOUS
        <5>1. p \in 1 .. Len(u) /\ f[p] = g[p]
          BY <4>3
        <5>2. p < n + 1
          BY <3>1
        <5>3. g[p] < g[n + 1] /\ g[p] \in Nat
          BY <1>1, <4>5, <5>1, <5>2
        <5> QED BY <4>7, <5>1, <5>3
      <4>9. n + 1 <= p
        BY <3>1, <4>7, <4>8
      <4>10. f[n + 1] <= f[p] /\ g[n + 1] <= g[q]
        <5>1. /\ p = n + 1 \/ n + 1 < p
              /\ q = n + 1 \/ n + 1 < q
          BY <3>1, <4>2, <4>5, <4>7, <4>9
        <5>2. n + 1 < p => f[n + 1] < f[p]
          BY <1>1, <4>1, <4>7
        <5>3. n + 1 < q => g[n + 1] < g[q]
          BY <1>1, <4>2, <4>5
        <5>4. f[n + 1] \in Nat /\ g[n + 1] \in Nat /\ f[p] \in Nat /\ g[q] \in Nat
          BY <4>1, <4>2, <4>6, <4>7
        <5>5. f[n + 1] <= f[p]
          BY <5>1, <5>2, <5>4
        <5>6. g[n + 1] <= g[q]
          BY <5>1, <5>3, <5>4
        <5> QED BY <5>5, <5>6
      <4> QED BY <4>1, <4>2, <4>5, <4>6, <4>7, <4>10
    <3>3. C(n + 1)
      <4> SUFFICES ASSUME NEW j \in 1 .. n + 1, j <= Len(t) PROVE j <= Len(u) /\ f[j] = g[j]
        OBVIOUS
      <4>1. j \in 1 .. n \/ j = n + 1
        BY <3>1
      <4> QED BY <3>1, <3>2, <4>1
    <3> HIDE DEF C
    <3> QED BY <3>1, <3>3
  <2>3. S \in SUBSET Nat
    OBVIOUS
  <2> HIDE DEF S
  <2> QED BY <2>1, <2>2, <2>3, SetInduction
<1>3. C(m)
  <2> HIDE DEF C
  <2> QED BY <1>2
<1> QED BY <1>3

\* So what is picked is determined by where it is picked.
LEMMA PicksOnce ==
    ASSUME NEW s, Len(s) \in Nat, NEW K, NEW T, NEW t \in Seq(T), NEW f,
           NEW U, NEW u \in Seq(U), NEW g, Picks(t, s, K, f), Picks(u, s, K, g)
    PROVE  t = u
<1>1. Len(t) \in Nat /\ Len(u) \in Nat /\ DOMAIN t = 1 .. Len(t) /\ DOMAIN u = 1 .. Len(u)
  OBVIOUS
<1>2. \A m \in 1 .. Len(t) : m \in 1 .. Len(u) /\ f[m] = g[m]
  BY <1>1, PicksAgree
<1>3. \A m \in 1 .. Len(u) : m \in 1 .. Len(t)
  BY <1>1, PicksAgree
<1>4. Len(t) = Len(u)
  <2>0. \A a, b \in Nat : a <= b /\ b <= a => a = b
    OBVIOUS
  <2>1. Len(t) <= Len(u)
    <3>1. CASE Len(t) = 0
      BY <1>1, <3>1
    <3>2. CASE Len(t) # 0
      <4>1. Len(t) \in 1 .. Len(t)
        BY <1>1, <3>2
      <4> QED BY <1>2, <4>1
    <3> QED BY <3>1, <3>2
  <2>2. Len(u) <= Len(t)
    <3>1. CASE Len(u) = 0
      BY <1>1, <3>1
    <3>2. CASE Len(u) # 0
      <4>1. Len(u) \in 1 .. Len(u)
        BY <1>1, <3>2
      <4> QED BY <1>3, <4>1
    <3> QED BY <3>1, <3>2
  <2>3. Len(t) \in Nat /\ Len(u) \in Nat
    BY <1>1
  <2> QED BY <2>0, <2>1, <2>2, <2>3
<1>5. \A m \in 1 .. Len(t) : t[m] = u[m]
  <2> TAKE m \in 1 .. Len(t)
  <2>1. t[m] = s[f[m]]
    BY DEF Picks
  <2>2. m \in 1 .. Len(u) /\ f[m] = g[m]
    BY <1>2
  <2>3. u[m] = s[g[m]]
    BY <2>2 DEF Picks
  <2> QED BY <2>1, <2>2, <2>3
<1>6. t = [m \in 1 .. Len(t) |-> t[m]] /\ u = [m \in 1 .. Len(u) |-> u[m]]
  OBVIOUS
<1> QED BY <1>4, <1>5, <1>6

\* What is chosen from what was picked is what is chosen from where it was picked.
LEMMA ChosenOfPicked ==
    ASSUME NEW T, NEW s \in Seq(T), NEW U, NEW t \in Seq(U), NEW K, NEW f, Picks(t, s, K, f),
           NEW L, \A k \in 1 .. Len(s) : k \in L => k \in K,
           NEW M, \A i \in 1 .. Len(t) : i \in M <=> f[i] \in L
    PROVE  Chosen(t, M) = Chosen(s, L)
<1> DEFINE v == Chosen(t, M)
           w == Chosen(s, L)
<1>1. v \in Seq(U) /\ w \in Seq(T)
  BY ChosenIsSeq
<1>2. PICK g : Picks(v, t, M, g)
  BY ChosenPicks
<1>3. PICK h : Picks(w, s, L, h)
  BY ChosenPicks
<1> HIDE DEF v, w
<1> DEFINE e == [i \in 1 .. Len(v) |-> f[g[i]]]
<1>4. /\ f \in [1 .. Len(t) -> 1 .. Len(s)]
      /\ \A i, j \in 1 .. Len(t) : i < j => f[i] < f[j]
      /\ \A i \in 1 .. Len(t) : t[i] = s[f[i]]
      /\ \A k \in 1 .. Len(s) : k \in K => \E i \in 1 .. Len(t) : f[i] = k
  BY DEF Picks
<1>5. /\ g \in [1 .. Len(v) -> 1 .. Len(t)]
      /\ \A i, j \in 1 .. Len(v) : i < j => g[i] < g[j]
      /\ \A i \in 1 .. Len(v) : g[i] \in M /\ v[i] = t[g[i]]
      /\ \A k \in 1 .. Len(t) : k \in M => \E i \in 1 .. Len(v) : g[i] = k
  BY <1>2 DEF Picks
<1>6. /\ e \in [1 .. Len(v) -> 1 .. Len(s)]
      /\ \A i \in 1 .. Len(v) : e[i] = f[g[i]] /\ g[i] \in 1 .. Len(t)
  BY <1>4, <1>5
<1> HIDE DEF e
<1>7. \A i, j \in 1 .. Len(v) : i < j => e[i] < e[j]
  BY <1>4, <1>5, <1>6
<1>8. \A i \in 1 .. Len(v) : e[i] \in L /\ v[i] = s[e[i]]
  BY <1>4, <1>5, <1>6
<1>9. \A k \in 1 .. Len(s) : k \in L => \E i \in 1 .. Len(v) : e[i] = k
  <2> SUFFICES ASSUME NEW k \in 1 .. Len(s), k \in L PROVE \E i \in 1 .. Len(v) : e[i] = k
    OBVIOUS
  <2>1. PICK j \in 1 .. Len(t) : f[j] = k
    BY <1>4
  <2>2. PICK i \in 1 .. Len(v) : g[i] = j
    BY <1>5, <2>1
  <2> QED BY <1>6, <2>1, <2>2
<1>10. Picks(v, s, L, e)
  BY <1>6, <1>7, <1>8, <1>9 DEF Picks
<1>11. v = w
  BY <1>1, <1>3, <1>10, PicksOnce
<1> QED BY <1>11 DEF v, w

\* Without the first of its indices it is the tail.
LEMMA ChosenTail ==
    ASSUME NEW T, NEW s \in Seq(T), NEW K, NEW k \in 1 .. Len(s), k \in K,
           \A j \in 1 .. k - 1 : j \notin K
    PROVE  /\ Chosen(s, K) # <<>> /\ Chosen(s, K)[1] = s[k]
           /\ Chosen(s, K \ {k}) = Tail(Chosen(s, K))
<1> DEFINE v == Chosen(s, K)
           w == Chosen(s, K \ {k})
           n == Len(v)
<1>1. v \in Seq(T) /\ w \in Seq(T) /\ Len(s) \in Nat
  BY ChosenIsSeq
<1>2. PICK f : Picks(v, s, K, f)
  BY ChosenPicks
<1>3. PICK h : Picks(w, s, K \ {k}, h)
  BY ChosenPicks
<1> HIDE DEF v, w
<1>4. /\ f \in [1 .. n -> 1 .. Len(s)] /\ n \in Nat
      /\ \A i, j \in 1 .. n : i < j => f[i] < f[j]
      /\ \A i \in 1 .. n : f[i] \in K /\ v[i] = s[f[i]]
      /\ \A j \in 1 .. Len(s) : j \in K => \E i \in 1 .. n : f[i] = j
  BY <1>1, <1>2 DEF Picks
<1>5. PICK q \in 1 .. n : f[q] = k
  BY <1>4
<1>6. 1 \in 1 .. n /\ f[1] = k
  <2>1. 1 \in 1 .. n
    BY <1>4, <1>5
  <2>2. f[1] \in K /\ f[1] \in 1 .. Len(s)
    BY <1>4, <2>1
  <2>3. ~(f[1] < k)
    BY <1>1, <2>2
  <2>4. q # 1 => f[1] < f[q]
    BY <1>4, <1>5, <2>1
  <2> QED BY <1>5, <2>1, <2>3, <2>4
<1>7. v # <<>> /\ v[1] = s[k]
  BY <1>1, <1>4, <1>6
<1> DEFINE x == Tail(v)
           e == [i \in 1 .. n - 1 |-> f[i + 1]]
<1>8. x \in Seq(T) /\ Len(x) = n - 1 /\ \A i \in 1 .. n - 1 : x[i] = v[i + 1]
  BY <1>1, <1>7
<1> HIDE DEF x, n
<1>9. /\ e \in [1 .. n - 1 -> 1 .. Len(s)]
      /\ \A i \in 1 .. n - 1 : e[i] = f[i + 1] /\ i + 1 \in 1 .. n /\ 1 < i + 1
  BY <1>4
<1> HIDE DEF e
<1>10. \A i, j \in 1 .. n - 1 : i < j => e[i] < e[j]
  <2> SUFFICES ASSUME NEW i \in 1 .. n - 1, NEW j \in 1 .. n - 1, i < j PROVE e[i] < e[j]
    OBVIOUS
  <2>1. i + 1 < j + 1
    BY <1>4
  <2> QED BY <1>4, <1>9, <2>1
<1>11. \A i \in 1 .. n - 1 : e[i] \in K \ {k} /\ x[i] = s[e[i]]
  <2> SUFFICES ASSUME NEW i \in 1 .. n - 1 PROVE e[i] \in K \ {k} /\ x[i] = s[e[i]]
    OBVIOUS
  <2>1. f[1] < f[i + 1] /\ f[i + 1] \in K /\ v[i + 1] = s[f[i + 1]] /\ f[i + 1] \in Nat
    BY <1>4, <1>6, <1>9
  <2> QED BY <1>6, <1>8, <1>9, <2>1
<1>12. \A j \in 1 .. Len(s) : j \in K \ {k} => \E i \in 1 .. n - 1 : e[i] = j
  <2> SUFFICES ASSUME NEW j \in 1 .. Len(s), j \in K \ {k} PROVE \E i \in 1 .. n - 1 : e[i] = j
    OBVIOUS
  <2>1. PICK i \in 1 .. n : f[i] = j
    BY <1>4
  <2>2. i # 1
    BY <1>6, <2>1
  <2>3. i - 1 \in 1 .. n - 1 /\ (i - 1) + 1 = i
    BY <1>4, <2>2
  <2> QED BY <1>9, <2>1, <2>3
<1>13. Picks(x, s, K \ {k}, e)
  BY <1>8, <1>9, <1>10, <1>11, <1>12 DEF Picks
<1>14. x = w
  BY <1>1, <1>3, <1>8, <1>13, PicksOnce
<1> QED BY <1>7, <1>14 DEF v, w, x

\* The entries of t are entries of s, in the order they have there.
Within(t, s) ==
    \E f \in [1 .. Len(t) -> 1 .. Len(s)] :
        /\ \A i, j \in 1 .. Len(t) : i < j => f[i] < f[j]
        /\ \A i \in 1 .. Len(t) : t[i] = s[f[i]]

LEMMA WithinEntry ==
    ASSUME NEW s, NEW t, Within(t, s), NEW i \in 1 .. Len(t)
    PROVE  \E k \in 1 .. Len(s) : t[i] = s[k]
<1>1. PICK f \in [1 .. Len(t) -> 1 .. Len(s)] : \A j \in 1 .. Len(t) : t[j] = s[f[j]]
  BY DEF Within
<1>2. f[i] \in 1 .. Len(s) /\ t[i] = s[f[i]]
  BY <1>1
<1> QED BY <1>2

LEMMA WithinIsTransitive ==
    ASSUME NEW r, NEW s, NEW t, Len(r) \in Nat, Len(s) \in Nat, Len(t) \in Nat,
           Within(t, s), Within(s, r)
    PROVE  Within(t, r)
<1>1. PICK f \in [1 .. Len(t) -> 1 .. Len(s)] :
          /\ \A i, j \in 1 .. Len(t) : i < j => f[i] < f[j]
          /\ \A i \in 1 .. Len(t) : t[i] = s[f[i]]
  BY DEF Within
<1>2. PICK g \in [1 .. Len(s) -> 1 .. Len(r)] :
          /\ \A i, j \in 1 .. Len(s) : i < j => g[i] < g[j]
          /\ \A i \in 1 .. Len(s) : s[i] = r[g[i]]
  BY DEF Within
<1> DEFINE h == [i \in 1 .. Len(t) |-> g[f[i]]]
<1>3. h \in [1 .. Len(t) -> 1 .. Len(r)]
  BY <1>1, <1>2
<1>4. \A i \in 1 .. Len(t) : h[i] = g[f[i]] /\ f[i] \in 1 .. Len(s)
  BY <1>1
<1> HIDE DEF h
<1>5. \A i, j \in 1 .. Len(t) : i < j => h[i] < h[j]
  BY <1>1, <1>2, <1>4
<1>6. \A i \in 1 .. Len(t) : t[i] = r[h[i]]
  BY <1>1, <1>2, <1>4
<1> QED BY <1>3, <1>5, <1>6 DEF Within

LEMMA WithinItself ==
    ASSUME NEW s, Len(s) \in Nat
    PROVE  Within(s, s)
<1> DEFINE f == [i \in 1 .. Len(s) |-> i]
<1>1. f \in [1 .. Len(s) -> 1 .. Len(s)] /\ \A i \in 1 .. Len(s) : f[i] = i
  OBVIOUS
<1> HIDE DEF f
<1> QED BY <1>1 DEF Within

\* A name that occurs once occurs no more often in fewer entries.
LEMMA WithinAtMostOnce ==
    ASSUME NEW es, GoodEntries(es), NEW t, GoodEntries(t), Within(t, es),
           NEW name, AtMostOnce(es, name)
    PROVE  AtMostOnce(t, name)
<1>1. DOMAIN es = 1 .. Len(es) /\ DOMAIN t = 1 .. Len(t) /\ Len(t) \in Nat /\ Len(es) \in Nat
  BY GoodIndex
<1>2. PICK f \in [1 .. Len(t) -> 1 .. Len(es)] :
          /\ \A i, j \in 1 .. Len(t) : i < j => f[i] < f[j]
          /\ \A i \in 1 .. Len(t) : t[i] = es[f[i]]
  BY DEF Within
<1>3. SUFFICES ASSUME NEW i \in 1 .. Len(t), NEW j \in 1 .. Len(t),
                      ~InMagiskDir(t[i]), IsSuffix(name, t[i].name),
                      ~InMagiskDir(t[j]), IsSuffix(name, t[j].name)
               PROVE  i = j
  BY <1>1 DEF AtMostOnce
<1>4. f[i] = f[j] /\ f[i] \in 1 .. Len(es)
  BY <1>1, <1>2, <1>3 DEF AtMostOnce
<1>5. ~(i < j) /\ ~(j < i)
  BY <1>2, <1>4
<1> QED BY <1>5

\* Removing a directory.
LEMMA RemoveDirectoryLeaves ==
    ASSUME NEW es, GoodEntries(es), NEW dir, NEW t, t = RemoveDirectory(es, dir)
    PROVE  /\ GoodEntries(t) /\ Within(t, es)
           /\ \A i \in 1 .. Len(t) : ~InDirectory(t[i], dir)
<1> DEFINE K == {i \in DOMAIN es : ~InDirectory(es[i], dir)}
<1>1. t = Chosen(es, K) /\ GoodEntries(t)
  BY ChosenGood DEF RemoveDirectory
<1>2. /\ Len(es) \in Nat /\ DOMAIN es = 1 .. Len(es)
      /\ Len(t) \in Nat /\ DOMAIN t = 1 .. Len(t)
  BY <1>1, GoodIndex
<1>3. PICK S : es \in Seq(S)
  BY DEF GoodEntries
<1>4. PICK f : Picks(t, es, K, f)
  BY <1>1, <1>3, ChosenPicks
<1>5. Within(t, es)
  BY <1>4 DEF Picks, Within
<1>6. \A i \in 1 .. Len(t) : ~InDirectory(t[i], dir)
  BY <1>4 DEF Picks
<1> QED BY <1>1, <1>5, <1>6

\* Removing an entry: one of that name, so all of them when there is at most one.
LEMMA RemoveEntryLeaves ==
    ASSUME NEW es, GoodEntries(es), NEW name, NEW t, t = RemoveEntry(es, name)
    PROVE  /\ GoodEntries(t) /\ Within(t, es)
           /\ (\A i \in 1 .. Len(es) : ~InMagiskDir(es[i])) /\ AtMostOnce(es, name) =>
                 \A i \in 1 .. Len(t) : ~IsSuffix(name, t[i].name)
<1>1. GoodEntries(t)
  BY RemoveEntryGood
<1>2. /\ Len(es) \in Nat /\ DOMAIN es = 1 .. Len(es)
      /\ Len(t) \in Nat /\ DOMAIN t = 1 .. Len(t)
  BY <1>1, GoodIndex
<1>3. CASE ~HasEntry(es, name)
  <2>1. t = es
    BY <1>3 DEF RemoveEntry
  <2>2. \A i \in 1 .. Len(es) : ~IsSuffix(name, es[i].name)
    BY <1>2, <1>3 DEF HasEntry
  <2> QED BY <1>1, <1>2, <2>1, <2>2, WithinItself
<1>4. CASE HasEntry(es, name)
  <2> DEFINE k == EntryIndex(es, name)
  <2>1. k \in 1 .. Len(es) /\ IsSuffix(name, es[k].name)
    BY <1>4, IndexOfEntry
  <2>2. t = RemoveAt(es, k)
    BY <1>4 DEF RemoveEntry
  <2> HIDE DEF k
  <2>3. PICK S : es \in Seq(S)
    BY DEF GoodEntries
  <2>4. PICK f : Picks(t, es, 1 .. Len(es) \ {k}, f)
    BY <2>1, <2>2, <2>3, RemovePicks
  <2>5. Within(t, es)
    <3>1. /\ f \in [1 .. Len(t) -> 1 .. Len(es)]
          /\ \A i \in 1 .. Len(t) : t[i] = es[f[i]]
          /\ \A i, j \in 1 .. Len(t) : i < j => f[i] < f[j]
      BY <2>4 DEF Picks
    <3> QED BY <3>1 DEF Within
  <2>6. ASSUME \A i \in 1 .. Len(es) : ~InMagiskDir(es[i]), AtMostOnce(es, name),
               NEW i \in 1 .. Len(t)
        PROVE  ~IsSuffix(name, t[i].name)
    <3>1. f[i] \in 1 .. Len(es) /\ f[i] # k /\ t[i] = es[f[i]]
      BY <2>4 DEF Picks
    <3> QED BY <1>2, <2>1, <2>6, <3>1 DEF AtMostOnce
  <2> QED BY <1>1, <2>5, <2>6
<1> QED BY <1>3, <1>4

\* An artifact by its name.
LEMMA OutsideIsArtifact ==
    ASSUME NEW e, NEW name \in OutsideNames, IsSuffix(name, e.name)
    PROVE  IsArtifact(e)
  BY DEF OutsideNames, IsArtifact, ArtifactPaths

\* The files that are left when what Magisk put there has been removed: an artifact
\* is among them only if another file ended in its name, outside Magisk's directories.
Cleared(es) ==
    RemoveEntry(RemoveEntry(RemoveEntry(RemoveDirectory(RemoveDirectory(es, Overlay), BackupDir),
                                        FullBackup), MagiskRc), Policy)
LEMMA ClearedLeaves ==
    ASSUME NEW es, GoodEntries(es), ArtifactsPlaced(es)
    PROVE  LET t == Cleared(es) IN
           /\ GoodEntries(t) /\ Within(t, es)
           /\ \A i \in 1 .. Len(t) : ~InMagiskDir(t[i])
           /\ \A i \in 1 .. Len(t) : \A name \in OutsideNames :
                 IsSuffix(name, t[i].name) => ~AtMostOnce(es, name)
           /\ \A i \in 1 .. Len(t) :
                 IsArtifact(t[i]) => \E name \in OutsideNames : IsSuffix(name, t[i].name)
<1> DEFINE a == RemoveDirectory(es, Overlay)
           b == RemoveDirectory(a, BackupDir)
           c == RemoveEntry(b, FullBackup)
           d == RemoveEntry(c, MagiskRc)
           t == Cleared(es)
<1>1. t = RemoveEntry(d, Policy)
  BY DEF Cleared
<1>2. /\ GoodEntries(a) /\ Within(a, es) /\ \A i \in 1 .. Len(a) : ~InDirectory(a[i], Overlay)
  BY RemoveDirectoryLeaves
<1> HIDE DEF a, t
<1>3. /\ GoodEntries(b) /\ Within(b, a) /\ \A i \in 1 .. Len(b) : ~InDirectory(b[i], BackupDir)
  BY <1>2, RemoveDirectoryLeaves
<1> HIDE DEF b
<1>4. /\ GoodEntries(c) /\ Within(c, b)
      /\ (\A i \in 1 .. Len(b) : ~InMagiskDir(b[i])) /\ AtMostOnce(b, FullBackup) =>
            \A i \in 1 .. Len(c) : ~IsSuffix(FullBackup, c[i].name)
  BY <1>3, RemoveEntryLeaves
<1> HIDE DEF c
<1>5. /\ GoodEntries(d) /\ Within(d, c)
      /\ (\A i \in 1 .. Len(c) : ~InMagiskDir(c[i])) /\ AtMostOnce(c, MagiskRc) =>
            \A i \in 1 .. Len(d) : ~IsSuffix(MagiskRc, d[i].name)
  BY <1>4, RemoveEntryLeaves
<1> HIDE DEF d
<1>6. /\ GoodEntries(t) /\ Within(t, d)
      /\ (\A i \in 1 .. Len(d) : ~InMagiskDir(d[i])) /\ AtMostOnce(d, Policy) =>
            \A i \in 1 .. Len(t) : ~IsSuffix(Policy, t[i].name)
  BY <1>1, <1>5, RemoveEntryLeaves
<1>7. /\ Len(es) \in Nat /\ Len(a) \in Nat /\ Len(b) \in Nat /\ Len(c) \in Nat
      /\ Len(d) \in Nat /\ Len(t) \in Nat
      /\ DOMAIN es = 1 .. Len(es)
  BY <1>2, <1>3, <1>4, <1>5, <1>6, GoodIndex
<1>8. /\ Within(b, es) /\ Within(c, es) /\ Within(d, es) /\ Within(t, es)
      /\ Within(d, b) /\ Within(t, b) /\ Within(t, c)
  <2>1. Within(b, es)
    BY <1>2, <1>3, <1>7, WithinIsTransitive
  <2>2. Within(c, es)
    BY <1>4, <1>7, <2>1, WithinIsTransitive
  <2>3. Within(d, es) /\ Within(d, b)
    BY <1>4, <1>5, <1>7, <2>2, WithinIsTransitive
  <2>4. Within(t, es) /\ Within(t, b) /\ Within(t, c)
    BY <1>5, <1>6, <1>7, <2>3, WithinIsTransitive
  <2> QED BY <2>1, <2>2, <2>3, <2>4
<1>9. \A i \in 1 .. Len(b) : ~InMagiskDir(b[i])
  <2> TAKE i \in 1 .. Len(b)
  <2>1. PICK k \in 1 .. Len(a) : b[i] = a[k]
    BY <1>3, WithinEntry
  <2> QED BY <1>2, <1>3, <2>1 DEF InMagiskDir
<1>10. /\ \A i \in 1 .. Len(c) : ~InMagiskDir(c[i])
       /\ \A i \in 1 .. Len(d) : ~InMagiskDir(d[i])
       /\ \A i \in 1 .. Len(t) : ~InMagiskDir(t[i])
  <2>1. \A i \in 1 .. Len(c) : \E k \in 1 .. Len(b) : c[i] = b[k]
    BY <1>4, WithinEntry
  <2>2. \A i \in 1 .. Len(d) : \E k \in 1 .. Len(b) : d[i] = b[k]
    BY <1>8, WithinEntry
  <2>3. \A i \in 1 .. Len(t) : \E k \in 1 .. Len(b) : t[i] = b[k]
    BY <1>8, WithinEntry
  <2> QED BY <1>9, <2>1, <2>2, <2>3
<1>11. /\ AtMostOnce(es, FullBackup) => AtMostOnce(b, FullBackup)
       /\ AtMostOnce(es, MagiskRc) => AtMostOnce(c, MagiskRc)
       /\ AtMostOnce(es, Policy) => AtMostOnce(d, Policy)
  BY <1>3, <1>4, <1>5, <1>8, WithinAtMostOnce
<1>12. /\ AtMostOnce(es, FullBackup) => \A i \in 1 .. Len(c) : ~IsSuffix(FullBackup, c[i].name)
       /\ AtMostOnce(es, MagiskRc) => \A i \in 1 .. Len(d) : ~IsSuffix(MagiskRc, d[i].name)
       /\ AtMostOnce(es, Policy) => \A i \in 1 .. Len(t) : ~IsSuffix(Policy, t[i].name)
  BY <1>4, <1>5, <1>6, <1>9, <1>10, <1>11
<1>13. \A i \in 1 .. Len(t) : \A name \in OutsideNames :
          IsSuffix(name, t[i].name) => ~AtMostOnce(es, name)
  <2>1. AtMostOnce(es, FullBackup) => \A i \in 1 .. Len(t) : ~IsSuffix(FullBackup, t[i].name)
    <3>1. \A i \in 1 .. Len(t) : \E k \in 1 .. Len(c) : t[i] = c[k]
      BY <1>8, WithinEntry
    <3> QED BY <1>12, <3>1
  <2>2. AtMostOnce(es, MagiskRc) => \A i \in 1 .. Len(t) : ~IsSuffix(MagiskRc, t[i].name)
    BY <1>6, <1>12, WithinEntry
  <2> QED BY <1>12, <2>1, <2>2 DEF OutsideNames
<1>14. \A i \in 1 .. Len(t) :
          IsArtifact(t[i]) => \E name \in OutsideNames : IsSuffix(name, t[i].name)
  <2> TAKE i \in 1 .. Len(t)
  <2>1. PICK k \in 1 .. Len(es) : t[i] = es[k]
    BY <1>8, WithinEntry
  <2> QED BY <1>7, <1>10, <2>1 DEF ArtifactsPlaced
<1> QED BY <1>6, <1>8, <1>10, <1>13, <1>14 DEF t

\* The lines read back from a text that was written.
LEMMA RcLinesRead ==
    ASSUME NEW s, IsSequence(s)
    PROVE  /\ Lines(RcBlob(s), "rc") \in {s, <<>>}
           /\ RcBlob(Lines(RcBlob(s), "rc")) = RcBlob(s)
<1> DEFINE v == [kind |-> "rc", lines |-> s]
           n == RcLineSize * Len(s)
<1>1. Len(s) \in Nat /\ n \in Nat
  BY ContentsAssumption DEF IsSequence
<1>2. RcBlob(s) = Atom(n, v)
  BY DEF RcBlob
<1>3. v.kind = "rc" /\ v.lines = s
  OBVIOUS
<1> HIDE DEF v
<1>4. CASE n = 0
  <2>1. RcBlob(s) = Zeros(0)
    BY <1>2, <1>4 DEF Atom
  <2>2. Lines(Zeros(0), "rc") = <<>>
    BY DEF Zeros, Lines, ReadAt, Torn
  <2>3. RcBlob(<<>>) = Zeros(0)
    <3>1. RcLineSize * Len(<<>>) = 0
      BY ContentsAssumption
    <3> QED BY <3>1 DEF RcBlob, Atom
  <2> QED BY <2>1, <2>2, <2>3
<1>5. CASE n # 0
  <2> HIDE DEF n
  <2>1. n > 0
    BY <1>1, <1>5
  <2>2. DOMAIN Atom(n, v).at = {0} /\ Atom(n, v).at[0] = [size |-> n, val |-> v]
    BY <1>1, <2>1, AtomIsBlob
  <2>3. ReadAt(Atom(n, v), 0) = v
    BY <2>2 DEF ReadAt
  <2>4. Lines(RcBlob(s), "rc") = s
    BY <1>2, <1>3, <2>3 DEF Lines
  <2> QED BY <2>4
<1> QED BY <1>4, <1>5

\* An fstab that was written has no lines of an init.rc.
LEMMA FstabIsNoRc ==
    ASSUME NEW s, Len(s) \in Nat
    PROVE  Lines(FstabBlob(s), "rc") = <<>>
<1> DEFINE v == [kind |-> "fstab", lines |-> s]
           n == FstabLineSize * Len(s)
<1>1. n \in Nat
  BY ContentsAssumption
<1>2. FstabBlob(s) = Atom(n, v) /\ v.kind # "rc"
  BY DEF FstabBlob
<1> HIDE DEF v, n
<1>3. \A x \in DOMAIN Atom(n, v).at : Atom(n, v).at[x].val = v
  BY <1>1, AtomIsBlob
<1>4. ReadAt(Atom(n, v), 0).kind # "rc"
  BY <1>2, <1>3 DEF ReadAt, Torn
<1> QED BY <1>2, <1>4 DEF Lines

\* Entries of the same names, the same ones but for their data.
SameNames(t, es) ==
    /\ Len(t) = Len(es) /\ DOMAIN t = DOMAIN es
    /\ \A i \in 1 .. Len(es) : t[i].name = es[i].name

\* The fstabs are edited and nothing else.
LEMMA CleanFstabsLeaves ==
    ASSUME NEW es, GoodEntries(es)
    PROVE  LET t == CleanFstabs(es) IN
           /\ GoodEntries(t) /\ SameNames(t, es)
           /\ \A i \in 1 .. Len(es) :
                 IF IsFstab(es[i]) THEN Lines(t[i].data, "rc") = <<>>
                 ELSE t[i] = es[i]
<1> DEFINE t == CleanFstabs(es)
           New(e) == FstabBlob(RestoreFstabFlags(RemovePatterns(Lines(e.data, "fstab"))))
<1>1. /\ Len(es) \in Nat /\ DOMAIN es = 1 .. Len(es)
      /\ \A i \in 1 .. Len(es) : GoodEntry(es[i])
  BY GoodIndex
<1>2. GoodEntries(t)
  BY CleanFstabsGood
<1>3. /\ DOMAIN t = DOMAIN es
      /\ \A i \in 1 .. Len(es) :
            t[i] = IF IsFstab(es[i])
                   THEN [es[i] EXCEPT !.data = New(es[i])] ELSE es[i]
  BY <1>1 DEF CleanFstabs
<1> HIDE DEF t
<1>4. Len(t) = Len(es)
  <2>1. Len(t) \in Nat /\ DOMAIN t = 1 .. Len(t)
    BY <1>2, GoodIndex
  <2> QED BY <1>1, <1>3, <2>1
<1>5. ASSUME NEW i \in 1 .. Len(es), IsFstab(es[i])
      PROVE  t[i].name = es[i].name /\ Lines(t[i].data, "rc") = <<>>
  <2> DEFINE lines == RemovePatterns(Lines(es[i].data, "fstab"))
             new == RestoreFstabFlags(lines)
  <2>1. Good(es[i].data) /\ es[i] = [name |-> es[i].name, data |-> es[i].data]
    BY <1>1 DEF GoodEntry
  <2>2. IsSequence(lines)
    BY <2>1, LinesAreSequence, ChosenIsSequence DEF RemovePatterns
  <2> HIDE DEF lines
  <2>3. Len(lines) \in Nat /\ DOMAIN lines = 1 .. Len(lines)
    BY <2>2 DEF IsSequence
  <2>4. Len(new) \in Nat
    BY <2>3 DEF RestoreFstabFlags
  <2> HIDE DEF new
  <2>5. Lines(FstabBlob(new), "rc") = <<>>
    BY <2>4, FstabIsNoRc
  <2>6. New(es[i]) = FstabBlob(new)
    BY DEF new, lines
  <2> HIDE DEF New
  <2>7. t[i] = [name |-> es[i].name, data |-> New(es[i])]
    BY <1>3, <1>5, <2>1
  <2> QED BY <2>5, <2>6, <2>7
<1> QED BY <1>1, <1>2, <1>3, <1>4, <1>5 DEF SameNames, t

\* Of the init.rc files the first is edited, and nothing of Magisk is left in it.
LEMMA CleanInitRcLeaves ==
    ASSUME NEW es, GoodEntries(es)
    PROVE  LET t == CleanInitRc(es)
               k == EntryIndex(es, InitRc)
           IN  /\ GoodEntries(t) /\ SameNames(t, es)
               /\ \A i \in 1 .. Len(es) : ~HasEntry(es, InitRc) \/ i # k => t[i] = es[i]
               /\ HasEntry(es, InitRc) =>
                     /\ "magisk" \notin ToSet(Lines(t[k].data, "rc"))
                     /\ t[k].data = RcBlob(Lines(t[k].data, "rc"))
                     /\ "magisk" \notin ToSet(Lines(es[k].data, "rc")) =>
                           t[k].data = RcBlob(Lines(es[k].data, "rc"))
<1> DEFINE t == CleanInitRc(es)
           k == EntryIndex(es, InitRc)
           lines == Lines(es[k].data, "rc")
           K == {i \in DOMAIN lines : lines[i] # "magisk"}
           new == Chosen(lines, K)
<1>1. /\ Len(es) \in Nat /\ DOMAIN es = 1 .. Len(es)
      /\ \A i \in 1 .. Len(es) : GoodEntry(es[i])
  BY GoodIndex
<1>2. GoodEntries(t)
  BY CleanInitRcGood
<1>3. CASE ~HasEntry(es, InitRc)
  <2>1. t = es
    BY <1>3 DEF CleanInitRc
  <2> QED BY <1>2, <1>3, <2>1 DEF SameNames
<1>4. CASE HasEntry(es, InitRc)
  <2>1. k \in 1 .. Len(es)
    BY <1>4, IndexOfEntry
  <2>2. t = [es EXCEPT ![k].data = RcBlob(new)]
    BY <1>4 DEF CleanInitRc
  <2>3. Good(es[k].data) /\ es[k] = [name |-> es[k].name, data |-> es[k].data]
    BY <1>1, <2>1 DEF GoodEntry
  <2>4. IsSequence(lines)
    BY <2>3, LinesAreSequence
  <2>5. IsSequence(new)
    BY <2>4, ChosenIsSequence
  <2>6. PICK T : lines \in Seq(T)
    BY <2>4 DEF IsSequence
  <2>7. DOMAIN lines = 1 .. Len(lines) /\ Len(lines) \in Nat
    BY <2>6
  <2>8. "magisk" \notin ToSet(new)
    <3>1. PICK f : Picks(new, lines, K, f)
      BY <2>6, ChosenPicks
    <3>2. DOMAIN new = 1 .. Len(new)
      BY <2>5 DEF IsSequence
    <3> HIDE DEF new, lines, k
    <3>3. \A i \in 1 .. Len(new) : new[i] # "magisk"
      BY <3>1 DEF Picks
    <3> QED BY <3>2, <3>3 DEF ToSet
  <2>9. "magisk" \notin ToSet(lines) => new = lines
    <3> HAVE "magisk" \notin ToSet(lines)
    <3> HIDE DEF lines
    <3>1. 1 .. Len(lines) \subseteq K
      BY <2>7 DEF ToSet
    <3> QED BY <2>6, <3>1, ChosenAll
  <2> HIDE DEF new, t, lines
  <2>10. /\ DOMAIN t = DOMAIN es
         /\ \A i \in 1 .. Len(es) : i # k => t[i] = es[i]
         /\ t[k] = [es[k] EXCEPT !.data = RcBlob(new)]
    <3> HIDE DEF k
    <3> QED BY <1>1, <2>1, <2>2
  <2> HIDE DEF k
  <2>11. t[k].name = es[k].name /\ t[k].data = RcBlob(new)
    BY <2>3, <2>10
  <2>12. Len(t) = Len(es)
    <3>1. Len(t) \in Nat /\ DOMAIN t = 1 .. Len(t)
      BY <1>2, GoodIndex
    <3> QED BY <1>1, <2>10, <3>1
  <2>13. SameNames(t, es)
    BY <2>10, <2>11, <2>12 DEF SameNames
  <2>14. Lines(RcBlob(new), "rc") \in {new, <<>>} /\ RcBlob(Lines(RcBlob(new), "rc")) = RcBlob(new)
    BY <2>5, RcLinesRead
  <2>15. "magisk" \notin ToSet(<<>>)
    BY DEF ToSet
  <2>16. "magisk" \notin ToSet(Lines(t[k].data, "rc")) /\ t[k].data = RcBlob(Lines(t[k].data, "rc"))
    BY <2>8, <2>11, <2>14, <2>15
  <2>17. "magisk" \notin ToSet(lines) => t[k].data = RcBlob(lines)
    BY <2>9, <2>11
  <2> QED BY <1>2, <1>4, <2>10, <2>13, <2>16, <2>17 DEF t, k, lines
<1> QED BY <1>3, <1>4

\* Whether a file is an artifact, or kept, is in its name.
LEMMA ArtifactByName ==
    ASSUME NEW d, NEW e, d.name = e.name
    PROVE  /\ IsArtifact(d) <=> IsArtifact(e)
           /\ InMagiskDir(d) <=> InMagiskDir(e)
           /\ IsFstab(d) <=> IsFstab(e)
  BY DEF IsArtifact, InMagiskDir, InDirectory, IsFstab

-----------------------------------------------------------------------------
(* The files that a method keeps.                                            *)

\* A name has one last piece.
LEMMA OneEnding ==
    ASSUME NEW x, NEW a, NEW b, IsSuffix(<<a>>, x), IsSuffix(<<b>>, x)
    PROVE  a = b
<1>1. \A c : Reverse(<<c>>) = <<c>> /\ Len(<<c>>) = 1
  <2> TAKE c
  <2>1. Reverse(<<c>>) = [i \in 1 .. 1 |-> <<c>>[(1 - i) + 1]]
    BY DEF Reverse
  <2>2. \A i \in 1 .. 1 : (1 - i) + 1 = 1
    OBVIOUS
  <2>3. Reverse(<<c>>) = [i \in 1 .. 1 |-> c]
    BY <2>1, <2>2
  <2> QED BY <2>3
<1>2. /\ SubSeq(<<a>>, 1, 1) = SubSeq(Reverse(x), 1, 1)
      /\ SubSeq(<<b>>, 1, 1) = SubSeq(Reverse(x), 1, 1)
  BY <1>1 DEF IsSuffix, IsPrefix
<1>3. SubSeq(<<a>>, 1, 1) = SubSeq(<<b>>, 1, 1)
  BY <1>2
<1>4. \A c, d : SubSeq(<<c>>, 1, 1) = SubSeq(<<d>>, 1, 1) => c = d
  OBVIOUS
<1> QED BY <1>3, <1>4

\* So none ends in two of those that are searched.
LEMMA EndingsDiffer ==
    ASSUME NEW x, NEW p \in OutsideNames \cup {InitRc, <<"init">>},
           NEW q \in OutsideNames \cup {InitRc, <<"init">>}, IsSuffix(p, x), IsSuffix(q, x)
    PROVE  p = q
<1>1. PICK a : p = <<a>>
  BY DEF OutsideNames, FullBackup, MagiskRc, Policy, InitRc
<1>2. PICK b : q = <<b>>
  BY DEF OutsideNames, FullBackup, MagiskRc, Policy, InitRc
<1>3. a = b
  BY <1>1, <1>2, OneEnding
<1> QED BY <1>1, <1>2, <1>3

\* A saved init is none of them.
LEMMA SavedInitEnding ==
    ASSUME NEW x, IsSuffix(InitBackup, x), NEW p \in OutsideNames
    PROVE  ~IsSuffix(p, x)
<1> SUFFICES ASSUME IsSuffix(p, x) PROVE FALSE
  OBVIOUS
<1>1. PICK a : p = <<a>> /\ a # "init.xz"
  BY DEF OutsideNames, FullBackup, MagiskRc, Policy
<1>2. Reverse(<<a>>) = <<a>>
  <2>1. Reverse(<<a>>) = [i \in 1 .. 1 |-> <<a>>[(1 - i) + 1]]
    BY DEF Reverse
  <2>2. \A i \in 1 .. 1 : (1 - i) + 1 = 1
    OBVIOUS
  <2>3. Reverse(<<a>>) = [i \in 1 .. 1 |-> a]
    BY <2>1, <2>2
  <2> QED BY <2>3
<1> DEFINE r == Reverse(InitBackup)
<1>3. r[1] = "init.xz" /\ Len(r) = 3
  <2>1. r = [i \in 1 .. 3 |-> <<".backup", "/", "init.xz">>[(3 - i) + 1]]
    BY DEF Reverse, InitBackup
  <2>2. (3 - 1) + 1 = 3 /\ 1 \in 1 .. 3
    OBVIOUS
  <2>3. r[1] = <<".backup", "/", "init.xz">>[3]
    BY <2>1, <2>2
  <2>4. Len(r) = 3
    BY <2>1
  <2> QED BY <2>3, <2>4
<1> HIDE DEF r
<1>4. /\ SubSeq(<<a>>, 1, 1) = SubSeq(Reverse(x), 1, 1)
      /\ SubSeq(r, 1, 3) = SubSeq(Reverse(x), 1, 3)
  <2>1. SubSeq(<<a>>, 1, 1) = SubSeq(Reverse(x), 1, 1)
    BY <1>1, <1>2 DEF IsSuffix, IsPrefix
  <2>2. SubSeq(r, 1, 3) = SubSeq(Reverse(x), 1, 3)
    BY <1>3 DEF IsSuffix, IsPrefix, r
  <2> QED BY <2>1, <2>2
<1>5. /\ SubSeq(<<a>>, 1, 1)[1] = a /\ SubSeq(r, 1, 3)[1] = r[1]
      /\ SubSeq(Reverse(x), 1, 1)[1] = Reverse(x)[1]
      /\ SubSeq(Reverse(x), 1, 3)[1] = Reverse(x)[1]
  OBVIOUS
<1> QED BY <1>1, <1>3, <1>4, <1>5

\* Where the kept files are: those with an ending, and those with none.
EndingAt(m, name, es) == {i \in DOMAIN es : Keeps(m, es[i]) /\ IsSuffix(name, es[i].name)}
OthersAt(m, es) == {i \in DOMAIN es : Keeps(m, es[i]) /\ ~EndsIn(es[i], Searched(m))}

LEMMA KeptByName ==
    ASSUME NEW m, NEW d, NEW e, d.name = e.name
    PROVE  /\ Keeps(m, d) <=> Keeps(m, e)
           /\ EndsIn(d, Searched(m)) <=> EndsIn(e, Searched(m))
  BY ArtifactByName DEF Keeps, EndsIn

\* Two ramdisks have the same kept files but for those with one of some endings.
SameButFor(names, m, es, t) ==
    /\ Others(m, t) = Others(m, es)
    /\ \A name \in Searched(m) \ names : Ending(m, name, t) = Ending(m, name, es)

LEMMA SameThenSame ==
    ASSUME NEW m, NEW r, NEW s, NEW t, NEW A, NEW B, SameButFor(A, m, r, s), SameButFor(B, m, s, t)
    PROVE  SameButFor(A \cup B, m, r, t)
  BY DEF SameButFor

\* All are, in entries picked so that none of the kept is left out;
LEMMA PickedKeeps ==
    ASSUME NEW es, GoodEntries(es), NEW t, GoodEntries(t), NEW K, NEW f, Picks(t, es, K, f),
           NEW m, \A i \in 1 .. Len(es) : Keeps(m, es[i]) => i \in K
    PROVE  SameButFor({}, m, es, t)
<1>1. PICK S : es \in Seq(S)
  BY DEF GoodEntries
<1>2. PICK T : t \in Seq(T)
  BY DEF GoodEntries
<1>3. DOMAIN es = 1 .. Len(es) /\ DOMAIN t = 1 .. Len(t)
  BY <1>1, <1>2
<1>4. \A i \in 1 .. Len(t) : f[i] \in 1 .. Len(es) /\ t[i] = es[f[i]]
  BY DEF Picks
<1>5. Others(m, t) = Others(m, es)
  <2> DEFINE L == OthersAt(m, es)
             M == OthersAt(m, t)
  <2>1. /\ \A k \in 1 .. Len(es) : k \in L => k \in K
        /\ \A i \in 1 .. Len(t) : i \in M <=> f[i] \in L
    BY <1>3, <1>4 DEF OthersAt
  <2>2. Others(m, es) = Chosen(es, L) /\ Others(m, t) = Chosen(t, M)
    BY DEF Others, OthersAt
  <2> HIDE DEF L, M
  <2>3. Chosen(t, M) = Chosen(es, L)
    BY <1>1, <1>2, <2>1, ChosenOfPicked
  <2> QED BY <2>2, <2>3
<1>6. ASSUME NEW name PROVE Ending(m, name, t) = Ending(m, name, es)
  <2> DEFINE L == EndingAt(m, name, es)
             M == EndingAt(m, name, t)
  <2>1. /\ \A k \in 1 .. Len(es) : k \in L => k \in K
        /\ \A i \in 1 .. Len(t) : i \in M <=> f[i] \in L
    BY <1>3, <1>4 DEF EndingAt
  <2>2. Ending(m, name, es) = Chosen(es, L) /\ Ending(m, name, t) = Chosen(t, M)
    BY DEF Ending, EndingAt
  <2> HIDE DEF L, M
  <2>3. Chosen(t, M) = Chosen(es, L)
    BY <1>1, <1>2, <2>1, ChosenOfPicked
  <2> QED BY <2>2, <2>3
<1> QED BY <1>5, <1>6 DEF SameButFor

\* so in the ramdisk without one of Magisk's directories.
LEMMA DirectoryKept ==
    ASSUME NEW es, GoodEntries(es), NEW dir \in {Overlay, BackupDir}, NEW m
    PROVE  SameButFor({}, m, es, RemoveDirectory(es, dir))
<1> DEFINE K == {i \in DOMAIN es : ~InDirectory(es[i], dir)}
           t == RemoveDirectory(es, dir)
<1>1. t = Chosen(es, K) /\ GoodEntries(t)
  BY ChosenGood DEF RemoveDirectory
<1>2. PICK S : es \in Seq(S)
  BY DEF GoodEntries
<1>3. \A i \in 1 .. Len(es) : Keeps(m, es[i]) => i \in K
  BY <1>2 DEF Keeps, InMagiskDir
<1> HIDE DEF K, t
<1>4. PICK f : Picks(t, es, K, f)
  BY <1>1, <1>2, ChosenPicks
<1>5. SameButFor({}, m, es, t)
  BY <1>1, <1>3, <1>4, PickedKeeps
<1> QED BY <1>5 DEF t

\* The first of an ending is the one that is found, if it is kept at all.
IsFirstOf(m, name, es, k) ==
    /\ k \in EndingAt(m, name, es)
    /\ \A j \in 1 .. k - 1 : j \notin EndingAt(m, name, es)
    /\ Ending(m, name, es) # <<>> /\ Ending(m, name, es)[1] = es[k]
    /\ Chosen(es, EndingAt(m, name, es) \ {k}) = Tail(Ending(m, name, es))
LEMMA FirstOfEnding ==
    ASSUME NEW es, GoodEntries(es), NEW name, HasEntry(es, name), NEW m,
           Keeps(m, es[EntryIndex(es, name)])
    PROVE  IsFirstOf(m, name, es, EntryIndex(es, name))
<1> DEFINE L == EndingAt(m, name, es)
           k == EntryIndex(es, name)
<1>1. PICK S : es \in Seq(S)
  BY DEF GoodEntries
<1>2. /\ k \in 1 .. Len(es) /\ IsSuffix(name, es[k].name)
      /\ \A j \in 1 .. k - 1 : ~IsSuffix(name, es[j].name)
  BY IndexOfEntry
<1>3. DOMAIN es = 1 .. Len(es)
  BY <1>1
<1>4. k \in L /\ \A j \in 1 .. k - 1 : j \notin L
  BY <1>2, <1>3 DEF EndingAt
<1>5. Ending(m, name, es) = Chosen(es, L)
  BY DEF Ending, EndingAt
<1> HIDE DEF L, k
<1>6. k \in 1 .. Len(es)
  BY <1>2
<1>7. /\ Chosen(es, L) # <<>> /\ Chosen(es, L)[1] = es[k]
      /\ Chosen(es, L \ {k}) = Tail(Chosen(es, L))
  BY <1>1, <1>4, <1>6, ChosenTail
<1> QED BY <1>4, <1>5, <1>7 DEF L, k, IsFirstOf

\* Removing an entry takes one kept file at most, the first with that ending.
LEMMA EntryRemoved ==
    ASSUME NEW es, GoodEntries(es), NEW name \in OutsideNames
    PROVE  LET t == RemoveEntry(es, name) IN
           /\ SameButFor({name}, "surgical", es, t)
           /\ AllButFirst(Ending("surgical", name, es), Ending("surgical", name, t))
<1> DEFINE m == "surgical"
           t == RemoveEntry(es, name)
           k == EntryIndex(es, name)
<1>0. Searched(m) = OutsideNames \cup {InitRc}
  BY DEF Searched
<1> HIDE DEF m
<1>1. CASE ~HasEntry(es, name)
  <2>1. t = es
    BY <1>1 DEF RemoveEntry
  <2>2. AllButFirst(Ending(m, name, es), Ending(m, name, es))
    BY DEF AllButFirst
  <2> QED BY <2>1, <2>2 DEF SameButFor, m
<1>2. CASE HasEntry(es, name)
  <2>1. k \in 1 .. Len(es) /\ IsSuffix(name, es[k].name)
    BY <1>2, IndexOfEntry
  <2>2. t = RemoveAt(es, k) /\ GoodEntries(t)
    BY <1>2, RemoveEntryGood DEF RemoveEntry
  <2>3. Keeps(m, es[k]) =>
           Chosen(es, EndingAt(m, name, es) \ {k}) = Tail(Ending(m, name, es))
    BY <1>2, FirstOfEnding DEF IsFirstOf
  <2> HIDE DEF t, k
  <2>4. PICK S : es \in Seq(S)
    BY DEF GoodEntries
  <2>5. PICK T : t \in Seq(T)
    BY <2>2 DEF GoodEntries
  <2> DEFINE K == 1 .. Len(es) \ {k}
  <2>6. PICK f : Picks(t, es, K, f)
    BY <2>1, <2>2, <2>4, RemovePicks
  <2>7. DOMAIN es = 1 .. Len(es) /\ DOMAIN t = 1 .. Len(t)
    BY <2>4, <2>5
  <2>8. \A i \in 1 .. Len(t) : f[i] \in 1 .. Len(es) /\ f[i] # k /\ t[i] = es[f[i]]
    BY <2>6 DEF Picks
  <2>9. Others(m, t) = Others(m, es)
    <3> DEFINE L == OthersAt(m, es)
               M == OthersAt(m, t)
    <3>1. k \notin L
      BY <1>0, <2>1 DEF OthersAt, EndsIn
    <3>2. /\ \A i \in 1 .. Len(es) : i \in L => i \in K
          /\ \A i \in 1 .. Len(t) : i \in M <=> f[i] \in L
      BY <2>7, <2>8, <3>1 DEF OthersAt
    <3>3. Others(m, es) = Chosen(es, L) /\ Others(m, t) = Chosen(t, M)
      BY DEF Others, OthersAt
    <3> HIDE DEF L, M, K
    <3>4. Chosen(t, M) = Chosen(es, L)
      BY <2>4, <2>5, <2>6, <3>2, ChosenOfPicked
    <3> QED BY <3>3, <3>4
  <2>10. ASSUME NEW x PROVE Ending(m, x, t) = Chosen(es, EndingAt(m, x, es) \ {k})
    <3> DEFINE L == EndingAt(m, x, es) \ {k}
               M == EndingAt(m, x, t)
    <3>1. /\ \A i \in 1 .. Len(es) : i \in L => i \in K
          /\ \A i \in 1 .. Len(t) : i \in M <=> f[i] \in L
      BY <2>7, <2>8 DEF EndingAt
    <3>2. Ending(m, x, t) = Chosen(t, M)
      BY DEF Ending, EndingAt
    <3> HIDE DEF L, M, K
    <3>3. Chosen(t, M) = Chosen(es, L)
      BY <2>4, <2>5, <2>6, <3>1, ChosenOfPicked
    <3> QED BY <3>2, <3>3 DEF L
  <2>11. ASSUME NEW x, k \notin EndingAt(m, x, es) PROVE Ending(m, x, t) = Ending(m, x, es)
    <3>1. EndingAt(m, x, es) \ {k} = EndingAt(m, x, es)
      BY <2>11
    <3>2. Ending(m, x, es) = Chosen(es, EndingAt(m, x, es))
      BY DEF Ending, EndingAt
    <3> QED BY <2>10, <3>1, <3>2
  <2>12. ASSUME NEW x \in Searched(m) \ {name} PROVE Ending(m, x, t) = Ending(m, x, es)
    <3>1. k \notin EndingAt(m, x, es)
      BY <1>0, <2>1, EndingsDiffer DEF EndingAt
    <3> QED BY <2>11, <3>1
  <2>13. AllButFirst(Ending(m, name, es), Ending(m, name, t))
    <3>1. CASE Keeps(m, es[k])
      <4>1. Ending(m, name, t) = Tail(Ending(m, name, es))
        BY <2>3, <2>10, <3>1
      <4> QED BY <4>1 DEF AllButFirst
    <3>2. CASE ~Keeps(m, es[k])
      <4>1. k \notin EndingAt(m, name, es)
        BY <3>2 DEF EndingAt
      <4>2. Ending(m, name, t) = Ending(m, name, es)
        BY <2>11, <4>1
      <4> QED BY <4>2 DEF AllButFirst
    <3> QED BY <3>1, <3>2
  <2> QED BY <2>9, <2>12, <2>13 DEF SameButFor, t, m
<1> QED BY <1>1, <1>2

\* Files of the same names are kept alike,
LEMMA SameIndices ==
    ASSUME NEW es, GoodEntries(es), NEW t, SameNames(t, es), NEW m
    PROVE  /\ OthersAt(m, t) = OthersAt(m, es)
           /\ \A name : EndingAt(m, name, t) = EndingAt(m, name, es)
<1>1. DOMAIN es = 1 .. Len(es) /\ DOMAIN t = DOMAIN es /\ \A i \in 1 .. Len(es) : t[i].name = es[i].name
  BY GoodIndex DEF SameNames
<1>2. \A i \in 1 .. Len(es) : /\ Keeps(m, t[i]) <=> Keeps(m, es[i])
                              /\ EndsIn(t[i], Searched(m)) <=> EndsIn(es[i], Searched(m))
  BY <1>1, KeptByName
<1>3. OthersAt(m, t) = OthersAt(m, es)
  BY <1>1, <1>2 DEF OthersAt
<1>4. ASSUME NEW name PROVE EndingAt(m, name, t) = EndingAt(m, name, es)
  BY <1>1, <1>2 DEF EndingAt
<1> QED BY <1>3, <1>4

\* and are the same if none of them is edited.
LEMMA ChosenSame ==
    ASSUME NEW es, GoodEntries(es), NEW t, GoodEntries(t), SameNames(t, es), NEW L,
           \A i \in 1 .. Len(es) : i \in L => t[i] = es[i]
    PROVE  Chosen(t, L) = Chosen(es, L)
<1>1. Len(es) \in Nat /\ Len(t) = Len(es)
  BY GoodIndex DEF SameNames
<1>2. ChosenUpto(t, L)[Len(es)] = ChosenUpto(es, L)[Len(es)]
  BY <1>1, ChosenAgree
<1> QED BY <1>1, <1>2 DEF Chosen

\* The fstabs are not among what surgical removal keeps.
LEMMA FstabsKept ==
    ASSUME NEW es, GoodEntries(es)
    PROVE  SameButFor({}, "surgical", es, CleanFstabs(es))
<1> DEFINE m == "surgical"
           t == CleanFstabs(es)
<1>1. /\ GoodEntries(t) /\ SameNames(t, es)
      /\ \A i \in 1 .. Len(es) : ~IsFstab(es[i]) => t[i] = es[i]
  BY CleanFstabsLeaves
<1> HIDE DEF t
<1>2. DOMAIN es = 1 .. Len(es)
  BY GoodIndex
<1>3. \A i \in 1 .. Len(es) : Keeps(m, es[i]) => t[i] = es[i]
  BY <1>1 DEF Keeps
<1> HIDE DEF m
<1>4. Others(m, t) = Others(m, es)
  <2>1. \A i \in 1 .. Len(es) : i \in OthersAt(m, es) => t[i] = es[i]
    BY <1>2, <1>3 DEF OthersAt
  <2>2. Chosen(t, OthersAt(m, es)) = Chosen(es, OthersAt(m, es))
    BY <1>1, <2>1, ChosenSame
  <2>3. OthersAt(m, t) = OthersAt(m, es)
    BY <1>1, SameIndices
  <2>4. Others(m, es) = Chosen(es, OthersAt(m, es)) /\ Others(m, t) = Chosen(t, OthersAt(m, t))
    BY DEF Others, OthersAt
  <2> QED BY <2>2, <2>3, <2>4
<1>5. ASSUME NEW name PROVE Ending(m, name, t) = Ending(m, name, es)
  <2>1. \A i \in 1 .. Len(es) : i \in EndingAt(m, name, es) => t[i] = es[i]
    BY <1>2, <1>3 DEF EndingAt
  <2>2. Chosen(t, EndingAt(m, name, es)) = Chosen(es, EndingAt(m, name, es))
    BY <1>1, <2>1, ChosenSame
  <2>3. EndingAt(m, name, t) = EndingAt(m, name, es)
    BY <1>1, SameIndices
  <2>4. /\ Ending(m, name, es) = Chosen(es, EndingAt(m, name, es))
        /\ Ending(m, name, t) = Chosen(t, EndingAt(m, name, t))
    BY DEF Ending, EndingAt
  <2> QED BY <2>2, <2>3, <2>4
<1> QED BY <1>4, <1>5 DEF SameButFor, t, m

\* Where the first file of an ending gets other data, no other kept file changes.
FirstReplaced(m, name, es, t, k) ==
    /\ SameButFor({name}, m, es, t)
    /\ AllButFirst(Ending(m, name, es), Ending(m, name, t))
    /\ Keeps(m, es[k]) =>
          /\ Ending(m, name, es) # <<>> /\ Ending(m, name, es)[1] = es[k]
          /\ t[k] = es[k] => Ending(m, name, t) = Ending(m, name, es)
    /\ ~Keeps(m, es[k]) => Ending(m, name, t) = Ending(m, name, es)
LEMMA DataReplaced ==
    ASSUME NEW m \in {"init", "surgical"}, NEW name \in Searched(m),
           NEW es, GoodEntries(es), NEW t, GoodEntries(t), SameNames(t, es),
           HasEntry(es, name), NEW k, k = EntryIndex(es, name),
           \A i \in 1 .. Len(es) : i # k => t[i] = es[i]
    PROVE  FirstReplaced(m, name, es, t, k)
<1>1. k \in 1 .. Len(es) /\ IsSuffix(name, es[k].name)
  BY IndexOfEntry
<1>2. DOMAIN es = 1 .. Len(es)
  BY GoodIndex
<1>3. Searched(m) \subseteq OutsideNames \cup {InitRc, <<"init">>}
  BY DEF Searched
<1>4. /\ OthersAt(m, t) = OthersAt(m, es)
      /\ \A x : EndingAt(m, x, t) = EndingAt(m, x, es)
  BY SameIndices
<1>5. /\ Others(m, es) = Chosen(es, OthersAt(m, es)) /\ Others(m, t) = Chosen(t, OthersAt(m, t))
      /\ \A x : Ending(m, x, es) = Chosen(es, EndingAt(m, x, es))
      /\ \A x : Ending(m, x, t) = Chosen(t, EndingAt(m, x, t))
  BY DEF Others, OthersAt, Ending, EndingAt
<1>6. ASSUME NEW L, k \notin L PROVE Chosen(t, L) = Chosen(es, L)
  BY <1>6, ChosenSame
<1>7. Others(m, t) = Others(m, es)
  <2>1. k \notin OthersAt(m, es)
    BY <1>1 DEF OthersAt, EndsIn
  <2> QED BY <1>4, <1>5, <1>6, <2>1
<1>8. ASSUME NEW x \in Searched(m) \ {name} PROVE Ending(m, x, t) = Ending(m, x, es)
  <2>1. k \notin EndingAt(m, x, es)
    BY <1>1, <1>3, EndingsDiffer DEF EndingAt
  <2> QED BY <1>4, <1>5, <1>6, <2>1
<1>9. ~Keeps(m, es[k]) => Ending(m, name, t) = Ending(m, name, es)
  <2> HAVE ~Keeps(m, es[k])
  <2>1. k \notin EndingAt(m, name, es)
    BY DEF EndingAt
  <2> QED BY <1>4, <1>5, <1>6, <2>1
<1>10. ASSUME Keeps(m, es[k])
       PROVE  /\ Ending(m, name, es) # <<>> /\ Ending(m, name, es)[1] = es[k]
              /\ Ending(m, name, t) # <<>> /\ Tail(Ending(m, name, t)) = Tail(Ending(m, name, es))
              /\ t[k] = es[k] => Ending(m, name, t) = Ending(m, name, es)
  <2> DEFINE L == EndingAt(m, name, es)
  <2>1. /\ k \in L /\ \A j \in 1 .. k - 1 : j \notin L
        /\ Ending(m, name, es) # <<>> /\ Ending(m, name, es)[1] = es[k]
        /\ Chosen(es, L \ {k}) = Tail(Ending(m, name, es))
    <3>1. IsFirstOf(m, name, es, k)
      BY <1>10, FirstOfEnding
    <3> QED BY <3>1 DEF IsFirstOf
  <2> HIDE DEF L
  <2>2. PICK T : t \in Seq(T)
    BY DEF GoodEntries
  <2>3. k \in 1 .. Len(t)
    BY <1>1 DEF SameNames
  <2>4. Chosen(t, L) # <<>> /\ Chosen(t, L \ {k}) = Tail(Chosen(t, L))
    BY <2>1, <2>2, <2>3, ChosenTail
  <2>5. Chosen(t, L \ {k}) = Chosen(es, L \ {k})
    BY <1>6
  <2>6. Ending(m, name, t) = Chosen(t, L)
    BY <1>4, <1>5 DEF L
  <2>7. t[k] = es[k] => Ending(m, name, t) = Ending(m, name, es)
    <3> HAVE t[k] = es[k]
    <3>1. \A i \in 1 .. Len(es) : i \in L => t[i] = es[i]
      OBVIOUS
    <3>2. Chosen(t, L) = Chosen(es, L)
      BY <3>1, ChosenSame
    <3> QED BY <1>5, <2>6, <3>2 DEF L
  <2> QED BY <2>1, <2>4, <2>5, <2>6, <2>7
<1>11. AllButFirst(Ending(m, name, es), Ending(m, name, t))
  <2>1. CASE Keeps(m, es[k])
    BY <1>10, <2>1 DEF AllButFirst
  <2>2. CASE ~Keeps(m, es[k])
    BY <1>9, <2>2 DEF AllButFirst
  <2> QED BY <2>1, <2>2
<1> QED BY <1>7, <1>8, <1>9, <1>10, <1>11 DEF SameButFor, FirstReplaced

\* Surgical removal: of each ending at most the first kept file is lost, and an init.rc
\* that is a text without Magisk's lines stays as it is.
SurgicallyKept(es, r) ==
    /\ Others("surgical", r) = Others("surgical", es)
    /\ \A name \in Searched("surgical") :
          AllButFirst(Ending("surgical", name, es), Ending("surgical", name, r))
    /\ LET was == Ending("surgical", InitRc, es) IN
       was # <<>> /\ ~IsInjected(was[1]) => Ending("surgical", InitRc, r) = was
LEMMA SurgicalRemovalKeeps ==
    ASSUME NEW es, GoodEntries(es), \A i \in DOMAIN es : InitRcIsText(es[i])
    PROVE  SurgicallyKept(es, SurgicalRemoval(es))
<1> DEFINE m == "surgical"
           z == RemoveDirectory(es, Overlay)
           a == RemoveDirectory(z, BackupDir)
           b == RemoveEntry(a, FullBackup)
           c == RemoveEntry(b, MagiskRc)
           d == RemoveEntry(c, Policy)
           f == CleanFstabs(d)
           r == SurgicalRemoval(es)
           k == EntryIndex(f, InitRc)
<1>1. r = CleanInitRc(f)
  BY DEF SurgicalRemoval
<1>2. /\ FullBackup \in OutsideNames /\ MagiskRc \in OutsideNames /\ Policy \in OutsideNames
      /\ FullBackup # MagiskRc /\ FullBackup # Policy /\ MagiskRc # Policy
      /\ InitRc \notin OutsideNames /\ Searched(m) = OutsideNames \cup {InitRc}
      /\ OutsideNames = {FullBackup, MagiskRc, Policy}
  BY DEF OutsideNames, Searched, FullBackup, MagiskRc, Policy, InitRc
<1> HIDE DEF r, m
<1>3. GoodEntries(z) /\ Within(z, es) /\ SameButFor({}, m, es, z)
  BY RemoveDirectoryLeaves, DirectoryKept
<1> HIDE DEF z
<1>4. GoodEntries(a) /\ Within(a, z) /\ SameButFor({}, m, z, a)
  BY <1>3, RemoveDirectoryLeaves, DirectoryKept
<1> HIDE DEF a
<1>5. /\ GoodEntries(b) /\ Within(b, a) /\ SameButFor({FullBackup}, m, a, b)
      /\ AllButFirst(Ending(m, FullBackup, a), Ending(m, FullBackup, b))
  BY <1>2, <1>4, RemoveEntryLeaves, EntryRemoved DEF m
<1> HIDE DEF b
<1>6. /\ GoodEntries(c) /\ Within(c, b) /\ SameButFor({MagiskRc}, m, b, c)
      /\ AllButFirst(Ending(m, MagiskRc, b), Ending(m, MagiskRc, c))
  BY <1>2, <1>5, RemoveEntryLeaves, EntryRemoved DEF m
<1> HIDE DEF c
<1>7. /\ GoodEntries(d) /\ Within(d, c) /\ SameButFor({Policy}, m, c, d)
      /\ AllButFirst(Ending(m, Policy, c), Ending(m, Policy, d))
  BY <1>2, <1>6, RemoveEntryLeaves, EntryRemoved DEF m
<1> HIDE DEF d
<1>8. GoodEntries(f) /\ SameNames(f, d) /\ SameButFor({}, m, d, f)
      /\ \A i \in 1 .. Len(d) : ~IsFstab(d[i]) => f[i] = d[i]
  BY <1>7, CleanFstabsLeaves, FstabsKept DEF m
<1> HIDE DEF f
<1>9. /\ GoodEntries(r) /\ SameNames(r, f)
      /\ \A i \in 1 .. Len(f) : ~HasEntry(f, InitRc) \/ i # k => r[i] = f[i]
      /\ HasEntry(f, InitRc) /\ "magisk" \notin ToSet(Lines(f[k].data, "rc")) =>
            r[k].data = RcBlob(Lines(f[k].data, "rc"))
  BY <1>1, <1>8, CleanInitRcLeaves
<1> HIDE DEF k
\* Up to the init.rc.
<1>10. /\ Others(m, f) = Others(m, es)
       /\ Ending(m, InitRc, f) = Ending(m, InitRc, es)
       /\ AllButFirst(Ending(m, FullBackup, es), Ending(m, FullBackup, f))
       /\ AllButFirst(Ending(m, MagiskRc, es), Ending(m, MagiskRc, f))
       /\ AllButFirst(Ending(m, Policy, es), Ending(m, Policy, f))
  <2>1. SameButFor({}, m, es, a)
    <3>1. SameButFor({} \cup {}, m, es, a)
      BY <1>3, <1>4, SameThenSame
    <3> QED BY <3>1
  <2>2. /\ Others(m, f) = Others(m, es)
        /\ Ending(m, InitRc, f) = Ending(m, InitRc, es)
    BY <1>2, <1>5, <1>6, <1>7, <1>8, <2>1 DEF SameButFor
  <2>3. /\ Ending(m, FullBackup, a) = Ending(m, FullBackup, es)
        /\ Ending(m, FullBackup, f) = Ending(m, FullBackup, b)
    BY <1>2, <1>6, <1>7, <1>8, <2>1 DEF SameButFor
  <2>4. /\ Ending(m, MagiskRc, b) = Ending(m, MagiskRc, es)
        /\ Ending(m, MagiskRc, f) = Ending(m, MagiskRc, c)
    BY <1>2, <1>5, <1>7, <1>8, <2>1 DEF SameButFor
  <2>5. /\ Ending(m, Policy, c) = Ending(m, Policy, es)
        /\ Ending(m, Policy, f) = Ending(m, Policy, d)
    BY <1>2, <1>5, <1>6, <1>8, <2>1 DEF SameButFor
  <2> QED BY <1>5, <1>6, <1>7, <2>2, <2>3, <2>4, <2>5
<1>11. /\ SameButFor({InitRc}, m, f, r)
       /\ AllButFirst(Ending(m, InitRc, f), Ending(m, InitRc, r))
       /\ LET was == Ending(m, InitRc, f) IN
          was # <<>> /\ ~IsInjected(was[1]) => Ending(m, InitRc, r) = was
  <2>1. CASE ~HasEntry(f, InitRc)
    <3>1. r = f
      BY <1>1, <2>1 DEF CleanInitRc
    <3> QED BY <3>1 DEF SameButFor, AllButFirst
  <2>2. CASE HasEntry(f, InitRc)
    <3>1. /\ k = EntryIndex(f, InitRc) /\ k \in 1 .. Len(f) /\ IsSuffix(InitRc, f[k].name)
          /\ m \in {"init", "surgical"} /\ InitRc \in Searched(m)
      BY <1>2, <1>8, <2>2, IndexOfEntry DEF k, m
    <3>2. FirstReplaced(m, InitRc, f, r, k)
      <4>1. \A i \in 1 .. Len(f) : i # k => r[i] = f[i]
        BY <1>8, <1>9, <2>2, GoodIndex
      <4>2. GoodEntries(f) /\ GoodEntries(r) /\ SameNames(r, f)
        BY <1>8, <1>9
      <4> HIDE DEF k, m
      <4> QED BY <2>2, <3>1, <4>1, <4>2, DataReplaced
    <3>3. ASSUME Keeps(m, f[k]), ~IsInjected(f[k]) PROVE r[k] = f[k]
      <4>1. "magisk" \notin ToSet(Lines(f[k].data, "rc"))
        BY <3>1, <3>3 DEF IsInjected
      <4>2. r[k].data = RcBlob(Lines(f[k].data, "rc"))
        BY <1>9, <2>2, <4>1
      <4>3. ~IsFstab(f[k])
        BY <3>3 DEF Keeps, m
      <4>4. InitRcIsText(f[k])
        <5>1. Len(f) = Len(d) /\ k \in 1 .. Len(d) /\ f[k].name = d[k].name
          BY <1>8, <3>1 DEF SameNames
        <5>2. f[k] = d[k]
          BY <1>8, <4>3, <5>1, ArtifactByName
        <5>3. PICK k3 \in 1 .. Len(c) : d[k] = c[k3]
          BY <1>7, <5>1, WithinEntry
        <5>4. PICK k2 \in 1 .. Len(b) : c[k3] = b[k2]
          BY <1>6, WithinEntry
        <5>5. PICK k1 \in 1 .. Len(a) : b[k2] = a[k1]
          BY <1>5, WithinEntry
        <5>6. PICK k0 \in 1 .. Len(z) : a[k1] = z[k0]
          BY <1>4, WithinEntry
        <5>7. PICK n \in 1 .. Len(es) : z[k0] = es[n]
          BY <1>3, WithinEntry
        <5>8. DOMAIN es = 1 .. Len(es)
          BY GoodIndex
        <5> QED BY <5>2, <5>3, <5>4, <5>5, <5>6, <5>7, <5>8
      <4>5. f[k].data = RcBlob(Lines(f[k].data, "rc"))
        BY <3>1, <4>3, <4>4 DEF InitRcIsText
      <4>6. /\ r[k] = [name |-> r[k].name, data |-> r[k].data]
            /\ f[k] = [name |-> f[k].name, data |-> f[k].data]
            /\ r[k].name = f[k].name
        BY <1>8, <1>9, <3>1, GoodIndex DEF GoodEntry, SameNames
      <4> QED BY <4>2, <4>5, <4>6
    <3> QED BY <3>2, <3>3 DEF FirstReplaced
  <2> QED BY <2>1, <2>2
<1>12. ASSUME NEW name \in Searched(m)
       PROVE  AllButFirst(Ending(m, name, es), Ending(m, name, r))
  <2>1. name # InitRc => Ending(m, name, r) = Ending(m, name, f)
    BY <1>11 DEF SameButFor
  <2>2. name \in {FullBackup, MagiskRc, Policy, InitRc}
    BY <1>2
  <2> QED BY <1>2, <1>10, <1>11, <2>1, <2>2
<1>13. Others(m, r) = Others(m, es)
  BY <1>10, <1>11 DEF SameButFor
<1> QED BY <1>10, <1>11, <1>12, <1>13 DEF SurgicallyKept, r, m

-----------------------------------------------------------------------------
(* What is left of Magisk.                                                   *)

\* Surgical removal leaves an artifact only if another file ended in its name, nothing
\* injected but in an init.rc that is not the first, and texts and saved ramdisks as
\* they were.
SurgicallyRemoved(es, r) ==
    \A i \in 1 .. Len(r) :
        /\ IsArtifact(r[i]) => \E name \in OutsideNames : IsSuffix(name, r[i].name)
        /\ \A name \in OutsideNames : IsSuffix(name, r[i].name) => ~AtMostOnce(es, name)
        /\ IsSuffix(InitRc, r[i].name) /\ IsInjected(r[i]) => InjectedFurther(es)
        /\ InitRcIsText(r[i])
        /\ IsSuffix(FullBackup, r[i].name) => \E n \in 1 .. Len(es) : r[i] = es[n]
LEMMA SurgicalRemovalRemoves ==
    ASSUME NEW es, GoodEntries(es), ArtifactsPlaced(es), RamdiskSaved(es),
           \A i \in DOMAIN es : InitRcIsText(es[i])
    PROVE  SurgicallyRemoved(es, SurgicalRemoval(es))
<1> DEFINE c == Cleared(es)
           d == CleanFstabs(c)
           r == SurgicalRemoval(es)
           k == EntryIndex(d, InitRc)
<1>1. /\ GoodEntries(c) /\ Within(c, es)
      /\ \A i \in 1 .. Len(c) : \A name \in OutsideNames :
            IsSuffix(name, c[i].name) => ~AtMostOnce(es, name)
      /\ \A i \in 1 .. Len(c) :
            IsArtifact(c[i]) => \E name \in OutsideNames : IsSuffix(name, c[i].name)
  BY ClearedLeaves
<1>2. /\ GoodEntries(d) /\ SameNames(d, c)
      /\ \A i \in 1 .. Len(c) :
            IF IsFstab(c[i]) THEN Lines(d[i].data, "rc") = <<>> ELSE d[i] = c[i]
  BY <1>1, CleanFstabsLeaves
<1>3. r = CleanInitRc(d)
  BY DEF SurgicalRemoval, Cleared
<1> HIDE DEF c, d, r
<1>4. /\ GoodEntries(r) /\ SameNames(r, d)
      /\ \A i \in 1 .. Len(d) : ~HasEntry(d, InitRc) \/ i # k => r[i] = d[i]
      /\ HasEntry(d, InitRc) =>
            /\ "magisk" \notin ToSet(Lines(r[k].data, "rc"))
            /\ r[k].data = RcBlob(Lines(r[k].data, "rc"))
  BY <1>2, <1>3, CleanInitRcLeaves
<1>5. HasEntry(d, InitRc) =>
         /\ k \in 1 .. Len(d) /\ IsSuffix(InitRc, d[k].name)
         /\ \A j \in 1 .. k - 1 : ~IsSuffix(InitRc, d[j].name)
  BY <1>2, IndexOfEntry
<1> HIDE DEF k
<1>6. /\ Len(c) \in Nat /\ Len(d) = Len(c) /\ Len(r) = Len(c)
      /\ DOMAIN c = 1 .. Len(c) /\ DOMAIN d = 1 .. Len(c) /\ DOMAIN r = 1 .. Len(c)
      /\ DOMAIN es = 1 .. Len(es) /\ Len(es) \in Nat
      /\ \A i \in 1 .. Len(c) : d[i].name = c[i].name /\ r[i].name = c[i].name
  BY <1>1, <1>2, <1>4, GoodIndex DEF SameNames
<1>7. \A i \in 1 .. Len(r) : IsArtifact(r[i]) => \E name \in OutsideNames : IsSuffix(name, r[i].name)
  <2> TAKE i \in 1 .. Len(r)
  <2>1. i \in 1 .. Len(c) /\ r[i].name = c[i].name
    BY <1>6
  <2>2. IsArtifact(r[i]) <=> IsArtifact(c[i])
    BY <2>1, ArtifactByName
  <2> QED BY <1>1, <2>1, <2>2
<1>8. \A i \in 1 .. Len(r) : \A name \in OutsideNames :
         IsSuffix(name, r[i].name) => ~AtMostOnce(es, name)
  BY <1>1, <1>6
<1>9. \A i \in 1 .. Len(c) : \E n \in 1 .. Len(es) : c[i] = es[n]
  BY <1>1, WithinEntry
<1>10. \A i \in 1 .. Len(c) : InitRcIsText(c[i])
  BY <1>6, <1>9
<1>11. \A i \in 1 .. Len(c) : IsFstab(r[i]) <=> IsFstab(c[i])
  BY <1>6, ArtifactByName
<1>12. \A i \in 1 .. Len(r) : InitRcIsText(r[i])
  <2> SUFFICES ASSUME NEW i \in 1 .. Len(c), IsSuffix(InitRc, r[i].name), ~IsFstab(r[i])
               PROVE  r[i].data = RcBlob(Lines(r[i].data, "rc"))
    BY <1>6 DEF InitRcIsText
  <2>1. d[i] = c[i] /\ c[i].name = r[i].name /\ ~IsFstab(c[i])
    BY <1>2, <1>6, <1>11
  <2>2. HasEntry(d, InitRc)
    BY <1>6 DEF HasEntry
  <2>3. CASE i = k
    BY <1>4, <2>2, <2>3
  <2>4. CASE i # k
    BY <1>4, <1>6, <1>10, <2>1, <2>4 DEF InitRcIsText
  <2> QED BY <2>3, <2>4
<1>13. ASSUME NEW i \in 1 .. Len(r), IsSuffix(FullBackup, r[i].name)
       PROVE  \E n \in 1 .. Len(es) : r[i] = es[n]
  <2>1. PICK n \in 1 .. Len(es) : c[i] = es[n]
    BY <1>6, <1>9
  <2>2. ~IsFstab(c[i])
    BY <1>6, <1>13, <2>1 DEF RamdiskSaved
  <2>3. d[i] = c[i]
    BY <1>2, <1>6, <2>2
  <2>4. ~HasEntry(d, InitRc) \/ i # k
    <3> SUFFICES ASSUME HasEntry(d, InitRc), i = k PROVE FALSE
      OBVIOUS
    <3>1. IsSuffix(InitRc, r[i].name)
      BY <1>5, <1>6
    <3>2. FullBackup = InitRc
      BY <1>13, <3>1, EndingsDiffer DEF OutsideNames
    <3>3. FullBackup # InitRc
      BY DEF FullBackup, InitRc
    <3> QED BY <3>2, <3>3
  <2>5. r[i] = d[i]
    BY <1>4, <1>6, <2>4
  <2> QED BY <2>1, <2>3, <2>5
<1>14. ASSUME NEW i \in 1 .. Len(r), IsSuffix(InitRc, r[i].name), IsInjected(r[i])
       PROVE  InjectedFurther(es)
  <2>2. "magisk" \in ToSet(Lines(r[i].data, "rc"))
    BY <1>14 DEF IsInjected
  <2>3. HasEntry(d, InitRc)
    BY <1>6, <1>14 DEF HasEntry
  <2>4. i # k
    BY <1>4, <2>2, <2>3
  <2>5. r[i] = d[i]
    BY <1>4, <1>6, <2>4
  <2>6. ~IsFstab(c[i])
    <3>1. "magisk" \notin ToSet(<<>>)
      BY DEF ToSet
    <3> QED BY <1>2, <1>6, <2>2, <2>5, <3>1
  <2>7. r[i] = c[i]
    BY <1>2, <1>6, <2>5, <2>6
  <2>8. k \in 1 .. Len(c) /\ k < i /\ IsSuffix(InitRc, c[k].name)
    BY <1>5, <1>6, <1>14, <2>3, <2>4, <2>5
  <2>9. PICK f \in [1 .. Len(c) -> 1 .. Len(es)] :
            /\ \A m, j \in 1 .. Len(c) : m < j => f[m] < f[j]
            /\ \A m \in 1 .. Len(c) : c[m] = es[f[m]]
    BY <1>1 DEF Within
  <2>10. /\ f[k] \in 1 .. Len(es) /\ f[i] \in 1 .. Len(es) /\ f[k] < f[i]
         /\ c[k] = es[f[k]] /\ c[i] = es[f[i]]
    BY <1>6, <2>8, <2>9
  <2>11. HasEntry(es, InitRc)
    BY <1>6, <2>8, <2>10 DEF HasEntry
  <2>12. /\ EntryIndex(es, InitRc) \in 1 .. Len(es)
         /\ \A j \in 1 .. EntryIndex(es, InitRc) - 1 : ~IsSuffix(InitRc, es[j].name)
    BY <2>11, IndexOfEntry
  <2>13. f[i] # EntryIndex(es, InitRc)
    <3> SUFFICES ASSUME f[i] = EntryIndex(es, InitRc) PROVE FALSE
      OBVIOUS
    <3>1. f[k] \in 1 .. EntryIndex(es, InitRc) - 1
      BY <2>10, <2>12
    <3> QED BY <2>8, <2>10, <2>12, <3>1
  <2>14. IsSuffix(InitRc, es[f[i]].name) /\ IsInjected(es[f[i]])
    BY <1>14, <2>7, <2>10
  <2> QED BY <1>6, <2>10, <2>13, <2>14 DEF InjectedFurther
<1> QED BY <1>7, <1>8, <1>12, <1>13, <1>14 DEF SurgicallyRemoved, r

\* The name "init" is no artifact's, and no name that ends in it is one of an init.rc.
LEMMA InitIsPlain ==
    ASSUME NEW e, e.name = <<"init">>
    PROVE  ~IsArtifact(e) /\ ~InMagiskDir(e) /\ IsSuffix(<<"init">>, e.name)
<1> DEFINE n == <<"init">>
<1>1. IsSuffix(n, n)
  BY DEF IsSuffix, IsPrefix
<1>2. \A a : IsSuffix(<<a>>, n) => a = "init"
  BY <1>1, OneEnding
<1>3. \A a, b, c : ~IsSuffix(<<a, b, c>>, n)
  <2> TAKE a, b, c
  <2>1. Len(Reverse(<<a, b, c>>)) = 3 /\ Len(Reverse(n)) = 1
    BY DEF Reverse
  <2> QED BY <2>1 DEF IsSuffix, IsPrefix
<1>4. ~InOverlaySbin(n)
  BY DEF InOverlaySbin
<1>5. \A p \in ArtifactPaths : ~IsSuffix(p, n)
  BY <1>2, <1>3 DEF ArtifactPaths, InitBackup, FullBackup, MagiskRc, Policy
<1>6. ~IsArtifact(e)
  BY <1>4, <1>5 DEF IsArtifact
<1>7. \A a : a # "init" => n # <<a>> /\ ~IsPrefix(<<a>> \o <<"/">>, n)
  <2> TAKE a
  <2>1. Len(<<a>> \o <<"/">>) = 2 /\ Len(n) = 1
    OBVIOUS
  <2>2. ~IsPrefix(<<a>> \o <<"/">>, n)
    BY <2>1 DEF IsPrefix
  <2>3. a # "init" => n # <<a>>
    OBVIOUS
  <2> QED BY <2>2, <2>3
<1>8. ~InMagiskDir(e)
  BY <1>7 DEF InMagiskDir, InDirectory, Overlay, BackupDir
<1> QED BY <1>1, <1>6, <1>8

LEMMA InitIsNoRc ==
    ASSUME NEW e, IsSuffix(<<"init">>, e.name)
    PROVE  ~IsInjected(e)
<1>1. <<"init">> # InitRc /\ <<"init">> # MagiskRc
  BY DEF InitRc, MagiskRc
<1>2. ~IsSuffix(InitRc, e.name) /\ ~IsSuffix(MagiskRc, e.name)
  BY <1>1, EndingsDiffer DEF OutsideNames
<1> QED BY <1>2 DEF IsInjected

\* The first entry of a name is the one that GetEntry finds.
LEMMA FirstIsFound ==
    ASSUME NEW es, GoodEntries(es), NEW name, NEW i \in 1 .. Len(es),
           IsSuffix(name, es[i].name), \A j \in 1 .. i - 1 : ~IsSuffix(name, es[j].name)
    PROVE  HasEntry(es, name) /\ EntryIndex(es, name) = i
<1>1. Len(es) \in Nat /\ DOMAIN es = 1 .. Len(es)
  BY GoodIndex
<1>2. HasEntry(es, name)
  BY <1>1 DEF HasEntry
<1> DEFINE k == EntryIndex(es, name)
<1>3. /\ k \in 1 .. Len(es) /\ IsSuffix(name, es[k].name)
      /\ \A j \in 1 .. k - 1 : ~IsSuffix(name, es[j].name)
  BY <1>2, IndexOfEntry
<1> HIDE DEF k
<1>4. ~(k < i) /\ ~(i < k)
  <2>1. k < i => k \in 1 .. i - 1
    BY <1>1, <1>3
  <2>2. i < k => i \in 1 .. k - 1
    BY <1>1, <1>3
  <2> QED BY <1>3, <2>1, <2>2
<1>5. k = i
  BY <1>1, <1>3, <1>4
<1> QED BY <1>2, <1>5 DEF k

\* It is still the one when a directory without it has been removed,
LEMMA RemoveDirectoryKeeps ==
    ASSUME NEW es, GoodEntries(es), NEW dir, NEW name, HasEntry(es, name),
           ~InDirectory(es[EntryIndex(es, name)], dir)
    PROVE  LET t == RemoveDirectory(es, dir) IN
           HasEntry(t, name) /\ t[EntryIndex(t, name)] = es[EntryIndex(es, name)]
<1> DEFINE t == RemoveDirectory(es, dir)
           k == EntryIndex(es, name)
           K == {i \in DOMAIN es : ~InDirectory(es[i], dir)}
<1>1. Len(es) \in Nat /\ DOMAIN es = 1 .. Len(es)
  BY GoodIndex
<1>2. /\ k \in 1 .. Len(es) /\ IsSuffix(name, es[k].name)
      /\ \A j \in 1 .. k - 1 : ~IsSuffix(name, es[j].name)
  BY IndexOfEntry
<1>3. PICK S : es \in Seq(S)
  BY DEF GoodEntries
<1>4. t = Chosen(es, K) /\ GoodEntries(t)
  BY ChosenGood DEF RemoveDirectory
<1>5. k \in K
  BY <1>1, <1>2
<1> HIDE DEF t, k, K
<1>6. PICK f : Picks(t, es, K, f)
  BY <1>3, <1>4, ChosenPicks
<1>7. PICK i \in 1 .. Len(t) : f[i] = k
  BY <1>2, <1>5, <1>6 DEF Picks
<1>8. t[i] = es[k]
  BY <1>6, <1>7 DEF Picks
<1>9. \A j \in 1 .. i - 1 : ~IsSuffix(name, t[j].name)
  <2> TAKE j \in 1 .. i - 1
  <2>1. Len(t) \in Nat
    BY <1>4, GoodIndex
  <2>2. j \in 1 .. Len(t) /\ j < i
    BY <1>7, <2>1
  <2>3. f[j] < k /\ f[j] \in 1 .. Len(es) /\ t[j] = es[f[j]]
    BY <1>6, <1>7, <2>2 DEF Picks
  <2>4. f[j] \in 1 .. k - 1
    BY <1>1, <1>2, <2>3
  <2> QED BY <1>2, <2>3, <2>4
<1>10. HasEntry(t, name) /\ EntryIndex(t, name) = i
  BY <1>2, <1>4, <1>7, <1>8, <1>9, FirstIsFound
<1> QED BY <1>8, <1>10 DEF t, k

\* The saved init in the first file whose name ends so, or in a file at the end.
InitPut(es, t, data) ==
    LET n == <<"init">> IN
    /\ Others("init", t) = Others("init", es)
    /\ AllButFirst(Ending("init", n, es), Ending("init", n, t))
    /\ HasEntry(t, n) /\ EntryData(t, n) = data
    /\ InMagiskDir(t[EntryIndex(t, n)]) =>
          HasEntry(es, n) /\ InMagiskDir(es[EntryIndex(es, n)])
    /\ \A i \in 1 .. Len(t) :
          \/ t[i].name = n
          \/ \E q \in 1 .. Len(es) :
                t[i].name = es[q].name /\ (t[i] = es[q] \/ IsSuffix(n, t[i].name))
LEMMA InitReplaced ==
    ASSUME NEW es, GoodEntries(es), NEW data, Good(data)
    PROVE  LET t == ReplaceEntry(es, <<"init">>, data) IN GoodEntries(t) /\ InitPut(es, t, data)
<1> DEFINE n == <<"init">>
           m == "init"
           e == [name |-> n, data |-> data]
           t == ReplaceEntry(es, n, data)
           k == EntryIndex(es, n)
<1>1. /\ Len(es) \in Nat /\ DOMAIN es = 1 .. Len(es)
      /\ \A i \in 1 .. Len(es) : GoodEntry(es[i])
  BY GoodIndex
<1>2. PICK S : es \in Seq(S) /\ \A d \in S : GoodEntry(d)
  BY DEF GoodEntries
<1>3. n \in Searched(m) /\ Searched(m) = {n} /\ m \in {"init", "surgical"}
  BY DEF Searched
<1> HIDE DEF m
<1>4. CASE HasEntry(es, n)
  <2>1. /\ k \in 1 .. Len(es) /\ IsSuffix(n, es[k].name)
        /\ \A j \in 1 .. k - 1 : ~IsSuffix(n, es[j].name)
    BY <1>4, IndexOfEntry
  <2>2. t = [es EXCEPT ![k].data = data]
    BY <1>4 DEF ReplaceEntry
  <2>3. GoodEntries(t)
    <3> HIDE DEF k, n, t
    <3> QED BY <2>1, <2>2, NewDataGood
  <2>4. es[k] = [name |-> es[k].name, data |-> es[k].data]
    BY <1>1, <2>1 DEF GoodEntry
  <2> DEFINE x == k
  <2>5. x = EntryIndex(es, n)
    OBVIOUS
  <2> HIDE DEF t, x, n
  <2>6. /\ DOMAIN t = DOMAIN es /\ \A i \in 1 .. Len(es) : i # x => t[i] = es[i]
        /\ t[x] = [es[x] EXCEPT !.data = data]
    <3> HIDE DEF k
    <3> QED BY <1>1, <2>1, <2>2 DEF x
  <2>7. t[x].name = es[x].name /\ t[x].data = data
    <3> HIDE DEF k
    <3> QED BY <2>4, <2>6 DEF x
  <2>8. Len(t) = Len(es) /\ DOMAIN t = 1 .. Len(es)
    <3>1. Len(t) \in Nat /\ DOMAIN t = 1 .. Len(t)
      BY <2>3, GoodIndex
    <3> QED BY <1>1, <2>6, <3>1
  <2>9. /\ x \in 1 .. Len(es) /\ IsSuffix(n, es[x].name)
        /\ \A j \in 1 .. x - 1 : ~IsSuffix(n, es[j].name)
    BY <2>1 DEF x
  <2> HIDE DEF k
  <2>10. SameNames(t, es)
    BY <2>6, <2>7, <2>8 DEF SameNames
  <2>11. FirstReplaced(m, n, es, t, x)
    BY <1>3, <1>4, <2>3, <2>5, <2>6, <2>10, DataReplaced
  <2>12. HasEntry(t, n) /\ EntryIndex(t, n) = x
    <3>1. \A j \in 1 .. x - 1 : ~IsSuffix(n, t[j].name)
      <4> TAKE j \in 1 .. x - 1
      <4>1. j \in 1 .. Len(es)
        BY <1>1, <2>9
      <4> QED BY <2>9, <2>10, <4>1 DEF SameNames
    <3>2. x \in 1 .. Len(t) /\ IsSuffix(n, t[x].name)
      BY <2>7, <2>8, <2>9
    <3> QED BY <2>3, <3>1, <3>2, FirstIsFound
  <2>13. InMagiskDir(t[x]) <=> InMagiskDir(es[x])
    BY <2>7, ArtifactByName
  <2>14. EntryData(t, n) = data
    BY <2>7, <2>12 DEF EntryData
  <2>15. \A i \in 1 .. Len(t) : \E q \in 1 .. Len(es) :
            t[i].name = es[q].name /\ (t[i] = es[q] \/ IsSuffix(n, t[i].name))
    BY <2>6, <2>7, <2>8, <2>9
  <2>16. Others(m, t) = Others(m, es) /\ AllButFirst(Ending(m, n, es), Ending(m, n, t))
    BY <2>11 DEF FirstReplaced, SameButFor
  <2>17. InitPut(es, t, data)
    BY <1>4, <2>5, <2>12, <2>13, <2>14, <2>15, <2>16 DEF InitPut, n, m
  <2> QED BY <2>3, <2>17 DEF t, n
<1>5. CASE ~HasEntry(es, n)
  <2>1. t = Append(es, e)
    BY <1>5 DEF ReplaceEntry
  <2>2. \A i \in 1 .. Len(es) : ~IsSuffix(n, es[i].name)
    BY <1>1, <1>5 DEF HasEntry
  <2>3. e.name = n /\ e.data = data /\ e = [name |-> e.name, data |-> e.data]
    OBVIOUS
  <2>4. ~InMagiskDir(e) /\ IsSuffix(n, e.name)
    <3> HIDE DEF e
    <3> QED BY <2>3, InitIsPlain
  <2>5. GoodEntry(e)
    <3>1. NameSize(<<"init">>) \in Nat \ {0}
      BY ContentsAssumption
    <3>2. <<"init">> # Trailer.name
      BY DEF Trailer
    <3> HIDE DEF e
    <3> QED BY <2>3, <3>1, <3>2 DEF GoodEntry
  <2> HIDE DEF t, e, n
  <2> DEFINE T == S \cup {e}
             p == Len(es)
             f == [i \in 1 .. p |-> i]
  <2>6. es \in Seq(T) /\ e \in T /\ \A d \in T : GoodEntry(d)
    BY <1>2, <2>5
  <2> HIDE DEF T
  <2>7. t \in Seq(T) /\ Len(t) = p + 1 /\ t[p + 1] = e /\ \A i \in 1 .. p : t[i] = es[i]
    BY <2>1, <2>6
  <2>8. GoodEntries(t)
    BY <2>6, <2>7 DEF GoodEntries
  <2>9. p \in Nat /\ p = Len(es) /\ DOMAIN t = 1 .. p + 1 /\ DOMAIN es = 1 .. p
    BY <1>1, <2>7
  <2>10. Picks(es, t, 1 .. p, f)
    <3>1. f \in [1 .. p -> 1 .. p + 1] /\ \A i \in 1 .. p : f[i] = i
      BY <2>9
    <3> HIDE DEF f, p
    <3> QED BY <2>7, <2>9, <3>1 DEF Picks
  <2>11. \A i \in 1 .. p : f[i] = i
    OBVIOUS
  <2> HIDE DEF f, p
  <2>12. Others(m, t) = Others(m, es)
    <3> DEFINE L == OthersAt(m, t)
               M == OthersAt(m, es)
    <3>1. p + 1 \notin L
      BY <1>3, <2>4, <2>7 DEF OthersAt, EndsIn
    <3>2. \A k1 \in 1 .. Len(t) : k1 \in L => k1 \in 1 .. p
      BY <2>7, <2>9, <3>1
    <3>3. \A i \in 1 .. Len(es) : i \in M <=> f[i] \in L
      BY <2>7, <2>9, <2>11 DEF OthersAt
    <3>4. Others(m, es) = Chosen(es, M) /\ Others(m, t) = Chosen(t, L)
      BY DEF Others, OthersAt
    <3> HIDE DEF L, M
    <3> DEFINE K == 1 .. p
    <3>5. es \in Seq(T) /\ t \in Seq(T) /\ Picks(es, t, K, f)
      BY <2>6, <2>7, <2>10
    <3>6. \A k1 \in 1 .. Len(t) : k1 \in L => k1 \in K
      BY <3>2
    <3> HIDE DEF K
    <3>7. Chosen(es, M) = Chosen(t, L)
      BY <3>3, <3>5, <3>6, ChosenOfPicked
    <3> QED BY <3>4, <3>7
  <2>13. Ending(m, n, es) = <<>>
    <3> DEFINE L == EndingAt(m, n, es)
    <3>1. \A i \in 1 .. Len(es) : i \notin L
      BY <2>2 DEF EndingAt
    <3>2. Ending(m, n, es) = Chosen(es, L)
      BY DEF Ending, EndingAt
    <3> HIDE DEF L
    <3>3. PICK g : Picks(Chosen(es, L), es, L, g)
      BY <1>2, ChosenPicks
    <3>4. Chosen(es, L) \in Seq(S)
      BY <1>2, ChosenIsSeq
    <3>5. Len(Chosen(es, L)) = 0
      <4>1. \A i \in 1 .. Len(Chosen(es, L)) : g[i] \in L /\ g[i] \in 1 .. Len(es)
        BY <3>3 DEF Picks
      <4>2. \A i \in 1 .. Len(Chosen(es, L)) : FALSE
        BY <3>1, <4>1
      <4>3. Len(Chosen(es, L)) \in Nat
        BY <3>4
      <4>4. Len(Chosen(es, L)) # 0 => 1 \in 1 .. Len(Chosen(es, L))
        BY <4>3
      <4> QED BY <4>2, <4>4
    <3>6. Chosen(es, L) = <<>>
      BY <3>4, <3>5
    <3> QED BY <3>2, <3>6
  <2>14. HasEntry(t, n) /\ EntryIndex(t, n) = p + 1
    <3>1. \A j \in 1 .. (p + 1) - 1 : ~IsSuffix(n, t[j].name)
      <4>1. (p + 1) - 1 = p
        BY <2>9
      <4> QED BY <2>2, <2>7, <2>9, <4>1
    <3>2. p + 1 \in 1 .. Len(t)
      BY <2>7, <2>9
    <3> QED BY <2>4, <2>7, <2>8, <3>1, <3>2, FirstIsFound
  <2>15. \A i \in 1 .. Len(t) :
            \/ t[i].name = n
            \/ \E q \in 1 .. Len(es) :
                  t[i].name = es[q].name /\ (t[i] = es[q] \/ IsSuffix(n, t[i].name))
    <3> TAKE i \in 1 .. Len(t)
    <3>1. i \in 1 .. p \/ i = p + 1
      BY <2>7, <2>9
    <3> QED BY <2>3, <2>7, <2>9, <3>1
  <2>16. EntryData(t, n) = data /\ ~InMagiskDir(t[EntryIndex(t, n)])
    BY <2>3, <2>4, <2>7, <2>14 DEF EntryData
  <2>17. AllButFirst(Ending(m, n, es), Ending(m, n, t))
    BY <2>13 DEF AllButFirst
  <2>18. InitPut(es, t, data)
    BY <2>12, <2>14, <2>15, <2>16, <2>17 DEF InitPut, n, m
  <2> QED BY <2>8, <2>18 DEF t, n
<1> QED BY <1>4, <1>5

\* Restoring the saved init leaves nothing of Magisk, loses at most the first file that
\* ends in init, and has that init there, unless it was in a directory of Magisk's.
InitRestored(es, r) ==
    LET n == <<"init">> IN
    /\ \A i \in 1 .. Len(r) : ~IsArtifact(r[i]) /\ ~IsInjected(r[i])
    /\ Others("init", r) = Others("init", es)
    /\ AllButFirst(Ending("init", n, es), Ending("init", n, r))
    /\ \/ HasEntry(es, n) /\ InMagiskDir(es[EntryIndex(es, n)])
       \/ HasEntry(r, n) /\ EntryData(r, n) = Decompress(EntryData(es, InitBackup))
LEMMA RestoreInitRestores ==
    ASSUME NEW es, GoodEntries(es), InitSaved(es),
           HasEntry(es, InitBackup), ~HasEntry(es, FullBackup)
    PROVE  InitRestored(es, RestoreInit(es))
<1> DEFINE n == <<"init">>
           m == "init"
           data == Decompress(EntryData(es, InitBackup))
           a == ReplaceEntry(es, <<"init">>, data)
           b == RemoveDirectory(a, Overlay)
           c == RemoveDirectory(b, BackupDir)
           r == RestoreInit(es)
<1>1. Good(data)
  BY EntryDataGood, GoodDecompress
<1>2. r = RemoveEntry(c, FullBackup)
  BY DEF RestoreInit
<1>3. \A i \in DOMAIN es : IsArtifact(es[i]) \/ IsInjected(es[i]) => InMagiskDir(es[i])
  BY DEF InitSaved
<1>4. GoodEntries(a) /\ InitPut(es, a, data)
  <2> HIDE DEF data
  <2> QED BY <1>1, InitReplaced
<1> HIDE DEF a, r
<1>5. /\ GoodEntries(b) /\ Within(b, a) /\ \A i \in 1 .. Len(b) : ~InDirectory(b[i], Overlay)
      /\ SameButFor({}, m, a, b)
  BY <1>4, RemoveDirectoryLeaves, DirectoryKept
<1>6. /\ GoodEntries(c) /\ Within(c, b) /\ \A i \in 1 .. Len(c) : ~InDirectory(c[i], BackupDir)
      /\ SameButFor({}, m, b, c)
  <2> HIDE DEF b
  <2> QED BY <1>5, RemoveDirectoryLeaves, DirectoryKept
<1>7. n \in Searched(m)
  BY DEF Searched
<1> HIDE DEF n, m, data
<1>8. ~InMagiskDir(a[EntryIndex(a, n)]) => HasEntry(c, n) /\ EntryData(c, n) = data
  <2> HAVE ~InMagiskDir(a[EntryIndex(a, n)])
  <2>1. HasEntry(a, n) /\ a[EntryIndex(a, n)].data = data
    BY <1>4 DEF InitPut, EntryData, n
  <2>2. /\ ~InDirectory(a[EntryIndex(a, n)], Overlay)
        /\ ~InDirectory(a[EntryIndex(a, n)], BackupDir)
    BY DEF InMagiskDir
  <2>3. HasEntry(b, n) /\ b[EntryIndex(b, n)] = a[EntryIndex(a, n)]
    BY <1>4, <2>1, <2>2, RemoveDirectoryKeeps
  <2> HIDE DEF b
  <2>4. HasEntry(c, n) /\ c[EntryIndex(c, n)] = b[EntryIndex(b, n)]
    BY <1>5, <2>2, <2>3, RemoveDirectoryKeeps
  <2> HIDE DEF c
  <2> QED BY <2>1, <2>3, <2>4 DEF EntryData
<1> HIDE DEF b, c
<1>9. DOMAIN es = 1 .. Len(es) /\ DOMAIN c = 1 .. Len(c)
  BY <1>6, GoodIndex
<1>10. \A i \in 1 .. Len(c) : ~IsArtifact(c[i]) /\ ~IsInjected(c[i])
  <2> TAKE i \in 1 .. Len(c)
  <2>1. PICK j \in 1 .. Len(b) : c[i] = b[j]
    BY <1>6, WithinEntry
  <2>2. PICK k \in 1 .. Len(a) : b[j] = a[k]
    BY <1>5, WithinEntry
  <2>3. ~InMagiskDir(c[i])
    BY <1>5, <1>6, <2>1 DEF InMagiskDir
  <2>4. \/ c[i].name = n
        \/ \E q \in 1 .. Len(es) :
              c[i].name = es[q].name /\ (c[i] = es[q] \/ IsSuffix(n, c[i].name))
    BY <1>4, <2>1, <2>2 DEF InitPut, n
  <2>5. CASE c[i].name = n
    BY <2>5, InitIsPlain, InitIsNoRc DEF n
  <2>6. ASSUME NEW q \in 1 .. Len(es), c[i].name = es[q].name,
               c[i] = es[q] \/ IsSuffix(n, c[i].name)
        PROVE  ~IsArtifact(c[i]) /\ ~IsInjected(c[i])
    <3>1. /\ IsArtifact(c[i]) <=> IsArtifact(es[q])
          /\ InMagiskDir(c[i]) <=> InMagiskDir(es[q])
      BY <2>6, ArtifactByName
    <3>2. ~IsArtifact(es[q]) /\ ~IsInjected(es[q])
      BY <1>3, <1>9, <2>3, <3>1
    <3>3. IsSuffix(n, c[i].name) => ~IsInjected(c[i])
      BY InitIsNoRc DEF n
    <3> QED BY <2>6, <3>1, <3>2, <3>3
  <2> QED BY <2>4, <2>5, <2>6
<1>11. ~HasEntry(c, FullBackup)
  BY <1>9, <1>10, OutsideIsArtifact DEF HasEntry, OutsideNames
<1>12. r = c
  BY <1>2, <1>11 DEF RemoveEntry
<1>13. Others(m, c) = Others(m, a) /\ Ending(m, n, c) = Ending(m, n, a)
  BY <1>5, <1>6, <1>7 DEF SameButFor
<1>14. Others(m, c) = Others(m, es) /\ AllButFirst(Ending(m, n, es), Ending(m, n, c))
  BY <1>4, <1>13 DEF InitPut, m, n
<1>15. \/ HasEntry(es, n) /\ InMagiskDir(es[EntryIndex(es, n)])
       \/ HasEntry(c, n) /\ EntryData(c, n) = data
  BY <1>4, <1>8 DEF InitPut, n
<1> QED BY <1>10, <1>12, <1>14, <1>15 DEF InitRestored, r, n, m, data

-----------------------------------------------------------------------------
(* What comes out of a run, and may go into the next.                        *)

\* What the steps up to the repacking make of the entries, by each method.
Restored(es, m, r) ==
    \/ m = "full" /\ HasEntry(es, FullBackup) /\ Parse(EntryData(es, FullBackup)) = Read(r)
    \/ /\ m = "init" /\ HasEntry(es, InitBackup) /\ ~HasEntry(es, FullBackup)
       /\ r = RestoreInit(es)
    \/ m = "surgical" /\ r = SurgicalRemoval(es)

\* Whatever is left of Magisk, the surgical removal has left it in an init.rc that is
\* not the first or in a file with another's name, and it is as known as it was before.
LEMMA RestoredIsKnown ==
    ASSUME NEW es, GoodEntries(es), PatchedAsKnown(es), NEW m, NEW r, GoodEntries(r),
           Restored(es, m, r), IsMagiskInstalled(r)
    PROVE  /\ m = "surgical" /\ PatchedAsKnown(r)
           /\ InjectedFurther(es) \/ \E name \in OutsideNames : ~AtMostOnce(es, name)
<1>1. DOMAIN r = 1 .. Len(r) /\ DOMAIN es = 1 .. Len(es)
  BY GoodIndex
<1>2. PICK i \in 1 .. Len(r) : IsArtifact(r[i]) \/ IsInjected(r[i])
  BY <1>1 DEF IsMagiskInstalled, ToSet
<1>3. m # "full"
  <2> SUFFICES ASSUME m = "full" PROVE FALSE
    OBVIOUS
  <2>1. HasEntry(es, FullBackup) /\ Parse(EntryData(es, FullBackup)) = Read(r)
    BY DEF Restored
  <2>2. ~IsMagiskInstalled(Read(r).entries)
    <3>1. /\ EntryIndex(es, FullBackup) \in DOMAIN es
          /\ IsSuffix(FullBackup, es[EntryIndex(es, FullBackup)].name)
      BY <1>1, <2>1, IndexOfEntry
    <3> QED BY <2>1, <3>1 DEF PatchedAsKnown, RamdiskSaved, EntryData, Read
  <2> QED BY <2>2 DEF Read
<1>4. m # "init"
  <2> SUFFICES ASSUME m = "init" PROVE FALSE
    OBVIOUS
  <2>1. HasEntry(es, InitBackup) /\ ~HasEntry(es, FullBackup) /\ r = RestoreInit(es)
    BY DEF Restored
  <2>2. InitRestored(es, r)
    BY <2>1, RestoreInitRestores DEF PatchedAsKnown
  <2> QED BY <1>2, <2>2 DEF InitRestored
<1>5. m = "surgical" /\ r = SurgicalRemoval(es)
  BY <1>3, <1>4 DEF Restored
<1>6. SurgicallyRemoved(es, r)
  BY <1>5, SurgicalRemovalRemoves DEF PatchedAsKnown
<1>7. InjectedFurther(es) \/ \E name \in OutsideNames : ~AtMostOnce(es, name)
  <2>1. CASE IsArtifact(r[i])
    BY <1>6, <2>1 DEF SurgicallyRemoved
  <2>2. CASE IsInjected(r[i])
    <3>1. IsSuffix(InitRc, r[i].name) \/ IsSuffix(MagiskRc, r[i].name)
      BY <2>2 DEF IsInjected
    <3>2. MagiskRc \in OutsideNames
      BY DEF OutsideNames
    <3> QED BY <1>6, <2>2, <3>1, <3>2 DEF SurgicallyRemoved
  <2> QED BY <1>2, <2>1, <2>2
<1>8. ArtifactsPlaced(r)
  BY <1>1, <1>6 DEF ArtifactsPlaced, SurgicallyRemoved
<1>9. InitSaved(r)
  <2>1. ASSUME NEW j \in 1 .. Len(r), IsSuffix(InitBackup, r[j].name) PROVE FALSE
    <3>1. IsArtifact(r[j])
      BY <2>1 DEF IsArtifact, ArtifactPaths
    <3>2. PICK name \in OutsideNames : IsSuffix(name, r[j].name)
      BY <1>6, <3>1 DEF SurgicallyRemoved
    <3> QED BY <2>1, <3>2, SavedInitEnding
  <2>2. ~HasEntry(r, InitBackup)
    BY <1>1, <2>1 DEF HasEntry
  <2> QED BY <2>2 DEF InitSaved
<1>10. RamdiskSaved(r)
  <2>1. \A j \in 1 .. Len(r) : IsSuffix(FullBackup, r[j].name) => \E n \in DOMAIN es : r[j] = es[n]
    BY <1>1, <1>6 DEF SurgicallyRemoved
  <2>2. RamdiskSaved(es)
    BY DEF PatchedAsKnown
  <2> QED BY <1>1, <2>1, <2>2 DEF RamdiskSaved
<1>11. \A j \in DOMAIN r : InitRcIsText(r[j])
  BY <1>1, <1>6 DEF SurgicallyRemoved
<1> QED BY <1>5, <1>7, <1>8, <1>9, <1>10, <1>11 DEF PatchedAsKnown

\* Without a first entry the reference reads no entries.
LEMMA NoFirstEntry ==
    ASSUME NEW b, Good(b), ~FirstEntry(b)
    PROVE  NewcLoad(b) \in {Read(<<>>), Invalid}
<1>1. b.size \in Nat
  BY DEF Good, IsBlob
<1>2. NewcLoad(b) = NewcAt(b, 0, NewcFrom(b))
  BY <1>1, NewcUnfolds DEF NewcLoad
<1>3. 0 + HeaderSize = HeaderSize
  BY DEF HeaderSize
<1>4. IsHeader(ReadAt(b, 0)) => NameAt(b, 0 + HeaderSize) = Trailer.name
  BY <1>3 DEF FirstEntry
<1> QED BY <1>2, <1>4 DEF NewcAt

\* What ExtractRamdiskArchive has read, when it did not throw.
LEMMA ArchiveRead ==
    ASSUME NEW im, NEW es, RamdiskArchive(im) = Read(es)
    PROVE  /\ CanExtract(im, "ramdisk") /\ ~Undecodable(Extract(im, "ramdisk"))
           /\ Parse(Decompress(Extract(im, "ramdisk"))) = Read(es)
<1>1. Invalid # Read(es)
  <2>1. Invalid.ok = FALSE /\ Read(es).ok = TRUE
    BY DEF Invalid, Read
  <2> QED BY <2>1
<1> QED BY <1>1 DEF RamdiskArchive

\* So a ramdisk that was read and had Magisk in it is one that is known.
LEMMA FoundIsKnown ==
    ASSUME NEW im, KnownRamdisk(im), NEW es, RamdiskArchive(im) = Read(es)
    PROVE  /\ IsCpio(Decompress(Extract(im, "ramdisk")))
           /\ IsMagiskInstalled(es) => PatchedAsKnown(es)
<1>1. /\ CanExtract(im, "ramdisk") /\ ~Undecodable(Extract(im, "ramdisk"))
      /\ Parse(Decompress(Extract(im, "ramdisk"))) = Read(es)
  BY ArchiveRead
<1>2. Read(es).ok /\ Read(es).entries = es
  BY DEF Read
<1> QED BY <1>1, <1>2 DEF KnownRamdisk

\* An image without a case has no ramdisk, and nothing is found in it.
LEMMA NoCaseFindsNothing ==
    ASSUME NEW f, Good(f), HasHeader(f), NoCase(f.at[HeaderOffset(f)].val),
           NEW es, RamdiskArchive(ParsedImage(f)) = Read(es)
    PROVE  ~IsMagiskInstalled(es)
<1> DEFINE h == f.at[HeaderOffset(f)].val
           b == Extract(ParsedImage(f), "ramdisk")
<1>1. Good(b) /\ b.size = SectionSize(h, "ramdisk")
  BY ExtractGood, SectionNames
<1>2. HeaderVersion(h) \in Nat
  BY FirstHeader, HeaderWords DEF HeaderVersion
<1>3. SectionSize(h, "ramdisk") = 0
  BY <1>2 DEF SectionSize, NoCase
<1>4. b = Zeros(0)
  BY <1>1, <1>3, EmptyIsZeros DEF Good
<1>5. Parse(Decompress(b)) = Read(es)
  BY ArchiveRead
<1> HIDE DEF b
<1>6. ReadAt(b, 0) = Torn /\ b.size = 0
  BY <1>4 DEF ReadAt, Zeros
<1>7. Decompress(b) = b
  BY <1>6 DEF Decompress, Torn
<1>8. Parse(b) = ParseAt(b, 0, ParsedFrom(b))
  BY <1>1, <1>6, ParsedUnfolds DEF Parse
<1>9. ParseAt(b, 0, ParsedFrom(b)) = Read(<<>>)
  BY <1>6 DEF ParseAt, HeaderSize
<1>10. es = <<>>
  BY <1>5, <1>7, <1>8, <1>9 DEF Read
<1> QED BY <1>10 DEF IsMagiskInstalled, ToSet

\* The header of an image that could be repacked is written, at the beginning.
LEMMA HeaderKept ==
    ASSUME NEW f, Good(f), HasHeader(f), NEW h, h = f.at[HeaderOffset(f)].val,
           HeaderFits(h), ~NoCase(h), NEW k, Good(k), NEW r, Good(r),
           NEW im, im = ParsedImage(f), NEW new, new = Repack(im, k, r)
    PROVE  HasHeader(new) /\ HeaderOffset(new) = 0 /\ new.at[0].val = Rewritten(h, k.size, r.size)
<1> DEFINE n == Rewritten(h, k.size, r.size)
           a == Atom(StructSize(h), n)
           page == RepackPage(h)
           head == HeadOf(im, k, r)
           rest == Joined(Padded(im, k, r))[6]
<1>1. IsBootHeader(h) /\ Fine(h) /\ im.header = h
  BY FirstHeader DEF ParsedImage
<1>2. page \in Nat \ {0} /\ StructSize(h) \in Nat
  BY <1>1, HeaderNumbers
<1>3. HeaderVersion(h) \in Nat
  BY <1>1, HeaderWords DEF HeaderVersion
<1>4. StructSize(h) > 0
  <2>1. CASE IsVendor(h)
    BY <1>2, <2>1 DEF HeaderFits
  <2>2. CASE ~IsVendor(h) /\ IsPxa(h)
    BY <2>2 DEF StructSize, PxaSize
  <2>3. CASE ~IsVendor(h) /\ ~IsPxa(h) /\ HeaderVersion(h) \in {3, 4}
    BY <1>2, <2>3 DEF HeaderFits
  <2>4. CASE ~IsVendor(h) /\ ~IsPxa(h) /\ HeaderVersion(h) \in {0, 1, 2}
    BY <2>4 DEF StructSize
  <2> QED BY <1>3, <2>1, <2>2, <2>3, <2>4 DEF NoCase
<1>5. k.size \in Nat /\ r.size \in Nat
  BY DEF Good, IsBlob
<1>6. IsBootHeader(n) /\ Fine(n) /\ ~IsHeader(n)
  <2>1. LikeHeader(n, h)
    BY <1>1, <1>5, NewHeaderFine
  <2> HIDE DEF n
  <2> QED BY <2>1 DEF LikeHeader, IsBootHeader, IsHeader
<1>7. NewHeader(h, k.size, r.size) = a
  BY DEF NewHeader, Rewritten
<1>8. head = PadTo(a, page)
  BY <1>1, <1>7 DEF HeadOf
<1>9. new = Concat(Concat(head, rest), im.tail) /\ Len(Padded(im, k, r)) = 6
  BY RepackIs
<1>10. Good(head) /\ Good(rest) /\ Good(im.tail)
  <2>1. ASSUME NEW i \in 1 .. 6 PROVE Good(Padded(im, k, r)[i])
    <3>1. PartFits(im, k, r, i)
      BY PartsGood
    <3> QED BY <3>1 DEF PartFits
  <2> DEFINE bs == Padded(im, k, r)
  <2>2. Len(bs) = 6
    BY <1>9
  <2>3. \A i \in 1 .. 6 : Good(bs[i])
    BY <2>1
  <2> HIDE DEF bs
  <2>4. Good(Joined(bs)[6])
    <3>1. Len(bs) \in Nat /\ 6 \in 0 .. Len(bs) /\ \A i \in 1 .. Len(bs) : Good(bs[i])
      BY <2>2, <2>3
    <3> QED BY <3>1, GoodJoined
  <2> QED BY <2>4, HeadGood, Parsed DEF bs
<1> HIDE DEF n, page, head, rest
<1>11. Good(a) /\ IsBlob(a) /\ DOMAIN a.at = {0} /\ a.at[0].val = n
  <2>1. Good(a)
    BY <1>2, <1>6, GoodAtom
  <2>2. IsBlob(a) /\ DOMAIN a.at = {0} /\ a.at[0] = [size |-> StructSize(h), val |-> n]
    BY <1>2, <1>4, AtomIsBlob
  <2> HIDE DEF a
  <2> QED BY <2>1, <2>2
<1> HIDE DEF a
<1>12. Holds(head, 0, a)
  BY <1>2, <1>8, <1>11, GoodPadTo
<1> DEFINE c == Concat(head, rest)
<1>13. IsBlob(head) /\ IsBlob(rest) /\ IsBlob(im.tail) /\ IsBlob(c) /\ Good(c)
  BY <1>10, GoodConcat DEF Good
<1>14. Holds(c, 0, a)
  BY <1>11, <1>12, <1>13, HoldsLeft
<1>15. new = Concat(c, im.tail)
  BY <1>9
<1> HIDE DEF c
<1>16. Holds(new, 0, a) /\ IsBlob(new)
  <2>1. IsBlob(new)
    BY <1>13, <1>15, ConcatIsBlob
  <2>2. Holds(new, 0, a)
    BY <1>11, <1>13, <1>14, <1>15, HoldsLeft
  <2> QED BY <2>1, <2>2
<1>17. 0 \in DOMAIN new.at /\ new.at[0].val = n
  BY <1>11, <1>16, HoldsRead
<1>18. IsBootHeader(new.at[0].val) /\ HasHeader(new)
  BY <1>6, <1>17 DEF HasHeader
<1>19. HeaderOffset(new) = 0
  BY <1>16, <1>17, <1>18, HeaderFirst
<1> QED BY <1>17, <1>18, <1>19 DEF n

\* A header that is ported when it has been written was ported when it was read.
LEMMA PortedBefore ==
    ASSUME NEW h, IsBootHeader(h), Fine(h), NEW k \in Nat, NEW r \in Nat,
           PortedHeader(Rewritten(h, k, r))
    PROVE  PortedHeader(h)
<1> DEFINE n == Rewritten(h, k, r)
<1>1. RewordedFrom(n, h, k, r) /\ LikeHeader(n, h)
  BY NewWord, NewHeaderFine
<1>2. PortedHeader(n)
  OBVIOUS
<1> USE DEF RewordedFrom, LikeHeader
<1> HIDE DEF n
<1>3. CASE IsVendor(h)
  <2>1. RefPageSize(n) = RefPageSize(h) /\ StructSize(n) = StructSize(h)
    BY <1>1, <1>3 DEF RefPageSize, StructSize
  <2> QED BY <1>1, <1>2, <1>3, <2>1 DEF PortedHeader
<1>4. CASE ~IsVendor(h)
  <2>1. ~IsPxa(h) /\ ~IsPxa(n) /\ ~IsVendor(n)
    BY <1>1, <1>2, <1>4 DEF PortedHeader
  <2>2. RefVersion(n) = RefVersion(h)
    BY <1>1, <2>1 DEF RefVersion
  <2>3. RefPageSize(n) = RefPageSize(h)
    BY <1>1, <1>4, <2>1, <2>2 DEF RefPageSize
  <2>4. StructSize(n) = StructSize(h)
    BY <1>1, <1>4, <2>1 DEF StructSize
  <2>5. Word(n, 24) = Word(h, 24)
    BY <1>1, <1>4
  <2> QED BY <1>1, <1>2, <1>4, <2>1, <2>3, <2>4, <2>5 DEF PortedHeader
<1> QED BY <1>3, <1>4

\* An image whose ramdisk, if its header is ported, is known.
SoundImage(f) ==
    HasHeader(f) /\ PortedHeader(f.at[HeaderOffset(f)].val) => KnownRamdisk(ParsedImage(f))

\* What a run writes is such an image again, when its ramdisk was known or is without
\* Magisk.
LEMMA RepackedIsSound ==
    ASSUME NEW f, Good(f), HasHeader(f), NEW h, h = f.at[HeaderOffset(f)].val,
           HeaderFits(h), ~NoCase(h), NEW k, Good(k), k.size = SectionSize(h, "kernel"),
           NEW es, GoodEntries(es),
           PortedHeader(h) /\ IsMagiskInstalled(es) => PatchedAsKnown(es),
           NEW new, new = Repack(ParsedImage(f), k, Gzip(Serialize(es)))
    PROVE  SoundImage(new)
<1> DEFINE im == ParsedImage(f)
           r == Gzip(Serialize(es))
           n == Rewritten(h, k.size, r.size)
           A == Places(0, n)
           x == Extract(ParsedImage(new), "ramdisk")
<1>1. Good(r) /\ Decompress(r) = Serialize(es) /\ ~Undecodable(r)
  <2>1. Good(Serialize(es))
    BY GoodSerialize
  <2> DEFINE b == Serialize(es)
             v == [kind |-> "gzip", of |-> b]
  <2>2. Good(Gzip(b)) /\ Decompress(Gzip(b)) = b
    BY <2>1, GoodGzip
  <2> HIDE DEF b
  <2>3. b.size \in Nat
    BY <2>1 DEF Good, IsBlob, b
  <2>4. ReadAt(Gzip(b), 0).kind # "xz"
    <3>1. GzipSize(b.size) \in Nat /\ GzipSize(b.size) > 0
      BY <2>3 DEF GzipSize
    <3>2. DOMAIN Gzip(b).at = {0} /\ Gzip(b).at[0] = [size |-> GzipSize(b.size), val |-> v]
      BY <3>1, AtomIsBlob DEF Gzip
    <3>3. ReadAt(Gzip(b), 0) = v
      BY <3>2 DEF ReadAt
    <3> QED BY <3>3
  <2> QED BY <2>2, <2>4 DEF Undecodable, b
<1>2. IsBootHeader(h) /\ Fine(h)
  BY FirstHeader
<1> HIDE DEF r
<1>3. k.size \in Nat /\ r.size \in Nat
  BY <1>1 DEF Good, IsBlob
<1>4. new = Repack(im, k, r)
  BY DEF r
<1>5. HasHeader(new) /\ HeaderOffset(new) = 0 /\ new.at[0].val = n
  BY <1>1, <1>4, HeaderKept
<1> HIDE DEF n
<1> SUFFICES ASSUME PortedHeader(n) PROVE KnownRamdisk(ParsedImage(new))
  BY <1>5 DEF SoundImage
<1>6. PortedHeader(h)
  BY <1>2, <1>3, PortedBefore DEF n
<1>7. Assembled(new, im, k, r, n)
  BY <1>1, <1>4, <1>6, RepackAssembles DEF n
<1>8. Good(new) /\ SectionSize(n, "ramdisk") = r.size /\ Slice(new, A[2], r.size) = r
  <2>1. PartOf(im, k, r, 2) = r /\ Sections[2] = "ramdisk"
    BY SectionNames DEF PartOf
  <2> QED BY <1>7, <2>1 DEF Assembled
<1>9. ParsedImage(new).offset["ramdisk"] = A[2] /\ ParsedImage(new).raw = new
      /\ ParsedImage(new).size["ramdisk"] = SectionSize(n, "ramdisk")
  <2> HIDE DEF A
  <2>1. A = Places(HeaderOffset(new), n) /\ n = new.at[HeaderOffset(new)].val
    BY <1>5 DEF A
  <2> QED BY <1>5, <1>8, <2>1, Parsed, SectionNames
<1>10. x = r
  BY <1>8, <1>9 DEF Extract
<1>11. IsCpio(Serialize(es)) /\ Parse(Serialize(es)) = Read(es)
  BY SerializeIsCpio, ParseSerialize
<1>12. Read(es).entries = es
  BY DEF Read
<1> HIDE DEF x
<1>13. IsMagiskInstalled(es) => PatchedAsKnown(es)
  BY <1>6
<1> QED BY <1>1, <1>10, <1>11, <1>12, <1>13 DEF KnownRamdisk, x

\* What is true of what a run has found and made, besides that it is well formed: the
\* ramdisk of the file is known, the entries are what was read from it, with Magisk
\* but at the end of a run that says so, and the restored ones what the method makes
\* of them; an image that has been written has a header.
FoundSteps == {"choose", "needsStock", "kernel", "repack", "avb", "write", "done"}
Known ==
    /\ SoundImage(file)
    /\ pc \in FoundSteps \cup {"clean"} =>
          RamdiskArchive(image[1]) = Read(found) /\ (IsMagiskInstalled(found) <=> pc # "clean")
    /\ pc \in {"kernel", "repack", "avb", "write", "done"} => Restored(found, method, restored)
    /\ pc \in {"avb", "write", "done"} => HeaderFits(image[1].header)

\* The entries that were found are known, if the header is ported.
LEMMA PatchedIsKnown ==
    ASSUME TypeOK, FromFile, Known, pc \in FoundSteps,
           PortedHeader(file.at[HeaderOffset(file)].val)
    PROVE  PatchedAsKnown(found)
<1>1. image # <<>>
  BY DEF TypeOK, Steps, Ends, FoundSteps
<1>2. HasHeader(file) /\ image[1] = ParsedImage(file)
  BY <1>1 DEF FromFile
<1>3. KnownRamdisk(image[1])
  BY <1>2 DEF Known, SoundImage
<1>4. RamdiskArchive(image[1]) = Read(found) /\ IsMagiskInstalled(found)
  BY DEF Known, FoundSteps
<1> QED BY <1>3, <1>4, FoundIsKnown

\* So the image that a run has written is one to start from.
LEMMA OutputIsSound ==
    ASSUME TypeOK, FromFile, Known, output # <<>>
    PROVE  SoundImage(output[1])
<1> DEFINE h == file.at[HeaderOffset(file)].val
<1>1. pc \in {"avb", "write", "done"}
  BY DEF TypeOK
<1>2. /\ HasHeader(file) /\ image[1] = ParsedImage(file)
      /\ Good(kernel) /\ kernel.size = SectionSize(h, "kernel")
      /\ output[1] = Repack(image[1], kernel, Gzip(Serialize(restored)))
  BY WrittenIsGood
<1>3. Good(file) /\ GoodEntries(found) /\ GoodEntries(restored)
  BY DEF FromFile
<1>4. HeaderFits(h)
  <2>1. image[1].header = h
    BY <1>2, ImageHeader
  <2> HIDE DEF h
  <2>2. HeaderFits(image[1].header)
    BY <1>1 DEF Known
  <2> QED BY <2>1, <2>2
<1>5. RamdiskArchive(image[1]) = Read(found) /\ IsMagiskInstalled(found)
  BY <1>1 DEF Known, FoundSteps
<1>6. ~NoCase(h)
  BY <1>2, <1>3, <1>5, NoCaseFindsNothing
<1>7. PortedHeader(h) /\ IsMagiskInstalled(restored) => PatchedAsKnown(restored)
  <2> SUFFICES ASSUME PortedHeader(h), IsMagiskInstalled(restored)
               PROVE  PatchedAsKnown(restored)
    OBVIOUS
  <2>1. PatchedAsKnown(found)
    BY <1>1, PatchedIsKnown DEF FoundSteps
  <2>2. Restored(found, method, restored)
    BY <1>1 DEF Known
  <2> QED BY <1>3, <2>1, <2>2, RestoredIsKnown
<1> QED BY <1>2, <1>3, <1>4, <1>6, <1>7, RepackedIsSound

\* It holds in every state.
LEMMA KnownHolds == Spec => []Known
<1>1. Init => Known
  <2> SUFFICES ASSUME Init PROVE Known
    OBVIOUS
  <2>1. SoundImage(file)
    BY ImagesAssumption DEF Init, SoundImage
  <2>2. pc = "load"
    BY DEF Init
  <2> QED BY <2>1, <2>2 DEF Known, FoundSteps
<1>2. TypeOK /\ FromFile /\ Known /\ [Next]_vars => Known'
  <2> SUFFICES ASSUME TypeOK, FromFile, Known, [Next]_vars PROVE Known'
    OBVIOUS
  <2>1. CASE Load
    <3>1. file' = file /\ pc' \in {"extract", "failed"}
      BY <2>1 DEF Load, Fail
    <3> QED BY <3>1 DEF Known, FoundSteps
  <2>2. CASE ExtractRamdisk
    <3> DEFINE a == RamdiskArchive(image[1])
    <3>1. image # <<>>
      BY <2>2 DEF ExtractRamdisk, TypeOK, Steps, Ends
    <3>2. image[1] = ParsedImage(file) /\ HasHeader(file)
      BY <3>1 DEF FromFile
    <3>3. Good(Extract(image[1], "ramdisk"))
      BY <3>2, ExtractGood, SectionNames DEF FromFile
    <3>4. IsArchive(a)
      BY <3>3, GoodDecompress, ParseIsArchive, NoEntries DEF RamdiskArchive
    <3> HIDE DEF a
    <3>5. file' = file /\ image' = image
      BY <2>2 DEF ExtractRamdisk
    <3>6. CASE ~a.ok
      <4>1. pc' = "failed"
        BY <2>2, <3>6 DEF ExtractRamdisk, Fail, a
      <4> QED BY <3>5, <4>1 DEF Known, FoundSteps
    <3>7. CASE a.ok
      <4>1. /\ found' = a.entries
            /\ pc' = IF IsMagiskInstalled(a.entries) THEN "choose" ELSE "clean"
        BY <2>2, <3>7 DEF ExtractRamdisk, a
      <4>2. a = Read(found')
        BY <3>4, <3>7, <4>1 DEF IsArchive, Read
      <4>3. RamdiskArchive(image'[1]) = Read(found')
        BY <3>5, <4>2 DEF a
      <4>4. IsMagiskInstalled(found') <=> pc' # "clean"
        BY <4>1
      <4> QED BY <3>5, <4>1, <4>3, <4>4 DEF Known, FoundSteps
    <3> QED BY <3>6, <3>7
  <2>3. CASE ChooseMethod
    <3> DEFINE m == ChosenMethod
               s == Read(SurgicalRemoval(found))
               b == RestoreFromBackup(found)
               r == IF m = "surgical" THEN s ELSE b
    <3>1. UNCHANGED <<file, image, found>> /\ pc = "choose"
      BY <2>3 DEF ChooseMethod
    <3>2. RamdiskArchive(image[1]) = Read(found) /\ IsMagiskInstalled(found)
      BY <3>1 DEF Known, FoundSteps
    <3>3. CASE pc' \in {"needsStock", "failed"}
      BY <3>1, <3>2, <3>3 DEF Known, FoundSteps
    <3>4. CASE pc' \notin {"needsStock", "failed"}
      <4>1. /\ pc' = "kernel" /\ m # "none" /\ r.ok
            /\ restored' = r.entries /\ method' = m
        BY <2>3, <3>4 DEF ChooseMethod, Fail
      <4>2. IsArchive(b)
        BY RestoreIsArchive DEF FromFile
      <4>3. b.ok => b = Read(b.entries)
        BY <4>2 DEF IsArchive, Read
      <4>4. s.entries = SurgicalRemoval(found)
        BY DEF Read
      <4>5. Restored(found, m, r.entries)
        <5>1. CASE HasEntry(found, FullBackup) /\ opt.prefer
          <6>1. m = "full"
            BY <5>1 DEF ChosenMethod
          <6>2. b = Parse(EntryData(found, FullBackup))
            BY <5>1 DEF RestoreFromBackup
          <6> QED BY <4>1, <4>3, <5>1, <6>1, <6>2 DEF Restored
        <5>2. CASE ~(HasEntry(found, FullBackup) /\ opt.prefer)
                   /\ HasEntry(found, InitBackup) /\ opt.prefer
          <6>1. m = "init" /\ ~HasEntry(found, FullBackup)
            BY <5>2 DEF ChosenMethod
          <6>2. b = IF Undecodable(EntryData(found, InitBackup)) THEN Invalid
                    ELSE Read(RestoreInit(found))
            BY <5>2, <6>1 DEF RestoreFromBackup
          <6>3. b = Read(RestoreInit(found))
            BY <4>1, <6>1, <6>2 DEF Invalid
          <6>4. b.entries = RestoreInit(found)
            BY <6>3 DEF Read
          <6> QED BY <5>2, <6>1, <6>4 DEF Restored
        <5>3. CASE m = "surgical"
          BY <4>4, <5>3 DEF Restored
        <5>4. m \in {"full", "init", "none", "surgical"}
          BY DEF ChosenMethod
        <5> QED BY <4>1, <5>1, <5>2, <5>3 DEF ChosenMethod
      <4> HIDE DEF r, m
      <4> QED BY <3>1, <3>2, <4>1, <4>5 DEF Known, FoundSteps
    <3> QED BY <3>3, <3>4
  <2>4. CASE RestoreKernel
    <3>1. UNCHANGED <<file, image, found, restored, method>> /\ pc = "kernel"
          /\ pc' \in {"failed", "repack"}
      BY <2>4 DEF RestoreKernel, Fail
    <3> QED BY <3>1 DEF Known, FoundSteps
  <2>5. CASE RepackImage
    <3>1. /\ UNCHANGED <<file, image, found, restored, method>>
          /\ pc = "repack"
          /\ \/ pc' = "failed"
             \/ pc' = "avb" /\ CanRepack(image[1])
      BY <2>5 DEF RepackImage, Fail
    <3> QED BY <3>1 DEF Known, FoundSteps, CanRepack
  <2>6. CASE RestoreAvb
    BY <2>6 DEF RestoreAvb, Known, FoundSteps
  <2>7. CASE WriteOutput
    BY <2>7 DEF WriteOutput, Known, FoundSteps
  <2>8. CASE RunAgain
    <3>1. output # <<>>
      BY <2>8 DEF RunAgain, TypeOK
    <3>2. SoundImage(output[1])
      BY <3>1, OutputIsSound
    <3>3. pc' = "load" /\ file' = output[1]
      BY <2>8 DEF RunAgain
    <3>4. SoundImage(file')
      BY <3>2, <3>3
    <3> QED BY <3>3, <3>4 DEF Known, FoundSteps
  <2>9. CASE UNCHANGED vars
    BY <2>9 DEF vars, Known, FoundSteps
  <2> QED BY <2>1, <2>2, <2>3, <2>4, <2>5, <2>6, <2>7, <2>8, <2>9 DEF Next
<1> QED BY <1>1, <1>2, UninstallTypes, FromFileHolds, PTL DEF Spec

\* "No Magisk installation detected" is said of no ported image with Magisk in its
\* ramdisk, for either reader of archives: when CpioArchive has read the whole of it,
\* the reference reads nothing in it that CpioArchive did not, because it is an archive
\* of one of the formats, and that of the other would have been refused.
THEOREM CleanIsTrue == Spec => []CleanIsClean
<1>1. TypeOK /\ FromFile /\ Known => CleanIsClean
  <2> SUFFICES ASSUME TypeOK, FromFile, Known, pc = "clean", Ported(file),
                      NEW a \in Archives(RefSection(file, "ramdisk"))
               PROVE  ~IsMagiskInstalled(a.entries)
    BY DEF CleanIsClean
  <2> DEFINE x == Extract(image[1], "ramdisk")
             b == Decompress(x)
  <2>1. image # <<>>
    BY DEF TypeOK, Steps, Ends
  <2>2. image[1] = ParsedImage(file) /\ HasHeader(file) /\ Good(file)
    BY <2>1 DEF FromFile
  <2>3. RefSection(file, "ramdisk") = x
    BY <2>2, SectionsAgree
  <2>4. PortedHeader(file.at[HeaderOffset(file)].val)
    BY DEF Ported, PortedHeader
  <2>5. KnownRamdisk(image[1])
    BY <2>2, <2>4 DEF Known, SoundImage
  <2>6. RamdiskArchive(image[1]) = Read(found) /\ ~IsMagiskInstalled(found)
    BY DEF Known
  <2>7. Parse(b) = Read(found)
    BY <2>6, ArchiveRead
  <2>8. IsCpio(b)
    BY <2>5, <2>6, FoundIsKnown
  <2>9. Good(b)
    <3>1. Good(x)
      BY <2>2, ExtractGood, SectionNames
    <3> HIDE DEF x
    <3> QED BY <3>1, GoodDecompress
  <2>10. (a = Parse(b) \/ a = NewcLoad(b)) /\ a.ok
    BY <2>3 DEF Archives
  <2> HIDE DEF b
  <2>11. Read(found).entries = found /\ Read(found).ok /\ Read(<<>>).entries = <<>> /\ ~Invalid.ok
    BY DEF Read, Invalid
  <2>12. CASE a = Parse(b)
    BY <2>6, <2>7, <2>11, <2>12
  <2>13. CASE a = NewcLoad(b)
    <3>1. ~FirstEntry(b)
      BY <2>7, <2>8, <2>9, <2>10, <2>11, <2>13, OwnIsRefused, NewcIsRefused DEF IsCpio
    <3>2. a.entries = <<>>
      BY <2>9, <2>10, <2>11, <2>13, <3>1, NoFirstEntry
    <3> QED BY <3>2 DEF IsMagiskInstalled, ToSet
  <2> QED BY <2>10, <2>12, <2>13
<1> QED BY <1>1, UninstallTypes, FromFileHolds, KnownHolds, PTL

\* What is read back of an image that a run has written, and what that is.
LEMMA DoneReadsBack ==
    ASSUME TypeOK, FromFile, Known, OutputReadsBack, pc = "done", Ported(file)
    PROVE  /\ OutputRamdisk = Read(restored)
           /\ Decompress(RefSection(output[1], "ramdisk")) = Serialize(restored)
           /\ PatchedAsKnown(found) /\ Restored(found, method, restored)
           /\ GoodEntries(found) /\ GoodEntries(restored)
<1>1. OutputRamdisk = Read(restored) /\ RefSection(output[1], "ramdisk") = Gzip(Serialize(restored))
  BY DEF OutputReadsBack
<1>2. GoodEntries(found) /\ GoodEntries(restored)
  BY DEF FromFile
<1>3. Decompress(Gzip(Serialize(restored))) = Serialize(restored)
  BY <1>2, GoodSerialize, GoodGzip
<1>4. PortedHeader(file.at[HeaderOffset(file)].val)
  BY DEF Ported, PortedHeader
<1>5. PatchedAsKnown(found) /\ Restored(found, method, restored)
  BY <1>4, PatchedIsKnown DEF Known, FoundSteps
<1> QED BY <1>1, <1>2, <1>3, <1>5

\* A run that succeeds leaves nothing of Magisk in a ported image, by any method, but
\* what surgical removal leaves in the init.rc files after the first and in the files
\* that share a name's ending with one that it has removed.
THEOREM DoneIsTrue == Spec => []DoneIsClean
<1>1. TypeOK /\ FromFile /\ Known /\ OutputReadsBack => DoneIsClean
  <2> SUFFICES ASSUME TypeOK, FromFile, Known, OutputReadsBack, pc = "done", Ported(file)
               PROVE  /\ OutputRamdisk.ok
                      /\ IsMagiskInstalled(OutputRamdisk.entries) =>
                            /\ method = "surgical"
                            /\ \/ InjectedFurther(found)
                               \/ \E name \in OutsideNames : ~AtMostOnce(found, name)
    BY DEF DoneIsClean
  <2>1. OutputRamdisk.ok /\ OutputRamdisk.entries = restored
    BY DoneReadsBack DEF Read
  <2>2. /\ PatchedAsKnown(found) /\ Restored(found, method, restored)
        /\ GoodEntries(found) /\ GoodEntries(restored)
    BY DoneReadsBack
  <2> QED BY <2>1, <2>2, RestoredIsKnown
<1> QED BY <1>1, UninstallTypes, FromFileHolds, KnownHolds, ReadsBack, PTL

\* What a successful run puts back, whatever the names of the files are: the saved
\* ramdisk to the byte; with a saved init, every kept file in its place but the first
\* that ends in init, which has that init, be it /init or sbin/xinit; and by surgical
\* removal every kept file but the first with each ending that is searched, of which
\* the first init.rc stays as well when it has no line of Magisk's.
THEOREM StockIsKept == Spec => []StockSurvives
<1>1. TypeOK /\ FromFile /\ Known /\ OutputReadsBack => StockSurvives
  <2> SUFFICES ASSUME TypeOK, FromFile, Known, OutputReadsBack, pc = "done", Ported(file)
               PROVE  StockSurvives
    BY DEF StockSurvives
  <2>1. /\ PatchedAsKnown(found) /\ Restored(found, method, restored)
        /\ GoodEntries(found) /\ GoodEntries(restored)
        /\ Decompress(RefSection(output[1], "ramdisk")) = Serialize(restored)
    BY DoneReadsBack
  <2>2. OutputRamdisk.entries = restored
    BY DoneReadsBack DEF Read
  <2>3. CASE method = "full"
    <3>1. HasEntry(found, FullBackup) /\ Parse(EntryData(found, FullBackup)) = Read(restored)
      BY <2>1, <2>3 DEF Restored
    <3>2. EntryData(found, FullBackup) = Serialize(restored)
      <4>1. DOMAIN found = 1 .. Len(found)
        BY <2>1, GoodIndex
      <4>2. /\ EntryIndex(found, FullBackup) \in DOMAIN found
            /\ IsSuffix(FullBackup, found[EntryIndex(found, FullBackup)].name)
        BY <2>1, <3>1, <4>1, IndexOfEntry
      <4> QED BY <2>1, <3>1, <4>2 DEF PatchedAsKnown, RamdiskSaved, EntryData, Read
    <3> QED BY <2>1, <2>3, <3>2 DEF StockSurvives
  <2>4. CASE method = "init"
    <3>1. /\ HasEntry(found, InitBackup) /\ ~HasEntry(found, FullBackup)
          /\ restored = RestoreInit(found)
      BY <2>1, <2>4 DEF Restored
    <3>2. InitRestored(found, restored)
      BY <2>1, <3>1, RestoreInitRestores DEF PatchedAsKnown
    <3>3. Searched("init") = {<<"init">>}
      BY DEF Searched
    <3> QED BY <2>2, <2>4, <3>2, <3>3 DEF StockSurvives, InitRestored
  <2>5. CASE method = "surgical"
    <3>1. restored = SurgicalRemoval(found)
      BY <2>1, <2>5 DEF Restored
    <3>2. SurgicallyKept(found, restored)
      BY <2>1, <3>1, SurgicalRemovalKeeps DEF PatchedAsKnown
    <3> QED BY <2>2, <2>5, <3>2 DEF StockSurvives, SurgicallyKept
  <2> QED BY <2>1, <2>3, <2>4, <2>5 DEF Restored
<1> QED BY <1>1, UninstallTypes, FromFileHolds, KnownHolds, ReadsBack, PTL
=============================================================================
