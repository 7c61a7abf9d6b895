--------------------------- MODULE DirectoryProofs ---------------------------
(* Proofs about the directories that are kept in files (FileTree) and about   *)
(* reading a directory in pieces (DirListing).  The two components share no   *)
(* state; what they share is how a recursive function is reasoned about: all  *)
(* that is needed of the natural numbers is that a set of them has a least    *)
(* element, and what a function computes is shown by a least counterexample.  *)
EXTENDS FileTree, DirListing, SequenceTheorems, FiniteSetTheorems, WellFoundedInduction, TLAPS

Below == {ss \in Nat \X Nat : ss[1] < ss[2]}

(* Every set of numbers that is not empty has a least element: with this,     *)
(* what a recursive function computes can be shown by a least counterexample. *)
LEMMA LeastElement ==
  ASSUME NEW T, T \subseteq Nat, T # {}
  PROVE  \E x \in T : \A y \in T : x <= y
<1>1. IsWellFoundedOn(Below, Nat)
  BY NatLessThanWellFounded DEF OpToRel, Below
<1>2. \E x \in T : \A y \in T : <<y, x>> \notin Below
  BY <1>1, WFMin
<1>3. ASSUME NEW x \in T, NEW y \in T, <<y, x>> \notin Below PROVE x <= y
  BY <1>3 DEF Below
<1>. QED BY <1>2, <1>3

------------------------------------------------------------------------------
(* READING A DIRECTORY                                                        *)

(* The names a directory may list, and the cells of some of them.             *)
Listable == Members \union ToSet(Fixed)
CellsOf(ns) == {c \in ns \X (1 .. Count) : c[2] <= Size[c[1]]}

(* How the entries of the first m names lie in the data: off[i] cells are     *)
(* before the i-th.                                                           *)
Laid(d, s, m, off) ==
    /\ \A i \in 1 .. m : \A k \in 1 .. Size[s[i]] : off[i] + k \in 1 .. Len(d)
         /\ d[off[i] + k] = <<s[i], k>>
    /\ \A j \in 1 .. Len(d) : \E i \in 1 .. m : \E k \in 1 .. Size[s[i]] : j = off[i] + k
    /\ \A i, j \in 1 .. m : i < j => off[i] + Size[s[i]] <= off[j]

(* FlattenSeq is defined for any sequence of sequences: what its recursive    *)
(* function is to satisfy can be satisfied.                                   *)
Flattens(f, e, n) == f = [i \in 1 .. n |-> IF i = 1 THEN e[i] ELSE f[i - 1] \o e[i]]

(* Such a function exists for every sequence: the least length without one    *)
(* would have one.                                                            *)
LEMMA FlattenExists ==
  ASSUME NEW e, NEW n \in Nat
  PROVE  \E f : Flattens(f, e, n)
<1>. DEFINE T == {m \in Nat : ~\E f : Flattens(f, e, m)}
<1>1. CASE T # {}
  <2>1. T \subseteq Nat
    OBVIOUS
  <2>2. PICK m \in T : \A y \in T : m <= y
    BY <1>1, <2>1, LeastElement
  <2>3. CASE m = 0
    <3>1. Flattens([i \in 1 .. 0 |-> e], e, 0)
      BY DEF Flattens
    <3>. QED BY <2>2, <2>3, <3>1
  <2>4. CASE m # 0
    <3>1. m \in Nat /\ m - 1 \in Nat /\ m - 1 \notin T
      BY <2>2, <2>4
    <3>2. PICK f : Flattens(f, e, m - 1)
      BY <3>1
    <3>. DEFINE g == [i \in 1 .. m |-> IF i < m THEN f[i] ELSE IF m = 1 THEN e[m]
                    ELSE f[m - 1] \o e[m]]
                h == [i \in 1 .. m |-> IF i = 1 THEN e[i] ELSE g[i - 1] \o e[i]]
    <3>3. ASSUME NEW i \in 1 .. m PROVE g[i] = h[i]
      <4>1. CASE i = m
        BY <2>4, <4>1
      <4>2. CASE i # m
        <5>1. i \in 1 .. m - 1 /\ i < m /\ m # 1 /\ (i # 1 => i - 1 < m /\ i - 1 \in 1 .. m)
          BY <3>1, <4>2
        <5>2. f[i] = IF i = 1 THEN e[i] ELSE f[i - 1] \o e[i]
          BY <3>2, <5>1 DEF Flattens
        <5>. QED BY <5>1, <5>2
      <4>. QED BY <4>1, <4>2
    <3>4. g = h
      BY <3>3
    <3>. HIDE DEF g
    <3>5. Flattens(g, e, m)
      BY <3>4 DEF Flattens
    <3>. QED BY <2>2, <3>5
  <2>. QED BY <2>3, <2>4
<1>. QED BY <1>1

(* The data of a directory is what this function has for the last of its      *)
(* names.                                                                     *)
LEMMA SerializedIs ==
  ASSUME NEW s \in Seq(Listable)
  PROVE  /\ s = <<>> => Serialized(s) = <<>>
         /\ s # <<>> => \E f : /\ Flattens(f, [i \in 1 .. Len(s) |-> Entry(s[i])], Len(s))
                               /\ Serialized(s) = f[Len(s)]
<1>. DEFINE e == [i \in 1 .. Len(s) |-> Entry(s[i])]
<1>1. Serialized(s) = FlattenSeq(e) /\ Len(e) = Len(s)
  BY DEF Serialized
<1>2. CASE s = <<>>
  <2>1. e = <<>>
    BY <1>2
  <2>. QED BY <1>1, <1>2, <2>1 DEF FlattenSeq
<1>3. CASE s # <<>>
  <2>. HIDE DEF e
  <2>1. Len(e) # 0 /\ Len(s) \in Nat
    BY <1>1, <1>3
  <2>2. FlattenSeq(e) = (CHOOSE f :
            f = [i \in 1 .. Len(e) |-> IF i = 1 THEN e[i] ELSE f[i - 1] \o e[i]])[Len(e)]
    BY <2>1 DEF FlattenSeq
  <2>3. FlattenSeq(e) = (CHOOSE f : Flattens(f, e, Len(s)))[Len(s)]
    BY <1>1, <2>2 DEF Flattens
  <2>. QED BY <1>1, <1>3, <2>1, <2>3, FlattenExists DEF e
<1>. QED BY <1>2, <1>3

(* Appending an entry lays it behind the others.                              *)
LEMMA LaidNext ==
  ASSUME NEW s \in Seq(Listable), NEW m \in Nat, m + 1 <= Len(s),
         NEW d \in Seq(Listable \X (1 .. Count)), NEW off \in [1 .. m -> Nat], Laid(d, s, m, off)
  PROVE  LET d2 == d \o Entry(s[m + 1]) IN
         /\ d2 \in Seq(Listable \X (1 .. Count))
         /\ \E off2 \in [1 .. m + 1 -> Nat] : Laid(d2, s, m + 1, off2)
<1>. DEFINE n == s[m + 1]
            z == Size[n]
            d2 == d \o Entry(n)
            off2 == [i \in 1 .. m + 1 |-> IF i <= m THEN off[i] ELSE Len(d)]
<1>1. /\ n \in Listable /\ z \in Nat /\ z \in 1 .. Count
      /\ \A i \in 1 .. m : s[i] \in Listable /\ Size[s[i]] \in Nat /\ Size[s[i]] \in 1 .. Count
  BY CountFits DEF Listable
<1>. HIDE DEF n
<1>2. Entry(n) \in Seq(Listable \X (1 .. Count)) /\ Len(Entry(n)) = z
      /\ \A k \in 1 .. z : Entry(n)[k] = <<n, k>>
  <2>1. Entry(n) = [k \in 1 .. z |-> <<n, k>>]
    BY DEF Entry
  <2>. HIDE DEF z
  <2>2. \A k \in 1 .. z : k \in 1 .. Count
    BY <1>1, CountFits
  <2>3. Entry(n) \in [1 .. z -> Listable \X (1 .. Count)]
    BY <1>1, <2>1, <2>2
  <2>. QED BY <1>1, <2>1, <2>3
<1>. HIDE DEF z
<1>3. /\ d2 \in Seq(Listable \X (1 .. Count)) /\ Len(d2) = Len(d) + z
      /\ \A j \in 1 .. Len(d) : d2[j] = d[j]
      /\ \A k \in 1 .. z : Len(d) + k \in 1 .. Len(d2) /\ d2[Len(d) + k] = <<n, k>>
  <2>. DEFINE x == Entry(n)
  <2>1. x \in Seq(Listable \X (1 .. Count)) /\ Len(x) = z /\ \A k \in 1 .. z : x[k] = <<n, k>>
    BY <1>2
  <2>. HIDE DEF x
  <2>2. d2 \in Seq(Listable \X (1 .. Count)) /\ Len(d2) = Len(d) + z
    <3>1. PICK S : S = Listable \X (1 .. Count)
      OBVIOUS
    <3>2. d \in Seq(S) /\ x \in Seq(S) /\ Len(x) = z
      BY <2>1, <3>1
    <3>3. d \o x \in Seq(S) /\ Len(d \o x) = Len(d) + z
      BY <3>2, ConcatProperties
    <3>. QED BY <3>1, <3>3 DEF x
  <2>3. \A j \in 1 .. Len(d) : d2[j] = d[j]
    BY <1>1, <2>1 DEF x
  <2>4. ASSUME NEW k \in 1 .. z PROVE Len(d) + k \in 1 .. Len(d2) /\ d2[Len(d) + k] = x[k]
    BY <1>1, <2>1, <2>2 DEF x
  <2>. QED BY <2>1, <2>2, <2>3, <2>4
<1>4. off2 \in [1 .. m + 1 -> Nat] /\ (\A i \in 1 .. m : off2[i] = off[i]) /\ off2[m + 1] = Len(d)
  OBVIOUS
<1>. HIDE DEF d2, off2
<1>5. ASSUME NEW i \in 1 .. m + 1, NEW k \in 1 .. Size[s[i]]
      PROVE  off2[i] + k \in 1 .. Len(d2) /\ d2[off2[i] + k] = <<s[i], k>>
  <2>1. CASE i = m + 1
    BY <1>3, <1>4, <1>5, <2>1 DEF n, z
  <2>2. CASE i # m + 1
    <3>0. i \in 1 .. m
      BY <2>2
    <3>1. off[i] + k \in 1 .. Len(d) /\ d[off[i] + k] = <<s[i], k>>
      BY <3>0 DEF Laid
    <3>2. PICK p \in 1 .. Len(d) : p = off[i] + k
      BY <3>1
    <3>3. off2[i] + k = p /\ p \in 1 .. Len(d2) /\ d2[p] = d[p]
      BY <1>1, <1>3, <1>4, <3>0, <3>2
    <3>. QED BY <3>1, <3>2, <3>3
  <2>. QED BY <2>1, <2>2
<1>6. ASSUME NEW j \in 1 .. Len(d2)
      PROVE  \E i \in 1 .. m + 1 : \E k \in 1 .. Size[s[i]] : j = off2[i] + k
  <2>1. CASE j <= Len(d)
    BY <1>4, <2>1 DEF Laid
  <2>2. CASE j > Len(d)
    <3>1. j - Len(d) \in 1 .. z /\ j = Len(d) + (j - Len(d))
      BY <1>1, <1>3, <2>2
    <3>2. PICK k \in 1 .. Size[s[m + 1]] : j = Len(d) + k
      BY <3>1 DEF n, z
    <3>3. m + 1 \in 1 .. m + 1 /\ j = off2[m + 1] + k
      BY <1>4, <3>2
    <3>. QED BY <3>3
  <2>. QED BY <2>1, <2>2
<1>7. ASSUME NEW i \in 1 .. m + 1, NEW j \in 1 .. m + 1, i < j
      PROVE  off2[i] + Size[s[i]] <= off2[j]
  <2>1. CASE j = m + 1
    <3>1. i \in 1 .. m /\ Size[s[i]] \in 1 .. Size[s[i]]
      BY <1>1, <1>7, <2>1, CountFits
    <3>2. off[i] + Size[s[i]] \in 1 .. Len(d)
      BY <3>1 DEF Laid
    <3>. QED BY <1>4, <2>1, <3>1, <3>2
  <2>2. CASE j # m + 1
    BY <1>4, <1>7, <2>2 DEF Laid
  <2>. QED BY <2>1, <2>2
<1>8. Laid(d2, s, m + 1, off2)
  BY <1>5, <1>6, <1>7 DEF Laid
<1>. QED BY <1>3, <1>4, <1>8 DEF d2, n

(* How the entries of the names lie in the data.                              *)
LEMMA SerializedLaid ==
  ASSUME NEW s \in Seq(Listable)
  PROVE  /\ Serialized(s) \in Seq(Listable \X (1 .. Count))
         /\ \E off \in [1 .. Len(s) -> Nat] : Laid(Serialized(s), s, Len(s), off)
<1>. DEFINE C == Seq(Listable \X (1 .. Count))
<1>1. CASE s = <<>>
  <2>1. Serialized(s) = <<>>
    BY <1>1, SerializedIs
  <2>2. Laid(<<>>, s, 0, [i \in 1 .. 0 |-> 0])
    BY DEF Laid
  <2>3. Len(s) = 0 /\ [i \in 1 .. 0 |-> 0] \in [1 .. 0 -> Nat]
    BY <1>1
  <2>4. Laid(Serialized(s), s, Len(s), [i \in 1 .. 0 |-> 0])
    BY <2>1, <2>2, <2>3
  <2>5. [i \in 1 .. 0 |-> 0] \in [1 .. Len(s) -> Nat]
    BY <2>3
  <2>6. Serialized(s) \in C
    BY <2>1
  <2>. QED BY <2>4, <2>5, <2>6
<1>2. CASE s # <<>>
  <2>. DEFINE e == [i \in 1 .. Len(s) |-> Entry(s[i])]
  <2>1. PICK f : Flattens(f, e, Len(s)) /\ Serialized(s) = f[Len(s)]
    BY <1>2, SerializedIs
  <2>2. \A i \in 1 .. Len(s) : f[i] = IF i = 1 THEN Entry(s[i]) ELSE f[i - 1] \o Entry(s[i])
    BY <2>1 DEF Flattens
  <2>. HIDE DEF e, C
  <2>. DEFINE Good(m) == f[m] \in C /\ \E off \in [1 .. m -> Nat] : Laid(f[m], s, m, off)
              T == {m \in 1 .. Len(s) : ~Good(m)}
  <2>3. CASE T # {}
    <3>1. T \subseteq Nat
      OBVIOUS
    <3>2. PICK m \in T : \A y \in T : m <= y
      BY <2>3, <3>1, LeastElement
    <3>3. PICK p \in Nat : m = p + 1 /\ p + 1 <= Len(s)
      <4>1. m - 1 \in Nat /\ m = (m - 1) + 1
        OBVIOUS
      <4>. QED BY <4>1
    <3>4. PICK d \in C : /\ f[m] = d \o Entry(s[p + 1])
                         /\ \E off \in [1 .. p -> Nat] : Laid(d, s, p, off)
      <4>0. f[m] = IF m = 1 THEN Entry(s[m]) ELSE f[m - 1] \o Entry(s[m])
        BY <2>2, <3>2
      <4>1. CASE p = 0
        <5>1. Entry(s[1]) = <<>> \o Entry(s[1])
          <6>1. Size[s[1]] \in Nat
            BY <1>2, CountFits DEF Listable
          <6>. QED BY <6>1 DEF Entry
        <5>2. Laid(<<>>, s, 0, [i \in 1 .. 0 |-> 0])
          BY DEF Laid
        <5>3. <<>> \in C
          BY DEF C
        <5>4. f[m] = <<>> \o Entry(s[p + 1])
          BY <3>3, <4>0, <4>1, <5>1
        <5>5. [i \in 1 .. 0 |-> 0] \in [1 .. p -> Nat]
          BY <4>1
        <5>. QED BY <4>1, <5>2, <5>3, <5>4, <5>5
      <4>2. CASE p # 0
        <5>1. p \in 1 .. Len(s) /\ p \notin T
          <6>1. p \in 1 .. Len(s) /\ p < m
            BY <3>3, <4>2
          <6>. QED BY <3>2, <6>1
        <5>2. Good(p)
          BY <5>1
        <5>3. f[m] = f[p] \o Entry(s[p + 1])
          <6>1. m # 1 /\ m - 1 = p
            BY <3>3, <4>2
          <6>. QED BY <3>3, <4>0, <6>1
        <5>. QED BY <5>2, <5>3
      <4>. QED BY <4>1, <4>2
    <3>5. Good(m)
      <4>1. /\ d \o Entry(s[p + 1]) \in Seq(Listable \X (1 .. Count))
            /\ \E off2 \in [1 .. p + 1 -> Nat] : Laid(d \o Entry(s[p + 1]), s, p + 1, off2)
        BY <3>3, <3>4, LaidNext DEF C
      <4>. QED BY <3>3, <3>4, <4>1 DEF C
    <3>. QED BY <3>2, <3>5
  <2>4. CASE T = {}
    <3>1. Len(s) \in 1 .. Len(s)
      BY <1>2
    <3>2. Good(Len(s))
      BY <2>4, <3>1
    <3>. QED BY <2>1, <3>2 DEF C
  <2>. QED BY <2>3, <2>4
<1>. QED BY <1>1, <1>2

(* The names that come and go are finitely many, each with a place of its own.*)
LEMMA MembersFinite ==
  ASSUME NEW P \in SUBSET Members
  PROVE  IsFiniteSet(P) /\ Cardinality(P) \in Nat /\ IsFiniteSet(P \union ToSet(Fixed))
<1>1. ASSUME NEW s, s \in Seq(ToSet(s)) PROVE IsFiniteSet(ToSet(s))
  <2>1. s \in [1 .. Len(s) -> ToSet(s)] /\ Len(s) \in Nat
    BY <1>1
  <2>2. \A t \in ToSet(s) : \E i \in 1 .. Len(s) : s[i] = t
    BY <2>1 DEF ToSet
  <2>3. s \in Surjection(1 .. Len(s), ToSet(s))
    BY <2>1, <2>2 DEF Surjection
  <2>4. IsFiniteSet(1 .. Len(s))
    BY <2>1, FS_Interval
  <2>. QED BY <2>3, <2>4, FS_Surjection
<1>2. IsFiniteSet(Members) /\ IsFiniteSet(ToSet(Fixed))
  BY <1>1, ListsAreSequences DEF Members
<1>3. IsFiniteSet(P)
  BY <1>2, FS_Subset
<1>. QED BY <1>2, <1>3, FS_CardinalityType, FS_Union

(* A name is known by its place.                                              *)
LEMMA PlaceIs ==
  \A n, m \in Members : Place(n) \in Nat /\ (Place(n) = Place(m) => n = m)
<1>1. \A n \in Members : Place(n) \in DOMAIN Alphabet /\ Alphabet[Place(n)] = n
  BY DEF Members, ToSet, Place
<1>2. DOMAIN Alphabet = 1 .. Len(Alphabet)
  BY ListsAreSequences
<1>3. \A n \in Members : Place(n) \in Nat
  BY <1>1, <1>2
<1>. QED BY <1>1, <1>3

(* The entries of a listing.                                                  *)
Entries == ToSet(Fixed) \union present

(* An order has every entry once, the fixed ones first.                       *)
LEMMA OrderIs ==
  ASSUME present \subseteq Members, NEW order \in Orders
  PROVE  /\ order \in Seq(Listable)
         /\ \A i, j \in 1 .. Len(order) : order[i] = order[j] => i = j
         /\ \A i \in 1 .. Len(order) : order[i] \in Entries
         /\ \A n \in Entries : \E i \in 1 .. Len(order) : order[i] = n
         /\ \A i, j \in 1 .. Len(order) : i < j /\ order[j] \in ToSet(Fixed)
              => order[i] \in ToSet(Fixed)
         /\ \A i, j \in 1 .. Len(order) :
              sorted /\ i < j /\ order[i] \in present => Place(order[i]) < Place(order[j])
<1>. DEFINE c == Cardinality(present)
            F == Len(Fixed)
<1>1. PICK o \in SetToSeqs(present) : order = Fixed \o o /\ (sorted => Ascending(o))
  BY DEF Orders
<1>2. /\ IsFiniteSet(present) /\ c \in Nat
      /\ o \in [1 .. c -> present] /\ \A i, j \in 1 .. c : o[i] = o[j] => i = j
  BY <1>1, MembersFinite DEF SetToSeqs
<1>3. \A n \in present : \E i \in 1 .. c : o[i] = n
  <2>1. o \in Injection(1 .. c, present)
    BY <1>2 DEF Injection, IsInjective
  <2>2. Cardinality(1 .. c) = c
    BY <1>2, FS_Interval
  <2>3. o \in Surjection(1 .. c, present)
    BY <1>2, <2>1, <2>2, FS_Injection
  <2>. QED BY <2>3 DEF Surjection
<1>4. /\ Fixed \in Seq(Listable) /\ F \in Nat
      /\ \A i \in 1 .. F : Fixed[i] \in ToSet(Fixed)
      /\ \A n \in ToSet(Fixed) : \E i \in 1 .. F : Fixed[i] = n
      /\ \A i, j \in 1 .. F : Fixed[i] = Fixed[j] => i = j
      /\ ToSet(Fixed) \intersect present = {}
  <2>1. Fixed \in Seq(ToSet(Fixed)) /\ DOMAIN Fixed = 1 .. F /\ F \in Nat
    BY ListsAreSequences
  <2>2. Fixed \in [1 .. F -> ToSet(Fixed)]
    BY <2>1
  <2>3. Fixed \in [1 .. F -> Listable]
    BY <2>2 DEF Listable
  <2>4. Fixed \in Seq(Listable)
    BY <2>1, <2>3
  <2>. QED BY <2>1, <2>2, <2>4, ListsAreSets DEF ToSet, IsInjective
<1>5. o \in Seq(Listable) /\ Len(o) = c
  <2>1. o \in [1 .. c -> Listable]
    BY <1>2 DEF Listable
  <2>. QED BY <1>2, <2>1
<1>. HIDE DEF c, F
<1>6. /\ order \in Seq(Listable) /\ Len(order) = F + c
      /\ \A i \in 1 .. F + c : order[i] = IF i <= F THEN Fixed[i] ELSE o[i - F]
  <2>1. Len(Fixed) = F
    BY DEF F
  <2>2. /\ Fixed \o o \in Seq(Listable) /\ Len(Fixed \o o) = Len(Fixed) + Len(o)
        /\ \A i \in 1 .. Len(Fixed) + Len(o) :
             (Fixed \o o)[i] = IF i <= Len(Fixed) THEN Fixed[i] ELSE o[i - Len(Fixed)]
    <3>1. Fixed \in Seq(Listable) /\ o \in Seq(Listable)
      BY <1>4, <1>5
    <3>. QED BY ONLY <3>1, ConcatProperties
  <2>. QED BY <1>1, <1>5, <2>1, <2>2
<1>7. ASSUME NEW i \in 1 .. F + c
      PROVE  \/ i \in 1 .. F /\ order[i] = Fixed[i] /\ order[i] \in ToSet(Fixed)
             \/ i - F \in 1 .. c /\ order[i] = o[i - F] /\ order[i] \in present /\ i > F
  BY <1>2, <1>4, <1>6
<1>8. ASSUME NEW i \in 1 .. F + c, NEW j \in 1 .. F + c, order[i] = order[j]
      PROVE  i = j
  <2>1. \/ i \in 1 .. F /\ j \in 1 .. F
        \/ i - F \in 1 .. c /\ j - F \in 1 .. c /\ o[i - F] = o[j - F] /\ i > F /\ j > F
    BY <1>4, <1>7, <1>8
  <2>2. i - F = j - F => i = j
    BY <1>2, <1>4
  <2>. QED BY <1>2, <1>4, <1>7, <1>8, <2>1, <2>2
<1>9. ASSUME NEW n \in Entries PROVE \E i \in 1 .. F + c : order[i] = n
  <2>1. CASE n \in ToSet(Fixed)
    <3>1. PICK i \in 1 .. F : Fixed[i] = n
      BY <1>4, <2>1
    <3>2. i \in 1 .. F + c /\ i <= F
      BY <1>2, <1>4
    <3>. QED BY <1>6, <3>1, <3>2
  <2>2. CASE n \in present
    <3>1. PICK i \in 1 .. c : o[i] = n
      BY <1>3, <2>2
    <3>2. F + i \in 1 .. F + c /\ ~(F + i <= F) /\ (F + i) - F = i
      BY <1>2, <1>4
    <3>. QED BY <1>6, <3>1, <3>2
  <2>. QED BY <2>1, <2>2 DEF Entries
<1>10. ASSUME NEW i \in 1 .. F + c, NEW j \in 1 .. F + c, sorted, i < j, order[i] \in present
       PROVE  Place(order[i]) < Place(order[j])
  <2>1. i - F \in 1 .. c /\ order[i] = o[i - F] /\ i > F
    BY <1>4, <1>7, <1>10
  <2>2. j - F \in 1 .. c /\ order[j] = o[j - F] /\ i - F < j - F
    <3>1. j > F
      BY <1>4, <1>10, <2>1
    <3>2. j - F \in 1 .. c /\ order[j] = o[j - F]
      BY <1>4, <1>7, <3>1
    <3>. QED BY <1>2, <1>4, <1>10, <2>1, <3>2
  <2>3. DOMAIN o = 1 .. c
    BY <1>2
  <2>. QED BY <1>1, <1>10, <2>1, <2>2, <2>3 DEF Ascending
<1>11. ASSUME NEW i \in 1 .. F + c, NEW j \in 1 .. F + c, i < j, order[j] \in ToSet(Fixed)
       PROVE  order[i] \in ToSet(Fixed)
  <2>1. j \in 1 .. F
    BY <1>4, <1>7, <1>11
  <2>2. i \in 1 .. F
    BY <1>4, <1>11, <2>1
  <2>. QED BY <1>4, <1>7, <2>2
<1>12. \A i \in 1 .. F + c : order[i] \in Entries
  BY <1>7 DEF Entries
<1>. QED BY <1>6, <1>8, <1>9, <1>10, <1>11, <1>12

------------------------------------------------------------------------------
(* How the entries lie in the data of a listing: off[n] cells are before n.   *)
Lies(d, off) ==
    /\ d \in Seq(Listable \X (1 .. Count))
    /\ off \in [Entries -> Nat]
    /\ \A n \in Entries : \A k \in 1 .. Size[n] : off[n] + k \in 1 .. Len(d)
         /\ d[off[n] + k] = <<n, k>>
    /\ \A j \in 1 .. Len(d) : \E n \in Entries : \E k \in 1 .. Size[n] : j = off[n] + k
    /\ \A n, m \in Entries : off[m] < off[n] => off[m] + Size[m] <= off[n]
    /\ sorted => \A n \in present : \A m \in Entries :
                   off[m] < off[n] <=> m \in ToSet(Fixed) \/ Place(m) < Place(n)

LEMMA DataLies ==
  ASSUME present \subseteq Members, NEW order \in Orders
  PROVE  \E off : Lies(Serialized(order), off)
<1>. DEFINE d == Serialized(order)
            L == Len(order)
<1>1. /\ order \in Seq(Listable) /\ L \in Nat
      /\ \A i, j \in 1 .. L : order[i] = order[j] => i = j
      /\ \A i \in 1 .. L : order[i] \in Entries
      /\ \A n \in Entries : \E i \in 1 .. L : order[i] = n
      /\ \A i, j \in 1 .. L : i < j /\ order[j] \in ToSet(Fixed) => order[i] \in ToSet(Fixed)
      /\ \A i, j \in 1 .. L : sorted /\ i < j /\ order[i] \in present
           => Place(order[i]) < Place(order[j])
  BY OrderIs
<1>2. d \in Seq(Listable \X (1 .. Count)) /\ \E f \in [1 .. L -> Nat] : Laid(d, order, L, f)
  BY <1>1, SerializedLaid
<1>. HIDE DEF d, L
<1>3. PICK f \in [1 .. L -> Nat] : Laid(d, order, L, f)
  BY <1>2
<1>. DEFINE pos == [n \in Entries |-> CHOOSE i \in 1 .. L : order[i] = n]
            off == [n \in Entries |-> f[pos[n]]]
<1>4. \A n \in Entries : pos[n] \in 1 .. L /\ order[pos[n]] = n
  BY <1>1
<1>5. \A n \in Entries : off[n] = f[pos[n]]
  OBVIOUS
<1>6. off \in [Entries -> Nat]
  BY <1>3, <1>4
<1>. HIDE DEF pos, off
<1>7. \A n \in Entries : \A k \in 1 .. Size[n] : off[n] + k \in 1 .. Len(d)
          /\ d[off[n] + k] = <<n, k>>
  <2>. SUFFICES ASSUME NEW n \in Entries, NEW k \in 1 .. Size[n]
                PROVE  off[n] + k \in 1 .. Len(d) /\ d[off[n] + k] = <<n, k>>
    OBVIOUS
  <2>1. PICK i \in 1 .. L : i = pos[n] /\ order[i] = n
    BY <1>4
  <2>2. f[i] + k \in 1 .. Len(d) /\ d[f[i] + k] = <<order[i], k>>
    BY <1>3, <2>1 DEF Laid
  <2>. QED BY <1>5, <2>1, <2>2
<1>8. ASSUME NEW j \in 1 .. Len(d) PROVE \E n \in Entries : \E k \in 1 .. Size[n] : j = off[n] + k
  <2>1. PICK i \in 1 .. L : \E k \in 1 .. Size[order[i]] : j = f[i] + k
    BY <1>3 DEF Laid
  <2>2. order[i] \in Entries /\ pos[order[i]] = i
    BY <1>1, <1>4
  <2>. QED BY <1>5, <2>1, <2>2
<1>9. \A n \in Entries : Size[n] \in Nat \ {0}
  BY CountFits DEF Entries
<1>10. ASSUME NEW n \in Entries, NEW m \in Entries PROVE off[m] < off[n] <=> pos[m] < pos[n]
  <2>1. pos[m] < pos[n] => off[m] + Size[m] <= off[n]
    BY <1>3, <1>4, <1>5 DEF Laid
  <2>2. pos[n] < pos[m] => off[n] + Size[n] <= off[m]
    BY <1>3, <1>4, <1>5 DEF Laid
  <2>3. pos[n] = pos[m] \/ pos[m] < pos[n] \/ pos[n] < pos[m]
    BY <1>1, <1>4
  <2>4. off[n] \in Nat /\ off[m] \in Nat /\ pos[n] \in Nat /\ pos[m] \in Nat
    BY <1>1, <1>4, <1>6
  <2>5. pos[n] = pos[m] => off[m] = off[n]
    BY <1>5
  <2>. QED BY <1>9, <2>1, <2>2, <2>3, <2>4, <2>5
<1>11. \A n, m \in Entries : off[m] < off[n] => off[m] + Size[m] <= off[n]
  BY <1>3, <1>4, <1>5, <1>10 DEF Laid
<1>12. ASSUME sorted, NEW n \in present, NEW m \in Entries
       PROVE  pos[m] < pos[n] <=> m \in ToSet(Fixed) \/ Place(m) < Place(n)
  <2>0. n \in Entries /\ n \notin ToSet(Fixed) /\ n \in Members
    BY ListsAreSets DEF Entries
  <2>1. pos[n] \in Nat /\ pos[m] \in Nat
    BY <1>1, <1>4, <2>0
  <2>2. CASE m \in ToSet(Fixed)
    <3>1. ~(pos[n] < pos[m])
      BY <1>1, <1>4, <2>0, <2>2
    <3>2. pos[n] # pos[m]
      BY <1>4, <2>0, <2>2
    <3>. QED BY <2>1, <2>2, <3>1, <3>2
  <2>3. CASE m \notin ToSet(Fixed)
    <3>1. m \in present /\ m \in Members
      BY <2>3 DEF Entries
    <3>a. PICK i \in 1 .. L, j \in 1 .. L : i = pos[m] /\ j = pos[n] /\ order[i] = m
                   /\ order[j] = n
      BY <1>4, <2>0
    <3>2. pos[m] < pos[n] => Place(m) < Place(n)
      BY <1>1, <1>12, <3>1, <3>a
    <3>3. pos[n] < pos[m] => Place(n) < Place(m)
      BY <1>1, <1>12, <3>1, <3>a
    <3>4. pos[n] = pos[m] => n = m
      BY <1>4, <2>0
    <3>5. Place(n) \in Nat /\ Place(m) \in Nat
      BY <2>0, <3>1, PlaceIs
    <3>. QED BY <2>1, <2>3, <3>2, <3>3, <3>4, <3>5
  <2>. QED BY <2>2, <2>3
<1>13. sorted => \A n \in present : \A m \in Entries :
                   off[m] < off[n] <=> m \in ToSet(Fixed) \/ Place(m) < Place(n)
  BY <1>10, <1>12 DEF Entries
<1>. QED BY <1>2, <1>6, <1>7, <1>8, <1>11, <1>13 DEF Lies, d

(* A cell is a piece of an entry.                                             *)
LEMMA CellsAre == Cells = Listable \X (1 .. Count)
BY DEF Cells, Listable

(* The cells of some names are finitely many.                                 *)
LEMMA CellsFinite ==
  ASSUME NEW Q \in SUBSET Listable
  PROVE  IsFiniteSet(CellsOf(Q))
<1>1. IsFiniteSet(Listable)
  BY MembersFinite DEF Listable
<1>2. IsFiniteSet(1 .. Count)
  BY CountFits, FS_Interval
<1>3. IsFiniteSet(Q \X (1 .. Count))
  BY <1>1, <1>2, FS_Subset, FS_Product
<1>. QED BY <1>3, FS_Subset DEF CellsOf

(* The cells before a name, when those of P are present and listed by name.   *)
Ahead(P, n) == ToSet(Fixed) \union {m \in P : Place(m) < Place(n)}
Before(P, n) == Cardinality(CellsOf(Ahead(P, n)))

(* With more names, an entry lies further back.                               *)
LEMMA MovesBack ==
  ASSUME NEW Q \in SUBSET Members, NEW P \in SUBSET Q, NEW n
  PROVE  Before(P, n) \in Nat /\ Before(Q, n) \in Nat /\ Before(P, n) <= Before(Q, n)
<1>1. Ahead(P, n) \in SUBSET Listable /\ Ahead(Q, n) \in SUBSET Listable
  BY DEF Ahead, Listable
<1>2. IsFiniteSet(CellsOf(Ahead(P, n))) /\ IsFiniteSet(CellsOf(Ahead(Q, n)))
  BY <1>1, CellsFinite
<1>3. CellsOf(Ahead(P, n)) \subseteq CellsOf(Ahead(Q, n))
  BY DEF CellsOf, Ahead
<1>4. Cardinality(CellsOf(Ahead(P, n))) <= Cardinality(CellsOf(Ahead(Q, n)))
  BY <1>2, <1>3, FS_Subset
<1>5. Cardinality(CellsOf(Ahead(P, n))) \in Nat /\ Cardinality(CellsOf(Ahead(Q, n))) \in Nat
  BY <1>2, FS_CardinalityType
<1>. QED BY <1>4, <1>5 DEF Before

(* No cell is there twice.                                                    *)
LEMMA CellCount ==
  ASSUME NEW d, NEW off, Lies(d, off), NEW L \in 0 .. Len(d)
  PROVE  Cardinality({d[j] : j \in 1 .. L}) = L
<1>. DEFINE T == {d[j] : j \in 1 .. L}
            f == [j \in 1 .. L |-> d[j]]
<1>0. Len(d) \in Nat
  BY DEF Lies
<1>1. ASSUME NEW j \in 1 .. Len(d)
      PROVE  \E n \in Entries : \E k \in Nat : j = off[n] + k /\ d[j] = <<n, k>>
  <2>1a. PICK n \in Entries : \E k \in 1 .. Size[n] : j = off[n] + k
    BY DEF Lies
  <2>1. PICK k \in 1 .. Size[n] : j = off[n] + k
    BY <2>1a
  <2>2. d[off[n] + k] = <<n, k>>
    BY DEF Lies
  <2>. QED BY <2>1, <2>2
<1>2. \A i, j \in 1 .. Len(d) : d[i] = d[j] => i = j
  BY <1>1
<1>3. f \in Bijection(1 .. L, T)
  <2>1. f \in [1 .. L -> T] /\ \A t \in T : \E j \in 1 .. L : f[j] = t
    OBVIOUS
  <2>2. \A i, j \in 1 .. L : f[i] = f[j] => i = j
    BY <1>0, <1>2
  <2>. QED BY <2>1, <2>2 DEF Bijection, Injection, Surjection, IsInjective
<1>4. ExistsBijection(1 .. L, T)
  BY <1>3 DEF ExistsBijection
<1>. QED BY <1>0, <1>4, FS_CountingElements

(* So the length of a listing depends on what is listed alone, and the offset *)
(* of an entry on what is listed before it.                                   *)
LEMMA Lengths ==
  ASSUME present \subseteq Members, NEW d, NEW off, Lies(d, off)
  PROVE  /\ Len(d) = Cardinality(CellsOf(Entries))
         /\ sorted => \A n \in present : off[n] = Before(present, n)
<1>0. /\ d \in Seq(Listable \X (1 .. Count)) /\ Len(d) \in Nat
      /\ \A n \in Entries : off[n] \in Nat /\ Size[n] \in Nat \ {0} /\ Size[n] <= Count
      /\ Count \in Nat
  BY CountFits DEF Lies, Entries
<1>1. \A j \in 1 .. Len(d) : \E n \in Entries : \E k \in 1 .. Size[n] : j = off[n] + k
          /\ d[j] = <<n, k>>
  BY DEF Lies
<1>2. \A n \in Entries : \A k \in 1 .. Size[n] : off[n] + k \in 1 .. Len(d)
          /\ d[off[n] + k] = <<n, k>>
  BY DEF Lies
<1>3. \A n \in Entries : \A k \in 1 .. Size[n] : k \in 1 .. Count /\ <<n, k>> \in CellsOf(Entries)
  BY <1>0 DEF CellsOf
<1>4. {d[j] : j \in 1 .. Len(d)} = CellsOf(Entries)
  <2>1. ASSUME NEW j \in 1 .. Len(d) PROVE d[j] \in CellsOf(Entries)
    BY <1>1, <1>3
  <2>2. ASSUME NEW c \in CellsOf(Entries) PROVE \E j \in 1 .. Len(d) : d[j] = c
    <3>1. c[1] \in Entries /\ c[2] \in 1 .. Size[c[1]] /\ c = <<c[1], c[2]>>
      BY <1>0 DEF CellsOf
    <3>. QED BY <1>2, <3>1
  <2>. QED BY <2>1, <2>2
<1>5. ASSUME sorted, NEW n \in present PROVE off[n] = Before(present, n)
  <2>0. n \in Entries /\ off[n] \in 0 .. Len(d)
    <3>1. n \in Entries /\ 1 \in 1 .. Size[n]
      BY <1>0 DEF Entries
    <3>2. off[n] + 1 \in 1 .. Len(d)
      BY <1>2, <3>1
    <3>. QED BY <1>0, <3>1, <3>2
  <2>1. \A m \in Entries : off[m] < off[n] <=> m \in Ahead(present, n)
    <3>1. \A m \in Entries : off[m] < off[n] <=> m \in ToSet(Fixed) \/ Place(m) < Place(n)
      BY <1>5 DEF Lies
    <3>. QED BY <3>1 DEF Entries, Ahead
  <2>2. Ahead(present, n) \subseteq Entries
    BY DEF Ahead, Entries
  <2>3. ASSUME NEW j \in 1 .. off[n] PROVE d[j] \in CellsOf(Ahead(present, n))
    <3>0. j \in 1 .. Len(d)
      BY <1>0, <2>0
    <3>1a. PICK m \in Entries : \E k \in 1 .. Size[m] : j = off[m] + k /\ d[j] = <<m, k>>
      BY <1>1, <3>0
    <3>1. PICK k \in 1 .. Size[m] : j = off[m] + k /\ d[j] = <<m, k>>
      BY <3>1a
    <3>2. off[m] < off[n]
      BY <1>0, <2>0, <3>1
    <3>. QED BY <1>3, <2>1, <3>1, <3>2 DEF CellsOf
  <2>4. ASSUME NEW c \in CellsOf(Ahead(present, n)) PROVE \E j \in 1 .. off[n] : d[j] = c
    <3>1. /\ c[1] \in Ahead(present, n) /\ c[1] \in Entries
          /\ c[2] \in 1 .. Size[c[1]] /\ c = <<c[1], c[2]>>
      BY <1>0, <2>2 DEF CellsOf
    <3>2. off[c[1]] + Size[c[1]] <= off[n]
      BY <2>0, <2>1, <3>1 DEF Lies
    <3>3. off[c[1]] + c[2] \in 1 .. off[n]
      BY <1>0, <2>0, <3>1, <3>2
    <3>. QED BY <1>2, <3>1, <3>3
  <2>5. {d[j] : j \in 1 .. off[n]} = CellsOf(Ahead(present, n))
    BY <2>3, <2>4
  <2>. QED BY <2>0, <2>5, CellCount DEF Before
<1>6. Len(d) \in 0 .. Len(d)
  BY <1>0
<1>. QED BY <1>4, <1>5, <1>6, CellCount

(* The data consists of whole entries, and has the head of each name once.    *)
LEMMA DataWhole ==
  ASSUME present \subseteq Members, NEW d, NEW off, Lies(d, off), NEW j \in 1 .. Len(d)
  PROVE  /\ j > 1 /\ IsHead(d[j]) => IsLast(d[j - 1])
         /\ ~IsHead(d[j]) => j > 1 /\ d[j - 1] = <<d[j][1], d[j][2] - 1>>
         /\ j = Len(d) => IsLast(d[j])
         /\ j < Len(d) /\ IsLast(d[j]) => IsHead(d[j + 1])
         /\ \A n \in Members : d[j] = <<n, 1>> <=> n \in present /\ j = off[n] + 1
<1>0. /\ d \in Seq(Listable \X (1 .. Count)) /\ Len(d) \in Nat
      /\ \A n \in Entries : off[n] \in Nat /\ Size[n] \in Nat \ {0}
  <2>1. \A n \in Entries : Size[n] \in Nat \ {0}
    BY CountFits DEF Entries
  <2>. QED BY <2>1 DEF Lies
<1>1. \A i \in 1 .. Len(d) : \E n \in Entries : \E k \in 1 .. Size[n] : i = off[n] + k
          /\ d[i] = <<n, k>>
  BY DEF Lies
<1>2. \A n \in Entries : \A k \in 1 .. Size[n] : off[n] + k \in 1 .. Len(d)
          /\ d[off[n] + k] = <<n, k>>
  BY DEF Lies
<1>3a. PICK n \in Entries : \E k \in 1 .. Size[n] : j = off[n] + k /\ d[j] = <<n, k>>
  BY <1>1
<1>3. PICK k \in 1 .. Size[n] : j = off[n] + k /\ d[j] = <<n, k>>
  BY <1>3a
<1>4. ASSUME NEW i \in 1 .. Len(d), NEW m \in Entries, NEW l \in 1 .. Size[m],
             i = off[m] + l, d[i] = <<m, l>>, l # Size[m]
      PROVE  i + 1 \in 1 .. Len(d) /\ d[i + 1] = <<m, l + 1>>
  <2>1. l + 1 \in 1 .. Size[m] /\ i + 1 = off[m] + (l + 1)
    BY <1>0, <1>4
  <2>. QED BY <1>2, <2>1
<1>5. ASSUME j > 1, IsHead(d[j]) PROVE IsLast(d[j - 1])
  <2>1. j - 1 \in 1 .. Len(d)
    BY <1>0, <1>5
  <2>2a. PICK m \in Entries : \E l \in 1 .. Size[m] : j - 1 = off[m] + l /\ d[j - 1] = <<m, l>>
    BY <1>1, <2>1
  <2>2. PICK l \in 1 .. Size[m] : j - 1 = off[m] + l /\ d[j - 1] = <<m, l>>
    BY <2>2a
  <2>3. l # Size[m] => d[j] = <<m, l + 1>>
    <3>1. (j - 1) + 1 = j
      BY <1>0
    <3>. QED BY <1>4, <2>1, <2>2, <3>1
  <2>4. l + 1 # 1
    BY <1>0, <2>2
  <2>. QED BY <1>5, <2>2, <2>3, <2>4 DEF IsHead, IsLast
<1>6. ASSUME ~IsHead(d[j]) PROVE j > 1 /\ d[j - 1] = <<d[j][1], d[j][2] - 1>>
  <2>1. k # 1 /\ d[j][1] = n /\ d[j][2] = k
    BY <1>3, <1>6 DEF IsHead
  <2>2. k - 1 \in 1 .. Size[n] /\ j - 1 = off[n] + (k - 1) /\ j > 1
    BY <1>0, <1>3, <2>1
  <2>. QED BY <1>2, <2>1, <2>2
<1>7. ASSUME j = Len(d) PROVE IsLast(d[j])
  <2>1. k = Size[n]
    BY <1>0, <1>3, <1>4, <1>7
  <2>. QED BY <1>3, <2>1 DEF IsLast
<1>8. ASSUME j < Len(d), IsLast(d[j]) PROVE IsHead(d[j + 1])
  <2>1. j + 1 \in 1 .. Len(d)
    BY <1>0, <1>8
  <2>2a. PICK m \in Entries : \E l \in 1 .. Size[m] : j + 1 = off[m] + l /\ d[j + 1] = <<m, l>>
    BY <1>1, <2>1
  <2>2. PICK l \in 1 .. Size[m] : j + 1 = off[m] + l /\ d[j + 1] = <<m, l>>
    BY <2>2a
  <2>3. CASE l # 1
    <3>0. off[m] \in Nat /\ Size[m] \in Nat /\ l \in Nat /\ j \in Nat /\ j + 1 = off[m] + l
      BY <1>0, <2>2
    <3>1. l - 1 \in 1 .. Size[m] /\ j = off[m] + (l - 1) /\ l - 1 # Size[m]
      BY <2>3, <3>0
    <3>2. d[j] = <<m, l - 1>>
      BY <1>2, <3>1
    <3>. QED BY <1>8, <3>1, <3>2 DEF IsLast
  <2>. QED BY <2>2, <2>3 DEF IsHead
<1>9. ASSUME NEW m \in Members PROVE d[j] = <<m, 1>> <=> m \in present /\ j = off[m] + 1
  <2>1. m \in Entries <=> m \in present
    BY ListsAreSets DEF Entries
  <2>2. m \in Entries => 1 \in 1 .. Size[m]
    BY <1>0
  <2>. QED BY <1>2, <1>3, <2>1, <2>2
<1>. QED BY <1>5, <1>6, <1>7, <1>8, <1>9

(* A listing by name has one order only.                                      *)
LEMMA OneOrder ==
  ASSUME present \subseteq Members, sorted, NEW x \in Orders, NEW y \in Orders
  PROVE  x = y
<1>. DEFINE c == Cardinality(present)
<1>1. PICK p \in SetToSeqs(present) : x = Fixed \o p /\ Ascending(p)
  BY DEF Orders
<1>2. PICK q \in SetToSeqs(present) : y = Fixed \o q /\ Ascending(q)
  BY DEF Orders
<1>3. c \in Nat /\ IsFiniteSet(present) /\ IsFiniteSet(1 .. c) /\ Cardinality(1 .. c) = c
  <2>1. c \in Nat /\ IsFiniteSet(present)
    BY MembersFinite
  <2>. HIDE DEF c
  <2>2. IsFiniteSet(1 .. c) /\ Cardinality(1 .. c) = c
    BY <2>1, FS_Interval
  <2>. QED BY <2>1, <2>2
<1>4. ASSUME NEW o \in SetToSeqs(present)
      PROVE  /\ o \in [1 .. c -> present]
             /\ \A i, j \in 1 .. c : o[i] = o[j] => i = j
             /\ \A n \in present : \E i \in 1 .. c : o[i] = n
  <2>1. o \in [1 .. c -> present] /\ \A i, j \in 1 .. c : o[i] = o[j] => i = j
    BY DEF SetToSeqs
  <2>2. o \in Injection(1 .. c, present)
    BY <2>1 DEF Injection, IsInjective
  <2>3. o \in Surjection(1 .. c, present)
    BY <1>3, <2>2, FS_Injection
  <2>. QED BY <2>1, <2>3 DEF Surjection
<1>5. ASSUME NEW a \in SetToSeqs(present), NEW b \in SetToSeqs(present), Ascending(a),
             NEW i \in 1 .. c, \A j \in 1 .. c : j < i => a[j] = b[j], a[i] # b[i]
      PROVE  Place(a[i]) < Place(b[i])
  <2>1. b[i] \in present
    BY <1>4
  <2>2. PICK j \in 1 .. c : a[j] = b[i]
    BY <1>4, <2>1
  <2>3. j # i
    BY <1>5, <2>2
  <2>4. ~(j < i)
    <3>1. j < i => b[j] = b[i]
      BY <1>5, <2>2
    <3>. QED BY <1>4, <2>3, <3>1
  <2>5. i < j /\ DOMAIN a = 1 .. c
    BY <1>3, <1>4, <2>3, <2>4
  <2>6. Place(a[i]) < Place(a[j])
    BY <1>5, <2>5 DEF Ascending
  <2>. QED BY <2>2, <2>6
<1>. HIDE DEF c
<1>. DEFINE T == {i \in 1 .. c : p[i] # q[i]}
<1>6. CASE T # {}
  <2>1. T \subseteq Nat
    OBVIOUS
  <2>2. PICK i \in T : \A j \in T : i <= j
    BY <1>6, <2>1, LeastElement
  <2>3. i \in 1 .. c /\ p[i] # q[i] /\ \A j \in 1 .. c : j < i => p[j] = q[j]
    BY <2>2
  <2>4. Place(p[i]) < Place(q[i]) /\ Place(q[i]) < Place(p[i])
    BY <1>1, <1>2, <1>5, <2>3
  <2>5. p[i] \in Members /\ q[i] \in Members
    BY <1>1, <1>2, <1>4, <2>3
  <2>. QED BY <2>4, <2>5, PlaceIs
<1>7. CASE T = {}
  <2>1. p \in [1 .. c -> present] /\ q \in [1 .. c -> present]
    BY <1>4
  <2>2. \A i \in 1 .. c : p[i] = q[i]
    BY <1>7
  <2>3. p = [i \in 1 .. c |-> p[i]] /\ q = [i \in 1 .. c |-> q[i]]
    BY ONLY <2>1
  <2>4. [i \in 1 .. c |-> p[i]] = [i \in 1 .. c |-> q[i]]
    BY ONLY <2>2
  <2>5. p = q
    BY ONLY <2>3, <2>4
  <2>. QED BY <1>1, <1>2, <2>5
<1>. QED BY <1>6, <1>7

------------------------------------------------------------------------------
(* What a read that lists in this order and returns m cells does.             *)
ReadsFrom(d, m) ==
    /\ got' \in Seq(Cells) /\ Len(got') = Len(got) + m
    /\ \A j \in 1 .. Len(got) : got'[j] = got[j]
    /\ \A j \in Len(got) + 1 .. Len(got) + m : j \in 1 .. Len(d) /\ got'[j] = d[j]
    /\ torn' = (torn \/ (Len(got) < Len(d) /\ ~IsHead(d[Len(got) + 1])))
    /\ phase' = IF m = 0 THEN "done" ELSE "listing"
    /\ reads' = IF m = 0 THEN reads ELSE reads + 1
    /\ Len(got) < Len(d) /\ IsHead(d[Len(got) + 1]) =>
         /\ m > 0 /\ IsLast(d[Len(got) + m])
         /\ \A l \in Len(got) + m + 1 .. Len(d) : l <= Len(got) + Count => ~IsLast(d[l])

(* Every read is of that kind: whole entries from the head of one on, and     *)
(* only there.                                                                *)
LEMMA ReadIs ==
  ASSUME ListTypeOK, Read
  PROVE  \E order \in Orders : \E m \in 0 .. Count : ReadsFrom(Serialized(order), m)
<1>1. PICK order \in Orders :
        LET data == Serialized(order)
            rest == SubSeq(data, Len(got) + 1, Len(data)) IN
        /\ torn' = (torn \/ (rest # <<>> /\ ~IsHead(rest[1])))
        /\ \E reply \in Replies(rest) :
            /\ got' = got \o reply
            /\ phase' = IF reply = <<>> THEN "done" ELSE "listing"
            /\ reads' = IF reply = <<>> THEN reads ELSE reads + 1
  BY DEF Read
<1>2. order \in Seq(Listable)
  BY OrderIs DEF ListTypeOK
<1>. DEFINE d == Serialized(order)
            g == Len(got)
            rest == SubSeq(d, g + 1, Len(d))
<1>3. d \in Seq(Cells) /\ Len(d) \in Nat /\ got \in Seq(Cells) /\ g \in Nat
  BY <1>2, SerializedLaid, CellsAre DEF ListTypeOK
<1>4. PICK reply \in Replies(rest) :
        /\ got' = got \o reply
        /\ phase' = IF reply = <<>> THEN "done" ELSE "listing"
        /\ reads' = IF reply = <<>> THEN reads ELSE reads + 1
  BY <1>1
<1>5. torn' = (torn \/ (rest # <<>> /\ ~IsHead(rest[1])))
  BY <1>1
<1>. HIDE DEF d, g
<1>6. /\ rest \in Seq(Cells) /\ Len(rest) = IF g < Len(d) THEN Len(d) - g ELSE 0
      /\ \A k \in 1 .. Len(rest) : g + k \in 1 .. Len(d) /\ rest[k] = d[g + k]
  BY <1>3
<1>. HIDE DEF rest
<1>7. PICK m \in 0 .. Count :
        /\ m <= Len(rest) /\ reply \in Seq(Cells) /\ Len(reply) = m
        /\ \A k \in 1 .. m : reply[k] = rest[k]
        /\ rest # <<>> /\ IsHead(rest[1]) =>
             m > 0 /\ IsLast(rest[m]) /\ \A l \in m + 1 .. Len(rest) : l <= Count
                 => ~IsLast(rest[l])
  <2>1. CASE rest = <<>>
    <3>1. reply = <<>> /\ 0 \in 0 .. Count
      BY <2>1, CountFits DEF Replies
    <3>2. 0 <= Len(rest) /\ <<>> \in Seq(Cells) /\ Len(<<>>) = 0
      BY <1>6
    <3>. QED BY <2>1, <3>1, <3>2
  <2>2. CASE rest # <<>>
    <3>1. PICK m \in 0 .. AtMost(Len(rest)) :
            /\ reply = SubSeq(rest, 1, m)
            /\ IsHead(rest[1]) => m > 0 /\ IsLast(rest[m])
                 /\ \A l \in m + 1 .. AtMost(Len(rest)) : ~IsLast(rest[l])
      BY <2>2 DEF Replies, Fitting
    <3>2. m \in 0 .. Count /\ m <= Len(rest)
          /\ \A l \in m + 1 .. Len(rest) : l <= Count => l \in m + 1 .. AtMost(Len(rest))
      BY <1>6, CountFits DEF AtMost
    <3>3. SubSeq(rest, 1, m) \in Seq(Cells) /\ Len(SubSeq(rest, 1, m)) = m
          /\ \A k \in 1 .. m : SubSeq(rest, 1, m)[k] = rest[k]
      BY <1>6, <3>2
    <3>. QED BY <3>1, <3>2, <3>3
  <2>. QED BY <2>1, <2>2
<1>8. /\ got' \in Seq(Cells) /\ Len(got') = g + m
      /\ \A j \in 1 .. g : got'[j] = got[j]
      /\ \A j \in g + 1 .. g + m : got'[j] = reply[j - g]
  <2>1. Len(got) = g
    BY DEF g
  <2>2. /\ got \o reply \in Seq(Cells) /\ Len(got \o reply) = Len(got) + Len(reply)
        /\ \A j \in 1 .. Len(got) + Len(reply) :
             (got \o reply)[j] = IF j <= Len(got) THEN got[j] ELSE reply[j - Len(got)]
    <3>1. got \in Seq(Cells) /\ reply \in Seq(Cells)
      BY <1>3, <1>7
    <3>. QED BY ONLY <3>1, ConcatProperties
  <2>. QED BY <1>3, <1>4, <1>7, <2>1, <2>2
<1>9. ASSUME NEW j \in g + 1 .. g + m PROVE j \in 1 .. Len(d) /\ got'[j] = d[j]
  <2>1. j - g \in 1 .. m /\ j - g \in 1 .. Len(rest) /\ g + (j - g) = j
    BY <1>3, <1>6, <1>7
  <2>. QED BY <1>6, <1>7, <1>8, <2>1
<1>10. /\ reply = <<>> <=> m = 0
       /\ rest # <<>> <=> g < Len(d)
       /\ rest # <<>> => rest[1] = d[g + 1]
  BY <1>3, <1>6, <1>7
<1>11. ASSUME g < Len(d), IsHead(d[g + 1])
       PROVE  m > 0 /\ IsLast(d[g + m]) /\ \A l \in g + m + 1 .. Len(d) : l <= g + Count
                  => ~IsLast(d[l])
  <2>1. m > 0 /\ IsLast(rest[m]) /\ \A l \in m + 1 .. Len(rest) : l <= Count => ~IsLast(rest[l])
    BY <1>7, <1>10, <1>11
  <2>2. m \in 1 .. Len(rest)
    BY <1>7, <2>1
  <2>3. IsLast(d[g + m])
    BY <1>6, <2>1, <2>2
  <2>4. ASSUME NEW l \in g + m + 1 .. Len(d), l <= g + Count PROVE ~IsLast(d[l])
    <3>1. l - g \in m + 1 .. Len(rest) /\ l - g \in 1 .. Len(rest) /\ l - g <= Count
              /\ g + (l - g) = l
      BY <1>3, <1>6, <2>4, CountFits
    <3>. QED BY <1>6, <2>1, <3>1
  <2>. QED BY <2>1, <2>3, <2>4
<1>12. ReadsFrom(d, m)
  BY <1>4, <1>5, <1>8, <1>9, <1>10, <1>11 DEF ReadsFrom, g
<1>. QED BY <1>12 DEF d

(* A kept name the client has not seen is not behind its offset while names   *)
(* only come.                                                                 *)
KeptAhead ==
    sorted /\ removed = {} => \A n \in kept : Shown(n) = {} => Len(got) <= Before(present, n)

(* A name the client has seen is behind its offset, and was seen once, while  *)
(* names only go.                                                             *)
ShownBehind ==
    sorted /\ added = {} =>
        \A n \in Members :
            /\ \A i, j \in Shown(n) : i = j
            /\ n \in present /\ Shown(n) # {} => Before(present, n) < Len(got)

(* A listing that ends at the end has shown the kept names.                   *)
EndsComplete ==
    phase = "done" /\ sorted /\ ~torn /\ removed = {} => \A n \in kept : Shown(n) # {}

(* What the client has is the beginning of the data, up to the head of an     *)
(* entry.                                                                     *)
Begins(gs, d) ==
    /\ Len(gs) <= Len(d) /\ \A j \in 1 .. Len(gs) : gs[j] = d[j]
    /\ Len(gs) < Len(d) => IsHead(d[Len(gs) + 1])

(* An undisturbed listing follows one order; that of /s has all at once.      *)
FollowsOrder ==
    added = {} /\ removed = {} /\ (sorted \/ FitsOneRead) =>
        /\ ~torn
        /\ \/ got = <<>> /\ phase # "done"
           \/ \E order \in Orders :
                /\ Begins(got, Serialized(order))
                /\ phase = "done" => Len(got) = Len(Serialized(order))
                /\ sorted \/ Len(got) \in {0, Len(Serialized(order))}

(* The inductive invariant of reading a directory.                            *)
LInv == ListTypeOK /\ WholeEntries /\ KeptAhead /\ ShownBehind /\ EndsComplete /\ FollowsOrder

(* When the directory is opened, nothing has been shown or missed.            *)
LEMMA ListInitLInv == ListInit => LInv
<1>. SUFFICES ASSUME ListInit PROVE LInv
  OBVIOUS
<1>1. ListTypeOK
  <2>1. Len(<<>>) <= 0 * Count /\ <<>> \in Seq(Cells)
    BY CountFits
  <2>2. Len(got) <= reads * Count /\ got \in Seq(Cells)
    BY <2>1 DEF ListInit
  <2>3. changes \in 0 .. MaxChanges /\ reads \in Nat
    BY MaxChangesNat DEF ListInit
  <2>4. torn \in BOOLEAN
    BY DEF ListInit
  <2>. QED BY <2>2, <2>3, <2>4 DEF ListInit, ListTypeOK
<1>2. \A n : Shown(n) = {}
  BY DEF ListInit, Shown
<1>3. KeptAhead
  <2>1. \A n : Before(present, n) \in Nat
    BY MovesBack DEF ListInit
  <2>. QED BY <2>1 DEF ListInit, KeptAhead
<1>4. WholeEntries
  BY DEF ListInit, WholeEntries
<1>. QED BY <1>1, <1>2, <1>3, <1>4 DEF ListInit, LInv, ShownBehind, EndsComplete, FollowsOrder

(* What a read appends is the data from the offset on, so a name that is      *)
(* there is shown by the read that passes its head, and by no other.          *)
LEMMA ReadLInv ==
  ASSUME LInv, Read
  PROVE  LInv'
<1>. DEFINE g == Len(got)
<1>0. /\ ListTypeOK /\ WholeEntries /\ present \subseteq Members /\ kept \subseteq present
      /\ got \in Seq(Cells) /\ g \in Nat /\ Count \in Nat /\ reads \in Nat
      /\ torn \in BOOLEAN /\ phase # "done"
      /\ UNCHANGED <<sorted, present, kept, added, removed, changes>>
  BY CountFits DEF LInv, ListTypeOK, Read
<1>1. PICK order \in Orders : \E m \in 0 .. Count : ReadsFrom(Serialized(order), m)
  BY <1>0, ReadIs
<1>2. PICK m \in 0 .. Count : ReadsFrom(Serialized(order), m)
  BY <1>1
<1>3. PICK off : Lies(Serialized(order), off)
  BY <1>0, DataLies
<1>. DEFINE d == Serialized(order)
<1>4. /\ got' \in Seq(Cells) /\ Len(got') = g + m
      /\ \A j \in 1 .. g : got'[j] = got[j]
      /\ \A j \in g + 1 .. g + m : j \in 1 .. Len(d) /\ got'[j] = d[j]
      /\ torn' = (torn \/ (g < Len(d) /\ ~IsHead(d[g + 1])))
      /\ phase' = IF m = 0 THEN "done" ELSE "listing"
      /\ reads' = IF m = 0 THEN reads ELSE reads + 1
      /\ g < Len(d) /\ IsHead(d[g + 1]) =>
           /\ m > 0 /\ IsLast(d[g + m])
           /\ \A l \in g + m + 1 .. Len(d) : l <= g + Count => ~IsLast(d[l])
  BY <1>2 DEF ReadsFrom
<1>5. Len(d) \in Nat /\ \A n \in present : off[n] \in Nat /\ off[n] + 1 \in 1 .. Len(d)
  <2>1. \A n \in present : n \in Entries /\ 1 \in 1 .. Size[n]
    BY <1>0, CountFits DEF Entries
  <2>. QED BY <1>3, <2>1 DEF Lies
<1>6. \A j \in 1 .. Len(d) :
        /\ j > 1 /\ IsHead(d[j]) => IsLast(d[j - 1])
        /\ ~IsHead(d[j]) => j > 1 /\ d[j - 1] = <<d[j][1], d[j][2] - 1>>
        /\ j = Len(d) => IsLast(d[j])
        /\ j < Len(d) /\ IsLast(d[j]) => IsHead(d[j + 1])
        /\ \A n \in Members : d[j] = <<n, 1>> <=> n \in present /\ j = off[n] + 1
  BY <1>0, <1>3, DataWhole
<1>7. /\ Len(d) = Cardinality(CellsOf(Entries))
      /\ sorted => \A n \in present : off[n] = Before(present, n)
  BY <1>0, <1>3, Lengths
<1>. HIDE DEF d, g
<1>8. ASSUME NEW n \in Members
      PROVE  \A i : i \in Shown(n)' <=> \/ i \in Shown(n)
                                        \/ n \in present /\ i = off[n] + 1 /\ i \in g + 1 .. g + m
  <2>1. DOMAIN got = 1 .. g /\ DOMAIN got' = 1 .. g + m
    BY <1>0, <1>4 DEF g
  <2>2. \A i : i \in 1 .. g + m <=> i \in 1 .. g \/ i \in g + 1 .. g + m
    BY <1>0
  <2>3. \A i \in g + 1 .. g + m : got'[i] = <<n, 1>> <=> n \in present /\ i = off[n] + 1
    BY <1>4, <1>6
  <2>. QED BY <1>4, <2>1, <2>2, <2>3 DEF Shown
<1>9. \A n \in Members : Shown(n) \subseteq 1 .. g
  BY <1>0 DEF Shown, g
<1>10. ListTypeOK'
  <2>1. reads' \in Nat /\ Len(got') <= reads' * Count
    <3>1. g <= reads * Count /\ reads * Count \in Nat
      BY <1>0 DEF ListTypeOK, g
    <3>2. (reads + 1) * Count = reads * Count + Count
      BY <1>0
    <3>. QED BY <1>0, <1>4, <3>1, <3>2
  <2>2. torn' \in BOOLEAN /\ phase' \in {"opened", "listing", "done"}
    BY <1>4
  <2>. QED BY <1>0, <1>4, <2>1, <2>2 DEF ListTypeOK
<1>11. WholeEntries'
  <2>. SUFFICES ASSUME ~torn', NEW i \in 1 .. g + m
                PROVE  /\ i > 1 /\ IsHead(got'[i]) => IsLast(got'[i - 1])
                       /\ ~IsHead(got'[i]) => i > 1
                            /\ got'[i - 1] = <<got'[i][1], got'[i][2] - 1>>
                       /\ i = g + m => IsLast(got'[i])
    BY <1>4 DEF WholeEntries, IsHead, IsLast
  <2>1. ~torn /\ (g < Len(d) => IsHead(d[g + 1]))
    BY <1>4
  <2>2. \A k \in 1 .. g :
          /\ k > 1 /\ IsHead(got[k]) => IsLast(got[k - 1])
          /\ ~IsHead(got[k]) => k > 1 /\ got[k - 1] = <<got[k][1], got[k][2] - 1>>
          /\ k = g => IsLast(got[k])
    BY <1>0, <2>1 DEF WholeEntries, g
  <2>3. CASE i \in 1 .. g
    <3>1. got'[i] = got[i] /\ (i > 1 => i - 1 \in 1 .. g /\ got'[i - 1] = got[i - 1])
      BY <1>0, <1>4, <2>3
    <3>2. i = g + m => i = g
      BY <1>0, <2>3
    <3>. QED BY <2>2, <2>3, <3>1, <3>2
  <2>4. CASE i \in g + 1 .. g + m
    <3>0. m > 0 /\ g + 1 \in 1 .. Len(d) /\ g < Len(d) /\ i \in 1 .. Len(d) /\ got'[i] = d[i]
      <4>1. m > 0 /\ g + 1 \in g + 1 .. g + m
        BY <1>0, <2>4
      <4>2. g + 1 \in 1 .. Len(d)
        BY <1>4, <4>1
      <4>. QED BY <1>0, <1>4, <1>5, <2>4, <4>1, <4>2
    <3>1. IsHead(d[g + 1]) /\ IsLast(d[g + m])
      BY <1>4, <2>1, <3>0
    <3>2. CASE i = g + 1
      <4>1. i > 1 => i - 1 = g /\ g \in 1 .. g /\ got'[g] = got[g]
        BY <1>0, <1>4, <3>2
      <4>. QED BY <2>2, <3>0, <3>1, <3>2, <4>1
    <3>3. CASE i # g + 1
      <4>1. i - 1 \in g + 1 .. g + m /\ got'[i - 1] = d[i - 1]
        BY <1>0, <1>4, <2>4, <3>3
      <4>. QED BY <1>6, <3>0, <3>1, <4>1
    <3>. QED BY <3>2, <3>3
  <2>. QED BY <1>0, <2>3, <2>4
<1>12. KeptAhead'
  <2>. SUFFICES ASSUME sorted, removed = {}, NEW n \in kept, Shown(n)' = {}
                PROVE  g + m <= Before(present, n)
    BY <1>0, <1>4 DEF KeptAhead
  <2>1. n \in present /\ n \in Members /\ Shown(n) = {} /\ off[n] + 1 \notin g + 1 .. g + m
    BY <1>0, <1>8
  <2>2. g <= off[n]
    BY <1>7, <2>1 DEF LInv, KeptAhead, g
  <2>. QED BY <1>0, <1>5, <1>7, <2>1, <2>2
<1>13. ShownBehind'
  <2>. SUFFICES ASSUME sorted, added = {}, NEW n \in Members
                PROVE  /\ \A i, j \in Shown(n)' : i = j
                       /\ n \in present /\ Shown(n)' # {} => Before(present, n) < g + m
    BY <1>0, <1>4 DEF ShownBehind
  <2>1. /\ \A i, j \in Shown(n) : i = j
        /\ n \in present /\ Shown(n) # {} => off[n] < g
    BY <1>7 DEF LInv, ShownBehind, g
  <2>2. \A i, j \in Shown(n)' : i = j
    <3>1. n \in present /\ Shown(n) # {} => off[n] + 1 \notin g + 1 .. g + m
      BY <1>0, <1>5, <2>1
    <3>. QED BY <1>8, <2>1, <3>1
  <2>3. n \in present /\ Shown(n)' # {} => off[n] < g + m
    <3>1. n \in present /\ off[n] + 1 \in g + 1 .. g + m => off[n] < g + m
      BY <1>0, <1>5
    <3>2. n \in present /\ off[n] < g => off[n] < g + m
      BY <1>0, <1>5
    <3>. QED BY <1>8, <2>1, <3>1, <3>2
  <2>. QED BY <1>7, <2>2, <2>3
<1>14. EndsComplete'
  <2>. SUFFICES ASSUME phase' = "done", sorted, ~torn', removed = {}, NEW n \in kept,
                           Shown(n)' = {}
                PROVE  FALSE
    BY <1>0 DEF EndsComplete
  <2>1. n \in present /\ n \in Members /\ Shown(n) = {}
    BY <1>0, <1>8
  <2>2. g <= off[n]
    BY <1>7, <2>1 DEF LInv, KeptAhead, g
  <2>3. m = 0
    BY <1>4
  <2>4. g < Len(d)
    BY <1>0, <1>5, <2>1, <2>2
  <2>5. IsHead(d[g + 1])
    BY <1>4, <2>4
  <2>6. m > 0
    BY <1>4, <2>4, <2>5
  <2>. QED BY <2>3, <2>6
<1>15. FollowsOrder'
  <2>1. Orders' = Orders /\ (FitsOneRead' <=> FitsOneRead)
    <3>1. Orders' = Orders
      BY <1>0 DEF Orders
    <3>. QED BY <3>1 DEF FitsOneRead
  <2>. SUFFICES ASSUME added = {}, removed = {}, sorted \/ FitsOneRead
                PROVE  /\ ~torn'
                       /\ \E o \in Orders : /\ Begins(got', Serialized(o))
                                            /\ phase' = "done" => g + m = Len(Serialized(o))
                                            /\ sorted \/ g + m \in {0, Len(Serialized(o))}
    BY <1>0, <1>4, <2>1 DEF FollowsOrder
  <2>2. ~torn /\ \/ got = <<>>
                 \/ \E o \in Orders : /\ Begins(got, Serialized(o))
                                      /\ sorted \/ g \in {0, Len(Serialized(o))}
    BY <1>0 DEF LInv, FollowsOrder, g
  <2>3. ASSUME Begins(got, d), sorted \/ g = 0 \/ g = Len(d)
        PROVE  /\ ~torn' /\ Begins(got', d)
               /\ phase' = "done" => g + m = Len(d)
               /\ sorted \/ g + m \in {0, Len(d)}
    <3>1. /\ g <= Len(d) /\ \A j \in 1 .. g : got[j] = d[j]
          /\ g < Len(d) => IsHead(d[g + 1])
      BY <2>3 DEF Begins, g
    <3>2. ~torn'
      BY <1>4, <2>2, <3>1
    <3>3. g + m <= Len(d) /\ \A j \in 1 .. g + m : got'[j] = d[j]
      <4>1. m > 0 => g + m \in g + 1 .. g + m
        BY <1>0
      <4>2. g + m <= Len(d)
        BY <1>0, <1>4, <1>5, <3>1, <4>1
      <4>3. \A j \in 1 .. g + m : j \in 1 .. g \/ j \in g + 1 .. g + m
        BY <1>0
      <4>. QED BY <1>4, <3>1, <4>2, <4>3
    <3>4. CASE g = Len(d)
      <4>1. m = 0
        BY <1>0, <3>3, <3>4
      <4>. QED BY <1>0, <1>4, <3>1, <3>2, <3>3, <3>4, <4>1 DEF Begins
    <3>5. CASE g # Len(d)
      <4>1. /\ g < Len(d) /\ m > 0 /\ IsLast(d[g + m])
            /\ \A l \in g + m + 1 .. Len(d) : l <= g + Count => ~IsLast(d[l])
        BY <1>0, <1>4, <1>5, <3>1, <3>5
      <4>2. g + m < Len(d) => IsHead(d[g + m + 1])
        <5>1. g + m \in 1 .. Len(d)
          BY <1>0, <1>5, <3>3, <4>1
        <5>. QED BY <1>6, <4>1, <5>1
      <4>3. phase' # "done"
        BY <1>4, <4>1
      <4>4. ASSUME ~sorted PROVE g + m = Len(d)
        <5>1. g = 0 /\ Len(d) <= Count
          BY <2>3, <3>5, <4>4 DEF FitsOneRead, d
        <5>2. Len(d) \in 1 .. Len(d) /\ IsLast(d[Len(d)])
          BY <1>0, <1>5, <1>6, <4>1
        <5>. QED BY <1>0, <1>5, <3>3, <4>1, <5>1, <5>2
      <4>. QED BY <1>4, <3>2, <3>3, <4>2, <4>3, <4>4 DEF Begins
    <3>. QED BY <3>4, <3>5
  <2>4. CASE g = 0
    <3>1. Begins(got, d)
      <4>1. 1 \in 1 .. Len(d) => IsHead(d[1])
        BY <1>6
      <4>. QED BY <1>0, <1>5, <2>4, <4>1 DEF Begins, g
    <3>. QED BY <2>3, <2>4, <3>1 DEF d
  <2>5. CASE g # 0
    <3>1. PICK o \in Orders : /\ Begins(got, Serialized(o))
                              /\ sorted \/ g \in {0, Len(Serialized(o))}
      BY <2>2, <2>5 DEF g
    <3>2. CASE sorted
      <4>1. o = order
        BY <1>0, <3>1, <3>2, OneOrder
      <4>. QED BY <2>3, <3>1, <3>2, <4>1 DEF d
    <3>3. CASE ~sorted
      <4>1. g = Len(Serialized(o)) /\ Len(Serialized(o)) = Len(d)
        <5>1. PICK f : Lies(Serialized(o), f)
          BY <1>0, DataLies
        <5>2. Len(Serialized(o)) = Cardinality(CellsOf(Entries))
          BY <1>0, <5>1, Lengths
        <5>. QED BY <1>7, <2>5, <3>1, <3>3, <5>2
      <4>2. m = 0
        <5>1. m > 0 => g + m \in g + 1 .. g + m
          BY <1>0
        <5>. QED BY <1>0, <1>4, <1>5, <4>1, <5>1
      <4>3. ~torn'
        BY <1>0, <1>4, <2>2, <4>1
      <4>4. Begins(got', Serialized(o))
        BY <1>0, <1>4, <3>1, <4>1, <4>2 DEF Begins, g
      <4>. QED BY <1>0, <4>1, <4>2, <4>3, <4>4
    <3>. QED BY <3>2, <3>3
  <2>. QED BY <2>4, <2>5
<1>. QED BY <1>10, <1>11, <1>12, <1>13, <1>14, <1>15 DEF LInv

(* Names that come move the others back, names that go move them up.          *)
LEMMA ChangeLInv ==
  ASSUME LInv, NEW n \in Members, Come(n) \/ Go(n)
  PROVE  LInv'
<1>0. /\ ListTypeOK /\ WholeEntries /\ present \subseteq Members /\ kept \subseteq present
      /\ got \in Seq(Cells) /\ Len(got) \in Nat /\ phase # "done"
      /\ UNCHANGED <<sorted, phase, got, reads, torn>>
  BY DEF LInv, ListTypeOK, Come, Go
<1>1. ListTypeOK'
  <2>1. changes' \in 0 .. MaxChanges
    BY <1>0, MaxChangesNat DEF ListTypeOK, Come, Go
  <2>2. present' \subseteq Members /\ kept' \subseteq present' /\ added' \subseteq Members
            /\ removed' \subseteq Members
    BY <1>0 DEF ListTypeOK, Come, Go
  <2>. QED BY <1>0, <2>1, <2>2 DEF ListTypeOK
<1>2. \A x : Shown(x)' = Shown(x)
  BY <1>0 DEF Shown
<1>3. WholeEntries' /\ EndsComplete'
  BY <1>0 DEF WholeEntries, EndsComplete
<1>4. added' # {} \/ removed' # {}
  BY DEF Come, Go
<1>5. FollowsOrder'
  BY <1>4 DEF FollowsOrder
<1>6. CASE Come(n)
  <2>1. present' = present \union {n} /\ kept' = kept /\ removed' = removed /\ added' # {}
    BY <1>6 DEF Come
  <2>2. present' \in SUBSET Members /\ present \in SUBSET present'
    BY <1>0, <2>1
  <2>3. \A x : /\ Before(present, x) \in Nat /\ Before(present', x) \in Nat
               /\ Before(present, x) <= Before(present', x)
    BY <2>2, MovesBack
  <2>4. KeptAhead'
    <3>. SUFFICES ASSUME sorted, removed = {}, NEW x \in kept, Shown(x) = {}
                  PROVE  Len(got) <= Before(present', x)
      BY <1>0, <1>2, <2>1 DEF KeptAhead
    <3>1. Len(got) <= Before(present, x)
      BY DEF LInv, KeptAhead
    <3>. QED BY <1>0, <2>3, <3>1
  <2>5. ShownBehind'
    BY <2>1 DEF ShownBehind
  <2>. QED BY <1>1, <1>3, <1>5, <2>4, <2>5 DEF LInv
<1>7. CASE Go(n)
  <2>1. present' = present \ {n} /\ added' = added /\ removed' # {}
    BY <1>7 DEF Go
  <2>2. present \in SUBSET Members /\ present' \in SUBSET present
    BY <1>0, <2>1
  <2>3. \A x : /\ Before(present, x) \in Nat /\ Before(present', x) \in Nat
               /\ Before(present', x) <= Before(present, x)
    BY <2>2, MovesBack
  <2>4. KeptAhead'
    BY <2>1 DEF KeptAhead
  <2>5. ShownBehind'
    <3>. SUFFICES ASSUME sorted, added = {}, NEW x \in Members
                  PROVE  /\ \A i, j \in Shown(x) : i = j
                         /\ x \in present' /\ Shown(x) # {} => Before(present', x) < Len(got)
      BY <1>0, <1>2, <2>1 DEF ShownBehind
    <3>1. /\ \A i, j \in Shown(x) : i = j
          /\ x \in present /\ Shown(x) # {} => Before(present, x) < Len(got)
      BY DEF LInv, ShownBehind
    <3>2. ASSUME x \in present', Shown(x) # {} PROVE Before(present', x) < Len(got)
      <4>1. Before(present, x) < Len(got)
        BY <2>1, <3>1, <3>2
      <4>. QED BY <1>0, <2>3, <4>1
    <3>. QED BY <3>1, <3>2
  <2>. QED BY <1>1, <1>3, <1>5, <2>4, <2>5 DEF LInv
<1>. QED BY <1>6, <1>7

(* Every read, and every change of the directory, preserves it.               *)
LEMMA ListNextLInv == LInv /\ [ListNext]_listVars => LInv'
<1>. SUFFICES ASSUME LInv, [ListNext]_listVars PROVE LInv'
  OBVIOUS
<1>1. CASE Read
  BY <1>1, ReadLInv
<1>2. CASE \E n \in Members : Come(n) \/ Go(n)
  BY <1>2, ChangeLInv
<1>3. CASE UNCHANGED listVars
  <2>1. /\ sorted' = sorted /\ present' = present /\ phase' = phase /\ got' = got
        /\ reads' = reads /\ torn' = torn /\ kept' = kept /\ added' = added
        /\ removed' = removed /\ changes' = changes
    BY <1>3 DEF listVars
  <2>2. ListTypeOK' /\ WholeEntries'
    BY <2>1 DEF LInv, ListTypeOK, WholeEntries
  <2>3. \A n : Shown(n)' = Shown(n)
    BY <2>1 DEF Shown
  <2>4. KeptAhead' /\ ShownBehind' /\ EndsComplete'
    BY <2>1, <2>3 DEF LInv, KeptAhead, ShownBehind, EndsComplete
  <2>5. FollowsOrder'
    <3>1. Orders' = Orders
      BY <2>1 DEF Orders
    <3>2. FitsOneRead' <=> FitsOneRead
      BY <3>1 DEF FitsOneRead
    <3>. QED BY <2>1, <3>1, <3>2 DEF LInv, FollowsOrder
  <2>. QED BY <2>2, <2>4, <2>5 DEF LInv
<1>. QED BY <1>1, <1>2, <1>3 DEF ListNext

(* So it holds at all times.                                                  *)
LEMMA ListInvariance == ListSpec => []LInv
<1>. QED BY ListInitLInv, ListNextLInv, PTL DEF ListSpec

(* No read returns more than its count or ends inside an entry, as long as no *)
(* name changed under the reader (readDir, server.go 1396-1430), whatever the *)
(* entries and their sizes are.                                               *)
THEOREM RepliesAlwaysFit == ListSpec => []RepliesFit
<1>1. LInv => RepliesFit
  BY DEF LInv, RepliesFit
<1>. QED BY <1>1, ListInvariance, PTL

(* At the end of an undisturbed listing the client has all data of one order, *)
(* which has the head of each name once.                                      *)
LEMMA QuietIsExact == LInv => QuietListingExact
<1>. SUFFICES ASSUME LInv, phase = "done", added = {}, removed = {}, sorted \/ FitsOneRead
              PROVE  ~torn /\ \A n \in Members : Cardinality(Shown(n)) = IF n \in present THEN 1
                         ELSE 0
  BY DEF QuietListingExact
<1>1. present \subseteq Members /\ got \in Seq(Cells)
  BY DEF LInv, ListTypeOK
<1>2. PICK order \in Orders : Begins(got, Serialized(order)) /\ Len(got) = Len(Serialized(order))
  BY DEF LInv, FollowsOrder
<1>3. ~torn
  BY DEF LInv, FollowsOrder
<1>. DEFINE d == Serialized(order)
<1>4. PICK off : Lies(d, off)
  BY <1>1, DataLies
<1>5. \A j \in 1 .. Len(d) : \A n \in Members : d[j] = <<n, 1>> <=> n \in present
          /\ j = off[n] + 1
  BY <1>1, <1>4, DataWhole
<1>6. \A n \in present : off[n] + 1 \in 1 .. Len(d)
  <2>1. \A n \in present : n \in Entries /\ 1 \in 1 .. Size[n]
    BY <1>1, CountFits DEF Entries
  <2>. QED BY <1>4, <2>1 DEF Lies
<1>7. DOMAIN got = 1 .. Len(d) /\ \A j \in 1 .. Len(d) : got[j] = d[j]
  BY <1>1, <1>2 DEF Begins
<1>. HIDE DEF d
<1>8. ASSUME NEW n \in Members
      PROVE  Cardinality(Shown(n)) = IF n \in present THEN 1 ELSE 0
  <2>1. \A j : j \in Shown(n) <=> j \in 1 .. Len(d) /\ n \in present /\ j = off[n] + 1
    BY <1>5, <1>7 DEF Shown
  <2>2. CASE n \in present
    <3>1. Shown(n) = {off[n] + 1}
      BY <1>6, <2>1, <2>2
    <3>. QED BY <2>2, <3>1, FS_Singleton
  <2>3. CASE n \notin present
    <3>1. Shown(n) = {}
      BY <2>1, <2>3
    <3>. QED BY <2>3, <3>1, FS_EmptySet
  <2>. QED BY <2>2, <2>3
<1>. QED BY <1>3, <1>8

(* A listing that nobody disturbed has every name once, for directories of    *)
(* any size, and for /s when one read can hold it (readDir, server.go         *)
(* 1386-1427; the order of the sessions, session.go 193-221).                 *)
THEOREM QuietListingsExact == ListSpec => []QuietListingExact
BY QuietIsExact, ListInvariance, PTL

(* A directory listed by name loses no lasting name while others come and     *)
(* shows none twice while others go (readDir, server.go 1386-1427).           *)
THEOREM ShiftsAreOneWay == ListSpec => []ShiftsOneWay
<1>1. LInv => ShiftsOneWay
  BY DEF LInv, EndsComplete, ShownBehind, ShiftsOneWay
<1>. QED BY <1>1, ListInvariance, PTL

------------------------------------------------------------------------------
(* THE FILES                                                                  *)

USE RootsPositive, TextsApart, NotTexts

(* A first copy, and what an answer told of a name, with the disk as it is.   *)
First(r, n) == Shows(r, n) /\ \A q \in 1 .. r - 1 : ~Shows(q, n)

Told(n, v) ==
    /\ v = Absent => \A r \in 1 .. Roots : ~Shows(r, n)
    /\ v \in Texts => \E r \in 1 .. Roots : First(r, n) /\ text[entry[r][n]] = v

(* What the locals of a request are while it is under way.                    *)
LocalsOK ==
    /\ was \in [Fids -> Texts \union {Absent, Unknown}]
    /\ alone \in [Fids -> BOOLEAN]
    /\ \A h \in Fids : Busy(h) => to[h] \in Names /\ at[h] \in 1 .. Roots
    /\ \A h \in Fids : Busy(h) /\ op[h] = "rename" => to[h] # name[h]
    /\ \A h \in Fids : pc[h] = "writing" => op[h] = "write" /\ node[h] \in Inodes
    /\ \A h \in Fids : pc[h] = "find" => dir = "sk"
    /\ \A h \in Fids : Busy(h) /\ dir # "sk" => at[h] = 1

(* No file has two names, and only /sk has more roots than one.               *)
Placed ==
    /\ \A r, s \in 1 .. Roots : \A k, n \in AllNames :
         entry[r][k] = entry[s][n] /\ entry[r][k] # NoFile => r = s /\ k = n
    /\ dir # "sk" => \A r \in 1 .. Roots : \A k \in AllNames : r # 1 => entry[r][k] = NoFile

(* Of two requests that touch the same name, none relies on it.               *)
Apart ==
    \A g, h \in Fids :
        g # h /\ Busy(g) /\ Busy(h) /\ Touched(g) \intersect Touched(h) # {} => ~alone[g]

(* Nothing is promised of the names a request under way touches.              *)
Silent == \A h \in Fids : Busy(h) => \A k \in Touched(h) : ledger[k] = Unknown

(* A write that nobody disturbed has its file under its name, still empty.    *)
Stored ==
    \A h \in Fids : pc[h] = "writing" /\ alone[h] =>
        entry[at[h]][name[h]] = node[h] /\ text[node[h]] = <<>>

(* A request that nobody disturbed found the first copy.                      *)
Foremost ==
    \A h \in Fids : pc[h] \in {"found", "writing"} /\ alone[h] =>
        \A r \in 1 .. at[h] - 1 : ~Shows(r, name[h])

(* A rename that nobody disturbed moves what the ledger has of its old name.  *)
Moves ==
    \A h \in Fids : Busy(h) /\ alone[h] /\ op[h] = "rename" /\ dir # "sk" => Told(name[h], was[h])

(* The ledger is true, of every name.                                         *)
Honest == \A n \in AllNames : Told(n, ledger[n])

(* The inductive invariant of the directories that are kept in files.         *)
IInv ==
    /\ TypeOK
    /\ LocalsOK
    /\ Placed
    /\ Apart
    /\ Silent
    /\ Stored
    /\ Foremost
    /\ Moves
    /\ Honest

(* What was seen in the first r roots are the first copies there.             *)
Firsts(r) == {m \in [name : AllNames, root : 1 .. r] : First(m.root, m.name)}

(* Looking through one more root adds what is first there (ListSkills).       *)
LEMMA SeenStep ==
  ASSUME NEW r \in 1 .. Roots
  PROVE  Firsts(r) = Firsts(r - 1) \union
                        {[name |-> k, root |-> r] :
                           k \in {k \in AllNames : Shows(r, k)
                               /\ \A m \in Firsts(r - 1) : m.name # k}}
<1>1. ASSUME NEW k \in AllNames, Shows(r, k)
      PROVE  First(r, k) \/ \E q \in 1 .. r - 1 : First(q, k)
  <2>. DEFINE T == {q \in 1 .. r : Shows(q, k)}
  <2>1. T \subseteq Nat /\ r \in T
    BY <1>1
  <2>2. PICK q \in T : \A y \in T : q <= y
    BY <2>1, LeastElement
  <2>3. First(q, k)
    BY <2>2 DEF First
  <2>. QED BY <2>3
<1>2. ASSUME NEW k \in AllNames, Shows(r, k)
      PROVE  First(r, k) <=> \A m \in Firsts(r - 1) : m.name # k
  <2>1. CASE First(r, k)
    BY <2>1 DEF First, Firsts
  <2>2. ASSUME NEW q \in 1 .. r - 1, First(q, k) PROVE \E m \in Firsts(r - 1) : m.name = k
    <3>1. [name |-> k, root |-> q] \in Firsts(r - 1)
      BY <2>2 DEF Firsts
    <3>. QED BY <3>1
  <2>3. ASSUME NEW q \in 1 .. r - 1, First(q, k) PROVE ~First(r, k)
    BY <2>3 DEF First
  <2>. QED BY <1>1, <1>2, <2>1, <2>2, <2>3
<1>3. Firsts(r) = Firsts(r - 1)
          \union {[name |-> k, root |-> r] : k \in {k \in AllNames : First(r, k)}}
  <2>1. ASSUME NEW m \in Firsts(r)
        PROVE  m \in Firsts(r - 1) \/ \E k \in AllNames : First(r, k)
                   /\ m = [name |-> k, root |-> r]
    BY DEF Firsts
  <2>2. Firsts(r - 1) \subseteq Firsts(r)
    BY DEF Firsts
  <2>3. ASSUME NEW k \in AllNames, First(r, k) PROVE [name |-> k, root |-> r] \in Firsts(r)
    BY <2>3 DEF Firsts
  <2>. QED BY <2>1, <2>2, <2>3
<1>4. \A k \in AllNames : First(r, k) => Shows(r, k)
  BY DEF First
<1>. QED BY <1>2, <1>3, <1>4

(* What the recursive function has seen are the first copies: the least root  *)
(* where this fails would follow from the one before.                         *)
LEMMA SeenIs == \A r \in 0 .. Roots : Seen[r] = Firsts(r)
<1>. DEFINE Step(r, seen) ==
              seen \union {[name |-> k, root |-> r] :
                             k \in {k \in AllNames : Shows(r, k) /\ \A m \in seen : m.name # k}}
            Law(f) == f = [r \in 0 .. Roots |-> IF r = 0 THEN {} ELSE Step(r, f[r - 1])]
            F == [r \in 0 .. Roots |-> Firsts(r)]
<1>1. Seen = CHOOSE f : Law(f)
  BY DEF Seen
<1>2. Law(F)
  <2>1. ASSUME NEW r \in 0 .. Roots PROVE F[r] = IF r = 0 THEN {} ELSE Step(r, F[r - 1])
    <3>1. CASE r = 0
      BY <3>1 DEF Firsts
    <3>2. CASE r # 0
      <4>1. r \in 1 .. Roots /\ r - 1 \in 0 .. Roots
        BY <3>2
      <4>2. F[r - 1] = Firsts(r - 1) /\ F[r] = Firsts(r)
        BY <4>1
      <4>. QED BY <3>2, <4>1, <4>2, SeenStep
    <3>. QED BY <3>1, <3>2
  <2>. HIDE DEF Step
  <2>. QED BY <2>1
<1>. HIDE DEF Law, F
<1>3. Law(Seen)
  BY <1>1, <1>2
<1>4. ASSUME NEW f, Law(f), NEW r \in 0 .. Roots
      PROVE  f[r] = IF r = 0 THEN {} ELSE Step(r, f[r - 1])
  <2>1. f = [q \in 0 .. Roots |-> IF q = 0 THEN {} ELSE Step(q, f[q - 1])]
    BY <1>4 DEF Law
  <2>. QED BY <2>1
<1>. HIDE DEF Step
<1>. DEFINE T == {r \in 0 .. Roots : Seen[r] # F[r]}
<1>5. CASE T # {}
  <2>1. T \subseteq Nat
    OBVIOUS
  <2>2. PICK r \in T : \A y \in T : r <= y
    BY <1>5, <2>1, LeastElement
  <2>3. /\ Seen[r] = IF r = 0 THEN {} ELSE Step(r, Seen[r - 1])
        /\ F[r] = IF r = 0 THEN {} ELSE Step(r, F[r - 1])
    BY <1>2, <1>3, <1>4, <2>2
  <2>4. r # 0 /\ r - 1 \in 0 .. Roots
    BY <2>2, <2>3
  <2>5. Seen[r - 1] = F[r - 1]
    BY <2>2, <2>4
  <2>. QED BY <2>2, <2>3, <2>5
<1>6. CASE T = {}
  BY <1>6 DEF F
<1>. QED BY <1>5, <1>6

(* A name has one first copy at most, and one if any root shows it.           *)
LEMMA FirstCopy ==
  ASSUME NEW n \in AllNames
  PROVE  /\ \A r, q \in 1 .. Roots : First(r, n) /\ First(q, n) => r = q
         /\ (\E r \in 1 .. Roots : Shows(r, n)) => \E r \in 1 .. Roots : First(r, n)
<1>1. ASSUME NEW r \in 1 .. Roots, NEW q \in 1 .. Roots, First(r, n), First(q, n) PROVE r = q
  BY <1>1 DEF First
<1>2. ASSUME NEW r \in 1 .. Roots, Shows(r, n) PROVE \E q \in 1 .. Roots : First(q, n)
  <2>. DEFINE T == {q \in 1 .. Roots : Shows(q, n)}
  <2>1. T \subseteq Nat /\ T # {}
    BY <1>2
  <2>2. PICK q \in T : \A y \in T : q <= y
    BY <2>1, LeastElement
  <2>. QED BY <2>2 DEF First
<1>. QED BY <1>1, <1>2

(* A lookup finds the first copy, and 0 if there is none.                     *)
LEMMA HomeIs ==
  ASSUME NEW n \in AllNames
  PROVE  /\ Home(n) \in 0 .. Roots
         /\ \A r \in 1 .. Roots : First(r, n) <=> Home(n) = r
         /\ Home(n) = 0 <=> \A r \in 1 .. Roots : ~Shows(r, n)
<1>1. ListSkills = Firsts(Roots)
  BY SeenIs DEF ListSkills
<1>2. CASE \E m \in ListSkills : m.name = n
  <2>. DEFINE m == CHOOSE m \in ListSkills : m.name = n
  <2>1. m \in ListSkills /\ m.name = n /\ Home(n) = m.root
    BY <1>2 DEF Home
  <2>. HIDE DEF m
  <2>2. Home(n) \in 1 .. Roots /\ First(Home(n), n)
    BY <1>1, <2>1 DEF Firsts
  <2>. QED BY <2>2, FirstCopy DEF First
<1>3. CASE ~\E m \in ListSkills : m.name = n
  <2>1. ASSUME NEW r \in 1 .. Roots PROVE ~First(r, n)
    <3>1. First(r, n) => [name |-> n, root |-> r] \in ListSkills
      BY <1>1 DEF Firsts
    <3>. QED BY <1>3, <3>1
  <2>2. Home(n) = 0
    BY <1>3 DEF Home
  <2>. QED BY <2>1, <2>2, FirstCopy DEF First
<1>. QED BY <1>2, <1>3

(* What is listed and what is found are the first copies, in any state.       *)
LEMMA Lookups ==
  ASSUME dir \in Dirs
  PROVE  LookupsAgree
<1>. SUFFICES ASSUME NEW n \in Names
              PROVE  LET rs == {r \in 1 .. Roots : Shows(r, n)} IN
                     /\ Home(n) = IF rs = {} THEN 0 ELSE Min(rs)
                     /\ Listed(n) = (IF Exists(n) THEN 1 ELSE 0)
                                      + (IF Synthetic(n) /\ rs # {} THEN 1 ELSE 0)
  BY DEF LookupsAgree
<1>. DEFINE rs == {r \in 1 .. Roots : Shows(r, n)}
            copies == {m \in ListSkills : m.name = n}
<1>0. n \in AllNames
  BY DEF Names, AllNames
<1>1. Home(n) = IF rs = {} THEN 0 ELSE Min(rs)
  <2>1. CASE rs = {}
    BY <1>0, <2>1, HomeIs
  <2>2. CASE rs # {}
    <3>1. PICK r \in 1 .. Roots : First(r, n)
      BY <1>0, <2>2, FirstCopy
    <3>2. r \in rs /\ \A q \in rs : r <= q
      BY <3>1 DEF First
    <3>3. Min(rs) \in rs /\ \A q \in rs : Min(rs) <= q
      BY <3>2 DEF Min
    <3>4. Min(rs) = r
      BY <3>2, <3>3
    <3>. QED BY <1>0, <2>2, <3>1, <3>4, HomeIs
  <2>. QED BY <2>1, <2>2
<1>2. copies = IF rs = {} THEN {} ELSE {[name |-> n, root |-> Home(n)]}
  <2>1. copies = {m \in Firsts(Roots) : m.name = n}
    BY SeenIs DEF ListSkills
  <2>2. CASE rs = {}
    BY <2>1, <2>2 DEF Firsts, First
  <2>3. CASE rs # {}
    <3>1. Home(n) \in 1 .. Roots /\ First(Home(n), n)
      BY <1>0, <2>3, HomeIs
    <3>2. \A m \in copies : m = [name |-> n, root |-> Home(n)]
      BY <1>0, <2>1, <3>1, FirstCopy DEF Firsts
    <3>3. [name |-> n, root |-> Home(n)] \in copies
      BY <1>0, <2>1, <3>1 DEF Firsts
    <3>. QED BY <2>3, <3>2, <3>3
  <2>. QED BY <2>2, <2>3
<1>3. Cardinality(copies) = IF rs = {} THEN 0 ELSE 1
  BY <1>2, FS_EmptySet, FS_Singleton
<1>4. Home(n) # 0 <=> rs # {}
  BY <1>0, HomeIs
<1>. QED BY <1>1, <1>3, <1>4 DEF Listed, Exists

------------------------------------------------------------------------------
(* The names of the directory are names.                                      *)
LEMMA NamesKnown == \A n \in Names : dir \in Dirs => n \in AllNames
BY DEF Names, AllNames

(* Texts are the sequences that are short enough.                             *)
LEMMA TextsAre == \A t : t \in Texts <=> t \in Seq(Chunks \union {Zero}) /\ Len(t) <= MaxLen
<1>1. ASSUME NEW t, t \in Texts PROVE t \in Seq(Chunks \union {Zero}) /\ Len(t) <= MaxLen
  <2>1. PICK n \in 0 .. MaxLen : t \in [1 .. n -> Chunks \union {Zero}]
    BY <1>1 DEF Texts
  <2>. QED BY <2>1
<1>2. ASSUME NEW t, t \in Seq(Chunks \union {Zero}), Len(t) <= MaxLen PROVE t \in Texts
  <2>1. Len(t) \in 0 .. MaxLen /\ t \in [1 .. Len(t) -> Chunks \union {Zero}]
    BY <1>2
  <2>. QED BY <2>1 DEF Texts
<1>. QED BY <1>1, <1>2

(* What one Twrite makes of an empty buffer is a text.                        *)
LEMMA PutText == \A o \in 0 .. MaxLen - 1 : \A x \in Chunks : Put(<<>>, o, x) \in Texts
<1>. SUFFICES ASSUME NEW o \in 0 .. MaxLen - 1, NEW x \in Chunks PROVE Put(<<>>, o, x) \in Texts
  OBVIOUS
<1>1. Put(<<>>, o, x) \in [1 .. o + 1 -> Chunks \union {Zero}]
  BY DEF Put
<1>. QED BY <1>1 DEF Texts

(* A text over an old one is a text, and over nothing it is what is written.  *)
LEMMA OverText ==
  ASSUME NEW b \in Texts, NEW t \in Texts
  PROVE  /\ b \o SubSeq(t, Len(b) + 1, Len(t)) \in Texts
         /\ t = <<>> => b \o SubSeq(t, Len(b) + 1, Len(t)) = b
<1>1. b \in Seq(Chunks \union {Zero}) /\ t \in Seq(Chunks \union {Zero})
      /\ Len(b) <= MaxLen /\ Len(t) <= MaxLen
  BY TextsAre
<1>. DEFINE rest == SubSeq(t, Len(b) + 1, Len(t))
<1>2. rest \in Seq(Chunks \union {Zero}) /\ Len(rest) = IF Len(b) <= Len(t) THEN Len(t) - Len(b)
          ELSE 0
  BY <1>1
<1>. HIDE DEF rest
<1>3. b \o rest \in Seq(Chunks \union {Zero}) /\ Len(b \o rest) = Len(b) + Len(rest)
  BY <1>1, <1>2
<1>4. Len(b) + Len(rest) <= MaxLen
  BY <1>1, <1>2
<1>5. ASSUME t = <<>> PROVE b \o rest = b
  <2>1. rest = <<>>
    BY <1>1, <1>2, <1>5
  <2>. QED BY <1>1, <2>1
<1>. QED BY <1>3, <1>4, <1>5, TextsAre DEF rest

(* What a request touches: its names, and those of the file it writes.        *)
TouchedLaw ==
    \A h \in Fids : \A k :
        k \in Touched(h) <=> \/ k \in {name[h], to[h]}
                             \/ pc[h] = "writing" /\ k \in AllNames
                                  /\ \E r \in 1 .. Roots : entry[r][k] = node[h]

(* This is what Touched says.                                                 *)
LEMMA TouchedIs == TouchedLaw
<1>. SUFFICES ASSUME NEW h \in Fids, NEW k
              PROVE  k \in Touched(h) <=>
                       \/ k \in {name[h], to[h]}
                       \/ pc[h] = "writing" /\ k \in AllNames
                            /\ \E r \in 1 .. Roots : entry[r][k] = node[h]
  BY DEF TouchedLaw
<1>. DEFINE at_(p) == pc[h] = "writing" /\ entry[p[1]][p[2]] = node[h]
<1>1. k \in Touched(h) <=> k \in {name[h], to[h]} \/ \E p \in Places : at_(p) /\ k = p[2]
  BY DEF Touched
<1>2. (\E p \in Places : at_(p) /\ k = p[2])
        <=> k \in AllNames /\ \E r \in 1 .. Roots : at_(<<r, k>>)
  <2>. HIDE DEF at_
  <2>1. ASSUME NEW p \in Places, at_(p), k = p[2]
        PROVE  k \in AllNames /\ \E r \in 1 .. Roots : at_(<<r, k>>)
    <3>1. p[1] \in 1 .. Roots /\ p[2] \in AllNames /\ p = <<p[1], p[2]>>
      BY DEF Places
    <3>. QED BY <2>1, <3>1
  <2>2. ASSUME k \in AllNames, NEW r \in 1 .. Roots PROVE <<r, k>> \in Places
    BY <2>2 DEF Places
  <2>. QED BY <2>1, <2>2
<1>. QED BY <1>1, <1>2

(* And what it says after a step.                                             *)
LEMMA TouchedIsNext == TouchedLaw'
BY TouchedIs, PTL

(* Nothing happened to the file that the root r has under the name n.         *)
Same(r, n) ==
    entry'[r][n] = entry[r][n] /\ (entry[r][n] # NoFile => text'[entry[r][n]] = text[entry[r][n]])

(* Where nothing happened to the files of a name, lookups find what they      *)
(* found and what was told of it is still true.                               *)
LEMMA SameFirst ==
  ASSUME NEW n \in AllNames, dir' = dir, \A r \in 1 .. Roots : Same(r, n)
  PROVE  /\ \A r \in 1 .. Roots : Shows(r, n)' <=> Shows(r, n)
         /\ \A r \in 1 .. Roots : First(r, n)' <=> First(r, n)
         /\ \A v : Told(n, v) => Told(n, v)'
<1>1. \A r \in 1 .. Roots : Shows(r, n)' <=> Shows(r, n)
  BY DEF Same, Shows
<1>2. \A r \in 1 .. Roots : First(r, n)' <=> First(r, n)
  BY <1>1 DEF First
<1>3. \A r \in 1 .. Roots : First(r, n) => entry'[r][n] = entry[r][n]
          /\ text'[entry[r][n]] = text[entry[r][n]]
  BY DEF First, Shows, Same
<1>. QED BY <1>1, <1>2, <1>3 DEF Told

(* There is always an inode for a new file.                                   *)
LEMMA FreshInode ==
  ASSUME NEW r \in 1 .. Roots, NEW k \in AllNames, entry[r][k] = NoFile,
         TypeOK
  PROVE  \E i \in Inodes : /\ \A p \in Places : entry[p[1]][p[2]] # i
                           /\ \A h \in Fids : pc[h] = "writing" => node[h] # i
<1>. DEFINE Users == ((Places \ {<<r, k>>}) \X {0}) \union (Fids \X {1})
            UsedBy(u) == IF u[2] = 0 THEN entry[u[1][1]][u[1][2]] ELSE node[u[1]]
<1>. SUFFICES ASSUME \A i \in Inodes : \E u \in Users : UsedBy(u) = i
              PROVE  FALSE
  <2>. SUFFICES ASSUME NEW i \in Inodes, \A u \in Users : UsedBy(u) # i
                PROVE  /\ \A p \in Places : entry[p[1]][p[2]] # i
                       /\ \A h \in Fids : pc[h] = "writing" => node[h] # i
    OBVIOUS
  <2>1. ASSUME NEW p \in Places PROVE entry[p[1]][p[2]] # i
    <3>1. CASE p = <<r, k>>
      BY <3>1
    <3>2. CASE p # <<r, k>>
      <4>1. <<p, 0>> \in Users /\ UsedBy(<<p, 0>>) = entry[p[1]][p[2]]
        BY <3>2
      <4>. QED BY <4>1
    <3>. QED BY <3>1, <3>2
  <2>2. ASSUME NEW h \in Fids PROVE node[h] # i
    <3>1. <<h, 1>> \in Users /\ UsedBy(<<h, 1>>) = node[h]
      OBVIOUS
    <3>. QED BY <3>1
  <2>. QED BY <2>1, <2>2
<1>. DEFINE A == Cardinality(AllNames)
<1>1. /\ IsFiniteSet(AllNames) /\ A \in Nat
      /\ IsFiniteSet(Fids) /\ Cardinality(Fids) \in Nat /\ Cardinality(Fids) <= A
  <2>1. Cardinality(AllNames) \in Nat
    BY EnoughInodes, FS_CardinalityType
  <2>2. Cardinality(Fids) \in Nat
    BY EnoughInodes, FS_CardinalityType
  <2>. QED BY <2>1, <2>2, EnoughInodes
<1>. HIDE DEF A
<1>2. IsFiniteSet(Places) /\ Cardinality(Places) = Roots * A
  <2>1. IsFiniteSet(1 .. Roots) /\ Cardinality(1 .. Roots) = Roots
    BY FS_Interval
  <2>2. /\ IsFiniteSet((1 .. Roots) \X AllNames)
        /\ Cardinality((1 .. Roots) \X AllNames) = Cardinality(1 .. Roots) * Cardinality(AllNames)
    BY <1>1, <2>1, FS_Product
  <2>. QED BY <2>1, <2>2 DEF Places, A
<1>3. IsFiniteSet(Inodes) /\ Cardinality(Inodes) = (Roots + 1) * A
  <2>1. IsFiniteSet(0 .. Roots) /\ Cardinality(0 .. Roots) = Roots + 1
    BY FS_Interval
  <2>. QED BY <1>1, <2>1, FS_Product DEF Inodes, A
<1>4. IsFiniteSet(Places \ {<<r, k>>}) /\ Cardinality(Places \ {<<r, k>>}) = Roots * A - 1
  <2>1. <<r, k>> \in Places
    BY DEF Places
  <2>. QED BY <1>2, <2>1, FS_RemoveElement
<1>5. \A S, x : IsFiniteSet(S) => IsFiniteSet(S \X {x}) /\ Cardinality(S \X {x}) = Cardinality(S)
  <2>. SUFFICES ASSUME NEW S, NEW x, IsFiniteSet(S)
                PROVE  IsFiniteSet(S \X {x}) /\ Cardinality(S \X {x}) = Cardinality(S)
    OBVIOUS
  <2>1. IsFiniteSet({x}) /\ Cardinality({x}) = 1 /\ Cardinality(S) \in Nat
    BY FS_Singleton, FS_CardinalityType
  <2>2. IsFiniteSet(S \X {x}) /\ Cardinality(S \X {x}) = Cardinality(S) * 1
    BY <2>1, FS_Product
  <2>. QED BY <2>1, <2>2
<1>6. IsFiniteSet(Users) /\ Cardinality(Users) <= Roots * A - 1 + Cardinality(Fids)
  <2>. DEFINE S == (Places \ {<<r, k>>}) \X {0}
              T == Fids \X {1}
  <2>1. IsFiniteSet(S) /\ Cardinality(S) = Roots * A - 1
    BY <1>4, <1>5
  <2>2. IsFiniteSet(T) /\ Cardinality(T) = Cardinality(Fids)
    BY <1>1, <1>5
  <2>. HIDE DEF S, T
  <2>3. /\ IsFiniteSet(S \union T)
        /\ Cardinality(S \union T) = Cardinality(S) + Cardinality(T) - Cardinality(S \intersect T)
    BY <2>1, <2>2, FS_Union
  <2>4. Cardinality(S \intersect T) \in Nat
    BY <2>1, FS_Intersection, FS_CardinalityType
  <2>5. Roots * A - 1 \in Int /\ Cardinality(Fids) \in Nat
    BY <1>1
  <2>6. Cardinality(S \union T) <= Roots * A - 1 + Cardinality(Fids)
    BY <2>1, <2>2, <2>3, <2>4, <2>5
  <2>. QED BY <2>3, <2>6 DEF S, T
<1>7. Cardinality(Users) < Cardinality(Inodes)
  <2>1. (Roots + 1) * A = Roots * A + A /\ Roots * A \in Nat
    BY <1>1
  <2>2. Cardinality(Users) \in Nat
    BY <1>6, FS_CardinalityType
  <2>. QED BY <1>1, <1>3, <1>6, <2>1, <2>2
<1>. DEFINE f == [i \in Inodes |-> CHOOSE u \in Users : UsedBy(u) = i]
<1>8. f \in [Inodes -> Users] /\ \A i \in Inodes : UsedBy(f[i]) = i
  OBVIOUS
<1>. HIDE DEF f, UsedBy, Users
<1>9. \E i, j \in Inodes : i # j /\ f[i] = f[j]
  BY <1>3, <1>6, <1>7, <1>8, FS_PigeonHole
<1>. QED BY <1>8, <1>9

(* A request that is under way, that may trust its knowledge, and whose name  *)
(* nobody touches, keeps it.                                                  *)
Going(h) ==
    /\ pc'[h] = pc[h] /\ name'[h] = name[h] /\ op'[h] = op[h]
    /\ at'[h] = at[h] /\ node'[h] = node[h] /\ was'[h] = was[h]

(* The last parts of the invariant, for one request.                          *)
StoredBy(h) ==
    pc[h] = "writing" /\ alone[h] => entry[at[h]][name[h]] = node[h] /\ text[node[h]] = <<>>
ForemostBy(h) ==
    pc[h] \in {"found", "writing"} /\ alone[h] => \A r \in 1 .. at[h] - 1 : ~Shows(r, name[h])
MovesBy(h) ==
    Busy(h) /\ alone[h] /\ op[h] = "rename" /\ dir # "sk" => Told(name[h], was[h])
Trusts(h) == StoredBy(h) /\ ForemostBy(h) /\ MovesBy(h)

(* The invariant in these terms.                                              *)
IInvIs == IInv <=> TypeOK /\ LocalsOK /\ Placed /\ Apart /\ Silent /\ Honest
    /\ \A h \in Fids : Trusts(h)
(* It is the conjunction of these parts before a step.                        *)
LEMMA IInvParts == IInvIs
BY DEF IInvIs, IInv, Stored, Foremost, Moves, Trusts, StoredBy, ForemostBy, MovesBy
(* And after it.                                                              *)
LEMMA IInvPartsNext == IInvIs'
BY IInvParts, PTL

(* A fid in use has a name of the directory.                                  *)
LEMMA NameKnown ==
  ASSUME TypeOK, NEW h \in Fids, pc[h] # "free"
  PROVE  name[h] \in Names /\ name[h] \in AllNames
BY NamesKnown DEF TypeOK

(* So has what a request touches.                                             *)
LEMMA TouchedKnown ==
  ASSUME IInv, NEW h \in Fids, Busy(h)
  PROVE  Touched(h) \subseteq AllNames
<1>1. name[h] \in AllNames /\ to[h] \in AllNames
  BY NameKnown, NamesKnown DEF IInv, TypeOK, LocalsOK, Busy
<1>. QED BY <1>1, TouchedIs DEF TouchedLaw

(* It does: a request relies on its name and its locals alone.                *)
LEMMA GoingTrusts ==
  ASSUME IInv, NEW h \in Fids, Going(h), dir' = dir, alone'[h] => alone[h],
         Busy(h) /\ alone'[h] => \A r \in 1 .. Roots : Same(r, name[h])
  PROVE  Trusts(h)'
<1>. USE DEF Going
<1>1. SUFFICES ASSUME Busy(h), alone'[h] PROVE Trusts(h)'
  BY DEF Trusts, StoredBy, ForemostBy, MovesBy, Busy
<1>2. name[h] \in AllNames /\ at[h] \in 1 .. Roots
  BY <1>1, NameKnown DEF IInv, LocalsOK, Busy
<1>3. Trusts(h) /\ alone[h]
  BY <1>1, IInvParts DEF IInvIs
<1>4. /\ \A r \in 1 .. Roots : Shows(r, name[h])' <=> Shows(r, name[h])
      /\ Told(name[h], was[h]) => Told(name[h], was[h])'
  <2>1. PICK n \in AllNames : n = name[h]
    BY <1>2
  <2>2. PICK v : v = was[h]
    OBVIOUS
  <2>3. /\ \A r \in 1 .. Roots : Shows(r, n)' <=> Shows(r, n)
        /\ Told(n, v) => Told(n, v)'
    BY <1>1, <2>1, SameFirst
  <2>4. \A r \in 1 .. Roots : Shows(r, name[h])' <=> Shows(r, n)'
    BY <2>1 DEF Shows
  <2>5. Told(name[h], was[h])' <=> Told(n, v)'
    BY <2>1, <2>2 DEF Told, First, Shows
  <2>. QED BY <2>1, <2>2, <2>3, <2>4, <2>5
<1>5. StoredBy(h)'
  <2>1. Same(at[h], name[h])
    BY <1>1, <1>2
  <2>2. pc[h] = "writing" => node[h] \in Inodes
    BY DEF IInv, LocalsOK
  <2>. QED BY <1>1, <1>3, <2>1, <2>2 DEF Trusts, StoredBy, Same
<1>6. ForemostBy(h)'
  BY <1>1, <1>2, <1>3, <1>4 DEF Trusts, ForemostBy
<1>7. MovesBy(h)'
  BY <1>1, <1>3, <1>4 DEF Trusts, MovesBy, Busy
<1>. QED BY <1>5, <1>6, <1>7 DEF Trusts

(* What was told of a name stays true while nobody touches it.                *)
LEMMA UntouchedTold ==
  ASSUME IInv, dir' = dir, NEW n \in AllNames,
         \/ ledger'[n] = Unknown
         \/ ledger'[n] = ledger[n] /\ \A r \in 1 .. Roots : Same(r, n)
  PROVE  Told(n, ledger[n])'
<1>1. CASE ledger'[n] = Unknown
  BY <1>1 DEF Told
<1>2. CASE ledger'[n] = ledger[n] /\ \A r \in 1 .. Roots : Same(r, n)
  <2>1. Told(n, ledger[n])
    BY DEF IInv, Honest
  <2>. QED BY <1>2, <2>1, SameFirst DEF Told
<1>. QED BY <1>1, <1>2

(* Requests are apart, and the ledger is silent about what they touch, as     *)
(* long as they touch nothing new.                                            *)
LEMMA StayApart ==
  ASSUME Apart, Silent, ledger \in [AllNames -> Texts \union {Absent, Unknown}],
         \A g \in Fids : Busy(g)' => Busy(g) /\ Touched(g)' \subseteq Touched(g)
             /\ (alone'[g] => alone[g]),
         \A g \in Fids : Busy(g)' => \A k \in Touched(g) : ledger'[k] \in {ledger[k], Unknown}
  PROVE  Apart' /\ Silent'
<1>1. Apart'
  BY DEF Apart
<1>2. Silent'
  BY DEF Silent
<1>. QED BY <1>1, <1>2

------------------------------------------------------------------------------
(* The inode a file is opened at is its own, or a new one.                    *)
LEMMA TargetIs ==
  ASSUME TypeOK, Placed, NEW r \in 1 .. Roots, NEW k \in AllNames
  PROVE  /\ Target(r, k) \in Inodes
         /\ \A s \in 1 .. Roots : \A n \in AllNames : entry[s][n] = Target(r, k) => s = r /\ n = k
         /\ \A h \in Fids : pc[h] = "writing" /\ node[h] = Target(r, k) => entry[r][k] = node[h]
<1>1. CASE entry[r][k] # NoFile
  BY <1>1 DEF Target, TypeOK, Placed
<1>2. CASE entry[r][k] = NoFile
  <2>. DEFINE Free(i) == /\ \A p \in Places : entry[p[1]][p[2]] # i
                         /\ \A h \in Fids : pc[h] = "writing" => node[h] # i
  <2>1. \E i \in Inodes : Free(i)
    BY <1>2, FreshInode
  <2>2. Target(r, k) = CHOOSE i \in Inodes : Free(i)
    BY <1>2 DEF Target
  <2>. HIDE DEF Free
  <2>3. Target(r, k) \in Inodes /\ Free(Target(r, k))
    BY <2>1, <2>2
  <2>4. \A s \in 1 .. Roots : \A n \in AllNames : <<s, n>> \in Places
    BY DEF Places
  <2>. QED BY <2>3, <2>4 DEF Free
<1>. QED BY <1>1, <1>2

(* Truncating the file at its place changes nothing else.                     *)
LEMMA TruncatedIs ==
  ASSUME TypeOK, Placed, NEW r \in 1 .. Roots, NEW k \in AllNames, Truncated(r, k, Target(r, k)),
         dir' = dir, dir # "sk" => r = 1
  PROVE  /\ entry' \in [1 .. Roots -> [AllNames -> Inodes \union {NoFile}]]
         /\ text' \in [Inodes -> Texts]
         /\ Placed'
         /\ entry'[r][k] = Target(r, k) /\ text'[Target(r, k)] = <<>>
         /\ \A s \in 1 .. Roots : \A n \in AllNames : s # r \/ n # k => Same(s, n)
<1>. DEFINE i == Target(r, k)
<1>0. /\ i \in Inodes
      /\ \A s \in 1 .. Roots : \A n \in AllNames : entry[s][n] = i => s = r /\ n = k
  BY TargetIs
<1>. HIDE DEF i
<1>1. entry' = [entry EXCEPT ![r][k] = i] /\ text' = [text EXCEPT ![i] = <<>>]
  BY DEF Truncated, i
<1>2. /\ entry' \in [1 .. Roots -> [AllNames -> Inodes \union {NoFile}]]
      /\ \A s \in 1 .. Roots : \A n \in AllNames :
           entry'[s][n] = IF s = r /\ n = k THEN i ELSE entry[s][n]
  BY <1>0, <1>1 DEF TypeOK
<1>3. text' \in [Inodes -> Texts] /\ text'[i] = <<>>
  <2>1. <<>> \in Seq(Chunks \union {Zero}) /\ Len(<<>>) <= MaxLen
    OBVIOUS
  <2>2. <<>> \in Texts
    BY <2>1, TextsAre
  <2>. QED BY <1>0, <1>1, <2>2 DEF TypeOK
<1>4. Placed'
  BY <1>0, <1>2 DEF Placed
<1>5. ASSUME NEW s \in 1 .. Roots, NEW n \in AllNames, s # r \/ n # k PROVE Same(s, n)
  BY <1>0, <1>1, <1>2, <1>5 DEF Same, TypeOK
<1>. QED BY <1>2, <1>3, <1>4, <1>5 DEF i

(* If nothing changes on the disk, nothing happened to any file.              *)
LEMMA UnchangedSame ==
  ASSUME UNCHANGED disk
  PROVE  \A r \in 1 .. Roots : \A n \in AllNames : Same(r, n)
BY DEF disk, Same

(* Steps of fids that have no request under way.                              *)
LEMMA QuietIInv ==
  ASSUME IInv, TypeOK', UNCHANGED <<dir, disk, request, history>>,
         \A g \in Fids : \/ pc'[g] = pc[g] /\ name'[g] = name[g]
                         \/ pc[g] \in {"free", "held"} /\ pc'[g] \in {"free", "held"}
  PROVE  IInv'
<1>. USE DEF disk, request, history
<1>1. \A g \in Fids : Busy(g)' => Busy(g) /\ pc'[g] = pc[g] /\ name'[g] = name[g]
  BY DEF Busy
<1>2. LocalsOK'
  BY <1>1 DEF IInv, LocalsOK, Busy, Names
<1>3. Placed'
  BY DEF IInv, Placed
<1>4. \A g \in Fids : Busy(g)' => Touched(g)' = Touched(g)
  BY <1>1 DEF Touched
<1>5. Apart' /\ Silent'
  BY <1>1, <1>4, StayApart DEF IInv, TypeOK
<1>6. \A g \in Fids : Trusts(g)'
  <2>. SUFFICES ASSUME NEW g \in Fids PROVE Trusts(g)'
    OBVIOUS
  <2>1. CASE Busy(g)'
    BY <1>1, <2>1, GoingTrusts, UnchangedSame, NameKnown DEF Going, IInv, Busy
  <2>2. CASE ~Busy(g)'
    BY <2>2 DEF Trusts, StoredBy, ForemostBy, MovesBy, Busy
  <2>. QED BY <2>1, <2>2
<1>7. Honest'
  BY UntouchedTold, UnchangedSame DEF Honest
<1>. QED BY <1>2, <1>3, <1>5, <1>6, <1>7, IInvPartsNext DEF IInvIs

(* Walk, Topen, Twrite, and a clunk that stores nothing.                      *)
LEMMA IdleIInv ==
  ASSUME IInv, NEW h \in Fids,
         \/ \E n \in Names : Walk(h, n)
         \/ Open(h)
         \/ \E o \in 0 .. MaxLen - 1, x \in Chunks : Write(h, o, x)
         \/ pc[h] = "held" /\ Drop(h)
         \/ UNCHANGED vars
  PROVE  IInv'
<1>. USE DEF disk, request, history
<1>1. CASE \E n \in Names : Walk(h, n)
  <2>1. TypeOK'
    BY <1>1 DEF Walk, Holding, IInv, TypeOK, Names
  <2>. QED BY <1>1, <2>1, QuietIInv DEF Walk, Holding, IInv, TypeOK
<1>2. CASE Open(h)
  <2>1. TypeOK'
    BY <1>2 DEF Open, IInv, TypeOK, Names
  <2>. QED BY <1>2, <2>1, QuietIInv DEF Open
<1>3. CASE \E o \in 0 .. MaxLen - 1, x \in Chunks : Write(h, o, x)
  <2>1. TypeOK'
    <3>1. buf' \in [Fids -> Texts]
      BY <1>3, PutText DEF Write, IInv, TypeOK
    <3>. QED BY <1>3, <3>1 DEF Write, IInv, TypeOK, Names
  <2>. QED BY <1>3, <2>1, QuietIInv DEF Write
<1>4. CASE pc[h] = "held" /\ Drop(h)
  <2>1. TypeOK'
    <3>1. <<>> \in Seq(Chunks \union {Zero}) /\ Len(<<>>) <= MaxLen
      OBVIOUS
    <3>2. buf' \in [Fids -> Texts]
      BY <1>4, <3>1, TextsAre DEF Drop, Released, IInv, TypeOK
    <3>. QED BY <1>4, <3>2 DEF Drop, Released, IInv, TypeOK, Names
  <2>. QED BY <1>4, <2>1, QuietIInv DEF Drop, Released, IInv, TypeOK
<1>5. CASE UNCHANGED vars
  <2>1. TypeOK'
    BY <1>5 DEF vars, IInv, TypeOK, Names
  <2>. QED BY <1>5, <2>1, QuietIInv DEF vars
<1>. QED BY <1>1, <1>2, <1>3, <1>4, <1>5

(* A request that sets out is alone if nobody touches its names.              *)
LEMMA BeginIInv ==
  ASSUME IInv, NEW h \in Fids, NEW n \in Names, NEW o \in {"write", "remove", "rename"},
         pc[h] = "held", Begin(h, o, n), o = "rename" => n # name[h]
  PROVE  IInv'
<1>. USE DEF disk
<1>. DEFINE ks == {name[h], n}
<1>0. name[h] \in Names /\ name[h] \in AllNames /\ n \in AllNames /\ dir \in Dirs
  BY NameKnown, NamesKnown DEF IInv, TypeOK
<1>1. \A g \in Fids : g # h =>
        /\ Busy(g)' <=> Busy(g)
        /\ Going(g) /\ to'[g] = to[g]
        /\ Touched(g)' = Touched(g)
        /\ alone'[g] => alone[g] /\ (Busy(g) => Touched(g) \intersect ks = {})
  <2>. SUFFICES ASSUME NEW g \in Fids, g # h
                PROVE  /\ Busy(g)' <=> Busy(g)
                       /\ Going(g) /\ to'[g] = to[g]
                       /\ Touched(g)' = Touched(g)
                       /\ alone'[g] => alone[g] /\ (Busy(g) => Touched(g) \intersect ks = {})
    OBVIOUS
  <2>1. Going(g) /\ to'[g] = to[g]
    BY DEF Begin, IInv, TypeOK, LocalsOK, Going
  <2>2. Touched(g)' = Touched(g)
    BY <2>1 DEF Begin, Going, Touched
  <2>3. alone'[g] = (alone[g] /\ g \notin Rivals(ks))
    BY DEF Begin
  <2>. QED BY <2>1, <2>2, <2>3 DEF Going, Busy, Rivals, IInv, LocalsOK
<1>2. /\ pc'[h] = (IF dir = "sk" THEN "find" ELSE "found") /\ name'[h] = name[h]
      /\ op'[h] = o /\ to'[h] = n /\ at'[h] = 1 /\ was'[h] = ledger[name[h]]
      /\ alone'[h] = (Rivals(ks) = {})
      /\ Busy(h)'
  BY DEF Begin, IInv, TypeOK, LocalsOK, Busy
<1>3. Touched(h)' = ks
  BY <1>2 DEF Touched
<1>4. TypeOK'
  BY <1>0 DEF Begin, IInv, TypeOK, Names
<1>5. LocalsOK'
  <2>1. was' \in [Fids -> Texts \union {Absent, Unknown}]
    BY <1>0 DEF Begin, IInv, TypeOK, LocalsOK
  <2>2. alone' \in [Fids -> BOOLEAN]
    BY DEF Begin, IInv, LocalsOK
  <2>3. ASSUME NEW g \in Fids
        PROVE  /\ Busy(g)' => to'[g] \in Names' /\ at'[g] \in 1 .. Roots
               /\ Busy(g)' /\ op'[g] = "rename" => to'[g] # name'[g]
               /\ pc'[g] = "writing" => op'[g] = "write" /\ node'[g] \in Inodes
               /\ pc'[g] = "find" => dir' = "sk"
               /\ Busy(g)' /\ dir' # "sk" => at'[g] = 1
    <3>1. CASE g = h
      BY <1>2, <3>1 DEF Begin, Names
    <3>2. CASE g # h
      BY <1>1, <3>2 DEF Begin, Names, IInv, LocalsOK, Going
    <3>. QED BY <3>1, <3>2
  <2>. QED BY <2>1, <2>2, <2>3 DEF LocalsOK
<1>6. Placed'
  BY DEF Begin, IInv, Placed
<1>7. Apart'
  <2>. SUFFICES ASSUME NEW f \in Fids, NEW g \in Fids, f # g, Busy(f)', Busy(g)',
                       (Touched(f) \intersect Touched(g))' # {}
                PROVE  ~alone'[f]
    BY DEF Apart
  <2>1. CASE f = h
    <3>1. Busy(g) /\ Touched(g) \intersect ks # {}
      BY <1>1, <1>3, <2>1
    <3>2. g \in Rivals(ks)
      BY <3>1 DEF Rivals
    <3>. QED BY <1>2, <2>1, <3>2
  <2>2. CASE g = h
    BY <1>1, <1>3, <2>2
  <2>3. CASE f # h /\ g # h
    BY <1>1, <2>3 DEF IInv, Apart
  <2>. QED BY <2>1, <2>2, <2>3
<1>8. Silent'
  <2>1. \A m \in AllNames : ledger'[m] = IF m \in ks THEN Unknown ELSE ledger[m]
    BY DEF Begin
  <2>2. ASSUME NEW g \in Fids, Busy(g)', NEW k \in Touched(g)' PROVE ledger'[k] = Unknown
    <3>1. CASE g = h
      BY <1>0, <1>3, <2>1, <2>2, <3>1
    <3>2. CASE g # h
      <4>1. ledger[k] = Unknown
        BY <1>1, <2>2, <3>2 DEF IInv, Silent
      <4>2. k \in AllNames
        BY <1>1, <2>2, <3>2, TouchedKnown
      <4>. QED BY <2>1, <4>1, <4>2
    <3>. QED BY <3>1, <3>2
  <2>. QED BY <2>2 DEF Silent
<1>9. \A g \in Fids : Trusts(g)'
  <2>. SUFFICES ASSUME NEW g \in Fids PROVE Trusts(g)'
    OBVIOUS
  <2>1. CASE g # h
    BY <1>1, <2>1, GoingTrusts, UnchangedSame, NameKnown DEF Begin, IInv, Busy
  <2>2. CASE g = h
    <3>1. StoredBy(h)' /\ ForemostBy(h)'
      BY <1>2 DEF StoredBy, ForemostBy
    <3>2. Told(name[h], was[h])'
      <4>1. PICK m \in AllNames : m = name[h]
        BY <1>0
      <4>2. PICK v : v = ledger[m]
        OBVIOUS
      <4>3. Told(m, v)
        BY <4>2 DEF IInv, Honest
      <4>4. Told(m, v)'
        BY <4>3, UnchangedSame, SameFirst DEF Begin
      <4>. QED BY <1>2, <4>1, <4>2, <4>4 DEF Told, First, Shows
    <3>. QED BY <2>2, <3>1, <3>2 DEF Trusts, MovesBy
  <2>. QED BY <2>1, <2>2
<1>10. Honest'
  <2>1. \A m \in AllNames : ledger'[m] \in {ledger[m], Unknown}
    BY DEF Begin
  <2>. QED BY <2>1, UntouchedTold, UnchangedSame DEF Begin, Honest
<1>. QED BY <1>4, <1>5, <1>6, <1>7, <1>8, <1>9, <1>10, IInvPartsNext DEF IInvIs

(* A lookup finds the first root that has the name, if it finds one.          *)
LEMMA FindIInv ==
  ASSUME IInv, NEW h \in Fids, Find(h)
  PROVE  IInv'
<1>. USE DEF disk
<1>. DEFINE r == Home(name[h])
<1>0. /\ name[h] \in AllNames /\ Busy(h) /\ dir = "sk"
      /\ r \in 0 .. Roots /\ \A q \in 1 .. r - 1 : ~Shows(q, name[h])
  <2>1. name[h] \in AllNames /\ Busy(h) /\ dir = "sk"
    BY NameKnown DEF Find, IInv, LocalsOK, Busy
  <2>2. r \in 0 .. Roots /\ (r \in 1 .. Roots => First(r, name[h]))
    BY <2>1, HomeIs
  <2>. QED BY <2>1, <2>2 DEF First
<1>. HIDE DEF r
<1>1. \A g \in Fids : g # h =>
        /\ Busy(g)' <=> Busy(g)
        /\ Going(g) /\ to'[g] = to[g] /\ alone'[g] = alone[g]
        /\ Touched(g)' = Touched(g)
  <2>. SUFFICES ASSUME NEW g \in Fids, g # h
                PROVE  /\ Busy(g)' <=> Busy(g)
                       /\ Going(g) /\ to'[g] = to[g] /\ alone'[g] = alone[g]
                       /\ Touched(g)' = Touched(g)
    OBVIOUS
  <2>1. Going(g) /\ to'[g] = to[g] /\ alone'[g] = alone[g]
    BY DEF Find, Released, Cleared, IInv, TypeOK, LocalsOK, Going
  <2>. QED BY <2>1 DEF Find, Going, Touched, Busy
<1>2. \/ /\ pc'[h] = "found" /\ at'[h] = (IF r = 0 THEN 1 ELSE r) /\ alone'[h] = alone[h]
         /\ name'[h] = name[h] /\ to'[h] = to[h] /\ op'[h] = op[h]
      \/ pc'[h] \in {"free", "held"}
  BY DEF Find, Released, Cleared, IInv, TypeOK, LocalsOK, r
<1>3. Busy(h)' => Touched(h)' = {name[h], to[h]} /\ alone'[h] = alone[h]
  BY <1>2 DEF Busy, Touched
<1>4. TypeOK'
  <2>1. <<>> \in Seq(Chunks \union {Zero}) /\ Len(<<>>) <= MaxLen
    OBVIOUS
  <2>2. <<>> \in Texts
    BY <2>1, TextsAre
  <2>3. CASE pc'[h] = "found"
    <3>1. at' \in [Fids -> 0 .. Roots]
      BY <1>0, <2>3 DEF Find, Released, Cleared, IInv, TypeOK, r
    <3>2. UNCHANGED <<name, writable, buf, op, to, node>> /\ pc' = [pc EXCEPT ![h] = "found"]
      BY <2>3 DEF Find, Released, IInv, TypeOK
    <3>. QED BY <3>1, <3>2 DEF Find, IInv, TypeOK, Names
  <2>4. CASE pc'[h] # "found"
    <3>1. Cleared(h)
      BY <2>4 DEF Find, IInv, TypeOK
    <3>2. /\ at' \in [Fids -> 0 .. Roots]
               /\ op' \in [Fids -> {"none", "write", "remove", "rename"}]
          /\ to' \in [Fids -> AllNames \union {NoFile}]
               /\ node' \in [Fids -> Inodes \union {NoFile}]
      BY <3>1 DEF Cleared, IInv, TypeOK
    <3>3. CASE pc' = [pc EXCEPT ![h] = "held"] /\ UNCHANGED <<name, writable, buf>>
      BY <3>2, <3>3 DEF Find, IInv, TypeOK, Names
    <3>4. CASE Released(h)
      BY <2>2, <3>2, <3>4 DEF Find, Released, IInv, TypeOK, Names
    <3>. QED BY <2>4, <3>3, <3>4 DEF Find, IInv, TypeOK
  <2>. QED BY <2>3, <2>4
<1>5. LocalsOK'
  <2>1. was' \in [Fids -> Texts \union {Absent, Unknown}] /\ alone' \in [Fids -> BOOLEAN]
    BY DEF Find, Cleared, IInv, LocalsOK
  <2>2. ASSUME NEW g \in Fids
        PROVE  /\ Busy(g)' => to'[g] \in Names' /\ at'[g] \in 1 .. Roots
               /\ Busy(g)' /\ op'[g] = "rename" => to'[g] # name'[g]
               /\ pc'[g] = "writing" => op'[g] = "write" /\ node'[g] \in Inodes
               /\ pc'[g] = "find" => dir' = "sk"
               /\ Busy(g)' /\ dir' # "sk" => at'[g] = 1
    <3>1. CASE g = h
      BY <1>0, <1>2, <3>1 DEF Find, Busy, IInv, LocalsOK, Names
    <3>2. CASE g # h
      BY <1>1, <3>2 DEF Find, Names, IInv, LocalsOK, Going
    <3>. QED BY <3>1, <3>2
  <2>. QED BY <2>1, <2>2 DEF LocalsOK
<1>6. Placed'
  BY DEF Find, IInv, Placed
<1>7. Apart' /\ Silent'
  <2>1. \A g \in Fids : Busy(g)' => Busy(g) /\ Touched(g)' \subseteq Touched(g)
            /\ (alone'[g] => alone[g])
    BY <1>0, <1>1, <1>3 DEF Touched
  <2>. QED BY <2>1, StayApart DEF Find, IInv, TypeOK
<1>8. \A g \in Fids : Trusts(g)'
  <2>. SUFFICES ASSUME NEW g \in Fids PROVE Trusts(g)'
    OBVIOUS
  <2>1. CASE g # h
    BY <1>1, <2>1, GoingTrusts, UnchangedSame, NameKnown DEF Find, IInv, Busy
  <2>2. CASE g = h
    <3>1. StoredBy(h)' /\ MovesBy(h)'
      BY <1>0, <1>2 DEF Find, StoredBy, MovesBy, Busy
    <3>2. ForemostBy(h)'
      <4>1. SUFFICES ASSUME pc'[h] = "found", NEW q \in 1 .. at'[h] - 1 PROVE ~Shows(q, name[h])'
        BY <1>2 DEF ForemostBy
      <4>2. q \in 1 .. r - 1
        BY <1>0, <1>2, <4>1
      <4>3. Shows(q, name[h])' <=> Shows(q, name[h])
        BY <1>2, <4>1 DEF Find, Shows
      <4>. QED BY <1>0, <4>2, <4>3
    <3>. QED BY <2>2, <3>1, <3>2 DEF Trusts
  <2>. QED BY <2>1, <2>2
<1>9. Honest'
  BY UntouchedTold, UnchangedSame DEF Find, Honest
<1>. QED BY <1>4, <1>5, <1>6, <1>7, <1>8, <1>9, IInvPartsNext DEF IInvIs

(* A Tcreate truncates what has the name, or makes it.                        *)
LEMMA CreateIInv ==
  ASSUME IInv, NEW h \in Fids, NEW n \in Names, Create(h, n)
  PROVE  IInv'
<1>. USE DEF disk, request, history
<1>0. n \in AllNames /\ 1 \in 1 .. Roots
  BY NamesKnown DEF IInv, TypeOK
<1>. DEFINE i == Target(1, n)
            rivals == Rivals({n})
<1>1. \A g \in Fids :
        /\ Busy(g)' <=> Busy(g)
        /\ Busy(g) => g # h /\ pc'[g] = pc[g] /\ name'[g] = name[g]
  BY DEF Create, Holding, IInv, TypeOK, Busy
<1>a. CASE dir \notin Creates
  <2>1. UNCHANGED <<dir, disk, buf, request, history>>
    BY <1>a DEF Create
  <2>2. TypeOK'
    BY <1>0, <2>1 DEF Create, Holding, IInv, TypeOK, Names
  <2>. QED BY <2>1, <2>2, QuietIInv DEF Create, Holding, IInv, TypeOK
<1>b. CASE dir \in Creates
  <2>. USE <1>b
  <2>1. /\ Truncated(1, n, i) /\ dir' = dir
        /\ alone' = [g \in Fids |-> alone[g] /\ g \notin rivals]
        /\ ledger' = [ledger EXCEPT ![n] = IF dir # "sk" /\ rivals = {} THEN <<>> ELSE Unknown]
    BY DEF Create
  <2>2. /\ entry' \in [1 .. Roots -> [AllNames -> Inodes \union {NoFile}]]
        /\ text' \in [Inodes -> Texts]
        /\ Placed'
        /\ entry'[1][n] = i /\ text'[i] = <<>> /\ i \in Inodes
        /\ \A s \in 1 .. Roots : \A m \in AllNames : s # 1 \/ m # n => Same(s, m)
    BY <1>0, <2>1, TruncatedIs, TargetIs DEF IInv
  <2>3. <<>> \in Texts
    BY <2>2
  <2>. HIDE DEF i, rivals
  <2>4. ledger' \in [AllNames -> Texts \union {Absent, Unknown}]
    BY <2>1, <2>3 DEF IInv, TypeOK
  <2>5. TypeOK'
    BY <2>2, <2>4 DEF Create, Holding, IInv, TypeOK, Names
  <2>6. \A g \in Fids : Busy(g) => Going(g) /\ to'[g] = to[g]
            /\ (alone'[g] => alone[g] /\ n \notin Touched(g))
    BY <1>1, <2>1 DEF Create, Going, rivals, Rivals
  <2>7. LocalsOK'
    <3>1. alone' \in [Fids -> BOOLEAN]
      BY <2>1 DEF IInv, LocalsOK
    <3>2. \A g \in Fids : Busy(g)' => pc'[g] = pc[g] /\ name'[g] = name[g]
      BY <1>1
    <3>. QED BY <3>1, <3>2 DEF Create, Busy, IInv, LocalsOK, Names
  <2>8. ASSUME NEW g \in Fids, Busy(g) PROVE Touched(g)' = Touched(g)
    <3>1. ASSUME pc[g] = "writing", NEW r \in 1 .. Roots, NEW k \in AllNames
          PROVE  entry'[r][k] = node[g] <=> entry[r][k] = node[g]
      <4>1. CASE r = 1 /\ k = n
        <5>1. i = node[g] => entry[1][n] = node[g]
          BY <1>0, <3>1, TargetIs DEF i, IInv
        <5>2. entry[1][n] # NoFile => i = entry[1][n]
          BY DEF i, Target
        <5>3. node[g] # NoFile
          BY <3>1 DEF IInv, LocalsOK
        <5>. QED BY <2>2, <4>1, <5>1, <5>2, <5>3
      <4>2. CASE r # 1 \/ k # n
        BY <2>2, <4>2 DEF Same
      <4>. QED BY <4>1, <4>2
    <3>2. \A k : k \in Touched(g)' <=> k \in Touched(g)
      <4>1. node'[g] = node[g] /\ to'[g] = to[g] /\ name'[g] = name[g] /\ pc'[g] = pc[g]
        BY <2>6, <2>8 DEF Going
      <4>. QED BY <3>1, <4>1, TouchedIs, TouchedIsNext DEF TouchedLaw
    <3>. QED BY <3>2 DEF Touched
  <2>9. \A g \in Fids : n \in Touched(g) /\ Busy(g) => ~alone'[g] /\ rivals # {}
    BY <2>6 DEF rivals, Rivals
  <2>10. Apart' /\ Silent'
    <3>1. \A g \in Fids : Busy(g)' => Busy(g) /\ Touched(g)' \subseteq Touched(g)
              /\ (alone'[g] => alone[g])
      BY <1>1, <2>6, <2>8
    <3>2. \A g \in Fids : Busy(g)' => \A k \in Touched(g) : ledger'[k] \in {ledger[k], Unknown}
      <4>. SUFFICES ASSUME NEW g \in Fids, Busy(g), NEW k \in Touched(g)
                    PROVE  ledger'[k] \in {ledger[k], Unknown}
        BY <1>1
      <4>1. k \in AllNames
        BY TouchedKnown
      <4>. QED BY <2>1, <2>9, <4>1 DEF IInv, TypeOK
    <3>. QED BY <3>1, <3>2, StayApart DEF IInv, TypeOK
  <2>11. \A g \in Fids : Trusts(g)'
    <3>. SUFFICES ASSUME NEW g \in Fids PROVE Trusts(g)'
      OBVIOUS
    <3>1. CASE Busy(g)
      <4>1. name[g] \in AllNames /\ name[g] \in Touched(g)
        BY <3>1, NameKnown DEF IInv, Busy, Touched
      <4>2. alone'[g] => name[g] # n
        BY <2>6, <3>1, <4>1
      <4>. QED BY <2>1, <2>2, <2>6, <3>1, <4>1, <4>2, GoingTrusts
    <3>2. CASE ~Busy(g)
      BY <1>1, <3>2 DEF Trusts, StoredBy, ForemostBy, MovesBy, Busy
    <3>. QED BY <3>1, <3>2
  <2>12. Honest'
    <3>. SUFFICES ASSUME NEW m \in AllNames PROVE Told(m, ledger[m])'
      BY DEF Honest
    <3>1. CASE m # n
      BY <2>1, <2>2, <3>1, UntouchedTold DEF IInv, TypeOK
    <3>2. CASE m = n /\ ledger'[n] = Unknown
      BY <2>1, <3>2, UntouchedTold
    <3>3. CASE m = n /\ dir # "sk" /\ ledger'[n] = <<>>
      <4>1. Shows(1, n)'
        BY <1>0, <2>1, <2>2, <3>3 DEF Shows
      <4>2. First(1, n)'
        BY <4>1 DEF First
      <4>. QED BY <1>0, <2>2, <2>3, <3>3, <4>2 DEF Told
    <3>4. ledger'[n] = IF dir # "sk" /\ rivals = {} THEN <<>> ELSE Unknown
      BY <1>0, <2>1 DEF IInv, TypeOK
    <3>. QED BY <3>1, <3>2, <3>3, <3>4
  <2>. QED BY <2>2, <2>5, <2>7, <2>10, <2>11, <2>12, IInvPartsNext DEF IInvIs
<1>. QED BY <1>a, <1>b

(* A write opens the file its name has by then.                               *)
LEMMA TruncateIInv ==
  ASSUME IInv, NEW h \in Fids, Truncate(h)
  PROVE  IInv'
<1>. DEFINE r == at[h]
            n == name[h]
            i == Target(r, n)
<1>0. n \in AllNames /\ r \in 1 .. Roots /\ Busy(h) /\ pc[h] = "found" /\ op[h] = "write"
      /\ (dir # "sk" => r = 1)
  BY NameKnown DEF Truncate, IInv, LocalsOK, Busy
<1>1. /\ Truncated(r, n, i) /\ dir' = dir /\ node' = [node EXCEPT ![h] = i]
           /\ pc' = [pc EXCEPT ![h] = "writing"]
      /\ UNCHANGED <<name, writable, buf, op, to, at, uses, ledger, was, alone>>
  BY DEF Truncate, history
<1>2. /\ entry' \in [1 .. Roots -> [AllNames -> Inodes \union {NoFile}]]
      /\ text' \in [Inodes -> Texts]
      /\ Placed'
      /\ entry'[r][n] = i /\ text'[i] = <<>> /\ i \in Inodes
      /\ \A s \in 1 .. Roots : \A m \in AllNames : s # r \/ m # n => Same(s, m)
  BY <1>0, <1>1, TruncatedIs, TargetIs DEF IInv
<1>3. /\ \A g \in Fids : pc[g] = "writing" /\ node[g] = i => entry[r][n] = node[g]
      /\ entry[r][n] # NoFile => i = entry[r][n]
      /\ \A s \in 1 .. Roots : \A m \in AllNames : entry[s][m] = i => s = r /\ m = n
  <2>1. entry[r][n] # NoFile => i = entry[r][n]
    BY DEF Target
  <2>. QED BY <1>0, <2>1, TargetIs DEF IInv
<1>. HIDE DEF i, r, n
<1>4. TypeOK'
  <2>1. node' \in [Fids -> Inodes \union {NoFile}]
            /\ pc' \in [Fids -> {"free", "held", "find", "found", "writing"}]
    BY <1>1, <1>2 DEF IInv, TypeOK
  <2>2. \A g \in Fids : pc'[g] = "free" <=> pc[g] = "free"
    BY <1>0, <1>1 DEF IInv, TypeOK
  <2>. QED BY <1>1, <1>2, <2>1, <2>2 DEF IInv, TypeOK, Names
<1>5. LocalsOK'
  <2>1. ASSUME NEW g \in Fids
        PROVE  /\ Busy(g)' => to'[g] \in Names' /\ at'[g] \in 1 .. Roots
               /\ Busy(g)' /\ op'[g] = "rename" => to'[g] # name'[g]
               /\ pc'[g] = "writing" => op'[g] = "write" /\ node'[g] \in Inodes
               /\ pc'[g] = "find" => dir' = "sk"
               /\ Busy(g)' /\ dir' # "sk" => at'[g] = 1
    <3>1. CASE g = h
      BY <1>0, <1>1, <1>2, <3>1 DEF IInv, TypeOK, LocalsOK, Names, Busy, r
    <3>2. CASE g # h
      BY <1>1, <3>2 DEF IInv, TypeOK, LocalsOK, Names, Busy
    <3>. QED BY <3>1, <3>2
  <2>. QED BY <1>1, <2>1 DEF IInv, LocalsOK
<1>6. ASSUME NEW g \in Fids, Busy(g)
      PROVE  Touched(g)' \subseteq Touched(g)
  <2>. SUFFICES ASSUME NEW k, k \in Touched(g)' PROVE k \in Touched(g)
    OBVIOUS
  <2>1. \/ k \in {name[g], to[g]}
        \/ pc'[g] = "writing" /\ k \in AllNames /\ \E s \in 1 .. Roots : entry'[s][k] = node'[g]
    BY <1>1, TouchedIsNext DEF TouchedLaw
  <2>2. ASSUME pc'[g] = "writing", k \in AllNames, NEW s \in 1 .. Roots, entry'[s][k] = node'[g]
        PROVE  k \in Touched(g)
    <3>1. CASE g = h
      <4>1. entry'[s][k] = i
        BY <1>1, <2>2, <3>1 DEF IInv, TypeOK
      <4>2. s = r /\ k = n
        BY <1>2, <1>3, <2>2, <4>1 DEF Same
      <4>. QED BY <3>1, <4>2, TouchedIs DEF TouchedLaw, n
    <3>2. CASE g # h
      <4>1. pc[g] = "writing" /\ node'[g] = node[g]
        BY <1>1, <2>2, <3>2 DEF IInv, TypeOK
      <4>2. entry[s][k] = node[g]
        BY <1>2, <1>3, <2>2, <4>1 DEF Same
      <4>. QED BY <2>2, <4>1, <4>2, TouchedIs DEF TouchedLaw
    <3>. QED BY <3>1, <3>2
  <2>. QED BY <2>1, <2>2, TouchedIs DEF TouchedLaw
<1>7. \A g \in Fids : Busy(g)' => Busy(g)
  BY <1>0, <1>1 DEF Busy, IInv, TypeOK
<1>8. Apart' /\ Silent'
  BY <1>1, <1>6, <1>7, StayApart DEF IInv, TypeOK
<1>9. n \in Touched(h) /\ ledger[n] = Unknown
  BY <1>0 DEF Touched, n, IInv, Silent
<1>10. \A g \in Fids : Trusts(g)'
  <2>. SUFFICES ASSUME NEW g \in Fids PROVE Trusts(g)'
    OBVIOUS
  <2>1. CASE g # h
    <3>1. Going(g)
      BY <1>1, <2>1 DEF Going, IInv, TypeOK
    <3>2. ASSUME Busy(g), alone'[g] PROVE name[g] # n /\ name[g] \in AllNames
      <4>1. name[g] \in Touched(g) /\ name[g] \in AllNames
        BY <3>2, NameKnown DEF Touched, IInv, Busy
      <4>. QED BY <1>0, <1>1, <1>9, <2>1, <3>2, <4>1 DEF IInv, Apart
    <3>. QED BY <1>1, <1>2, <3>1, <3>2, GoingTrusts
  <2>2. CASE g = h
    <3>1. StoredBy(h)'
      BY <1>0, <1>1, <1>2 DEF StoredBy, IInv, TypeOK, r, n
    <3>2. ForemostBy(h)'
      <4>1. SUFFICES ASSUME alone[h], NEW q \in 1 .. r - 1 PROVE ~Shows(q, name[h])'
        BY <1>0, <1>1 DEF ForemostBy, r
      <4>2. ~Shows(q, n)
        BY <1>0, <4>1, IInvParts DEF IInvIs, Trusts, ForemostBy, r, n
      <4>3. Same(q, n)
        BY <1>0, <1>2, <4>1
      <4>. QED BY <1>1, <4>2, <4>3 DEF Shows, Same, n
    <3>3. MovesBy(h)'
      BY <1>0, <1>1 DEF MovesBy
    <3>. QED BY <2>2, <3>1, <3>2, <3>3 DEF Trusts
  <2>. QED BY <2>1, <2>2
<1>11. Honest'
  <2>. SUFFICES ASSUME NEW m \in AllNames PROVE Told(m, ledger[m])'
    BY DEF Honest
  <2>1. ledger'[m] = ledger[m]
    BY <1>1
  <2>2. m = n \/ \A s \in 1 .. Roots : Same(s, m)
    BY <1>2
  <2>. QED BY <1>1, <1>9, <2>1, <2>2, UntouchedTold
<1>. QED BY <1>2, <1>4, <1>5, <1>8, <1>10, <1>11, IInvPartsNext DEF IInvIs

------------------------------------------------------------------------------
(* A file that has a name, or is open elsewhere, outlives the sweep.          *)
LEMMA SweptIs ==
  ASSUME NEW t \in [Inodes -> Texts], NEW e, NEW open
  PROVE  /\ Swept(t, e, open) \in [Inodes -> Texts]
         /\ \A r \in 1 .. Roots : \A k \in AllNames :
              e[r][k] \in Inodes => Swept(t, e, open)[e[r][k]] = t[e[r][k]]
<1>1. <<>> \in Texts
  <2>1. <<>> \in Seq(Chunks \union {Zero}) /\ Len(<<>>) <= MaxLen
    OBVIOUS
  <2>. QED BY <2>1, TextsAre
<1>2. \A r \in 1 .. Roots : \A k \in AllNames : <<r, k>> \in Places
  BY DEF Places
<1>3. \A r \in 1 .. Roots : \A k \in AllNames : \E p \in Places : e[p[1]][p[2]] = e[r][k]
  BY <1>2
<1>. QED BY <1>1, <1>3 DEF Swept

(* The end of a request, whatever it did to the disk and the ledger.  The     *)
(* names it touched may change; what others touch and can trust may not.      *)
LEMMA EndIInv ==
  ASSUME IInv, NEW h \in Fids, Busy(h), dir' = dir,
         pc'[h] \in {"free", "held"}, Cleared(h),
         \A g \in Fids : g # h => pc'[g] = pc[g] /\ name'[g] = name[g],
         TypeOK', Placed',
         \A g \in Fids : g # h /\ Busy(g) => Touched(g)' \subseteq Touched(g) \union Touched(h),
         \A g \in Fids : g # h /\ Busy(g)
             => (Touched(g)' \subseteq Touched(g) \/ Touched(g) \intersect Touched(h) # {}),
         \A n \in AllNames \ Touched(h) : ledger'[n] = ledger[n]
             /\ \A r \in 1 .. Roots : Same(r, n),
         \A n \in AllNames \intersect Touched(h) : ledger'[n] = ledger[n] \/ alone[h],
         \A n \in AllNames \intersect Touched(h) : Told(n, ledger[n])'
  PROVE  IInv'
<1>1. \A g \in Fids : Busy(g)' => Busy(g) /\ g # h
  BY DEF Busy
<1>2. \A g \in Fids : g # h => Going(g) /\ to'[g] = to[g] /\ alone'[g] = alone[g]
          /\ (Busy(g)' <=> Busy(g))
  BY DEF Cleared, Going, Busy, IInv, TypeOK, LocalsOK
<1>3. LocalsOK'
  <2>1. was' \in [Fids -> Texts \union {Absent, Unknown}] /\ alone' \in [Fids -> BOOLEAN]
    BY DEF Cleared, IInv, LocalsOK
  <2>2. ASSUME NEW g \in Fids, g # h
        PROVE  /\ Busy(g)' => to'[g] \in Names' /\ at'[g] \in 1 .. Roots
               /\ Busy(g)' /\ op'[g] = "rename" => to'[g] # name'[g]
               /\ pc'[g] = "writing" => op'[g] = "write" /\ node'[g] \in Inodes
               /\ pc'[g] = "find" => dir' = "sk"
               /\ Busy(g)' /\ dir' # "sk" => at'[g] = 1
    BY <1>2, <2>2 DEF Going, IInv, LocalsOK, Names
  <2>. QED BY <1>1, <2>1, <2>2 DEF LocalsOK, Busy
<1>4. \A g \in Fids : g # h /\ Busy(g) /\ Touched(g) \intersect Touched(h) # {} => ~alone[g]
          /\ ~alone[h]
  BY DEF IInv, Apart
<1>5. Apart'
  <2>. SUFFICES ASSUME NEW f \in Fids, NEW g \in Fids, f # g, Busy(f)', Busy(g)',
                       (Touched(f) \intersect Touched(g))' # {}, alone'[f]
                PROVE  FALSE
    BY DEF Apart
  <2>1. Busy(f) /\ Busy(g) /\ f # h /\ g # h /\ alone[f]
    BY <1>1, <1>2
  <2>2. Touched(f) \intersect Touched(h) = {} /\ Touched(f) \intersect Touched(g) = {}
    BY <1>4, <2>1 DEF IInv, Apart
  <2>3. Touched(f)' \subseteq Touched(f) /\ Touched(g)' \subseteq Touched(g) \union Touched(h)
    BY <2>1, <2>2
  <2>. QED BY <2>2, <2>3
<1>6. Silent'
  <2>. SUFFICES ASSUME NEW g \in Fids, Busy(g)', NEW k \in Touched(g)' PROVE ledger'[k] = Unknown
    BY DEF Silent
  <2>1. Busy(g) /\ g # h
    BY <1>1
  <2>2. ledger[k] = Unknown /\ k \in AllNames
    BY <2>1, TouchedKnown DEF IInv, Silent
  <2>3. CASE k \notin Touched(h)
    BY <2>2, <2>3
  <2>4. CASE k \in Touched(h)
    <3>1. Touched(g) \intersect Touched(h) # {}
      BY <2>1, <2>4
    <3>. QED BY <1>4, <2>1, <2>2, <2>4, <3>1
  <2>. QED BY <2>3, <2>4
<1>7. \A g \in Fids : Trusts(g)'
  <2>. SUFFICES ASSUME NEW g \in Fids PROVE Trusts(g)'
    OBVIOUS
  <2>1. CASE g # h
    <3>1. ASSUME Busy(g), alone'[g] PROVE name[g] \in AllNames \ Touched(h)
      <4>1. name[g] \in AllNames /\ name[g] \in Touched(g)
        BY <3>1, NameKnown DEF IInv, Busy, Touched
      <4>. QED BY <1>2, <1>4, <2>1, <3>1, <4>1
    <3>. QED BY <1>2, <2>1, <3>1, GoingTrusts
  <2>2. CASE g = h
    BY <2>2 DEF Trusts, StoredBy, ForemostBy, MovesBy, Busy
  <2>. QED BY <2>1, <2>2
<1>8. Honest'
  <2>. SUFFICES ASSUME NEW n \in AllNames PROVE Told(n, ledger[n])'
    BY DEF Honest
  <2>. QED BY UntouchedTold
<1>. QED BY <1>3, <1>5, <1>6, <1>7, <1>8, IInvPartsNext DEF IInvIs

(* The locals of a fid whose request ended.                                   *)
LEMMA ClearedOK ==
  ASSUME TypeOK, NEW h \in Fids, Cleared(h)
  PROVE  /\ op' \in [Fids -> {"none", "write", "remove", "rename"}]
         /\ to' \in [Fids -> AllNames \union {NoFile}]
         /\ at' \in [Fids -> 0 .. Roots]
         /\ node' \in [Fids -> Inodes \union {NoFile}]
BY DEF Cleared, TypeOK

(* A fid that is clunked or removed is free.                                  *)
LEMMA ReleasedOK ==
  ASSUME TypeOK, NEW h \in Fids, Released(h), dir' = dir
  PROVE  /\ pc' \in [Fids -> {"free", "held", "find", "found", "writing"}]
         /\ name' \in [Fids -> Names' \union {NoFile}]
         /\ \A g \in Fids : name'[g] \in IF pc'[g] = "free" THEN {NoFile} ELSE Names'
         /\ writable' \subseteq Fids
         /\ buf' \in [Fids -> Texts]
<1>1. <<>> \in Seq(Chunks \union {Zero}) /\ Len(<<>>) <= MaxLen
  OBVIOUS
<1>2. <<>> \in Texts
  BY <1>1, TextsAre
<1>3. buf' \in [Fids -> Texts]
  BY <1>2 DEF Released, TypeOK
<1>. QED BY <1>3 DEF Released, TypeOK, Names

(* A write that overlapped nothing stores its text under its name.            *)
LEMMA WriteOutIInv ==
  ASSUME IInv, NEW h \in Fids, WriteOut(h)
  PROVE  IInv'
<1>. DEFINE n == name[h]
            t == [text EXCEPT ![node[h]] = buf[h] \o SubSeq(@, Len(buf[h]) + 1, Len(@))]
<1>0. /\ n \in AllNames /\ at[h] \in 1 .. Roots /\ Busy(h) /\ pc[h] = "writing"
           /\ node[h] \in Inodes
      /\ buf[h] \in Texts /\ n \in Touched(h) /\ (dir # "sk" => at[h] = 1)
  BY NameKnown DEF WriteOut, IInv, LocalsOK, Busy, TypeOK, Touched
<1>1. /\ t \in [Inodes -> Texts]
      /\ \A i \in Inodes : i # node[h] => t[i] = text[i]
      /\ text[node[h]] = <<>> => t[node[h]] = buf[h]
  BY <1>0, OverText DEF IInv, TypeOK
<1>. HIDE DEF t, n
<1>2. /\ text' = Swept(t, entry, OpenBut(h)) /\ UNCHANGED <<dir, entry, uses>> /\ Released(h)
           /\ Cleared(h)
      /\ ledger' = IF alone[h] /\ (dir = "sk" => Parses(buf[h]))
           THEN [ledger EXCEPT ![n] = buf[h]] ELSE ledger
  BY DEF WriteOut, t, n
<1>3. /\ text' \in [Inodes -> Texts]
      /\ \A r \in 1 .. Roots : \A k \in AllNames : entry[r][k] # NoFile
           => text'[entry[r][k]] = t[entry[r][k]]
  <2>1. PICK e, open : e = entry /\ open = OpenBut(h)
    OBVIOUS
  <2>2. text' = Swept(t, e, open)
    BY <1>2, <2>1
  <2>3. \A r \in 1 .. Roots : \A k \in AllNames : e[r][k] # NoFile => e[r][k] \in Inodes
    BY <2>1 DEF IInv, TypeOK
  <2>. QED BY <1>1, <2>1, <2>2, <2>3, SweptIs
<1>4. ledger' \in [AllNames -> Texts \union {Absent, Unknown}]
  BY <1>0, <1>2 DEF IInv, TypeOK
<1>5. TypeOK'
  BY <1>2, <1>3, <1>4, ClearedOK, ReleasedOK DEF IInv, TypeOK
<1>6. Placed'
  BY <1>2 DEF IInv, Placed
<1>7. \A g \in Fids : g # h => pc'[g] = pc[g] /\ name'[g] = name[g]
  BY <1>2 DEF Released, IInv, TypeOK
<1>8. \A g \in Fids : g # h /\ Busy(g) => Touched(g)' = Touched(g)
  <2>. SUFFICES ASSUME NEW g \in Fids, g # h, Busy(g) PROVE Touched(g)' = Touched(g)
    OBVIOUS
  <2>1. to'[g] = to[g] /\ node'[g] = node[g]
    BY <1>2 DEF Cleared, IInv, TypeOK
  <2>. QED BY <1>2, <1>7, <2>1 DEF Touched
<1>9. ASSUME NEW k \in AllNames \ Touched(h)
      PROVE  ledger'[k] = ledger[k] /\ \A r \in 1 .. Roots : Same(r, k)
  <2>1. k # n
    BY <1>0, <1>9
  <2>2. \A r \in 1 .. Roots : entry[r][k] # node[h]
    BY <1>0, <1>9, TouchedIs DEF TouchedLaw
  <2>3. ledger'[k] = ledger[k]
    BY <1>2, <2>1 DEF IInv, TypeOK
  <2>4. ASSUME NEW r \in 1 .. Roots PROVE Same(r, k)
    <3>1. entry[r][k] # NoFile => entry[r][k] \in Inodes
      BY DEF IInv, TypeOK
    <3>. QED BY <1>1, <1>2, <1>3, <2>2, <3>1 DEF Same
  <2>. QED BY <2>3, <2>4
<1>10. \A k \in AllNames \intersect Touched(h) : ledger'[k] = ledger[k] \/ alone[h]
  BY <1>2
<1>11. ASSUME NEW k \in AllNames \intersect Touched(h)
       PROVE  Told(k, ledger[k])'
  <2>1. CASE ledger'[k] = ledger[k]
    <3>1. ledger[k] = Unknown
      BY <1>0 DEF IInv, Silent
    <3>. QED BY <2>1, <3>1 DEF Told
  <2>2. CASE ledger'[k] # ledger[k]
    <3>1. k = n /\ alone[h] /\ (dir = "sk" => Parses(buf[h])) /\ ledger'[n] = buf[h]
      BY <1>0, <1>2, <2>2 DEF IInv, TypeOK
    <3>2. /\ entry[at[h]][n] = node[h] /\ text[node[h]] = <<>>
          /\ \A q \in 1 .. at[h] - 1 : ~Shows(q, n)
      BY <1>0, <3>1, IInvParts DEF IInvIs, Trusts, StoredBy, ForemostBy, n
    <3>3. text'[node[h]] = buf[h] /\ entry'[at[h]][n] = node[h]
      BY <1>0, <1>1, <1>2, <1>3, <3>2
    <3>4. PICK m \in AllNames : m = n
      BY <1>0
    <3>5. PICK r \in 1 .. Roots : r = at[h]
      BY <1>0
    <3>6. Shows(r, m)'
      BY <1>0, <1>2, <3>1, <3>3, <3>4, <3>5 DEF Shows
    <3>7. \A q \in 1 .. r - 1 : ~Shows(q, m)'
      <4>. SUFFICES ASSUME NEW q \in 1 .. r - 1 PROVE ~Shows(q, m)'
        OBVIOUS
      <4>1. ~Shows(q, m) /\ q \in 1 .. Roots
        BY <3>2, <3>4, <3>5
      <4>2. entry[q][m] # node[h]
        BY <1>0, <3>2, <3>4, <3>5, <4>1 DEF IInv, Placed
      <4>. QED BY <1>1, <1>2, <1>3, <4>1, <4>2 DEF Shows, IInv, TypeOK
    <3>8. First(r, m)'
      BY <3>6, <3>7 DEF First
    <3>. QED BY <1>0, <3>1, <3>3, <3>4, <3>5, <3>8 DEF Told
  <2>. QED BY <2>1, <2>2
<1>12. pc'[h] = "free"
  BY <1>2 DEF Released, IInv, TypeOK
<1>. QED BY <1>0, <1>2, <1>5, <1>6, <1>7, <1>8, <1>9, <1>10, <1>11, <1>12, EndIInv

(* A write of a skill whose directory has vanished ends and changes no file.  *)
LEMMA VanishedIInv ==
  ASSUME IInv, NEW h \in Fids, Vanished(h)
  PROVE  IInv'
<1>1. Busy(h) /\ Released(h) /\ Cleared(h) /\ UNCHANGED <<dir, disk, uses, ledger>>
  BY DEF Vanished, Busy
<1>2. TypeOK'
  BY <1>1, ClearedOK, ReleasedOK DEF disk, IInv, TypeOK
<1>3. Placed'
  BY <1>1 DEF disk, IInv, Placed
<1>4. \A g \in Fids : g # h => pc'[g] = pc[g] /\ name'[g] = name[g]
  BY <1>1 DEF Released, IInv, TypeOK
<1>5. \A g \in Fids : g # h /\ Busy(g) => Touched(g)' = Touched(g)
  <2>. SUFFICES ASSUME NEW g \in Fids, g # h PROVE Touched(g)' = Touched(g)
    OBVIOUS
  <2>1. to'[g] = to[g] /\ node'[g] = node[g] /\ name'[g] = name[g] /\ pc'[g] = pc[g]
    BY <1>1, <1>4 DEF Cleared, IInv, TypeOK
  <2>. QED BY <1>1, <2>1 DEF Touched, disk
<1>6. \A k \in AllNames : ledger'[k] = ledger[k] /\ \A s \in 1 .. Roots : Same(s, k)
  BY <1>1, UnchangedSame
<1>7. ASSUME NEW k \in AllNames \intersect Touched(h) PROVE Told(k, ledger[k])'
  <2>1. ledger'[k] = Unknown
    BY <1>1, <1>6, <1>7 DEF IInv, Silent
  <2>. QED BY <2>1 DEF Told
<1>8. pc'[h] = "free"
  BY <1>1 DEF Released, IInv, TypeOK
<1>. QED BY <1>1, <1>2, <1>3, <1>4, <1>5, <1>6, <1>7, <1>8, EndIInv

(* A removal that overlapped nothing takes the only file of its name away.    *)
LEMMA DeleteIInv ==
  ASSUME IInv, NEW h \in Fids, Delete(h)
  PROVE  IInv'
<1>. DEFINE n == name[h]
            r == at[h]
<1>0. /\ n \in AllNames /\ r \in 1 .. Roots /\ Busy(h) /\ n \in Touched(h) /\ dir \in Dirs
      /\ dir # "sk" => r = 1
  BY NameKnown DEF Delete, IInv, LocalsOK, Busy, TypeOK, Touched
<1>. HIDE DEF n, r
<1>1. /\ entry' = [entry EXCEPT ![r][n] = NoFile]
      /\ text' = Swept(text, entry', OpenBut(h)) /\ UNCHANGED <<dir, uses>> /\ Released(h)
           /\ Cleared(h)
      /\ ledger' = IF alone[h] /\ dir # "sk" THEN [ledger EXCEPT ![n] = Absent] ELSE ledger
  BY DEF Delete, n, r
<1>2. /\ entry' \in [1 .. Roots -> [AllNames -> Inodes \union {NoFile}]]
      /\ \A s \in 1 .. Roots : \A k \in AllNames :
           entry'[s][k] = IF s = r /\ k = n THEN NoFile ELSE entry[s][k]
  BY <1>0, <1>1 DEF IInv, TypeOK
<1>3. /\ text' \in [Inodes -> Texts]
      /\ \A s \in 1 .. Roots : \A k \in AllNames : entry'[s][k] # NoFile
           => text'[entry'[s][k]] = text[entry'[s][k]]
  <2>1. PICK e, open : e = entry' /\ open = OpenBut(h)
    OBVIOUS
  <2>2. text' = Swept(text, e, open)
    BY <1>1, <2>1
  <2>3. \A s \in 1 .. Roots : \A k \in AllNames : e[s][k] # NoFile => e[s][k] \in Inodes
    BY <1>2, <2>1
  <2>. QED BY <2>1, <2>2, <2>3, SweptIs DEF IInv, TypeOK
<1>4. ledger' \in [AllNames -> Texts \union {Absent, Unknown}]
  BY <1>0, <1>1 DEF IInv, TypeOK
<1>5. TypeOK'
  BY <1>0, <1>1, <1>2, <1>3, <1>4, ClearedOK, ReleasedOK DEF IInv, TypeOK
<1>6. Placed'
  BY <1>1, <1>2 DEF IInv, Placed
<1>7. \A g \in Fids : g # h => pc'[g] = pc[g] /\ name'[g] = name[g]
  BY <1>1 DEF Released, IInv, TypeOK
<1>8. \A g \in Fids : g # h /\ Busy(g) => Touched(g)' \subseteq Touched(g)
  <2>. SUFFICES ASSUME NEW g \in Fids, g # h, Busy(g), NEW k, k \in Touched(g)'
                PROVE  k \in Touched(g)
    OBVIOUS
  <2>1. to'[g] = to[g] /\ node'[g] = node[g] /\ name'[g] = name[g] /\ pc'[g] = pc[g]
    BY <1>1, <1>7 DEF Cleared, IInv, TypeOK
  <2>2. pc[g] = "writing" => node[g] # NoFile
    BY DEF IInv, LocalsOK
  <2>3. \/ k \in {name[g], to[g]}
        \/ pc[g] = "writing" /\ k \in AllNames /\ \E s \in 1 .. Roots : entry'[s][k] = node[g]
    BY <2>1, TouchedIsNext DEF TouchedLaw
  <2>. QED BY <1>2, <2>2, <2>3, TouchedIs DEF TouchedLaw
<1>9. ASSUME NEW k \in AllNames \ Touched(h)
      PROVE  ledger'[k] = ledger[k] /\ \A s \in 1 .. Roots : Same(s, k)
  <2>1. k # n
    BY <1>0, <1>9
  <2>2. ledger'[k] = ledger[k]
    BY <1>1, <2>1 DEF IInv, TypeOK
  <2>. QED BY <1>2, <1>3, <2>1, <2>2 DEF Same
<1>10. \A k \in AllNames \intersect Touched(h) : ledger'[k] = ledger[k] \/ alone[h]
  BY <1>1
<1>11. ASSUME NEW k \in AllNames \intersect Touched(h)
       PROVE  Told(k, ledger[k])'
  <2>1. CASE ledger'[k] = ledger[k]
    <3>1. ledger[k] = Unknown
      BY <1>0 DEF IInv, Silent
    <3>. QED BY <2>1, <3>1 DEF Told
  <2>2. CASE ledger'[k] # ledger[k]
    <3>1. k = n /\ dir # "sk" /\ ledger'[k] = Absent
      BY <1>0, <1>1, <2>2 DEF IInv, TypeOK
    <3>2. \A s \in 1 .. Roots : entry'[s][k] = NoFile
      BY <1>0, <1>2, <3>1 DEF IInv, Placed
    <3>. QED BY <3>1, <3>2 DEF Told, Shows
  <2>. QED BY <2>1, <2>2
<1>12. pc'[h] = "free"
  BY <1>1 DEF Released, IInv, TypeOK
<1>. QED BY <1>0, <1>1, <1>5, <1>6, <1>7, <1>8, <1>9, <1>10, <1>11, <1>12, EndIInv

------------------------------------------------------------------------------
(* A rename that overlapped nothing moves what its old name had.              *)
LEMMA RenameIInv ==
  ASSUME IInv, NEW h \in Fids, Rename(h)
  PROVE  IInv'
<1>. DEFINE old == name[h]
            new == to[h]
            r == at[h]
            moved == Movable(r, old, new)
<1>0. /\ old \in AllNames /\ new \in AllNames /\ old # new /\ new \in Names
      /\ r \in 1 .. Roots /\ Busy(h) /\ pc[h] = "found" /\ op[h] = "rename"
           /\ Touched(h) = {old, new}
      /\ dir \in Dirs /\ (dir # "sk" => r = 1)
  BY NameKnown, NamesKnown DEF Rename, IInv, LocalsOK, Busy, TypeOK, Touched
<1>. HIDE DEF old, new, r, moved
<1>1. /\ IF moved
         THEN /\ entry' = [entry EXCEPT ![r][new] = entry[r][old], ![r][old] = NoFile]
              /\ name' = [name EXCEPT ![h] = new]
              /\ ledger' = Promised(h, old, new)
         ELSE UNCHANGED <<entry, name, ledger>>
      /\ pc' = [pc EXCEPT ![h] = "held"]
      /\ text' = Swept(text, entry', OpenBut(h))
      /\ Cleared(h)
      /\ UNCHANGED <<dir, writable, buf, uses>>
  BY DEF Rename, old, new, r, moved
<1>2. /\ entry' \in [1 .. Roots -> [AllNames -> Inodes \union {NoFile}]]
      /\ \A s \in 1 .. Roots : \A k \in AllNames :
           entry'[s][k] = IF moved /\ s = r /\ k = new THEN entry[r][old]
                          ELSE IF moved /\ s = r /\ k = old THEN NoFile ELSE entry[s][k]
  <2>1. CASE moved
    <3>1. PICK i \in Inodes \union {NoFile} : i = entry[r][old]
      BY <1>0 DEF IInv, TypeOK
    <3>2. PICK e : e = [entry EXCEPT ![r][new] = i]
      OBVIOUS
    <3>3. e \in [1 .. Roots -> [AllNames -> Inodes \union {NoFile}]]
              /\ entry' = [e EXCEPT ![r][old] = NoFile]
      BY <1>0, <1>1, <2>1, <3>1, <3>2 DEF IInv, TypeOK
    <3>4. \A s \in 1 .. Roots : \A k \in AllNames : e[s][k] = IF s = r /\ k = new THEN i
              ELSE entry[s][k]
      BY <1>0, <3>2 DEF IInv, TypeOK
    <3>. QED BY <1>0, <2>1, <3>1, <3>3, <3>4
  <2>2. CASE ~moved
    BY <1>1, <2>2 DEF IInv, TypeOK
  <2>. QED BY <2>1, <2>2
<1>a. moved => entry[r][old] # NoFile
  BY DEF moved, Movable
<1>3. /\ text' \in [Inodes -> Texts]
      /\ \A s \in 1 .. Roots : \A k \in AllNames : entry'[s][k] # NoFile
           => text'[entry'[s][k]] = text[entry'[s][k]]
  <2>1. PICK e, open : e = entry' /\ open = OpenBut(h)
    OBVIOUS
  <2>2. text' = Swept(text, e, open)
    BY <1>1, <2>1
  <2>3. \A s \in 1 .. Roots : \A k \in AllNames : e[s][k] # NoFile => e[s][k] \in Inodes
    BY <1>2, <2>1
  <2>. QED BY <2>1, <2>2, <2>3, SweptIs DEF IInv, TypeOK
<1>b. was[h] \in Texts \union {Absent, Unknown}
  BY DEF IInv, LocalsOK
<1>4. \A k \in AllNames :
        ledger'[k] = IF moved /\ alone[h] /\ dir # "sk" /\ k = new THEN was[h]
                     ELSE IF moved /\ alone[h] /\ dir # "sk" /\ k = old THEN Absent ELSE ledger[k]
  BY <1>0, <1>1 DEF Promised, IInv, TypeOK
<1>c. ledger' \in [AllNames -> Texts \union {Absent, Unknown}]
  <2>1. ledger \in [AllNames -> Texts \union {Absent, Unknown}]
    BY DEF IInv, TypeOK
  <2>2. Promised(h, old, new) \in [AllNames -> Texts \union {Absent, Unknown}]
    BY <1>0, <1>b, <2>1 DEF Promised
  <2>. QED BY <1>1, <2>1, <2>2
<1>5. TypeOK'
  <2>1. name' \in [Fids -> Names' \union {NoFile}]
    BY <1>0, <1>1 DEF IInv, TypeOK, Names
  <2>2. pc' \in [Fids -> {"free", "held", "find", "found", "writing"}]
    BY <1>1 DEF IInv, TypeOK
  <2>3. \A g \in Fids : name'[g] \in IF pc'[g] = "free" THEN {NoFile} ELSE Names'
    <3>. SUFFICES ASSUME NEW g \in Fids
                  PROVE  name'[g] \in IF pc'[g] = "free" THEN {NoFile} ELSE Names'
      OBVIOUS
    <3>1. CASE g = h
      <4>1. name[h] \in Names
        BY <1>0, NameKnown DEF IInv
      <4>. QED BY <1>0, <1>1, <3>1, <4>1 DEF IInv, TypeOK, Names
    <3>2. CASE g # h
      BY <1>1, <3>2 DEF IInv, TypeOK, Names
    <3>. QED BY <3>1, <3>2
  <2>. QED BY <1>1, <1>2, <1>3, <1>c, <2>1, <2>2, <2>3, ClearedOK DEF IInv, TypeOK
<1>6. Placed'
  BY <1>0, <1>1, <1>2 DEF IInv, Placed
<1>7. \A g \in Fids : g # h => pc'[g] = pc[g] /\ name'[g] = name[g]
  BY <1>1 DEF IInv, TypeOK
<1>8. ASSUME NEW g \in Fids, g # h, Busy(g)
      PROVE  /\ Touched(g)' \subseteq Touched(g) \union Touched(h)
             /\ Touched(g)' \subseteq Touched(g) \/ Touched(g) \intersect Touched(h) # {}
  <2>1. to'[g] = to[g] /\ node'[g] = node[g] /\ name'[g] = name[g] /\ pc'[g] = pc[g]
    BY <1>1, <1>7, <1>8 DEF Cleared, IInv, TypeOK
  <2>2. pc[g] = "writing" => node[g] # NoFile
    BY DEF IInv, LocalsOK
  <2>3. ASSUME NEW k, k \in Touched(g)'
        PROVE  k \in Touched(g) \/ (k = new /\ old \in Touched(g))
    <3>1. \/ k \in {name[g], to[g]}
          \/ pc[g] = "writing" /\ k \in AllNames /\ \E s \in 1 .. Roots : entry'[s][k] = node[g]
      BY <2>1, <2>3, TouchedIsNext DEF TouchedLaw
    <3>2. CASE k \in {name[g], to[g]}
      BY <3>2, TouchedIs DEF TouchedLaw
    <3>3. ASSUME pc[g] = "writing", k \in AllNames, NEW s \in 1 .. Roots, entry'[s][k] = node[g]
          PROVE  k \in Touched(g) \/ (k = new /\ old \in Touched(g))
      <4>1. \/ entry[s][k] = node[g]
            \/ k = new /\ entry[r][old] = node[g]
        BY <1>2, <2>2, <3>3
      <4>. QED BY <1>0, <3>3, <4>1, TouchedIs DEF TouchedLaw
    <3>. QED BY <3>1, <3>2, <3>3
  <2>. QED BY <1>0, <2>3
<1>9. ASSUME NEW k \in AllNames \ Touched(h)
      PROVE  ledger'[k] = ledger[k] /\ \A s \in 1 .. Roots : Same(s, k)
  <2>1. k # old /\ k # new
    BY <1>0, <1>9
  <2>. QED BY <1>2, <1>3, <1>4, <2>1 DEF Same
<1>10. \A k \in AllNames \intersect Touched(h) : ledger'[k] = ledger[k] \/ alone[h]
  BY <1>4
<1>11. ASSUME NEW k \in AllNames \intersect Touched(h)
       PROVE  Told(k, ledger[k])'
  <2>1. CASE ledger'[k] = ledger[k]
    <3>1. ledger[k] = Unknown
      BY <1>0 DEF IInv, Silent
    <3>. QED BY <2>1, <3>1 DEF Told
  <2>2. CASE ledger'[k] # ledger[k]
    <3>1. /\ moved /\ alone[h] /\ dir # "sk"
          /\ (k = new /\ ledger'[k] = was[h]) \/ (k = old /\ ledger'[k] = Absent)
      <4>1. k = new \/ k = old
        BY <1>0
      <4>. QED BY <1>4, <2>2, <4>1
    <3>2. CASE k = old /\ ledger'[k] = Absent
      <4>1. \A s \in 1 .. Roots : entry'[s][k] = NoFile
        BY <1>0, <1>2, <3>1, <3>2 DEF IInv, Placed
      <4>. QED BY <3>2, <4>1 DEF Told, Shows
    <3>3. CASE k = new /\ ledger'[k] = was[h]
      <4>1. Told(old, was[h])
        BY <1>0, <3>1, IInvParts DEF IInvIs, Trusts, MovesBy, old
      <4>2. r = 1 /\ 1 \in 1 .. Roots /\ \A s \in 1 .. Roots : s # 1 => entry[s][old] = NoFile
        BY <1>0, <3>1 DEF IInv, Placed
      <4>3. Shows(1, old)
        BY <1>a, <3>1, <4>2 DEF Shows
      <4>4. was[h] # Absent /\ (was[h] \in Texts => text[entry[1][old]] = was[h])
        BY <4>1, <4>2, <4>3 DEF Told, First, Shows
      <4>5. entry'[1][k] = entry[1][old] /\ entry'[1][k] # NoFile
        BY <1>2, <1>a, <3>1, <3>3, <4>2
      <4>6. text'[entry'[1][k]] = text[entry[1][old]]
        BY <1>3, <4>2, <4>5
      <4>7. First(1, k)'
        BY <1>1, <3>1, <4>5 DEF First, Shows
      <4>. QED BY <3>3, <4>2, <4>4, <4>6, <4>7 DEF Told
    <3>. QED BY <3>1, <3>2, <3>3
  <2>. QED BY <2>1, <2>2
<1>12. pc'[h] = "held"
  BY <1>1 DEF IInv, TypeOK
<1>. QED BY <1>0, <1>1, <1>5, <1>6, <1>7, <1>8, <1>9, <1>10, <1>11, <1>12, EndIInv

(* At the start no request is under way and nothing was told.                 *)
LEMMA InitIInv == Init => IInv
<1>. SUFFICES ASSUME Init PROVE IInv
  OBVIOUS
<1>. USE DEF Init
<1>0. dir \in Dirs /\ Names \subseteq AllNames
  BY DEF Names, AllNames
<1>1. PICK there \in SUBSET {p \in Places : p[2] \in Names \ {Idx} /\ (dir = "sk" \/ p[1] = 1)} :
        entry = [r \in 1 .. Roots |-> [k \in AllNames |-> IF <<r, k>> \in there THEN <<r, k>>
            ELSE NoFile]]
  OBVIOUS
<1>2. \A r \in 1 .. Roots : \A k \in AllNames : entry[r][k] = IF <<r, k>> \in there THEN <<r, k>>
          ELSE NoFile
  BY <1>1
<1>3. entry \in [1 .. Roots -> [AllNames -> Inodes \union {NoFile}]]
  BY <1>1 DEF Inodes
<1>4. Placed
  <2>1. \A r \in 1 .. Roots : \A k \in AllNames : <<r, k>> \in there => dir = "sk" \/ r = 1
    OBVIOUS
  <2>. QED BY <1>2, <2>1 DEF Placed
<1>5. text \in [Inodes -> Texts]
  <2>1. PICK seed \in [1 .. Roots -> Header] :
          text = [i \in Inodes |-> IF \E r \in 1 .. Roots : entry[r][i[2]] = i
              THEN <<seed[i[1]]>> ELSE <<>>]
    OBVIOUS
  <2>2. ASSUME NEW i \in Inodes, NEW r \in 1 .. Roots, entry[r][i[2]] = i
        PROVE  seed[i[1]] \in Header
    <3>1. i[2] \in AllNames /\ i # NoFile
      BY DEF Inodes
    <3>2. i = <<r, i[2]>>
      BY <1>2, <2>2, <3>1
    <3>3. i[1] = r
      BY <3>2
    <3>. QED BY <3>3
  <2>3. \A x \in Header : <<x>> \in Seq(Chunks \union {Zero}) /\ Len(<<x>>) <= MaxLen
    OBVIOUS
  <2>4. \A x \in Header : <<x>> \in Texts
    BY <2>3, TextsAre
  <2>5. <<>> \in Seq(Chunks \union {Zero}) /\ Len(<<>>) <= MaxLen
    OBVIOUS
  <2>6. <<>> \in Texts
    BY <2>5, TextsAre
  <2>7. \A i \in Inodes : (IF \E r \in 1 .. Roots : entry[r][i[2]] = i THEN <<seed[i[1]]>>
            ELSE <<>>) \in Texts
    BY <2>2, <2>4, <2>6
  <2>. QED BY <2>1, <2>7
<1>6. TypeOK
  <2>1. <<>> \in Seq(Chunks \union {Zero}) /\ Len(<<>>) <= MaxLen
    OBVIOUS
  <2>2. <<>> \in Texts
    BY <2>1, TextsAre
  <2>. QED BY <1>0, <1>3, <1>5, <2>2 DEF TypeOK
<1>7. LocalsOK
  BY DEF LocalsOK, Busy
<1>8. Apart /\ Silent /\ Stored /\ Foremost /\ Moves
  BY DEF Apart, Silent, Stored, Foremost, Moves, Busy
<1>9. Honest
  BY DEF Honest, Told
<1>. QED BY <1>4, <1>6, <1>7, <1>8, <1>9 DEF IInv

(* Every request that sets out or step of one preserves it.                   *)
LEMMA NextIInv == IInv /\ [Next]_vars => IInv'
<1>. SUFFICES ASSUME IInv, [Next]_vars PROVE IInv'
  OBVIOUS
<1>1. CASE UNCHANGED vars
  <2>1. CASE Fids = {}
    <3>1. TypeOK'
      BY <1>1 DEF vars, IInv, TypeOK, Names
    <3>. QED BY <1>1, <2>1, <3>1, QuietIInv DEF vars, disk, request, history
  <2>2. CASE Fids # {}
    BY <1>1, <2>2, IdleIInv
  <2>. QED BY <2>1, <2>2
<1>2. ASSUME NEW h \in Fids,
             \/ \E n \in Names : Walk(h, n) \/ Create(h, n) \/ Wstat(h, n)
             \/ Open(h)
             \/ \E o \in 0 .. MaxLen - 1, x \in Chunks : Write(h, o, x)
             \/ Clunk(h) \/ RemoveFile(h)
             \/ Find(h) \/ Truncate(h) \/ Vanished(h)
             \/ WriteOut(h) \/ Delete(h) \/ Rename(h)
      PROVE  IInv'
  <2>1. CASE \E n \in Names : Walk(h, n)
    BY <2>1, IdleIInv
  <2>2. CASE \E n \in Names : Create(h, n)
    BY <2>2, CreateIInv
  <2>3. CASE \E n \in Names : Wstat(h, n)
    BY <2>3, BeginIInv DEF Wstat
  <2>4. CASE Open(h)
    BY <2>4, IdleIInv
  <2>5. CASE \E o \in 0 .. MaxLen - 1, x \in Chunks : Write(h, o, x)
    BY <2>5, IdleIInv
  <2>6. CASE Clunk(h)
    <3>1. pc[h] = "held" /\ name[h] \in Names
      BY <2>6, NameKnown DEF Clunk, IInv
    <3>2. CASE Begin(h, "write", name[h])
      BY <3>1, <3>2, BeginIInv
    <3>3. CASE Drop(h)
      BY <3>1, <3>3, IdleIInv
    <3>. QED BY <2>6, <3>2, <3>3 DEF Clunk
  <2>7. CASE RemoveFile(h)
    <3>1. pc[h] = "held" /\ name[h] \in Names
      BY <2>7, NameKnown DEF RemoveFile, IInv
    <3>2. CASE Begin(h, "remove", name[h])
      BY <3>1, <3>2, BeginIInv
    <3>3. CASE Drop(h)
      BY <3>1, <3>3, IdleIInv
    <3>. QED BY <2>7, <3>2, <3>3 DEF RemoveFile
  <2>8. CASE Find(h)
    BY <2>8, FindIInv
  <2>9. CASE Truncate(h)
    BY <2>9, TruncateIInv
  <2>10. CASE WriteOut(h)
    BY <2>10, WriteOutIInv
  <2>11. CASE Delete(h)
    BY <2>11, DeleteIInv
  <2>12. CASE Rename(h)
    BY <2>12, RenameIInv
  <2>13. CASE Vanished(h)
    BY <2>13, VanishedIInv
  <2>. QED BY <1>2, <2>13, <2>1, <2>2, <2>3, <2>4, <2>5, <2>6, <2>7, <2>8, <2>9, <2>10, <2>11, <2>12
<1>. QED BY <1>1, <1>2 DEF Next

(* So it holds at all times.                                                  *)
LEMMA Invariance == Spec => []IInv
BY InitIInv, NextIInv, PTL DEF Spec

(* What is told of the names is what a lookup and a read find.                *)
LEMMA HonestLedger == IInv => LedgerHolds
<1>. SUFFICES ASSUME IInv, NEW n \in Names \ {Idx}
              PROVE  /\ ledger[n] = Absent => ~Exists(n)
                     /\ ledger[n] \notin {Absent, Unknown} => Exists(n) /\ ReadText(n) = ledger[n]
  BY DEF LedgerHolds
<1>1. n \in AllNames /\ ledger[n] \in Texts \union {Absent, Unknown}
  BY NamesKnown DEF IInv, TypeOK
<1>2. Told(n, ledger[n])
  BY <1>1 DEF IInv, Honest
<1>3. Exists(n) <=> Home(n) # 0
  BY DEF Exists, Synthetic
<1>4. ledger[n] = Absent => ~Exists(n)
  BY <1>1, <1>2, <1>3, HomeIs DEF Told
<1>5. ASSUME ledger[n] \notin {Absent, Unknown} PROVE Exists(n) /\ ReadText(n) = ledger[n]
  <2>1. PICK r \in 1 .. Roots : First(r, n) /\ text[entry[r][n]] = ledger[n]
    BY <1>1, <1>2, <1>5 DEF Told
  <2>2. Home(n) = r
    BY <1>1, <2>1, HomeIs
  <2>. QED BY <1>3, <2>1, <2>2 DEF ReadText
<1>. QED BY <1>4, <1>5

(* The state has its type: a fid has a name while it is in use, and a file a  *)
(* text (server.go 506-1252, store.go 79-112).                                *)
THEOREM TypeCorrect == Spec => []TypeOK
<1>1. IInv => TypeOK
  BY DEF IInv
<1>. QED BY <1>1, Invariance, PTL

(* A walk finds the names a listing has, each once, and a read the copy in    *)
(* the first root, for any number of roots and names (skill.go 97-153,        *)
(* server.go 506-599).                                                        *)
THEOREM LookupsAgreeAlways == Spec => []LookupsAgree
<1>1. IInv => LookupsAgree
  BY Lookups DEF IInv, TypeOK
<1>. QED BY <1>1, Invariance, PTL

(* What the answers of requests that nobody overlapped promise is what a read *)
(* finds, for any number of fids, names and roots (clunk, write, remove,      *)
(* wstat and create, server.go 711-1252; flatDir, store.go 93-110).           *)
THEOREM LedgerIsTrue == Spec => []LedgerHolds
BY HonestLedger, Invariance, PTL
==============================================================================
