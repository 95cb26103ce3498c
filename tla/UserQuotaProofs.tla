---------------------------- MODULE UserQuotaProofs ----------------------------
(***************************************************************************)
(* Proofs about UserQuota, for any finite set of processes and of files,   *)
(* any limit and any bounds.                                               *)
(*   QuotaTypes: the type invariant;                                       *)
(*   SizesAreExact: a cached size computed with a current index is the     *)
(*     folder's size on disk;                                              *)
(*   SizesSettle: with everything told, the cached sizes are right;        *)
(*   NothingIsReplaced: a move judged with a current index replaces no file;*)
(*   QuotaHolds: a request so judged never grows the folder past the limit.*)
(* They rest on what a sum over a finite set is and on what the operations *)
(* of a batch, run one after another, make of the disk.  Both are proved   *)
(* by induction over a set (of numbers, of subsets) whose least element    *)
(* that fails is refuted, so no fact with an operator parameter is needed. *)
(***************************************************************************)
EXTENDS UserQuota, FiniteSetTheorems, TLAPS

-----------------------------------------------------------------------------
(* Induction over the numbers and over the subsets of a finite set, each    *)
(* given as the set of what holds.                                          *)

(* The order of the numbers as a relation, and the least of a set.          *)
Lt == {p \in Nat \X Nat : p[1] < p[2]}

LEMMA LtWellFounded == IsWellFoundedOn(Lt, Nat)
BY NatLessThanWellFounded DEF OpToRel, Lt

LEMMA LeastOf ==
  ASSUME NEW U, U \subseteq Nat, U # {}
  PROVE  \E n \in U : \A m \in U : ~(m < n)
<1>1. \E n \in U : \A m \in U : ~(<<m, n>> \in Lt)
  BY LtWellFounded, WFMin
<1>2. PICK n \in U : \A m \in U : ~(<<m, n>> \in Lt)
  BY <1>1
<1>3. \A m \in U : ~(m < n)
  BY <1>2 DEF Lt
<1> QED BY <1>3

(* A set with 0 and with the successor of each has every number.            *)
LEMMA NaturalsBySet ==
  ASSUME NEW T, 0 \in T, \A n \in Nat : n \in T => n + 1 \in T
  PROVE  Nat \subseteq T
<1> SUFFICES ASSUME Nat \ T # {} PROVE FALSE
  OBVIOUS
<1> DEFINE U == Nat \ T
<1>0. U \subseteq Nat /\ U # {}
  OBVIOUS
<1> HIDE DEF U
<1>1. PICK n \in U : \A m \in U : ~(m < n)
  BY <1>0, LeastOf
<1> USE DEF U
<1>2. n # 0 /\ n - 1 \in Nat /\ n - 1 \in T
  BY <1>1
<1> QED
  BY <1>1, <1>2

(* A family with {}, and with each set from which any element can be taken, *)
(* has every subset of a finite set.                                        *)
LEMMA SubsetsBySet ==
  ASSUME NEW S, IsFiniteSet(S), NEW T, {} \in T,
         \A A \in SUBSET S : A # {} /\ (\A x \in A : A \ {x} \in T) => A \in T
  PROVE  SUBSET S \subseteq T
<1> DEFINE U == {n \in Nat : \A A \in SUBSET S : Cardinality(A) = n => A \in T}
<1>1. 0 \in U
  BY FS_EmptySet, FS_Subset
<1>2. \A n \in Nat : n \in U => n + 1 \in U
  <2> SUFFICES ASSUME NEW n \in Nat, n \in U, NEW A \in SUBSET S, Cardinality(A) = n + 1
               PROVE  A \in T
    OBVIOUS
  <2>1. IsFiniteSet(A)
    BY FS_Subset
  <2>2. A # {}
    <3>1. Cardinality({}) = 0
      BY FS_EmptySet
    <3> QED BY <3>1
  <2>3. \A x \in A : A \ {x} \in T
    <3> SUFFICES ASSUME NEW x \in A PROVE A \ {x} \in T
      OBVIOUS
    <3>1. Cardinality(A \ {x}) = Cardinality(A) - 1
      BY <2>1, FS_RemoveElement
    <3>2. Cardinality(A \ {x}) = n
      BY <3>1
    <3> QED BY <3>2
  <2> QED BY <2>2, <2>3
<1> HIDE DEF U
<1>3. Nat \subseteq U
  BY <1>1, <1>2, NaturalsBySet
<1> USE DEF U
<1>4. ASSUME NEW A \in SUBSET S PROVE A \in T
  <2>1. Cardinality(A) \in Nat
    BY FS_Subset, FS_CardinalityType
  <2> QED BY <1>3, <2>1
<1> QED BY <1>4

(* How MapThenSumSet sums, as a function of the subsets.                    *)
Some(s) == CHOOSE x \in s : TRUE
SumUpTo(g, D, h) ==
  h = [s \in D |-> IF s = {} THEN 0 ELSE g[Some(s)] + h[s \ {Some(s)}]]
Small(S, n) == {s \in SUBSET S : Cardinality(s) <= n}

LEMMA SomeIn == ASSUME NEW s, s # {} PROVE Some(s) \in s
BY DEF Some

LEMMA SumDefined ==
  ASSUME NEW g, NEW S, IsFiniteSet(S)
  PROVE  \E h : SumUpTo(g, SUBSET S, h)
<1> DEFINE T == {n \in Nat : \E h : SumUpTo(g, Small(S, n), h)}
<1>1. 0 \in T
  <2>1. \A s \in Small(S, 0) : s = {}
    BY FS_EmptySet, FS_Subset, FS_CardinalityType DEF Small
  <2>2. SumUpTo(g, Small(S, 0), [s \in Small(S, 0) |-> 0])
    BY <2>1 DEF SumUpTo
  <2> QED BY <2>2
<1>2. \A n \in Nat : n \in T => n + 1 \in T
  <2> SUFFICES ASSUME NEW n \in Nat, n \in T PROVE \E h : SumUpTo(g, Small(S, n + 1), h)
    OBVIOUS
  <2>1. PICK h : SumUpTo(g, Small(S, n), h)
    OBVIOUS
  <2> DEFINE k == [s \in Small(S, n + 1) |->
                     IF s = {} THEN 0 ELSE g[Some(s)] + h[s \ {Some(s)}]]
  <2>2. \A s \in Small(S, n) : s \in Small(S, n + 1)
    BY FS_Subset, FS_CardinalityType DEF Small
  <2>3. \A s \in Small(S, n) : k[s] = h[s]
    BY <2>1, <2>2 DEF SumUpTo
  <2>4. ASSUME NEW s \in Small(S, n + 1), s # {} PROVE s \ {Some(s)} \in Small(S, n)
    <3>1. IsFiniteSet(s) /\ Some(s) \in s
      BY <2>4, FS_Subset, SomeIn DEF Small
    <3>2. Cardinality(s \ {Some(s)}) = Cardinality(s) - 1 /\ Cardinality(s) \in Nat
      BY <3>1, FS_RemoveElement, FS_CardinalityType
    <3> QED BY <3>2 DEF Small
  <2>5. \A s \in Small(S, n + 1) :
          k[s] = IF s = {} THEN 0 ELSE g[Some(s)] + k[s \ {Some(s)}]
    BY <2>3, <2>4
  <2>6. SumUpTo(g, Small(S, n + 1), k)
    <3> DEFINE e(s) == IF s = {} THEN 0 ELSE g[Some(s)] + k[s \ {Some(s)}]
    <3>1. \A s \in Small(S, n + 1) : k[s] = e(s)
      BY <2>5
    <3>2. k = [s \in Small(S, n + 1) |-> k[s]]
      OBVIOUS
    <3> HIDE DEF k, e
    <3>3. k = [s \in Small(S, n + 1) |-> e(s)]
      BY <3>1, <3>2
    <3> QED BY <3>3 DEF SumUpTo, e
  <2> QED BY <2>6
<1> HIDE DEF T
<1>3. Nat \subseteq T
  BY <1>1, <1>2, NaturalsBySet
<1>4. Cardinality(S) \in Nat /\ Small(S, Cardinality(S)) = SUBSET S
  BY FS_CardinalityType, FS_Subset DEF Small
<1> USE DEF T
<1> QED BY <1>3, <1>4

(* The sum is what this function gives, whichever it is.                    *)
LEMMA SumIs ==
  ASSUME NEW g, NEW S, IsFiniteSet(S)
  PROVE  \E h : SumUpTo(g, SUBSET S, h) /\ Sum(g, S) = h[S]
<1>1. PICK h : SumUpTo(g, SUBSET S, h)
  BY SumDefined
<1> QED BY <1>1, Zenon DEF SumUpTo, Some, Sum, MapThenSumSet, MapThenFoldSet

LEMMA SumEmpty == ASSUME NEW g PROVE Sum(g, {}) = 0
<1>1. IsFiniteSet({})
  BY FS_EmptySet
<1>2. PICK h : SumUpTo(g, SUBSET {}, h) /\ Sum(g, {}) = h[{}]
  BY <1>1, SumIs
<1> QED BY <1>2 DEF SumUpTo

(* Sums: what an element adds, and what equal, larger or other summands make*)
(* of the total.                                                            *)
LEMMA SumStep ==
  ASSUME NEW g, NEW S, IsFiniteSet(S), S # {}
  PROVE  /\ Some(S) \in S
         /\ Sum(g, S) = g[Some(S)] + Sum(g, S \ {Some(S)})
<1> DEFINE R == S \ {Some(S)}
<1>1. IsFiniteSet(R) /\ R \in SUBSET S
  BY FS_Subset
<1>2. PICK h : SumUpTo(g, SUBSET S, h) /\ Sum(g, S) = h[S]
  BY SumIs
<1>3. PICK k : SumUpTo(g, SUBSET R, k) /\ Sum(g, R) = k[R]
  BY <1>1, SumIs
<1>4. h[R] = k[R]
  <2> DEFINE T == {s \in SUBSET R : h[s] = k[s]}
  <2>1. {} \in T
    BY <1>2, <1>3 DEF SumUpTo
  <2>2. ASSUME NEW s \in SUBSET R, s # {}, \A x \in s : s \ {x} \in T PROVE s \in T
    <3>1. s \ {Some(s)} \in T
      BY <2>2, SomeIn
    <3>2. /\ h[s] = g[Some(s)] + h[s \ {Some(s)}]
          /\ k[s] = g[Some(s)] + k[s \ {Some(s)}]
      BY <1>1, <1>2, <1>3, <2>2 DEF SumUpTo
    <3> QED BY <3>1, <3>2
  <2> HIDE DEF T, R
  <2>3. SUBSET R \subseteq T
    BY <1>1, <2>1, <2>2, SubsetsBySet
  <2> QED BY <2>3 DEF T
<1>5. h[S] = g[Some(S)] + h[R]
  BY <1>2 DEF SumUpTo
<1> QED BY <1>2, <1>3, <1>4, <1>5, SomeIn

LEMMA SumType ==
  ASSUME NEW g, NEW S, IsFiniteSet(S), \A x \in S : g[x] \in Int
  PROVE  Sum(g, S) \in Int
<1> DEFINE T == {A \in SUBSET S : Sum(g, A) \in Int}
<1>1. {} \in T
  BY SumEmpty
<1>2. ASSUME NEW A \in SUBSET S, A # {}, \A x \in A : A \ {x} \in T PROVE A \in T
  <2>1. IsFiniteSet(A)
    BY FS_Subset
  <2>2. Some(A) \in A /\ Sum(g, A) = g[Some(A)] + Sum(g, A \ {Some(A)})
    BY <1>2, <2>1, SumStep
  <2>3. Sum(g, A \ {Some(A)}) \in Int
    BY <1>2, <2>2
  <2> QED BY <2>2, <2>3
<1> HIDE DEF T
<1>3. SUBSET S \subseteq T
  BY <1>1, <1>2, SubsetsBySet
<1> QED BY <1>3 DEF T

LEMMA SumRemove ==
  ASSUME NEW g, NEW S, IsFiniteSet(S), \A x \in S : g[x] \in Int, NEW y \in S
  PROVE  Sum(g, S) = g[y] + Sum(g, S \ {y})
<1> DEFINE T == {A \in SUBSET S : \A z \in A : Sum(g, A) = g[z] + Sum(g, A \ {z})}
<1>1. {} \in T
  OBVIOUS
<1>2. ASSUME NEW A \in SUBSET S, A # {}, \A x \in A : A \ {x} \in T PROVE A \in T
  <2> DEFINE x == Some(A)
  <2>1. IsFiniteSet(A) /\ \A B \in SUBSET A : IsFiniteSet(B) /\ Sum(g, B) \in Int
    <3>1. IsFiniteSet(A)
      BY FS_Subset
    <3>2. \A B \in SUBSET A : IsFiniteSet(B)
      BY <3>1, FS_Subset
    <3>3. \A B \in SUBSET A : Sum(g, B) \in Int
      BY <3>2, SumType
    <3> QED BY <3>1, <3>2, <3>3
  <2>2. x \in A /\ Sum(g, A) = g[x] + Sum(g, A \ {x})
    BY <1>2, <2>1, SumStep
  <2> HIDE DEF x
  <2>3. ASSUME NEW z \in A, z # x PROVE Sum(g, A) = g[z] + Sum(g, A \ {z})
    <3>1. A \ {x} \in T /\ A \ {z} \in T
      BY <1>2, <2>2
    <3>2. Sum(g, A \ {x}) = g[z] + Sum(g, (A \ {x}) \ {z})
      BY <3>1, <2>3
    <3>3. Sum(g, A \ {z}) = g[x] + Sum(g, (A \ {z}) \ {x})
      BY <3>1, <2>2, <2>3
    <3>4. (A \ {x}) \ {z} = (A \ {z}) \ {x}
      OBVIOUS
    <3> DEFINE m == Sum(g, (A \ {z}) \ {x})
    <3>5. m \in Int /\ g[x] \in Int /\ g[z] \in Int
      BY <2>1, <2>2
    <3>6. /\ Sum(g, A) = g[x] + Sum(g, A \ {x}) /\ Sum(g, A \ {x}) = g[z] + m
          /\ Sum(g, A \ {z}) = g[x] + m
      BY <2>2, <3>2, <3>3, <3>4
    <3> HIDE DEF m
    <3> QED BY <3>5, <3>6
  <2> QED BY <2>2, <2>3
<1> HIDE DEF T
<1>3. SUBSET S \subseteq T
  BY <1>1, <1>2, SubsetsBySet
<1> QED BY <1>3 DEF T

LEMMA SumAdd ==
  ASSUME NEW g, NEW h, NEW k, NEW S, IsFiniteSet(S),
         \A x \in S : g[x] \in Int /\ h[x] \in Int /\ k[x] = g[x] + h[x]
  PROVE  Sum(k, S) = Sum(g, S) + Sum(h, S)
<1> DEFINE T == {A \in SUBSET S : Sum(k, A) = Sum(g, A) + Sum(h, A)}
<1>1. {} \in T
  BY SumEmpty
<1>2. ASSUME NEW A \in SUBSET S, A # {}, \A x \in A : A \ {x} \in T PROVE A \in T
  <2> DEFINE x == Some(A)
              R == A \ {x}
  <2>1. IsFiniteSet(A) /\ IsFiniteSet(R)
    BY FS_Subset
  <2>2. /\ x \in A
        /\ Sum(g, A) = g[x] + Sum(g, R)
        /\ Sum(h, A) = h[x] + Sum(h, R)
        /\ Sum(k, A) = k[x] + Sum(k, R)
    BY <1>2, <2>1, SumStep
  <2>3. Sum(g, R) \in Int /\ Sum(h, R) \in Int
    BY <2>1, SumType
  <2>4. Sum(k, R) = Sum(g, R) + Sum(h, R)
    BY <1>2, <2>2
  <2>5. g[x] \in Int /\ h[x] \in Int /\ k[x] = g[x] + h[x]
    BY <2>2
  <2> HIDE DEF x, R
  <2>6. Sum(k, A) = Sum(g, A) + Sum(h, A)
    BY <2>2, <2>3, <2>4, <2>5
  <2> QED BY <2>6
<1> HIDE DEF T
<1>3. SUBSET S \subseteq T
  BY <1>1, <1>2, SubsetsBySet
<1> QED BY <1>3 DEF T

LEMMA SumNat ==
  ASSUME NEW g, NEW S, IsFiniteSet(S), \A x \in S : g[x] \in Nat
  PROVE  Sum(g, S) \in Nat
<1> DEFINE T == {A \in SUBSET S : Sum(g, A) \in Nat}
<1>1. {} \in T
  BY SumEmpty
<1>2. ASSUME NEW A \in SUBSET S, A # {}, \A x \in A : A \ {x} \in T PROVE A \in T
  <2>1. IsFiniteSet(A)
    BY FS_Subset
  <2>2. Some(A) \in A /\ Sum(g, A) = g[Some(A)] + Sum(g, A \ {Some(A)})
    BY <1>2, <2>1, SumStep
  <2>3. Sum(g, A \ {Some(A)}) \in Nat
    BY <1>2, <2>2
  <2> QED BY <2>2, <2>3
<1> HIDE DEF T
<1>3. SUBSET S \subseteq T
  BY <1>1, <1>2, SubsetsBySet
<1> QED BY <1>3 DEF T

LEMMA SumZero ==
  ASSUME NEW g, NEW S, IsFiniteSet(S), \A x \in S : g[x] = 0
  PROVE  Sum(g, S) = 0
<1>1. Sum(g, S) \in Nat
  BY SumNat
<1>2. Sum(g, S) = Sum(g, S) + Sum(g, S)
  BY SumAdd
<1> DEFINE n == Sum(g, S)
<1> HIDE DEF n
<1>3. n \in Nat /\ n = n + n
  BY <1>1, <1>2 DEF n
<1>4. n = 0
  BY <1>3
<1> QED BY <1>4 DEF n

LEMMA SumEqual ==
  ASSUME NEW g, NEW h, NEW S, IsFiniteSet(S),
         \A x \in S : g[x] \in Int /\ h[x] = g[x]
  PROVE  Sum(h, S) = Sum(g, S)
<1> DEFINE z == [x \in S |-> 0]
<1>1. Sum(z, S) = 0
  BY SumZero
<1>2. Sum(h, S) = Sum(g, S) + Sum(z, S)
  <2>1. \A x \in S : g[x] \in Int /\ z[x] \in Int /\ h[x] = g[x] + z[x]
    OBVIOUS
  <2> HIDE DEF z
  <2> QED BY <2>1, SumAdd
<1> QED BY <1>1, <1>2, SumType

LEMMA SumGrows ==
  ASSUME NEW g, NEW h, NEW S, IsFiniteSet(S),
         \A x \in S : g[x] \in Int /\ h[x] \in Int /\ g[x] <= h[x]
  PROVE  Sum(g, S) <= Sum(h, S)
<1> DEFINE z == [x \in S |-> h[x] - g[x]]
<1>1. \A x \in S : z[x] \in Nat /\ h[x] = g[x] + z[x]
  OBVIOUS
<1> HIDE DEF z
<1>2. Sum(z, S) \in Nat
  BY <1>1, SumNat
<1>3. Sum(h, S) = Sum(g, S) + Sum(z, S)
  <2>1. \A x \in S : g[x] \in Int /\ z[x] \in Int /\ h[x] = g[x] + z[x]
    BY <1>1
  <2> QED BY <2>1, SumAdd
<1>4. Sum(g, S) \in Int
  BY SumType
<1> QED BY <1>2, <1>3, <1>4

LEMMA SumShift ==
  ASSUME NEW g, NEW h, NEW u, NEW v, NEW S, IsFiniteSet(S),
         \A x \in S : /\ {g[x], h[x], u[x], v[x]} \subseteq Int
                      /\ h[x] - g[x] = v[x] - u[x]
  PROVE  /\ {Sum(g, S), Sum(h, S), Sum(u, S), Sum(v, S)} \subseteq Int
         /\ Sum(h, S) - Sum(g, S) = Sum(v, S) - Sum(u, S)
<1> DEFINE z == [x \in S |-> h[x] - g[x]]
<1>1. \A x \in S : z[x] \in Int /\ h[x] = g[x] + z[x] /\ v[x] = u[x] + z[x]
                    /\ g[x] \in Int /\ u[x] \in Int /\ h[x] \in Int /\ v[x] \in Int
  OBVIOUS
<1> HIDE DEF z
<1>2. Sum(z, S) \in Int /\ Sum(g, S) \in Int /\ Sum(u, S) \in Int
  BY <1>1, SumType
<1>3. Sum(h, S) = Sum(g, S) + Sum(z, S)
  BY <1>1, SumAdd
<1>4. Sum(v, S) = Sum(u, S) + Sum(z, S)
  BY <1>1, SumAdd
<1> QED BY <1>2, <1>3, <1>4
-----------------------------------------------------------------------------
(* Batches: the items a request can have, and the disk after the first      *)
(* operations of it.                                                        *)
USE QuotaAssumption

(* Operations, disks, and the files that operations alter.                  *)
Ops == {"write", "copy", "move", "delete"}
Disks == [Files -> Sizes]
Touched(op, i) == {i.to} \union (IF op = "move" THEN {i.from} ELSE {})
TouchedTo(op, b, k) == {f \in Files : \E j \in 1 .. k : f \in Touched(op, b[j])}

ItemOK(op, i) ==
  /\ i.from \in Files /\ i.to \in Files /\ i.size \in Sizes
  /\ op \in {"write", "delete"} => i.from = i.to /\ i.to \in Folder
  /\ op = "write" => i.size > 0
  /\ op \in {"copy", "move"} => i.from # i.to
  /\ op = "copy" => i.to \in Folder

LEMMA SizesAreNat == Sizes \subseteq Nat /\ 0 \in Sizes
BY DEF Sizes

LEMMA FolderFinite == IsFiniteSet(Folder) /\ Folder \subseteq Files
<1>1. IsFiniteSet(Files) /\ Folder \subseteq Files
  OBVIOUS
<1> QED BY <1>1, FS_Subset

LEMMA ItemFields ==
  ASSUME NEW f, NEW g, NEW n
  PROVE  Item(f, g, n).from = f /\ Item(f, g, n).to = g /\ Item(f, g, n).size = n
BY DEF Item

LEMMA ItemShape ==
  ASSUME NEW op \in Ops, NEW i \in Items(op)
  PROVE  ItemOK(op, i)
<1>1. CASE op = "write"
  <2>1. PICK f \in Folder, n \in 1 .. MaxSize : i = Item(f, f, n)
    BY <1>1 DEF Items
  <2> QED BY <1>1, <2>1, ItemFields DEF ItemOK, Sizes
<1>2. CASE op = "delete"
  <2>1. PICK f \in Folder : i = Item(f, f, 0)
    BY <1>2 DEF Items
  <2> QED BY <1>2, <2>1, ItemFields DEF ItemOK, Sizes
<1>3. CASE op = "copy"
  <2>1. i \in Moved /\ i.to \in Folder
    BY <1>3 DEF Items
  <2>2. PICK f \in Files, g \in Files : i = Item(f, g, 0) /\ i.from # i.to
    BY <2>1 DEF Moved
  <2> QED BY <1>3, <2>1, <2>2, ItemFields DEF ItemOK, Sizes
<1>4. CASE op = "move"
  <2>1. i \in Moved
    BY <1>4 DEF Items
  <2>2. PICK f \in Files, g \in Files : i = Item(f, g, 0) /\ i.from # i.to
    BY <2>1 DEF Moved
  <2> QED BY <1>4, <2>1, <2>2, ItemFields DEF ItemOK, Sizes
<1> QED BY <1>1, <1>2, <1>3, <1>4 DEF Ops

BatchOK(op, b) ==
  /\ op \in Ops
  /\ Len(b) \in Nat \ {0} /\ DOMAIN b = 1 .. Len(b)
  /\ \A k \in 1 .. Len(b) : ItemOK(op, b[k])
  /\ \A i, j \in 1 .. Len(b) : i # j => b[i].to # b[j].to /\ b[i].from # b[j].from
  /\ \A k \in 1 .. Len(b) : /\ Len(SubSeq(b, 1, k)) = k
                            /\ \A j \in 1 .. k : SubSeq(b, 1, k)[j] = b[j]
                            /\ DOMAIN SubSeq(b, 1, k) = 1 .. k

LEMMA BatchShape ==
  ASSUME NEW op \in Ops, NEW b \in Batches(op)
  PROVE  BatchOK(op, b)
<1>1. PICK n \in 1 .. MaxBatch : b \in [1 .. n -> Items(op)]
  BY DEF Batches
<1>2. n \in Nat \ {0} /\ b \in Seq(Items(op)) /\ Len(b) = n /\ DOMAIN b = 1 .. n
  BY <1>1
<1>3. \A k \in 1 .. n : ItemOK(op, b[k])
  BY <1>1, ItemShape
<1>4. \A i, j \in 1 .. n : i # j => b[i].to # b[j].to /\ b[i].from # b[j].from
  BY <1>2 DEF Batches
<1>5. ASSUME NEW k \in 1 .. n
      PROVE  /\ Len(SubSeq(b, 1, k)) = k /\ DOMAIN SubSeq(b, 1, k) = 1 .. k
             /\ \A j \in 1 .. k : SubSeq(b, 1, k)[j] = b[j]
  BY <1>2
<1> QED BY <1>2, <1>3, <1>4, <1>5 DEF BatchOK

LEMMA PathsAreTouched ==
  ASSUME NEW op, NEW b, BatchOK(op, b)
  PROVE  /\ Paths(op, b) = TouchedTo(op, b, Len(b))
         /\ \A k \in 1 .. Len(b) : Paths(op, SubSeq(b, 1, k - 1)) = TouchedTo(op, b, k - 1)
         /\ Named(b) \subseteq Files
         /\ \A k \in 1 .. Len(b) : b[k].from \in Named(b) /\ b[k].to \in Named(b)
         /\ Paths(op, b) \subseteq Named(b)
<1>0. \A k \in 1 .. Len(b) : b[k].from \in Files /\ b[k].to \in Files
  BY DEF BatchOK, ItemOK
<1>1. Paths(op, b) = TouchedTo(op, b, Len(b))
  BY <1>0 DEF BatchOK, Paths, TouchedTo, Touched
<1>2. ASSUME NEW k \in 1 .. Len(b)
      PROVE  Paths(op, SubSeq(b, 1, k - 1)) = TouchedTo(op, b, k - 1)
  <2>1. CASE k = 1
    <3>1. SubSeq(b, 1, 0) = << >>
      BY DEF BatchOK
    <3>2. TouchedTo(op, b, 0) = {}
      BY DEF TouchedTo
    <3>3. Paths(op, << >>) = {}
      BY DEF Paths
    <3>4. k - 1 = 0
      BY <2>1
    <3> QED BY ONLY <3>1, <3>2, <3>3, <3>4
  <2>2. CASE k # 1
    <3> DEFINE c == SubSeq(b, 1, k - 1)
    <3>1. k - 1 \in 1 .. Len(b)
      BY <2>2 DEF BatchOK
    <3>2. DOMAIN c = 1 .. k - 1 /\ \A j \in 1 .. k - 1 : c[j] = b[j]
      BY <3>1 DEF BatchOK
    <3>3. \A j \in 1 .. k - 1 : c[j].from \in Files /\ c[j].to \in Files
      BY <3>1, <3>2, <1>0 DEF BatchOK
    <3> HIDE DEF c
    <3>4. Paths(op, c) = TouchedTo(op, b, k - 1)
      BY <3>2, <3>3 DEF Paths, TouchedTo, Touched
    <3> QED BY <3>4 DEF c
  <2> QED BY <2>1, <2>2
<1>3. Named(b) \subseteq Files /\ \A k \in 1 .. Len(b) : b[k].from \in Named(b) /\ b[k].to \in Named(b)
  BY <1>0 DEF Named, BatchOK
<1>4. Paths(op, b) \subseteq Named(b)
  BY DEF Paths, Named
<1> QED BY <1>1, <1>2, <1>3, <1>4

LEMMA PerformType ==
  ASSUME NEW op \in Ops, NEW i, ItemOK(op, i), NEW d \in Disks
  PROVE  /\ Perform(d, op, i) \in Disks
         /\ \A f \in Files : f \notin Touched(op, i) => Perform(d, op, i)[f] = d[f]
         /\ op = "write" => Perform(d, op, i)[i.to] = i.size
         /\ op \in {"copy", "move"} => Perform(d, op, i)[i.to] = d[i.from]
         /\ op \in {"move", "delete"} => Perform(d, op, i)[i.from] = 0
<1>1. CASE op = "write"
  BY <1>1, SizesAreNat DEF ItemOK, Disks, Perform, Touched
<1>2. CASE op = "copy"
  BY <1>2, SizesAreNat DEF ItemOK, Disks, Perform, Touched
<1>3. CASE op = "move"
  BY <1>3, SizesAreNat DEF ItemOK, Disks, Perform, Touched
<1>4. CASE op = "delete"
  BY <1>4, SizesAreNat DEF ItemOK, Disks, Perform, Touched
<1> QED BY <1>1, <1>2, <1>3, <1>4 DEF Ops

(* The function of the disks that operations make one after another.        *)
Runs(op, b, n, d) ==
  /\ d \in [0 .. n -> Disks]
  /\ d[0] = disk
  /\ \A k \in 1 .. n : d[k] = Perform(d[k - 1], op, b[k])

LEMMA RunExists ==
  ASSUME NEW op, NEW b, BatchOK(op, b), disk \in Disks
  PROVE  \E d : Runs(op, b, Len(b), d)
<1> DEFINE T == {n \in Nat : n <= Len(b) => \E d : Runs(op, b, n, d)}
<1>1. 0 \in T
  <2>1. Runs(op, b, 0, [k \in 0 .. 0 |-> disk])
    BY DEF Runs
  <2> QED BY <2>1
<1>2. \A n \in Nat : n \in T => n + 1 \in T
  <2> SUFFICES ASSUME NEW n \in Nat, n \in T, n + 1 <= Len(b)
               PROVE  \E d : Runs(op, b, n + 1, d)
    OBVIOUS
  <2>1. PICK d : Runs(op, b, n, d)
    BY DEF BatchOK
  <2> DEFINE e == [k \in 0 .. n + 1 |->
                     IF k <= n THEN d[k] ELSE Perform(d[n], op, b[n + 1])]
  <2>2. Perform(d[n], op, b[n + 1]) \in Disks
    BY <2>1, PerformType DEF Runs, BatchOK
  <2>3. e \in [0 .. n + 1 -> Disks] /\ e[0] = disk
    BY <2>1, <2>2 DEF Runs
  <2>4. \A k \in 1 .. n + 1 : e[k] = Perform(e[k - 1], op, b[k])
    <3> SUFFICES ASSUME NEW k \in 1 .. n + 1 PROVE e[k] = Perform(e[k - 1], op, b[k])
      OBVIOUS
    <3>1. e[k - 1] = d[k - 1]
      OBVIOUS
    <3>2. CASE k <= n
      <4>1. e[k] = d[k]
        BY <3>2
      <4> HIDE DEF e
      <4> QED BY <3>1, <3>2, <4>1, <2>1 DEF Runs
    <3>3. CASE k = n + 1
      <4>1. e[k] = Perform(d[n], op, b[k])
        BY <3>3
      <4>2. k - 1 = n
        BY <3>3
      <4> HIDE DEF e
      <4> QED BY <3>1, <4>1, <4>2
    <3> QED BY <3>2, <3>3
  <2> HIDE DEF e
  <2> QED BY <2>3, <2>4 DEF Runs
<1> HIDE DEF T
<1>3. Nat \subseteq T
  BY <1>1, <1>2, NaturalsBySet
<1>4. Len(b) \in T
  BY <1>3 DEF BatchOK
<1> QED BY <1>4 DEF T, BatchOK

LEMMA AfterIs ==
  ASSUME NEW op, NEW b, BatchOK(op, b), disk \in Disks
  PROVE  Runs(op, b, Len(b), After(op, b))
<1>1. PICK d : Runs(op, b, Len(b), d)
  BY RunExists
<1> DEFINE e(h) == [k \in 0 .. Len(b) |-> IF k = 0 THEN disk ELSE Perform(h[k - 1], op, b[k])]
<1>2. d = e(d)
  <2>1. \A k \in 0 .. Len(b) : d[k] = IF k = 0 THEN disk ELSE Perform(d[k - 1], op, b[k])
    BY <1>1 DEF Runs, BatchOK
  <2>2. d = [k \in 0 .. Len(b) |-> d[k]]
    BY <1>1 DEF Runs
  <2> QED BY <2>1, <2>2
<1>3. After(op, b) = CHOOSE h : h = e(h)
  BY Zenon DEF After
<1> DEFINE a == After(op, b)
<1>4. a = e(a)
  <2> HIDE DEF e
  <2> QED BY <1>2, <1>3
<1> HIDE DEF a
<1>5. a[0] = disk /\ \A k \in 1 .. Len(b) : a[k] = Perform(a[k - 1], op, b[k])
  <2>1. Len(b) \in Nat
    BY DEF BatchOK
  <2>2. \A k \in 0 .. Len(b) : a[k] = e(a)[k]
    BY <1>4
  <2> QED BY <2>1, <2>2
<1>6. DOMAIN a = 0 .. Len(b) /\ a = [k \in 0 .. Len(b) |-> a[k]]
  BY <1>4
<1>7. \A k \in 0 .. Len(b) : a[k] \in Disks
  <2> DEFINE T == {n \in Nat : n <= Len(b) => a[n] \in Disks}
  <2>1. 0 \in T
    BY <1>5
  <2>2. \A n \in Nat : n \in T => n + 1 \in T
    <3> SUFFICES ASSUME NEW n \in Nat, n \in T, n + 1 <= Len(b) PROVE a[n + 1] \in Disks
      OBVIOUS
    <3>1. a[n] \in Disks /\ n + 1 \in 1 .. Len(b)
      BY DEF BatchOK
    <3>2. a[n + 1] = Perform(a[n], op, b[n + 1])
      BY <3>1, <1>5
    <3>3. op \in Ops /\ ItemOK(op, b[n + 1])
      BY <3>1 DEF BatchOK
    <3> QED BY <3>1, <3>2, <3>3, PerformType
  <2> HIDE DEF T
  <2>3. Nat \subseteq T
    BY <2>1, <2>2, NaturalsBySet
  <2>4. \A k \in 0 .. Len(b) : k \in T
    BY <2>3
  <2> QED BY <2>4 DEF T
<1>8. Runs(op, b, Len(b), a)
  BY <1>5, <1>6, <1>7 DEF Runs
<1> QED BY <1>8 DEF a

LEMMA AfterKeeps ==
  ASSUME NEW op, NEW b, BatchOK(op, b), disk \in Disks, NEW k \in 0 .. Len(b),
         NEW f \in Files, f \notin TouchedTo(op, b, k)
  PROVE  After(op, b)[k][f] = disk[f]
<1> DEFINE a == After(op, b)
           T == {n \in Nat : n <= k => a[n][f] = disk[f]}
<1>0. Runs(op, b, Len(b), a) /\ k \in Nat /\ k <= Len(b) /\ Len(b) \in Nat
  BY AfterIs DEF BatchOK
<1> HIDE DEF a
<1>1. 0 \in T
  BY <1>0 DEF Runs
<1>2. \A n \in Nat : n \in T => n + 1 \in T
  <2> SUFFICES ASSUME NEW n \in Nat, n \in T, n + 1 <= k PROVE a[n + 1][f] = disk[f]
    OBVIOUS
  <2>1. a[n][f] = disk[f]
    BY <1>0
  <2>2. n + 1 \in 1 .. k /\ n + 1 \in 1 .. Len(b) /\ n \in 0 .. Len(b) /\ (n + 1) - 1 = n
    BY <1>0
  <2>3. a[n + 1] = Perform(a[n], op, b[n + 1]) /\ a[n] \in Disks
    BY <1>0, <2>2 DEF Runs
  <2>4. f \notin Touched(op, b[n + 1])
    BY <2>2 DEF TouchedTo
  <2>5. op \in Ops /\ ItemOK(op, b[n + 1])
    BY <2>2 DEF BatchOK
  <2> QED BY <2>1, <2>3, <2>4, <2>5, PerformType
<1> HIDE DEF T
<1>3. k \in T
  BY <1>0, <1>1, <1>2, NaturalsBySet
<1> QED BY <1>0, <1>3 DEF T, a

(* Every item was let in; and items of a batch do not meet.                 *)
Taken(p, op, b) == \A k \in DOMAIN b : Allowed(p, op, b[k])

LEMMA BatchApart ==
  ASSUME NEW op, NEW b, BatchOK(op, b), NEW p, Taken(p, op, b),
         NEW k \in 1 .. Len(b), NEW j \in 1 .. Len(b), j < k
  PROVE  b[k].from \notin Touched(op, b[j]) /\ b[k].to \notin Touched(op, b[j])
<1>1. j # k
  BY DEF BatchOK
<1>2. b[k].to # b[j].to /\ b[k].from # b[j].from
  BY <1>1 DEF BatchOK
<1>3. CASE op \in {"write", "delete"}
  <2>1. b[k].from = b[k].to
    BY <1>3 DEF BatchOK, ItemOK
  <2> QED BY <1>2, <1>3, <2>1 DEF Touched
<1>4. CASE op \in {"copy", "move"}
  <2>1. /\ Indexed(p, b[k].from) /\ ~Indexed(p, b[k].to)
        /\ Indexed(p, b[j].from) /\ ~Indexed(p, b[j].to)
    BY <1>4 DEF BatchOK, Taken, Allowed
  <2>2. b[k].from # b[j].to /\ b[k].to # b[j].from
    BY <2>1
  <2> QED BY <1>2, <1>4, <2>2 DEF Touched
<1> QED BY <1>3, <1>4 DEF BatchOK, Ops

(* Each operation finds its files as they were before the batch.            *)
LEMMA EachSeesDisk ==
  ASSUME NEW op, NEW b, BatchOK(op, b), disk \in Disks, NEW p, Taken(p, op, b),
         NEW k \in 1 .. Len(b)
  PROVE  /\ After(op, b)[k - 1][b[k].from] = disk[b[k].from]
         /\ After(op, b)[k - 1][b[k].to] = disk[b[k].to]
<1>1. k - 1 \in 0 .. Len(b) /\ Len(b) \in Nat
  BY DEF BatchOK
<1>2. ASSUME NEW j \in 1 .. k - 1
      PROVE  b[k].from \notin Touched(op, b[j]) /\ b[k].to \notin Touched(op, b[j])
  <2>1. j \in 1 .. Len(b) /\ j < k
    BY <1>1
  <2> QED BY <2>1, BatchApart
<1>3. b[k].from \in Files /\ b[k].to \in Files
  BY DEF BatchOK, ItemOK
<1>4. b[k].from \notin TouchedTo(op, b, k - 1) /\ b[k].to \notin TouchedTo(op, b, k - 1)
  BY <1>2 DEF TouchedTo
<1> QED BY <1>1, <1>3, <1>4, AfterKeeps
-----------------------------------------------------------------------------
(* Totals and deltas: what the plan reckons is what the operations do, when *)
(* the sizes it reckons with are those on disk.                             *)

LEMMA DiskAt ==
  ASSUME NEW d \in Disks, NEW f \in Files
  PROVE  d[f] \in Sizes /\ d[f] \in Nat /\ d[f] \in Int /\ d[f] <= MaxSize
BY DEF Disks, Sizes

LEMMA TotalType ==
  ASSUME NEW d \in Disks
  PROVE  Total(d) \in Nat
BY FolderFinite, DiskAt, SumNat DEF Total

LEMMA TotalEqual ==
  ASSUME NEW d, NEW e, \A f \in Folder : d[f] \in Int /\ e[f] = d[f]
  PROVE  Total(e) = Total(d)
BY FolderFinite, SumEqual DEF Total

(* A file alone alters the total by what it grows.                          *)
LEMMA TotalAt ==
  ASSUME NEW d \in Disks, NEW e \in Disks, NEW y \in Files,
         \A f \in Files : f # y => e[f] = d[f]
  PROVE  Total(e) - Total(d) = In(y, e[y] - d[y])
<1>0. \A f \in Folder : d[f] \in Int /\ e[f] \in Int
  BY FolderFinite, DiskAt
<1>1. CASE y \in Folder
  <2>1. Sum(d, Folder) = d[y] + Sum(d, Folder \ {y})
    BY <1>0, <1>1, FolderFinite, SumRemove
  <2>2. Sum(e, Folder) = e[y] + Sum(e, Folder \ {y})
    BY <1>0, <1>1, FolderFinite, SumRemove
  <2>3. IsFiniteSet(Folder \ {y})
    BY FolderFinite, FS_RemoveElement
  <2>4. Sum(e, Folder \ {y}) = Sum(d, Folder \ {y})
    <3> DEFINE R == Folder \ {y}
    <3>1. \A f \in R : d[f] \in Int /\ e[f] = d[f]
      BY <1>0, FolderFinite
    <3> HIDE DEF R
    <3>2. Sum(e, R) = Sum(d, R)
      BY <2>3, <3>1, SumEqual DEF R
    <3> QED BY <3>2 DEF R
  <2>5. Sum(d, Folder \ {y}) \in Int
    <3> DEFINE R == Folder \ {y}
    <3>1. \A f \in R : d[f] \in Int
      BY <1>0
    <3> HIDE DEF R
    <3>2. Sum(d, R) \in Int
      BY <2>3, <3>1, SumType DEF R
    <3> QED BY <3>2 DEF R
  <2>6. d[y] \in Int /\ e[y] \in Int
    BY DiskAt
  <2> DEFINE m == Sum(d, Folder \ {y})
  <2>7. Total(d) = d[y] + m /\ Total(e) = e[y] + m
    BY <2>1, <2>2, <2>4 DEF Total
  <2> HIDE DEF m
  <2>8. In(y, e[y] - d[y]) = e[y] - d[y]
    BY <1>1 DEF In
  <2>9. m \in Int
    BY <2>5 DEF m
  <2> QED BY <2>6, <2>7, <2>8, <2>9
<1>2. CASE y \notin Folder
  <2>1. \A f \in Folder : d[f] \in Int /\ e[f] = d[f]
    BY <1>0, <1>2, FolderFinite
  <2>2. Total(e) = Total(d)
    BY <2>1, TotalEqual
  <2>3. In(y, e[y] - d[y]) = 0
    BY <1>2 DEF In
  <2> QED BY <2>2, <2>3, TotalType
<1> QED BY <1>1, <1>2

LEMMA InType ==
  ASSUME NEW f, NEW n \in Int
  PROVE  In(f, n) \in Int
BY DEF In

LEMMA PerformTotal ==
  ASSUME NEW op \in Ops, NEW i, ItemOK(op, i), NEW d \in Disks
  PROVE  /\ op = "write" =>
              Total(Perform(d, op, i)) - Total(d) = In(i.to, i.size - d[i.to])
         /\ op = "delete" =>
              Total(Perform(d, op, i)) - Total(d) = In(i.from, 0 - d[i.from])
         /\ op = "copy" =>
              Total(Perform(d, op, i)) - Total(d) = In(i.to, d[i.from] - d[i.to])
         /\ op = "move" =>
              Total(Perform(d, op, i)) - Total(d) =
                In(i.to, d[i.from] - d[i.to]) + In(i.from, 0 - d[i.from])
<1> DEFINE e == Perform(d, op, i)
<1>1. /\ e \in Disks /\ i.from \in Files /\ i.to \in Files
      /\ \A f \in Files : f \notin Touched(op, i) => e[f] = d[f]
      /\ op = "write" => e[i.to] = i.size
      /\ op \in {"copy", "move"} => e[i.to] = d[i.from]
      /\ op \in {"move", "delete"} => e[i.from] = 0
  BY PerformType DEF ItemOK
<1> HIDE DEF e
<1>2. CASE op \in {"write", "delete", "copy"}
  <2>1. \A f \in Files : f # i.to => e[f] = d[f]
    BY <1>1, <1>2 DEF Touched
  <2>2. Total(e) - Total(d) = In(i.to, e[i.to] - d[i.to])
    BY <1>1, <2>1, TotalAt
  <2>3. op = "delete" => i.from = i.to
    BY DEF ItemOK
  <2> QED BY <1>1, <1>2, <2>2, <2>3 DEF e
<1>3. CASE op = "move"
  <2> DEFINE c == [d EXCEPT ![i.from] = 0]
  <2>1. c \in Disks /\ c[i.from] = 0 /\ \A f \in Files : f # i.from => c[f] = d[f]
    BY <1>1, SizesAreNat DEF Disks
  <2>2. i.from # i.to
    BY <1>3 DEF ItemOK
  <2> HIDE DEF c
  <2>3. \A f \in Files : f # i.to => e[f] = c[f]
    BY <1>1, <1>3, <2>1 DEF Touched
  <2>4. Total(e) - Total(c) = In(i.to, e[i.to] - c[i.to])
    BY <1>1, <2>1, <2>3, TotalAt
  <2>5. Total(c) - Total(d) = In(i.from, c[i.from] - d[i.from])
    BY <1>1, <2>1, TotalAt
  <2>6. e[i.to] - c[i.to] = d[i.from] - d[i.to] /\ c[i.from] - d[i.from] = 0 - d[i.from]
    BY <1>1, <1>3, <2>1, <2>2
  <2>7. Total(e) \in Nat /\ Total(c) \in Nat /\ Total(d) \in Nat
    BY <1>1, <2>1, TotalType
  <2>8. d[i.from] - d[i.to] \in Int /\ 0 - d[i.from] \in Int
    BY <1>1, DiskAt
  <2>9. In(i.to, d[i.from] - d[i.to]) \in Int /\ In(i.from, 0 - d[i.from]) \in Int
    BY <2>8, InType
  <2> DEFINE x == In(i.to, d[i.from] - d[i.to])
             y == In(i.from, 0 - d[i.from])
  <2>10. x \in Int /\ y \in Int /\ Total(e) - Total(c) = x /\ Total(c) - Total(d) = y
    BY <2>4, <2>5, <2>6, <2>9
  <2> HIDE DEF x, y
  <2>11. Total(e) - Total(d) = x + y
    BY <2>7, <2>10
  <2> QED BY <1>3, <2>11 DEF x, y, e
<1> QED BY <1>2, <1>3 DEF Ops

(* The sizes by which the plan judges are those on disk.                    *)
Exact(p, op, b) ==
  \A k \in 1 .. Len(b) :
    /\ SizeOf(p, b[k].from) = disk[b[k].from]
    /\ SizeOf(p, b[k].to) = disk[b[k].to]
    /\ op \in {"copy", "move"} => disk[b[k].to] = 0

LEMMA DeltaExact ==
  ASSUME NEW op, NEW b, BatchOK(op, b), disk \in Disks, NEW p, Taken(p, op, b),
         Exact(p, op, b), NEW k \in 1 .. Len(b)
  PROVE  Total(After(op, b)[k]) - Total(After(op, b)[k - 1]) = Delta(p, op, b[k])
<1> DEFINE a == After(op, b)
           d == a[k - 1]
           i == b[k]
<1>0. Len(b) \in Nat /\ k \in 1 .. Len(b) /\ k - 1 \in 0 .. Len(b)
  BY DEF BatchOK
<1>1. d \in Disks /\ a[k] = Perform(d, op, i)
  <2>1. Runs(op, b, Len(b), a)
    BY AfterIs
  <2> QED BY <1>0, <2>1 DEF Runs
<1>2. op \in Ops /\ ItemOK(op, i) /\ i.from \in Files /\ i.to \in Files
  BY DEF BatchOK, ItemOK
<1>3. d[i.from] = disk[i.from] /\ d[i.to] = disk[i.to]
  BY EachSeesDisk
<1>4. /\ SizeOf(p, i.from) = d[i.from] /\ SizeOf(p, i.to) = d[i.to]
      /\ op \in {"copy", "move"} => d[i.to] = 0
  BY <1>3 DEF Exact
<1>5. d[i.from] \in Int /\ d[i.to] \in Int
  BY <1>1, <1>2, DiskAt
<1> HIDE DEF d, i, a
<1>6. ASSUME op = "write" PROVE Delta(p, op, i) = Total(Perform(d, op, i)) - Total(d)
  <2>1. Total(Perform(d, op, i)) - Total(d) = In(i.to, i.size - d[i.to])
    BY <1>1, <1>2, <1>6, PerformTotal
  <2> QED BY <1>4, <1>6, <2>1 DEF Delta
<1>7. ASSUME op = "delete" PROVE Delta(p, op, i) = Total(Perform(d, op, i)) - Total(d)
  <2>1. Total(Perform(d, op, i)) - Total(d) = In(i.from, 0 - d[i.from])
    BY <1>1, <1>2, <1>7, PerformTotal
  <2>2. Delta(p, op, i) = -In(i.from, d[i.from])
    BY <1>4, <1>7 DEF Delta
  <2>3. In(i.from, 0 - d[i.from]) = -In(i.from, d[i.from])
    BY <1>5 DEF In
  <2> QED BY <2>1, <2>2, <2>3
<1>8. ASSUME op = "copy" PROVE Delta(p, op, i) = Total(Perform(d, op, i)) - Total(d)
  <2>1. Total(Perform(d, op, i)) - Total(d) = In(i.to, d[i.from] - d[i.to])
    BY <1>1, <1>2, <1>8, PerformTotal
  <2>2. Delta(p, op, i) = In(i.to, d[i.from])
    BY <1>4, <1>8 DEF Delta
  <2>3. d[i.from] - d[i.to] = d[i.from]
    BY <1>4, <1>5, <1>8
  <2> QED BY <2>1, <2>2, <2>3
<1>9. ASSUME op = "move" PROVE Delta(p, op, i) = Total(Perform(d, op, i)) - Total(d)
  <2>1. Total(Perform(d, op, i)) - Total(d) =
          In(i.to, d[i.from] - d[i.to]) + In(i.from, 0 - d[i.from])
    BY <1>1, <1>2, <1>9, PerformTotal
  <2>2. Delta(p, op, i) = In(i.to, d[i.from]) - In(i.from, d[i.from])
    BY <1>4, <1>9 DEF Delta
  <2>3. d[i.from] - d[i.to] = d[i.from]
    BY <1>4, <1>5, <1>9
  <2>4. In(i.from, 0 - d[i.from]) = 0 - In(i.from, d[i.from])
    BY <1>5 DEF In
  <2>5. In(i.to, d[i.from]) \in Int /\ In(i.from, d[i.from]) \in Int
    BY <1>5, InType
  <2> DEFINE x == In(i.to, d[i.from])
             y == In(i.from, d[i.from])
  <2>6. x + (0 - y) = x - y
    BY <2>5
  <2> QED BY <2>1, <2>2, <2>3, <2>4, <2>6
<1>10. Delta(p, op, i) = Total(Perform(d, op, i)) - Total(d)
  BY <1>2, <1>6, <1>7, <1>8, <1>9 DEF Ops
<1> QED BY <1>1, <1>10 DEF i, a, d

(* The delta of an exact plan is what the folder grows by.                  *)
LEMMA BatchTotal ==
  ASSUME NEW op, NEW b, BatchOK(op, b), disk \in Disks, NEW p, Taken(p, op, b),
         Exact(p, op, b)
  PROVE  BatchDelta(p, op, b) = Total(After(op, b)[Len(b)]) - Total(disk)
<1> DEFINE a == After(op, b)
           D == [k \in DOMAIN b |-> Delta(p, op, b[k])]
           T == {n \in Nat : n <= Len(b) => Sum(D, 1 .. n) = Total(a[n]) - Total(disk)}
<1>0. Len(b) \in Nat /\ DOMAIN b = 1 .. Len(b) /\ Runs(op, b, Len(b), a)
  BY AfterIs DEF BatchOK
<1>1. \A k \in 1 .. Len(b) : D[k] = Total(a[k]) - Total(a[k - 1])
  BY <1>0, DeltaExact
<1>2. \A n \in 0 .. Len(b) : Total(a[n]) \in Nat
  BY <1>0, TotalType DEF Runs
<1>3. Total(disk) \in Nat
  BY TotalType
<1> HIDE DEF a, D
<1>4. 0 \in T
  <2>1. 1 .. 0 = {}
    OBVIOUS
  <2>2. Sum(D, 1 .. 0) = 0
    BY <2>1, SumEmpty
  <2>3. a[0] = disk
    BY <1>0 DEF Runs
  <2> QED BY <1>3, <2>2, <2>3
<1>5. \A n \in Nat : n \in T => n + 1 \in T
  <2> SUFFICES ASSUME NEW n \in Nat, n \in T, n + 1 <= Len(b)
               PROVE  Sum(D, 1 .. n + 1) = Total(a[n + 1]) - Total(disk)
    OBVIOUS
  <2> DEFINE S == 1 .. n + 1
  <2>1. Sum(D, 1 .. n) = Total(a[n]) - Total(disk)
    BY <1>0
  <2>2. IsFiniteSet(S) /\ n + 1 \in S /\ S \ {n + 1} = 1 .. n
    <3>1. n + 1 \in Int /\ n + 1 \in S
      OBVIOUS
    <3>2. IsFiniteSet(S)
      BY <3>1, FS_Interval
    <3>3. S \ {n + 1} = 1 .. n
      OBVIOUS
    <3> QED BY <3>1, <3>2, <3>3
  <2>3. \A k \in S : D[k] \in Int
    <3>1. \A k \in S : k \in 1 .. Len(b) /\ k \in 0 .. Len(b) /\ k - 1 \in 0 .. Len(b)
      BY <1>0
    <3> HIDE DEF S
    <3>2. ASSUME NEW k \in S PROVE D[k] \in Int
      <4>1. D[k] = Total(a[k]) - Total(a[k - 1])
        BY <3>1, <1>1
      <4>2. k \in 0 .. Len(b) /\ k - 1 \in 0 .. Len(b)
        BY <3>1
      <4>3. Total(a[k]) \in Nat /\ Total(a[k - 1]) \in Nat
        BY <1>2, <4>2
      <4> QED BY <4>1, <4>3
    <3> QED BY <3>2
  <2> HIDE DEF S
  <2>4. Sum(D, S) = D[n + 1] + Sum(D, S \ {n + 1})
    BY ONLY <2>2, <2>3, SumRemove
  <2>5. D[n + 1] = Total(a[n + 1]) - Total(a[n])
    <3>1. n + 1 \in 1 .. Len(b) /\ (n + 1) - 1 = n
      BY <1>0
    <3> QED BY <3>1, <1>1
  <2>6. Total(a[n + 1]) \in Nat /\ Total(a[n]) \in Nat
    <3>1. n + 1 \in 0 .. Len(b) /\ n \in 0 .. Len(b)
      BY <1>0
    <3> QED BY <3>1, <1>2
  <2>7. Sum(D, S) = (Total(a[n + 1]) - Total(a[n])) + (Total(a[n]) - Total(disk))
    BY <2>1, <2>2, <2>4, <2>5
  <2>8. Sum(D, S) = Total(a[n + 1]) - Total(disk)
    BY <1>3, <2>6, <2>7
  <2> QED BY <2>8 DEF S
<1> HIDE DEF T
<1>6. Len(b) \in T
  BY <1>0, <1>4, <1>5, NaturalsBySet
<1>7. Sum(D, 1 .. Len(b)) = Total(a[Len(b)]) - Total(disk)
  BY <1>0, <1>6 DEF T
<1> QED BY <1>0, <1>7 DEF BatchDelta, D, a

LEMMA BatchDeltaType ==
  ASSUME NEW op, NEW b, BatchOK(op, b), NEW p, \A f \in Files : SizeOf(p, f) \in Sizes
  PROVE  BatchDelta(p, op, b) \in Int
<1> DEFINE D == [k \in DOMAIN b |-> Delta(p, op, b[k])]
<1>1. IsFiniteSet(DOMAIN b)
  BY FS_Interval DEF BatchOK
<1>2. ASSUME NEW k \in DOMAIN b PROVE Delta(p, op, b[k]) \in Int
  <2>0. op \in Ops /\ ItemOK(op, b[k])
    BY DEF BatchOK
  <2>1. /\ op \in Ops /\ SizeOf(p, b[k].from) \in Int /\ SizeOf(p, b[k].to) \in Int
        /\ b[k].size \in Int
    <3>1. /\ SizeOf(p, b[k].from) \in Sizes /\ SizeOf(p, b[k].to) \in Sizes
          /\ b[k].size \in Sizes
      BY <2>0 DEF ItemOK
    <3>2. \A n \in Sizes : n \in Int
      BY DEF Sizes
    <3> QED BY <2>0, <3>1, <3>2
  <2>2. CASE op = "write"
    BY <2>1, <2>2, InType DEF Delta
  <2>3. CASE op = "copy"
    BY <2>1, <2>3, InType DEF Delta
  <2>4. CASE op = "move"
    BY <2>1, <2>4, InType DEF Delta
  <2>5. CASE op = "delete"
    BY <2>1, <2>5, InType DEF Delta
  <2> QED BY <2>1, <2>2, <2>3, <2>4, <2>5 DEF Ops
<1>3. \A k \in DOMAIN b : D[k] \in Int
  BY <1>2
<1> HIDE DEF D
<1>4. Sum(D, DOMAIN b) \in Int
  BY <1>1, <1>3, SumType
<1> QED BY <1>4 DEF D, BatchDelta
-----------------------------------------------------------------------------
(* Types, and the versions of the index: whoever is behind has the newest   *)
(* version on its way, or has asked for it.                                 *)

(* The newest version is known, asked for, or in the mail.                  *)
Reaches(p) ==
  \/ known[p] = Newest \/ p \in filling
  \/ \E i \in DOMAIN mail[p] : mail[p][i].version = Newest

VersionsOK ==
  \A p \in live :
    /\ \A i \in DOMAIN mail[p] : mail[p][i].version <= Newest
    /\ Reaches(p)
    /\ copy[p] = "none" => have[p] = 1
    /\ ~Clustered => /\ known[p] = Newest /\ have[p] = Newest /\ copy[p] = "full"
                     /\ mail[p] = << >> /\ p \notin filling

LEMMA OneAlone ==
  ASSUME TypeOK, ~Clustered, NEW p \in live, NEW q \in live
  PROVE  p = q
<1>1. IsFiniteSet(live) /\ live # {}
  BY FS_Subset DEF TypeOK
<1>2. Cardinality(live) \in Nat /\ Cardinality(live) # 0
  BY <1>1, FS_CardinalityType, FS_EmptySet
<1>3. Cardinality(live) = 1
  BY <1>2 DEF Clustered
<1>4. PICK x : live = {x}
  BY <1>1, <1>3, FS_Singleton
<1> QED BY <1>4

LEMMA MaxOfTwo ==
  ASSUME NEW a \in Int, NEW b \in Int
  PROVE  Max({a, b}) = IF a >= b THEN a ELSE b
<1> DEFINE m == IF a >= b THEN a ELSE b
<1>1. m \in {a, b} /\ \A y \in {a, b} : m >= y
  OBVIOUS
<1>2. \A n \in {a, b} : (\A y \in {a, b} : n >= y) => n = m
  OBVIOUS
<1> HIDE DEF m
<1>3. Max({a, b}) = m
  BY <1>1, <1>2 DEF Max
<1> QED BY <1>3 DEF m

LEMMA LogAt ==
  ASSUME TypeOK, NEW n \in 1 .. Newest
  PROVE  log[n] \in Disks
BY DEF TypeOK, Newest, Disks

LEMMA NewestType ==
  ASSUME TypeOK
  PROVE  Newest \in Nat \ {0} /\ Newest \in 1 .. Newest /\ log[Newest] \in Disks /\ disk \in Disks
<1>1. Newest \in Nat \ {0}
  <2>1. log \in Seq([Files -> Sizes]) /\ log # << >>
    BY DEF TypeOK
  <2> QED BY <2>1 DEF Newest
<1>2. disk \in Disks
  BY DEF TypeOK, Disks
<1>3. Newest \in 1 .. Newest
  BY <1>1
<1> QED BY <1>1, <1>2, <1>3, LogAt

LEMMA BatchRuns ==
  ASSUME TypeOK, NEW op, NEW b, BatchOK(op, b)
  PROVE  /\ Runs(op, b, Len(b), After(op, b)) /\ disk \in Disks
         /\ Len(b) \in Nat \ {0} /\ Len(b) \in 0 .. Len(b) /\ op \in Ops
<1>1. disk \in Disks
  BY NewestType
<1>2. Runs(op, b, Len(b), After(op, b))
  BY <1>1, AfterIs
<1>3. Len(b) \in Nat \ {0} /\ op \in Ops
  BY DEF BatchOK
<1>4. Len(b) \in 0 .. Len(b)
  BY <1>3
<1> QED BY <1>1, <1>2, <1>3, <1>4

LEMMA EntryType ==
  ASSUME TypeOK, NEW p \in live, NEW f \in Files
  PROVE  Entry(p, f) \in Sizes /\ SizeOf(p, f) \in Sizes
<1>1. have[p] \in 1 .. Newest /\ known[p] \in 1 .. Newest /\ disk[f] \in Sizes
  BY NewestType, DiskAt DEF TypeOK
<1>2. \A n \in 1 .. Newest : log[n][f] \in Sizes
  BY LogAt, DiskAt
<1>3. Entry(p, f) \in Sizes
  BY <1>1, <1>2, SizesAreNat DEF Entry
<1> QED BY <1>1, <1>3 DEF SizeOf

LEMMA FolderSizeType ==
  ASSUME TypeOK, NEW p \in live
  PROVE  FolderSize(p) \in Nat
<1>1. CASE cache[p] # NoSize
  <2>1. cache[p] \in Int /\ cache[p] >= NoSize
    BY DEF TypeOK
  <2> QED BY <1>1, <2>1 DEF FolderSize, NoSize
<1>2. CASE cache[p] = NoSize /\ copy[p] = "none"
  <2>1. Total(disk) \in Nat
    BY NewestType, TotalType
  <2> QED BY <1>2, <2>1 DEF FolderSize
<1>3. CASE cache[p] = NoSize /\ copy[p] # "none"
  <2> DEFINE e == [f \in Folder |-> Entry(p, f)]
  <2>1. \A f \in Folder : e[f] \in Nat
    BY FolderFinite, EntryType, SizesAreNat
  <2> HIDE DEF e
  <2>2. Sum(e, Folder) \in Nat
    BY <2>1, FolderFinite, SumNat
  <2> QED BY <1>3, <2>2 DEF FolderSize, e
<1> QED BY <1>1, <1>2, <1>3

LEMMA ProjectedType ==
  ASSUME TypeOK, NEW p \in live, NEW n \in Int
  PROVE  /\ Projected(p, n) \in Nat /\ Projected(p, n) >= FolderSize(p) + n
         /\ FolderSize(p) + n >= 0 => Projected(p, n) = FolderSize(p) + n
BY FolderSizeType, MaxOfTwo DEF Projected

LEMMA SpiteType ==
  ASSUME TypeOK, NEW p \in live, NEW S
  PROVE  Spite(p, S) \in SUBSET Excuses
<1>1. taint[p] \in SUBSET Excuses
  BY DEF TypeOK
<1> QED BY <1>1 DEF Spite, Excuses

LEMMA RacedType ==
  ASSUME TypeOK
  PROVE  Raced = NoInstall \/ Raced \in [by : live, at : Folder, size : 1 .. MaxSize,
                                         spite : SUBSET Excuses]
<1>1. CASE install = NoInstall
  BY <1>1 DEF Raced
<1>2. CASE install # NoInstall
  <2>1. install \in [by : live, at : Folder, size : 1 .. MaxSize, spite : SUBSET Excuses]
    BY <1>2 DEF TypeOK
  <2>2. Raced = [install EXCEPT !.spite = @ \union {"raced"}]
    BY <1>2 DEF Raced
  <2>3. "raced" \in Excuses
    BY DEF Excuses
  <2> QED BY <2>1, <2>2, <2>3
<1> QED BY <1>1, <1>2

LEMMA InitType == Init => TypeOK
<1> SUFFICES ASSUME Init PROVE TypeOK
  OBVIOUS
<1>1. log \in Seq([Files -> Sizes]) /\ Newest = 1 /\ log # << >>
  BY DEF Init, Newest
<1>2. live \subseteq Processes /\ live # {}
  BY DEF Init
<1>3. copy \in [live -> {"none", "part", "full"}]
  BY DEF Init
<1>4. /\ have \in [live -> 1 .. Newest] /\ known \in [live -> 1 .. Newest]
      /\ cache \in [live -> Int] /\ \A p \in live : cache[p] >= NoSize
  BY <1>1 DEF Init, NoSize
<1>5. mail \in [live -> Seq([kind : {"delta", "answer"}, version : Nat])]
  BY DEF Init
<1>6. /\ reports = {} /\ filling = {} /\ install = NoInstall /\ torn = {} /\ excuse = {}
      /\ taint = [p \in live |-> {}] /\ lost = "no" /\ changes = 0 /\ faults = 0
      /\ disk \in [Files -> Sizes] /\ unseen = {}
  BY DEF Init
<1>7. MaxFaults \in Nat
  OBVIOUS
<1> QED BY <1>1, <1>2, <1>3, <1>4, <1>5, <1>6, <1>7 DEF TypeOK

LEMMA InitVersions == Init => VersionsOK
BY DEF Init, VersionsOK, Reaches, Newest

TypesAndVersions == TypeOK /\ VersionsOK

(* what a step may leave alone                                              *)
LEMMA CountsOn ==
  ASSUME TypeOK, Change
  PROVE  changes' \in Nat
<1>1. changes \in Nat
  BY DEF TypeOK
<1>2. changes' = changes + 1
  BY DEF Change
<1> QED BY <1>1, <1>2

(* What every action leaves of the types.                                   *)
LEMMA DropType ==
  ASSUME TypeOK, NEW p \in live, Drop(p)
  PROVE  /\ cache' \in [live -> Int] /\ \A q \in live : cache'[q] >= NoSize
         /\ taint' \in [live -> SUBSET Excuses]
<1>1. /\ cache \in [live -> Int] /\ \A q \in live : cache[q] >= -1
      /\ taint \in [live -> SUBSET Excuses]
  BY DEF TypeOK, NoSize
<1> QED BY <1>1 DEF Drop, NoSize

LEMMA KeepType ==
  ASSUME TypeOK, NEW p \in live, NEW n \in Nat, NEW why \in SUBSET Excuses, Keep(p, n, why)
  PROVE  /\ cache' \in [live -> Int] /\ \A q \in live : cache'[q] >= NoSize
         /\ taint' \in [live -> SUBSET Excuses]
<1>1. /\ cache \in [live -> Int] /\ \A q \in live : cache[q] >= -1
      /\ taint \in [live -> SUBSET Excuses]
  BY DEF TypeOK, NoSize
<1> QED BY <1>1 DEF Keep, NoSize

LEMMA RefuseType ==
  ASSUME TypeOK, NEW p \in live, NEW op, NEW b, Change, Refuse(p, op, b)
  PROVE  TypeOK'
<1>1. FolderSize(p) \in Nat /\ Spite(p, {}) \in SUBSET Excuses
  BY FolderSizeType, SpiteType
<1>2. /\ cache' \in [live -> Int] /\ \A q \in live : cache'[q] >= NoSize
      /\ taint' \in [live -> SUBSET Excuses]
  BY <1>1, KeepType DEF Refuse
<1>3. changes' \in Nat
  BY CountsOn
<1>4. UNCHANGED <<live, disk, unseen, log, copy, have, known, reports, mail, filling,
                  install, torn, excuse, lost, faults>>
  BY DEF Refuse, diskVars, indexVars
<1> QED BY <1>2, <1>3, <1>4 DEF TypeOK, Newest

LEMMA FinishType ==
  ASSUME TypeOK, NEW p \in live, NEW op, NEW b, BatchOK(op, b), Change, Finish(p, op, b)
  PROVE  TypeOK'
<1>1. BatchDelta(p, op, b) \in Int
  BY EntryType, BatchDeltaType
<1>2. /\ Projected(p, BatchDelta(p, op, b)) \in Nat
      /\ Spite(p, Named(b)) \in SUBSET Excuses
  BY <1>1, ProjectedType, SpiteType
<1>3. /\ cache' \in [live -> Int] /\ \A q \in live : cache'[q] >= NoSize
      /\ taint' \in [live -> SUBSET Excuses]
  BY <1>2, KeepType DEF Finish
<1>4. changes' \in Nat
  BY CountsOn
<1>5. disk' \in Disks
  <2>1. Len(b) \in 0 .. Len(b) /\ Runs(op, b, Len(b), After(op, b))
    BY BatchRuns
  <2> QED BY <2>1 DEF Finish, Runs
<1>6. Paths(op, b) \subseteq Files
  BY PathsAreTouched DEF TouchedTo
<1>7. unseen' \subseteq Files
  BY <1>6 DEF Finish, TypeOK
<1>8. reports' \subseteq [by : live, paths : SUBSET Files]
  <2>1. reports' = reports \union {[by |-> p, paths |-> Paths(op, b)]}
    BY DEF Finish
  <2>2. reports \subseteq [by : live, paths : SUBSET Files]
    BY DEF TypeOK
  <2> QED BY <1>6, <2>1, <2>2
<1>9. excuse' \in SUBSET Excuses /\ lost' \in {"no", "excused", "yes"}
  BY <1>2 DEF Finish, TypeOK
<1>10. install' = NoInstall
         \/ install' \in [by : live, at : Folder, size : 1 .. MaxSize, spite : SUBSET Excuses]
  BY RacedType DEF Finish
<1>11. UNCHANGED <<live, log, copy, have, known, mail, filling, torn, faults>>
  BY DEF Finish, indexVars
<1> QED BY <1>3, <1>4, <1>5, <1>7, <1>8, <1>9, <1>10, <1>11 DEF TypeOK, Newest, Disks

LEMMA StopType ==
  ASSUME TypeOK, NEW p \in live, NEW op, NEW b, BatchOK(op, b), NEW k \in DOMAIN b,
         Change, Stop(p, op, b, k)
  PROVE  TypeOK'
<1>1. Spite(p, Named(b)) \union {"failed"} \in SUBSET Excuses
  BY SpiteType DEF Excuses
<1>2. k \in 1 .. Len(b) /\ k - 1 \in 0 .. Len(b) /\ Runs(op, b, Len(b), After(op, b))
  <2>1. k \in 1 .. Len(b)
    BY DEF BatchOK
  <2> QED BY <2>1, BatchRuns
<1>3. /\ cache' \in [live -> Int] /\ \A q \in live : cache'[q] >= NoSize
      /\ taint' \in [live -> SUBSET Excuses]
  BY DropType DEF Stop
<1>4. changes' \in Nat /\ faults' \in 0 .. MaxFaults
  <2>1. changes' \in Nat
    BY CountsOn
  <2>2. /\ faults \in 0 .. MaxFaults
        /\ faults' = faults \/ (faults < MaxFaults /\ faults' = faults + 1)
    BY DEF Stop, TypeOK
  <2>3. MaxFaults \in Nat
    OBVIOUS
  <2> QED BY <2>1, <2>2, <2>3
<1>5. disk' \in Disks
  BY <1>2 DEF Stop, Runs
<1>6. Paths(op, SubSeq(b, 1, k - 1)) \subseteq Files
  BY <1>2, PathsAreTouched DEF TouchedTo
<1>7. unseen' \subseteq Files /\ torn' \subseteq Files
  BY <1>6 DEF Stop, TypeOK
<1>8. excuse' \in SUBSET Excuses /\ lost' \in {"no", "excused", "yes"}
  BY <1>1 DEF Stop, TypeOK
<1>9. install' = NoInstall
         \/ install' \in [by : live, at : Folder, size : 1 .. MaxSize, spite : SUBSET Excuses]
  BY RacedType DEF Stop, TypeOK
<1>10. UNCHANGED <<live, log, copy, have, known, mail, filling, reports>>
  BY DEF Stop, indexVars
<1> QED BY <1>3, <1>4, <1>5, <1>7, <1>8, <1>9, <1>10 DEF TypeOK, Newest, Disks

LEMMA BackendType ==
  ASSUME TypeOK, NEW p \in live, BackendWrite(p)
  PROVE  TypeOK'
<1>1. PICK f \in Auth, n \in 1 .. MaxSize :
        /\ disk' = [disk EXCEPT ![f] = n] /\ unseen' = unseen \union {f}
        /\ reports' = reports \union {[by |-> p, paths |-> {f}]}
  BY DEF BackendWrite
<1>2. f \in Files /\ n \in Sizes
  BY DEF Sizes
<1>3. /\ cache' \in [live -> Int] /\ \A q \in live : cache'[q] >= NoSize
      /\ taint' \in [live -> SUBSET Excuses]
  BY DropType DEF BackendWrite
<1>4. changes' \in Nat
  BY CountsOn DEF BackendWrite
<1>5. disk' \in [Files -> Sizes] /\ unseen' \subseteq Files
  BY <1>1, <1>2 DEF TypeOK
<1>6. reports' \subseteq [by : live, paths : SUBSET Files]
  <2>1. reports \subseteq [by : live, paths : SUBSET Files]
    BY DEF TypeOK
  <2> QED BY <1>1, <1>2, <2>1
<1>7. excuse' \in SUBSET Excuses
  BY DEF BackendWrite, Excuses
<1>8. install' = NoInstall
         \/ install' \in [by : live, at : Folder, size : 1 .. MaxSize, spite : SUBSET Excuses]
  BY RacedType DEF BackendWrite
<1>9. UNCHANGED <<live, log, copy, have, known, mail, filling, torn, lost, faults>>
  BY DEF BackendWrite, indexVars
<1> QED BY <1>3, <1>4, <1>5, <1>6, <1>7, <1>8, <1>9 DEF TypeOK, Newest

LEMMA PlanType ==
  ASSUME TypeOK, NEW p \in live, PlanInstall(p)
  PROVE  TypeOK'
<1>1. PICK f \in Folder \ Auth, n \in 1 .. MaxSize :
        install' = [by |-> p, at |-> f, size |-> n, spite |-> Spite(p, {f})]
  BY DEF PlanInstall
<1>2. install' \in [by : live, at : Folder, size : 1 .. MaxSize, spite : SUBSET Excuses]
  BY <1>1, SpiteType
<1>3. /\ cache' \in [live -> Int] /\ \A q \in live : cache'[q] >= NoSize
      /\ taint' \in [live -> SUBSET Excuses]
  <2>1. CASE cache[p] = NoSize
    <3>1. FolderSize(p) \in Nat /\ Spite(p, {}) \in SUBSET Excuses
      BY FolderSizeType, SpiteType
    <3>2. Keep(p, FolderSize(p), Spite(p, {}))
      BY <2>1 DEF PlanInstall
    <3> QED BY <3>1, <3>2, KeepType
  <2>2. CASE cache[p] # NoSize
    <3>1. UNCHANGED <<cache, taint>>
      BY <2>2 DEF PlanInstall
    <3> QED BY <3>1 DEF TypeOK
  <2> QED BY <2>1, <2>2
<1>4. changes' \in Nat
  BY CountsOn DEF PlanInstall
<1>5. UNCHANGED <<live, disk, unseen, log, copy, have, known, reports, mail, filling,
                  torn, excuse, lost, faults>>
  BY DEF PlanInstall, diskVars, indexVars
<1> QED BY <1>2, <1>3, <1>4, <1>5 DEF TypeOK, Newest

LEMMA MoveInstallType ==
  ASSUME TypeOK, MoveInstall
  PROVE  TypeOK'
<1>1. install \in [by : live, at : Folder, size : 1 .. MaxSize, spite : SUBSET Excuses]
  BY DEF TypeOK, MoveInstall
<1>2. install.by \in live /\ install.at \in Files /\ install.size \in Sizes
  BY <1>1 DEF Sizes
<1>3. /\ cache' \in [live -> Int] /\ \A q \in live : cache'[q] >= NoSize
      /\ taint' \in [live -> SUBSET Excuses]
  BY <1>2, DropType DEF MoveInstall
<1>4. /\ disk' \in [Files -> Sizes] /\ unseen' \subseteq Files
      /\ reports' \subseteq [by : live, paths : SUBSET Files] /\ excuse' \in SUBSET Excuses
      /\ live' = live
  <2>1. CASE disk[install.at] # 0
    <3>1. UNCHANGED <<diskVars, reports, excuse>>
      BY <2>1 DEF MoveInstall
    <3> QED BY <3>1 DEF TypeOK, diskVars
  <2>2. CASE disk[install.at] = 0
    <3>1. /\ disk' = [disk EXCEPT ![install.at] = install.size]
          /\ unseen' = unseen \union {install.at}
          /\ reports' = reports \union {[by |-> install.by, paths |-> {install.at}]}
          /\ excuse' = install.spite /\ live' = live
      BY <2>2 DEF MoveInstall
    <3>2. disk' \in [Files -> Sizes] /\ unseen' \subseteq Files
      BY <1>2, <3>1 DEF TypeOK
    <3>3. reports' \subseteq [by : live, paths : SUBSET Files]
      <4>1. [by |-> install.by, paths |-> {install.at}] \in [by : live, paths : SUBSET Files]
        BY <1>2
      <4> QED BY <3>1, <4>1 DEF TypeOK
    <3> QED BY <1>1, <3>1, <3>2, <3>3
  <2> QED BY <2>1, <2>2
<1>5. UNCHANGED <<live, log, copy, have, known, mail, filling, torn, lost, changes, faults>>
  BY DEF MoveInstall, indexVars
<1>6. install' = NoInstall
  BY DEF MoveInstall
<1> QED BY <1>3, <1>4, <1>5, <1>6 DEF TypeOK, Newest

LEMMA CommitType ==
  ASSUME TypeOK, NEW p \in live, Commit(p)
  PROVE  TypeOK'
<1>1. /\ cache' \in [live -> Int] /\ \A q \in live : cache'[q] >= NoSize
      /\ taint' \in [live -> SUBSET Excuses]
  BY DropType DEF Commit
<1>2. UNCHANGED <<live, disk, unseen, log, copy, have, known, reports, mail, filling,
                  install, torn, excuse, lost, changes, faults>>
  BY DEF Commit, diskVars, indexVars
<1> QED BY <1>1, <1>2 DEF TypeOK, Newest

LEMMA EnsureType ==
  ASSUME TypeOK, NEW p \in live, EnsureUserFileIndex(p)
  PROVE  TypeOK'
<1>1. copy' = [copy EXCEPT ![p] = "full"] /\ have' = [have EXCEPT ![p] = Newest]
  BY DEF EnsureUserFileIndex, Load
<1>2. copy' \in [live -> {"none", "part", "full"}] /\ have' \in [live -> 1 .. Newest]
  BY <1>1, NewestType DEF TypeOK
<1>3. UNCHANGED <<live, disk, unseen, log, known, cache, reports, mail, filling, install,
                  torn, taint, excuse, lost, changes, faults>>
  BY DEF EnsureUserFileIndex, Load, diskVars
<1> QED BY <1>2, <1>3 DEF TypeOK, Newest

LEMMA FillType ==
  ASSUME TypeOK, NEW p \in live, Fill(p)
  PROVE  TypeOK'
<1>1. known' \in [live -> 1 .. Newest] /\ filling' \subseteq live
  BY NewestType DEF Fill, TypeOK
<1>2. UNCHANGED <<live, disk, unseen, log, copy, have, cache, reports, mail, install,
                  torn, taint, excuse, lost, changes, faults>>
  BY DEF Fill, diskVars
<1> QED BY <1>1, <1>2 DEF TypeOK, Newest

Messages == [kind : {"delta", "answer"}, version : Nat]

LEMMA HeadOfMail ==
  ASSUME TypeOK, NEW p \in live, mail[p] # << >>
  PROVE  /\ Head(mail[p]) = mail[p][1] /\ Head(mail[p]) \in Messages
         /\ 1 \in DOMAIN mail[p]
         /\ Tail(mail[p]) \in Seq(Messages)
         /\ \A i \in DOMAIN Tail(mail[p]) :
              i + 1 \in DOMAIN mail[p] /\ Tail(mail[p])[i] = mail[p][i + 1]
         /\ \A j \in DOMAIN mail[p] : j # 1 =>
              j - 1 \in DOMAIN Tail(mail[p]) /\ Tail(mail[p])[j - 1] = mail[p][j]
<1>1. mail[p] \in Seq(Messages)
  BY DEF TypeOK, Messages
<1> DEFINE m == mail[p]
<1>2. m \in Seq(Messages) /\ m # << >>
  BY <1>1
<1> HIDE DEF m
<1>3. /\ Head(m) = m[1] /\ Head(m) \in Messages
         /\ 1 \in DOMAIN m
         /\ Tail(m) \in Seq(Messages)
         /\ \A i \in DOMAIN Tail(m) :
              i + 1 \in DOMAIN m /\ Tail(m)[i] = m[i + 1]
         /\ \A j \in DOMAIN m : j # 1 =>
              j - 1 \in DOMAIN Tail(m) /\ Tail(m)[j - 1] = m[j]
  BY ONLY <1>2
<1> USE DEF m
<1> QED BY ONLY <1>3

LEMMA DeliverFacts ==
  ASSUME TypeOK, VersionsOK, NEW p \in live, Deliver(p)
  PROVE  LET v == Head(mail[p]).version
         IN  /\ v \in Nat /\ v <= Newest
             /\ known' = [known EXCEPT ![p] = IF known[p] >= v THEN known[p] ELSE v]
             /\ mail' = [mail EXCEPT ![p] = Tail(mail[p])]
             /\ \/ have' = [have EXCEPT ![p] = v] /\ v >= have[p]
                   /\ copy' = [copy EXCEPT ![p] = "full"]
                \/ have' = have /\ copy' = copy
<1> DEFINE v == Head(mail[p]).version
<1>0. mail[p] # << >> /\ Hear(p)
  BY DEF Deliver
<1>1. v \in Nat /\ v <= Newest
  BY <1>0, HeadOfMail DEF VersionsOK, Messages
<1>2. known[p] \in Int /\ Max({known[p], v}) = IF known[p] >= v THEN known[p] ELSE v
  <2>1. known[p] \in Int
    BY NewestType DEF TypeOK
  <2> QED BY <1>1, <2>1, MaxOfTwo
<1>3. known' = [known EXCEPT ![p] = Max({known[p], v})]
  BY <1>0 DEF Hear
<1>4. mail' = [mail EXCEPT ![p] = Tail(mail[p])]
  BY <1>0 DEF Hear
<1>5. \/ have' = [have EXCEPT ![p] = v] /\ v >= have[p]
                   /\ copy' = [copy EXCEPT ![p] = "full"]
      \/ have' = have /\ copy' = copy
  BY <1>0 DEF Hear
<1> QED BY <1>1, <1>2, <1>3, <1>4, <1>5

LEMMA DeliverType ==
  ASSUME TypeOK, VersionsOK, NEW p \in live, Deliver(p)
  PROVE  TypeOK'
<1> DEFINE v == Head(mail[p]).version
<1>1. /\ v \in Nat /\ v <= Newest
      /\ known' = [known EXCEPT ![p] = IF known[p] >= v THEN known[p] ELSE v]
      /\ mail' = [mail EXCEPT ![p] = Tail(mail[p])]
      /\ \/ have' = [have EXCEPT ![p] = v] /\ v >= have[p]
            /\ copy' = [copy EXCEPT ![p] = "full"]
         \/ have' = have /\ copy' = copy
  BY DeliverFacts
<1> HIDE DEF v
<1>2. /\ cache' \in [live -> Int] /\ \A q \in live : cache'[q] >= NoSize
      /\ taint' \in [live -> SUBSET Excuses]
  BY DropType DEF Deliver, Hear
<1>3. have[p] \in 1 .. Newest /\ known[p] \in 1 .. Newest /\ Newest \in Nat
  BY NewestType DEF TypeOK
<1>4. (IF known[p] >= v THEN known[p] ELSE v) \in 1 .. Newest /\ (v >= have[p] => v \in 1 .. Newest)
  BY <1>1, <1>3
<1>5. have' \in [live -> 1 .. Newest] /\ known' \in [live -> 1 .. Newest]
  <2> DEFINE S == 1 .. Newest
             k == IF known[p] >= v THEN known[p] ELSE v
  <2>1. have \in [live -> S] /\ known \in [live -> S] /\ k \in S /\ (v >= have[p] => v \in S)
    BY <1>4 DEF TypeOK
  <2>2. known' = [known EXCEPT ![p] = k]
    BY <1>1
  <2> HIDE DEF S, k
  <2>3. have' \in [live -> S] /\ known' \in [live -> S]
    BY <1>1, <2>1, <2>2
  <2> QED BY <2>3 DEF S
<1>6. copy' \in [live -> {"none", "part", "full"}]
  BY <1>1 DEF TypeOK
<1>7. mail' \in [live -> Seq([kind : {"delta", "answer"}, version : Nat])]
  <2>1. mail[p] # << >>
    BY DEF Deliver
  <2> QED BY <1>1, <2>1, HeadOfMail DEF TypeOK, Messages
<1>8. UNCHANGED <<live, disk, unseen, log, reports, filling, install, torn, excuse, lost,
                  changes, faults>>
  BY DEF Deliver, diskVars
<1> QED BY <1>2, <1>5, <1>6, <1>7, <1>8 DEF TypeOK, Newest

LEMMA HearGapType ==
  ASSUME TypeOK, NEW p \in live, HearGap(p)
  PROVE  TypeOK'
<1>1. /\ cache' \in [live -> Int] /\ \A q \in live : cache'[q] >= NoSize
      /\ taint' \in [live -> SUBSET Excuses]
  BY DropType DEF HearGap
<1>2. mail' \in [live -> Seq([kind : {"delta", "answer"}, version : Nat])]
  <2>1. mail[p] # << >> /\ mail' = [mail EXCEPT ![p] = Tail(mail[p])]
    BY DEF HearGap
  <2> QED BY <2>1, HeadOfMail DEF TypeOK, Messages
<1>3. filling' \subseteq live /\ faults' \in 0 .. MaxFaults
  <2>1. filling' \subseteq live
    BY DEF HearGap, TypeOK
  <2>2. faults \in 0 .. MaxFaults /\ faults < MaxFaults /\ faults' = faults + 1
    BY DEF HearGap, TypeOK
  <2>3. MaxFaults \in Nat
    OBVIOUS
  <2> QED BY <2>1, <2>2, <2>3
<1>4. UNCHANGED <<live, disk, unseen, log, copy, have, known, reports, install, torn,
                  excuse, lost, changes>>
  BY DEF HearGap, diskVars, indexVars
<1> QED BY <1>1, <1>2, <1>3, <1>4 DEF TypeOK, Newest

(* What the end of a request tells: Report, in parts.                       *)
Told(r) == {f \in r.paths \intersect unseen : disk[f] + log[Newest][f] > 0} # {}
Now(r) == [f \in Files |-> IF f \in r.paths THEN disk[f] ELSE log[Newest][f]]
News(p, r) ==
  IF p = r.by THEN <<Message("answer", IF Told(r) THEN Newest + 1 ELSE 0)>>
  ELSE IF Told(r) THEN <<Message("delta", Newest + 1)>> ELSE << >>

LEMMA ReportFacts ==
  ASSUME TypeOK, NEW r, Report(r)
  PROVE  /\ r \in reports /\ r.by \in live /\ r.paths \subseteq Files
         /\ reports' = reports \ {r}
         /\ unseen' = unseen \ r.paths /\ torn' = torn \ r.paths
         /\ log' = IF Told(r) THEN Append(log, Now(r)) ELSE log
         /\ Newest' = IF Told(r) THEN Newest + 1 ELSE Newest
         /\ \A n \in 1 .. Newest : log'[n] = log[n]
         /\ Told(r) => log'[Newest'] = Now(r)
         /\ Now(r) \in Disks
         /\ log' \in Seq([Files -> Sizes]) /\ log' # << >>
         /\ Clustered => /\ mail' = [p \in live |-> mail[p] \o News(p, r)]
                         /\ UNCHANGED <<have, known>>
         /\ ~Clustered => /\ have' = [have EXCEPT ![r.by] = Newest']
                          /\ known' = [known EXCEPT ![r.by] = Newest']
                          /\ UNCHANGED mail
         /\ UNCHANGED <<live, disk, copy, cache, filling, install, taint, excuse, lost,
                        changes, faults>>
         /\ Clustered' = Clustered
<1> DEFINE seen == {f \in r.paths \intersect unseen : disk[f] + log[Newest][f] > 0}
           told == IF seen = {} THEN << >> ELSE <<Message("delta", Newest + 1)>>
           answer == <<Message("answer", IF told = << >> THEN 0 ELSE Newest + 1)>>
<1>1. r \in reports /\ r.by \in live /\ r.paths \subseteq Files
  BY DEF Report, TypeOK
<1>2. Told(r) <=> told # << >>
  BY DEF Told
<1>3. Now(r) \in Disks
  <2>1. \A f \in Files : disk[f] \in Sizes /\ log[Newest][f] \in Sizes
    BY NewestType, DiskAt
  <2> QED BY <2>1 DEF Now, Disks
<1>4. log \in Seq(Disks) /\ log # << >>
  BY DEF TypeOK, Disks
<1>5. log' = IF Told(r) THEN Append(log, Now(r)) ELSE log
  <2>1. log' = IF told = << >> THEN log
               ELSE Append(log, [f \in Files |-> IF f \in r.paths THEN disk[f] ELSE log[Newest][f]])
    BY DEF Report
  <2> QED BY <1>2, <2>1 DEF Now
<1>6. /\ Newest' = IF Told(r) THEN Newest + 1 ELSE Newest
      /\ \A n \in 1 .. Newest : log'[n] = log[n]
      /\ Told(r) => log'[Newest'] = Now(r)
      /\ log' \in Seq(Disks) /\ log' # << >>
  <2>1. CASE Told(r)
    <3>1. log' = Append(log, Now(r))
      BY <1>5, <2>1
    <3> DEFINE w == Now(r)
               l == log'
    <3>2. l = Append(log, w) /\ w \in Disks
      BY <1>3, <3>1
    <3> HIDE DEF w, l
    <3>3. /\ Len(l) = Len(log) + 1 /\ \A n \in 1 .. Len(log) : l[n] = log[n]
          /\ l[Len(l)] = w /\ l \in Seq(Disks) /\ l # << >>
      BY <1>4, <3>2
    <3> QED BY <2>1, <3>3 DEF w, l, Newest
  <2>2. CASE ~Told(r)
    <3>1. log' = log
      BY <1>5, <2>2
    <3> QED BY <1>4, <2>2, <3>1 DEF Newest
  <2> QED BY <2>1, <2>2
<1>7. ASSUME Clustered
      PROVE  mail' = [p \in live |-> mail[p] \o News(p, r)] /\ UNCHANGED <<have, known>>
  <2>1. mail' = [p \in live |-> mail[p] \o (IF p = r.by THEN answer ELSE told)]
        /\ UNCHANGED <<have, known>>
    BY <1>7 DEF Report
  <2>2. \A p \in live : (IF p = r.by THEN answer ELSE told) = News(p, r)
    BY <1>2 DEF News
  <2> HIDE DEF answer, told
  <2> QED BY <2>1, <2>2
<1>8. ASSUME ~Clustered
      PROVE  /\ have' = [have EXCEPT ![r.by] = Newest']
             /\ known' = [known EXCEPT ![r.by] = Newest']
             /\ UNCHANGED mail
  BY <1>8 DEF Report, Newest
<1>9. /\ reports' = reports \ {r}
      /\ unseen' = unseen \ r.paths /\ torn' = torn \ r.paths
      /\ UNCHANGED <<live, disk, copy, cache, filling, install, taint, excuse, lost,
                     changes, faults>>
  BY DEF Report
<1>10. Clustered' = Clustered
  BY <1>9 DEF Clustered
<1> QED BY <1>1, <1>3, <1>5, <1>6, <1>7, <1>8, <1>9, <1>10 DEF Disks

LEMMA NewsType ==
  ASSUME TypeOK, NEW p, NEW r
  PROVE  /\ News(p, r) \in Seq(Messages)
         /\ \A i \in DOMAIN News(p, r) :
              News(p, r)[i].version <= IF Told(r) THEN Newest + 1 ELSE Newest
         /\ Told(r) => /\ 1 \in DOMAIN News(p, r)
                       /\ News(p, r)[1].version = Newest + 1
         /\ p = r.by => News(p, r) # << >>
         /\ Told(r) => News(p, r) # << >>
         /\ ~Told(r) /\ p # r.by => News(p, r) = << >>
<1>1. Newest \in Nat
  BY NewestType
<1>2. \A v \in Nat : /\ Message("answer", v) \in Messages /\ Message("delta", v) \in Messages
                     /\ Message("answer", v).version = v /\ Message("delta", v).version = v
  BY DEF Message, Messages
<1>3. (IF Told(r) THEN Newest + 1 ELSE 0) \in Nat /\ Newest + 1 \in Nat
  BY <1>1
<1> DEFINE a == Message("answer", IF Told(r) THEN Newest + 1 ELSE 0)
           c == Message("delta", Newest + 1)
<1>4. /\ a \in Messages /\ c \in Messages
      /\ a.version = (IF Told(r) THEN Newest + 1 ELSE 0) /\ c.version = Newest + 1
  BY <1>2, <1>3
<1>5. News(p, r) = IF p = r.by THEN <<a>> ELSE IF Told(r) THEN <<c>> ELSE << >>
  BY DEF News
<1> HIDE DEF a, c
<1>6. CASE p = r.by
  <2>1. News(p, r) = <<a>>
    BY <1>5, <1>6
  <2> QED BY <1>1, <1>4, <1>6, <2>1
<1>7. CASE p # r.by /\ Told(r)
  <2>1. News(p, r) = <<c>>
    BY <1>5, <1>7
  <2> QED BY <1>1, <1>4, <1>7, <2>1
<1>8. CASE p # r.by /\ ~Told(r)
  <2>1. News(p, r) = << >>
    BY <1>5, <1>8
  <2> QED BY <1>1, <1>8, <2>1
<1> QED BY <1>6, <1>7, <1>8

LEMMA ReportType ==
  ASSUME TypeOK, NEW r, Report(r)
  PROVE  TypeOK'
<1>1. Newest \in Nat \ {0} /\ Newest' \in Nat /\ Newest <= Newest' /\ Newest' \in 1 .. Newest'
  BY NewestType, ReportFacts
<1>2. have' \in [live -> 1 .. Newest'] /\ known' \in [live -> 1 .. Newest']
  <2>0. 1 .. Newest \subseteq 1 .. Newest'
    BY <1>1
  <2>1. CASE Clustered
    <3>1. have' = have /\ known' = known
      BY <2>1, ReportFacts
    <3> QED BY <2>0, <3>1 DEF TypeOK
  <2>2. CASE ~Clustered
    <3>1. /\ have' = [have EXCEPT ![r.by] = Newest'] /\ known' = [known EXCEPT ![r.by] = Newest']
      BY <2>2, ReportFacts
    <3> QED BY <1>1, <2>0, <3>1 DEF TypeOK
  <2> QED BY <2>1, <2>2
<1>3. mail' \in [live -> Seq([kind : {"delta", "answer"}, version : Nat])]
  <2>1. CASE Clustered
    <3>1. mail' = [p \in live |-> mail[p] \o News(p, r)]
      BY <2>1, ReportFacts
    <3>2. \A p \in live : mail[p] \in Seq(Messages) /\ News(p, r) \in Seq(Messages)
      BY NewsType DEF TypeOK, Messages
    <3>3. \A p \in live : mail[p] \o News(p, r) \in Seq(Messages)
      BY <3>2
    <3> QED BY <3>1, <3>3 DEF Messages
  <2>2. CASE ~Clustered
    <3>1. mail' = mail
      BY <2>2, ReportFacts
    <3> QED BY <3>1 DEF TypeOK
  <2> QED BY <2>1, <2>2
<1>4. /\ log' \in Seq([Files -> Sizes]) /\ log' # << >>
      /\ reports' = reports \ {r} /\ unseen' = unseen \ r.paths /\ torn' = torn \ r.paths
      /\ UNCHANGED <<live, disk, copy, cache, filling, install, taint, excuse, lost,
                     changes, faults>>
  BY ReportFacts
<1> QED BY <1>2, <1>3, <1>4 DEF TypeOK
-----------------------------------------------------------------------------
(* The steps that touch the versions, and what a step does to the disk and  *)
(* to what is known of it.                                                  *)

(* VersionsOK                                                               *)
(* Steps that leave the versions alone keep their invariant.                *)
SameVersions == UNCHANGED <<live, log, copy, have, known, mail, filling>>

LEMMA VersionsStay ==
  ASSUME VersionsOK, SameVersions
  PROVE  VersionsOK'
<1>1. /\ live' = live /\ log' = log /\ copy' = copy /\ have' = have /\ known' = known
      /\ mail' = mail /\ filling' = filling
  BY DEF SameVersions
<1>2. Newest' = Newest /\ Clustered' = Clustered
  BY <1>1 DEF Newest, Clustered
<1> QED BY <1>1, <1>2 DEF VersionsOK, Reaches

LEMMA QuietSteps ==
  /\ \A p, op, b : Refuse(p, op, b) \/ Finish(p, op, b) => SameVersions
  /\ \A p, op, b, k : Stop(p, op, b, k) => SameVersions
  /\ \A p : BackendWrite(p) \/ PlanInstall(p) \/ Commit(p) => SameVersions
  /\ MoveInstall => SameVersions
<1>1. \A p, op, b : Refuse(p, op, b) \/ Finish(p, op, b) => SameVersions
  BY DEF Refuse, Finish, SameVersions, diskVars, indexVars
<1>2. \A p, op, b, k : Stop(p, op, b, k) => SameVersions
  BY DEF Stop, SameVersions, diskVars, indexVars
<1>3. \A p : BackendWrite(p) \/ PlanInstall(p) \/ Commit(p) => SameVersions
  BY DEF BackendWrite, PlanInstall, Commit, SameVersions, diskVars, indexVars
<1>4. MoveInstall => SameVersions
  BY DEF MoveInstall, SameVersions, diskVars, indexVars
<1> QED BY <1>1, <1>2, <1>3, <1>4

LEMMA EnsureVersions ==
  ASSUME TypeOK, VersionsOK, NEW p \in live, EnsureUserFileIndex(p)
  PROVE  VersionsOK'
<1>1. /\ copy' = [copy EXCEPT ![p] = "full"] /\ have' = [have EXCEPT ![p] = Newest]
      /\ UNCHANGED <<live, log, known, mail, filling>>
  BY DEF EnsureUserFileIndex, Load, diskVars
<1>2. Newest' = Newest /\ Clustered' = Clustered
  BY <1>1 DEF Newest, Clustered
<1>3. \A q \in live : Reaches(q)'
  BY <1>1, <1>2 DEF VersionsOK, Reaches
<1>4. \A q \in live : /\ copy'[q] = IF q = p THEN "full" ELSE copy[q]
                      /\ have'[q] = IF q = p THEN Newest ELSE have[q]
  BY <1>1 DEF TypeOK
<1> QED BY <1>1, <1>2, <1>3, <1>4 DEF VersionsOK

LEMMA FillVersions ==
  ASSUME TypeOK, VersionsOK, NEW p \in live, Fill(p)
  PROVE  VersionsOK'
<1>1. /\ p \in filling /\ filling' = filling \ {p} /\ known' = [known EXCEPT ![p] = Newest]
      /\ UNCHANGED <<live, log, copy, have, mail>>
  BY DEF Fill, diskVars
<1>2. Newest' = Newest /\ Clustered' = Clustered
  BY <1>1 DEF Newest, Clustered
<1>3. \A q \in live : known'[q] = IF q = p THEN Newest ELSE known[q]
  BY <1>1 DEF TypeOK
<1>4. \A q \in live : Reaches(q)'
  BY <1>1, <1>2, <1>3 DEF VersionsOK, Reaches
<1> QED BY <1>1, <1>2, <1>3, <1>4 DEF VersionsOK

LEMMA DeliverVersions ==
  ASSUME TypeOK, VersionsOK, NEW p \in live, Deliver(p)
  PROVE  VersionsOK'
<1> DEFINE v == Head(mail[p]).version
<1>1. /\ v \in Nat /\ v <= Newest
      /\ known' = [known EXCEPT ![p] = IF known[p] >= v THEN known[p] ELSE v]
      /\ mail' = [mail EXCEPT ![p] = Tail(mail[p])]
      /\ \/ have' = [have EXCEPT ![p] = v] /\ v >= have[p]
            /\ copy' = [copy EXCEPT ![p] = "full"]
         \/ have' = have /\ copy' = copy
  BY DeliverFacts
<1>2. v = mail[p][1].version /\ mail[p] # << >>
  BY HeadOfMail DEF Deliver
<1>3. /\ \A i \in DOMAIN Tail(mail[p]) :
              i + 1 \in DOMAIN mail[p] /\ Tail(mail[p])[i] = mail[p][i + 1]
      /\ \A j \in DOMAIN mail[p] : j # 1 =>
              j - 1 \in DOMAIN Tail(mail[p]) /\ Tail(mail[p])[j - 1] = mail[p][j]
  BY <1>2, HeadOfMail
<1> HIDE DEF v
<1>4. UNCHANGED <<live, log, filling>>
  BY DEF Deliver, diskVars
<1>5. Newest' = Newest /\ Clustered' = Clustered
  BY <1>4 DEF Newest, Clustered
<1>6. Clustered
  BY <1>2 DEF VersionsOK
<1>7. \A q \in live : /\ known'[q] = IF q = p THEN IF known[p] >= v THEN known[p] ELSE v
                                     ELSE known[q]
                      /\ mail'[q] = IF q = p THEN Tail(mail[p]) ELSE mail[q]
                      /\ copy'[q] = "none" => have'[q] = have[q] /\ copy[q] = "none"
  BY <1>1 DEF TypeOK
<1>8. ASSUME NEW q \in live, NEW i \in DOMAIN mail'[q] PROVE mail'[q][i].version <= Newest
  <2>0. \A j \in DOMAIN mail[q] : mail[q][j].version <= Newest
    BY DEF VersionsOK
  <2>1. CASE q = p
    <3>1. mail'[q] = Tail(mail[p])
      BY <1>7, <2>1
    <3>2. i + 1 \in DOMAIN mail[p] /\ mail'[q][i] = mail[p][i + 1]
      BY <1>3, <3>1
    <3> QED BY <2>0, <2>1, <3>2
  <2>2. CASE q # p
    <3>1. mail'[q] = mail[q]
      BY <1>7, <2>2
    <3> QED BY <2>0, <3>1
  <2> QED BY <2>1, <2>2
<1>9. \A q \in live : q # p => Reaches(q)'
  BY <1>4, <1>5, <1>7 DEF VersionsOK, Reaches
<1>10. Reaches(p)'
  <2>0. known[p] \in 1 .. Newest /\ Newest \in Nat
    BY NewestType DEF TypeOK
  <2>1. CASE known[p] = Newest
    BY <1>1, <1>5, <1>7, <2>0, <2>1 DEF Reaches
  <2>2. CASE p \in filling
    BY <1>4, <2>2 DEF Reaches
  <2>3. ASSUME NEW i \in DOMAIN mail[p], mail[p][i].version = Newest PROVE Reaches(p)'
    <3>1. CASE i = 1
      <4>1. v = Newest
        BY <1>2, <2>3, <3>1
      <4>2. known'[p] = Newest
        BY <1>7, <2>0, <4>1
      <4> QED BY <1>5, <4>2 DEF Reaches
    <3>2. CASE i # 1
      <4>1. i - 1 \in DOMAIN Tail(mail[p]) /\ Tail(mail[p])[i - 1] = mail[p][i]
        BY <1>3, <3>2
      <4>2. i - 1 \in DOMAIN mail'[p] /\ mail'[p][i - 1].version = Newest
        BY <1>7, <2>3, <4>1
      <4> QED BY <1>5, <4>2 DEF Reaches
    <3> QED BY <3>1, <3>2
  <2> QED BY <2>1, <2>2, <2>3 DEF VersionsOK, Reaches
<1> QED BY <1>4, <1>5, <1>6, <1>7, <1>8, <1>9, <1>10 DEF VersionsOK

LEMMA HearGapVersions ==
  ASSUME TypeOK, VersionsOK, NEW p \in live, HearGap(p)
  PROVE  VersionsOK'
<1>1. /\ mail[p] # << >> /\ mail' = [mail EXCEPT ![p] = Tail(mail[p])]
      /\ filling' = filling \union {p} /\ UNCHANGED <<live, log, copy, have, known>>
  BY DEF HearGap, diskVars, indexVars
<1>2. \A i \in DOMAIN Tail(mail[p]) :
              i + 1 \in DOMAIN mail[p] /\ Tail(mail[p])[i] = mail[p][i + 1]
  BY <1>1, HeadOfMail
<1>3. Newest' = Newest /\ Clustered' = Clustered
  BY <1>1 DEF Newest, Clustered
<1>4. Clustered
  BY <1>1 DEF VersionsOK
<1>5. \A q \in live : mail'[q] = IF q = p THEN Tail(mail[p]) ELSE mail[q]
  BY <1>1 DEF TypeOK
<1>6. ASSUME NEW q \in live, NEW i \in DOMAIN mail'[q] PROVE mail'[q][i].version <= Newest
  <2>0. \A j \in DOMAIN mail[q] : mail[q][j].version <= Newest
    BY DEF VersionsOK
  <2>1. CASE q = p
    <3>1. mail'[q] = Tail(mail[p])
      BY <1>5, <2>1
    <3>2. i + 1 \in DOMAIN mail[p] /\ mail'[q][i] = mail[p][i + 1]
      BY <1>2, <3>1
    <3> QED BY <2>0, <2>1, <3>2
  <2>2. CASE q # p
    <3>1. mail'[q] = mail[q]
      BY <1>5, <2>2
    <3> QED BY <2>0, <3>1
  <2> QED BY <2>1, <2>2
<1>7. \A q \in live : Reaches(q)'
  BY <1>1, <1>3, <1>5 DEF VersionsOK, Reaches
<1> QED BY <1>1, <1>3, <1>4, <1>6, <1>7 DEF VersionsOK

LEMMA AppendedMail ==
  ASSUME NEW s \in Seq(Messages), NEW t \in Seq(Messages)
  PROVE  /\ \A i \in DOMAIN s : i \in DOMAIN (s \o t) /\ (s \o t)[i] = s[i]
         /\ \A j \in DOMAIN t : j + Len(s) \in DOMAIN (s \o t) /\ (s \o t)[j + Len(s)] = t[j]
         /\ \A m \in DOMAIN (s \o t) : \/ m \in DOMAIN s /\ (s \o t)[m] = s[m]
                                     \/ \E n \in DOMAIN t : (s \o t)[m] = t[n]
         /\ t # << >> => s \o t # << >>
         /\ s # << >> => s \o t # << >>
         /\ t = << >> => s \o t = s
<1>1. \A i \in DOMAIN s : i \in DOMAIN (s \o t) /\ (s \o t)[i] = s[i]
  OBVIOUS
<1>2. \A j \in DOMAIN t : j + Len(s) \in DOMAIN (s \o t) /\ (s \o t)[j + Len(s)] = t[j]
  OBVIOUS
<1>3. ASSUME NEW m \in DOMAIN (s \o t)
      PROVE  \/ m \in DOMAIN s /\ (s \o t)[m] = s[m]
             \/ \E n \in DOMAIN t : (s \o t)[m] = t[n]
  <2>1. CASE m \in DOMAIN s
    BY <2>1
  <2>2. CASE m \notin DOMAIN s
    <3>1. m - Len(s) \in DOMAIN t /\ (s \o t)[m] = t[m - Len(s)]
      BY <2>2
    <3> QED BY <3>1
  <2> QED BY <2>1, <2>2
<1>4. t # << >> => s \o t # << >>
  OBVIOUS
<1>5. s # << >> => s \o t # << >>
  OBVIOUS
<1>6. t = << >> => s \o t = s
  OBVIOUS
<1> QED BY <1>1, <1>2, <1>3, <1>4, <1>5, <1>6

LEMMA ReportVersions ==
  ASSUME TypeOK, VersionsOK, NEW r, Report(r)
  PROVE  VersionsOK'
<1>1. /\ Newest \in Nat /\ Newest' = IF Told(r) THEN Newest + 1 ELSE Newest
      /\ UNCHANGED <<live, copy, filling>> /\ Clustered' = Clustered /\ r.by \in live
  BY NewestType, ReportFacts
<1>2. CASE Clustered
  <2>1. mail' = [q \in live |-> mail[q] \o News(q, r)] /\ UNCHANGED <<have, known>>
    BY <1>2, ReportFacts
  <2>2. ASSUME NEW q \in live
        PROVE  /\ \A i \in DOMAIN mail'[q] : mail'[q][i].version <= Newest'
               /\ Reaches(q)'
    <3> DEFINE s == mail[q]
               t == News(q, r)
    <3>1. s \in Seq(Messages) /\ t \in Seq(Messages) /\ mail'[q] = s \o t
      BY <2>1, NewsType DEF TypeOK, Messages
    <3>2. /\ \A i \in DOMAIN t : t[i].version <= IF Told(r) THEN Newest + 1 ELSE Newest
          /\ Told(r) => 1 \in DOMAIN t /\ t[1].version = Newest + 1
      BY NewsType
    <3>3. \A i \in DOMAIN s : s[i].version <= Newest /\ s[i].version \in Nat
      <4>1. \A i \in DOMAIN s : s[i].version <= Newest
        BY DEF VersionsOK
      <4> HIDE DEF s
      <4>2. \A i \in DOMAIN s : s[i] \in Messages
        BY <3>1
      <4> QED BY <4>1, <4>2 DEF Messages
    <3>4. /\ Reaches(q)
          /\ known'[q] = known[q]
      BY <2>1 DEF VersionsOK
    <3> HIDE DEF s, t
    <3>5. /\ \A i \in DOMAIN s : i \in DOMAIN (s \o t) /\ (s \o t)[i] = s[i]
          /\ \A j \in DOMAIN t : j + Len(s) \in DOMAIN (s \o t) /\ (s \o t)[j + Len(s)] = t[j]
          /\ \A m \in DOMAIN (s \o t) : \/ m \in DOMAIN s /\ (s \o t)[m] = s[m]
                                      \/ \E n \in DOMAIN t : (s \o t)[m] = t[n]
      BY ONLY <3>1, AppendedMail
    <3>6. \A i \in DOMAIN mail'[q] : mail'[q][i].version <= Newest'
      <4> SUFFICES ASSUME NEW i \in DOMAIN (s \o t) PROVE (s \o t)[i].version <= Newest'
        BY <3>1
      <4>1. CASE i \in DOMAIN s /\ (s \o t)[i] = s[i]
        BY <1>1, <3>3, <4>1
      <4>2. CASE \E n \in DOMAIN t : (s \o t)[i] = t[n]
        <5>1. PICK n \in DOMAIN t : (s \o t)[i] = t[n]
          BY <4>2
        <5> QED BY <1>1, <3>2, <5>1
      <4> QED BY <3>5, <4>1, <4>2
    <3>7. Reaches(q)'
      <4>1. CASE Told(r)
        <5>1. 1 + Len(s) \in DOMAIN mail'[q] /\ mail'[q][1 + Len(s)].version = Newest'
          BY <1>1, <3>1, <3>2, <3>5, <4>1
        <5> QED BY <5>1 DEF Reaches
      <4>2. CASE ~Told(r)
        <5>1. Newest' = Newest
          BY <1>1, <4>2
        <5>2. CASE known[q] = Newest \/ q \in filling
          BY <1>1, <3>4, <5>1, <5>2 DEF Reaches
        <5>3. ASSUME NEW i \in DOMAIN mail[q], mail[q][i].version = Newest PROVE Reaches(q)'
          <6>1. i \in DOMAIN mail'[q] /\ mail'[q][i].version = Newest'
            BY <3>1, <3>5, <5>1, <5>3 DEF s
          <6> QED BY <6>1 DEF Reaches
        <5> QED BY <3>4, <5>2, <5>3 DEF Reaches
      <4> QED BY <4>1, <4>2
    <3> QED BY <3>6, <3>7
  <2>3. \A q \in live : copy'[q] = "none" => have'[q] = 1
    BY <1>1, <2>1 DEF VersionsOK
  <2> QED BY <1>1, <1>2, <2>2, <2>3 DEF VersionsOK
<1>3. CASE ~Clustered
  <2>1. /\ have' = [have EXCEPT ![r.by] = Newest'] /\ known' = [known EXCEPT ![r.by] = Newest']
        /\ mail' = mail
    BY <1>3, ReportFacts
  <2>2. ASSUME NEW q \in live
        PROVE  /\ known'[q] = Newest' /\ have'[q] = Newest' /\ copy'[q] = "full"
               /\ mail'[q] = << >> /\ q \notin filling'
    <3>1. q = r.by
      BY <1>1, <1>3, OneAlone
    <3>2. copy[q] = "full" /\ mail[q] = << >> /\ q \notin filling
      BY <1>3 DEF VersionsOK
    <3> QED BY <1>1, <2>1, <3>1, <3>2 DEF TypeOK
  <2>3. \A q \in live : Reaches(q)'
    BY <2>2 DEF Reaches
  <2>4. \A q \in live : DOMAIN mail'[q] = {}
    BY <2>2
  <2> QED BY <1>1, <1>3, <2>2, <2>3, <2>4 DEF VersionsOK
<1> QED BY <1>2, <1>3

(* what a step does to the disk, for the invariants about it                *)
(* Of every file that the index has wrong a report is still to come, or it  *)
(* was torn by a request that failed.                                       *)
Reported(f) == \E r \in reports : f \in r.paths
ReportsOK ==
  \A f \in Files :
    /\ log[Newest][f] # disk[f] => f \in unseen
    /\ f \in unseen => f \in torn \/ Reported(f)

LEMMA InitReports == Init => ReportsOK
BY DEF Init, ReportsOK, Newest

(* A step that changes the files of S on disk, of which the process by will *)
(* tell the index (or, failed, nobody will).                                *)
Alters(S) ==
  /\ S \subseteq Files
  /\ live' = live /\ log' = log
  /\ \A f \in Files \ S : disk'[f] = disk[f]
  /\ unseen' = unseen \union S

Tells(by, S) == reports' = reports \union {[by |-> by, paths |-> S]} /\ torn' = torn
Forgets(S) == reports' = reports /\ torn' = torn \union S

LEMMA FinishAlters ==
  ASSUME TypeOK, NEW p \in live, NEW op, NEW b, BatchOK(op, b), Finish(p, op, b)
  PROVE  Alters(Paths(op, b)) /\ Tells(p, Paths(op, b))
<1>1. Paths(op, b) = TouchedTo(op, b, Len(b)) /\ Len(b) \in 0 .. Len(b) /\ disk \in Disks
  BY PathsAreTouched, BatchRuns
<1>2. \A f \in Files \ Paths(op, b) : After(op, b)[Len(b)][f] = disk[f]
  BY <1>1, AfterKeeps
<1>3. Paths(op, b) \subseteq Files
  BY <1>1 DEF TouchedTo
<1> QED BY <1>2, <1>3 DEF Finish, Alters, Tells, indexVars

LEMMA StopAlters ==
  ASSUME TypeOK, NEW p \in live, NEW op, NEW b, BatchOK(op, b), NEW k \in DOMAIN b,
         Stop(p, op, b, k)
  PROVE  /\ Alters(Paths(op, SubSeq(b, 1, k - 1))) /\ Forgets(Paths(op, SubSeq(b, 1, k - 1)))
<1>0. k \in 1 .. Len(b) /\ k - 1 \in 0 .. Len(b)
  BY DEF BatchOK
<1>1. /\ Paths(op, SubSeq(b, 1, k - 1)) = TouchedTo(op, b, k - 1)
      /\ disk \in Disks
  BY <1>0, PathsAreTouched, NewestType
<1> DEFINE S == Paths(op, SubSeq(b, 1, k - 1))
<1>2. \A f \in Files \ S : After(op, b)[k - 1][f] = disk[f]
  BY <1>0, <1>1, AfterKeeps
<1>3. S \subseteq Files
  BY <1>1 DEF TouchedTo
<1>4. /\ disk' = After(op, b)[k - 1] /\ unseen' = unseen \union S /\ torn' = torn \union S
      /\ UNCHANGED <<live, log, reports>>
  BY DEF Stop, indexVars
<1> HIDE DEF S
<1>5. Alters(S) /\ Forgets(S)
  BY <1>2, <1>3, <1>4 DEF Alters, Forgets
<1> QED BY <1>5 DEF S

LEMMA BackendAlters ==
  ASSUME TypeOK, NEW p \in live, BackendWrite(p)
  PROVE  \E f \in Auth : /\ Alters({f}) /\ Tells(p, {f}) /\ disk'[f] \in 1 .. MaxSize
<1>1. PICK f \in Auth, n \in 1 .. MaxSize :
        /\ disk' = [disk EXCEPT ![f] = n] /\ unseen' = unseen \union {f}
        /\ reports' = reports \union {[by |-> p, paths |-> {f}]}
  BY DEF BackendWrite
<1>2. UNCHANGED <<live, log, torn>>
  BY DEF BackendWrite, indexVars
<1>3. f \in Files /\ disk'[f] = n /\ \A g \in Files \ {f} : disk'[g] = disk[g]
  BY <1>1 DEF TypeOK
<1> QED BY <1>1, <1>2, <1>3 DEF Alters, Tells

LEMMA MoveInstallAlters ==
  ASSUME TypeOK, MoveInstall, disk[install.at] = 0
  PROVE  /\ install.at \in Folder /\ install.by \in live /\ install.size \in 1 .. MaxSize
         /\ disk' \in Disks
         /\ Alters({install.at}) /\ Tells(install.by, {install.at})
         /\ disk'[install.at] = install.size /\ excuse' = install.spite
<1>1. install \in [by : live, at : Folder, size : 1 .. MaxSize, spite : SUBSET Excuses]
  BY DEF TypeOK, MoveInstall
<1>2. install.at \in Folder /\ install.by \in live /\ install.size \in 1 .. MaxSize
  BY <1>1
<1>3. /\ disk' = [disk EXCEPT ![install.at] = install.size]
      /\ unseen' = unseen \union {install.at}
      /\ reports' = reports \union {[by |-> install.by, paths |-> {install.at}]}
      /\ excuse' = install.spite /\ UNCHANGED <<live, log, torn>>
  BY DEF MoveInstall, indexVars
<1>4. install.at \in Files /\ install.size \in Sizes
  BY <1>2 DEF Sizes
<1>5. disk' \in Disks /\ disk'[install.at] = install.size
      /\ \A g \in Files \ {install.at} : disk'[g] = disk[g]
  BY <1>3, <1>4 DEF TypeOK, Disks
<1> QED BY <1>2, <1>3, <1>4, <1>5 DEF Alters, Tells

LEMMA AltersReports ==
  ASSUME ReportsOK, NEW S, Alters(S), (\E q : Tells(q, S)) \/ Forgets(S)
  PROVE  ReportsOK'
<1>1. Newest' = Newest /\ log' = log
  BY DEF Alters, Newest
<1>2. \A f \in Files : log'[Newest'][f] # disk'[f] => f \in unseen'
  BY <1>1 DEF ReportsOK, Alters
<1>3. CASE \E q : Tells(q, S)
  <2>1. PICK q : Tells(q, S)
    BY <1>3
  <2>2. [by |-> q, paths |-> S] \in reports' /\ [by |-> q, paths |-> S].paths = S
    BY <2>1 DEF Tells
  <2>3. \A f \in Files : f \in unseen' => f \in torn' \/ Reported(f)'
    BY <2>1, <2>2 DEF Tells, Reported, ReportsOK, Alters
  <2> QED BY <1>2, <2>3 DEF ReportsOK
<1>4. CASE Forgets(S)
  <2>1. \A f \in Files : f \in unseen' => f \in torn' \/ Reported(f)'
    BY <1>4 DEF Forgets, Reported, ReportsOK, Alters
  <2> QED BY <1>2, <2>1 DEF ReportsOK
<1> QED BY <1>3, <1>4

(* A step that leaves the disk and what is known of it alone.               *)
Leaves == UNCHANGED <<live, disk, unseen, log, reports, torn>>

LEMMA LeavesReports ==
  ASSUME ReportsOK, Leaves
  PROVE  ReportsOK'
BY DEF ReportsOK, Leaves, Newest, Reported

LEMMA LeavingSteps ==
  /\ \A p, op, b : Refuse(p, op, b) => Leaves
  /\ \A p : PlanInstall(p) \/ Commit(p) \/ EnsureUserFileIndex(p) \/ Deliver(p)
              \/ HearGap(p) \/ Fill(p) => Leaves
  /\ MoveInstall /\ disk[install.at] # 0 => Leaves
<1>1. \A p, op, b : Refuse(p, op, b) => Leaves
  BY DEF Refuse, Leaves, diskVars, indexVars
<1>2. \A p : PlanInstall(p) => Leaves
  BY DEF PlanInstall, Leaves, diskVars, indexVars
<1>3. \A p : Commit(p) \/ EnsureUserFileIndex(p) \/ Fill(p) => Leaves
  BY DEF Commit, EnsureUserFileIndex, Load, Fill, Leaves, diskVars, indexVars
<1>4. \A p : Deliver(p) \/ HearGap(p) => Leaves
  BY DEF Deliver, HearGap, Leaves, diskVars, indexVars
<1>5. MoveInstall /\ disk[install.at] # 0 => Leaves
  BY DEF MoveInstall, Leaves, diskVars, indexVars
<1> QED BY <1>1, <1>2, <1>3, <1>4, <1>5

LEMMA ReportReports ==
  ASSUME TypeOK, ReportsOK, NEW r, Report(r)
  PROVE  ReportsOK'
<1>1. /\ r \in reports /\ r.paths \subseteq Files
      /\ reports' = reports \ {r} /\ unseen' = unseen \ r.paths /\ torn' = torn \ r.paths
      /\ disk' = disk
      /\ Told(r) => log'[Newest'] = Now(r)
      /\ ~Told(r) => log' = log /\ Newest' = Newest
  BY ReportFacts
<1>2. \A f \in Files : disk[f] \in Nat /\ log[Newest][f] \in Nat
  BY NewestType, DiskAt
<1>3. ASSUME NEW f \in Files, log'[Newest'][f] # disk'[f] PROVE f \in unseen'
  <2>1. CASE Told(r)
    BY <1>1, <1>3, <2>1 DEF Now, ReportsOK
  <2>2. CASE ~Told(r)
    <3>1. f \in unseen
      BY <1>1, <1>3, <2>2 DEF ReportsOK
    <3>2. f \in r.paths => disk[f] + log[Newest][f] = 0
      BY <1>2, <2>2, <3>1 DEF Told
    <3> QED BY <1>1, <1>2, <1>3, <2>2, <3>1, <3>2
  <2> QED BY <2>1, <2>2
<1>4. \A f \in Files : f \in unseen' => f \in torn' \/ Reported(f)'
  BY <1>1 DEF ReportsOK, Reported
<1> QED BY <1>3, <1>4 DEF ReportsOK
-----------------------------------------------------------------------------
(* A file of the first version that was not there has only been added, and  *)
(* what a plan made in spite of nothing knows.                              *)

FirstOK == Newest = 1 => \A f \in unseen : log[1][f] = 0 => disk[f] > 0

LEMMA InitFirst == Init => FirstOK
BY DEF Init, FirstOK

LEMMA BatchFirst ==
  ASSUME TypeOK, FirstOK, Newest = 1, NEW p \in live, NEW op, NEW b, BatchOK(op, b),
         Taken(p, op, b), NEW k \in 0 .. Len(b), \A j \in 1 .. k : ~BreaksAt(op, b, j),
         NEW f \in Files, log[1][f] = 0, f \in unseen \union TouchedTo(op, b, k)
  PROVE  After(op, b)[k][f] > 0
<1> DEFINE a == After(op, b)
           T == {n \in Nat : n <= k =>
                   \A g \in Files : log[1][g] = 0 /\ g \in unseen \union TouchedTo(op, b, n)
                                      => a[n][g] > 0}
<1>0. /\ Runs(op, b, Len(b), a) /\ k \in Nat /\ k <= Len(b) /\ Len(b) \in Nat
      /\ disk \in Disks /\ op \in Ops
  BY BatchRuns
<1>1. 0 \in T
  <2>1. a[0] = disk
    BY <1>0 DEF Runs
  <2>2. TouchedTo(op, b, 0) = {}
    BY DEF TouchedTo
  <2> HIDE DEF a
  <2> QED BY <2>1, <2>2 DEF FirstOK
<1>2. ASSUME NEW j \in 1 .. Len(b), op # "write" PROVE log[1][b[j].from] # 0
  <2>1. Indexed(p, b[j].from) /\ have[p] = 1 /\ known[p] = 1
    BY <1>0, <1>2 DEF TypeOK, Taken, Allowed, BatchOK, Ops
  <2> QED BY <2>1 DEF Indexed, Entry
<1>3. ASSUME NEW j \in 1 .. k PROVE op # "write" => a[j - 1][b[j].from] # 0
  BY DEF BreaksAt, Breaks
<1> HIDE DEF a
<1>4. \A n \in Nat : n \in T => n + 1 \in T
  <2> SUFFICES ASSUME NEW n \in Nat, n \in T, n + 1 <= k, NEW g \in Files, log[1][g] = 0,
                      g \in unseen \union TouchedTo(op, b, n + 1)
               PROVE  a[n + 1][g] > 0
    OBVIOUS
  <2> DEFINE i == b[n + 1]
             d == a[n]
  <2>1. n + 1 \in 1 .. k /\ n + 1 \in 1 .. Len(b) /\ n \in 0 .. Len(b) /\ (n + 1) - 1 = n
    BY <1>0
  <2>2. a[n + 1] = Perform(d, op, i) /\ d \in Disks
    BY <1>0, <2>1 DEF Runs
  <2>3. ItemOK(op, i)
    BY <2>1 DEF BatchOK
  <2>4. /\ \A h \in Files : h \notin Touched(op, i) => a[n + 1][h] = d[h]
        /\ op = "write" => a[n + 1][i.to] = i.size
        /\ op \in {"copy", "move"} => a[n + 1][i.to] = d[i.from]
    BY <1>0, <2>2, <2>3, PerformType
  <2>5. op # "write" => log[1][i.from] # 0 /\ d[i.from] # 0
    BY <1>2, <1>3, <2>1
  <2>6. \A h \in Files : d[h] \in Nat
    BY <2>2, DiskAt
  <2>7. CASE g \in Touched(op, i)
    <3>1. CASE g = i.to /\ op = "write"
      BY <2>3, <2>4, <3>1 DEF ItemOK
    <3>2. CASE g = i.to /\ op \in {"copy", "move"}
      <4>1. a[n + 1][g] = d[i.from] /\ d[i.from] # 0 /\ d[i.from] \in Nat
        BY <2>3, <2>4, <2>5, <2>6, <3>2 DEF ItemOK
      <4> QED BY <4>1
    <3>3. CASE g = i.from /\ op \in {"move", "delete"}
      BY <2>5, <3>3
    <3>4. op = "delete" => i.from = i.to
      BY <2>3 DEF ItemOK
    <3> QED BY <1>0, <2>7, <3>1, <3>2, <3>3, <3>4 DEF Touched, Ops
  <2>8. CASE g \notin Touched(op, i)
    <3>1. g \in unseen \union TouchedTo(op, b, n)
      <4>1. g \in TouchedTo(op, b, n + 1) => g \in TouchedTo(op, b, n)
        BY <2>8 DEF TouchedTo
      <4> QED BY <4>1
    <3>2. d[g] > 0
      BY <1>0, <2>1, <3>1
    <3> QED BY <2>4, <2>8, <3>2
  <2> QED BY <2>7, <2>8
<1> HIDE DEF T
<1>5. k \in T
  BY <1>0, <1>1, <1>4, NaturalsBySet
<1> QED BY <1>0, <1>5 DEF T, a

LEMMA FinishFirst ==
  ASSUME TypeOK, FirstOK, NEW p \in live, NEW op, NEW b, BatchOK(op, b), Taken(p, op, b),
         Finish(p, op, b)
  PROVE  FirstOK'
<1>1. /\ Paths(op, b) = TouchedTo(op, b, Len(b)) /\ Len(b) \in 0 .. Len(b)
      /\ DOMAIN b = 1 .. Len(b)
  BY PathsAreTouched DEF BatchOK
<1>2. /\ disk' = After(op, b)[Len(b)] /\ unseen' = unseen \union TouchedTo(op, b, Len(b))
      /\ \A k \in 1 .. Len(b) : ~BreaksAt(op, b, k) /\ log' = log
  BY <1>1 DEF Finish, indexVars
<1>3. Newest' = Newest /\ log' = log
  BY DEF Finish, indexVars, Newest
<1>4. unseen' \subseteq Files
  BY <1>2 DEF TypeOK, TouchedTo
<1>5. ASSUME Newest = 1, NEW f \in unseen', log[1][f] = 0 PROVE disk'[f] > 0
  <2>1. f \in Files /\ f \in unseen \union TouchedTo(op, b, Len(b))
    BY <1>2, <1>4
  <2>2. After(op, b)[Len(b)][f] > 0
    BY <1>1, <1>2, <1>5, <2>1, BatchFirst
  <2> QED BY <1>2, <2>2
<1> QED BY <1>3, <1>5 DEF FirstOK

LEMMA StopFirst ==
  ASSUME TypeOK, FirstOK, NEW p \in live, NEW op, NEW b, BatchOK(op, b), Taken(p, op, b),
         NEW k \in DOMAIN b, Stop(p, op, b, k)
  PROVE  FirstOK'
<1>0. k \in 1 .. Len(b) /\ k - 1 \in 0 .. Len(b)
  BY DEF BatchOK
<1>1. Paths(op, SubSeq(b, 1, k - 1)) = TouchedTo(op, b, k - 1)
  BY <1>0, PathsAreTouched
<1>2. /\ disk' = After(op, b)[k - 1] /\ unseen' = unseen \union TouchedTo(op, b, k - 1)
      /\ \A j \in 1 .. k - 1 : ~BreaksAt(op, b, j)
  BY <1>1 DEF Stop
<1>3. Newest' = Newest /\ log' = log
  BY DEF Stop, indexVars, Newest
<1>4. unseen' \subseteq Files
  BY <1>2 DEF TypeOK, TouchedTo
<1>5. ASSUME Newest = 1, NEW f \in unseen', log[1][f] = 0 PROVE disk'[f] > 0
  <2>1. f \in Files /\ f \in unseen \union TouchedTo(op, b, k - 1)
    BY <1>2, <1>4
  <2> DEFINE m == k - 1
  <2>2. m \in 0 .. Len(b) /\ \A j \in 1 .. m : ~BreaksAt(op, b, j)
    BY <1>0, <1>2
  <2>3. f \in unseen \union TouchedTo(op, b, m)
    BY <2>1
  <2> HIDE DEF m
  <2>4. After(op, b)[m][f] > 0
    BY <1>5, <2>1, <2>2, <2>3, BatchFirst
  <2> QED BY <1>2, <2>4 DEF m
<1> QED BY <1>3, <1>5 DEF FirstOK

LEMMA BackendFirst ==
  ASSUME TypeOK, FirstOK, NEW p \in live, BackendWrite(p)
  PROVE  FirstOK'
<1>1. PICK f \in Auth : Alters({f}) /\ disk'[f] \in 1 .. MaxSize
  BY BackendAlters
<1>2. Newest' = Newest /\ log' = log
  BY <1>1 DEF Alters, Newest
<1>3. FirstOK'
  <2> SUFFICES ASSUME Newest = 1, NEW g \in unseen', log[1][g] = 0 PROVE disk'[g] > 0
    BY <1>2 DEF FirstOK
  <2>1. CASE g = f
    BY <1>1, <2>1
  <2>2. CASE g # f
    <3>1. g \in unseen /\ g \in Files /\ disk'[g] = disk[g]
      BY <1>1, <2>2 DEF Alters, TypeOK
    <3> QED BY <3>1 DEF FirstOK
  <2> QED BY <2>1, <2>2
<1> QED BY <1>3

LEMMA MoveInstallFirst ==
  ASSUME TypeOK, FirstOK, MoveInstall, disk[install.at] = 0
  PROVE  FirstOK'
<1>1. /\ Alters({install.at}) /\ disk'[install.at] \in 1 .. MaxSize
  BY MoveInstallAlters
<1>2. Newest' = Newest /\ log' = log
  BY <1>1 DEF Alters, Newest
<1>3. FirstOK'
  <2> SUFFICES ASSUME Newest = 1, NEW g \in unseen', log[1][g] = 0 PROVE disk'[g] > 0
    BY <1>2 DEF FirstOK
  <2>1. CASE g = install.at
    BY <1>1, <2>1
  <2>2. CASE g # install.at
    <3>1. g \in unseen /\ g \in Files /\ disk'[g] = disk[g]
      BY <1>1, <2>2 DEF Alters, TypeOK
    <3> QED BY <3>1 DEF FirstOK
  <2> QED BY <2>1, <2>2
<1> QED BY <1>3

LEMMA LeavesFirst ==
  ASSUME FirstOK, Leaves
  PROVE  FirstOK'
BY DEF FirstOK, Leaves, Newest

LEMMA ReportFirst ==
  ASSUME TypeOK, FirstOK, NEW r, Report(r)
  PROVE  FirstOK'
<1>1. /\ Newest \in Nat \ {0} /\ Newest' = IF Told(r) THEN Newest + 1 ELSE Newest
      /\ log' = IF Told(r) THEN Append(log, Now(r)) ELSE log
      /\ disk' = disk /\ unseen' = unseen \ r.paths
  BY ReportFacts, NewestType
<1>2. CASE Told(r)
  BY <1>1, <1>2 DEF FirstOK
<1>3. CASE ~Told(r)
  BY <1>1, <1>3 DEF FirstOK
<1> QED BY <1>2, <1>3

(* A plan made in spite of nothing knows the disk.                          *)
LEMMA SpitelessIndex ==
  ASSUME TypeOK, VersionsOK, ReportsOK, NEW p \in live, NEW S, Spite(p, S) = {}
  PROVE  /\ mail[p] = << >> /\ torn = {} /\ p \notin filling
         /\ have[p] = Newest /\ known[p] = Newest /\ copy[p] \in {"none", "full"}
         /\ cache[p] # NoSize => taint[p] = {}
         /\ \A r \in reports : r.by = p
         /\ \A f \in Files : f \in S \/ (cache[p] = NoSize /\ f \in Folder) =>
              f \notin unseen /\ ~Reported(f) /\ log[Newest][f] = disk[f]
<1> DEFINE needed == S \union (IF cache[p] = NoSize THEN Folder ELSE {})
<1>1. /\ cache[p] # NoSize => taint[p] = {}
      /\ ~\E r \in reports : r.by # p \/ r.paths \intersect needed # {}
      /\ mail[p] = << >> /\ torn = {} /\ p \notin filling
      /\ ~(copy[p] = "part" \/ have[p] < known[p])
  BY DEF Spite
<1>2. known[p] = Newest
  <2>1. DOMAIN mail[p] = {}
    BY <1>1
  <2> QED BY <1>1, <2>1 DEF VersionsOK, Reaches
<1>3. have[p] = Newest
  <2>1. have[p] \in 1 .. Newest /\ known[p] \in 1 .. Newest /\ Newest \in Nat
    BY NewestType DEF TypeOK
  <2> QED BY <1>1, <1>2, <2>1
<1>4. copy[p] \in {"none", "full"}
  BY <1>1 DEF TypeOK
<1>5. ASSUME NEW f \in Files, f \in needed
      PROVE  f \notin unseen /\ ~Reported(f) /\ log[Newest][f] = disk[f]
  <2>1. ~Reported(f)
    BY <1>1, <1>5 DEF Reported
  <2> QED BY <1>1, <2>1 DEF ReportsOK
<1> QED BY <1>1, <1>2, <1>3, <1>4, <1>5

LEMMA SpitelessSizes ==
  ASSUME TypeOK, VersionsOK, ReportsOK, NEW p \in live, NEW S, Spite(p, S) = {},
         NEW f \in Files, f \in S
  PROVE  /\ SizeOf(p, f) = disk[f]
         /\ ~Indexed(p, f) /\ (f \in Folder => copy[p] # "none") => disk[f] = 0
<1>1. /\ have[p] = Newest /\ known[p] = Newest /\ copy[p] \in {"none", "full"}
      /\ log[Newest][f] = disk[f]
  BY SpitelessIndex
<1>2. disk[f] \in Nat
  BY NewestType, DiskAt
<1>3. Knows(p, f) => Entry(p, f) = disk[f]
  BY <1>1 DEF Entry
<1>4. ~Knows(p, f) => Entry(p, f) = 0
  BY DEF Entry
<1> QED BY <1>1, <1>2, <1>3, <1>4 DEF SizeOf, Indexed, Knows

LEMMA SpitelessFolder ==
  ASSUME TypeOK, VersionsOK, ReportsOK, NEW p \in live, NEW S, Spite(p, S) = {},
         cache[p] = NoSize
  PROVE  FolderSize(p) = Total(disk)
<1>1. CASE copy[p] = "none"
  BY <1>1 DEF FolderSize
<1>2. CASE copy[p] # "none"
  <2> DEFINE e == [f \in Folder |-> Entry(p, f)]
  <2>1. copy[p] = "full" /\ have[p] = Newest
    BY <1>2, SpitelessIndex
  <2>2. \A f \in Folder : disk[f] \in Int /\ e[f] = disk[f]
    <3> SUFFICES ASSUME NEW f \in Folder PROVE disk[f] \in Int /\ Entry(p, f) = disk[f]
      OBVIOUS
    <3>1. f \in Files
      BY FolderFinite
    <3>2. log[Newest][f] = disk[f]
      BY <3>1, SpitelessIndex
    <3>3. disk[f] \in Int
      BY <3>1, NewestType, DiskAt
    <3> QED BY <2>1, <3>2, <3>3 DEF Entry, Knows
  <2> HIDE DEF e
  <2>3. Sum(e, Folder) = Sum(disk, Folder)
    BY <2>2, FolderFinite, SumEqual
  <2> QED BY <1>2, <2>3 DEF FolderSize, Total, e
<1> QED BY <1>1, <1>2
-----------------------------------------------------------------------------
(* The cached sizes: each is the total of a view of the folder in which a   *)
(* file stands as the index has it, or as this process changed it.          *)

(* A view gives every file of the folder a size.  It fits a process when    *)
(* each size is that of the index or of a change of its own, and that on    *)
(* disk unless another has changed the file, or the file was made and       *)
(* removed again.                                                           *)
Views == [Folder -> Sizes]
Own(p, f) == \E r \in reports : r.by = p /\ f \in r.paths
Others(p, f) == f \in torn \/ (\E r \in reports : r.by # p /\ f \in r.paths)
Fits(p, v) ==
  \A f \in Folder :
    /\ v[f] = log[Newest][f] \/ Own(p, f)
    /\ \/ v[f] = disk[f]
       \/ f \in unseen /\ Others(p, f)
       \/ disk[f] = 0 /\ log[Newest][f] = 0
Sound(p, n) ==
  /\ Clustered /\ mail[p] = << >> => \E v \in Views : n = Total(v) /\ Fits(p, v)
  /\ ~Clustered => n = Total(disk)
(* A size that was computed in spite of nothing is the total of a view that *)
(* fits, and alone that of the disk.                                        *)
Sized(p) == cache[p] # NoSize /\ taint[p] = {} => Sound(p, cache[p])
SizedOK == \A p \in live : Sized(p)

(* Once its mail is read a size is that of the newest index, unless its own *)
(* report is still to come.                                                 *)
Settled(p) ==
  /\ Clustered /\ cache[p] # NoSize /\ mail[p] = << >>
  /\ taint[p] \intersect {"blind", "gap"} = {}
  => \/ \E r \in reports : r.by = p
     \/ cache[p] = Total(log[Newest])
     \/ Newest = 1 /\ unseen \intersect Folder # {}
SettledOK == \A p \in live : Settled(p)

(* An install that was planned in spite of nothing still fits.              *)
InstallOK ==
  install # NoInstall /\ install.spite = {} => Total(disk) + install.size <= Limit

LEMMA InitSizes == Init => SizedOK /\ SettledOK /\ InstallOK
BY DEF Init, SizedOK, Sized, SettledOK, Settled, InstallOK

LEMMA SameFor ==
  ASSUME TypeOK, Leaves, NEW q \in live, mail'[q] = mail[q], cache'[q] = cache[q],
         taint'[q] = taint[q]
  PROVE  (Sized(q) => Sized(q)') /\ (Settled(q) => Settled(q)')
<1>1. /\ live' = live /\ disk' = disk /\ unseen' = unseen /\ log' = log
      /\ reports' = reports /\ torn' = torn
  BY DEF Leaves
<1>2. Newest' = Newest /\ Clustered' = Clustered
  BY <1>1 DEF Newest, Clustered
<1>3. \A v : Fits(q, v)' <=> Fits(q, v)
  BY <1>1, <1>2 DEF Fits, Own, Others
<1>4. Sound(q, cache[q]) => Sound(q, cache[q])'
  <2>1. Total(disk)' = Total(disk)
    BY <1>1
  <2> QED BY <1>1, <1>2, <1>3, <2>1 DEF Sound
<1>5. Sized(q) => Sized(q)'
  BY <1>4 DEF Sized
<1>6. Settled(q) => Settled(q)'
  BY <1>1, <1>2 DEF Settled
<1> QED BY <1>5, <1>6

LEMMA Forgotten ==
  ASSUME TypeOK, NEW p \in live, Drop(p)
  PROVE  /\ Sized(p)' /\ Settled(p)'
         /\ \A q \in live : q # p => cache'[q] = cache[q] /\ taint'[q] = taint[q]
<1>1. cache'[p] = NoSize
  BY DEF Drop, TypeOK
<1>2. \A q \in live : q # p => cache'[q] = cache[q] /\ taint'[q] = taint[q]
  BY DEF Drop
<1> QED BY <1>1, <1>2 DEF Sized, Settled

LEMMA FitsAlters ==
  ASSUME NEW p, NEW v, Fits(p, v), NEW S, Alters(S),
         Forgets(S) \/ \E q : q # p /\ Tells(q, S)
  PROVE  Fits(p, v)'
<1>1. /\ log' = log /\ Newest' = Newest /\ unseen' = unseen \union S
      /\ \A f \in Files \ S : disk'[f] = disk[f]
  BY DEF Alters, Newest
<1>2. \A f : (Own(p, f) => Own(p, f)') /\ (Others(p, f) => Others(p, f)')
  BY DEF Own, Others, Forgets, Tells
<1>3. \A f \in S : Others(p, f)'
  <2>1. CASE Forgets(S)
    BY <2>1 DEF Forgets, Others
  <2>2. ASSUME NEW q, q # p, Tells(q, S) PROVE \A f \in S : Others(p, f)'
    <3> DEFINE r == [by |-> q, paths |-> S]
    <3>1. r \in reports' /\ r.by # p /\ r.paths = S
      BY <2>2 DEF Tells
    <3> HIDE DEF r
    <3> QED BY <3>1 DEF Others
  <2> QED BY <2>1, <2>2
<1>4. \A f \in Folder : f \in Files
  BY FolderFinite
<1> QED BY <1>1, <1>2, <1>3, <1>4 DEF Fits

LEMMA AltersOthers ==
  ASSUME TypeOK, NEW S, Alters(S), NEW p \in live, Tells(p, S) \/ Forgets(S),
         NEW q \in live, q # p, mail' = mail, cache'[q] = cache[q], taint'[q] = taint[q]
  PROVE  (Sized(q) => Sized(q)') /\ (Settled(q) => Settled(q)')
<1>1. /\ log' = log /\ live' = live /\ unseen' = unseen \union S
      /\ reports \subseteq reports'
  BY DEF Alters, Tells, Forgets
<1>2. Newest' = Newest /\ Clustered' = Clustered /\ Clustered
  BY <1>1, OneAlone DEF Newest, Clustered
<1>3. \A v : Fits(q, v) => Fits(q, v)'
  BY FitsAlters
<1>4. Sound(q, cache[q]) => Sound(q, cache[q])'
  BY <1>2, <1>3 DEF Sound
<1>5. Sized(q) => Sized(q)'
  BY <1>4 DEF Sized, Sound
<1>6. Settled(q) => Settled(q)'
  BY <1>1, <1>2 DEF Settled
<1> QED BY <1>5, <1>6

LEMMA ViewTotals ==
  ASSUME NEW v \in Views
  PROVE  Total(v) \in Nat
<1>1. \A f \in Folder : v[f] \in Nat
  BY SizesAreNat DEF Views
<1> QED BY <1>1, FolderFinite, SumNat DEF Total

LEMMA SpitelessView ==
  ASSUME TypeOK, VersionsOK, ReportsOK, SizedOK, NEW p \in live, NEW S, Spite(p, S) = {}
  PROVE  /\ Clustered => \E v \in Views : FolderSize(p) = Total(v) /\ Fits(p, v)
         /\ ~Clustered => FolderSize(p) = Total(disk)
         /\ FolderSize(p) >= Total(disk)
<1>0. \A f \in Folder : disk[f] \in Sizes /\ disk[f] \in Int
  BY FolderFinite, NewestType, DiskAt
<1>1. CASE cache[p] = NoSize
  <2>1. FolderSize(p) = Total(disk) /\ Total(disk) \in Nat
    BY <1>1, SpitelessFolder, NewestType, TotalType
  <2> DEFINE v == [f \in Folder |-> disk[f]]
  <2>2. v \in Views /\ \A f \in Folder : v[f] = disk[f]
    BY <1>0 DEF Views
  <2>3. \A f \in Folder : log[Newest][f] = disk[f]
    BY <1>1, FolderFinite, SpitelessIndex
  <2> HIDE DEF v
  <2>4. Total(v) = Total(disk)
    BY <1>0, <2>2, TotalEqual
  <2>5. Fits(p, v)
    BY <2>2, <2>3 DEF Fits
  <2> QED BY <2>1, <2>2, <2>4, <2>5
<1>2. CASE cache[p] # NoSize
  <2>1. taint[p] = {} /\ FolderSize(p) = cache[p] /\ mail[p] = << >>
    BY <1>2, SpitelessIndex DEF FolderSize
  <2>2. Sound(p, cache[p])
    BY <1>2, <2>1 DEF SizedOK, Sized
  <2>3. CASE ~Clustered
    <3>1. Total(disk) \in Nat
      BY NewestType, TotalType
    <3> QED BY <2>1, <2>2, <2>3, <3>1 DEF Sound
  <2>4. CASE Clustered
    <3>1. PICK v \in Views : cache[p] = Total(v) /\ Fits(p, v)
      BY <2>1, <2>2, <2>4 DEF Sound
    <3>2. \A f \in Folder : ~Others(p, f)
      BY SpitelessIndex DEF Others
    <3>3. \A f \in Folder : v[f] \in Nat /\ disk[f] <= v[f]
      <4>1. \A f \in Folder : v[f] \in Nat
        BY SizesAreNat DEF Views
      <4> QED BY <1>0, <3>1, <3>2, <4>1 DEF Fits
    <3>4. \A f \in Folder : v[f] \in Int
      BY <3>3
    <3>5. Total(disk) <= Total(v)
      BY <1>0, <3>3, <3>4, FolderFinite, SumGrows DEF Total
    <3>6. Total(disk) \in Nat /\ Total(v) \in Nat
      BY NewestType, TotalType, ViewTotals
    <3> QED BY <2>1, <2>4, <3>1, <3>5, <3>6
  <2> QED BY <2>3, <2>4
<1> QED BY <1>1, <1>2

LEMMA SpitelessExact ==
  ASSUME TypeOK, VersionsOK, ReportsOK, NEW p \in live, NEW op, NEW b, BatchOK(op, b),
         Taken(p, op, b), Spite(p, Named(b)) = {}
  PROVE  Exact(p, op, b)
<1> SUFFICES ASSUME NEW k \in 1 .. Len(b)
             PROVE  /\ SizeOf(p, b[k].from) = disk[b[k].from]
                    /\ SizeOf(p, b[k].to) = disk[b[k].to]
                    /\ op \in {"copy", "move"} => disk[b[k].to] = 0
  BY DEF Exact
<1>1. /\ b[k].from \in Named(b) /\ b[k].to \in Named(b)
      /\ b[k].from \in Files /\ b[k].to \in Files
  BY PathsAreTouched
<1>2. op \in {"copy", "move"} => ~Indexed(p, b[k].to) /\ (b[k].to \in Folder => copy[p] # "none")
  BY DEF Taken, Allowed, BatchOK
<1> QED BY <1>1, <1>2, SpitelessSizes

LEMMA NothingReplaced ==
  ASSUME TypeOK, VersionsOK, ReportsOK, NEW p \in live, NEW op, NEW b, BatchOK(op, b),
         Taken(p, op, b), Spite(p, Named(b)) = {}, NEW n \in 0 .. Len(b)
  PROVE  ~Replaced(op, b, n)
<1> SUFFICES ASSUME op = "move", NEW k \in 1 .. n, After(op, b)[k - 1][b[k].to] # 0
             PROVE  FALSE
  BY DEF Replaced
<1>1. k \in 1 .. Len(b)
  BY DEF BatchOK
<1>2. After(op, b)[k - 1][b[k].to] = disk[b[k].to]
  BY <1>1, NewestType, EachSeesDisk
<1>3. disk[b[k].to] = 0
  <2>1. Exact(p, op, b)
    BY SpitelessExact
  <2> QED BY <1>1, <2>1 DEF Exact
<1> QED BY <1>2, <1>3

LEMMA FinishTotals ==
  ASSUME TypeOK, VersionsOK, ReportsOK, SizedOK, NEW p \in live, NEW op, NEW b,
         BatchOK(op, b), Taken(p, op, b), Finish(p, op, b), Spite(p, Named(b)) = {}
  PROVE  /\ Total(disk') \in Nat /\ Total(disk) \in Nat
         /\ disk' \in Disks
         /\ BatchDelta(p, op, b) = Total(disk') - Total(disk)
         /\ Projected(p, BatchDelta(p, op, b)) = FolderSize(p) + BatchDelta(p, op, b)
         /\ cache'[p] = FolderSize(p) + BatchDelta(p, op, b)
<1>1. Exact(p, op, b) /\ disk \in Disks
  BY SpitelessExact, NewestType
<1>2. BatchDelta(p, op, b) = Total(After(op, b)[Len(b)]) - Total(disk)
  BY <1>1, BatchTotal
<1>3. disk' = After(op, b)[Len(b)]
  BY DEF Finish
<1>4. disk' \in Disks
  <2>1. Len(b) \in 0 .. Len(b) /\ Runs(op, b, Len(b), After(op, b))
    BY BatchRuns
  <2> QED BY <1>3, <2>1 DEF Runs
<1>5. Total(disk') \in Nat /\ Total(disk) \in Nat
  BY <1>1, <1>4, TotalType
<1>6. FolderSize(p) >= Total(disk) /\ FolderSize(p) \in Nat
  BY SpitelessView, FolderSizeType
<1> DEFINE n == BatchDelta(p, op, b)
<1>7. n \in Int /\ FolderSize(p) + n >= 0
  BY <1>2, <1>3, <1>5, <1>6
<1> HIDE DEF n
<1>8. Projected(p, n) = FolderSize(p) + n
  BY <1>7, ProjectedType
<1>9. cache'[p] = Projected(p, n)
  BY DEF Finish, Keep, n, TypeOK
<1> QED BY <1>2, <1>3, <1>4, <1>5, <1>8, <1>9 DEF n
-----------------------------------------------------------------------------
(* One action after another: what it computes is sound.                     *)

LEMMA ComputedSized ==
  ASSUME TypeOK, VersionsOK, ReportsOK, SizedOK, NEW p \in live, cache[p] = NoSize, Leaves,
         mail' = mail, Keep(p, FolderSize(p), Spite(p, {}))
  PROVE  Sized(p)'
<1>0. cache'[p] = FolderSize(p) /\ taint'[p] = Spite(p, {})
  BY DEF Keep, TypeOK
<1>1. /\ live' = live /\ disk' = disk /\ unseen' = unseen /\ log' = log
      /\ reports' = reports /\ torn' = torn
  BY DEF Leaves
<1>2. Newest' = Newest /\ Clustered' = Clustered
  BY <1>1 DEF Newest, Clustered
<1>3. \A v : Fits(p, v)' <=> Fits(p, v)
  BY <1>1, <1>2 DEF Fits, Own, Others
<1>4. SUFFICES ASSUME Spite(p, {}) = {} PROVE Sound(p, cache[p])'
  BY <1>0 DEF Sized
<1>5. /\ Clustered => \E v \in Views : FolderSize(p) = Total(v) /\ Fits(p, v)
      /\ ~Clustered => FolderSize(p) = Total(disk)
  BY <1>4, SpitelessView
<1> QED BY <1>0, <1>1, <1>2, <1>3, <1>5 DEF Sound

LEMMA ComputedSettled ==
  ASSUME TypeOK, VersionsOK, ReportsOK, NEW p \in live, cache[p] = NoSize, Leaves,
         mail' = mail, Keep(p, FolderSize(p), Spite(p, {}))
  PROVE  Settled(p)'
<1>0. cache'[p] = FolderSize(p) /\ taint'[p] = Spite(p, {})
  BY DEF Keep, TypeOK
<1>1. /\ live' = live /\ disk' = disk /\ unseen' = unseen /\ log' = log
      /\ reports' = reports /\ torn' = torn
  BY DEF Leaves
<1>2. Newest' = Newest /\ Clustered' = Clustered
  BY <1>1 DEF Newest, Clustered
<1> SUFFICES ASSUME mail[p] = << >>, Spite(p, {}) \intersect {"blind", "gap"} = {}
             PROVE  \/ FolderSize(p) = Total(log[Newest])
                    \/ Newest = 1 /\ unseen \intersect Folder # {}
  BY <1>0, <1>1, <1>2 DEF Settled
<1>3. p \notin filling /\ ~(copy[p] = "part" \/ have[p] < known[p])
  BY DEF Spite
<1>4. known[p] = Newest
  <2>1. DOMAIN mail[p] = {}
    OBVIOUS
  <2> QED BY <1>3, <2>1 DEF VersionsOK, Reaches
<1>5. have[p] = Newest
  <2>1. have[p] \in 1 .. Newest /\ Newest \in Nat
    BY NewestType DEF TypeOK
  <2> QED BY <1>3, <1>4, <2>1
<1>6. \A f \in Folder : f \in Files /\ log[Newest][f] \in Int /\ disk[f] \in Int
  BY FolderFinite, NewestType, DiskAt
<1>7. CASE copy[p] = "none"
  <2>1. Newest = 1 /\ FolderSize(p) = Total(disk)
    BY <1>5, <1>7 DEF VersionsOK, FolderSize
  <2>2. CASE unseen \intersect Folder = {}
    <3>1. \A f \in Folder : disk[f] = log[Newest][f]
      BY <1>6, <2>2 DEF ReportsOK
    <3> DEFINE l == log[Newest]
    <3>2. \A f \in Folder : l[f] \in Int /\ disk[f] = l[f]
      BY <1>6, <3>1
    <3> HIDE DEF l
    <3>3. Total(disk) = Total(l)
      BY <3>2, TotalEqual
    <3> QED BY <2>1, <3>3 DEF l
  <2> QED BY <2>1, <2>2
<1>8. CASE copy[p] # "none"
  <2> DEFINE e == [f \in Folder |-> Entry(p, f)]
             l == log[Newest]
  <2>1. copy[p] = "full"
    BY <1>3, <1>8 DEF TypeOK
  <2>2. \A f \in Folder : l[f] \in Int /\ e[f] = l[f]
    BY <1>5, <1>6, <2>1 DEF Entry, Knows
  <2> HIDE DEF e, l
  <2>3. Sum(e, Folder) = Sum(l, Folder)
    BY <2>2, FolderFinite, SumEqual
  <2> QED BY <1>8, <2>3 DEF FolderSize, Total, e, l
<1> QED BY <1>7, <1>8

LEMMA FinishSized ==
  ASSUME TypeOK, VersionsOK, ReportsOK, SizedOK, NEW p \in live, NEW op, NEW b,
         BatchOK(op, b), Taken(p, op, b), Finish(p, op, b)
  PROVE  Sized(p)'
<1> DEFINE S == Paths(op, b)
           n == BatchDelta(p, op, b)
<1>0. taint'[p] = Spite(p, Named(b)) /\ mail' = mail
  BY DEF Finish, Keep, TypeOK
<1>1. SUFFICES ASSUME Spite(p, Named(b)) = {} PROVE Sound(p, cache[p])'
  BY <1>0 DEF Sized
<1>2. Alters(S) /\ Tells(p, S) /\ S \subseteq Named(b)
  BY FinishAlters, PathsAreTouched
<1>3. /\ Total(disk') \in Nat /\ Total(disk) \in Nat /\ disk' \in Disks
      /\ n = Total(disk') - Total(disk) /\ cache'[p] = FolderSize(p) + n
  BY <1>1, FinishTotals
<1>4. /\ Clustered => \E v \in Views : FolderSize(p) = Total(v) /\ Fits(p, v)
      /\ ~Clustered => FolderSize(p) = Total(disk)
  BY <1>1, SpitelessView
<1>5. Clustered' = Clustered /\ Newest' = Newest /\ log' = log
  BY <1>2 DEF Alters, Clustered, Newest
<1>6. ASSUME NEW f \in Files, f \in S
      PROVE  f \notin unseen /\ ~Reported(f) /\ log[Newest][f] = disk[f]
  BY <1>1, <1>2, <1>6, SpitelessIndex
<1> HIDE DEF S, n
<1>7. CASE ~Clustered
  <2>1. cache'[p] = Total(disk')
    BY <1>3, <1>4, <1>7
  <2> QED BY <1>5, <1>7, <2>1 DEF Sound
<1>8. CASE Clustered
  <2>1. PICK v \in Views : FolderSize(p) = Total(v) /\ Fits(p, v)
    BY <1>4, <1>8
  <2>2. \A f \in Folder : /\ f \in Files /\ disk'[f] \in Sizes /\ disk[f] \in Sizes
                          /\ v[f] \in Sizes
    BY <1>3, FolderFinite, NewestType, DiskAt DEF Views
  <2>3. PICK w \in Views : \A f \in Folder : w[f] = IF f \in S THEN disk'[f] ELSE v[f]
    <3> DEFINE x == [f \in Folder |-> IF f \in S THEN disk'[f] ELSE v[f]]
    <3>1. x \in Views /\ \A f \in Folder : x[f] = IF f \in S THEN disk'[f] ELSE v[f]
      BY <2>2 DEF Views
    <3> HIDE DEF x
    <3> QED BY <3>1
  <2>4. \A f \in Folder : f \in S => v[f] = disk[f]
    <3> SUFFICES ASSUME NEW f \in Folder, f \in S PROVE v[f] = disk[f]
      OBVIOUS
    <3>1. ~Own(p, f) /\ log[Newest][f] = disk[f]
      BY <1>6, <2>2 DEF Own, Reported
    <3> QED BY <2>1, <3>1 DEF Fits
  <2>5. \A f \in Folder : f \notin S => disk'[f] = disk[f]
    BY <1>2, <2>2 DEF Alters
  <2>6. \A f \in Folder : /\ {disk[f], disk'[f], v[f], w[f]} \subseteq Int
                          /\ disk'[f] - disk[f] = w[f] - v[f]
    <3> SUFFICES ASSUME NEW f \in Folder
                 PROVE  /\ {disk[f], disk'[f], v[f], w[f]} \subseteq Int
                        /\ disk'[f] - disk[f] = w[f] - v[f]
      OBVIOUS
    <3>1. disk[f] \in Int /\ disk'[f] \in Int /\ v[f] \in Int
      BY <2>2 DEF Sizes
    <3> QED BY <2>3, <2>4, <2>5, <3>1
  <2>7. Sum(disk', Folder) - Sum(disk, Folder) = Sum(w, Folder) - Sum(v, Folder)
    <3> DEFINE x == disk'
               y == disk
    <3>1. \A f \in Folder : /\ {y[f], x[f], v[f], w[f]} \subseteq Int
                            /\ x[f] - y[f] = w[f] - v[f]
      BY <2>6
    <3> HIDE DEF x, y
    <3>2. Sum(x, Folder) - Sum(y, Folder) = Sum(w, Folder) - Sum(v, Folder)
      BY <3>1, FolderFinite, SumShift
    <3> QED BY <3>2 DEF x, y
  <2>8. cache'[p] = Total(w)
    <3>1. Total(w) \in Nat /\ Total(v) \in Nat
      BY <2>3, ViewTotals
    <3>2. Total(disk') - Total(disk) = Total(w) - Total(v)
      BY <2>7 DEF Total
    <3> QED BY <1>3, <2>1, <3>1, <3>2
  <2>9. Fits(p, w)'
    <3> SUFFICES ASSUME NEW f \in Folder
                 PROVE  /\ w[f] = log[Newest][f] \/ Own(p, f)'
                        /\ \/ w[f] = disk'[f]
                           \/ f \in unseen' /\ Others(p, f)'
                           \/ disk'[f] = 0 /\ log[Newest][f] = 0
      BY <1>5 DEF Fits
    <3>1. CASE f \in S
      <4>1. Own(p, f)'
        <5> DEFINE r == [by |-> p, paths |-> S]
        <5>1. r \in reports' /\ r.by = p /\ r.paths = S
          BY <1>2 DEF Tells
        <5> HIDE DEF r
        <5> QED BY <3>1, <5>1 DEF Own
      <4> QED BY <2>3, <3>1, <4>1
    <3>2. CASE f \notin S
      <4>1. w[f] = v[f] /\ disk'[f] = disk[f]
        BY <2>3, <2>5, <3>2
      <4>2. (Own(p, f) => Own(p, f)') /\ (Others(p, f) => Others(p, f)') /\ unseen \subseteq unseen'
        BY <1>2 DEF Own, Others, Tells, Alters
      <4> QED BY <2>1, <4>1, <4>2 DEF Fits
    <3> QED BY <3>1, <3>2
  <2> QED BY <1>5, <1>8, <2>3, <2>8, <2>9 DEF Sound, Views
<1> QED BY <1>7, <1>8

LEMMA FinishSettled ==
  ASSUME NEW p \in live, NEW op, NEW b, Finish(p, op, b)
  PROVE  Settled(p)'
<1> DEFINE r == [by |-> p, paths |-> Paths(op, b)]
<1>1. r \in reports' /\ r.by = p
  BY DEF Finish
<1> HIDE DEF r
<1> QED BY <1>1 DEF Settled

LEMMA ReportSized ==
  ASSUME TypeOK, ReportsOK, NEW r, Report(r), NEW p \in live, Sized(p)
  PROVE  Sized(p)'
<1>1. /\ r \in reports /\ reports' = reports \ {r}
      /\ unseen' = unseen \ r.paths /\ torn' = torn \ r.paths
      /\ log' = IF Told(r) THEN Append(log, Now(r)) ELSE log
      /\ Newest' = IF Told(r) THEN Newest + 1 ELSE Newest
      /\ Clustered => mail' = [q \in live |-> mail[q] \o News(q, r)]
      /\ UNCHANGED <<live, disk, cache, taint>> /\ Clustered' = Clustered
  BY ReportFacts
<1> SUFFICES ASSUME cache[p] # NoSize, taint[p] = {}, Sound(p, cache[p]) PROVE Sound(p, cache[p])'
  BY <1>1 DEF Sized
<1>2. CASE ~Clustered
  BY <1>1, <1>2 DEF Sound
<1>3. CASE Clustered
  <2>0. mail[p] \in Seq(Messages) /\ News(p, r) \in Seq(Messages) /\ mail'[p] = mail[p] \o News(p, r)
    BY <1>1, <1>3, NewsType DEF TypeOK, Messages
  <2>1. SUFFICES ASSUME mail'[p] = << >> PROVE \E v \in Views : cache[p] = Total(v) /\ Fits(p, v)'
    BY <1>1, <1>3 DEF Sound, Views
  <2>2. News(p, r) = << >> /\ mail[p] = << >>
    <3> DEFINE s == mail[p]
               t == News(p, r)
    <3>1. s \in Seq(Messages) /\ t \in Seq(Messages) /\ s \o t = << >>
      BY <2>0, <2>1
    <3> HIDE DEF s, t
    <3>2. t = << >> /\ s = << >>
      BY <3>1, AppendedMail
    <3> QED BY <3>2 DEF s, t
  <2>3. ~Told(r) /\ p # r.by
    BY <2>2, NewsType
  <2>4. PICK v \in Views : cache[p] = Total(v) /\ Fits(p, v)
    BY <1>3, <2>2 DEF Sound
  <2>5. log' = log /\ Newest' = Newest
    BY <1>1, <2>3
  <2>6. ASSUME NEW f \in Folder
        PROVE  /\ v[f] = log[Newest][f] \/ Own(p, f)'
               /\ v[f] = disk[f] \/ (f \in unseen' /\ Others(p, f)')
                    \/ (disk[f] = 0 /\ log[Newest][f] = 0)
    <3>1. Own(p, f) => Own(p, f)'
      BY <1>1, <2>3 DEF Own
    <3>2. f \in Files /\ disk[f] \in Nat /\ log[Newest][f] \in Nat
      BY FolderFinite, NewestType, DiskAt
    <3>3. CASE f \in unseen /\ Others(p, f) /\ f \in r.paths
      <4>1. ~(disk[f] + log[Newest][f] > 0)
        BY <2>3, <3>3 DEF Told
      <4>2. disk[f] = 0 /\ log[Newest][f] = 0
        BY <3>2, <4>1
      <4> QED BY <2>4, <3>1, <4>2 DEF Fits
    <3>4. CASE f \in unseen /\ Others(p, f) /\ f \notin r.paths
      <4>1. f \in unseen' /\ Others(p, f)'
        BY <1>1, <3>4 DEF Others
      <4> QED BY <2>4, <3>1, <4>1 DEF Fits
    <3> QED BY <2>4, <3>1, <3>3, <3>4 DEF Fits
  <2>7. Fits(p, v)'
    BY <1>1, <2>5, <2>6 DEF Fits
  <2> QED BY <2>4, <2>7
<1> QED BY <1>2, <1>3

LEMMA ReportSettled ==
  ASSUME TypeOK, FirstOK, NEW r, Report(r), NEW p \in live, Settled(p)
  PROVE  Settled(p)'
<1>1. /\ r \in reports /\ r.paths \subseteq Files /\ reports' = reports \ {r}
      /\ unseen' = unseen \ r.paths
      /\ log' = IF Told(r) THEN Append(log, Now(r)) ELSE log
      /\ Newest' = IF Told(r) THEN Newest + 1 ELSE Newest
      /\ Clustered => mail' = [q \in live |-> mail[q] \o News(q, r)]
      /\ UNCHANGED <<live, disk, cache, taint>> /\ Clustered' = Clustered
  BY ReportFacts
<1> SUFFICES ASSUME Clustered, cache[p] # NoSize, mail'[p] = << >>,
                    taint[p] \intersect {"blind", "gap"} = {}
             PROVE  \/ \E s \in reports' : s.by = p
                    \/ cache[p] = Total(log'[Newest'])
                    \/ Newest' = 1 /\ unseen' \intersect Folder # {}
  BY <1>1 DEF Settled
<1>2. mail[p] \in Seq(Messages) /\ News(p, r) \in Seq(Messages) /\ mail'[p] = mail[p] \o News(p, r)
  BY <1>1, NewsType DEF TypeOK, Messages
<1>3. News(p, r) = << >> /\ mail[p] = << >>
  BY <1>2, AppendedMail
<1>4. ~Told(r) /\ p # r.by
  BY <1>3, NewsType
<1>5. log' = log /\ Newest' = Newest
  BY <1>1, <1>4
<1>6. (\E s \in reports : s.by = p) => \E s \in reports' : s.by = p
  BY <1>1, <1>4
<1>7. ASSUME Newest = 1 PROVE unseen' = unseen
  <2>1. ASSUME NEW f \in r.paths, f \in unseen PROVE FALSE
    <3>1. disk[f] \in Nat /\ log[1][f] \in Nat
      BY <1>1, <1>7, NewestType, DiskAt
    <3>2. ~(disk[f] + log[1][f] > 0)
      BY <1>4, <1>7, <2>1 DEF Told
    <3>3. disk[f] = 0 /\ log[1][f] = 0
      BY <3>1, <3>2
    <3> QED BY <1>7, <2>1, <3>3 DEF FirstOK
  <2> QED BY <1>1, <2>1
<1> QED BY <1>3, <1>5, <1>6, <1>7 DEF Settled

LEMMA RacedInstall ==
  ASSUME TypeOK
  PROVE  Raced # NoInstall => Raced.spite # {}
<1> SUFFICES ASSUME install # NoInstall PROVE Raced.spite # {}
  BY DEF Raced
<1>1. install \in [by : live, at : Folder, size : 1 .. MaxSize, spite : SUBSET Excuses]
  BY DEF TypeOK
<1>2. Raced = [install EXCEPT !.spite = @ \union {"raced"}]
  BY DEF Raced
<1> QED BY <1>1, <1>2

LEMMA PlanFits ==
  ASSUME TypeOK, VersionsOK, ReportsOK, SizedOK, NEW p \in live, NEW S, Spite(p, S) = {},
         NEW n \in Nat \ {0}, Accepts(p, n)
  PROVE  Total(disk) + n <= Limit
<1>1. /\ FolderSize(p) >= Total(disk) /\ FolderSize(p) \in Nat /\ Total(disk) \in Nat
      /\ Limit \in Nat
  BY SpitelessView, FolderSizeType, NewestType, TotalType
<1>2. Projected(p, n) = FolderSize(p) + n
  <2>1. n \in Int /\ FolderSize(p) + n >= 0
    BY <1>1
  <2> QED BY <2>1, ProjectedType
<1> QED BY <1>1, <1>2 DEF Accepts

LEMMA PlanInstallFits ==
  ASSUME TypeOK, VersionsOK, ReportsOK, SizedOK, NEW p \in live, PlanInstall(p)
  PROVE  InstallOK'
<1>1. PICK f \in Folder \ Auth, n \in 1 .. MaxSize :
        /\ Accepts(p, n)
        /\ install' = [by |-> p, at |-> f, size |-> n, spite |-> Spite(p, {f})]
  BY DEF PlanInstall
<1>2. disk' = disk
  BY DEF PlanInstall, diskVars
<1>3. n \in Nat \ {0}
  OBVIOUS
<1>4. install'.spite = Spite(p, {f}) /\ install'.size = n
  BY <1>1
<1>5. Spite(p, {f}) = {} => Total(disk) + n <= Limit
  BY <1>1, <1>3, PlanFits
<1> QED BY <1>2, <1>4, <1>5 DEF InstallOK

(* The action property, one action after another.                           *)
Grows == excuse' = {} /\ Total(disk') > Total(disk)

LEMMA FinishLimit ==
  ASSUME TypeOK, VersionsOK, ReportsOK, SizedOK, NEW p \in live, NEW op, NEW b,
         BatchOK(op, b), Taken(p, op, b), Finish(p, op, b), Grows
  PROVE  Total(disk') <= Limit
<1> DEFINE n == BatchDelta(p, op, b)
<1>1. Spite(p, Named(b)) = {}
  BY DEF Finish, Grows
<1>2. /\ Total(disk') \in Nat /\ Total(disk) \in Nat
      /\ n = Total(disk') - Total(disk) /\ Projected(p, n) = FolderSize(p) + n
  BY <1>1, FinishTotals
<1>3. FolderSize(p) >= Total(disk) /\ FolderSize(p) \in Nat /\ Limit \in Nat
  BY <1>1, SpitelessView, FolderSizeType
<1>4. Accepts(p, n)
  BY DEF Finish
<1> HIDE DEF n
<1>5. n > 0 /\ n \in Int
  BY <1>2 DEF Grows
<1> QED BY <1>2, <1>3, <1>4, <1>5 DEF Accepts

LEMMA MoveInstallLimit ==
  ASSUME TypeOK, InstallOK, MoveInstall, Grows
  PROVE  Total(disk') <= Limit
<1>1. CASE disk[install.at] # 0
  <2>1. disk' = disk /\ Total(disk) \in Nat
    BY <1>1, NewestType, TotalType DEF MoveInstall, diskVars
  <2> QED BY <2>1 DEF Grows
<1>2. CASE disk[install.at] = 0
  <2>1. /\ install.at \in Folder /\ install.size \in 1 .. MaxSize /\ disk' \in Disks
        /\ Alters({install.at}) /\ disk'[install.at] = install.size /\ excuse' = install.spite
    BY <1>2, MoveInstallAlters
  <2>2. disk \in Disks /\ install.at \in Files
    BY <2>1, NewestType, FolderFinite
  <2>3. \A f \in Files : f # install.at => disk'[f] = disk[f]
    BY <2>1 DEF Alters
  <2>4. Total(disk') - Total(disk) = In(install.at, disk'[install.at] - disk[install.at])
    <3> DEFINE e == disk'
    <3>1. e \in Disks /\ \A f \in Files : f # install.at => e[f] = disk[f]
      BY <2>1, <2>3
    <3> HIDE DEF e
    <3>2. Total(e) - Total(disk) = In(install.at, e[install.at] - disk[install.at])
      BY <2>2, <3>1, TotalAt
    <3> QED BY <3>2 DEF e
  <2>5. Total(disk') - Total(disk) = install.size
    BY <1>2, <2>1, <2>4 DEF In
  <2>6. Total(disk') \in Nat /\ Total(disk) \in Nat
    BY <2>1, <2>2, TotalType
  <2>7. Total(disk) + install.size <= Limit
    BY <2>1 DEF InstallOK, Grows, MoveInstall
  <2> QED BY <2>1, <2>5, <2>6, <2>7
<1> QED BY <1>1, <1>2

LEMMA OtherLimit ==
  /\ \A p, op, b, k : Stop(p, op, b, k) => ~Grows
  /\ \A p : BackendWrite(p) => ~Grows
<1>1. \A p, op, b, k : Stop(p, op, b, k) => ~Grows
  BY DEF Stop, Grows
<1>2. \A p : BackendWrite(p) => ~Grows
  BY DEF BackendWrite, Grows
<1> QED BY <1>1, <1>2
-----------------------------------------------------------------------------
(* The invariant, and the theorems.                                         *)

(* The inductive invariant.                                                 *)
QuotaInv ==
  /\ TypeOK /\ VersionsOK /\ ReportsOK /\ FirstOK
  /\ SizedOK /\ SettledOK /\ InstallOK /\ MovesReplaceNothing

LEMMA InitQuota == Init => QuotaInv
BY InitType, InitVersions, InitReports, InitFirst, InitSizes
   DEF QuotaInv, Init, MovesReplaceNothing

(* Steps that leave the disk alone: only the sizes have to be looked at.    *)
LEMMA LeavingStep ==
  ASSUME QuotaInv, Leaves, lost' = lost, TypeOK', VersionsOK',
         \A q \in live : Sized(q)' /\ Settled(q)', InstallOK'
  PROVE  QuotaInv'
<1>1. live' = live
  BY DEF Leaves
<1>2. SizedOK' /\ SettledOK'
  BY <1>1 DEF SizedOK, SettledOK
<1>3. ReportsOK' /\ FirstOK'
  BY LeavesReports, LeavesFirst DEF QuotaInv
<1> QED BY <1>2, <1>3 DEF QuotaInv, MovesReplaceNothing

LEMMA SameInstall ==
  ASSUME InstallOK, disk' = disk, install' = install
  PROVE  InstallOK'
BY DEF InstallOK

LEMMA RefuseKeeps ==
  ASSUME QuotaInv, NEW p \in live, NEW op, NEW b, Change, Refuse(p, op, b)
  PROVE  QuotaInv'
<1> USE DEF QuotaInv
<1>1. /\ Leaves /\ TypeOK' /\ VersionsOK' /\ lost' = lost /\ mail' = mail
      /\ disk' = disk /\ install' = install
      /\ cache[p] = NoSize /\ Keep(p, FolderSize(p), Spite(p, {}))
  BY LeavingSteps, RefuseType, QuietSteps, VersionsStay DEF Refuse, diskVars
<1>2. Sized(p)' /\ Settled(p)'
  BY <1>1, ComputedSized, ComputedSettled
<1>3. \A q \in live : q # p => Sized(q)' /\ Settled(q)'
  <2> SUFFICES ASSUME NEW q \in live, q # p PROVE Sized(q)' /\ Settled(q)'
    OBVIOUS
  <2>1. cache'[q] = cache[q] /\ taint'[q] = taint[q] /\ mail'[q] = mail[q]
    BY <1>1 DEF Keep
  <2> QED BY <1>1, <2>1, SameFor DEF SizedOK, SettledOK
<1> QED BY <1>1, <1>2, <1>3, LeavingStep, SameInstall

LEMMA PlanKeeps ==
  ASSUME QuotaInv, NEW p \in live, PlanInstall(p)
  PROVE  QuotaInv'
<1> USE DEF QuotaInv
<1>1. /\ Leaves /\ TypeOK' /\ VersionsOK' /\ lost' = lost /\ mail' = mail /\ InstallOK'
  BY LeavingSteps, PlanType, QuietSteps, VersionsStay, PlanInstallFits DEF PlanInstall
<1>2. CASE cache[p] = NoSize
  <2>0. Keep(p, FolderSize(p), Spite(p, {}))
    BY <1>2 DEF PlanInstall
  <2>1. Sized(p)' /\ Settled(p)'
    BY <1>1, <1>2, <2>0, ComputedSized, ComputedSettled
  <2>2. \A q \in live : q # p => Sized(q)' /\ Settled(q)'
    <3> SUFFICES ASSUME NEW q \in live, q # p PROVE Sized(q)' /\ Settled(q)'
      OBVIOUS
    <3>1. cache'[q] = cache[q] /\ taint'[q] = taint[q] /\ mail'[q] = mail[q]
      BY <1>1, <2>0 DEF Keep
    <3> QED BY <1>1, <3>1, SameFor DEF SizedOK, SettledOK
  <2> QED BY <1>1, <2>1, <2>2, LeavingStep
<1>3. CASE cache[p] # NoSize
  <2>1. UNCHANGED <<cache, taint>>
    BY <1>3 DEF PlanInstall
  <2>2. \A q \in live : Sized(q)' /\ Settled(q)'
    BY <1>1, <2>1, SameFor DEF SizedOK, SettledOK
  <2> QED BY <1>1, <2>2, LeavingStep
<1> QED BY <1>2, <1>3

LEMMA DropKeeps ==
  ASSUME QuotaInv, NEW p \in live, Drop(p), Leaves, lost' = lost, TypeOK', VersionsOK',
         \A q \in live : q # p => mail'[q] = mail[q], install' = install
  PROVE  QuotaInv'
<1> USE DEF QuotaInv
<1>1. \A q \in live : Sized(q)' /\ Settled(q)'
  <2> SUFFICES ASSUME NEW q \in live PROVE Sized(q)' /\ Settled(q)'
    OBVIOUS
  <2>1. CASE q = p
    BY <2>1, Forgotten
  <2>2. CASE q # p
    <3>1. cache'[q] = cache[q] /\ taint'[q] = taint[q] /\ mail'[q] = mail[q]
      BY <2>2, Forgotten
    <3> QED BY <3>1, SameFor DEF SizedOK, SettledOK
  <2> QED BY <2>1, <2>2
<1>2. disk' = disk
  BY DEF Leaves
<1> QED BY <1>1, <1>2, LeavingStep, SameInstall

LEMMA CommitKeeps ==
  ASSUME QuotaInv, NEW p \in live, Commit(p)
  PROVE  QuotaInv'
<1> USE DEF QuotaInv
<1>1. /\ Drop(p) /\ Leaves /\ lost' = lost /\ mail' = mail /\ install' = install
      /\ TypeOK' /\ VersionsOK'
  BY LeavingSteps, CommitType, QuietSteps, VersionsStay DEF Commit
<1> QED BY <1>1, DropKeeps

LEMMA DeliverKeeps ==
  ASSUME QuotaInv, NEW p \in live, Deliver(p)
  PROVE  QuotaInv'
<1> USE DEF QuotaInv
<1>1. /\ Drop(p) /\ Leaves /\ lost' = lost /\ install' = install
      /\ mail' = [mail EXCEPT ![p] = Tail(@)] /\ TypeOK' /\ VersionsOK'
  BY LeavingSteps, DeliverType, DeliverVersions DEF Deliver, Hear
<1> QED BY <1>1, DropKeeps

LEMMA HearGapKeeps ==
  ASSUME QuotaInv, NEW p \in live, HearGap(p)
  PROVE  QuotaInv'
<1> USE DEF QuotaInv
<1>1. /\ Drop(p) /\ Leaves /\ lost' = lost /\ install' = install
      /\ mail' = [mail EXCEPT ![p] = Tail(@)] /\ TypeOK' /\ VersionsOK'
  BY LeavingSteps, HearGapType, HearGapVersions DEF HearGap
<1> QED BY <1>1, DropKeeps

LEMMA IndexKeeps ==
  ASSUME QuotaInv, NEW p \in live, EnsureUserFileIndex(p) \/ Fill(p)
  PROVE  QuotaInv'
<1> USE DEF QuotaInv
<1>1. TypeOK' /\ VersionsOK'
  BY EnsureType, EnsureVersions, FillType, FillVersions
<1>2. /\ Leaves /\ UNCHANGED <<mail, cache, taint, lost, install>>
  <2>1. Leaves
    BY LeavingSteps
  <2>2. EnsureUserFileIndex(p) => UNCHANGED <<mail, cache, taint, lost, install>>
    BY DEF EnsureUserFileIndex, Load
  <2>3. Fill(p) => UNCHANGED <<mail, cache, taint, lost, install>>
    BY DEF Fill
  <2> QED BY <2>1, <2>2, <2>3
<1>3. \A q \in live : Sized(q)' /\ Settled(q)'
  BY <1>2, SameFor DEF SizedOK, SettledOK
<1>4. disk' = disk
  BY <1>2 DEF Leaves
<1> QED BY <1>1, <1>2, <1>3, <1>4, LeavingStep, SameInstall

(* Steps that alter files.                                                  *)
LEMMA AlteringStep ==
  ASSUME QuotaInv, NEW S, Alters(S), NEW p \in live, Tells(p, S) \/ Forgets(S),
         mail' = mail, \A q \in live : q # p => cache'[q] = cache[q] /\ taint'[q] = taint[q],
         Sized(p)', Settled(p)',
         TypeOK', VersionsOK', FirstOK', InstallOK', MovesReplaceNothing'
  PROVE  QuotaInv'
<1> USE DEF QuotaInv
<1>1. live' = live
  BY DEF Alters
<1>2. \A q \in live : Sized(q)' /\ Settled(q)'
  <2> SUFFICES ASSUME NEW q \in live, q # p PROVE Sized(q)' /\ Settled(q)'
    OBVIOUS
  <2>1. (Sized(q) => Sized(q)') /\ (Settled(q) => Settled(q)')
    BY AltersOthers
  <2> QED BY <2>1 DEF SizedOK, SettledOK
<1>3. SizedOK' /\ SettledOK'
  BY <1>1, <1>2 DEF SizedOK, SettledOK
<1>4. ReportsOK'
  BY AltersReports
<1> QED BY <1>3, <1>4

LEMMA FinishKeeps ==
  ASSUME QuotaInv, NEW p \in live, NEW op, NEW b, BatchOK(op, b), Taken(p, op, b),
         Change, Finish(p, op, b)
  PROVE  QuotaInv'
<1> USE DEF QuotaInv
<1>1. /\ Alters(Paths(op, b)) /\ Tells(p, Paths(op, b))
      /\ TypeOK' /\ VersionsOK' /\ FirstOK'
  BY FinishAlters, FinishType, QuietSteps, VersionsStay, FinishFirst
<1>2. Sized(p)' /\ Settled(p)'
  BY FinishSized, FinishSettled
<1>3. mail' = mail /\ \A q \in live : q # p => cache'[q] = cache[q] /\ taint'[q] = taint[q]
  BY DEF Finish, Keep
<1>4. InstallOK'
  <2>1. install' = Raced
    BY DEF Finish
  <2> QED BY <2>1, RacedInstall DEF InstallOK
<1>5. MovesReplaceNothing'
  <2>1. Len(b) \in 0 .. Len(b)
    BY DEF BatchOK
  <2>2. Spite(p, Named(b)) = {} => ~Replaced(op, b, Len(b))
    BY <2>1, NothingReplaced
  <2> QED BY <2>2 DEF Finish, MovesReplaceNothing
<1> QED BY <1>1, <1>2, <1>3, <1>4, <1>5, AlteringStep

LEMMA StopKeeps ==
  ASSUME QuotaInv, NEW p \in live, NEW op, NEW b, BatchOK(op, b), Taken(p, op, b),
         NEW k \in DOMAIN b, Change, Stop(p, op, b, k)
  PROVE  QuotaInv'
<1> USE DEF QuotaInv
<1> DEFINE S == Paths(op, SubSeq(b, 1, k - 1))
<1>1. Alters(S) /\ Forgets(S) /\ TypeOK' /\ VersionsOK' /\ FirstOK'
  BY StopAlters, StopType, QuietSteps, VersionsStay, StopFirst
<1>2. Drop(p) /\ mail' = mail
  BY DEF Stop
<1>3. /\ Sized(p)' /\ Settled(p)'
      /\ \A q \in live : q # p => cache'[q] = cache[q] /\ taint'[q] = taint[q]
  BY <1>2, Forgotten
<1>4. InstallOK'
  <2>1. CASE k > 1
    <3>1. install' = Raced
      BY <2>1 DEF Stop
    <3> QED BY <3>1, RacedInstall DEF InstallOK
  <2>2. CASE ~(k > 1)
    <3>1. k = 1
      BY <2>2 DEF BatchOK
    <3>2. Runs(op, b, Len(b), After(op, b))
      BY BatchRuns
    <3>3. install' = install /\ disk' = After(op, b)[k - 1]
      BY <2>2 DEF Stop
    <3>4. k - 1 = 0
      BY <3>1
    <3>5. disk' = disk
      BY <3>2, <3>3, <3>4 DEF Runs
    <3> QED BY <3>3, <3>5, SameInstall
  <2> QED BY <2>1, <2>2
<1>5. MovesReplaceNothing'
  <2>1. k - 1 \in 0 .. Len(b)
    BY DEF BatchOK
  <2>2. Spite(p, Named(b)) = {} => ~Replaced(op, b, k - 1)
    <3> DEFINE n == k - 1
    <3>1. n \in 0 .. Len(b)
      BY <2>1
    <3> HIDE DEF n
    <3>2. Spite(p, Named(b)) = {} => ~Replaced(op, b, n)
      BY <3>1, NothingReplaced
    <3> QED BY <3>2 DEF n
  <2> QED BY <2>2 DEF Stop, MovesReplaceNothing
<1> HIDE DEF S
<1> QED BY <1>1, <1>2, <1>3, <1>4, <1>5, AlteringStep

LEMMA BackendKeeps ==
  ASSUME QuotaInv, NEW p \in live, BackendWrite(p)
  PROVE  QuotaInv'
<1> USE DEF QuotaInv
<1>1. PICK f \in Auth : Alters({f}) /\ Tells(p, {f})
  BY BackendAlters
<1>2. TypeOK' /\ VersionsOK' /\ FirstOK'
  BY BackendType, QuietSteps, VersionsStay, BackendFirst
<1>3. Drop(p) /\ mail' = mail /\ install' = Raced /\ lost' = lost
  BY DEF BackendWrite
<1>4. /\ Sized(p)' /\ Settled(p)'
      /\ \A q \in live : q # p => cache'[q] = cache[q] /\ taint'[q] = taint[q]
  BY <1>3, Forgotten
<1>5. InstallOK' /\ MovesReplaceNothing'
  BY <1>3, RacedInstall DEF InstallOK, MovesReplaceNothing
<1> QED BY <1>1, <1>2, <1>3, <1>4, <1>5, AlteringStep

LEMMA MoveInstallKeeps ==
  ASSUME QuotaInv, MoveInstall
  PROVE  QuotaInv'
<1> USE DEF QuotaInv
<1>1. TypeOK' /\ VersionsOK'
  BY MoveInstallType, QuietSteps, VersionsStay
<1>2. PICK p \in live, f \in Files : p = install.by /\ f = install.at
  BY DEF MoveInstall, TypeOK
<1>3. Drop(p) /\ mail' = mail /\ lost' = lost /\ install' = NoInstall
  BY <1>2 DEF MoveInstall
<1>4. /\ Sized(p)' /\ Settled(p)'
      /\ \A q \in live : q # p => cache'[q] = cache[q] /\ taint'[q] = taint[q]
  BY <1>3, Forgotten
<1>5. InstallOK' /\ MovesReplaceNothing'
  BY <1>3 DEF InstallOK, MovesReplaceNothing
<1>6. CASE disk[f] = 0
  <2>1. Alters({f}) /\ Tells(p, {f}) /\ FirstOK'
    BY <1>2, <1>6, MoveInstallAlters, MoveInstallFirst
  <2> QED BY <1>1, <1>3, <1>4, <1>5, <2>1, AlteringStep
<1>7. CASE disk[f] # 0
  <2>1. Leaves
    BY <1>2, <1>7, LeavingSteps
  <2>2. \A q \in live : Sized(q)' /\ Settled(q)'
    <3> SUFFICES ASSUME NEW q \in live, q # p PROVE Sized(q)' /\ Settled(q)'
      BY <1>4
    <3>1. cache'[q] = cache[q] /\ taint'[q] = taint[q] /\ mail'[q] = mail[q]
      BY <1>3, <1>4
    <3> QED BY <2>1, <3>1, SameFor DEF SizedOK, SettledOK
  <2> QED BY <1>1, <1>3, <1>5, <2>1, <2>2, LeavingStep
<1> QED BY <1>6, <1>7

LEMMA ReportKeeps ==
  ASSUME QuotaInv, NEW r, Report(r)
  PROVE  QuotaInv'
<1> USE DEF QuotaInv
<1>1. TypeOK' /\ VersionsOK' /\ ReportsOK' /\ FirstOK'
  BY ReportType, ReportVersions, ReportReports, ReportFirst
<1>2. UNCHANGED <<live, disk, install, lost>>
  BY ReportFacts
<1>3. \A q \in live : Sized(q)' /\ Settled(q)'
  BY ReportSized, ReportSettled DEF SizedOK, SettledOK
<1>4. SizedOK' /\ SettledOK'
  BY <1>2, <1>3 DEF SizedOK, SettledOK
<1>5. InstallOK' /\ MovesReplaceNothing'
  BY <1>2, SameInstall DEF MovesReplaceNothing
<1> QED BY <1>1, <1>4, <1>5

LEMMA RequestCases ==
  ASSUME NEW p, Request(p)
  PROVE  \E op, b : /\ BatchOK(op, b) /\ Taken(p, op, b) /\ Change
                    /\ \/ Refuse(p, op, b) \/ Finish(p, op, b)
                       \/ \E k \in DOMAIN b : Stop(p, op, b, k)
<1>1. PICK op \in Ops : \E b \in Batches(op) :
        /\ \A k \in DOMAIN b : Allowed(p, op, b[k])
        /\ \/ Refuse(p, op, b) \/ Finish(p, op, b)
           \/ \E k \in DOMAIN b : Stop(p, op, b, k)
  BY DEF Request, Ops
<1>2. PICK b \in Batches(op) :
        /\ \A k \in DOMAIN b : Allowed(p, op, b[k])
        /\ \/ Refuse(p, op, b) \/ Finish(p, op, b)
           \/ \E k \in DOMAIN b : Stop(p, op, b, k)
  BY <1>1
<1>3. BatchOK(op, b) /\ Taken(p, op, b) /\ Change
  BY <1>2, BatchShape DEF Taken, Request
<1> QED BY <1>2, <1>3

LEMMA NextQuota == QuotaInv /\ [Next]_vars => QuotaInv'
<1> SUFFICES ASSUME QuotaInv, [Next]_vars PROVE QuotaInv'
  OBVIOUS
<1>1. ASSUME NEW p \in live, Request(p) PROVE QuotaInv'
  BY <1>1, RequestCases, RefuseKeeps, FinishKeeps, StopKeeps
<1>2. ASSUME NEW p \in live, EnsureUserFileIndex(p) \/ Fill(p) PROVE QuotaInv'
  BY <1>2, IndexKeeps
<1>3. ASSUME NEW p \in live, BackendWrite(p) PROVE QuotaInv'
  BY <1>3, BackendKeeps
<1>4. ASSUME NEW p \in live, PlanInstall(p) PROVE QuotaInv'
  BY <1>4, PlanKeeps
<1>5. ASSUME NEW p \in live, Commit(p) PROVE QuotaInv'
  BY <1>5, CommitKeeps
<1>6. ASSUME NEW p \in live, Deliver(p) PROVE QuotaInv'
  BY <1>6, DeliverKeeps
<1>7. ASSUME NEW p \in live, HearGap(p) PROVE QuotaInv'
  BY <1>7, HearGapKeeps
<1>8. CASE MoveInstall
  BY <1>8, MoveInstallKeeps
<1>9. ASSUME NEW r \in reports, Report(r) PROVE QuotaInv'
  BY <1>9, ReportKeeps
<1>10. CASE UNCHANGED vars
  <2>1. /\ Leaves /\ UNCHANGED <<copy, have, known, cache, mail, filling, install, taint,
                                excuse, lost, changes, faults>>
    BY <1>10 DEF vars, Leaves
  <2>2. TypeOK' /\ VersionsOK'
    <3>1. TypeOK'
      BY <2>1 DEF QuotaInv, TypeOK, Leaves, Newest
    <3>2. SameVersions
      BY <2>1 DEF SameVersions, Leaves
    <3> QED BY <3>1, <3>2, VersionsStay DEF QuotaInv
  <2>3. \A q \in live : Sized(q)' /\ Settled(q)'
    BY <2>1, SameFor DEF QuotaInv, SizedOK, SettledOK
  <2> QED BY <2>1, <2>2, <2>3, LeavingStep, SameInstall DEF QuotaInv, Leaves
<1> QED BY <1>1, <1>2, <1>3, <1>4, <1>5, <1>6, <1>7, <1>8, <1>9, <1>10 DEF Next

LEMMA QuotaAlways == Spec => []QuotaInv
BY InitQuota, NextQuota, PTL DEF Spec

(* In every state the disk, the index with its versions, the copies, the    *)
(* mail, the cached sizes and the install under way are of their types: no  *)
(* process holds a version that the primary has not made, and no clamp or   *)
(* delta makes a size that is not a number.                                 *)
THEOREM QuotaTypes == Spec => []TypeOK
<1>1. QuotaInv => TypeOK
  BY DEF QuotaInv
<1> QED BY <1>1, QuotaAlways, PTL

(* moveAppPaths, which renames over whatever is there, replaces a file only *)
(* when the index by which it judged was behind the disk.                   *)
THEOREM NothingIsReplaced == Spec => []MovesReplaceNothing
<1>1. QuotaInv => MovesReplaceNothing
  BY DEF QuotaInv
<1> QED BY <1>1, QuotaAlways, PTL

LEMMA AllTold ==
  ASSUME QuotaInv, reports = {}, torn = {}
  PROVE  unseen = {} /\ \A f \in Folder : disk[f] \in Int /\ log[Newest][f] = disk[f]
<1>1. unseen = {}
  BY DEF QuotaInv, ReportsOK, Reported, TypeOK
<1>2. \A f \in Folder : f \in Files /\ disk[f] \in Int
  BY FolderFinite, NewestType, DiskAt DEF QuotaInv
<1> QED BY <1>1, <1>2 DEF QuotaInv, ReportsOK

(* The size that getCachedUserFolderSize keeps, adjusted by each plan rather*)
(* than computed again, is the folder's size on disk whenever it was        *)
(* computed with a current index and the process has heard of every change. *)
THEOREM SizesAreExact == Spec => []CacheIsExact
<1>1. ASSUME QuotaInv PROVE CacheIsExact
  <2> SUFFICES ASSUME NEW p \in live, cache[p] # NoSize, taint[p] = {},
                      Clustered => mail[p] = << >> /\ reports = {} /\ torn = {}
                                     /\ p \notin filling
               PROVE  cache[p] = Total(disk)
    BY DEF CacheIsExact
  <2>1. Sound(p, cache[p])
    BY <1>1 DEF QuotaInv, SizedOK, Sized
  <2>2. CASE Clustered
    <3>1. PICK v \in Views : cache[p] = Total(v) /\ Fits(p, v)
      BY <2>1, <2>2 DEF Sound
    <3>2. \A f \in Folder : disk[f] \in Int /\ log[Newest][f] = disk[f]
      BY <1>1, <2>2, AllTold
    <3>3. \A f \in Folder : v[f] = disk[f]
      BY <2>2, <3>1, <3>2 DEF Fits, Own
    <3> QED BY <3>1, <3>2, <3>3, TotalEqual
  <2>3. CASE ~Clustered
    BY <2>1, <2>3 DEF Sound
  <2> QED BY <2>2, <2>3
<1> QED BY <1>1, QuotaAlways, PTL

(* With workers, once every request has told the index and every worker has *)
(* read its mail, each cached size is the folder's size on disk, unless it  *)
(* was computed from a copy known to be partial or outdated, or while       *)
(* missing deltas were asked for.                                           *)
THEOREM SizesSettle == Spec => []CachesSettle
<1>1. ASSUME QuotaInv PROVE CachesSettle
  <2> SUFFICES ASSUME Clustered, reports = {}, torn = {}, NEW p \in live,
                      cache[p] # NoSize, mail[p] = << >>,
                      taint[p] \intersect {"blind", "gap"} = {}
               PROVE  cache[p] = Total(disk)
    BY DEF CachesSettle
  <2>1. unseen = {} /\ \A f \in Folder : disk[f] \in Int /\ log[Newest][f] = disk[f]
    BY <1>1, AllTold
  <2>2. cache[p] = Total(log[Newest])
    BY <1>1, <2>1 DEF QuotaInv, SettledOK, Settled
  <2> DEFINE l == log[Newest]
  <2>3. \A f \in Folder : disk[f] \in Int /\ l[f] = disk[f]
    BY <2>1
  <2> HIDE DEF l
  <2>4. Total(l) = Total(disk)
    BY <2>3, TotalEqual
  <2> QED BY <2>2, <2>4 DEF l
<1> QED BY <1>1, QuotaAlways, PTL

LEMMA StepLimit ==
  ASSUME QuotaInv, [Next]_vars, Grows
  PROVE  Total(disk') <= Limit
<1> USE DEF QuotaInv
<1>0. ASSUME disk' = disk PROVE FALSE
  <2>1. Total(disk) \in Nat
    BY NewestType, TotalType
  <2> QED BY <1>0, <2>1 DEF Grows
<1>1. ASSUME NEW p \in live, Request(p) PROVE Total(disk') <= Limit
  <2>1. PICK op, b : /\ BatchOK(op, b) /\ Taken(p, op, b)
                     /\ \/ Refuse(p, op, b) \/ Finish(p, op, b)
                        \/ \E k \in DOMAIN b : Stop(p, op, b, k)
    BY <1>1, RequestCases
  <2>2. CASE Refuse(p, op, b)
    BY <1>0, <2>2 DEF Refuse, diskVars
  <2>3. CASE Finish(p, op, b)
    BY <2>1, <2>3, FinishLimit
  <2> QED BY <2>1, <2>2, <2>3, OtherLimit
<1>2. ASSUME NEW p \in live, BackendWrite(p) PROVE Total(disk') <= Limit
  BY <1>2, OtherLimit
<1>3. ASSUME NEW p \in live,
             \/ PlanInstall(p) \/ Commit(p) \/ EnsureUserFileIndex(p) \/ Deliver(p)
             \/ HearGap(p) \/ Fill(p)
      PROVE  FALSE
  BY <1>0, <1>3, LeavingSteps DEF Leaves
<1>4. CASE MoveInstall
  BY <1>4, MoveInstallLimit
<1>5. ASSUME NEW r \in reports, Report(r) PROVE FALSE
  BY <1>0, <1>5, ReportFacts
<1>6. CASE UNCHANGED vars
  BY <1>0, <1>6 DEF vars
<1> QED BY <1>1, <1>2, <1>3, <1>4, <1>5, <1>6 DEF Next

(* No request that was judged with a current index and a current size, and  *)
(* no install so planned that nothing changed since, makes the folder grow  *)
(* to more than USER_FOLDER_SIZE_LIMIT_BYTES.                               *)
THEOREM QuotaHolds == Spec => LimitHolds
<1>1. QuotaInv /\ [Next]_vars =>
        [excuse' = {} /\ Total(disk') > Total(disk) => Total(disk') <= Limit]_vars
  BY StepLimit DEF Grows
<1> QED BY <1>1, QuotaAlways, PTL DEF Spec, LimitHolds
=============================================================================
