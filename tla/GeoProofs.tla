------------------------------- MODULE GeoProofs -------------------------------
(***************************************************************************)
(* The geoip-resolver, in three parts.  The location cache: the closed     *)
(* formula of spiral never gives one cell to two ordinals, and fills its   *)
(* rings from the inside out, for every number of nodes.  The output of    *)
(* the resolve command: it changes from one whole list to the next.  The   *)
(* import: a table is the beginning of one file, and a lookup in a whole   *)
(* table finds the range of an address.                                    *)
(***************************************************************************)
EXTENDS GeoResolve, GeoImport, WellFoundedInduction, TLAPS

-----------------------------------------------------------------------------
(* The location cache.                                                     *)

\* The ring of an ordinal exists: the least k whose square is large enough.
LEMMA RingExists ==
    ASSUME NEW n \in Nat \ {0}
    PROVE  \E k \in 0..n : InRing(n, k)
  <1> DEFINE T == {k \in Nat : n <= Square(2*k + 1)}
  <1>1. n \in T
    BY SMT DEF Square
  <1>2. PICK x \in T : \A y \in T : ~(<<y, x>> \in OpToRel(<, Nat))
    <2>1. T \subseteq Nat /\ T # {}
      BY <1>1
    <2> QED
      BY <2>1, NatLessThanWellFounded, WFMin
  <1>3. ASSUME NEW y \in T PROVE x <= y
    <2>1. y < x => <<y, x>> \in OpToRel(<, Nat)
      BY DEF OpToRel
    <2>2. ~(y < x)
      BY <1>2, <2>1
    <2> QED
      BY <2>2
  <1>4. x \in 0..n
    BY <1>1, <1>3
  <1>5. CASE x = 0
    BY <1>4, <1>5 DEF InRing
  <1>6. CASE x # 0
    <2>1. x - 1 \in Nat /\ x - 1 \notin T
      BY <1>3, <1>6
    <2>2. Square(2*x - 1) < n
      BY <2>1 DEF Square
    <2> QED
      BY <1>4, <2>2 DEF InRing
  <1> QED
    BY <1>5, <1>6

LEMMA RingIs ==
    ASSUME NEW n \in Nat \ {0}
    PROVE  Ring(n) \in Nat /\ InRing(n, Ring(n))
  BY RingExists DEF Ring

\* An ordinal is one of the 8k cells of its ring.
LEMMA RingDepth ==
    ASSUME NEW n \in Nat \ {0}, NEW k \in Nat, InRing(n, k)
    PROVE  /\ Square(2*k + 1) \in Nat
           /\ Square(2*k + 1) - n \in Nat
           /\ k = 0 => n = 1
           /\ k # 0 => Square(2*k + 1) - n < 8*k
  <1>1. Square(2*k + 1) - Square(2*k - 1) = 8*k
    BY SMT DEF Square
  <1>2. Square(2*k + 1) \in Nat /\ Square(2*k - 1) \in Int
    BY SMT DEF Square
  <1>3. k = 0 => Square(2*k + 1) = 1
    BY SMT DEF Square
  <1> QED
    BY <1>1, <1>2, <1>3, SMT DEF InRing

\* The cell of an ordinal lies on the border of the square of its ring.
LEMMA OnRing ==
    ASSUME NEW n \in Nat \ {0}
    PROVE  /\ spiral(n) \in Int \X Int
           /\ Within(spiral(n), Ring(n))
           /\ \/ spiral(n)[1] \in {-Ring(n), Ring(n)}
              \/ spiral(n)[2] \in {-Ring(n), Ring(n)}
  <1> DEFINE k == Ring(n)
             m == Square(2*k + 1)
  <1>1. k \in Nat /\ InRing(n, k)
    BY RingIs
  <1> HIDE DEF k
  <1>2. m \in Nat /\ m - n \in Nat /\ (k = 0 => n = 1) /\ (k # 0 => m - n < 8*k)
    BY <1>1, RingDepth
  <1>2a. k = 0 => m = 1
    BY SMT DEF Square
  <1>3. spiral(n) = IF n >= m - 2*k THEN <<k - (m - n), -k>>
                    ELSE IF n >= m - 2*(2*k) THEN <<-k, -k + (m - 2*k - n)>>
                    ELSE IF n >= m - 3*(2*k) THEN <<-k + (m - 2*(2*k) - n), k>>
                    ELSE <<k, k - (m - 3*(2*k) - n)>>
    BY DEF spiral, k
  <1> HIDE DEF m
  <1>4. /\ spiral(n) \in Int \X Int
        /\ Within(spiral(n), k)
        /\ spiral(n)[1] \in {-k, k} \/ spiral(n)[2] \in {-k, k}
    <2>1. CASE n >= m - 2*k
      BY <1>1, <1>2, <1>2a, <1>3, <2>1, SMT DEF Within
    <2>2. CASE ~(n >= m - 2*k) /\ n >= m - 2*(2*k)
      BY <1>1, <1>2, <1>2a, <1>3, <2>2, SMT DEF Within
    <2>3. CASE ~(n >= m - 2*k) /\ ~(n >= m - 2*(2*k)) /\ n >= m - 3*(2*k)
      BY <1>1, <1>2, <1>2a, <1>3, <2>3, SMT DEF Within
    <2>4. CASE ~(n >= m - 2*k) /\ ~(n >= m - 2*(2*k)) /\ ~(n >= m - 3*(2*k))
      BY <1>1, <1>2, <1>2a, <1>3, <2>4, SMT DEF Within
    <2> QED
      BY <2>1, <2>2, <2>3, <2>4
  <1> QED
    BY <1>4 DEF k

\* Two ordinals with the same cell have the same ring.
LEMMA SameRing ==
    ASSUME NEW i \in Nat \ {0}, NEW j \in Nat \ {0}, spiral(i) = spiral(j)
    PROVE  Ring(i) = Ring(j)
  <1>1. Ring(i) \in Nat /\ Ring(j) \in Nat
    BY RingIs
  <1>2. /\ Within(spiral(i), Ring(i)) /\ Within(spiral(i), Ring(j))
        /\ spiral(i) \in Int \X Int
        /\ spiral(i)[1] \in {-Ring(i), Ring(i)} \/ spiral(i)[2] \in {-Ring(i), Ring(i)}
        /\ spiral(i)[1] \in {-Ring(j), Ring(j)} \/ spiral(i)[2] \in {-Ring(j), Ring(j)}
    BY OnRing
  <1>3. PICK a, b \in Int : spiral(i) = <<a, b>>
    BY <1>2
  <1> QED
    BY <1>1, <1>2, <1>3, SMT DEF Within

\* The formula gives every ordinal a cell of its own (geo_data.rs:299-322).
LEMMA SpiralInjective ==
    ASSUME NEW i \in Nat \ {0}, NEW j \in Nat \ {0}, spiral(i) = spiral(j)
    PROVE  i = j
  <1> DEFINE k == Ring(i)
             m == Square(2*k + 1)
             cell(n) == IF n >= m - 2*k THEN <<k - (m - n), -k>>
                        ELSE IF n >= m - 2*(2*k) THEN <<-k, -k + (m - 2*k - n)>>
                        ELSE IF n >= m - 3*(2*k) THEN <<-k + (m - 2*(2*k) - n), k>>
                        ELSE <<k, k - (m - 3*(2*k) - n)>>
  <1>1. Ring(j) = k
    BY SameRing
  <1>2. k \in Nat /\ InRing(i, k) /\ InRing(j, k)
    BY <1>1, RingIs
  <1>3. spiral(i) = cell(i) /\ spiral(j) = cell(j)
    BY <1>1 DEF spiral
  <1> HIDE DEF k
  <1>4. m \in Nat /\ m - i \in Nat /\ (k # 0 => m - i < 8*k) /\ (k = 0 => i = 1)
    BY <1>2, RingDepth
  <1>5. m - j \in Nat /\ (k # 0 => m - j < 8*k) /\ (k = 0 => j = 1)
    BY <1>2, RingDepth
  <1> HIDE DEF m
  <1>6. cell(i) = cell(j)
    BY <1>3
  <1>7. /\ cell(i)[1] = cell(j)[1] /\ cell(i)[2] = cell(j)[2]
    BY <1>6
  <1> QED
    BY <1>2, <1>4, <1>5, <1>7, SMT

\* A square that holds n cells is no smaller than that of the n-th cell's ring.
LEMMA RingLeast ==
    ASSUME NEW n \in Nat \ {0}, NEW k \in Nat, n <= Square(2*k + 1)
    PROVE  Ring(n) <= k
  <1> DEFINE r == Ring(n)
  <1>1. r \in Nat /\ InRing(n, r)
    BY RingIs
  <1> HIDE DEF r
  <1>2. SUFFICES ASSUME k < r PROVE FALSE
    BY <1>1 DEF r
  <1>3. r # 0 /\ Square(2*r - 1) < n
    BY <1>1, <1>2 DEF InRing
  <1>4. PICK d \in Nat : r = k + 1 + d
    <2>1. r - k - 1 \in Nat /\ r = k + 1 + (r - k - 1)
      BY <1>1, <1>2
    <2> QED
      BY <2>1
  <1>5. 2*r - 1 = 2*k + 1 + 2*d
    BY <1>4
  <1>6. Square(2*k + 1 + 2*d) = Square(2*k + 1) + 4*(d*(2*k + 1)) + 4*(d*d)
    BY SMT DEF Square
  <1>7. d*(2*k + 1) \in Nat /\ d*d \in Nat /\ Square(2*k + 1) \in Nat
    BY SMT DEF Square
  <1> QED
    BY <1>3, <1>5, <1>6, <1>7, SMT

-----------------------------------------------------------------------------
\* A place's cells are those of the ordinals, in order.
IInv ==
    /\ TypeOK
    /\ \A p \in Places : \A i \in 1..counter[p] : adjusted[p][i] = spiral(i)

LEMMA Initial == Init => IInv
  BY DEF Init, IInv, TypeOK

LEMMA Step == IInv /\ [Next]_vars => IInv'
  <1> SUFFICES ASSUME IInv, [Next]_vars PROVE IInv'
    OBVIOUS
  <1>1. ASSUME NEW p \in Places, adjust(p) PROVE IInv'
    <2> DEFINE n == counter[p] + 1
    <2>1. n \in Nat \ {0}
      BY DEF IInv, TypeOK
    <2>2. spiral(n) \in Int \X Int
      BY <2>1, OnRing
    <2>3. /\ counter' = [counter EXCEPT ![p] = n]
          /\ adjusted' = [adjusted EXCEPT ![p] = Append(adjusted[p], spiral(n))]
      BY <1>1 DEF adjust, IInv, TypeOK
    <2> HIDE DEF n
    <2>4. Append(adjusted[p], spiral(n)) \in Seq(Int \X Int)
      BY <2>2 DEF IInv, TypeOK
    <2>5. TypeOK'
      BY <2>1, <2>2, <2>3, <2>4 DEF IInv, TypeOK, n
    <2>6. ASSUME NEW q \in Places, NEW i \in 1..counter'[q]
          PROVE  adjusted'[q][i] = spiral(i)
      <3>1. CASE q # p
        BY <2>3, <2>6, <3>1 DEF IInv, TypeOK
      <3>2. CASE q = p /\ i # n
        <4>1. i \in 1..counter[p]
          BY <2>1, <2>3, <2>6, <3>2 DEF IInv, TypeOK, n
        <4>2. adjusted'[p][i] = adjusted[p][i]
          BY <2>2, <2>3, <4>1 DEF IInv, TypeOK
        <4> QED
          BY <3>2, <4>1, <4>2 DEF IInv
      <3>3. CASE q = p /\ i = n
        <4>1. adjusted'[p][Len(adjusted[p]) + 1] = spiral(n)
          BY <2>2, <2>3 DEF IInv, TypeOK
        <4>2. n = Len(adjusted[p]) + 1
          BY DEF IInv, TypeOK, n
        <4> QED
          BY <3>3, <4>1, <4>2
      <3> QED
        BY <3>1, <3>2, <3>3
    <2> QED
      BY <2>5, <2>6 DEF IInv
  <1>2. CASE UNCHANGED vars
    BY <1>2 DEF vars, IInv, TypeOK
  <1> QED
    BY <1>1, <1>2 DEF Next

\* A run of the resolve command uses the cache or drops it.
LEMMA ResolveStep == IInv /\ [ResolveNext]_resolveVars => IInv'
  <1> SUFFICES ASSUME IInv, [ResolveNext]_resolveVars PROVE IInv'
    OBVIOUS
  <1>1. CASE DropCache
    BY <1>1 DEF DropCache, IInv, TypeOK
  <1>2. CASE [Next]_vars
    BY <1>2, Step
  <1>3. DropCache \/ [Next]_vars
    BY DEF ResolveNext, Reimport, Advance, Start, ScanOverlay, OpenTemp, Write, WriteNode,
           Rename, Fail, Next, resolveVars
  <1> QED
    BY <1>1, <1>2, <1>3

LEMMA Invariance == ResolveSpec => []IInv
  <1>1. ResolveInit => IInv
    BY Initial DEF ResolveInit
  <1> QED
    BY <1>1, ResolveStep, PTL DEF ResolveSpec

LEMMA CellsDistinct == IInv => DistinctCells
  <1> SUFFICES ASSUME IInv, NEW p \in Places, NEW i \in 1..counter[p], NEW j \in 1..counter[p],
                      adjusted[p][i] = adjusted[p][j]
               PROVE  i = j
    BY DEF DistinctCells
  <1>1. i \in Nat \ {0} /\ j \in Nat \ {0} /\ spiral(i) = spiral(j)
    BY DEF IInv, TypeOK
  <1> QED
    BY <1>1, SpiralInjective

LEMMA CellsNear == IInv => SmallestSquare
  <1> SUFFICES ASSUME IInv, NEW p \in Places, NEW k \in 0..counter[p],
                      counter[p] <= Square(2*k + 1), NEW i \in 1..counter[p]
               PROVE  Within(adjusted[p][i], k)
    BY DEF SmallestSquare
  <1>1. /\ i \in Nat \ {0} /\ k \in Nat /\ counter[p] \in Nat
        /\ adjusted[p][i] = spiral(i)
    BY DEF IInv, TypeOK
  <1>2. i <= Square(2*k + 1)
    BY <1>1, SMT DEF Square
  <1>3. Ring(i) <= k
    BY <1>1, <1>2, RingLeast
  <1>4. Within(spiral(i), Ring(i)) /\ spiral(i) \in Int \X Int /\ Ring(i) \in Nat
    BY <1>1, OnRing, RingIs
  <1> QED
    BY <1>1, <1>3, <1>4 DEF Within

\* However many nodes come to one place, each is shown on a cell of its own, in
\* every run of the resolve command (geo_data.rs:283-322).
THEOREM NodesApart == ResolveSpec => []DistinctCells
  BY Invariance, CellsDistinct, PTL

\* The nodes of a place are never spread wider than their number asks for
\* (geo_data.rs:300).
THEOREM NodesNear == ResolveSpec => []SmallestSquare
  BY Invariance, CellsNear, PTL
-----------------------------------------------------------------------------
(* The output of the resolve command.                                      *)

\* The lines written and the nodes still to write are all the nodes, and what is
\* written comes from the state of the database that was opened.
LinesAndTodo ==
    /\ nodes \in [Places -> Nat] /\ todo \in [Places -> Nat]
    /\ pc = "write" =>
         /\ "temp" \in DOMAIN files
         /\ files["temp"].lines \in [Places -> Nat]
         /\ \A p \in Places : files["temp"].lines[p] + todo[p] = nodes[p]
         /\ files["temp"].views \subseteq {view}

\* What a reader of the output sees.
Output == {files[name] : name \in DOMAIN files \cap {"output"}}

\* The step from a whole list to a whole list.
WholeToWhole == Output # Output' => \E f \in Output' : f.lines = nodes /\ f.views \subseteq {view}

LEMMA ResolveInitial == ResolveInit => LinesAndTodo
  BY DEF ResolveInit, LinesAndTodo, NoNodes

\* One line more, one node less.
LEMMA LineWritten ==
    ASSUME LinesAndTodo, NEW p \in Places, WriteNode(p)
    PROVE  LinesAndTodo' /\ Output' = Output
  <1> DEFINE temp == files["temp"]
             new == [lines |-> [temp.lines EXCEPT ![p] = temp.lines[p] + 1], views |-> temp.views \cup {view}]
  <1>1. /\ "temp" \in DOMAIN files /\ temp.lines \in [Places -> Nat] /\ temp.views \subseteq {view}
        /\ \A q \in Places : temp.lines[q] + todo[q] = nodes[q]
        /\ nodes \in [Places -> Nat] /\ todo \in [Places -> Nat] /\ todo[p] > 0 /\ pc = "write"
    BY DEF LinesAndTodo, WriteNode
  <1>2. /\ files' = [files EXCEPT !["temp"] = new]
        /\ todo' = [todo EXCEPT ![p] = todo[p] - 1]
        /\ nodes' = nodes /\ view' = view /\ pc' = "write"
    BY <1>1 DEF WriteNode
  <1>3. files'["temp"] = new /\ DOMAIN files' = DOMAIN files
    BY <1>1, <1>2
  <1>4. new.lines = [temp.lines EXCEPT ![p] = temp.lines[p] + 1] /\ new.views = temp.views \cup {view}
    OBVIOUS
  <1>5. new.lines \in [Places -> Nat] /\ new.views \subseteq {view}
    BY <1>1, <1>4
  <1>6. todo' \in [Places -> Nat]
    BY <1>1, <1>2
  <1>7. ASSUME NEW q \in Places PROVE new.lines[q] + todo'[q] = nodes[q]
    BY <1>1, <1>2, <1>4
  <1>8. Output' = Output
    <2>1. ASSUME NEW name \in DOMAIN files \cap {"output"} PROVE files'[name] = files[name]
      BY <1>2
    <2> QED
      BY <1>3, <2>1 DEF Output
  <1> HIDE DEF temp, new
  <1> QED
    BY <1>1, <1>2, <1>3, <1>5, <1>6, <1>7, <1>8 DEF LinesAndTodo

\* Only the renaming touches the output, and it renames a list that is whole.
LEMMA OutputStep ==
    LinesAndTodo /\ [ResolveNext]_resolveVars => LinesAndTodo' /\ WholeToWhole
  <1> SUFFICES ASSUME LinesAndTodo, [ResolveNext]_resolveVars PROVE LinesAndTodo' /\ WholeToWhole
    OBVIOUS
  <1>1. CASE Reimport \/ UNCHANGED resolveVars
    BY <1>1 DEF Reimport, resolveVars, file, search, LinesAndTodo, WholeToWhole, Output
  <1>2. CASE Start
    BY <1>2 DEF Start, LinesAndTodo, WholeToWhole, Output, NoNodes
  <1>3. CASE ScanOverlay
    <2>1. nodes' \in [Places -> Nat]
      <3>1. Found \subseteq Nat
        BY GeoResolveAssumption, LocationCacheAssumption
      <3> QED
        BY <1>3, <3>1 DEF ScanOverlay
    <2> QED
      BY <1>3, <2>1 DEF ScanOverlay, file, LinesAndTodo, WholeToWhole, Output
  <1>4. CASE OpenTemp
    <2>1. "temp" \in DOMAIN files' /\ files'["temp"] = EmptyFile
      BY <1>4 DEF OpenTemp, With
    <2>2. EmptyFile.lines \in [Places -> Nat] /\ EmptyFile.views = {} /\ \A p \in Places : EmptyFile.lines[p] = 0
      BY DEF EmptyFile, NoNodes
    <2>3. LinesAndTodo'
      BY <1>4, <2>1, <2>2 DEF OpenTemp, LinesAndTodo
    <2>4. Output' = Output
      BY <1>4 DEF OpenTemp, With, Output
    <2> QED
      BY <2>3, <2>4 DEF WholeToWhole
  <1>5. CASE Write
    BY <1>5, LineWritten DEF Write, WholeToWhole
  <1>6. CASE Rename
    <2>1. /\ Output' = {files["temp"]} /\ pc = "write" /\ pc' = "down" /\ todo = NoNodes
          /\ nodes' = nodes /\ todo' = todo
      BY <1>6 DEF Rename, search, Output
    <2>2. \A p \in Places : files["temp"].lines[p] = nodes[p]
      BY <2>1 DEF LinesAndTodo, NoNodes
    <2>3. files["temp"].lines = nodes /\ files["temp"].views \subseteq {view}
      BY <2>1, <2>2 DEF LinesAndTodo
    <2>4. WholeToWhole
      BY <2>1, <2>3 DEF WholeToWhole
    <2> QED
      BY <2>1, <2>4 DEF LinesAndTodo
  <1>7. CASE Fail
    BY <1>7 DEF Fail, file, LinesAndTodo, WholeToWhole, Output, NoNodes
  <1> QED
    BY <1>1, <1>2, <1>3, <1>4, <1>5, <1>6, <1>7 DEF ResolveNext, Advance

\* For any number of peers at any places, of searches, of failures and of
\* imports meanwhile, the file that is read changes from a whole list to a
\* whole list (main.rs:98-114).
THEOREM OutputWhole == ResolveSpec => OutputIsWhole
  <1>1. WholeToWhole =>
            LET old == {files[name] : name \in DOMAIN files \cap {"output"}}
                new == {files'[name] : name \in DOMAIN files' \cap {"output"}}
            IN  old # new => \E f \in new : f.lines = nodes /\ f.views \subseteq {view}
    BY DEF WholeToWhole, Output
  <1> QED
    BY <1>1, ResolveInitial, OutputStep, PTL DEF ResolveSpec, OutputIsWhole

-----------------------------------------------------------------------------
(* The import.                                                             *)

\* A table has the rows of the addresses S of a file and no others.
Holds(table, f, S) ==
    /\ DOMAIN table = {to_be_bytes(ip) : ip \in S}
    /\ \A ip \in S : table[to_be_bytes(ip)] = [file |-> f, ip_from |-> ip]

\* S is the beginning of a file.
Beginning(S, f) == S \subseteq f /\ \A a \in S, b \in f \ S : a < b

\* A table is in hand from the opening of its file to its last row.
InHand == step \in {"drop", "create", "put"}

ImportTypes ==
    /\ step \in {"idle", "next"} \/ InHand
    /\ DOMAIN cfs \subseteq CFS /\ DOMAIN import \subseteq CFS
    /\ \A t \in DOMAIN import : import[t] \in Files
    /\ DOMAIN imported \subseteq DOMAIN cfs
    /\ \A t \in DOMAIN imported : imported[t] \in Files
    /\ InHand => DOMAIN import # {}

\* What is left of a file that ended anywhere is its beginning.
TablesBegun ==
    \A t \in DOMAIN cfs :
        \E f \in Files : \E S \in SUBSET f : Beginning(S, f) /\ Holds(cfs[t], f, S)

TablesWhole == \A t \in DOMAIN imported : Holds(cfs[t], imported[t], imported[t])

\* The table in hand has the rows that have gone before those to come.
RowsInOrder ==
    /\ step \in {"drop", "create"} => rest = import[Table]
    /\ step \in {"create", "put"} => Table \notin DOMAIN imported
    /\ step = "put" =>
         /\ Table \in DOMAIN cfs
         /\ rest \subseteq import[Table]
         /\ Beginning(import[Table] \ rest, import[Table])
         /\ Holds(cfs[Table], import[Table], import[Table] \ rest)

ImportInv == ImportTypes /\ TablesBegun /\ TablesWhole /\ RowsInOrder

-----------------------------------------------------------------------------
\* An address is the number of its two bytes.
LEMMA BytesOfIp ==
    ASSUME NEW a \in Ip
    PROVE  /\ a \in Nat
           /\ a \div ByteSize \in Nat /\ a % ByteSize \in 0..(ByteSize - 1)
           /\ a = (a \div ByteSize) * ByteSize + (a % ByteSize)
  <1>1. a \in Nat
    BY GeoImportAssumption DEF Ip
  <1> QED
    BY <1>1, GeoImportAssumption

\* The order of big-endian keys is that of the addresses (geo_data.rs:53, 149).
LEMMA KeysInOrder ==
    ASSUME NEW a \in Ip, NEW b \in Ip
    PROVE  KeyLeq(to_be_bytes(a), to_be_bytes(b)) <=> a <= b
  <1> DEFINE qa == a \div ByteSize
             ra == a % ByteSize
             qb == b \div ByteSize
             rb == b % ByteSize
  <1>1. /\ a \in Nat /\ qa \in Nat /\ ra \in 0..(ByteSize - 1) /\ a = qa * ByteSize + ra
        /\ b \in Nat /\ qb \in Nat /\ rb \in 0..(ByteSize - 1) /\ b = qb * ByteSize + rb
    BY BytesOfIp
  <1>2. KeyLeq(to_be_bytes(a), to_be_bytes(b)) <=> qa < qb \/ (qa = qb /\ ra <= rb)
    BY DEF KeyLeq, to_be_bytes
  <1> HIDE DEF qa, qb, ra, rb
  <1>3. ASSUME NEW x \in Nat, NEW y \in Nat, x < y
        PROVE  x * ByteSize + ByteSize <= y * ByteSize
    <2>1. PICK d \in Nat : y = x + 1 + d
      <3>1. y - x - 1 \in Nat /\ y = x + 1 + (y - x - 1)
        BY <1>3
      <3> QED
        BY <3>1
    <2>2. (x + 1 + d) * ByteSize = x * ByteSize + ByteSize + d * ByteSize
      BY GeoImportAssumption
    <2>3. d * ByteSize \in Nat /\ x * ByteSize \in Nat
      BY GeoImportAssumption
    <2> QED
      BY <2>1, <2>2, <2>3, GeoImportAssumption
  <1>4. qa * ByteSize \in Nat /\ qb * ByteSize \in Nat
    BY <1>1, GeoImportAssumption
  <1>5. CASE qa < qb
    BY <1>1, <1>2, <1>3, <1>4, <1>5, GeoImportAssumption
  <1>6. CASE qb < qa
    BY <1>1, <1>2, <1>3, <1>4, <1>6, GeoImportAssumption
  <1>7. CASE qa = qb
    BY <1>1, <1>2, <1>4, <1>7, GeoImportAssumption
  <1> QED
    BY <1>1, <1>5, <1>6, <1>7

\* No two addresses have one key.
LEMMA KeysApart ==
    ASSUME NEW a \in Ip, NEW b \in Ip, to_be_bytes(a) = to_be_bytes(b)
    PROVE  a = b
  <1>1. a \in Nat /\ b \in Nat
    BY BytesOfIp
  <1>2. KeyLeq(to_be_bytes(a), to_be_bytes(a))
    BY <1>1, KeysInOrder
  <1>3. a <= b /\ b <= a
    BY <1>2, KeysInOrder
  <1> QED
    BY <1>1, <1>3

\* A file has rows of addresses.
LEMMA FileType ==
    ASSUME NEW f \in Files
    PROVE  f \subseteq Ip /\ f \subseteq Nat /\ \A a \in f : a < ByteSize * ByteSize
  <1>1. f \subseteq Ip
    BY GeoImportAssumption
  <1>2. ByteSize * ByteSize \in Nat
    BY GeoImportAssumption
  <1> QED
    BY <1>1, <1>2 DEF Ip

\* Some addresses have a least one.
LEMMA LeastIp ==
    ASSUME NEW R \in SUBSET Nat, R # {}
    PROVE  \E a \in R : \A b \in R : a <= b
  <1>1. PICK a \in R : \A b \in R : ~(<<b, a>> \in OpToRel(<, Nat))
    BY NatLessThanWellFounded, WFMin
  <1>2. ASSUME NEW b \in R PROVE a <= b
    <2>1. a \in Nat /\ b \in Nat
      OBVIOUS
    <2>2. b < a => <<b, a>> \in OpToRel(<, Nat)
      BY <2>1 DEF OpToRel
    <2>3. ~(b < a)
      BY <1>1, <2>2
    <2> QED
      BY <2>1, <2>3
  <1> QED
    BY <1>2

\* Those below a bound have a greatest one.
LEMMA GreatestIp ==
    ASSUME NEW R \in SUBSET Nat, R # {}, NEW top \in Nat, \A a \in R : a <= top
    PROVE  \E a \in R : \A b \in R : b <= a
  <1> DEFINE D == {top - a : a \in R}
  <1>1. D \in SUBSET Nat /\ D # {}
    <2>1. \A a \in R : top - a \in Nat
      OBVIOUS
    <2> QED
      BY <2>1
  <1>2. PICK d \in D : \A e \in D : d <= e
    BY <1>1, LeastIp
  <1>3. PICK a \in R : d = top - a
    BY <1>2
  <1>4. ASSUME NEW b \in R PROVE b <= a
    <2>1. d <= top - b
      BY <1>2
    <2> QED
      BY <1>3, <2>1
  <1> QED
    BY <1>4

\* One more row makes a table of one more address.
LEMMA HoldsOneMore ==
    ASSUME NEW f, NEW S \in SUBSET Ip, NEW a \in Ip \ S, NEW table, Holds(table, f, S)
    PROVE  Holds(Extended(table, to_be_bytes(a), [file |-> f, ip_from |-> a]), f, S \cup {a})
  <1> DEFINE new == Extended(table, to_be_bytes(a), [file |-> f, ip_from |-> a])
  <1>1. DOMAIN new = DOMAIN table \cup {to_be_bytes(a)}
    BY DEF Extended
  <1>2. new[to_be_bytes(a)] = [file |-> f, ip_from |-> a]
    BY DEF Extended
  <1>3. ASSUME NEW ip \in S PROVE new[to_be_bytes(ip)] = [file |-> f, ip_from |-> ip]
    <2>1. to_be_bytes(ip) # to_be_bytes(a)
      BY KeysApart
    <2>2. to_be_bytes(ip) \in DOMAIN table
      BY DEF Holds
    <2> QED
      BY <2>1, <2>2 DEF Extended, Holds
  <1> HIDE DEF new
  <1>4. DOMAIN new = {to_be_bytes(ip) : ip \in S \cup {a}}
    BY <1>1 DEF Holds
  <1>5. Holds(new, f, S \cup {a})
    BY <1>2, <1>3, <1>4 DEF Holds
  <1> QED
    BY <1>5 DEF new

\* An empty table is the beginning of any file.
LEMMA EmptyBegins ==
    ASSUME NEW f
    PROVE  Beginning({}, f) /\ Holds(Empty, f, {})
  BY DEF Beginning, Holds, Empty

\* The table in hand is one of the job's.
LEMMA TableOfJob ==
    ASSUME ImportTypes, DOMAIN import # {}
    PROVE  Table \in DOMAIN import /\ Table \in CFS /\ import[Table] \in Files
  BY DEF ImportTypes, Table, CFS
-----------------------------------------------------------------------------
LEMMA ImportInitial == ImportInit => ImportInv
  BY DEF ImportInit, ImportInv, ImportTypes, TablesBegun, TablesWhole, RowsInOrder, InHand, NoTables

\* The database after clear_cf has dropped a table or made it anew.
LEMMA OpenKeeps ==
    ASSUME ImportInv, NEW job \in Jobs, Open(job)
    PROVE  ImportInv'
  <1> USE DEF ImportInv
  <1>1. /\ DOMAIN cfs' = CFS /\ step' = "next" /\ import' = job /\ imported' = imported
        /\ \A t \in CFS : cfs'[t] = IF t \in DOMAIN cfs THEN cfs[t] ELSE Empty
    BY DEF Open
  <1>2. ImportTypes'
    <2>1. DOMAIN job \subseteq CFS /\ \A t \in DOMAIN job : job[t] \in Files
      BY DEF Jobs
    <2> QED
      BY <1>1, <2>1 DEF ImportTypes, InHand
  <1>3. TablesBegun'
    <2>1. PICK f \in Files : TRUE
      BY GeoImportAssumption
    <2>2. Beginning({}, f) /\ Holds(Empty, f, {})
      BY EmptyBegins
    <2> QED
      BY <1>1, <2>2 DEF TablesBegun
  <1>4. TablesWhole'
    BY <1>1 DEF TablesWhole, ImportTypes
  <1>5. RowsInOrder'
    BY <1>1 DEF RowsInOrder
  <1> QED
    BY <1>2, <1>3, <1>4, <1>5

LEMMA OpenFileKeeps ==
    ASSUME ImportInv, OpenFile
    PROVE  ImportInv'
  <1>1. /\ DOMAIN import # {} /\ rest' = import[Table] /\ step' = "drop"
        /\ cfs' = cfs /\ import' = import /\ imported' = imported /\ Table' = Table
    BY DEF OpenFile, Table
  <1> QED
    BY <1>1 DEF ImportInv, ImportTypes, TablesBegun, TablesWhole, RowsInOrder, InHand

\* The history forgets a table that is dropped.
LEMMA DropCfKeeps ==
    ASSUME ImportInv, DropCf
    PROVE  ImportInv'
  <1>1. /\ step = "drop" /\ step' = "create" /\ import' = import /\ rest' = rest /\ Table' = Table
        /\ DOMAIN cfs' = DOMAIN cfs \ {Table} /\ DOMAIN imported' = DOMAIN imported \ {Table}
        /\ \A t \in DOMAIN cfs' : cfs'[t] = cfs[t]
        /\ \A t \in DOMAIN imported' : imported'[t] = imported[t]
    BY DEF DropCf, Without, Table
  <1>2. ImportTypes'
    BY <1>1 DEF ImportInv, ImportTypes, InHand
  <1>3. TablesBegun'
    BY <1>1 DEF ImportInv, TablesBegun
  <1>4. TablesWhole'
    BY <1>1, <1>2 DEF ImportInv, ImportTypes, TablesWhole
  <1>5. RowsInOrder'
    BY <1>1 DEF ImportInv, RowsInOrder
  <1> QED
    BY <1>2, <1>3, <1>4, <1>5 DEF ImportInv

LEMMA CreateCfKeeps ==
    ASSUME ImportInv, CreateCf
    PROVE  ImportInv'
  <1>1. /\ step = "create" /\ step' = "put" /\ import' = import /\ rest' = rest
        /\ imported' = imported /\ Table' = Table
        /\ DOMAIN cfs' = DOMAIN cfs \cup {Table} /\ cfs'[Table] = Empty
        /\ \A t \in DOMAIN cfs \ {Table} : cfs'[t] = cfs[t]
    BY DEF CreateCf, Extended, Table
  <1>2. /\ Table \in CFS /\ import[Table] \in Files /\ rest = import[Table]
        /\ Table \notin DOMAIN imported
    BY <1>1, TableOfJob DEF ImportInv, ImportTypes, InHand, RowsInOrder
  <1>3. ImportTypes'
    BY <1>1, <1>2 DEF ImportInv, ImportTypes, InHand
  <1>4. TablesBegun'
    <2>1. ASSUME NEW t \in DOMAIN cfs'
          PROVE  \E f \in Files : \E S \in SUBSET f : Beginning(S, f) /\ Holds(cfs'[t], f, S)
      <3>1. CASE t = Table
        BY <1>1, <1>2, <3>1, EmptyBegins
      <3>2. CASE t # Table
        BY <1>1, <3>2 DEF ImportInv, TablesBegun
      <3> QED
        BY <3>1, <3>2
    <2> QED
      BY <2>1 DEF TablesBegun
  <1>5. TablesWhole'
    BY <1>1, <1>2 DEF ImportInv, ImportTypes, TablesWhole
  <1>6. RowsInOrder'
    <2>1. import[Table] \ rest = {}
      BY <1>2
    <2>2. Beginning({}, import[Table]) /\ Holds(Empty, import[Table], {})
      BY EmptyBegins
    <2> QED
      BY <1>1, <1>2, <2>1, <2>2 DEF RowsInOrder
  <1> QED
    BY <1>3, <1>4, <1>5, <1>6 DEF ImportInv

\* The next row is the least of those to come.
LEMMA PutRowKeeps ==
    ASSUME ImportInv, PutRow
    PROVE  ImportInv'
  <1> DEFINE a == CHOOSE ip \in rest : \A other \in rest : ip <= other
             f == import[Table]
             S == f \ rest
             new == Extended(cfs[Table], to_be_bytes(a), [file |-> f, ip_from |-> a])
  <1>1. step = "put" /\ rest # {} /\ DOMAIN import # {}
    BY DEF PutRow, ImportInv, ImportTypes, InHand
  <1>2. /\ Table \in CFS /\ Table \in DOMAIN cfs /\ f \in Files /\ f \subseteq Ip /\ f \subseteq Nat
        /\ rest \subseteq f /\ Beginning(S, f) /\ Holds(cfs[Table], f, S)
        /\ Table \notin DOMAIN imported
    BY <1>1, TableOfJob, FileType DEF ImportInv, RowsInOrder
  <1>3. a \in rest /\ \A other \in rest : a <= other
    <2>1. \E ip \in rest : \A other \in rest : ip <= other
      BY <1>1, <1>2, LeastIp
    <2> QED
      BY <2>1
  <1>4. /\ step' = step /\ import' = import /\ imported' = imported /\ Table' = Table
        /\ rest' = rest \ {a} /\ cfs' = [cfs EXCEPT ![Table] = new]
    BY DEF PutRow, Table
  <1> HIDE DEF a
  <1>5. /\ DOMAIN cfs' = DOMAIN cfs /\ cfs'[Table] = new
        /\ \A t \in DOMAIN cfs \ {Table} : cfs'[t] = cfs[t]
    BY <1>2, <1>4
  <1>6. f \ (rest \ {a}) = S \cup {a}
    BY <1>2, <1>3
  <1>7. Holds(new, f, S \cup {a})
    BY <1>2, <1>3, HoldsOneMore
  <1> HIDE DEF new
  <1>8. Beginning(S \cup {a}, f)
    <2>1. ASSUME NEW x \in S \cup {a}, NEW y \in f \ (S \cup {a}) PROVE x < y
      <3>1. y \in rest /\ y # a /\ y \in Nat /\ a \in Nat /\ a <= y
        BY <1>2, <1>3
      <3>2. CASE x = a
        BY <3>1, <3>2
      <3>3. CASE x \in S
        BY <1>2, <3>3 DEF Beginning
      <3> QED
        BY <3>2, <3>3
    <2> QED
      BY <1>2, <1>3, <2>1 DEF Beginning
  <1>9. ImportTypes'
    BY <1>1, <1>4, <1>5 DEF ImportInv, ImportTypes, InHand
  <1>10. TablesBegun'
    <2>1. ASSUME NEW t \in DOMAIN cfs'
          PROVE  \E g \in Files : \E T \in SUBSET g : Beginning(T, g) /\ Holds(cfs'[t], g, T)
      <3>1. CASE t = Table
        <4>1. S \cup {a} \in SUBSET f
          BY <1>2, <1>3
        <4> QED
          BY <1>2, <1>5, <1>7, <1>8, <3>1, <4>1
      <3>2. CASE t # Table
        BY <1>5, <3>2 DEF ImportInv, TablesBegun
      <3> QED
        BY <3>1, <3>2
    <2> QED
      BY <2>1 DEF TablesBegun
  <1>11. TablesWhole'
    BY <1>2, <1>4, <1>5 DEF ImportInv, ImportTypes, TablesWhole
  <1>12. RowsInOrder'
    BY <1>1, <1>2, <1>4, <1>5, <1>6, <1>7, <1>8 DEF RowsInOrder
  <1> QED
    BY <1>9, <1>10, <1>11, <1>12 DEF ImportInv

\* Without rows to come the table is whole.
LEMMA EndFileKeeps ==
    ASSUME ImportInv, EndFile
    PROVE  ImportInv'
  <1>1. step = "put" /\ rest = {} /\ DOMAIN import # {}
    BY DEF EndFile, ImportInv, ImportTypes, InHand
  <1>2. /\ Table \in CFS /\ Table \in DOMAIN cfs /\ import[Table] \in Files
        /\ Holds(cfs[Table], import[Table], import[Table] \ rest)
    BY <1>1, TableOfJob DEF ImportInv, RowsInOrder
  <1>3. /\ step' = "next" /\ cfs' = cfs
        /\ DOMAIN import' = DOMAIN import \ {Table}
        /\ \A t \in DOMAIN import' : import'[t] = import[t]
        /\ DOMAIN imported' = DOMAIN imported \cup {Table} /\ imported'[Table] = import[Table]
        /\ \A t \in DOMAIN imported \ {Table} : imported'[t] = imported[t]
    BY DEF EndFile, Extended, Without
  <1>4. import[Table] \ rest = import[Table]
    BY <1>1
  <1>5. ImportTypes'
    BY <1>2, <1>3 DEF ImportInv, ImportTypes, InHand
  <1>6. TablesBegun' /\ RowsInOrder'
    BY <1>3 DEF ImportInv, TablesBegun, RowsInOrder
  <1>7. TablesWhole'
    <2>1. ASSUME NEW t \in DOMAIN imported' PROVE Holds(cfs'[t], imported'[t], imported'[t])
      <3>1. CASE t = Table
        BY <1>2, <1>3, <1>4, <3>1
      <3>2. CASE t # Table
        BY <1>3, <3>2 DEF ImportInv, TablesWhole
      <3> QED
        BY <3>1, <3>2
    <2> QED
      BY <2>1 DEF TablesWhole
  <1> QED
    BY <1>5, <1>6, <1>7 DEF ImportInv

\* The end of the command, good or bad, leaves the database as it is.
LEMMA IdleKeeps ==
    ASSUME ImportInv, Finish \/ FailImport
    PROVE  ImportInv'
  <1>1. /\ step' = "idle" /\ cfs' = cfs /\ imported' = imported
        /\ import' = import \/ import' = NoTables
    BY DEF Finish, FailImport
  <1>2. ImportTypes'
    BY <1>1 DEF ImportInv, ImportTypes, InHand, NoTables
  <1> QED
    BY <1>1, <1>2 DEF ImportInv, TablesBegun, TablesWhole, RowsInOrder

LEMMA ImportStep == ImportInv /\ [ImportNext]_importVars => ImportInv'
  <1> SUFFICES ASSUME ImportInv, [ImportNext]_importVars PROVE ImportInv'
    OBVIOUS
  <1>1. CASE UNCHANGED importVars
    BY <1>1 DEF importVars, ImportInv, ImportTypes, TablesBegun, TablesWhole, RowsInOrder,
                InHand, Table
  <1> QED
    BY <1>1, OpenKeeps, OpenFileKeeps, DropCfKeeps, CreateCfKeeps, PutRowKeeps, EndFileKeeps,
       IdleKeeps DEF ImportNext, AdvanceImport

LEMMA ImportInvariance == ImportSpec => []ImportInv
  BY ImportInitial, ImportStep, PTL DEF ImportSpec

-----------------------------------------------------------------------------
\* Whatever was imported before and wherever an import ended, a table holds the
\* beginning of one file, for any files and any size of a byte
\* (geo_data.rs:39, 72, 186).
THEOREM TablesOfOneFile == ImportSpec => []RowsOfOneFile
  <1>1. ImportInv => RowsOfOneFile
    <2> SUFFICES ASSUME ImportInv, NEW t \in DOMAIN cfs
                 PROVE  \E f \in Files, end \in 0..(ByteSize * ByteSize) :
                          /\ DOMAIN cfs[t] = {to_be_bytes(ip) : ip \in {from \in f : from < end}}
                          /\ \A k \in DOMAIN cfs[t] : cfs[t][k].file = f
      BY DEF RowsOfOneFile
    <2>1. PICK f \in Files : \E S \in SUBSET f : Beginning(S, f) /\ Holds(cfs[t], f, S)
      BY DEF ImportInv, TablesBegun
    <2>2. PICK S \in SUBSET f : Beginning(S, f) /\ Holds(cfs[t], f, S)
      BY <2>1
    <2>3. f \subseteq Nat /\ \A a \in f : a < ByteSize * ByteSize
      BY FileType
    <2>4. ByteSize * ByteSize \in Nat
      BY GeoImportAssumption
    <2>5. \E end \in 0..(ByteSize * ByteSize) : S = {from \in f : from < end}
      <3>1. CASE S = f
        <4>1. S = {from \in f : from < ByteSize * ByteSize}
          BY <2>3, <3>1
        <4> QED
          BY <2>4, <4>1
      <3>2. CASE S # f
        <4>1. PICK m \in f \ S : \A b \in f \ S : m <= b
          BY <2>3, <3>2, LeastIp
        <4>2. S = {from \in f : from < m}
          <5>1. ASSUME NEW a \in S PROVE a < m
            BY <2>2, <4>1 DEF Beginning
          <5>2. ASSUME NEW a \in f \ S PROVE ~(a < m)
            <6>1. a \in Nat /\ m \in Nat /\ m <= a
              BY <2>3, <4>1
            <6> QED
              BY <6>1
          <5> QED
            BY <5>1, <5>2
        <4>3. m \in 0..(ByteSize * ByteSize)
          BY <2>3, <2>4, <4>1
        <4> QED
          BY <4>2, <4>3
      <3> QED
        BY <3>1, <3>2
    <2>6. ASSUME NEW k \in DOMAIN cfs[t] PROVE cfs[t][k].file = f
      <3>1. PICK ip \in S : k = to_be_bytes(ip)
        BY <2>2 DEF Holds
      <3>2. cfs[t][to_be_bytes(ip)] = [file |-> f, ip_from |-> ip]
        BY <2>2 DEF Holds
      <3> QED
        BY <3>1, <3>2
    <2> QED
      BY <2>2, <2>5, <2>6 DEF Holds
  <1> QED
    BY <1>1, ImportInvariance, PTL

\* A lookup in a whole table finds the row with the greatest beginning that is
\* not above the address.
LEMMA FindInTable ==
    ASSUME NEW f \in SUBSET Ip, NEW table, Holds(table, f, f), NEW ip \in Ip,
           NEW from \in f, Covers(f, from, ip)
    PROVE  find(table, ip) = [file |-> f, ip_from |-> from]
  <1> DEFINE key == to_be_bytes(ip)
             below == {k \in DOMAIN table : KeyLeq(k, key)}
             last == CHOOSE k \in below : \A other \in below : KeyLeq(other, k)
  <1>1. from \in Ip /\ \A a \in Ip : a \in Nat
    BY BytesOfIp
  <1>2. to_be_bytes(from) \in below
    BY <1>1, KeysInOrder DEF Covers, Holds
  <1>3. ASSUME NEW k \in below PROVE \E a \in f : k = to_be_bytes(a) /\ a <= from
    <2>1. PICK a \in f : k = to_be_bytes(a)
      BY DEF Holds
    <2>2. a <= ip
      BY <2>1, KeysInOrder
    <2> QED
      BY <2>1, <2>2 DEF Covers
  <1>4. \A other \in below : KeyLeq(other, to_be_bytes(from))
    BY <1>1, <1>3, KeysInOrder
  <1>5. last \in below /\ \A other \in below : KeyLeq(other, last)
    BY <1>2, <1>4
  <1> HIDE DEF last
  <1>6. last = to_be_bytes(from)
    <2>1. PICK a \in f : last = to_be_bytes(a) /\ a <= from
      BY <1>3, <1>5
    <2>2. from <= a
      BY <1>1, <1>2, <1>5, <2>1, KeysInOrder
    <2>3. a = from
      BY <1>1, <2>1, <2>2
    <2> QED
      BY <2>1, <2>3
  <1>7. find(table, ip) = table[last]
    BY <1>2 DEF find, seek_for_prev, last
  <1> QED
    BY <1>6, <1>7 DEF Holds

\* In a table that was imported whole an address gets the row of its range, and
\* nothing if it is below all ranges, for any files and any size of a byte
\* (geo_data.rs:53, 89, 149-161).
THEOREM LookupsRight == ImportSpec => []LookupFindsRange
  <1>1. ImportInv => LookupFindsRange
    <2> SUFFICES ASSUME ImportInv, NEW t \in DOMAIN imported, NEW ip \in Ip
                 PROVE  LET f == imported[t]
                        IN  IF \E from \in f : from <= ip
                            THEN \E from \in f : /\ Covers(f, from, ip)
                                                 /\ find(cfs[t], ip) = [file |-> f, ip_from |-> from]
                            ELSE find(cfs[t], ip) = NoRow
      BY DEF LookupFindsRange
    <2> DEFINE f == imported[t]
    <2>1. f \in Files /\ Holds(cfs[t], f, f)
      BY DEF ImportInv, ImportTypes, TablesWhole
    <2>2. f \subseteq Ip /\ f \subseteq Nat /\ ip \in Nat
      BY <2>1, FileType, BytesOfIp
    <2> HIDE DEF f
    <2>3. CASE \E from \in f : from <= ip
      <3> DEFINE R == {a \in f : a <= ip}
      <3>1. R \in SUBSET Nat /\ R # {} /\ \A a \in R : a <= ip
        BY <2>2, <2>3
      <3>2. PICK from \in R : \A b \in R : b <= from
        BY <2>2, <3>1, GreatestIp
      <3>3. Covers(f, from, ip)
        BY <3>2 DEF Covers
      <3>4. find(cfs[t], ip) = [file |-> f, ip_from |-> from]
        BY <2>1, <2>2, <3>2, <3>3, FindInTable
      <3> QED
        BY <2>3, <3>2, <3>3, <3>4 DEF f
    <2>4. CASE ~(\E from \in f : from <= ip)
      <3>1. {k \in DOMAIN cfs[t] : KeyLeq(k, to_be_bytes(ip))} = {}
        BY <2>1, <2>2, <2>4, KeysInOrder DEF Holds
      <3>2. find(cfs[t], ip) = NoRow
        BY <3>1 DEF find, seek_for_prev
      <3> QED
        BY <2>4, <3>2 DEF f
    <2> QED
      BY <2>3, <2>4
  <1> QED
    BY <1>1, ImportInvariance, PTL
=============================================================================
