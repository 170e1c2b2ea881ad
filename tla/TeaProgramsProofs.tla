--------------------------- MODULE TeaProgramsProofs ---------------------------
(***************************************************************************)
(* For every file, argument list and width of int32: what the rows of a    *)
(* file become in the graph, which walks are asked for and made, and that  *)
(* neither the report of tea_walk nor the verdict of tea_verify_walks says *)
(* anything else.                                                          *)
(***************************************************************************)
EXTENDS TeaPrograms, DataLemmas

-----------------------------------------------------------------------------
(* Narrowing to int32. *)
LEMMA Narrowed ==
    ASSUME NEW h \in Nat, h > 0, NEW x \in Int
    PROVE  LET y == ((x + h) % (h + h)) - h
           IN  /\ y \in -h..h - 1
               /\ x \in -h..h - 1 => y = x
               /\ \E q \in Int : x = (h + h) * q + y
<1> DEFINE m == h + h
           z == x + h
           q == z \div m
           r == z % m
<1>1. m \in Nat /\ m > 0 /\ z \in Int
    OBVIOUS
<1> HIDE DEF m, z
<1>2. q \in Int /\ r \in 0..m - 1 /\ z = m * q + r
    BY <1>1
<1>3. ASSUME z \in 0..m - 1 PROVE r = z
    BY <1>1, <1>3
<1> HIDE DEF q, r
<1>4. r - h \in -h..h - 1
    BY <1>2 DEF m
<1>5. m * q \in Int
    BY <1>1, <1>2
<1> DEFINE p == m * q
<1>6. p \in Int /\ z = p + r
    BY <1>2, <1>5
<1> HIDE DEF p
<1>7. x = p + (r - h)
    BY <1>2, <1>6 DEF z
<1>8. x \in -h..h - 1 => r - h = x
    BY <1>2, <1>3 DEF m, z
<1> QED
    BY <1>2, <1>4, <1>7, <1>8 DEF p, r, m, z

LEMMA RemainderIs ==
    ASSUME NEW m \in Nat, m > 0, NEW q \in Int, NEW r \in 0..m - 1, NEW x \in Int, x = m * q + r
    PROVE  x % m = r
<1> DEFINE d == x \div m
           s == x % m
<1>1. d \in Int /\ s \in 0..m - 1 /\ x = m * d + s
    OBVIOUS
<1> HIDE DEF d, s
<1>2. d = q
  <2>1. ASSUME d < q PROVE FALSE
    <3>1. m * (d + 1) <= m * q
        BY <1>1, <2>1
    <3>2. m * (d + 1) = m * d + m
        BY <1>1
    <3> DEFINE a == m * d
               b == m * q
    <3>3. a \in Int /\ b \in Int
        BY <1>1
    <3>4. a + m <= b /\ b + r = a + s
        BY <1>1, <3>1, <3>2
    <3> HIDE DEF a, b
    <3> QED
        BY <1>1, <3>3, <3>4
  <2>2. ASSUME q < d PROVE FALSE
    <3>1. m * (q + 1) <= m * d
        BY <1>1, <2>2
    <3>2. m * (q + 1) = m * q + m
        BY <1>1
    <3> DEFINE a == m * d
               b == m * q
    <3>3. a \in Int /\ b \in Int
        BY <1>1
    <3>4. b + m <= a /\ b + r = a + s
        BY <1>1, <3>1, <3>2
    <3> HIDE DEF a, b
    <3> QED
        BY <1>1, <3>3, <3>4
  <2> QED
      BY <1>1, <2>1, <2>2
<1>3. m * q \in Int
    OBVIOUS
<1> DEFINE p == m * q
<1>4. p \in Int /\ x = p + r /\ x = p + s
    BY <1>1, <1>2, <1>3
<1> HIDE DEF p
<1>5. s = r
    BY <1>1, <1>4
<1> QED
    BY <1>5 DEF s

LEMMA Int32Right ==
    ASSUME NEW x \in Int
    PROVE  /\ Int32(x) \in Int /\ Int32(Int32(x)) = Int32(x)
           /\ Int32(0) = 0
           /\ x >= 0 => Int32(x) <= x
           /\ Int32(x) >= 0 => x % 2^Width = Int32(x)
<1> DEFINE h == 2^(Width - 1)
           y == Int32(x)
<1>1. h \in Nat /\ h > 0 /\ 2^Width = h + h
  <2>1. Width - 1 \in Nat /\ (Width - 1) + 1 = Width
      BY ProgramsAssumption
  <2> QED
      BY <2>1, PowersRight
<1>2. \A z \in Int : Int32(z) = ((z + h) % (h + h)) - h
    BY <1>1 DEF Int32
<1> HIDE DEF h
<1>3. ASSUME NEW z \in Int
      PROVE  /\ Int32(z) \in -h..h - 1
             /\ z \in -h..h - 1 => Int32(z) = z
             /\ \E q \in Int : z = (h + h) * q + Int32(z)
  <2> DEFINE w == ((z + h) % (h + h)) - h
  <2>1. w = Int32(z)
      BY <1>2, Zenon
  <2>2. w \in -h..h - 1 /\ (z \in -h..h - 1 => w = z) /\ \E q \in Int : z = (h + h) * q + w
      BY <1>1, Narrowed, Zenon
  <2> HIDE DEF w
  <2> QED
      BY <2>1, <2>2, Zenon
<1> HIDE DEF y
<1>4. y \in -h..h - 1 /\ y \in Int
  <2>1. y \in -h..h - 1
      BY <1>3, Zenon DEF y
  <2> QED
      BY <1>1, <2>1
<1>5. Int32(y) = y
    BY <1>3, <1>4
<1>6. Int32(0) = 0
    BY <1>1, <1>3
<1>7. x >= 0 => y <= x
    BY <1>1, <1>3, <1>4 DEF y
<1>8. ASSUME y >= 0 PROVE x % (h + h) = y
  <2>1. PICK q \in Int : x = (h + h) * q + y
      BY <1>3 DEF y
  <2>2. y \in 0..(h + h) - 1
      BY <1>1, <1>4, <1>8
  <2> DEFINE m == h + h
  <2>3. m \in Nat /\ m > 0 /\ x = m * q + y /\ y \in 0..m - 1
      BY <1>1, <2>1, <2>2
  <2> HIDE DEF m
  <2>4. x % m = y
      BY <2>3, RemainderIs
  <2> QED
      BY <2>4 DEF m
<1> QED
    BY <1>1, <1>4, <1>5, <1>6, <1>7, <1>8 DEF y

-----------------------------------------------------------------------------
(* Counting pairs row by row. *)
Pairs(I, A) == {p \in I \X UNION {A[i] : i \in I} : p[2] \in A[p[1]]}

LEMMA PairsCounted ==
    ASSUME NEW I, IsFiniteSet(I), NEW A, \A i \in I : IsFiniteSet(A[i]),
           NEW f, \A i \in I : f[i] = Cardinality(A[i])
    PROVE  /\ IsFiniteSet(Pairs(I, A))
           /\ Cardinality(Pairs(I, A)) = SumFunctionOnSet(f, I)
<1> DEFINE Good(s) == /\ IsFiniteSet(Pairs(s, A))
                      /\ Cardinality(Pairs(s, A)) = SumFunctionOnSet(f, s)
           P == {s \in SUBSET I : Good(s)}
<1>0. \A i \in I : f[i] \in Nat
    BY FS_CardinalityType
<1>1. ASSUME NEW s \in SUBSET I, \A t \in SUBSET s : t # s => t \in P
      PROVE  s \in P
  <2>1. CASE s = {}
    <3>1. Pairs(s, A) = {}
        BY <2>1 DEF Pairs
    <3>2. SumFunctionOnSet(f, s) = 0
        BY <2>1, SumEmpty
    <3> QED
        BY <2>1, <3>1, <3>2, FS_EmptySet
  <2>2. CASE s # {}
    <3>1. PICK e \in s : TRUE
        BY <2>2
    <3> DEFINE t == s \ {e}
               new == {e} \X A[e]
    <3>2. t \in SUBSET s /\ t # s /\ e \notin t /\ s = t \cup {e} /\ IsFiniteSet(s) /\ IsFiniteSet(t)
        BY FS_Subset
    <3>3. Good(t)
        BY <1>1, <3>2
    <3>4. SumFunctionOnSet(f, s) = f[e] + SumFunctionOnSet(f, t)
        BY <1>0, <3>2, SumRemove
    <3>5. Pairs(s, A) = Pairs(t, A) \cup new
        BY <3>2 DEF Pairs
    <3>6. Pairs(t, A) \cap new = {}
        BY DEF Pairs
    <3>7. IsFiniteSet(new) /\ Cardinality(new) = f[e]
      <4>1. IsFiniteSet({e}) /\ Cardinality({e}) = 1 /\ IsFiniteSet(A[e])
          BY FS_Singleton
      <4>2. IsFiniteSet(new) /\ Cardinality(new) = Cardinality({e}) * Cardinality(A[e])
          BY <4>1, FS_Product
      <4> DEFINE n == Cardinality(A[e])
      <4>3. n \in Nat /\ n = f[e]
          BY <4>1, FS_CardinalityType
      <4>4. Cardinality(new) = 1 * n
          BY <4>1, <4>2
      <4> HIDE DEF n
      <4> QED
          BY <4>2, <4>3, <4>4
    <3> HIDE DEF t, new
    <3> DEFINE B == Pairs(t, A)
    <3>8. IsFiniteSet(B) /\ Pairs(s, A) = B \cup new /\ B \cap new = {} /\ Cardinality(B) = SumFunctionOnSet(f, t)
        BY <3>3, <3>5, <3>6
    <3> HIDE DEF B
    <3>9. /\ IsFiniteSet(B \cup new)
          /\ Cardinality(B \cup new) = Cardinality(B) + Cardinality(new) - Cardinality(B \cap new)
        BY <3>7, <3>8, FS_Union
    <3>10. Cardinality(B) \in Nat /\ Cardinality(B \cap new) = 0 /\ f[e] \in Nat
        BY <1>0, <3>8, FS_EmptySet, FS_CardinalityType
    <3>11. Cardinality(Pairs(s, A)) = SumFunctionOnSet(f, s)
        BY <3>4, <3>7, <3>8, <3>9, <3>10
    <3> QED
        BY <3>8, <3>9, <3>11
  <2> QED
      BY <2>1, <2>2
<1> HIDE DEF P
<1>2. I \in P
    BY <1>1, SubsetInduction
<1> QED
    BY <1>2 DEF P

-----------------------------------------------------------------------------
(* The rows of a file, and the edges read from them. *)
LEMMA DataRight ==
    ASSUME NEW path, Readable(path)
    PROVE  /\ IsFiniteSet(Data(path)) /\ Data(path) \subseteq Int
           /\ \A n \in Data(path) : /\ Row(path, n) \in Edge
                                   /\ Files[path][n].u % 2^Width = Row(path, n).u
                                   /\ Files[path][n].v % 2^Width = Row(path, n).v
           /\ RowsOf(path) = {Row(path, n) : n \in Data(path)}
<1> DEFINE lines == Files[path]
<1>1. path \in DOMAIN Files /\ lines \in Seq(Line)
    BY ProgramsAssumption DEF Readable
<1>2. Len(lines) \in Nat /\ DOMAIN lines = 1..Len(lines) /\ \A n \in 1..Len(lines) : lines[n] \in Line
    BY <1>1
<1>3. Data(path) \subseteq 2..Len(lines) /\ IsFiniteSet(2..Len(lines))
    BY <1>2, FS_Interval DEF Data
<1>4. IsFiniteSet(Data(path)) /\ Data(path) \subseteq Int
    BY <1>2, <1>3, FS_Subset
<1>5. ASSUME NEW n \in Data(path)
      PROVE  /\ Row(path, n) \in Edge
             /\ lines[n].u % 2^Width = Row(path, n).u
             /\ lines[n].v % 2^Width = Row(path, n).v
  <2>1. n \in 1..Len(lines) /\ lines[n].kind = "edge"
      BY <1>2, <1>3 DEF Readable
  <2>2. lines[n].u \in Int /\ lines[n].v \in Int /\ lines[n].t \in Int
      BY <1>2, <2>1 DEF Line
  <2>3. 2^(Width - 1) \in Nat
      BY ProgramsAssumption, PowersRight
  <2>4. /\ Int32(lines[n].u) \in 0..2^(Width - 1) - 2
        /\ Int32(lines[n].v) \in 0..2^(Width - 1) - 2
      BY <1>1, <1>2, <2>1, ProgramsAssumption
  <2> HIDE DEF lines
  <2>5. /\ Int32(lines[n].u) \in Nat /\ Int32(lines[n].v) \in Nat
        /\ Int32(lines[n].u) >= 0 /\ Int32(lines[n].v) >= 0
      BY <2>3, <2>4
  <2>6. /\ lines[n].u % 2^Width = Int32(lines[n].u)
        /\ lines[n].v % 2^Width = Int32(lines[n].v)
      BY <2>2, <2>5, Int32Right
  <2>7. Row(path, n) = [u |-> Int32(lines[n].u), v |-> Int32(lines[n].v), t |-> lines[n].t]
      BY DEF Row, lines
  <2> QED
      BY <2>2, <2>5, <2>6, <2>7 DEF Edge
<1>6. Data(path) = {m \in 2..Len(lines) : lines[m].kind = "edge"}
  <2>1. ASSUME NEW n \in 2..Len(lines), lines[n].kind = "edge" PROVE n \in Data(path)
      BY <2>1 DEF Data
  <2> QED
      BY <1>3, <2>1 DEF Readable
<1>7. RowsOf(path) = {Row(path, n) : n \in Data(path)}
    BY <1>6 DEF RowsOf
<1> QED
    BY <1>4, <1>5, <1>7

LEMMA RowsRead ==
    ASSUME NEW path, Readable(path)
    PROVE  /\ read_edges_csv(path) \in Seq(Edge)
           /\ Cardinality(Data(path)) \in Nat
           /\ Len(read_edges_csv(path)) = Cardinality(Data(path))
           /\ \A k \in 1..Cardinality(Data(path)) :
                  /\ Sorted(Data(path))[k] \in Data(path)
                  /\ read_edges_csv(path)[k] = Row(path, Sorted(Data(path))[k])
           /\ \A n \in Data(path) : \E k \in 1..Cardinality(Data(path)) : Sorted(Data(path))[k] = n
           /\ \A j, k \in 1..Cardinality(Data(path)) :
                  Sorted(Data(path))[j] = Sorted(Data(path))[k] => j = k
<1> DEFINE D == Data(path)
           K == Cardinality(D)
           es == read_edges_csv(path)
<1>1. IsFiniteSet(D) /\ D \subseteq Int /\ \A n \in D : Row(path, n) \in Edge
    BY DataRight
<1>2. /\ K \in Nat
      /\ \A i \in 1..K : Sorted(D)[i] \in D
      /\ \A x \in D : \E i \in 1..K : Sorted(D)[i] = x
      /\ \A i, j \in 1..K : i < j => Sorted(D)[i] < Sorted(D)[j]
    BY <1>1, SortedRight
<1>3. es = [k \in 1..K |-> Row(path, Sorted(D)[k])]
  <2> DEFINE nth(k) == CHOOSE n \in D : Cardinality({m \in D : m < n}) = k - 1
  <2>1. es = [k \in 1..K |-> Row(path, nth(k))]
      BY Zenon DEF read_edges_csv
  <2>2. Sorted(D) = [k \in 1..K |-> nth(k)]
      BY Zenon DEF Sorted
  <2> HIDE DEF nth
  <2> QED
      BY <2>1, <2>2
<1> HIDE DEF D, es
<1>4. \A j, k \in 1..K : Sorted(D)[j] = Sorted(D)[k] => j = k
  <2> SUFFICES ASSUME NEW j \in 1..K, NEW k \in 1..K, Sorted(D)[j] = Sorted(D)[k] PROVE j = k
      OBVIOUS
  <2>1. Sorted(D)[j] \in Int /\ Sorted(D)[k] \in Int
      BY <1>1, <1>2
  <2> QED
      BY <1>2, <2>1
<1> HIDE DEF K
<1>5. es \in [1..K -> Edge]
    BY <1>1, <1>2, <1>3
<1>6. es \in Seq(Edge) /\ Len(es) = K
    BY <1>2, <1>5, ListIsSeq
<1> QED
    BY <1>2, <1>3, <1>4, <1>6 DEF es, K, D

(* The call of TemporalGraph::build that load_csv makes. *)
CallOf(path, d) ==
    [edges |-> read_edges_csv(path), num_vertices |-> max_node_id(read_edges_csv(path)) + 1,
     is_directed |-> d]
GraphOf(path, d) ==
    [v \in 0..VertexCountOf(CallOf(path, d)) - 1 |-> ListOf(CallOf(path, d), v)]

LEMMA CallRight ==
    ASSUME NEW path, Readable(path), NEW d \in BOOLEAN
    PROVE  /\ Callable(CallOf(path, d))
           /\ VertexCountOf(CallOf(path, d)) \in Nat
           /\ \A n \in Data(path) : /\ Row(path, n).u \in 0..VertexCountOf(CallOf(path, d)) - 1
                                   /\ Row(path, n).v \in 0..VertexCountOf(CallOf(path, d)) - 1
<1> DEFINE es == read_edges_csv(path)
           bare == [edges |-> es, num_vertices |-> -1]
           c0 == [edges |-> es, num_vertices |-> -1, is_directed |-> d]
           N == VertexCountOf(c0)
           K == Cardinality(Data(path))
           c == CallOf(path, d)
<1>1. /\ es \in Seq(Edge) /\ K \in Nat /\ Len(es) = K
      /\ \A k \in 1..K : es[k] = Row(path, Sorted(Data(path))[k])
      /\ \A n \in Data(path) : \E k \in 1..K : Sorted(Data(path))[k] = n
    BY RowsRead
<1> HIDE DEF es, K
<1>2. Callable(c0)
    BY <1>1 DEF Callable
<1>3. /\ c0.edges = es /\ c0.num_vertices = -1 /\ bare.edges = es /\ bare.num_vertices = -1
    OBVIOUS
<1>4. VertexCountOf(bare) = N
  <2>1. IdsOf(bare) = IdsOf(c0)
      BY <1>3, Zenon DEF IdsOf
  <2> DEFINE over(ids) == CHOOSE n \in {0} \cup {id + 1 : id \in ids} : \A id \in ids : id < n
  <2>2. ~(c0.num_vertices >= 0) /\ ~(bare.num_vertices >= 0)
      BY <1>3
  <2>3. VertexCountOf(bare) = over(IdsOf(bare)) /\ VertexCountOf(c0) = over(IdsOf(c0))
      BY <2>2, Zenon DEF VertexCountOf
  <2> HIDE DEF over, bare, c0
  <2> QED
      BY <2>1, <2>3, Zenon
<1>5. N \in Nat /\ \A id \in IdsOf(c0) : id < N
  <2>1. c0.num_vertices < 0
      BY <1>3
  <2> HIDE DEF c0
  <2> QED
      BY <1>2, <2>1, SizeCovers
<1>6. \A k \in 1..K : es[k].u \in Nat /\ es[k].v \in Nat
  <2>1. \A k \in 1..K : es[k] \in Edge
      BY <1>1
  <2> QED
      BY <2>1 DEF Edge
<1>7. \A k \in 1..K : /\ es[k].u < N /\ es[k].v < N
                       /\ es[k].u \in 0..N - 1 /\ es[k].v \in 0..N - 1
  <2>1. \A k \in 1..K : es[k].u \in IdsOf(c0) /\ es[k].v \in IdsOf(c0)
      BY <1>1, <1>3 DEF IdsOf
  <2> QED
      BY <1>5, <1>6, <2>1
<1> HIDE DEF N, c0, bare
<1>8. max_node_id(es) + 1 = N
  <2>1. max_node_id(es) = VertexCountOf(bare) - 1
      BY DEF max_node_id, bare
  <2> QED
      BY <1>4, <1>5, <2>1
<1>9. c = [edges |-> es, num_vertices |-> N, is_directed |-> d]
    BY <1>8 DEF CallOf, es
<1>10. Callable(c)
    BY <1>1, <1>5, <1>7, <1>9 DEF Callable
<1>11. VertexCountOf(c) = N
    BY <1>5, <1>9 DEF VertexCountOf
<1>12. \A n \in Data(path) : Row(path, n).u \in 0..N - 1 /\ Row(path, n).v \in 0..N - 1
  <2> SUFFICES ASSUME NEW n \in Data(path)
               PROVE  Row(path, n).u \in 0..N - 1 /\ Row(path, n).v \in 0..N - 1
      OBVIOUS
  <2>1. PICK k \in 1..K : Sorted(Data(path))[k] = n
      BY <1>1
  <2>2. es[k] = Row(path, n)
      BY <1>1, <2>1
  <2> QED
      BY <1>7, <2>2
<1> QED
    BY <1>5, <1>10, <1>11, <1>12

-----------------------------------------------------------------------------
(* The graph: what LeadsTo, Sources and InputComplete say of args, of any  *)
(* file and direction.                                                     *)
LeadsBy(row, from, to, d) ==
    \/ row.u = from /\ row.v = to
    \/ ~d /\ row.v = from /\ row.u = to
SourcesOf(path, d) ==
    UNION {{row.v} \cup (IF d THEN {} ELSE {row.u}) : row \in RowsOf(path)}
SidesAt(path, d, v, n) ==
    {side \in {"u", "v"} : /\ side = "u" => ~d
                          /\ Files[path][n][side] % 2^Width = v}

(* An entry of the call is a side of a row. *)
LEMMA EntryIsSide ==
    ASSUME NEW path, Readable(path), NEW d \in BOOLEAN, NEW v,
           NEW e \in EntriesAt(CallOf(path, d), v)
    PROVE  LET c == CallOf(path, d)
               n == Sorted(Data(path))[e[1]]
           IN  /\ e[1] \in 1..Cardinality(Data(path)) /\ n \in Data(path)
               /\ e = <<e[1], e[2]>> /\ e[2] \in SidesAt(path, d, v, n)
               /\ e[2] = "v" => /\ Row(path, n).v = v
                                /\ StepOf(c, e) = [v |-> Row(path, n).u, t |-> Row(path, n).t]
               /\ e[2] = "u" => /\ Row(path, n).u = v /\ ~d
                                /\ StepOf(c, e) = [v |-> Row(path, n).v, t |-> Row(path, n).t]
<1> DEFINE c == CallOf(path, d)
           D == Data(path)
           K == Cardinality(D)
           n == Sorted(D)[e[1]]
<1>1. /\ K \in Nat /\ Len(c.edges) = K
      /\ \A k \in 1..K : Sorted(D)[k] \in D /\ c.edges[k] = Row(path, Sorted(D)[k])
    BY RowsRead DEF CallOf
<1>2. c.is_directed = d
    BY DEF CallOf
<1>3. /\ e[1] \in 1..K /\ e = <<e[1], e[2]>> /\ e[2] \in {"u", "v"} /\ (e[2] = "u" => ~d)
      /\ VertexOf(c, e) = v
    BY <1>1, <1>2 DEF EntriesAt, EntriesOf, SidesOf
<1>4. n \in D /\ c.edges[e[1]] = Row(path, n)
    BY <1>1, <1>3
<1>5. /\ Files[path][n].u % 2^Width = Row(path, n).u
      /\ Files[path][n].v % 2^Width = Row(path, n).v
    BY <1>4, DataRight
<1> HIDE DEF c, D, n, K
<1>6. e[2] = "v" => /\ Row(path, n).v = v
                    /\ StepOf(c, e) = [v |-> Row(path, n).u, t |-> Row(path, n).t]
    BY <1>3, <1>4 DEF VertexOf, StepOf
<1>7. e[2] = "u" => /\ Row(path, n).u = v
                    /\ StepOf(c, e) = [v |-> Row(path, n).v, t |-> Row(path, n).t]
    BY <1>3, <1>4 DEF VertexOf, StepOf
<1>8. e[2] \in SidesAt(path, d, v, n)
    BY <1>3, <1>5, <1>6, <1>7 DEF SidesAt
<1> QED
    BY <1>3, <1>4, <1>6, <1>7, <1>8 DEF c, D, n, K

(* And every side of a row is an entry. *)
LEMMA SideIsEntry ==
    ASSUME NEW path, Readable(path), NEW d \in BOOLEAN, NEW v,
           NEW k \in 1..Cardinality(Data(path)),
           NEW side \in SidesAt(path, d, v, Sorted(Data(path))[k])
    PROVE  <<k, side>> \in EntriesAt(CallOf(path, d), v)
<1> DEFINE c == CallOf(path, d)
           D == Data(path)
           K == Cardinality(D)
           n == Sorted(D)[k]
<1>1. /\ K \in Nat /\ Len(c.edges) = K
      /\ \A i \in 1..K : Sorted(D)[i] \in D /\ c.edges[i] = Row(path, Sorted(D)[i])
    BY RowsRead DEF CallOf
<1>2. c.is_directed = d
    BY DEF CallOf
<1>3. n \in D /\ c.edges[k] = Row(path, n)
    BY <1>1
<1>4. /\ Files[path][n].u % 2^Width = Row(path, n).u
      /\ Files[path][n].v % 2^Width = Row(path, n).v
    BY <1>3, DataRight
<1>5. side \in {"u", "v"} /\ (side = "u" => ~d) /\ Files[path][n][side] % 2^Width = v
    BY DEF SidesAt
<1> HIDE DEF c, D, n
<1>6. VertexOf(c, <<k, side>>) = v
  <2>1. CASE side = "u"
      BY <1>3, <1>4, <1>5, <2>1 DEF VertexOf
  <2>2. CASE side = "v"
      BY <1>3, <1>4, <1>5, <2>2 DEF VertexOf
  <2> QED
      BY <1>5, <2>1, <2>2
<1>7. <<k, side>> \in EntriesOf(c)
    BY <1>1, <1>2, <1>5 DEF EntriesOf, SidesOf, D
<1> QED
    BY <1>6, <1>7 DEF EntriesAt, c

(* A vertex has as many entries as there are sides of rows at it. *)
LEMMA EntriesCounted ==
    ASSUME NEW path, Readable(path), NEW d \in BOOLEAN, NEW v
    PROVE  Cardinality(EntriesAt(CallOf(path, d), v))
               = SumFunction([n \in Data(path) |-> Cardinality(SidesAt(path, d, v, n))])
<1> DEFINE E == EntriesAt(CallOf(path, d), v)
           D == Data(path)
           K == Cardinality(D)
           nth == Sorted(D)
           A == [n \in D |-> SidesAt(path, d, v, n)]
           f == [n \in D |-> Cardinality(SidesAt(path, d, v, n))]
           P == Pairs(D, A)
           b == [e \in E |-> <<nth[e[1]], e[2]>>]
<1>1. IsFiniteSet(D) /\ D \subseteq Int
    BY DataRight
<1>2. IsFiniteSet(E)
    BY CallRight, EntriesFinite
<1>3. /\ \A n \in D : \E k \in 1..K : nth[k] = n
      /\ \A j, k \in 1..K : nth[j] = nth[k] => j = k
    BY RowsRead
<1>4. \A e \in E : /\ e[1] \in 1..K /\ nth[e[1]] \in D /\ e = <<e[1], e[2]>>
                    /\ e[2] \in SidesAt(path, d, v, nth[e[1]])
    BY EntryIsSide
<1>5. \A k \in 1..K : \A side \in SidesAt(path, d, v, nth[k]) : <<k, side>> \in E
    BY SideIsEntry
<1>6. \A n \in D : A[n] = SidesAt(path, d, v, n) /\ f[n] = Cardinality(A[n])
    OBVIOUS
<1>7. \A n \in D : IsFiniteSet(A[n])
  <2>1. IsFiniteSet({"u"}) /\ {"u", "v"} = {"u"} \cup {"v"}
      BY FS_Singleton
  <2>2. IsFiniteSet({"u", "v"})
      BY <2>1, FS_AddElement
  <2>3. \A n \in D : A[n] \in SUBSET {"u", "v"}
      BY <1>6 DEF SidesAt
  <2> HIDE DEF A
  <2> QED
      BY <2>2, <2>3, FS_Subset
<1>8. SumFunction(f) = SumFunctionOnSet(f, D)
    BY SumOfFunction
<1> HIDE DEF A, f
<1>9. Cardinality(P) = SumFunctionOnSet(f, D)
    BY <1>1, <1>6, <1>7, PairsCounted
<1>10. b \in [E -> P]
    BY <1>4, <1>6 DEF Pairs
<1>11. \A x, y \in E : b[x] = b[y] => x = y
    BY <1>3, <1>4
<1>12. \A p \in P : \E e \in E : b[e] = p
  <2> SUFFICES ASSUME NEW p \in P PROVE \E e \in E : b[e] = p
      OBVIOUS
  <2>1. p = <<p[1], p[2]>> /\ p[1] \in D /\ p[2] \in SidesAt(path, d, v, p[1])
      BY <1>6 DEF Pairs
  <2>2. PICK k \in 1..K : nth[k] = p[1]
      BY <1>3, <2>1
  <2>3. <<k, p[2]>> \in E
      BY <1>5, <2>1, <2>2
  <2> HIDE DEF E, nth, P
  <2>4. b[<<k, p[2]>>] = p
      BY <2>1, <2>2, <2>3
  <2> QED
      BY <2>3, <2>4
<1> HIDE DEF b, P, E
<1>13. b \in Bijection(E, P)
    BY <1>10, <1>11, <1>12 DEF Bijection, Injection, Surjection, IsInjective
<1>14. Cardinality(E) = Cardinality(P)
  <2>1. E \in SUBSET E /\ P \in SUBSET P /\ \A x \in E : x \in E <=> b[x] \in P
      BY <1>10
  <2> QED
      BY <1>2, <1>13, <2>1, SameSize
<1> QED
    BY <1>8, <1>9, <1>14 DEF E, f, D

(* What the graph G built from a file holds. *)
Holds(G, path, d) ==
    /\ DOMAIN G = 0..VertexCountOf(CallOf(path, d)) - 1
    /\ VertexCountOf(CallOf(path, d)) \in Nat
    /\ \A v \in DOMAIN G :
           /\ G[v] \in Seq([v : DOMAIN G, t : Int])
           /\ \A k \in 1..Len(G[v]) : \E row \in RowsOf(path) :
                  row.t = G[v][k].t /\ LeadsBy(row, G[v][k].v, v, d)
           /\ Len(G[v]) = SumFunction([n \in Data(path) |-> Cardinality(SidesAt(path, d, v, n))])
    /\ \A n \in Data(path) :
           /\ Row(path, n).u \in DOMAIN G /\ Row(path, n).v \in DOMAIN G
           /\ \E k \in 1..Len(G[Row(path, n).v]) :
                  G[Row(path, n).v][k] = [v |-> Row(path, n).u, t |-> Row(path, n).t]
           /\ ~d => \E k \in 1..Len(G[Row(path, n).u]) :
                        G[Row(path, n).u][k] = [v |-> Row(path, n).v, t |-> Row(path, n).t]

LEMMA GraphRight ==
    ASSUME NEW path, Readable(path), NEW d \in BOOLEAN
    PROVE  Holds(GraphOf(path, d), path, d)
<1> DEFINE G == GraphOf(path, d)
           c == CallOf(path, d)
           N == VertexCountOf(c)
           V == 0..N - 1
           D == Data(path)
           nth == Sorted(D)
           list(v) == ListOf(c, v)
<1>1. /\ Callable(c) /\ N \in Nat
      /\ \A n \in D : Row(path, n).u \in V /\ Row(path, n).v \in V
    BY CallRight
<1>2. DOMAIN G = V /\ \A v \in V : G[v] = list(v)
    BY DEF GraphOf
<1>3. ASSUME NEW v \in V
      PROVE  /\ list(v) \in Seq([v : V, t : Int])
             /\ Len(list(v)) \in Nat /\ Len(list(v)) = Cardinality(EntriesAt(c, v))
             /\ \A k \in 1..Len(list(v)) : \E e \in EntriesAt(c, v) : list(v)[k] = StepOf(c, e)
             /\ \A e \in EntriesAt(c, v) : \E k \in 1..Len(list(v)) : list(v)[k] = StepOf(c, e)
  <2> DEFINE E == EntriesAt(c, v)
             m == Cardinality(E)
             L == list(v)
  <2>1. /\ m \in Nat /\ DOMAIN L = 1..m
        /\ \E g \in Bijection(1..m, E) : \A i \in 1..m : L[i] = StepOf(c, g[i])
      BY <1>1, ListPermutes
  <2>2. L \in Seq([v : V, t : Int])
      BY <1>1, ListTyped DEF StepsIn
  <2> HIDE DEF L, m, E
  <2>3. Len(L) = m
      BY <2>1, <2>2, LenProperties
  <2>4. PICK g \in Bijection(1..m, E) : \A i \in 1..m : L[i] = StepOf(c, g[i])
      BY <2>1
  <2> DEFINE I == 1..m
  <2>5. (\A i \in I : g[i] \in E) /\ \A e \in E : \E i \in I : g[i] = e
    <3>1. g \in Bijection(I, E)
        OBVIOUS
    <3> HIDE DEF I
    <3> QED
        BY <3>1, BijectionFacts
  <2>6. \A k \in 1..m : \E e \in E : L[k] = StepOf(c, e)
      BY <2>4, <2>5
  <2>7. \A e \in E : \E k \in 1..m : L[k] = StepOf(c, e)
      BY <2>4, <2>5
  <2> QED
      BY <2>1, <2>2, <2>3, <2>6, <2>7 DEF L, E, m
<1>4. ASSUME NEW v \in V, NEW k \in 1..Len(list(v))
      PROVE  \E row \in RowsOf(path) : row.t = list(v)[k].t /\ LeadsBy(row, list(v)[k].v, v, d)
  <2>1. PICK e \in EntriesAt(c, v) : list(v)[k] = StepOf(c, e)
      BY <1>3
  <2> DEFINE n == nth[e[1]]
             row == Row(path, n)
             s == StepOf(c, e)
  <2>2. /\ n \in D /\ e[2] \in {"u", "v"}
        /\ e[2] = "v" => row.v = v /\ s = [v |-> row.u, t |-> row.t]
        /\ e[2] = "u" => row.u = v /\ ~d /\ s = [v |-> row.v, t |-> row.t]
    <3>1. e[2] \in SidesAt(path, d, v, n)
        BY EntryIsSide
    <3> QED
        BY <3>1, EntryIsSide DEF SidesAt
  <2>3. row \in RowsOf(path)
      BY <2>2, DataRight
  <2> HIDE DEF row, s
  <2>4. row.t = s.t /\ LeadsBy(row, s.v, v, d)
      BY <2>2 DEF LeadsBy
  <2> QED
      BY <2>1, <2>3, <2>4 DEF s
<1>5. ASSUME NEW v \in V
      PROVE  Len(list(v)) = SumFunction([n \in D |-> Cardinality(SidesAt(path, d, v, n))])
    BY <1>3, EntriesCounted
<1>6. ASSUME NEW n \in D, NEW v, NEW side \in SidesAt(path, d, v, n), v \in V
      PROVE  \E k \in 1..Len(list(v)) :
                 list(v)[k] = [v |-> IF side = "v" THEN Row(path, n).u ELSE Row(path, n).v,
                               t |-> Row(path, n).t]
  <2>1. PICK i \in 1..Cardinality(D) : nth[i] = n
      BY RowsRead
  <2> DEFINE e == <<i, side>>
  <2>2. e \in EntriesAt(c, v)
      BY <2>1, SideIsEntry
  <2>3. e[1] = i /\ e[2] = side /\ side \in {"u", "v"}
      BY DEF SidesAt
  <2>4. StepOf(c, e) = [v |-> IF side = "v" THEN Row(path, n).u ELSE Row(path, n).v,
                        t |-> Row(path, n).t]
    <3> HIDE DEF e
    <3>1. /\ e[2] = "v" => StepOf(c, e) = [v |-> Row(path, n).u, t |-> Row(path, n).t]
          /\ e[2] = "u" => StepOf(c, e) = [v |-> Row(path, n).v, t |-> Row(path, n).t]
        BY <2>1, <2>2, <2>3, EntryIsSide
    <3> QED
        BY <2>3, <3>1
  <2> HIDE DEF e, list
  <2>5. \E k \in 1..Len(list(v)) : list(v)[k] = StepOf(c, e)
      BY <1>3, <1>6, <2>2
  <2> QED
      BY <2>4, <2>5
<1>7. ASSUME NEW n \in D
      PROVE  /\ "v" \in SidesAt(path, d, Row(path, n).v, n)
             /\ ~d => "u" \in SidesAt(path, d, Row(path, n).u, n)
    BY DataRight DEF SidesAt
<1>8. ASSUME NEW n \in D
      PROVE  /\ \E k \in 1..Len(list(Row(path, n).v)) :
                    list(Row(path, n).v)[k] = [v |-> Row(path, n).u, t |-> Row(path, n).t]
             /\ ~d => \E k \in 1..Len(list(Row(path, n).u)) :
                    list(Row(path, n).u)[k] = [v |-> Row(path, n).v, t |-> Row(path, n).t]
  <2> DEFINE x == Row(path, n).v
             y == Row(path, n).u
  <2>1. x \in V /\ y \in V
      BY <1>1
  <2>2. "v" \in SidesAt(path, d, x, n) /\ (~d => "u" \in SidesAt(path, d, y, n))
      BY <1>7
  <2> HIDE DEF list, V, D
  <2>3. \E k \in 1..Len(list(x)) : list(x)[k] = [v |-> y, t |-> Row(path, n).t]
      BY <1>6, <2>1, <2>2
  <2>4. ~d => \E k \in 1..Len(list(y)) : list(y)[k] = [v |-> x, t |-> Row(path, n).t]
      BY <1>6, <2>1, <2>2
  <2> QED
      BY <2>3, <2>4
<1> DEFINE Lists(W) ==
               \A v \in W : /\ G[v] \in Seq([v : W, t : Int])
                            /\ \A k \in 1..Len(G[v]) : \E row \in RowsOf(path) :
                                   row.t = G[v][k].t /\ LeadsBy(row, G[v][k].v, v, d)
                            /\ Len(G[v]) = SumFunction([n \in D |-> Cardinality(SidesAt(path, d, v, n))])
           Rows(W) ==
               \A n \in D :
                  /\ Row(path, n).u \in W /\ Row(path, n).v \in W
                  /\ \E k \in 1..Len(G[Row(path, n).v]) :
                         G[Row(path, n).v][k] = [v |-> Row(path, n).u, t |-> Row(path, n).t]
                  /\ ~d => \E k \in 1..Len(G[Row(path, n).u]) :
                               G[Row(path, n).u][k] = [v |-> Row(path, n).v, t |-> Row(path, n).t]
<1> HIDE DEF G, list, V, D
<1>9. Lists(V)
  <2> SUFFICES ASSUME NEW v \in V
               PROVE  /\ list(v) \in Seq([v : V, t : Int])
                      /\ \A k \in 1..Len(list(v)) : \E row \in RowsOf(path) :
                             row.t = list(v)[k].t /\ LeadsBy(row, list(v)[k].v, v, d)
                      /\ Len(list(v)) = SumFunction([n \in D |-> Cardinality(SidesAt(path, d, v, n))])
      BY <1>2
  <2> QED
      BY <1>3, <1>4, <1>5
<1>10. Rows(V)
  <2> SUFFICES ASSUME NEW n \in D
               PROVE  /\ Row(path, n).u \in V /\ Row(path, n).v \in V
                      /\ \E k \in 1..Len(G[Row(path, n).v]) :
                             G[Row(path, n).v][k] = [v |-> Row(path, n).u, t |-> Row(path, n).t]
                      /\ ~d => \E k \in 1..Len(G[Row(path, n).u]) :
                             G[Row(path, n).u][k] = [v |-> Row(path, n).v, t |-> Row(path, n).t]
      OBVIOUS
  <2>1. Row(path, n).u \in V /\ Row(path, n).v \in V
      BY <1>1
  <2>2. G[Row(path, n).u] = list(Row(path, n).u) /\ G[Row(path, n).v] = list(Row(path, n).v)
      BY <1>2, <2>1
  <2> QED
      BY <1>8, <2>1, <2>2
<1> HIDE DEF Lists, Rows
<1>11. Lists(DOMAIN G) /\ Rows(DOMAIN G)
    BY <1>2, <1>9, <1>10
<1> QED
    BY <1>1, <1>2, <1>11, Zenon DEF Holds, Lists, Rows, G, V, D

-----------------------------------------------------------------------------
(* The start vertices: those a row leads to, in ascending order, each as   *)
(* often as asked.                                                         *)
LEMMA SourcesRight ==
    ASSUME NEW path, Readable(path), NEW d \in BOOLEAN
    PROVE  LET G == GraphOf(path, d)
           IN  /\ SourcesOf(path, d) = {v \in DOMAIN G : Len(G[v]) > 0}
               /\ IsFiniteSet(SourcesOf(path, d)) /\ SourcesOf(path, d) \subseteq DOMAIN G
               /\ DOMAIN G \subseteq Nat
<1> DEFINE G == GraphOf(path, d)
           S == SourcesOf(path, d)
           N == VertexCountOf(CallOf(path, d))
<1>1. /\ DOMAIN G = 0..N - 1 /\ N \in Nat
      /\ \A v \in DOMAIN G :
             /\ G[v] \in Seq([v : DOMAIN G, t : Int])
             /\ \A k \in 1..Len(G[v]) : \E row \in RowsOf(path) :
                    row.t = G[v][k].t /\ LeadsBy(row, G[v][k].v, v, d)
    BY GraphRight DEF Holds
<1>2. \A n \in Data(path) :
          /\ Row(path, n).u \in DOMAIN G /\ Row(path, n).v \in DOMAIN G
          /\ \E k \in 1..Len(G[Row(path, n).v]) : TRUE
          /\ ~d => \E k \in 1..Len(G[Row(path, n).u]) : TRUE
  <2> SUFFICES ASSUME NEW n \in Data(path)
               PROVE  /\ Row(path, n).u \in DOMAIN G /\ Row(path, n).v \in DOMAIN G
                      /\ \E k \in 1..Len(G[Row(path, n).v]) : TRUE
                      /\ ~d => \E k \in 1..Len(G[Row(path, n).u]) : TRUE
      OBVIOUS
  <2> DEFINE A(k) == G[Row(path, n).v][k] = [v |-> Row(path, n).u, t |-> Row(path, n).t]
             B(k) == G[Row(path, n).u][k] = [v |-> Row(path, n).v, t |-> Row(path, n).t]
  <2>1. /\ Row(path, n).u \in DOMAIN G /\ Row(path, n).v \in DOMAIN G
        /\ \E k \in 1..Len(G[Row(path, n).v]) : A(k)
        /\ ~d => \E k \in 1..Len(G[Row(path, n).u]) : B(k)
      BY GraphRight, Zenon DEF Holds
  <2> QED
      BY <2>1, Zenon
<1>3. RowsOf(path) = {Row(path, n) : n \in Data(path)}
    BY DataRight
<1> HIDE DEF G
<1>4. \A v \in DOMAIN G : Len(G[v]) \in Nat
    BY <1>1
<1>5. ASSUME NEW v \in S PROVE v \in DOMAIN G /\ Len(G[v]) > 0
  <2>1. PICK n \in Data(path) : v = Row(path, n).v \/ (~d /\ v = Row(path, n).u)
      BY <1>3 DEF SourcesOf
  <2>2. v \in DOMAIN G /\ \E k \in 1..Len(G[v]) : TRUE
      BY <1>2, <2>1
  <2> QED
      BY <1>4, <2>2
<1>6. ASSUME NEW v \in DOMAIN G, Len(G[v]) > 0 PROVE v \in S
  <2>1. 1 \in 1..Len(G[v])
      BY <1>4, <1>6
  <2>2. PICK row \in RowsOf(path) : LeadsBy(row, G[v][1].v, v, d)
      BY <1>1, <2>1
  <2> QED
      BY <2>2 DEF LeadsBy, SourcesOf
<1>7. S = {v \in DOMAIN G : Len(G[v]) > 0}
    BY <1>5, <1>6
<1>8. DOMAIN G \subseteq Nat /\ IsFiniteSet(DOMAIN G)
    BY <1>1, FS_Interval
<1> QED
    BY <1>7, <1>8, FS_Subset DEF G

Nth(S, n) == CHOOSE v \in S : Cardinality({w \in S : w < v}) = n

LEMMA NthIn ==
    ASSUME NEW S, IsFiniteSet(S), S \subseteq Int, NEW n \in 0..Cardinality(S) - 1
    PROVE  Nth(S, n) \in S
<1>1. Cardinality(S) \in Nat /\ \A i \in 1..Cardinality(S) : Sorted(S)[i] \in S
    BY SortedRight
<1>2. n + 1 \in 1..Cardinality(S) /\ (n + 1) - 1 = n
    BY <1>1
<1>3. Sorted(S)[n + 1] = CHOOSE x \in S : Cardinality({y \in S : y < x}) = (n + 1) - 1
    BY <1>2 DEF Sorted
<1>4. Sorted(S)[n + 1] = Nth(S, n)
    BY <1>2, <1>3 DEF Nth
<1> QED
    BY <1>1, <1>2, <1>4

(* The vertices of S, wpn times each. *)
StartList(list, S, wpn) ==
    /\ Cardinality(S) \in Nat /\ Cardinality(S) * wpn \in Nat
    /\ list \in Seq(S) /\ Len(list) = Cardinality(S) * wpn
    /\ \A w \in 0..Cardinality(S) * wpn - 1 : list[w + 1] = Nth(S, w \div wpn)

LEMMA StartsRight ==
    ASSUME NEW G, NEW S, S = {v \in DOMAIN G : Len(G[v]) > 0}, IsFiniteSet(S), S \subseteq Int,
           NEW wpn \in Nat, wpn > 0
    PROVE  StartList(make_all_nodes_starts(G, wpn), S, wpn)
<1> DEFINE list == make_all_nodes_starts(G, wpn)
           n == Cardinality(S)
           m == n * wpn
<1>1. n \in Nat /\ m \in Nat
  <2>1. n \in Nat
      BY FS_CardinalityType
  <2> HIDE DEF n
  <2> QED
      BY <2>1
<1>2. list = [k \in 1..m |-> Nth(S, (k - 1) \div wpn)]
  <2> DEFINE T == {v \in DOMAIN G : Len(G[v]) > 0}
  <2>1. list = [k \in 1..Cardinality(T) * wpn |-> Nth(T, (k - 1) \div wpn)]
      BY Zenon DEF make_all_nodes_starts, Nth
  <2>2. T = S
      OBVIOUS
  <2> HIDE DEF T, list
  <2> QED
      BY <2>1, <2>2, Zenon
<1> HIDE DEF list
<1>3. ASSUME NEW w \in 0..m - 1 PROVE Nth(S, w \div wpn) \in S
  <2> DEFINE q == w \div wpn
  <2>1. w \in Nat /\ w < m
      BY <1>1
  <2>2. q \in Nat /\ q * wpn \in Nat /\ q * wpn <= w
      BY <2>1, QuotientRight
  <2> HIDE DEF q
  <2>3. q < n
    <3> HIDE DEF n
    <3>1. ASSUME n <= q PROVE FALSE
      <4>1. n * wpn <= q * wpn
          BY <1>1, <2>2, <3>1, TimesMonotone
      <4> QED
          BY <1>1, <2>1, <2>2, <4>1
    <3> QED
        BY <1>1, <2>2, <3>1
  <2>4. q \in 0..n - 1
      BY <1>1, <2>2, <2>3
  <2>5. Nth(S, q) \in S
      BY <2>4, NthIn
  <2> QED
      BY <2>5 DEF q
<1> HIDE DEF m
<1>4. \A k \in 1..m : k - 1 \in 0..m - 1
    BY <1>1
<1>5. list \in [1..m -> S]
    BY <1>2, <1>3, <1>4
<1>6. list \in Seq(S) /\ Len(list) = m
    BY <1>1, <1>5, ListIsSeq
<1>7. ASSUME NEW w \in 0..m - 1 PROVE list[w + 1] = Nth(S, w \div wpn)
  <2>1. w + 1 \in 1..m /\ (w + 1) - 1 = w
      BY <1>1
  <2>2. list[w + 1] = Nth(S, ((w + 1) - 1) \div wpn)
      BY <1>2, <2>1
  <2> QED
      BY <2>1, <2>2
<1> QED
    BY <1>1, <1>6, <1>7 DEF StartList, list, m, n

-----------------------------------------------------------------------------
(* The walks from a vertex: the recursion of CompleteWalks with its parts  *)
(* named.                                                                  *)
FirstCell(v) == [v |-> v, t |-> kSentinelStartTimestamp]
Extended(w, n) ==
    IF Len(w) < n - 1 \/ Hops(w[Len(w)]) = {} THEN {w}
    ELSE {Append(w, s) : s \in Hops(w[Len(w)])}
WalksStep(g, v, n) ==
    IF n = 1 THEN {<<FirstCell(v)>>} ELSE UNION {Extended(w, n) : w \in g[n - 1]}
WalksTo(v) == CHOOSE g : g = [n \in 1..args.max_walk_len |-> WalksStep(g, v, n)]

LEMMA CompleteAre ==
    ASSUME NEW v
    PROVE  CompleteWalks(v) = WalksTo(v)[args.max_walk_len]
BY Zenon DEF CompleteWalks, WalksTo, WalksStep, Extended, FirstCell

LEMMA WalksDefined ==
    ASSUME NEW v, args.max_walk_len \in Nat
    PROVE  \A n \in 1..args.max_walk_len : WalksTo(v)[n] = WalksStep(WalksTo(v), v, n)
<1> DEFINE L == args.max_walk_len
           T == {m \in Nat : \E g : \A n \in 1..m : g[n] = WalksStep(g, v, n)}
<1>1. 0 \in T
    OBVIOUS
<1>2. ASSUME NEW m \in Nat, m \in T PROVE m + 1 \in T
  <2>1. PICK g : \A n \in 1..m : g[n] = WalksStep(g, v, n)
      BY <1>2
  <2> DEFINE h == [n \in 1..m + 1 |-> IF n <= m THEN g[n] ELSE WalksStep(g, v, n)]
  <2>2. ASSUME NEW n \in 1..m + 1 PROVE h[n] = WalksStep(h, v, n)
    <3>1. n # 1 => n - 1 \in 1..m + 1 /\ n - 1 <= m
        OBVIOUS
    <3>2. h[n] = WalksStep(g, v, n) /\ (n # 1 => h[n - 1] = g[n - 1])
        BY <2>1, <3>1
    <3> HIDE DEF h
    <3> QED
        BY <3>2 DEF WalksStep
  <2> HIDE DEF h
  <2>3. \A n \in 1..m + 1 : h[n] = WalksStep(h, v, n)
      BY <2>2
  <2> QED
      BY <2>3
<1> HIDE DEF T
<1>3. L \in T
    BY <1>1, <1>2, SetInduction
<1>4. PICK g : \A n \in 1..L : g[n] = WalksStep(g, v, n)
    BY <1>3 DEF T
<1> HIDE DEF L
<1> DEFINE f == [n \in 1..L |-> g[n]]
<1>5. L \in Nat
    BY DEF L
<1>6. ASSUME NEW n \in 1..L PROVE f[n] = WalksStep(f, v, n)
  <2>1. n # 1 => n - 1 \in 1..L
      BY <1>5
  <2>2. f[n] = WalksStep(g, v, n) /\ (n # 1 => f[n - 1] = g[n - 1])
      BY <1>4, <2>1
  <2> HIDE DEF f
  <2> QED
      BY <2>2 DEF WalksStep
<1>7. f = [n \in 1..L |-> WalksStep(f, v, n)]
  <2>1. f = [n \in 1..L |-> f[n]]
      OBVIOUS
  <2> HIDE DEF f
  <2> QED
      BY <1>6, <2>1
<1> HIDE DEF f
<1> DEFINE F == WalksTo(v)
<1>8. F = [n \in 1..L |-> WalksStep(F, v, n)]
    BY <1>7, Zenon DEF WalksTo, L
<1> HIDE DEF F
<1>9. \A n \in 1..L : F[n] = WalksStep(F, v, n)
    BY <1>8
<1> QED
    BY <1>9 DEF F, L

(* A list holds vertices of the graph. *)
ListsTyped == \A v \in DOMAIN graph : graph[v] \in Seq([v : DOMAIN graph, t : Int])
Cells == [v : DOMAIN graph, t : Int]

LEMMA HopsIn ==
    ASSUME ListsTyped, NEW s \in Cells, NEW x \in Hops(s)
    PROVE  /\ x \in Cells /\ x.t < s.t
           /\ \E k \in 1..Len(graph[s.v]) : graph[s.v][k] = x
<1> DEFINE list == graph[s.v]
           weights == compute_weights_full(index.bias, [k \in DOMAIN list |-> list[k].t])
<1>1. PICK k \in DOMAIN list : x = list[k] /\ list[k].t < s.t
    BY DEF Hops
<1>2. list \in Seq(Cells)
    BY DEF ListsTyped, Cells
<1> HIDE DEF list
<1>3. DOMAIN list = 1..Len(list) /\ Len(list) \in Nat
    BY <1>2, LenProperties
<1>4. list[k] \in Cells
    BY <1>1, <1>2, <1>3, ElementOfSeq
<1> QED
    BY <1>1, <1>3, <1>4 DEF list

(* A walk from v of at most n cells, each a hop from the one before. *)
WalkFrom(w, v, n) ==
    /\ w \in Seq(Cells) /\ Len(w) \in 1..n /\ w[1] = FirstCell(v)
    /\ \A k \in 2..Len(w) : w[k] \in Hops(w[k - 1])

LEMMA WalksRight ==
    ASSUME ListsTyped, args.max_walk_len \in Nat \ {0}, NEW v \in DOMAIN graph
    PROVE  \A w \in CompleteWalks(v) : WalkFrom(w, v, args.max_walk_len)
<1> DEFINE L == args.max_walk_len
           F == WalksTo(v)
           T == {m \in Nat : \A n \in 1..L : n <= m => \A w \in F[n] : WalkFrom(w, v, n)}
<1>1. L \in Nat \ {0} /\ \A n \in 1..L : F[n] = WalksStep(F, v, n)
    BY WalksDefined
<1> HIDE DEF L, F
<1>2. 0 \in T
    BY <1>1
<1>3. ASSUME NEW m \in Nat, m \in T PROVE m + 1 \in T
  <2> SUFFICES ASSUME NEW n \in 1..L, n = m + 1, NEW w \in F[n] PROVE WalkFrom(w, v, n)
      BY <1>1, <1>3
  <2>1. CASE n = 1
    <3>1. w = <<FirstCell(v)>>
        BY <1>1, <2>1 DEF WalksStep
    <3>2. FirstCell(v) \in Cells
        BY ProgramsAssumption DEF FirstCell, Cells
    <3>3. w \in Seq(Cells) /\ Len(w) = 1 /\ w[1] = FirstCell(v)
        BY <3>1, <3>2
    <3> QED
        BY <2>1, <3>3 DEF WalkFrom
  <2>2. CASE n # 1
    <3>1. n - 1 \in 1..L /\ n - 1 <= m /\ n \in Nat
        BY <1>1, <2>2
    <3>2. PICK p \in F[n - 1] : w \in Extended(p, n)
      <4>1. F[n] = UNION {Extended(p, n) : p \in F[n - 1]}
          BY <1>1, <2>2 DEF WalksStep
      <4> QED
          BY <4>1
    <3>3. WalkFrom(p, v, n - 1)
        BY <1>3, <3>1, <3>2
    <3>4. /\ p \in Seq(Cells) /\ Len(p) \in 1..n - 1 /\ p[1] = FirstCell(v)
          /\ \A k \in 2..Len(p) : p[k] \in Hops(p[k - 1])
        BY <3>3 DEF WalkFrom
    <3>5. CASE w = p
        BY <3>1, <3>4, <3>5 DEF WalkFrom
    <3>6. CASE w # p
      <4>1. PICK s \in Hops(p[Len(p)]) : w = Append(p, s)
          BY <3>2, <3>6 DEF Extended
      <4>2. p[Len(p)] \in Cells
          BY <3>4
      <4>3. s \in Cells
          BY <4>1, <4>2, HopsIn
      <4>4. /\ w \in Seq(Cells) /\ Len(w) = Len(p) + 1
            /\ \A k \in 1..Len(p) : w[k] = p[k]
            /\ w[Len(p) + 1] = s
          BY <3>4, <4>1, <4>3, AppendProperties
      <4>5. ASSUME NEW k \in 2..Len(w) PROVE w[k] \in Hops(w[k - 1])
        <5>1. k - 1 \in 1..Len(p) /\ (k \in 2..Len(p) \/ k = Len(p) + 1)
            BY <3>4, <4>4
        <5>2. w[k - 1] = p[k - 1]
            BY <4>4, <5>1
        <5>3. CASE k \in 2..Len(p)
            BY <3>4, <4>4, <5>1, <5>2, <5>3
        <5>4. CASE k = Len(p) + 1
          <6>1. k - 1 = Len(p)
              BY <3>4, <5>4
          <6> QED
              BY <4>1, <4>4, <5>2, <5>4, <6>1
        <5> QED
            BY <5>1, <5>3, <5>4
      <4>6. Len(w) \in 1..n /\ w[1] = FirstCell(v)
          BY <3>1, <3>4, <4>4
      <4> QED
          BY <4>4, <4>5, <4>6 DEF WalkFrom
    <3> QED
        BY <3>5, <3>6
  <2> QED
      BY <2>1, <2>2
<1> HIDE DEF T
<1>4. L \in T
    BY <1>1, <1>2, <1>3, SetInduction
<1>5. \A w \in F[L] : WalkFrom(w, v, L)
    BY <1>1, <1>4 DEF T
<1> QED
    BY <1>5, CompleteAre DEF F, L

-----------------------------------------------------------------------------
(* The inductive invariant: what holds at each stage of a program.         *)
HelpFlags == {"--help", "-h"}
CatchCode == IF program = "tea_walk" THEN 2 ELSE 1

Unread == edges = <<>> /\ graph = <<>>
NotRun == /\ starts = <<>> /\ walks_out = <<>> /\ walk_lens_out = <<>> /\ next = 0
          /\ stats = NoStats /\ report = NoReport
Parsed == argv # <<>> /\ argv[1] \notin HelpFlags /\ args = CliArgs /\ Valid(args)
Loaded == /\ Parsed /\ Readable(args.file_path)
          /\ edges = read_edges_csv(args.file_path)
          /\ graph = GraphOf(args.file_path, args.is_directed)

(* Walk w is made: its cells go back in time along entries of the graph.   *)
WalkMade(w) ==
    LET n == walk_lens_out[w]
        cell == walks_out[w]
    IN  /\ n \in 1..args.max_walk_len
        /\ cell[1] = FirstCell(starts[w + 1])
        /\ \A k \in 1..n : cell[k] \in Cells
        /\ \A k \in 2..n : /\ cell[k].t < cell[k - 1].t
                          /\ \E j \in 1..Len(graph[cell[k - 1].v]) :
                                 graph[cell[k - 1].v][j] = cell[k]
        /\ \A k \in n + 1..args.max_walk_len : cell[k].v = kWalkDeadSentinel

(* The buffers hold the first m walks, and nothing after them. *)
Walks == 0..num_walks - 1
Buffers(m) ==
    /\ starts = make_all_nodes_starts(graph, args.num_walks_per_node)
    /\ walk_lens_out \in [Walks -> 0..args.max_walk_len] /\ DOMAIN walks_out = Walks
    /\ \A w \in Walks : IF w < m THEN WalkMade(w) ELSE walk_lens_out[w] = 0

(* The engine makes no walk when the number it is called with is negative. *)
MadeTotal == IF EngineWalks > 0 THEN EngineWalks ELSE 0
Returned ==
    /\ Loaded /\ Buffers(MadeTotal)
    /\ stats = [num_walks |-> EngineWalks,
                total_steps |-> SumFunction(walk_lens_out),
                dead_at_start |-> Cardinality({w \in 0..MadeTotal - 1 : walk_lens_out[w] <= 1})]

AtParse == /\ pc \in {"parse", "exit"} /\ args = NoArgs /\ Unread /\ NotRun
           /\ exit_code = 0 => argv[1] \in HelpFlags
AtLoad == /\ pc \in {"load", "exit"} /\ Parsed /\ Unread /\ NotRun
          /\ pc = "exit" => exit_code = CatchCode
AtRun == /\ pc \in {"run", "exit"} /\ Loaded /\ NotRun
         /\ pc = "exit" => exit_code = CatchCode
AtWalk == /\ pc = "walk" /\ Loaded /\ next \in 0..MadeTotal /\ Buffers(next)
          /\ stats = NoStats /\ report = NoReport
AtReport == /\ pc = "report" /\ program = "tea_walk" /\ Returned
            /\ next = 0 /\ report = NoReport
AtVerify == /\ pc = "verify" /\ program = "tea_verify_walks" /\ Returned
            /\ next \in 0..num_walks /\ report = NoReport
            /\ \A w \in 0..next - 1 : verify_walk(w)
Left == /\ pc = "exit" /\ exit_code = 0 /\ program = "tea_walk" /\ Loaded
        /\ Buffers(0) /\ starts = <<>> /\ next = 0 /\ stats = NoStats /\ report = NoReport
Reported ==
    /\ pc = "exit" /\ exit_code = 0 /\ program = "tea_walk" /\ Returned /\ next = 0
    /\ report = [scheduled |-> num_walks, done |-> stats.num_walks,
                 total_steps |-> stats.total_steps,
                 dead_at_start |-> IF args.picker = "temporal_node2vec" THEN -1
                                   ELSE stats.dead_at_start]
Verified ==
    /\ pc = "exit" /\ exit_code \in {0, 2} /\ program = "tea_verify_walks" /\ Returned
    /\ next \in 0..num_walks /\ report = NoReport
    /\ \A w \in 0..next - 1 : verify_walk(w)
    /\ IF exit_code = 0 THEN next = num_walks ELSE next < num_walks /\ ~verify_walk(next)

IInv == /\ program \in Programs /\ argv \in ArgVs
        /\ exit_code \in -1..2 /\ (exit_code = -1 <=> pc # "exit")
        /\ \/ AtParse \/ AtLoad \/ AtRun \/ AtWalk \/ AtReport \/ AtVerify
           \/ Left \/ Reported \/ Verified

-----------------------------------------------------------------------------
(* What the arguments and the graph are, once read. *)
LEMMA ParsedFacts ==
    ASSUME argv \in ArgVs, Parsed
    PROVE  /\ args.max_walk_len \in Nat /\ args.max_walk_len > 0
           /\ args.num_walks_per_node \in Nat /\ args.num_walks_per_node > 0
           /\ args.is_directed \in BOOLEAN /\ args.file_path = argv[1]
           /\ args.picker \in Pickers /\ args # NoArgs
<1>1. /\ args.max_walk_len = Arg(6, kDefaultMaxWalkLen)
      /\ args.num_walks_per_node = Arg(5, kDefaultWalksPerNode)
      /\ args.is_directed = (Arg(4, 1) # 0) /\ args.file_path = argv[1]
    BY DEF Parsed, CliArgs
<1>2. Arg(6, kDefaultMaxWalkLen) \in Int /\ Arg(5, kDefaultWalksPerNode) \in Int
    BY ProgramsAssumption DEF Arg
<1>3. args.max_walk_len > 0 /\ args.num_walks_per_node > 0 /\ args.picker \in Pickers
    BY DEF Parsed, Valid
<1>4. args # NoArgs
    BY <1>3 DEF NoArgs
<1> QED
    BY <1>1, <1>2, <1>3, <1>4

LEMMA LoadedFacts ==
    ASSUME argv \in ArgVs, Loaded
    PROVE  /\ ListsTyped /\ DOMAIN graph \subseteq Nat
           /\ \A v \in DOMAIN graph : \A k \in 1..Len(graph[v]) : \E row \in RowsOf(args.file_path) :
                  row.t = graph[v][k].t /\ LeadsTo(row, graph[v][k].v, v)
           /\ Sources = {v \in DOMAIN graph : Len(graph[v]) > 0}
           /\ IsFiniteSet(Sources) /\ Sources \subseteq DOMAIN graph
<1> DEFINE path == args.file_path
           d == args.is_directed
<1>1. d \in BOOLEAN /\ Readable(path) /\ graph = GraphOf(path, d)
    BY ParsedFacts DEF Loaded
<1>2. Sources = SourcesOf(path, d)
    BY DEF Sources, SourcesOf
<1>3. \A row, x, y : LeadsTo(row, x, y) <=> LeadsBy(row, x, y, d)
    BY DEF LeadsTo, LeadsBy
<1> HIDE DEF path, d
<1>4. \A v \in DOMAIN graph :
          /\ graph[v] \in Seq([v : DOMAIN graph, t : Int])
          /\ \A k \in 1..Len(graph[v]) : \E row \in RowsOf(path) :
                 row.t = graph[v][k].t /\ LeadsBy(row, graph[v][k].v, v, d)
  <2>1. Holds(graph, path, d)
      BY <1>1, GraphRight
  <2> QED
      BY <2>1, Zenon DEF Holds
<1>5. /\ SourcesOf(path, d) = {v \in DOMAIN graph : Len(graph[v]) > 0}
      /\ IsFiniteSet(SourcesOf(path, d)) /\ SourcesOf(path, d) \subseteq DOMAIN graph
      /\ DOMAIN graph \subseteq Nat
    BY <1>1, SourcesRight
<1>6. \A v \in DOMAIN graph : \A k \in 1..Len(graph[v]) : \E row \in RowsOf(path) :
          row.t = graph[v][k].t /\ LeadsTo(row, graph[v][k].v, v)
    BY <1>3, <1>4
<1> QED
    BY <1>2, <1>4, <1>5, <1>6 DEF ListsTyped, path

(* Which walks are asked for, and how many the engine makes of them. *)
LEMMA StartsFacts ==
    ASSUME argv \in ArgVs, Loaded,
           starts = make_all_nodes_starts(graph, args.num_walks_per_node)
    PROVE  /\ num_walks \in Nat /\ DOMAIN starts = 1..num_walks
           /\ Scheduled = Walks /\ IsFiniteSet(Walks) /\ Cardinality(Scheduled) = num_walks
           /\ \A k \in DOMAIN starts : starts[k] \in DOMAIN graph
           /\ \A w \in Walks : w + 1 \in DOMAIN starts /\ starts[w + 1] = StartOf(w)
           /\ EngineWalks \in Int /\ EngineWalks <= num_walks /\ MadeTotal \in 0..num_walks
           /\ num_walks = 0 => EngineWalks = 0
<1> DEFINE n == Cardinality(Sources)
           wpn == args.num_walks_per_node
           total == n * wpn
<1>1. wpn \in Nat /\ wpn > 0
    BY ParsedFacts DEF Loaded
<1>2. /\ Sources = {v \in DOMAIN graph : Len(graph[v]) > 0}
      /\ IsFiniteSet(Sources) /\ Sources \subseteq DOMAIN graph /\ Sources \subseteq Int
    BY LoadedFacts
<1>3. /\ total \in Nat /\ starts \in Seq(Sources) /\ Len(starts) = total
      /\ \A w \in 0..total - 1 : starts[w + 1] = Nth(Sources, w \div wpn)
  <2> HIDE DEF wpn
  <2>1. StartList(make_all_nodes_starts(graph, wpn), Sources, wpn)
      BY <1>1, <1>2, StartsRight
  <2> QED
      BY <2>1, Zenon DEF StartList, wpn
<1>4. Scheduled = 0..total - 1
    BY DEF Scheduled
<1>5. \A w : Nth(Sources, w \div wpn) = StartOf(w)
    BY Zenon DEF Nth, StartOf
<1> HIDE DEF total, wpn
<1>6. num_walks = total /\ Walks = 0..total - 1 /\ DOMAIN starts = 1..total
    BY <1>3 DEF num_walks, Walks
<1>7. \A k \in DOMAIN starts : starts[k] \in DOMAIN graph
    BY <1>2, <1>3
<1>8. \A w \in Walks : w + 1 \in DOMAIN starts /\ starts[w + 1] = StartOf(w)
    BY <1>3, <1>5, <1>6
<1>9. IsFiniteSet(Walks) /\ Cardinality(Walks) = total
    BY <1>3, <1>6, IntervalSize
<1>10. /\ EngineWalks \in Int /\ EngineWalks <= total
       /\ total = 0 => EngineWalks = 0
  <2>1. EngineWalks = Int32(total) /\ total >= 0 /\ total \in Int
      BY <1>3, <1>6 DEF EngineWalks
  <2> QED
      BY <2>1, Int32Right
<1>11. MadeTotal \in 0..total
    BY <1>3, <1>10 DEF MadeTotal
<1> QED
    BY <1>3, <1>4, <1>6, <1>7, <1>8, <1>9, <1>10, <1>11

LEMMA MadeTotalTyped ==
    /\ argv \in ArgVs /\ Loaded
    /\ starts = make_all_nodes_starts(graph, args.num_walks_per_node)
    => MadeTotal \in Nat
BY StartsFacts

(* A walk is real, and passes the verifier, if and only if it was made. *)
LEMMA MadeIsReal ==
    ASSUME argv \in ArgVs, Loaded, NEW m \in Int, Buffers(m), NEW w \in Walks
    PROVE  /\ RealWalk(w) <=> w < m
           /\ verify_walk(w) <=> w < m
<1> DEFINE n == walk_lens_out[w]
           cell == walks_out[w]
           L == args.max_walk_len
<1>1. /\ ListsTyped /\ DOMAIN graph \subseteq Nat
      /\ \A v \in DOMAIN graph : \A k \in 1..Len(graph[v]) : \E row \in RowsOf(args.file_path) :
             row.t = graph[v][k].t /\ LeadsTo(row, graph[v][k].v, v)
    BY LoadedFacts
<1>2. L \in Nat /\ L > 0 /\ n \in 0..L /\ w \in DOMAIN walk_lens_out /\ w \in Int
    BY ParsedFacts DEF Loaded, Buffers, Walks
<1>3. starts[w + 1] = StartOf(w)
    BY StartsFacts DEF Buffers
<1>4. ASSUME w < m PROVE RealWalk(w) /\ verify_walk(w)
  <2>1. /\ n \in 1..L
        /\ cell[1] = [v |-> StartOf(w), t |-> kSentinelStartTimestamp]
        /\ \A k \in 1..n : cell[k] \in Cells
        /\ \A k \in 2..n : /\ cell[k].t < cell[k - 1].t
                          /\ \E j \in 1..Len(graph[cell[k - 1].v]) :
                                 graph[cell[k - 1].v][j] = cell[k]
        /\ \A k \in n + 1..L : cell[k].v = kWalkDeadSentinel
      BY <1>3, <1>4 DEF Buffers, WalkMade, FirstCell
  <2> HIDE DEF n, cell, L
  <2>2. ASSUME NEW k \in 2..n
        PROVE  /\ cell[k].v # kWalkDeadSentinel
               /\ edge_in_inbound(cell[k - 1].v, cell[k])
               /\ \E row \in RowsOf(args.file_path) :
                      row.t = cell[k].t /\ LeadsTo(row, cell[k].v, cell[k - 1].v)
    <3>1. k \in 1..n /\ k - 1 \in 1..n
        BY <1>2
    <3>2. cell[k] \in Cells /\ cell[k - 1].v \in DOMAIN graph /\ cell[k].v \in DOMAIN graph
        BY <2>1, <3>1 DEF Cells
    <3>3. PICK j \in 1..Len(graph[cell[k - 1].v]) : graph[cell[k - 1].v][j] = cell[k]
        BY <2>1
    <3>4. j \in DOMAIN graph[cell[k - 1].v]
      <4>1. graph[cell[k - 1].v] \in Seq(Cells)
          BY <1>1, <3>2 DEF ListsTyped, Cells
      <4> QED
          BY <3>3, <4>1, LenProperties
    <3>5. edge_in_inbound(cell[k - 1].v, cell[k])
        BY <3>3, <3>4 DEF edge_in_inbound
    <3>6. \E row \in RowsOf(args.file_path) :
              row.t = cell[k].t /\ LeadsTo(row, cell[k].v, cell[k - 1].v)
        BY <1>1, <3>2, <3>3
    <3>7. cell[k].v # kWalkDeadSentinel
        BY <1>1, <3>2 DEF kWalkDeadSentinel
    <3> QED
        BY <3>5, <3>6, <3>7
  <2>3. RealWalk(w)
      BY <1>2, <2>1, <2>2 DEF RealWalk, n, cell, L
  <2>4. cell[1].t = kSentinelStartTimestamp
      BY <2>1
  <2>5. verify_walk(w)
      BY <2>1, <2>2, <2>4 DEF verify_walk, n, cell, L
  <2> QED
      BY <2>3, <2>5
<1>5. ASSUME ~(w < m) PROVE ~RealWalk(w) /\ ~verify_walk(w)
  <2>1. n = 0
      BY <1>5 DEF Buffers
  <2> QED
      BY <2>1 DEF RealWalk, verify_walk
<1> QED
    BY <1>4, <1>5

-----------------------------------------------------------------------------
(* IInv is an invariant: one lemma for each part of Next. *)
LEMMA InvInit == Init => IInv
BY DEF Init, IInv, AtParse, Unread, NotRun

LEMMA InvStutter == IInv /\ UNCHANGED vars => IInv'
<1> SUFFICES ASSUME IInv, UNCHANGED vars PROVE IInv'
    OBVIOUS
<1>1. /\ program' = program /\ argv' = argv /\ pc' = pc /\ args' = args /\ edges' = edges
      /\ graph' = graph /\ starts' = starts /\ next' = next /\ walks_out' = walks_out
      /\ walk_lens_out' = walk_lens_out /\ stats' = stats /\ report' = report
      /\ exit_code' = exit_code
    BY DEF vars, command, engine
<1>2. (Parsed => Parsed') /\ (Unread => Unread') /\ (NotRun => NotRun') /\ CatchCode' = CatchCode
    BY <1>1 DEF Parsed, Unread, NotRun, CliArgs, Arg, CatchCode
<1>3. Loaded => Loaded'
    BY <1>1, <1>2 DEF Loaded
<1>4. /\ Walks' = Walks /\ MadeTotal' = MadeTotal /\ num_walks' = num_walks
      /\ EngineWalks' = EngineWalks
    BY <1>1 DEF Walks, MadeTotal, num_walks, EngineWalks
<1>5. ASSUME NEW w, WalkMade(w) PROVE WalkMade(w)'
    BY <1>1, <1>5 DEF WalkMade, Cells
<1>6. ASSUME NEW w PROVE verify_walk(w)' <=> verify_walk(w)
    BY <1>1 DEF verify_walk, edge_in_inbound
<1>7. /\ Buffers(0) => Buffers(0)'
      /\ Buffers(next) => Buffers(next)'
      /\ Returned => Returned'
    BY <1>1, <1>3, <1>4, <1>5 DEF Buffers, Returned
<1>8. /\ AtParse => AtParse'
      /\ AtLoad => AtLoad'
      /\ AtRun => AtRun'
      /\ AtWalk => AtWalk'
      /\ AtReport => AtReport'
      /\ Left => Left'
      /\ Reported => Reported'
    BY <1>1, <1>2, <1>3, <1>4, <1>7 DEF AtParse, AtLoad, AtRun, AtWalk, AtReport, Left, Reported
<1>9. (AtVerify => AtVerify') /\ (Verified => Verified')
    BY <1>1, <1>3, <1>4, <1>6, <1>7 DEF AtVerify, Verified
<1> QED
    BY <1>1, <1>8, <1>9 DEF IInv

LEMMA InvParse == IInv /\ parse_cli_args => IInv'
<1> SUFFICES ASSUME IInv, parse_cli_args PROVE IInv'
    OBVIOUS
<1>1. AtParse /\ pc = "parse"
    BY DEF IInv, parse_cli_args, AtParse, AtLoad, AtRun, AtWalk, AtReport, AtVerify, Left,
           Reported, Verified
<1>2. /\ program' = program /\ argv' = argv /\ Unread' /\ NotRun'
    BY <1>1 DEF parse_cli_args, AtParse, Unread, NotRun, command, engine
<1>3. /\ program' \in Programs /\ argv' \in ArgVs
    BY <1>2 DEF IInv
<1>4. CASE /\ pc' = "exit" /\ exit_code' \in 0..2 /\ args' = args
           /\ exit_code' = 0 => argv[1] \in HelpFlags
    BY <1>1, <1>2, <1>3, <1>4 DEF IInv, AtParse
<1>5. CASE /\ pc' = "load" /\ exit_code' = exit_code /\ args' = CliArgs /\ Valid(CliArgs)
           /\ argv # <<>> /\ argv[1] \notin HelpFlags
  <2>1. CliArgs' = CliArgs
      BY <1>2 DEF CliArgs, Arg
  <2>2. Parsed'
      BY <1>2, <1>5, <2>1 DEF Parsed, HelpFlags, Valid
  <2> QED
      BY <1>1, <1>2, <1>3, <1>5, <2>2 DEF IInv, AtParse, AtLoad
<1> QED
  <2>1. \/ argv = <<>> /\ Exit(1) /\ UNCHANGED args
        \/ argv # <<>> /\ argv[1] \in {"--help", "-h"} /\ Exit(0) /\ UNCHANGED args
        \/ /\ argv # <<>> /\ argv[1] \notin {"--help", "-h"}
           /\ IF Valid(CliArgs) THEN Goto("load") /\ args' = CliArgs
                                ELSE Catch /\ UNCHANGED args
      BY DEF parse_cli_args
  <2> QED
      BY <1>4, <1>5, <2>1 DEF Exit, Goto, Catch, HelpFlags

LEMMA InvLoad == IInv /\ (LoadFile \/ RejectFile) => IInv'
<1> SUFFICES ASSUME IInv, LoadFile \/ RejectFile PROVE IInv'
    OBVIOUS
<1>1. AtLoad /\ pc = "load"
    BY DEF IInv, LoadFile, RejectFile, AtParse, AtLoad, AtRun, AtWalk, AtReport, AtVerify, Left,
           Reported, Verified
<1>2. /\ program' = program /\ argv' = argv /\ args' = args /\ NotRun'
    BY <1>1 DEF LoadFile, RejectFile, AtLoad, NotRun, command, engine
<1>3. /\ program' \in Programs /\ argv' \in ArgVs /\ argv \in ArgVs
    BY <1>2 DEF IInv
<1>4. Parsed'
    BY <1>1, <1>2 DEF AtLoad, Parsed, CliArgs, Arg
<1>5. CASE LoadFile
  <2>1. /\ edges' = read_edges_csv(args.file_path) /\ Readable(args.file_path)
        /\ graph' = GraphOf(args.file_path, args.is_directed)
        /\ pc' = "run" /\ exit_code' = exit_code
      BY <1>5 DEF LoadFile, GraphOf, CallOf, Goto
  <2>2. Loaded'
      BY <1>2, <1>4, <2>1 DEF Loaded
  <2> QED
      BY <1>1, <1>2, <1>3, <2>1, <2>2 DEF IInv, AtRun
<1>6. CASE RejectFile
  <2>1. pc' = "exit" /\ exit_code' = CatchCode /\ Unread' /\ CatchCode' = CatchCode /\ CatchCode \in 1..2
      BY <1>1, <1>2, <1>6 DEF RejectFile, Catch, Exit, CatchCode, Unread, AtLoad
  <2> QED
      BY <1>2, <1>3, <1>4, <2>1 DEF IInv, AtLoad
<1> QED
    BY <1>5, <1>6

LEMMA InvOutOfMemory == IInv /\ OutOfMemory => IInv'
<1> SUFFICES ASSUME IInv, OutOfMemory PROVE IInv'
    OBVIOUS
<1>1. (pc = "load" /\ AtLoad) \/ (pc = "run" /\ AtRun)
    BY DEF IInv, OutOfMemory, AtParse, AtLoad, AtRun, AtWalk, AtReport, AtVerify, Left,
           Reported, Verified
<1>2. /\ program' = program /\ argv' = argv /\ args' = args /\ edges' = edges /\ graph' = graph
      /\ (NotRun => NotRun') /\ (Unread => Unread')
    BY DEF OutOfMemory, NotRun, Unread, command, engine
<1>3. (Parsed => Parsed') /\ (Loaded => Loaded')
    BY <1>2 DEF Parsed, Loaded, CliArgs, Arg
<1>4. /\ pc' = "exit" /\ exit_code' = CatchCode /\ CatchCode' = CatchCode /\ CatchCode \in 1..2
      /\ program' \in Programs /\ argv' \in ArgVs
    BY <1>2 DEF OutOfMemory, Catch, Exit, CatchCode, IInv
<1> QED
    BY <1>1, <1>2, <1>3, <1>4 DEF IInv, AtLoad, AtRun

Runs == run_non_node2vec \/ run_node2vec \/ verify_non_node2vec \/ verify_node2vec

LEMMA InvRun == IInv /\ Runs => IInv'
<1> SUFFICES ASSUME IInv, Runs PROVE IInv'
    OBVIOUS
<1>1. AtRun /\ pc = "run" /\ Prepare
    BY DEF IInv, Runs, run_non_node2vec, run_node2vec, verify_non_node2vec, verify_node2vec,
           AtParse, AtLoad, AtRun, AtWalk, AtReport, AtVerify, Left, Reported, Verified
<1>2. \/ pc' = "walk" /\ exit_code' = exit_code
      \/ pc' = "exit" /\ exit_code' = 0 /\ starts' = <<>> /\ program = "tea_walk"
    BY DEF Runs, run_non_node2vec, run_node2vec, verify_non_node2vec, verify_node2vec, Exit, Goto
<1>3. /\ program' = program /\ argv' = argv /\ args' = args /\ edges' = edges /\ graph' = graph
      /\ next' = 0 /\ stats' = NoStats /\ report' = NoReport
    BY <1>1 DEF Prepare, AtRun, NotRun, command
<1>4. Loaded' /\ program' \in Programs /\ argv' \in ArgVs /\ argv \in ArgVs /\ Loaded
    BY <1>1, <1>3 DEF IInv, AtRun, Loaded, Parsed, CliArgs, Arg
<1>5. /\ starts' = make_all_nodes_starts(graph, args.num_walks_per_node)
      /\ walks_out' = [w \in 0..Len(starts') - 1 |->
                          [s \in 1..args.max_walk_len |-> [v |-> 0, t |-> 0]]]
      /\ walk_lens_out' = [w \in 0..Len(starts') - 1 |-> 0]
    BY <1>1 DEF Prepare
<1>6. /\ args'.max_walk_len \in Nat
      /\ MadeTotal' \in Nat
  <2>1. starts' = make_all_nodes_starts(graph', args'.num_walks_per_node)
      BY <1>3, <1>5
  <2>2. args'.max_walk_len \in Nat
      BY <1>3, <1>4, ParsedFacts DEF Loaded
  <2>3. (/\ argv \in ArgVs /\ Loaded
         /\ starts = make_all_nodes_starts(graph, args.num_walks_per_node)
         => MadeTotal \in Nat)'
      BY MadeTotalTyped, PTL
  <2> QED
      BY <1>4, <2>1, <2>2, <2>3
<1>7. Buffers(0)'
  <2>1. Walks' = 0..Len(starts') - 1
      BY DEF Walks, num_walks
  <2>2. walk_lens_out' \in [Walks' -> 0..args'.max_walk_len] /\ DOMAIN walks_out' = Walks'
      BY <1>5, <1>6, <2>1
  <2>3. \A w \in Walks' : ~(w < 0) /\ walk_lens_out'[w] = 0
      BY <1>5, <2>1
  <2> QED
      BY <1>3, <1>5, <2>2, <2>3 DEF Buffers
<1>8. CASE pc' = "walk" /\ exit_code' = exit_code
  <2>1. AtWalk'
      BY <1>3, <1>4, <1>6, <1>7, <1>8 DEF AtWalk
  <2> QED
      BY <1>1, <1>4, <1>8, <2>1 DEF IInv
<1>9. CASE pc' = "exit" /\ exit_code' = 0 /\ starts' = <<>> /\ program = "tea_walk"
  <2>1. Left'
      BY <1>3, <1>4, <1>7, <1>9 DEF Left
  <2> QED
      BY <1>4, <1>9, <2>1 DEF IInv
<1> QED
    BY <1>2, <1>8, <1>9

LEMMA InvWalk == IInv /\ Walk => IInv'
<1> SUFFICES ASSUME IInv, Walk PROVE IInv'
    OBVIOUS
<1> DEFINE L == args.max_walk_len
           v == starts[next + 1]
<1>1. AtWalk /\ pc = "walk" /\ argv \in ArgVs
    BY DEF IInv, Walk, AtParse, AtLoad, AtRun, AtWalk, AtReport, AtVerify, Left, Reported, Verified
<1>2. /\ program' = program /\ argv' = argv /\ pc' = pc /\ args' = args /\ edges' = edges
      /\ graph' = graph /\ starts' = starts /\ next' = next + 1 /\ stats' = stats
      /\ report' = report /\ exit_code' = exit_code /\ next < EngineWalks
    BY DEF Walk, command
<1>3. PICK walk \in CompleteWalks(v) :
          /\ walks_out' = [walks_out EXCEPT ![next] =
                 [s \in 1..L |-> IF s <= Len(walk) THEN walk[s]
                                 ELSE [v |-> kWalkDeadSentinel, t |-> 0]]]
          /\ walk_lens_out' = [walk_lens_out EXCEPT ![next] = Len(walk)]
    BY DEF Walk
<1>4. Loaded /\ Buffers(next) /\ next \in 0..MadeTotal
    BY <1>1 DEF AtWalk
<1>5. /\ num_walks \in Nat /\ EngineWalks \in Int /\ MadeTotal \in 0..num_walks
      /\ \A w \in Walks : w + 1 \in DOMAIN starts /\ starts[w + 1] \in DOMAIN graph
    BY <1>1, <1>4, StartsFacts DEF Buffers
<1>6. next \in Walks /\ next + 1 \in 0..MadeTotal /\ next \in Nat
    BY <1>2, <1>4, <1>5 DEF MadeTotal, Walks
<1>7. L \in Nat /\ L > 0 /\ ListsTyped
    BY <1>1, <1>4, ParsedFacts, LoadedFacts DEF Loaded
<1>8. WalkFrom(walk, v, L)
    BY <1>5, <1>6, <1>7, WalksRight
<1>9. /\ walk \in Seq(Cells) /\ Len(walk) \in 1..L /\ walk[1] = FirstCell(v)
      /\ \A k \in 2..Len(walk) : walk[k] \in Hops(walk[k - 1])
      /\ \A k \in 1..Len(walk) : walk[k] \in Cells
    BY <1>8, ElementOfSeq DEF WalkFrom
<1>10. ASSUME NEW k \in 2..Len(walk)
       PROVE  /\ walk[k].t < walk[k - 1].t
              /\ \E j \in 1..Len(graph[walk[k - 1].v]) : graph[walk[k - 1].v][j] = walk[k]
  <2>1. k - 1 \in 1..Len(walk)
      BY <1>9
  <2>2. walk[k - 1] \in Cells /\ walk[k] \in Hops(walk[k - 1])
      BY <1>9, <2>1
  <2> QED
      BY <1>7, <2>2, HopsIn
<1> DEFINE row == [s \in 1..L |-> IF s <= Len(walk) THEN walk[s]
                                  ELSE [v |-> kWalkDeadSentinel, t |-> 0]]
<1>11. /\ \A k \in 1..Len(walk) : row[k] = walk[k]
       /\ \A k \in Len(walk) + 1..L : row[k].v = kWalkDeadSentinel
    BY <1>7, <1>9
<1>12. /\ walk_lens_out \in [Walks -> 0..L] /\ DOMAIN walks_out = Walks
       /\ starts = make_all_nodes_starts(graph, args.num_walks_per_node)
       /\ \A w \in Walks : IF w < next THEN WalkMade(w) ELSE walk_lens_out[w] = 0
    BY <1>4 DEF Buffers
<1>13. /\ walks_out'[next] = row /\ walk_lens_out'[next] = Len(walk)
       /\ DOMAIN walks_out' = Walks /\ walk_lens_out' \in [Walks -> 0..L]
       /\ \A w \in Walks : w # next => /\ walks_out'[w] = walks_out[w]
                                       /\ walk_lens_out'[w] = walk_lens_out[w]
  <2> HIDE DEF row
  <2>1. walks_out' = [walks_out EXCEPT ![next] = row]
      BY <1>3 DEF row
  <2> QED
      BY <1>3, <1>6, <1>9, <1>12, <2>1
<1> HIDE DEF row
<1>14. ASSUME NEW i, i = next PROVE WalkMade(i)'
  <2> DEFINE n == walk_lens_out'[next]
             cell == walks_out'[next]
  <2>1. /\ n = Len(walk) /\ cell = row
      BY <1>13
  <2>2. n \in 1..args'.max_walk_len /\ cell[1] = FirstCell(starts'[next + 1])
      BY <1>2, <1>9, <1>11, <2>1
  <2>3. \A k \in 1..n : cell[k] \in Cells'
      BY <1>2, <1>9, <1>11, <2>1 DEF Cells
  <2>4. ASSUME NEW k \in 2..n
        PROVE  /\ cell[k].t < cell[k - 1].t
               /\ \E j \in 1..Len(graph'[cell[k - 1].v]) : graph'[cell[k - 1].v][j] = cell[k]
    <3>1. k \in 1..Len(walk) /\ k - 1 \in 1..Len(walk) /\ k \in 2..Len(walk)
        BY <1>9, <2>1
    <3>2. cell[k] = walk[k] /\ cell[k - 1] = walk[k - 1]
        BY <1>11, <2>1, <3>1
    <3> QED
        BY <1>2, <1>10, <3>1, <3>2
  <2>5. \A k \in n + 1..args'.max_walk_len : cell[k].v = kWalkDeadSentinel
      BY <1>2, <1>11, <2>1
  <2> HIDE DEF n, cell
  <2>6. walk_lens_out'[i] = n /\ walks_out'[i] = cell
      BY <1>14 DEF n, cell
  <2>7. cell[1] = FirstCell(starts'[i + 1])
      BY <1>14, <2>2
  <2> QED
      BY <2>2, <2>3, <2>4, <2>5, <2>6, <2>7 DEF WalkMade, FirstCell
<1>15. ASSUME NEW w \in Walks, w < next PROVE WalkMade(w)'
  <2>1. WalkMade(w) /\ walks_out'[w] = walks_out[w] /\ walk_lens_out'[w] = walk_lens_out[w]
    <3>1. w \in Int /\ w # next
        BY <1>6, <1>15 DEF Walks
    <3> QED
        BY <1>12, <1>13, <1>15, <3>1
  <2> QED
      BY <1>2, <2>1 DEF WalkMade, Cells
<1>16. /\ Walks' = Walks /\ MadeTotal' = MadeTotal /\ \A w \in Walks : w \in Int
    BY <1>2 DEF Walks, MadeTotal, num_walks, EngineWalks
<1>17. ASSUME NEW w \in Walks
       PROVE  IF w < next + 1 THEN WalkMade(w)' ELSE walk_lens_out'[w] = 0
  <2>1. CASE w < next
      BY <1>6, <1>15, <1>16, <2>1
  <2>2. CASE w = next
      BY <1>6, <1>14, <2>2
  <2>3. CASE next < w
      BY <1>6, <1>12, <1>13, <1>16, <2>3
  <2> QED
      BY <1>6, <1>16, <2>1, <2>2, <2>3
<1>18. Loaded'
    BY <1>2, <1>4 DEF Loaded, Parsed, CliArgs, Arg
<1>19. AtWalk'
    BY <1>1, <1>2, <1>6, <1>12, <1>13, <1>16, <1>17, <1>18 DEF AtWalk, Buffers
<1> QED
    BY <1>1, <1>2, <1>19 DEF IInv

(* Nothing that was read or made changes. *)
Kept == UNCHANGED <<program, argv, args, edges, graph, starts, walks_out, walk_lens_out>>

LEMMA KeptFacts ==
    Kept => /\ Loaded => Loaded'
            /\ Walks' = Walks /\ MadeTotal' = MadeTotal
            /\ num_walks' = num_walks /\ EngineWalks' = EngineWalks
            /\ Buffers(MadeTotal) => Buffers(MadeTotal)'
            /\ \A w : verify_walk(w)' <=> verify_walk(w)
            /\ Returned /\ stats' = stats => Returned'
<1> SUFFICES ASSUME Kept
             PROVE  /\ Loaded => Loaded'
                    /\ Walks' = Walks /\ MadeTotal' = MadeTotal
                    /\ num_walks' = num_walks /\ EngineWalks' = EngineWalks
                    /\ Buffers(MadeTotal) => Buffers(MadeTotal)'
                    /\ \A w : verify_walk(w)' <=> verify_walk(w)
                    /\ Returned /\ stats' = stats => Returned'
    OBVIOUS
<1>1. /\ program' = program /\ argv' = argv /\ args' = args /\ edges' = edges
      /\ graph' = graph /\ starts' = starts /\ walks_out' = walks_out
      /\ walk_lens_out' = walk_lens_out
    BY DEF Kept
<1>2. Loaded => Loaded'
    BY <1>1 DEF Loaded, Parsed, CliArgs, Arg
<1>3. /\ Walks' = Walks /\ MadeTotal' = MadeTotal /\ num_walks' = num_walks
      /\ EngineWalks' = EngineWalks
    BY <1>1 DEF Walks, MadeTotal, num_walks, EngineWalks
<1>4. ASSUME NEW w, WalkMade(w) PROVE WalkMade(w)'
    BY <1>1, <1>4 DEF WalkMade, Cells
<1>5. ASSUME NEW w PROVE verify_walk(w)' <=> verify_walk(w)
    BY <1>1 DEF verify_walk, edge_in_inbound
<1>6. Buffers(MadeTotal) => Buffers(MadeTotal)'
    BY <1>1, <1>3, <1>4 DEF Buffers
<1>7. Returned /\ stats' = stats => Returned'
    BY <1>1, <1>2, <1>3, <1>6 DEF Returned
<1> QED
    BY <1>2, <1>3, <1>5, <1>6, <1>7

LEMMA InvWalksReturn == IInv /\ WalksReturn => IInv'
<1> SUFFICES ASSUME IInv, WalksReturn PROVE IInv'
    OBVIOUS
<1>1. AtWalk /\ pc = "walk" /\ argv \in ArgVs /\ program \in Programs
    BY DEF IInv, WalksReturn, AtParse, AtLoad, AtRun, AtWalk, AtReport, AtVerify, Left,
           Reported, Verified
<1>2. /\ Kept /\ stats' = RunStats /\ next' = 0 /\ report' = report /\ exit_code' = exit_code
      /\ pc' = IF program = "tea_walk" THEN "report" ELSE "verify"
      /\ program' = program /\ argv' = argv /\ walk_lens_out' = walk_lens_out
      /\ next >= EngineWalks
    BY DEF WalksReturn, Kept, Goto, command, engine
<1>3. Loaded /\ Buffers(next) /\ next \in 0..MadeTotal /\ report = NoReport
    BY <1>1 DEF AtWalk
<1>4. num_walks \in Nat /\ EngineWalks \in Int /\ MadeTotal \in Nat
    BY <1>1, <1>3, StartsFacts DEF Buffers
<1>5. next = MadeTotal
    BY <1>2, <1>3, <1>4 DEF MadeTotal
<1>6. /\ Loaded' /\ MadeTotal' = MadeTotal /\ EngineWalks' = EngineWalks /\ num_walks' = num_walks
      /\ Buffers(MadeTotal)'
  <2>1. Buffers(MadeTotal)
      BY <1>3, <1>5
  <2> QED
      BY <1>2, <1>3, <2>1, KeptFacts
<1>7. stats' = [num_walks |-> EngineWalks,
                total_steps |-> SumFunction(walk_lens_out),
                dead_at_start |-> Cardinality({w \in 0..MadeTotal - 1 : walk_lens_out[w] <= 1})]
    BY <1>2, <1>5 DEF RunStats
<1>8. Returned'
    BY <1>2, <1>6, <1>7 DEF Returned
<1>9. CASE program = "tea_walk"
  <2>1. AtReport'
      BY <1>2, <1>3, <1>8, <1>9 DEF AtReport
  <2> QED
      BY <1>1, <1>2, <1>9, <2>1 DEF IInv
<1>10. CASE program = "tea_verify_walks"
  <2>1. AtVerify'
      BY <1>2, <1>3, <1>4, <1>6, <1>8, <1>10 DEF AtVerify
  <2> QED
      BY <1>1, <1>2, <1>10, <2>1 DEF IInv
<1> QED
    BY <1>1, <1>9, <1>10 DEF Programs

LEMMA InvReport == IInv /\ Report => IInv'
<1> SUFFICES ASSUME IInv, Report PROVE IInv'
    OBVIOUS
<1>1. AtReport /\ argv \in ArgVs /\ program \in Programs
    BY DEF IInv, Report, AtParse, AtLoad, AtRun, AtWalk, AtReport, AtVerify, Left,
           Reported, Verified
<1>2. /\ Kept /\ stats' = stats /\ next' = next /\ exit_code' = 0 /\ pc' = "exit"
      /\ program' = program /\ argv' = argv /\ args' = args /\ num_walks' = num_walks
      /\ report' = [scheduled |-> num_walks, done |-> stats.num_walks,
                    total_steps |-> stats.total_steps,
                    dead_at_start |-> IF args.picker = "temporal_node2vec" THEN -1
                                      ELSE stats.dead_at_start]
    BY DEF Report, Kept, Exit, command, engine, num_walks
<1>3. Returned'
    BY <1>1, <1>2, KeptFacts DEF AtReport
<1>4. Reported'
    BY <1>1, <1>2, <1>3 DEF Reported, AtReport
<1> QED
    BY <1>1, <1>2, <1>4 DEF IInv

LEMMA InvVerifyNext == IInv /\ VerifyNext => IInv'
<1> SUFFICES ASSUME IInv, VerifyNext PROVE IInv'
    OBVIOUS
<1>1. AtVerify /\ argv \in ArgVs /\ program \in Programs /\ exit_code = -1
    BY DEF IInv, VerifyNext, AtParse, AtLoad, AtRun, AtWalk, AtReport, AtVerify, Left,
           Reported, Verified
<1>2. /\ Kept /\ stats' = stats /\ report' = report /\ program' = program /\ argv' = argv
      /\ next < num_walks
    BY DEF VerifyNext, Kept, command, engine, ToVerify
<1>3. /\ Returned' /\ num_walks' = num_walks /\ \A w : verify_walk(w)' <=> verify_walk(w)
    BY <1>1, <1>2, KeptFacts DEF AtVerify
<1>4. num_walks \in Nat /\ next \in 0..num_walks /\ \A w \in 0..next - 1 : verify_walk(w)
    BY <1>1, StartsFacts DEF AtVerify, Returned, Buffers
<1>5. CASE verify_walk(next) /\ pc' = "verify" /\ exit_code' = exit_code /\ next' = next + 1
  <2>1. next' \in 0..num_walks' /\ \A w \in 0..next' - 1 : w \in 0..next - 1 \/ w = next
      BY <1>2, <1>3, <1>4, <1>5
  <2>2. \A w \in 0..next' - 1 : verify_walk(w)
      BY <1>4, <1>5, <2>1
  <2>3. \A w \in 0..next' - 1 : verify_walk(w)'
      BY <1>3, <2>2
  <2>4. AtVerify'
      BY <1>1, <1>2, <1>3, <1>5, <2>1, <2>3 DEF AtVerify
  <2> QED
      BY <1>1, <1>2, <1>5, <2>4 DEF IInv
<1>6. CASE ~verify_walk(next) /\ pc' = "exit" /\ exit_code' = 2 /\ next' = next
  <2>1. \A w \in 0..next' - 1 : verify_walk(w)'
      BY <1>3, <1>4, <1>6
  <2>2. ASSUME NEW w, w = next PROVE ~verify_walk(w)'
      BY <1>3, <1>6, <2>2
  <2>3. ~verify_walk(next)'
      BY <1>6, <2>2 DEF verify_walk, edge_in_inbound
  <2>4. Verified'
      BY <1>1, <1>2, <1>3, <1>4, <1>6, <2>1, <2>3 DEF AtVerify, Verified
  <2> QED
      BY <1>1, <1>2, <1>6, <2>4 DEF IInv
<1> QED
    BY <1>5, <1>6 DEF VerifyNext, Goto, die_on_step, Exit

LEMMA InvAllVerified == IInv /\ AllVerified => IInv'
<1> SUFFICES ASSUME IInv, AllVerified PROVE IInv'
    OBVIOUS
<1>1. AtVerify /\ argv \in ArgVs /\ program \in Programs
    BY DEF IInv, AllVerified, AtParse, AtLoad, AtRun, AtWalk, AtReport, AtVerify, Left,
           Reported, Verified
<1>2. /\ Kept /\ stats' = stats /\ report' = report /\ program' = program /\ argv' = argv
      /\ next' = next /\ next >= num_walks /\ pc' = "exit" /\ exit_code' = 0
    BY DEF AllVerified, Kept, command, engine, ToVerify, Exit
<1>3. /\ Returned' /\ num_walks' = num_walks /\ \A w : verify_walk(w)' <=> verify_walk(w)
    BY <1>1, <1>2, KeptFacts DEF AtVerify
<1>4. num_walks \in Nat /\ next \in 0..num_walks /\ \A w \in 0..next - 1 : verify_walk(w)
    BY <1>1, StartsFacts DEF AtVerify, Returned, Buffers
<1>5. next' = num_walks' /\ next' \in 0..num_walks' /\ \A w \in 0..next' - 1 : verify_walk(w)'
    BY <1>2, <1>3, <1>4
<1>6. Verified'
    BY <1>1, <1>2, <1>3, <1>5 DEF AtVerify, Verified
<1> QED
    BY <1>1, <1>2, <1>6 DEF IInv

THEOREM Invariance == Spec => []IInv
<1>1. IInv /\ [Next]_vars => IInv'
    BY InvStutter, InvParse, InvLoad, InvOutOfMemory, InvRun, InvWalk, InvWalksReturn, InvReport,
       InvVerifyNext, InvAllVerified DEF Next, Runs
<1> QED
    BY InvInit, <1>1, PTL DEF Spec

-----------------------------------------------------------------------------
(* What the invariant says of the buffers and the statistics. *)
LEMMA BuffersTyped ==
    ASSUME argv \in ArgVs, Loaded, NEW m \in Int, Buffers(m)
    PROVE  /\ \A k \in DOMAIN edges : edges[k] \in Edge
           /\ \A k \in DOMAIN starts : starts[k] \in DOMAIN graph
           /\ DOMAIN walk_lens_out = 0..num_walks - 1
           /\ \A w \in DOMAIN walk_lens_out : walk_lens_out[w] \in 0..args.max_walk_len
           /\ num_walks \in Nat /\ MadeTotal \in 0..num_walks /\ Valid(args)
           /\ EngineWalks \in Int /\ EngineWalks <= num_walks
           /\ SumFunction(walk_lens_out) = SumFunctionOnSet(walk_lens_out, Walks)
           /\ SumFunction(walk_lens_out) \in Nat
<1>1. /\ num_walks \in Nat /\ MadeTotal \in 0..num_walks /\ IsFiniteSet(Walks)
      /\ EngineWalks \in Int /\ EngineWalks <= num_walks
      /\ \A k \in DOMAIN starts : starts[k] \in DOMAIN graph
    BY StartsFacts DEF Buffers
<1>2. walk_lens_out \in [Walks -> 0..args.max_walk_len]
    BY DEF Buffers
<1>3. args.max_walk_len \in Nat /\ Valid(args)
    BY ParsedFacts DEF Loaded, Parsed
<1>4. \A k \in DOMAIN edges : edges[k] \in Edge
  <2>1. edges \in Seq(Edge)
      BY RowsRead DEF Loaded
  <2> QED
      BY <2>1, LenProperties, ElementOfSeq
<1>5. DOMAIN walk_lens_out = Walks /\ \A w \in Walks : walk_lens_out[w] \in Nat
    BY <1>2, <1>3
<1>6. SumFunction(walk_lens_out) = SumFunctionOnSet(walk_lens_out, Walks)
    BY <1>5, SumOfFunction
<1>7. SumFunction(walk_lens_out) \in Nat
    BY <1>1, <1>5, <1>6, SumNat
<1> QED
    BY <1>1, <1>2, <1>3, <1>4, <1>6, <1>7 DEF Walks

LEMMA StatsTyped ==
    ASSUME argv \in ArgVs, Returned
    PROVE  /\ stats.num_walks \in Int /\ stats.num_walks <= num_walks
           /\ stats.total_steps \in Nat /\ stats.dead_at_start \in Nat
<1>1. Loaded /\ Buffers(MadeTotal)
    BY DEF Returned
<1>2. EngineWalks \in Int /\ EngineWalks <= num_walks /\ MadeTotal \in Int
    BY <1>1, StartsFacts DEF Buffers
<1>3. SumFunction(walk_lens_out) \in Nat
    BY <1>1, <1>2, BuffersTyped
<1> DEFINE dead == {w \in 0..MadeTotal - 1 : walk_lens_out[w] <= 1}
<1>4. Cardinality(dead) \in Nat
  <2>1. IsFiniteSet(0..MadeTotal - 1) /\ dead \subseteq 0..MadeTotal - 1
      BY <1>2, FS_Interval
  <2> QED
      BY <2>1, FS_Subset, FS_CardinalityType
<1> HIDE DEF dead
<1>5. stats = [num_walks |-> EngineWalks, total_steps |-> SumFunction(walk_lens_out),
               dead_at_start |-> Cardinality(dead)]
    BY DEF Returned, dead
<1> QED
    BY <1>2, <1>3, <1>4, <1>5

(* At every stage the state is of its types (TypeOK): in particular, start *)
(* vertices are vertices of the graph, lengths are at most max_walk_len,   *)
(* and the engine is never asked for more walks than there are buffers.    *)
THEOREM TypeCorrect == Spec => []TypeOK
<1>1. IInv => TypeOK
  <2> SUFFICES ASSUME IInv PROVE TypeOK
      OBVIOUS
  <2>1. /\ pc \in {"parse", "load", "run", "walk", "report", "verify", "exit"}
        /\ exit_code \in -1..2 /\ (exit_code = -1 <=> pc # "exit") /\ argv \in ArgVs
      BY DEF IInv, AtParse, AtLoad, AtRun, AtWalk, AtReport, AtVerify, Left, Reported, Verified
  <2>2. CASE AtParse \/ AtLoad \/ AtRun
    <3>1. NotRun /\ (args = NoArgs \/ Valid(args))
        BY <2>2 DEF AtParse, AtLoad, AtRun, Loaded, Parsed
    <3>2. \A k \in DOMAIN edges : edges[k] \in Edge
      <4>1. CASE edges = <<>>
          BY <4>1
      <4>2. CASE edges # <<>>
        <5>1. Loaded
            BY <2>2, <4>2 DEF AtParse, AtLoad, AtRun, Unread
        <5>2. edges \in Seq(Edge)
            BY <5>1, RowsRead DEF Loaded
        <5> QED
            BY <5>2, LenProperties, ElementOfSeq
      <4> QED
          BY <4>1, <4>2
    <3>3. num_walks = 0
        BY <3>1 DEF NotRun, num_walks
    <3>4. pc # "walk"
        BY <2>2 DEF AtParse, AtLoad, AtRun
    <3> QED
        BY <2>1, <3>1, <3>2, <3>3, <3>4 DEF TypeOK, NotRun, NoStats
  <2>3. CASE AtWalk \/ Left
    <3>1. /\ Loaded /\ stats = NoStats /\ next \in Int
          /\ \E m \in Int : Buffers(m)
          /\ next = 0 \/ next \in 0..MadeTotal
      <4>1. CASE Left
          BY <4>1 DEF Left
      <4>2. CASE AtWalk
        <5>1. Loaded /\ Buffers(next) /\ next \in 0..MadeTotal /\ stats = NoStats
            BY <4>2 DEF AtWalk
        <5> QED
            BY <5>1
      <4> QED
          BY <2>3, <4>1, <4>2
    <3>2. PICK m \in Int : Buffers(m)
        BY <3>1
    <3>3. next \in 0..num_walks
        BY <2>1, <3>1, <3>2, BuffersTyped
    <3> QED
        BY <2>1, <3>1, <3>2, <3>3, BuffersTyped DEF TypeOK, NoStats
  <2>4. CASE AtReport \/ AtVerify \/ Reported \/ Verified
    <3>1. Returned /\ Loaded /\ Buffers(MadeTotal) /\ (next = 0 \/ next \in 0..num_walks)
        BY <2>4 DEF AtReport, AtVerify, Reported, Verified, Returned
    <3>2. MadeTotal \in Int
        BY <2>1, <3>1, StartsFacts DEF Buffers
    <3>3. next \in 0..num_walks
        BY <2>1, <3>1, <3>2, BuffersTyped
    <3> QED
        BY <2>1, <3>1, <3>2, <3>3, BuffersTyped, StatsTyped DEF TypeOK
  <2> QED
      BY <2>2, <2>3, <2>4 DEF IInv
<1> QED
    BY <1>1, Invariance, PTL

(* A program that ends with 0 was asked for help, or has taken in the      *)
(* whole file (InputComplete): read_edges_csv rejects a line it cannot     *)
(* parse, and each row is in the list of each of its sides, once.          *)
THEOREM InputIsComplete == Spec => []InputComplete
<1>1. IInv => InputComplete
  <2> SUFFICES ASSUME IInv, exit_code = 0, argv[1] \notin HelpFlags PROVE InputComplete
      BY DEF InputComplete, HelpFlags
  <2> DEFINE path == argv[1]
             d == args.is_directed
             lines == Files[path]
             rows == {n \in 2..Len(lines) : lines[n].kind # "blank"}
             at(v, n) == Cardinality({side \in {"u", "v"} :
                             /\ side = "u" => ~args.is_directed
                             /\ lines[n][side] % 2^Width = v})
  <2>1. Loaded /\ argv \in ArgVs
      BY DEF IInv, AtParse, AtLoad, AtRun, AtWalk, AtReport, AtVerify, Left, Reported, Verified,
             CatchCode, Returned
  <2>2. /\ args.file_path = path /\ d \in BOOLEAN
        /\ Readable(path) /\ graph = GraphOf(path, d)
      BY <2>1, ParsedFacts DEF Loaded
  <2>3. rows = Data(path) /\ \A v, n : at(v, n) = Cardinality(SidesAt(path, d, v, n))
      BY Zenon DEF Data, SidesAt
  <2>4. path \in DOMAIN Files /\ \A n \in Data(path) : lines[n].kind = "edge"
      BY <2>2 DEF Readable
  <2> HIDE DEF path, d
  <2>5. Holds(graph, path, d)
      BY <2>2, GraphRight
  <2>6. \A v \in DOMAIN graph : Len(graph[v]) = SumFunction([n \in rows |-> at(v, n)])
    <3> SUFFICES ASSUME NEW v \in DOMAIN graph
                 PROVE  Len(graph[v]) = SumFunction([n \in rows |-> at(v, n)])
        OBVIOUS
    <3>1. Len(graph[v]) = SumFunction([n \in Data(path) |-> Cardinality(SidesAt(path, d, v, n))])
        BY <2>5, Zenon DEF Holds
    <3> HIDE DEF rows, at
    <3> QED
        BY <2>3, <3>1
  <2>7. ASSUME NEW n \in Data(path)
        PROVE  LET row == Row(path, n)
               IN  /\ edge_in_inbound(row.v, [v |-> row.u, t |-> row.t])
                   /\ ~d => edge_in_inbound(row.u, [v |-> row.v, t |-> row.t])
    <3> DEFINE row == Row(path, n)
    <3>1. /\ row.u \in DOMAIN graph /\ row.v \in DOMAIN graph
          /\ \E k \in 1..Len(graph[row.v]) : graph[row.v][k] = [v |-> row.u, t |-> row.t]
          /\ ~d => \E k \in 1..Len(graph[row.u]) : graph[row.u][k] = [v |-> row.v, t |-> row.t]
        BY <2>5, Zenon DEF Holds
    <3>2. \A v \in DOMAIN graph : DOMAIN graph[v] = 1..Len(graph[v])
        BY <2>1, LoadedFacts, LenProperties DEF ListsTyped
    <3> HIDE DEF row
    <3>3. /\ edge_in_inbound(row.v, [v |-> row.u, t |-> row.t])
          /\ ~d => edge_in_inbound(row.u, [v |-> row.v, t |-> row.t])
        BY <3>1, <3>2 DEF edge_in_inbound
    <3> QED
        BY <3>3 DEF row
  <2>8. \A n \in rows : lines[n].kind = "edge"
      BY <2>3, <2>4
  <2>9. \A n \in rows : LET row == Row(path, n)
                        IN  /\ edge_in_inbound(row.v, [v |-> row.u, t |-> row.t])
                            /\ ~d => edge_in_inbound(row.u, [v |-> row.v, t |-> row.t])
      BY <2>3, <2>7, Zenon
  <2> QED
      BY <2>4, <2>6, <2>8, <2>9, Zenon DEF InputComplete, path, d
<1> QED
    BY <1>1, Invariance, PTL

(* Of the walks asked for, the first MadeTotal are made; their cells are   *)
(* the ones that hold a vertex.                                            *)
LEMMA MadeFacts ==
    ASSUME argv \in ArgVs, Loaded, Buffers(MadeTotal)
    PROVE  LET made == {w \in Scheduled : RealWalk(w)}
               L == args.max_walk_len
           IN  /\ made = 0..MadeTotal - 1 /\ Cardinality(made) = MadeTotal
               /\ made = Scheduled <=> MadeTotal = num_walks
               /\ Cardinality({cell \in made \X (1..L) :
                                  walks_out[cell[1]][cell[2]].v # kWalkDeadSentinel})
                      = SumFunction(walk_lens_out)
               /\ \A w \in made : (L > 1 => walks_out[w][2].v = kWalkDeadSentinel)
                                      <=> walk_lens_out[w] <= 1
<1> DEFINE made == {w \in Scheduled : RealWalk(w)}
           L == args.max_walk_len
           M == MadeTotal
           used == {cell \in made \X (1..L) :
                       walks_out[cell[1]][cell[2]].v # kWalkDeadSentinel}
           A == [w \in Walks |-> 1..walk_lens_out[w]]
<1>1. /\ num_walks \in Nat /\ M \in 0..num_walks /\ Scheduled = Walks /\ IsFiniteSet(Walks)
      /\ Cardinality(Scheduled) = num_walks
    BY StartsFacts DEF Buffers
<1>2. L \in Nat /\ L > 0 /\ DOMAIN graph \subseteq Nat
    BY ParsedFacts, LoadedFacts DEF Loaded
<1>3. /\ walk_lens_out \in [Walks -> 0..L]
      /\ \A w \in Walks : IF w < M THEN WalkMade(w) ELSE walk_lens_out[w] = 0
    BY DEF Buffers
<1>4. made = 0..M - 1
  <2>1. M \in Int
      BY <1>1
  <2>2. \A w \in Walks : RealWalk(w) <=> w < M
      BY <2>1, MadeIsReal
  <2> QED
      BY <1>1, <2>2 DEF Walks
<1>5. Cardinality(made) = M
  <2> HIDE DEF made
  <2>1. M \in Nat
      BY <1>1
  <2> HIDE DEF M
  <2>2. Cardinality(0..M - 1) = IF 0 > M - 1 THEN 0 ELSE M - 1 - 0 + 1
      BY <2>1, FS_Interval
  <2>3. Cardinality(0..M - 1) = M
      BY <2>1, <2>2
  <2> QED
      BY <1>4, <2>3 DEF M
<1>6. made = Scheduled <=> M = num_walks
  <2>1. ASSUME made = Scheduled PROVE M = num_walks
      BY <1>1, <1>5, <2>1
  <2>2. ASSUME M = num_walks PROVE made = Scheduled
      BY <1>1, <1>4, <2>2 DEF Walks
  <2> QED
      BY <2>1, <2>2
<1>7. ASSUME NEW w \in made
      PROVE  /\ w \in Walks /\ walk_lens_out[w] \in 1..L
             /\ \A k \in 1..L : walks_out[w][k].v # kWalkDeadSentinel <=> k <= walk_lens_out[w]
  <2> DEFINE n == walk_lens_out[w]
             cell == walks_out[w]
  <2>1. w \in Walks /\ w < M
      BY <1>1, <1>4 DEF Walks
  <2>2. /\ n \in 1..L
        /\ \A k \in 1..n : cell[k] \in Cells
        /\ \A k \in n + 1..L : cell[k].v = kWalkDeadSentinel
      BY <1>3, <2>1 DEF WalkMade
  <2> HIDE DEF n, cell
  <2>3. \A k \in 1..n : cell[k].v # kWalkDeadSentinel
      BY <1>2, <2>2 DEF Cells, kWalkDeadSentinel
  <2>4. \A k \in 1..L : cell[k].v # kWalkDeadSentinel <=> k <= n
      BY <1>2, <2>2, <2>3
  <2> QED
      BY <2>1, <2>2, <2>4 DEF n, cell
<1>8. ASSUME NEW w \in made
      PROVE  (L > 1 => walks_out[w][2].v = kWalkDeadSentinel) <=> walk_lens_out[w] <= 1
    BY <1>2, <1>7
<1>9. Cardinality(used) = SumFunction(walk_lens_out)
  <2>1. \A w \in Walks : /\ walk_lens_out[w] \in Nat /\ A[w] = 1..walk_lens_out[w]
                         /\ IsFiniteSet(A[w]) /\ walk_lens_out[w] = Cardinality(A[w])
      BY <1>2, <1>3, FS_Interval
  <2> HIDE DEF A
  <2>2. /\ Cardinality(Pairs(Walks, A)) = SumFunctionOnSet(walk_lens_out, Walks)
      BY <1>1, <2>1, PairsCounted
  <2>3. used = Pairs(Walks, A)
    <3>1. ASSUME NEW c \in used PROVE c \in Pairs(Walks, A)
      <4>1. /\ c = <<c[1], c[2]>> /\ c[1] \in made /\ c[2] \in 1..L
            /\ walks_out[c[1]][c[2]].v # kWalkDeadSentinel
          OBVIOUS
      <4>2. c[1] \in Walks /\ c[2] \in A[c[1]]
          BY <1>7, <2>1, <4>1
      <4> HIDE DEF used
      <4> QED
          BY <4>1, <4>2 DEF Pairs
    <3>2. ASSUME NEW c \in Pairs(Walks, A) PROVE c \in used
      <4>1. c = <<c[1], c[2]>> /\ c[1] \in Walks /\ c[2] \in A[c[1]]
          BY DEF Pairs
      <4>2. c[2] \in 1..walk_lens_out[c[1]] /\ walk_lens_out[c[1]] \in 0..L
          BY <1>3, <2>1, <4>1
      <4>3. c[1] < M
          BY <1>3, <4>1, <4>2
      <4>4. c[1] \in made
          BY <1>1, <1>4, <4>1, <4>3 DEF Walks
      <4>5. c[2] \in 1..L /\ walks_out[c[1]][c[2]].v # kWalkDeadSentinel
          BY <1>2, <1>7, <4>2, <4>4
      <4> HIDE DEF made
      <4> QED
          BY <4>1, <4>4, <4>5
    <3> HIDE DEF used
    <3> QED
        BY <3>1, <3>2
  <2>4. SumFunction(walk_lens_out) = SumFunctionOnSet(walk_lens_out, Walks)
      BY <1>1, BuffersTyped
  <2> QED
      BY <2>2, <2>3, <2>4
<1> HIDE DEF made, used, M
<1> QED
    BY <1>4, <1>5, <1>6, <1>8, <1>9 DEF made, used, M

(* tea_verify_walks ends with 0 exactly when every walk that was asked for *)
(* is a backward walk along rows of the file (VerifierExact), whatever the *)
(* width of an int32.                                                      *)
THEOREM VerifierIsExact == Spec => []VerifierExact
<1>1. IInv => VerifierExact
  <2> SUFFICES ASSUME IInv, program = "tea_verify_walks", args # NoArgs, exit_code \in {0, 2}
               PROVE  /\ exit_code = 0 <=> \A w \in Scheduled : RealWalk(w)
                      /\ num_walks = Cardinality(Scheduled)
      BY DEF VerifierExact
  <2>1. Verified /\ argv \in ArgVs
      BY DEF IInv, AtParse, AtLoad, AtRun, AtWalk, AtReport, AtVerify, Left, Reported, Verified,
             CatchCode
  <2>2. /\ Loaded /\ Buffers(MadeTotal) /\ next \in 0..num_walks
        /\ \A w \in 0..next - 1 : verify_walk(w)
        /\ IF exit_code = 0 THEN next = num_walks ELSE next < num_walks /\ ~verify_walk(next)
      BY <2>1 DEF Verified, Returned
  <2>3. /\ num_walks \in Nat /\ Scheduled = Walks /\ Cardinality(Scheduled) = num_walks
        /\ MadeTotal \in Int
      BY <2>1, <2>2, StartsFacts DEF Buffers
  <2>4. \A w \in Walks : RealWalk(w) <=> verify_walk(w)
      BY <2>1, <2>2, <2>3, MadeIsReal
  <2>5. CASE exit_code = 0
    <3>1. next = num_walks
        BY <2>2, <2>5
    <3>2. \A w \in Walks : verify_walk(w)
        BY <2>2, <3>1 DEF Walks
    <3> QED
        BY <2>3, <2>4, <2>5, <3>2
  <2>6. CASE exit_code # 0
    <3>1. next < num_walks /\ ~verify_walk(next)
        BY <2>2, <2>6
    <3>2. next \in Walks
        BY <2>2, <2>3, <3>1 DEF Walks
    <3> QED
        BY <2>3, <2>4, <2>6, <3>1, <3>2
  <2> QED
      BY <2>5, <2>6
<1> QED
    BY <1>1, Invariance, PTL

(* What tea_walk reports is what was asked for and made (ReportTruthful).  *)
THEOREM ReportIsTruthful == Spec => []ReportTruthful
<1>1. IInv => ReportTruthful
  <2> DEFINE made == {w \in Scheduled : RealWalk(w)}
             L == args.max_walk_len
             steps == Cardinality({cell \in made \X (1..L) :
                                      walks_out[cell[1]][cell[2]].v # kWalkDeadSentinel})
             dead == Cardinality({w \in made : L > 1 => walks_out[w][2].v = kWalkDeadSentinel})
  <2> SUFFICES ASSUME IInv, program = "tea_walk", args # NoArgs, exit_code = 0
               PROVE  /\ report.scheduled = Cardinality(Scheduled)
                      /\ report.done = report.scheduled <=> made = Scheduled
                      /\ report.done >= 0 => report.done = Cardinality(made)
                      /\ report.total_steps = steps
                      /\ report.dead_at_start \in {-1, dead}
      BY DEF ReportTruthful
  <2>1. (Left \/ Reported) /\ argv \in ArgVs
      BY DEF IInv, AtParse, AtLoad, AtRun, AtWalk, AtReport, AtVerify, Left, Reported, Verified,
             CatchCode
  <2>2. Loaded /\ starts = make_all_nodes_starts(graph, args.num_walks_per_node)
      BY <2>1 DEF Left, Reported, Returned, Buffers
  <2>3. /\ num_walks \in Nat /\ Cardinality(Scheduled) = num_walks
        /\ EngineWalks \in Int /\ MadeTotal \in 0..num_walks
        /\ num_walks = 0 => EngineWalks = 0
      BY <2>1, <2>2, StartsFacts
  <2>4. ASSUME Left PROVE num_walks = 0 /\ MadeTotal = 0 /\ Buffers(MadeTotal)
    <3>1. num_walks = 0 /\ Buffers(0)
        BY <2>4 DEF Left, num_walks
    <3> QED
        BY <2>3, <3>1 DEF MadeTotal
  <2>5. Buffers(MadeTotal)
      BY <2>1, <2>4 DEF Reported, Returned
  <2>6. /\ made = 0..MadeTotal - 1 /\ Cardinality(made) = MadeTotal
        /\ made = Scheduled <=> MadeTotal = num_walks
        /\ steps = SumFunction(walk_lens_out)
        /\ \A w \in made : (L > 1 => walks_out[w][2].v = kWalkDeadSentinel)
                               <=> walk_lens_out[w] <= 1
      BY <2>1, <2>2, <2>5, MadeFacts, Zenon
  <2>7. dead = Cardinality({w \in 0..MadeTotal - 1 : walk_lens_out[w] <= 1})
      BY <2>6
  <2> HIDE DEF made, L, steps, dead
  <2>8. CASE Left
    <3>1. report = NoReport
        BY <2>8 DEF Left
    <3>2. num_walks = 0 /\ MadeTotal = 0
        BY <2>4, <2>8
    <3>3. SumFunction(walk_lens_out) = 0
      <4>1. SumFunction(walk_lens_out) = SumFunctionOnSet(walk_lens_out, Walks)
          BY <2>1, <2>2, <2>3, <2>5, BuffersTyped
      <4>2. Walks = {}
          BY <3>2 DEF Walks
      <4> QED
          BY <4>1, <4>2, SumEmpty
    <3> QED
        BY <2>3, <2>6, <3>1, <3>2, <3>3 DEF NoReport
  <2>9. CASE Reported
    <3>1. /\ report.scheduled = num_walks /\ report.done = EngineWalks
          /\ report.total_steps = SumFunction(walk_lens_out)
          /\ report.dead_at_start \in {-1, dead}
        BY <2>7, <2>9 DEF Reported, Returned
    <3>2. EngineWalks = num_walks <=> MadeTotal = num_walks
        BY <2>3 DEF MadeTotal
    <3>3. EngineWalks >= 0 => EngineWalks = MadeTotal
        BY <2>3 DEF MadeTotal
    <3> QED
        BY <2>3, <2>6, <3>1, <3>2, <3>3
  <2> QED
      BY <2>1, <2>8, <2>9
<1> QED
    BY <1>1, Invariance, PTL
=============================================================================
