--------------------------- MODULE NeighborSetsProofs ---------------------------
(***************************************************************************)
(* For every set of calls and every schedule of the loops: the transpose   *)
(* is exact while it is scattered, the slices hold the neighbours in       *)
(* order, and the binary search finds exactly them.                        *)
(***************************************************************************)
EXTENDS NeighborSets, DataLemmas

Neighbors(u) == {v \in Vertices : Joined(u, v)}

(* The entries of the lists, by vertex and index, and those whose source is u. *)
Arcs == UNION {{v} \X (1..Len(graph[v])) : v \in Vertices}
To(u) == {p \in Arcs : graph[p[1]][p[2]] = u}

(* An entry is behind the loop of its vertex, or its slot is captured.     *)
Behind(p) == p[2] <= next[p[1]]
Pending(p) == p[2] = next[p[1]] + 1 /\ slot[p[1]] # NoSlot
Taken(u) == {p \in To(u) : Behind(p) \/ Pending(p)}

(* A serial prefix sum of d in o, as far as it has come. *)
Steps(o, d) == scan <= N /\ StepsTo(o, d, N, scan, total)

(* The graph that is read, and that its lists are the input's neighbours.  *)
GraphInv ==
    phase # "unbuilt" =>
        /\ N \in Nat /\ DOMAIN graph = Vertices
        /\ \A u, v \in Vertices :
               Joined(u, v) <=> \/ v \in Range(graph[u])
                                \/ call.is_directed /\ u \in Range(graph[v])

(* The out-degrees count the entries the loops have passed.                *)
CountInv ==
    /\ phase = "undirected" => ~call.is_directed
    /\ phase \in {"count", "out_offsets", "scatter"} => next \in [Vertices -> Nat]
    /\ phase = "count" =>
           \A u \in Vertices : out_degree[u] = Cardinality({p \in To(u) : Behind(p)})
    /\ phase \in {"out_offsets", "scatter"} =>
           \A u \in Vertices : out_degree[u] = Cardinality(To(u))

OutLayoutInv ==
    /\ phase \in {"out_offsets", "scatter"} => out_offsets \in [0..N -> Nat]
    /\ phase = "out_offsets" => Steps(out_offsets, out_degree)
    /\ phase = "scatter" =>
           \A u \in Vertices : out_offsets[u + 1] = out_offsets[u] + out_degree[u]

(* Slot k of u belongs to one entry with source u: it is captured, or it   *)
(* holds that entry's other end.                                           *)
Keeps(u, b) ==
    \A k \in 0..cursor[u] - 1 :
        IF Behind(b[k]) THEN out_neighbors_arena[out_offsets[u] + k] = b[k][1]
                        ELSE slot[b[k][1]] = k
ScatterInv ==
    phase = "scatter" =>
        /\ slot \in [Vertices -> Nat \cup {NoSlot}]
        /\ \A v \in Vertices : slot[v] # NoSlot => AtEdge(v)
        /\ \A u \in Vertices : \E b \in Bijection(0..cursor[u] - 1, Taken(u)) : Keeps(u, b)

(* What the last two passes gather are the neighbours. *)
GatheredInv ==
    phase \in {"sizes", "offsets", "copy"} =>
        \A u \in Vertices : Range(Gathered(u)) = Neighbors(u)

SizesInv ==
    /\ phase = "sizes" => \A u \in done : sizes[u] = Cardinality(Neighbors(u))
    /\ phase \in {"offsets", "copy"} =>
           \A u \in Vertices : sizes[u] = Cardinality(Neighbors(u))

LayoutInv ==
    /\ phase = "offsets" => Steps(offsets_, sizes)
    /\ phase \in {"copy", "built"} =>
           \A u \in Vertices : offsets_[u + 1] = offsets_[u] + Cardinality(Neighbors(u))

SlicesInv ==
    /\ phase = "built" => done = Vertices
    /\ phase \in {"copy", "built"} =>
           \A u \in done : \A i \in 1..Cardinality(Neighbors(u)) :
               neighbors_[offsets_[u] + i - 1] = Sorted(Neighbors(u))[i]

IInv ==
    /\ TypeOK /\ GraphInv /\ CountInv /\ OutLayoutInv /\ ScatterInv
    /\ GatheredInv /\ SizesInv /\ LayoutInv /\ SlicesInv

-----------------------------------------------------------------------------
(* The targets of a vertex, and what they say of the input. *)
TargetsOf(c, u) == [i \in DOMAIN ListOf(c, u) |-> ListOf(c, u)[i].v]

LEMMA TargetsRight ==
    ASSUME NEW c \in Calls, NEW u \in 0..VertexCountOf(c) - 1
    PROVE  /\ TargetsOf(c, u) \in Seq(0..VertexCountOf(c) - 1)
           /\ \A x : x \in Range(TargetsOf(c, u)) <=>
                  \E i \in 1..Len(c.edges) :
                      \/ c.edges[i].v = u /\ c.edges[i].u = x
                      \/ ~c.is_directed /\ c.edges[i].u = u /\ c.edges[i].v = x
<1> DEFINE mine == EntriesAt(c, u)
           n == Cardinality(mine)
           V == 0..VertexCountOf(c) - 1
           list == ListOf(c, u)
           s == TargetsOf(c, u)
           places == 1..n
<1>1. /\ n \in Nat /\ DOMAIN list = places
      /\ \E g \in Bijection(places, mine) : \A i \in places : list[i] = StepOf(c, g[i])
    BY ListPermutes, CallsAssumption
<1>2. PICK g \in Bijection(places, mine) : \A i \in places : list[i] = StepOf(c, g[i])
    BY <1>1
<1>3. /\ DOMAIN s = places /\ \A i \in places : s[i] = list[i].v
      /\ s = [i \in places |-> s[i]]
    BY <1>1 DEF TargetsOf
<1>4. ASSUME NEW e \in mine PROVE StepOf(c, e).v \in V
  <2>1. VertexCountOf(c) # 0 /\ VertexCountOf(c) \in Nat
      BY SizeCovers, CallsAssumption
  <2>2. e[1] \in 1..Len(c.edges)
      BY DEF EntriesAt, EntriesOf
  <2> QED
      BY <2>1, <2>2, SizeCovers, CallsAssumption DEF StepOf
<1>5. \A x : (\E e \in mine : StepOf(c, e).v = x) <=>
                  \E i \in 1..Len(c.edges) :
                      \/ c.edges[i].v = u /\ c.edges[i].u = x
                      \/ ~c.is_directed /\ c.edges[i].u = u /\ c.edges[i].v = x
  <2> SUFFICES ASSUME NEW x
               PROVE  (\E e \in mine : StepOf(c, e).v = x) <=>
                          \E i \in 1..Len(c.edges) :
                              \/ c.edges[i].v = u /\ c.edges[i].u = x
                              \/ ~c.is_directed /\ c.edges[i].u = u /\ c.edges[i].v = x
      OBVIOUS
  <2>1. ASSUME NEW e \in mine, StepOf(c, e).v = x
        PROVE  \E i \in 1..Len(c.edges) :
                   \/ c.edges[i].v = u /\ c.edges[i].u = x
                   \/ ~c.is_directed /\ c.edges[i].u = u /\ c.edges[i].v = x
    <3>1. /\ e[1] \in 1..Len(c.edges) /\ (e[2] = "v" \/ (~c.is_directed /\ e[2] = "u"))
          /\ VertexOf(c, e) = u
        BY DEF EntriesAt, EntriesOf, SidesOf
    <3> QED
        BY <2>1, <3>1 DEF VertexOf, StepOf
  <2>2. ASSUME NEW i \in 1..Len(c.edges), c.edges[i].v = u, c.edges[i].u = x
        PROVE  \E e \in mine : StepOf(c, e).v = x
    <3>1. <<i, "v">> \in mine
        BY <2>2 DEF EntriesAt, EntriesOf, SidesOf, VertexOf
    <3>2. StepOf(c, <<i, "v">>).v = x
        BY <2>2 DEF StepOf
    <3> QED
        BY <3>1, <3>2
  <2>3. ASSUME NEW i \in 1..Len(c.edges), ~c.is_directed,
               c.edges[i].u = u, c.edges[i].v = x
        PROVE  \E e \in mine : StepOf(c, e).v = x
    <3>1. <<i, "u">> \in mine
        BY <2>3 DEF EntriesAt, EntriesOf, SidesOf, VertexOf
    <3>2. StepOf(c, <<i, "u">>).v = x
        BY <2>3 DEF StepOf
    <3> QED
        BY <3>1, <3>2
  <2> QED
      BY <2>1, <2>2, <2>3
<1> HIDE DEF mine, list, s, places, V
<1>6. /\ \A i \in places : g[i] \in mine
      /\ \A e \in mine : \E i \in places : g[i] = e
    BY <1>2, BijectionFacts
<1>7. \A i \in places : s[i] = StepOf(c, g[i]).v /\ s[i] \in V
    BY <1>2, <1>3, <1>4, <1>6
<1>8. s \in Seq(V)
  <2>1. s \in [1..n -> V]
      BY <1>3, <1>7 DEF places
  <2> QED
      BY <1>1, <2>1, ListIsSeq
<1>9. \A x : x \in Range(s) <=> \E e \in mine : StepOf(c, e).v = x
    BY <1>3, <1>6, <1>7 DEF Range
<1> QED
    BY <1>5, <1>8, <1>9 DEF s, V

JoinedIn(c, u, v) ==
    \E i \in 1..Len(c.edges) : {c.edges[i].u, c.edges[i].v} = {u, v}

LEMMA JoinedListed ==
    ASSUME NEW c \in Calls, NEW u \in 0..VertexCountOf(c) - 1,
           NEW v \in 0..VertexCountOf(c) - 1
    PROVE  JoinedIn(c, u, v) <=> \/ v \in Range(TargetsOf(c, u))
                                 \/ c.is_directed /\ u \in Range(TargetsOf(c, v))
<1>1. JoinedIn(c, u, v) <=> \E i \in 1..Len(c.edges) :
                                \/ c.edges[i].u = u /\ c.edges[i].v = v
                                \/ c.edges[i].u = v /\ c.edges[i].v = u
  <2>1. \A a, b : {a, b} = {u, v} <=> (a = u /\ b = v) \/ (a = v /\ b = u)
      OBVIOUS
  <2> QED
      BY <2>1, Zenon DEF JoinedIn
<1>2. v \in Range(TargetsOf(c, u)) <=>
          \E i \in 1..Len(c.edges) :
              \/ c.edges[i].v = u /\ c.edges[i].u = v
              \/ ~c.is_directed /\ c.edges[i].u = u /\ c.edges[i].v = v
    BY TargetsRight
<1>3. u \in Range(TargetsOf(c, v)) <=>
          \E i \in 1..Len(c.edges) :
              \/ c.edges[i].v = v /\ c.edges[i].u = u
              \/ ~c.is_directed /\ c.edges[i].u = v /\ c.edges[i].v = u
    BY TargetsRight
<1> QED
    BY <1>1, <1>2, <1>3

LEMMA InitIInv == Init => IInv
BY DEF Init, IInv, TypeOK, GraphInv, CountInv, OutLayoutInv, ScatterInv, GatheredInv,
       SizesInv, LayoutInv, SlicesInv

LEMMA StartBuildKeeps == IInv /\ StartBuild => IInv'
<1> SUFFICES ASSUME IInv, StartBuild PROVE IInv'
    OBVIOUS
<1> PICK c \in Calls :
         LET V == 0..VertexCountOf(c) - 1
         IN  /\ call' = c
             /\ graph' = [v \in V |-> [i \in DOMAIN ListOf(c, v) |-> ListOf(c, v)[i].v]]
             /\ offsets_' = Zeros(0..VertexCountOf(c))
             /\ out_degree' = Zeros(V)
             /\ next' = Zeros(V)
             /\ phase' = IF c.is_directed THEN "count" ELSE "undirected"
    BY DEF StartBuild
<1> DEFINE V == 0..VertexCountOf(c) - 1
<1>1. VertexCountOf(c) \in Nat
    BY SizeCovers, CallsAssumption
<1>2. DOMAIN graph' = V /\ \A v \in V : graph'[v] = TargetsOf(c, v)
    BY DEF TargetsOf
<1>3. N' = VertexCountOf(c) /\ Vertices' = V
  <2>1. Cardinality(V) = VertexCountOf(c)
    <3> QED
        BY <1>1, FS_Interval
  <2> QED
      BY <1>2, <2>1 DEF N, Vertices
<1>4. \A v \in V : graph'[v] \in Seq(V)
    BY <1>2, TargetsRight
<1>5. \A v \in V : Len(graph'[v]) \in Nat
    BY <1>4
<1>6. /\ phase' = IF c.is_directed THEN "count" ELSE "undirected"
      /\ next' \in [V -> Nat] /\ out_degree' \in [V -> Nat]
      /\ \A v \in V : next'[v] = 0 /\ out_degree'[v] = 0
      /\ offsets_' \in [0..VertexCountOf(c) -> Nat]
      /\ call' = c /\ scan' = scan /\ total' = total
    BY DEF StartBuild, Zeros
<1> HIDE DEF V
<1>7. TypeOK'
  <2>1. c.is_directed => call'.is_directed
      BY <1>6
  <2>2. scan \in Nat /\ total \in Nat
      BY DEF IInv, TypeOK
  <2> QED
      BY <1>3, <1>4, <1>5, <1>6, <2>2 DEF TypeOK
<1>8. GraphInv'
  <2>1. ASSUME NEW u \in V, NEW v \in V
        PROVE  Joined(u, v)' <=> \/ v \in Range(graph'[u])
                                 \/ call'.is_directed /\ u \in Range(graph'[v])
    <3>1. Joined(u, v)' <=> JoinedIn(c, u, v)
        BY <1>6 DEF Joined, JoinedIn
    <3>2. graph'[u] = TargetsOf(c, u) /\ graph'[v] = TargetsOf(c, v)
        BY <1>2
    <3>3. JoinedIn(c, u, v) <=> \/ v \in Range(TargetsOf(c, u))
                                \/ c.is_directed /\ u \in Range(TargetsOf(c, v))
        BY JoinedListed DEF V
    <3> QED
        BY <1>6, <3>1, <3>2, <3>3
  <2>2. N' \in Nat /\ DOMAIN graph' = Vertices'
      BY <1>1, <1>2, <1>3
  <2> QED
      BY <1>3, <2>1, <2>2 DEF GraphInv
<1>9. CountInv'
  <2>1. ASSUME NEW u \in V PROVE {p \in To(u) : Behind(p)}' = {}
    <3> SUFFICES ASSUME NEW p \in To(u)', Behind(p)' PROVE FALSE
        OBVIOUS
    <3>1. PICK v \in V : p[1] = v /\ p[2] \in 1..Len(graph'[v])
        BY <1>3 DEF To, Arcs
    <3> QED
        BY <1>5, <1>6, <3>1 DEF Behind
  <2>2. ASSUME NEW u \in V PROVE Cardinality({p \in To(u) : Behind(p)})' = 0
      BY <2>1, FS_EmptySet
  <2> QED
      BY <1>3, <1>6, <2>2 DEF CountInv
<1> QED
    BY <1>6, <1>7, <1>8, <1>9
       DEF IInv, OutLayoutInv, ScatterInv, GatheredInv, SizesInv, LayoutInv, SlicesInv

-----------------------------------------------------------------------------
(* The entries the loops go through. *)
LEMMA ArcFacts ==
    ASSUME IInv, phase # "unbuilt"
    PROVE  /\ N \in Nat /\ DOMAIN graph = Vertices
           /\ \A v \in Vertices : Len(graph[v]) \in Nat /\ DOMAIN graph[v] = 1..Len(graph[v])
           /\ \A p : p \in Arcs <=> /\ p = <<p[1], p[2]>>
                                    /\ p[1] \in Vertices /\ p[2] \in 1..Len(graph[p[1]])
           /\ \A v \in Vertices : \A i \in 1..Len(graph[v]) :
                  <<v, i>> \in Arcs /\ graph[v][i] \in Vertices
           /\ \A u : IsFiniteSet(To(u)) /\ To(u) \subseteq Arcs
<1>1. /\ N \in Nat /\ DOMAIN graph = Vertices
      /\ \A v \in Vertices : graph[v] \in Seq(Vertices)
    BY DEF IInv, TypeOK, GraphInv
<1>2. \A v \in Vertices : /\ Len(graph[v]) \in Nat /\ DOMAIN graph[v] = 1..Len(graph[v])
                          /\ \A i \in 1..Len(graph[v]) : graph[v][i] \in Vertices
    BY <1>1, LenProperties
<1>3. \A p : p \in Arcs <=> /\ p = <<p[1], p[2]>>
                            /\ p[1] \in Vertices /\ p[2] \in 1..Len(graph[p[1]])
    BY DEF Arcs
<1>4. \A v \in Vertices : \A i \in 1..Len(graph[v]) : <<v, i>> \in Arcs
    BY <1>3
<1>5. IsFiniteSet(Arcs)
  <2> DEFINE f == [v \in Vertices |-> {v} \X (1..Len(graph[v]))]
             P == {f[v] : v \in Vertices}
  <2>1. IsFiniteSet(Vertices)
      BY <1>1, FS_Interval DEF Vertices
  <2>2. Arcs = UNION P
      BY DEF Arcs
  <2>3. \A T \in P : IsFiniteSet(T)
    <3> SUFFICES ASSUME NEW v \in Vertices PROVE IsFiniteSet(f[v])
        OBVIOUS
    <3>1. f[v] = {v} \X (1..Len(graph[v]))
        OBVIOUS
    <3>2. IsFiniteSet(1..Len(graph[v]))
      <4>1. 1 \in Int /\ Len(graph[v]) \in Int
          BY <1>2
      <4> QED
          BY <4>1, FS_Interval
    <3>3. IsFiniteSet({v})
        BY FS_Singleton
    <3> HIDE DEF f
    <3> QED
        BY <3>1, <3>2, <3>3, FS_Product
  <2> HIDE DEF f
  <2>4. IsFiniteSet(P)
      BY <2>1, FiniteImage
  <2> HIDE DEF P
  <2> QED
      BY <2>2, <2>3, <2>4, FS_UNION
<1>6. \A u : To(u) \subseteq Arcs
    BY DEF To
<1>7. \A u : IsFiniteSet(To(u))
    BY <1>5, <1>6, FS_Subset
<1> QED
    BY <1>1, <1>2, <1>3, <1>4, <1>6, <1>7

(* The graph and the parts of the invariant that say nothing of a phase. *)
LEMMA GraphKeeps ==
    ASSUME GraphInv, UNCHANGED <<call, graph>>, phase # "unbuilt"
    PROVE  /\ GraphInv' /\ N' = N /\ Vertices' = Vertices
           /\ Arcs' = Arcs /\ \A u : To(u)' = To(u) /\ Neighbors(u)' = Neighbors(u)
<1>1. N' = N /\ Vertices' = Vertices
    BY DEF N, Vertices
<1>2. \A u, v : Joined(u, v)' = Joined(u, v)
    BY DEF Joined
<1>3. Arcs' = Arcs /\ \A u : To(u)' = To(u)
    BY <1>1 DEF Arcs, To
<1> QED
    BY <1>1, <1>2, <1>3 DEF GraphInv, Neighbors

LEMMA CountOutKeeps == IInv /\ (\E v \in Vertices : CountOut(v)) => IInv'
<1> SUFFICES ASSUME IInv, NEW v \in Vertices, CountOut(v) PROVE IInv'
    OBVIOUS
<1> DEFINE p0 == <<v, next[v] + 1>>
           s == Source(v)
<1>1. /\ phase = "count" /\ phase' = "count" /\ AtEdge(v)
      /\ out_degree' = [out_degree EXCEPT ![s] = @ + 1]
      /\ next' = [next EXCEPT ![v] = @ + 1]
      /\ UNCHANGED <<call, graph, offsets_, scan, total>>
      /\ next \in [Vertices -> Nat] /\ out_degree \in [Vertices -> Nat]
    BY DEF CountOut, IInv, TypeOK, CountInv
<1>2. /\ GraphInv' /\ N' = N /\ Vertices' = Vertices
      /\ Arcs' = Arcs /\ \A u : To(u)' = To(u)
    BY <1>1, GraphKeeps DEF IInv
<1>3. /\ Len(graph[v]) \in Nat /\ next[v] + 1 \in 1..Len(graph[v])
      /\ p0 \in To(s) /\ s \in Vertices
  <2>1. Len(graph[v]) \in Nat /\ next[v] + 1 \in 1..Len(graph[v])
      BY <1>1, ArcFacts DEF AtEdge
  <2>2. p0 \in Arcs /\ graph[v][next[v] + 1] \in Vertices
      BY <1>1, <2>1, ArcFacts
  <2> QED
      BY <2>1, <2>2 DEF To, Source
<1> HIDE DEF s
<1>4. ASSUME NEW u \in Vertices
      PROVE  out_degree'[u] = Cardinality({p \in To(u) : Behind(p)}')
  <2> DEFINE A == {p \in To(u) : Behind(p)}
  <2>1. \A p \in Arcs : Behind(p)' <=> Behind(p) \/ p = p0
    <3> SUFFICES ASSUME NEW p \in Arcs PROVE Behind(p)' <=> Behind(p) \/ p = p0
        OBVIOUS
    <3>1. p = <<p[1], p[2]>> /\ p[1] \in Vertices /\ p[2] \in Int
        BY <1>1, ArcFacts
    <3>2. next'[p[1]] = IF p[1] = v THEN next[v] + 1 ELSE next[p[1]]
        BY <1>1, <3>1
    <3>3. next[v] \in Nat /\ next[p[1]] \in Nat
        BY <1>1, <3>1
    <3> QED
        BY <3>1, <3>2, <3>3 DEF Behind
  <2>2. To(u) \subseteq Arcs /\ IsFiniteSet(To(u))
      BY <1>1, ArcFacts
  <2>3. {p \in To(u) : Behind(p)}' = {p \in To(u) : Behind(p) \/ p = p0}
      BY <1>2, <2>1, <2>2
  <2>4. IsFiniteSet(A) /\ out_degree[u] = Cardinality(A)
      BY <1>1, <2>2, FS_Subset DEF IInv, CountInv
  <2>5. ~Behind(p0)
      BY <1>1 DEF Behind
  <2>6. CASE u = s
    <3>1. {p \in To(u) : Behind(p) \/ p = p0} = A \cup {p0} /\ p0 \notin A
        BY <1>3, <2>5, <2>6
    <3> HIDE DEF A, p0
    <3>2. Cardinality(A \cup {p0}) = Cardinality(A) + 1
        BY <2>4, <3>1, FS_AddElement
    <3> QED
        BY <1>1, <1>3, <2>3, <2>4, <2>6, <3>1, <3>2
  <2>7. CASE u # s
    <3>1. p0 \notin To(u)
        BY <2>7 DEF To, s, Source
    <3>2. {p \in To(u) : Behind(p) \/ p = p0} = A
        BY <3>1
    <3> QED
        BY <1>1, <2>3, <2>4, <2>7, <3>2
  <2> QED
      BY <2>6, <2>7
<1>5. TypeOK'
  <2>1. \A w \in Vertices : next'[w] \in 0..Len(graph[w])
    <3>1. \A w \in Vertices : next[w] \in 0..Len(graph[w])
        BY <1>1 DEF IInv, TypeOK
    <3> QED
        BY <1>1, <1>3, <3>1
  <2>2. out_degree' \in [Vertices -> Nat]
      BY <1>1, <1>3
  <2> QED
      BY <1>1, <1>2, <2>1, <2>2 DEF IInv, TypeOK
<1>6. next' \in [Vertices -> Nat]
    BY <1>1
<1> QED
    BY <1>1, <1>2, <1>4, <1>5, <1>6
       DEF IInv, CountInv, OutLayoutInv, ScatterInv, GatheredInv, SizesInv, LayoutInv, SlicesInv

LEMMA StartOutOffsetsKeeps == IInv /\ StartOutOffsets => IInv'
<1> SUFFICES ASSUME IInv, StartOutOffsets PROVE IInv'
    OBVIOUS
<1>1. /\ phase = "count" /\ phase' = "out_offsets" /\ LoopDone
      /\ out_offsets' = Zeros(0..N) /\ scan' = 0 /\ total' = 0
      /\ UNCHANGED <<call, graph, offsets_, out_degree, next>>
    BY DEF StartOutOffsets
<1>2. /\ GraphInv' /\ N' = N /\ Vertices' = Vertices /\ \A u : To(u)' = To(u)
    BY <1>1, GraphKeeps DEF IInv
<1>3. ASSUME NEW u \in Vertices PROVE out_degree[u] = Cardinality(To(u))
  <2>1. \A p \in To(u) : Behind(p)
    <3> SUFFICES ASSUME NEW p \in To(u) PROVE Behind(p)
        OBVIOUS
    <3>1. p[1] \in Vertices /\ p[2] \in 1..Len(graph[p[1]]) /\ Len(graph[p[1]]) \in Nat
        BY <1>1, ArcFacts
    <3>2. ~(next[p[1]] < Len(graph[p[1]])) /\ next[p[1]] \in Nat
        BY <1>1, <3>1 DEF LoopDone, AtEdge, IInv, CountInv
    <3> QED
        BY <3>1, <3>2 DEF Behind
  <2>2. {p \in To(u) : Behind(p)} = To(u)
      BY <2>1
  <2> QED
      BY <1>1, <2>2 DEF IInv, CountInv
<1>4. out_offsets' \in [0..N -> Nat] /\ N \in Nat
    BY <1>1, ArcFacts DEF Zeros
<1>5. Steps(out_offsets, out_degree)'
    BY <1>1, <1>2, <1>4 DEF Steps, StepsTo
<1>6. TypeOK'
    BY <1>1, <1>2 DEF IInv, TypeOK
<1> QED
    BY <1>1, <1>2, <1>3, <1>4, <1>5, <1>6
       DEF IInv, CountInv, OutLayoutInv, ScatterInv, GatheredInv, SizesInv, LayoutInv, SlicesInv

LEMMA OutPrefixSumKeeps == IInv /\ OutPrefixSum => IInv'
<1> SUFFICES ASSUME IInv, OutPrefixSum PROVE IInv'
    OBVIOUS
<1>1. /\ phase = "out_offsets" /\ phase' = "out_offsets" /\ scan < N
      /\ out_offsets' = [out_offsets EXCEPT ![scan] = total]
      /\ total' = total + out_degree[scan] /\ scan' = scan + 1
      /\ UNCHANGED <<call, graph, offsets_, out_degree, next>>
    BY DEF OutPrefixSum
<1>2. /\ GraphInv' /\ N' = N /\ Vertices' = Vertices /\ \A u : To(u)' = To(u)
    BY <1>1, GraphKeeps DEF IInv
<1>3. /\ N \in Nat /\ scan \in 0..N - 1 /\ scan \in Nat /\ total \in Nat
      /\ out_offsets \in [0..N -> Nat]
      /\ out_degree \in [Vertices -> Nat] /\ Vertices = 0..N - 1
      /\ StepsTo(out_offsets, out_degree, N, scan, total)
    BY <1>1, ArcFacts DEF IInv, TypeOK, OutLayoutInv, Steps, Vertices
<1>4. StepsTo(out_offsets', out_degree, N, scan + 1, total + out_degree[scan])
    BY <1>1, <1>3, StepsOn
<1>5. out_offsets' \in [0..N -> Nat] /\ total' \in Nat /\ scan' \in Nat /\ scan' <= N
    BY <1>1, <1>3
<1>6. TypeOK'
    BY <1>1, <1>2, <1>5 DEF IInv, TypeOK
<1>7. Steps(out_offsets, out_degree)'
    BY <1>1, <1>2, <1>4, <1>5 DEF Steps
<1> QED
    BY <1>1, <1>2, <1>5, <1>6, <1>7
       DEF IInv, CountInv, OutLayoutInv, ScatterInv, GatheredInv, SizesInv, LayoutInv, SlicesInv

LEMMA AllocateOutKeeps == IInv /\ AllocateOut => IInv'
<1> SUFFICES ASSUME IInv, AllocateOut PROVE IInv'
    OBVIOUS
<1>1. /\ phase = "out_offsets" /\ phase' = "scatter" /\ scan = N
      /\ out_offsets' = [out_offsets EXCEPT ![N] = total]
      /\ out_neighbors_arena' = Zeros(0..total - 1)
      /\ cursor' = Zeros(Vertices) /\ next' = Zeros(Vertices)
      /\ slot' = [v \in Vertices |-> NoSlot]
      /\ UNCHANGED <<call, graph, offsets_, out_degree, scan, total>>
    BY DEF AllocateOut
<1>2. /\ GraphInv' /\ N' = N /\ Vertices' = Vertices /\ \A u : To(u)' = To(u)
    BY <1>1, GraphKeeps DEF IInv
<1>3. /\ N \in Nat /\ total \in Nat /\ out_offsets \in [0..N -> Nat]
      /\ out_degree \in [Vertices -> Nat] /\ Vertices = 0..N - 1
      /\ StepsTo(out_offsets, out_degree, N, N, total)
    BY <1>1, ArcFacts DEF IInv, TypeOK, OutLayoutInv, Steps, Vertices
<1>4. \A u \in Vertices : out_offsets'[u + 1] = out_offsets'[u] + out_degree[u]
  <2>1. /\ N \in Nat /\ out_offsets \in [0..N -> Nat] /\ out_degree \in [0..N - 1 -> Nat]
        /\ total \in Nat /\ StepsTo(out_offsets, out_degree, N, N, total)
        /\ out_offsets' = [out_offsets EXCEPT ![N] = total]
      BY <1>1, <1>3
  <2>2. Consecutive(out_offsets', out_degree, N)
      BY <2>1, StepsEnd
  <2> QED
      BY <1>3, <2>2 DEF Consecutive
<1>5. /\ out_offsets' \in [0..N -> Nat] /\ out_offsets'[N] = total
      /\ cursor' \in [Vertices -> Nat] /\ next' \in [Vertices -> Nat]
      /\ \A v \in Vertices : cursor'[v] = 0 /\ next'[v] = 0 /\ slot'[v] = NoSlot
      /\ slot' \in [Vertices -> Nat \cup {NoSlot}]
    BY <1>1, <1>3 DEF Zeros
<1>6. TypeOK'
  <2>1. out_neighbors_arena' \in [0..out_offsets'[N] - 1 -> Vertices]
    <3>1. total > 0 => 0 \in Vertices
        BY <1>3 DEF StepsTo
    <3>2. \A k \in 0..total - 1 : 0 \in Vertices
        BY <1>3, <3>1
    <3> QED
        BY <1>1, <1>5, <3>2 DEF Zeros
  <2>2. \A v \in Vertices : next'[v] \in 0..Len(graph[v])
      BY <1>1, <1>5, ArcFacts
  <2> QED
      BY <1>1, <1>2, <1>5, <2>1, <2>2 DEF IInv, TypeOK
<1>7. ASSUME NEW u \in Vertices
      PROVE  \E b \in Bijection(0..cursor'[u] - 1, Taken(u)') : Keeps(u, b)'
  <2>1. Taken(u)' = {}
    <3> SUFFICES ASSUME NEW p \in To(u), (Behind(p) \/ Pending(p))' PROVE FALSE
        BY <1>2 DEF Taken
    <3>1. p[1] \in Vertices /\ p[2] \in 1..Len(graph[p[1]])
        BY <1>1, ArcFacts
    <3> QED
        BY <1>5, <3>1 DEF Behind, Pending
  <2>2. 0..cursor'[u] - 1 = {}
      BY <1>5
  <2> DEFINE b == [k \in {} |-> 0]
  <2>3. b \in Bijection({}, {})
      BY DEF Bijection, Injection, Surjection, IsInjective
  <2> HIDE DEF b
  <2>4. Keeps(u, b)'
      BY <2>2 DEF Keeps
  <2> QED
      BY <2>1, <2>2, <2>3, <2>4
<1>8. ScatterInv'
    BY <1>2, <1>5, <1>7 DEF ScatterInv
<1> QED
    BY <1>1, <1>2, <1>4, <1>5, <1>6, <1>8
       DEF IInv, CountInv, OutLayoutInv, GatheredInv, SizesInv, LayoutInv, SlicesInv

-----------------------------------------------------------------------------
(* The scatter. *)

(* A vertex has captured no more slots than it has out-edges, and all of   *)
(* them lie in its slice of the arena.                                     *)
LEMMA SlotBounds ==
    ASSUME IInv, phase = "scatter", NEW u \in Vertices
    PROVE  /\ cursor[u] \in Nat /\ out_degree[u] \in Nat /\ cursor[u] <= out_degree[u]
           /\ cursor[u] = Cardinality(Taken(u))
           /\ out_degree[u] = Cardinality(To(u))
           /\ IsFiniteSet(Taken(u)) /\ Taken(u) \subseteq To(u)
<1>1. /\ cursor[u] \in Nat /\ out_degree[u] \in Nat /\ out_degree[u] = Cardinality(To(u))
    BY DEF IInv, TypeOK, CountInv
<1>2. IsFiniteSet(To(u)) /\ Taken(u) \subseteq To(u)
    BY ArcFacts DEF Taken
<1>3. IsFiniteSet(Taken(u)) /\ Cardinality(Taken(u)) <= Cardinality(To(u))
    BY <1>2, FS_Subset
<1>4. cursor[u] = Cardinality(Taken(u))
  <2> DEFINE K == 0..cursor[u] - 1
  <2>1. PICK b \in Bijection(K, Taken(u)) : TRUE
      BY DEF IInv, ScatterInv
  <2>2. IsFiniteSet(K) /\ Cardinality(K) = cursor[u]
    <3>1. 0 \in Int /\ cursor[u] - 1 \in Int
        BY <1>1
    <3>2. /\ IsFiniteSet(K)
          /\ Cardinality(K) = IF 0 > cursor[u] - 1 THEN 0 ELSE cursor[u] - 1 - 0 + 1
        BY <3>1, FS_Interval
    <3> QED
        BY <1>1, <3>2
  <2> HIDE DEF K
  <2>3. \A k \in K : k \in K <=> b[k] \in Taken(u)
      BY <2>1, BijectionFacts
  <2>4. Cardinality(K) = Cardinality(Taken(u))
      BY <2>1, <2>2, <2>3, SameSize
  <2> QED
      BY <2>2, <2>4
<1> QED
    BY <1>1, <1>2, <1>3, <1>4

(* Cells of different vertices, or of different slots, are different.      *)
LEMMA CellsApart ==
    ASSUME IInv, phase = "scatter"
    PROVE  /\ \A u \in Vertices : \A k \in 0..out_degree[u] - 1 :
                  out_offsets[u] + k \in 0..out_offsets[N] - 1
           /\ \A u, w \in Vertices : \A k \in 0..out_degree[u] - 1, j \in 0..out_degree[w] - 1 :
                  out_offsets[u] + k = out_offsets[w] + j => u = w /\ k = j
<1>1. /\ N \in Nat /\ out_offsets \in [0..N -> Nat] /\ out_degree \in [0..N - 1 -> Nat]
      /\ Consecutive(out_offsets, out_degree, N)
    BY ArcFacts DEF IInv, TypeOK, OutLayoutInv, Vertices, Consecutive
<1>2. /\ \A v \in 0..N - 1 : out_offsets[v] + out_degree[v] <= out_offsets[N]
      /\ \A v, w \in 0..N - 1 : v < w => out_offsets[v] + out_degree[v] <= out_offsets[w]
    BY <1>1, SlicesDisjoint
<1>3. \A u \in Vertices : \A k \in 0..out_degree[u] - 1 :
          out_offsets[u] + k \in 0..out_offsets[N] - 1
    BY <1>1, <1>2 DEF Vertices
<1>4. ASSUME NEW u \in Vertices, NEW w \in Vertices, NEW k \in 0..out_degree[u] - 1,
             NEW j \in 0..out_degree[w] - 1, out_offsets[u] + k = out_offsets[w] + j
      PROVE  u = w /\ k = j
  <2>1. /\ u \in 0..N - 1 /\ w \in 0..N - 1 /\ u \in Int /\ w \in Int
        /\ out_offsets[u] \in Nat /\ out_offsets[w] \in Nat
        /\ out_degree[u] \in Nat /\ out_degree[w] \in Nat
      BY <1>1 DEF Vertices
  <2>2. CASE u < w
    <3>1. out_offsets[u] + out_degree[u] <= out_offsets[w]
        BY <1>2, <2>1, <2>2
    <3> QED
        BY <1>4, <2>1, <3>1
  <2>3. CASE w < u
    <3>1. out_offsets[w] + out_degree[w] <= out_offsets[u]
        BY <1>2, <2>1, <2>3
    <3> QED
        BY <1>4, <2>1, <3>1
  <2>4. CASE u = w
      BY <1>4, <2>1, <2>4
  <2> QED
      BY <2>1, <2>2, <2>3, <2>4
<1> QED
    BY <1>3, <1>4

(* The entry the loop of v is at. *)
LEMMA AtEntry ==
    ASSUME IInv, phase = "scatter", NEW v \in Vertices, AtEdge(v)
    PROVE  /\ next[v] \in Nat /\ next[v] + 1 \in 1..Len(graph[v])
           /\ <<v, next[v] + 1>> \in To(Source(v)) /\ Source(v) \in Vertices
           /\ ~Behind(<<v, next[v] + 1>>)
<1>1. next[v] \in Nat /\ Len(graph[v]) \in Nat /\ next[v] + 1 \in 1..Len(graph[v])
    BY ArcFacts DEF AtEdge, IInv, CountInv
<1>2. <<v, next[v] + 1>> \in Arcs /\ graph[v][next[v] + 1] \in Vertices
    BY <1>1, ArcFacts
<1> QED
    BY <1>1, <1>2 DEF To, Source, Behind

LEMMA CaptureSlotKeeps == IInv /\ (\E v \in Vertices : CaptureSlot(v)) => IInv'
<1> SUFFICES ASSUME IInv, NEW v \in Vertices, CaptureSlot(v) PROVE IInv'
    OBVIOUS
<1> DEFINE s == Source(v)
           p0 == <<v, next[v] + 1>>
<1>1. /\ phase = "scatter" /\ phase' = "scatter" /\ AtEdge(v) /\ slot[v] = NoSlot
      /\ slot' = [slot EXCEPT ![v] = cursor[s]]
      /\ cursor' = [cursor EXCEPT ![s] = @ + 1]
      /\ UNCHANGED <<call, graph, offsets_, out_degree, out_offsets,
                     out_neighbors_arena, next, scan, total>>
      /\ cursor \in [Vertices -> Nat] /\ slot \in [Vertices -> Nat \cup {NoSlot}]
    BY DEF CaptureSlot, IInv, TypeOK, ScatterInv
<1>2. /\ GraphInv' /\ N' = N /\ Vertices' = Vertices /\ \A u : To(u)' = To(u)
    BY <1>1, GraphKeeps DEF IInv
<1>3. /\ p0 \in To(s) /\ s \in Vertices /\ ~Behind(p0)
    BY <1>1, AtEntry
<1> HIDE DEF s
<1>4. /\ slot' \in [Vertices -> Nat \cup {NoSlot}] /\ slot'[v] = cursor[s]
      /\ \A w \in Vertices : w # v => slot'[w] = slot[w]
      /\ slot'[v] # NoSlot
      /\ cursor' \in [Vertices -> Nat] /\ cursor'[s] = cursor[s] + 1
      /\ \A u \in Vertices : u # s => cursor'[u] = cursor[u]
    BY <1>1, <1>3 DEF NoSlot
<1>5. /\ \A p : Behind(p)' = Behind(p)
      /\ \A w : AtEdge(w)' = AtEdge(w)
    BY <1>1 DEF Behind, AtEdge
<1>6. \A u : \A p \in To(u) : Pending(p)' <=> Pending(p) \/ p = p0
  <2> SUFFICES ASSUME NEW u, NEW p \in To(u) PROVE Pending(p)' <=> Pending(p) \/ p = p0
      OBVIOUS
  <2>1. p = <<p[1], p[2]>> /\ p[1] \in Vertices
      BY <1>1, ArcFacts
  <2> QED
      BY <1>1, <1>4, <2>1 DEF Pending
<1>7. ~Pending(p0)
    BY <1>1 DEF Pending
<1>8. ASSUME NEW u \in Vertices
      PROVE  \E b \in Bijection(0..cursor'[u] - 1, Taken(u)') : Keeps(u, b)'
  <2>1. PICK b \in Bijection(0..cursor[u] - 1, Taken(u)) : Keeps(u, b)
      BY <1>1 DEF IInv, ScatterInv
  <2>2. \A k \in 0..cursor[u] - 1 : b[k] \in Taken(u)
    <3> DEFINE K == 0..cursor[u] - 1
    <3>1. b \in Bijection(K, Taken(u))
        BY <2>1
    <3> HIDE DEF K
    <3>2. \A k \in K : b[k] \in Taken(u)
        BY <3>1, BijectionFacts
    <3> QED
        BY <3>2 DEF K
  <2>3. \A k \in 0..cursor[u] - 1 :
            /\ b[k] # p0
            /\ IF Behind(b[k]) THEN out_neighbors_arena'[out_offsets'[u] + k] = b[k][1]
                               ELSE slot'[b[k][1]] = k
    <3> SUFFICES ASSUME NEW k \in 0..cursor[u] - 1
                 PROVE  /\ b[k] # p0
                        /\ IF Behind(b[k])
                           THEN out_neighbors_arena'[out_offsets'[u] + k] = b[k][1]
                           ELSE slot'[b[k][1]] = k
        OBVIOUS
    <3>1. /\ b[k] \in To(u) /\ (Behind(b[k]) \/ Pending(b[k]))
        BY <2>2 DEF Taken
    <3>2. b[k] # p0
        BY <1>3, <1>7, <3>1
    <3>3. CASE Behind(b[k])
        BY <1>1, <2>1, <3>2, <3>3 DEF Keeps
    <3>4. CASE ~Behind(b[k])
      <4>1. b[k][1] # v /\ b[k][1] \in Vertices
          BY <1>1, <3>1, <3>4, ArcFacts DEF Pending
      <4>2. slot[b[k][1]] = k
          BY <2>1, <3>4 DEF Keeps
      <4> QED
          BY <1>4, <3>2, <3>4, <4>1, <4>2
    <3> QED
        BY <3>3, <3>4
  <2>4. Taken(u)' = {p \in To(u) : Behind(p) \/ Pending(p) \/ p = p0}
      BY <1>2, <1>5, <1>6 DEF Taken
  <2>5. CASE u # s
    <3>1. p0 \notin To(u)
        BY <2>5 DEF To, s, Source
    <3>2. Taken(u)' = Taken(u)
        BY <2>4, <3>1 DEF Taken
    <3>3. Keeps(u, b)'
        BY <1>4, <1>5, <2>3, <2>5 DEF Keeps
    <3> QED
        BY <1>4, <2>1, <2>5, <3>2, <3>3
  <2>6. CASE u = s
    <3> DEFINE n == cursor[u]
    <3>1. n \in Nat
        BY <1>1
    <3>2. Taken(u)' = Taken(u) \cup {p0} /\ p0 \notin Taken(u)
        BY <1>3, <1>7, <2>4, <2>6 DEF Taken
    <3> HIDE DEF p0
    <3>3. PICK c \in Bijection(0..n, Taken(u) \cup {p0}) :
                   c = [k \in 0..n |-> IF k = n THEN p0 ELSE b[k]]
        BY <2>1, <3>1, <3>2, ExtendedBijection
    <3>4. cursor'[u] - 1 = n
        BY <1>4, <2>6, <3>1
    <3>5. ASSUME NEW k \in 0..n
          PROVE  IF Behind(c[k]) THEN out_neighbors_arena'[out_offsets'[u] + k] = c[k][1]
                                 ELSE slot'[c[k][1]] = k
      <4>1. CASE k = n
        <5>1. c[k] = p0
            BY <3>3, <4>1
        <5>2. p0[1] = v
            BY DEF p0
        <5> QED
            BY <1>3, <1>4, <2>6, <4>1, <5>1, <5>2
      <4>2. CASE k # n
        <5>1. c[k] = b[k] /\ k \in 0..cursor[u] - 1
            BY <3>1, <3>3, <4>2
        <5> QED
            BY <2>3, <5>1
      <4> QED
          BY <4>1, <4>2
    <3>6. Keeps(u, c)'
        BY <1>5, <3>4, <3>5 DEF Keeps
    <3> QED
        BY <3>2, <3>3, <3>4, <3>6
  <2> QED
      BY <2>5, <2>6
<1>9. ScatterInv'
  <2>1. \A w \in Vertices : slot'[w] # NoSlot => AtEdge(w)'
      BY <1>1, <1>4, <1>5 DEF IInv, ScatterInv
  <2> QED
      BY <1>2, <1>4, <1>8, <2>1 DEF ScatterInv
<1>10. TypeOK'
    BY <1>1, <1>2, <1>4 DEF IInv, TypeOK
<1> QED
    BY <1>1, <1>2, <1>9, <1>10
       DEF IInv, CountInv, OutLayoutInv, GatheredInv, SizesInv, LayoutInv, SlicesInv

LEMMA StoreOutKeeps == IInv /\ (\E v \in Vertices : StoreOut(v)) => IInv'
<1> SUFFICES ASSUME IInv, NEW v \in Vertices, StoreOut(v) PROVE IInv'
    OBVIOUS
<1> DEFINE s == Source(v)
           p0 == <<v, next[v] + 1>>
           cell == out_offsets[s] + slot[v]
<1>1. /\ phase = "scatter" /\ phase' = "scatter" /\ AtEdge(v) /\ slot[v] # NoSlot
      /\ out_neighbors_arena' = [out_neighbors_arena EXCEPT ![cell] = v]
      /\ slot' = [slot EXCEPT ![v] = NoSlot]
      /\ next' = [next EXCEPT ![v] = @ + 1]
      /\ UNCHANGED <<call, graph, offsets_, out_degree, out_offsets, cursor, scan, total>>
      /\ slot \in [Vertices -> Nat \cup {NoSlot}] /\ next \in [Vertices -> Nat]
      /\ out_neighbors_arena \in [0..out_offsets[N] - 1 -> Vertices]
    BY DEF StoreOut, IInv, TypeOK, ScatterInv, CountInv
<1>2. /\ GraphInv' /\ N' = N /\ Vertices' = Vertices /\ \A u : To(u)' = To(u)
    BY <1>1, GraphKeeps DEF IInv
<1>3. /\ p0 \in To(s) /\ s \in Vertices /\ ~Behind(p0)
      /\ next[v] + 1 \in 1..Len(graph[v]) /\ next[v] \in Nat
    BY <1>1, AtEntry
<1>4. Pending(p0) /\ p0 \in Taken(s)
    BY <1>1, <1>3 DEF Pending, Taken
<1> HIDE DEF s
<1>5. /\ slot' \in [Vertices -> Nat \cup {NoSlot}] /\ slot'[v] = NoSlot
      /\ \A w \in Vertices : w # v => slot'[w] = slot[w]
      /\ next' \in [Vertices -> Nat] /\ next'[v] = next[v] + 1
      /\ \A w \in Vertices : w # v => next'[w] = next[w]
    BY <1>1, <1>3
<1>6. \A u : \A p \in To(u) : /\ Behind(p)' <=> Behind(p) \/ p = p0
                              /\ Pending(p)' <=> Pending(p) /\ p # p0
  <2> SUFFICES ASSUME NEW u, NEW p \in To(u)
               PROVE  /\ Behind(p)' <=> Behind(p) \/ p = p0
                      /\ Pending(p)' <=> Pending(p) /\ p # p0
      OBVIOUS
  <2>1. p = <<p[1], p[2]>> /\ p[1] \in Vertices /\ p[2] \in Int /\ next[p[1]] \in Nat
      BY <1>1, ArcFacts
  <2>2. CASE p[1] = v
      BY <1>3, <1>5, <2>1, <2>2 DEF Behind, Pending
  <2>3. CASE p[1] # v
      BY <1>5, <2>1, <2>3 DEF Behind, Pending
  <2> QED
      BY <2>2, <2>3
<1>7. \A u : Taken(u)' = Taken(u)
    BY <1>2, <1>4, <1>6 DEF Taken
<1>8. /\ cell \in DOMAIN out_neighbors_arena
      /\ slot[v] \in 0..cursor[s] - 1
      /\ \A b \in Bijection(0..cursor[s] - 1, Taken(s)) : Keeps(s, b) => b[slot[v]] = p0
  <2>1. ASSUME NEW b \in Bijection(0..cursor[s] - 1, Taken(s)), Keeps(s, b)
        PROVE  slot[v] \in 0..cursor[s] - 1 /\ b[slot[v]] = p0
    <3> DEFINE K == 0..cursor[s] - 1
    <3>1. b \in Bijection(K, Taken(s))
        OBVIOUS
    <3> HIDE DEF K, p0
    <3>2. PICK k \in K : b[k] = p0
        BY <1>4, <3>1, BijectionFacts
    <3>3. ~Behind(b[k]) /\ b[k][1] = v
        BY <1>3, <3>2 DEF p0
    <3>4. slot[v] = k
        BY <2>1, <3>3 DEF Keeps, K
    <3> QED
        BY <3>2, <3>4 DEF K
  <2>2. \E b \in Bijection(0..cursor[s] - 1, Taken(s)) : Keeps(s, b)
      BY <1>1, <1>3 DEF IInv, ScatterInv
  <2>3. slot[v] \in 0..cursor[s] - 1
      BY <2>1, <2>2
  <2>4. slot[v] \in 0..out_degree[s] - 1
      BY <1>1, <1>3, <2>3, SlotBounds
  <2>5. cell \in 0..out_offsets[N] - 1
      BY <1>1, <1>3, <2>4, CellsApart
  <2> QED
      BY <1>1, <2>1, <2>3, <2>5
<1>9. ASSUME NEW u \in Vertices
      PROVE  \E b \in Bijection(0..cursor'[u] - 1, Taken(u)') : Keeps(u, b)'
  <2>1. PICK b \in Bijection(0..cursor[u] - 1, Taken(u)) : Keeps(u, b)
      BY <1>1 DEF IInv, ScatterInv
  <2>2. /\ \A k \in 0..cursor[u] - 1 : b[k] \in Taken(u)
        /\ \A j, k \in 0..cursor[u] - 1 : b[j] = b[k] => j = k
    <3> DEFINE K == 0..cursor[u] - 1
    <3>1. b \in Bijection(K, Taken(u))
        BY <2>1
    <3> HIDE DEF K
    <3>2. (\A k \in K : b[k] \in Taken(u)) /\ \A j, k \in K : b[j] = b[k] => j = k
        BY <3>1, BijectionFacts
    <3> QED
        BY <3>2 DEF K
  <2>3. ASSUME NEW k \in 0..cursor[u] - 1
        PROVE  IF Behind(b[k])' THEN out_neighbors_arena'[out_offsets'[u] + k] = b[k][1]
                                ELSE slot'[b[k][1]] = k
    <3>1. b[k] \in To(u) /\ (Behind(b[k]) \/ Pending(b[k]))
        BY <2>2 DEF Taken
    <3>2. /\ Behind(b[k])' <=> Behind(b[k]) \/ b[k] = p0
        BY <1>6, <3>1
    <3>3. /\ b[k] = <<b[k][1], b[k][2]>> /\ b[k][1] \in Vertices
          /\ k \in 0..out_degree[u] - 1 /\ slot[v] \in 0..out_degree[s] - 1
      <4>1. /\ cursor[u] \in Nat /\ out_degree[u] \in Nat /\ cursor[u] <= out_degree[u]
            /\ cursor[s] \in Nat /\ out_degree[s] \in Nat /\ cursor[s] <= out_degree[s]
          BY <1>1, <1>3, SlotBounds
      <4>2. b[k] = <<b[k][1], b[k][2]>> /\ b[k][1] \in Vertices
          BY <1>1, <3>1, ArcFacts
      <4> QED
          BY SMTT(30), <1>8, <4>1, <4>2
    <3>4. /\ out_offsets[u] + k \in 0..out_offsets[N] - 1
          /\ out_offsets[u] + k = cell => u = s /\ k = slot[v]
        BY <1>1, <1>3, <3>3, CellsApart
    <3>5. CASE b[k] = p0
      <4>1. u = s
          BY <3>1, <3>5 DEF To, s, Source
      <4>2. k = slot[v]
          BY <1>8, <2>1, <2>2, <3>5, <4>1
      <4>3. out_neighbors_arena'[cell] = v
          BY <1>1, <1>8
      <4> QED
          BY <1>1, <3>2, <3>5, <4>1, <4>2, <4>3
    <3>6. CASE b[k] # p0 /\ Behind(b[k])
      <4>1. out_neighbors_arena[out_offsets[u] + k] = b[k][1]
          BY <2>1, <3>6 DEF Keeps
      <4>2. out_offsets[u] + k # cell
          BY <1>8, <2>1, <3>4, <3>6
      <4> QED
          BY <1>1, <3>2, <3>4, <3>6, <4>1, <4>2
    <3>7. CASE b[k] # p0 /\ ~Behind(b[k])
      <4>1. slot[b[k][1]] = k
          BY <2>1, <3>7 DEF Keeps
      <4>2. b[k][1] # v
          BY <3>1, <3>3, <3>7 DEF Pending
      <4> QED
          BY <1>5, <3>2, <3>3, <3>7, <4>1, <4>2
    <3> QED
        BY <3>5, <3>6, <3>7
  <2>4. Keeps(u, b)'
      BY <1>1, <2>3 DEF Keeps
  <2> QED
      BY <1>1, <1>7, <2>1, <2>4
<1>10. ScatterInv'
  <2>1. \A w \in Vertices : slot'[w] # NoSlot => AtEdge(w)'
      BY <1>1, <1>5 DEF IInv, ScatterInv, AtEdge
  <2> QED
      BY <1>2, <1>5, <1>9, <2>1 DEF ScatterInv
<1>11. TypeOK'
  <2>1. \A w \in Vertices : next'[w] \in 0..Len(graph[w])
    <3>1. \A w \in Vertices : next[w] \in 0..Len(graph[w])
        BY <1>1 DEF IInv, TypeOK
    <3>2. next[v] + 1 \in 0..Len(graph[v])
        BY <1>1, <1>3, ArcFacts
    <3> QED
        BY <1>5, <3>1, <3>2
  <2>2. out_neighbors_arena' \in [0..out_offsets[N] - 1 -> Vertices]
      BY <1>1
  <2> QED
      BY <1>1, <1>2, <2>1, <2>2 DEF IInv, TypeOK
<1> QED
    BY <1>1, <1>2, <1>5, <1>10, <1>11
       DEF IInv, CountInv, OutLayoutInv, GatheredInv, SizesInv, LayoutInv, SlicesInv

-----------------------------------------------------------------------------
(* What is gathered. *)

(* At the end of the scatter u's slice names the vertices u has edges to.  *)
LEMMA ScatterDone ==
    ASSUME IInv, phase = "scatter", LoopDone, NEW u \in Vertices
    PROVE  /\ cursor[u] = out_degree[u]
           /\ \A k \in 0..out_degree[u] - 1 : out_neighbors_arena[out_offsets[u] + k] \in Vertices
           /\ \A v \in Vertices : u \in Range(graph[v]) <=>
                  \E k \in 0..out_degree[u] - 1 : out_neighbors_arena[out_offsets[u] + k] = v
<1>1. \A p \in To(u) : Behind(p)
  <2> SUFFICES ASSUME NEW p \in To(u) PROVE Behind(p)
      OBVIOUS
  <2>1. p[1] \in Vertices /\ p[2] \in 1..Len(graph[p[1]]) /\ Len(graph[p[1]]) \in Nat
      BY ArcFacts
  <2>2. ~(next[p[1]] < Len(graph[p[1]])) /\ next[p[1]] \in Nat
      BY <2>1 DEF LoopDone, AtEdge, IInv, CountInv
  <2> QED
      BY <2>1, <2>2 DEF Behind
<1>2. Taken(u) = To(u) /\ cursor[u] = out_degree[u]
  <2>1. Taken(u) = To(u)
      BY <1>1 DEF Taken
  <2> QED
      BY <2>1, SlotBounds
<1> DEFINE K == 0..out_degree[u] - 1
<1>3. PICK b \in Bijection(K, To(u)) : Keeps(u, b)
    BY <1>2 DEF IInv, ScatterInv
<1> HIDE DEF K
<1>4. /\ \A k \in K : b[k] \in To(u)
      /\ \A p \in To(u) : \E k \in K : b[k] = p
    BY <1>3, BijectionFacts
<1>5. \A k \in K : out_neighbors_arena[out_offsets[u] + k] = b[k][1]
    BY <1>1, <1>2, <1>3, <1>4 DEF Keeps, K
<1>6. \A k \in K : b[k][1] \in Vertices
    BY <1>4, ArcFacts
<1>7. ASSUME NEW v \in Vertices
      PROVE  u \in Range(graph[v]) <=> \E k \in K : b[k][1] = v
  <2>1. ASSUME u \in Range(graph[v]) PROVE \E k \in K : b[k][1] = v
    <3>1. PICK i \in 1..Len(graph[v]) : graph[v][i] = u
        BY <2>1, ArcFacts DEF Range
    <3>2. <<v, i>> \in To(u)
        BY <3>1, ArcFacts DEF To
    <3>3. PICK k \in K : b[k] = <<v, i>>
        BY <1>4, <3>2
    <3> QED
        BY <3>3
  <2>2. ASSUME NEW k \in K, b[k][1] = v PROVE u \in Range(graph[v])
    <3>1. /\ b[k] \in Arcs /\ graph[b[k][1]][b[k][2]] = u
        BY <1>4 DEF To
    <3>2. b[k][2] \in DOMAIN graph[v]
        BY <2>2, <3>1, ArcFacts
    <3> QED
        BY <2>2, <3>1, <3>2 DEF Range
  <2> QED
      BY <2>1, <2>2
<1> QED
    BY <1>2, <1>5, <1>6, <1>7 DEF K

LEMMA NeighborsFinite ==
    ASSUME IInv, phase # "unbuilt", NEW u \in Vertices
    PROVE  /\ Neighbors(u) \subseteq Vertices /\ Neighbors(u) \subseteq Int
           /\ IsFiniteSet(Neighbors(u))
           /\ Cardinality(Neighbors(u)) \in Nat /\ Cardinality(Neighbors(u)) <= N
<1>1. N \in Nat
    BY ArcFacts
<1>2. IsFiniteSet(Vertices) /\ Cardinality(Vertices) = N
    BY <1>1, FS_Interval DEF Vertices
<1>3. Neighbors(u) \in SUBSET Vertices
    BY DEF Neighbors
<1>4. IsFiniteSet(Neighbors(u)) /\ Cardinality(Neighbors(u)) <= N
    BY <1>2, <1>3, FS_Subset
<1> QED
    BY <1>3, <1>4, FS_CardinalityType DEF Vertices

LEMMA GatheredRight ==
    ASSUME IInv, NEW u \in Vertices, phase = "undirected" \/ (phase = "scatter" /\ LoopDone)
    PROVE  Range(Gathered(u)) = Neighbors(u)
<1>1. /\ graph[u] \in Seq(Vertices) /\ Range(graph[u]) \subseteq Vertices
      /\ \A v \in Vertices : Joined(u, v) <=> \/ v \in Range(graph[u])
                                              \/ call.is_directed /\ u \in Range(graph[v])
  <2>1. graph[u] \in Seq(Vertices)
      BY DEF IInv, TypeOK
  <2>2. Range(graph[u]) \subseteq Vertices
      BY <2>1, LenProperties DEF Range
  <2> QED
      BY <2>1, <2>2 DEF IInv, GraphInv
<1>2. CASE phase = "undirected"
  <2>1. ~call.is_directed
      BY <1>2 DEF IInv, CountInv
  <2>2. Gathered(u) = graph[u]
      BY <1>1, <2>1 DEF Gathered
  <2> QED
      BY <1>1, <2>1, <2>2 DEF Neighbors
<1>3. CASE phase = "scatter" /\ LoopDone
  <2> DEFINE d == out_degree[u]
             o == out_offsets[u]
             t == [i \in 1..d |-> out_neighbors_arena[o + i - 1]]
  <2>1. call.is_directed /\ d \in Nat /\ o \in Nat /\ out_offsets[u + 1] = o + d
      BY SMTT(30), <1>3, ArcFacts DEF IInv, TypeOK, OutLayoutInv, Vertices
  <2>2. out_offsets[u + 1] - out_offsets[u] = d
      BY <2>1
  <2>3. Gathered(u) = graph[u] \o t
      BY <2>1, <2>2 DEF Gathered
  <2> HIDE DEF d, o
  <2>4. /\ \A i \in 1..d : i - 1 \in 0..d - 1 /\ o + i - 1 = o + (i - 1)
        /\ \A k \in 0..d - 1 : k + 1 \in 1..d /\ o + (k + 1) - 1 = o + k
      BY <2>1
  <2>5. /\ \A k \in 0..d - 1 : out_neighbors_arena[o + k] \in Vertices
        /\ \A v \in Vertices : u \in Range(graph[v]) <=>
               \E k \in 0..d - 1 : out_neighbors_arena[o + k] = v
      BY <1>3, ScatterDone DEF d, o
  <2>6. t \in [1..d -> Vertices] /\ \A i \in 1..d : t[i] = out_neighbors_arena[o + (i - 1)]
      BY <2>4, <2>5
  <2> HIDE DEF t
  <2>7. t \in Seq(Vertices) /\ DOMAIN t = 1..d
      BY <2>1, <2>6, ListIsSeq
  <2>8. Range(t) = {v \in Vertices : u \in Range(graph[v])}
    <3>1. ASSUME NEW v \in Range(t) PROVE v \in Vertices /\ u \in Range(graph[v])
      <4>1. PICK i \in 1..d : t[i] = v
          BY <2>7 DEF Range
      <4>2. v \in Vertices /\ out_neighbors_arena[o + (i - 1)] = v /\ i - 1 \in 0..d - 1
          BY <2>4, <2>6, <4>1
      <4> QED
          BY <2>5, <4>2
    <3>2. ASSUME NEW v \in Vertices, u \in Range(graph[v]) PROVE v \in Range(t)
      <4>1. PICK k \in 0..d - 1 : out_neighbors_arena[o + k] = v
          BY <2>5, <3>2
      <4>2. k + 1 \in 1..d /\ (k + 1) - 1 = k
          BY <2>1
      <4>3. t[k + 1] = v
          BY <2>6, <4>1, <4>2
      <4> QED
          BY <2>7, <4>2, <4>3 DEF Range
    <3> QED
        BY <3>1, <3>2
  <2>9. Range(Gathered(u)) = Range(graph[u]) \cup Range(t)
      BY <1>1, <2>3, <2>7, RangeConcat
  <2> QED
      BY <1>1, <2>1, <2>8, <2>9 DEF Neighbors
<1> QED
    BY <1>2, <1>3

-----------------------------------------------------------------------------
(* The two passes over the gathered neighbours. *)

(* What sort and unique make of the gathered vertices. *)
LEMMA FoundSorted ==
    ASSUME IInv, phase \in {"sizes", "offsets", "copy"}, NEW u \in Vertices
    PROVE  /\ SortUnique(Gathered(u)) = Sorted(Neighbors(u))
           /\ Len(SortUnique(Gathered(u))) = Cardinality(Neighbors(u))
           /\ SizeOf(u) = Cardinality(Neighbors(u))
           /\ Cardinality(Neighbors(u)) \in 0..N
           /\ \A i \in 1..Cardinality(Neighbors(u)) : Sorted(Neighbors(u))[i] \in Vertices
<1> DEFINE S == Neighbors(u)
           n == Cardinality(S)
           s == Sorted(S)
<1>1. IsFiniteSet(S) /\ S \subseteq Int /\ S \subseteq Vertices /\ n \in Nat /\ n <= N
    BY NeighborsFinite
<1>2. Range(Gathered(u)) = S
    BY DEF IInv, GatheredInv
<1>3. SortUnique(Gathered(u)) = Sorted(S)
    BY <1>2 DEF SortUnique, Sorted
<1>5. \A i \in 1..n : s[i] \in S
  <2> HIDE DEF S
  <2> QED
      BY <1>1, SortedRight
<1>6. Len(s) = n
  <2>1. s = [i \in 1..n |-> s[i]]
      BY DEF Sorted
  <2> HIDE DEF S, s, n
  <2>2. s \in [1..n -> S]
      BY <1>5, <2>1
  <2> QED
      BY <1>1, <2>2, ListIsSeq
<1>7. N \in Nat
    BY ArcFacts
<1> QED
    BY <1>1, <1>3, <1>5, <1>6, <1>7 DEF SizeOf

LEMMA StartSizesKeeps == IInv /\ StartSizes => IInv'
<1> SUFFICES ASSUME IInv, StartSizes PROVE IInv'
    OBVIOUS
<1>1. /\ phase = "undirected" \/ (phase = "scatter" /\ LoopDone)
      /\ phase' = "sizes" /\ sizes' = Zeros(Vertices) /\ done' = {}
      /\ UNCHANGED <<call, graph, offsets_, out_offsets, out_neighbors_arena, scan, total>>
    BY DEF StartSizes, transpose
<1>2. /\ GraphInv' /\ N' = N /\ Vertices' = Vertices /\ \A u : Neighbors(u)' = Neighbors(u)
    BY <1>1, GraphKeeps DEF IInv
<1>3. \A u : Gathered(u)' = Gathered(u)
    BY <1>1 DEF Gathered
<1>4. GatheredInv'
  <2>1. \A u \in Vertices : Range(Gathered(u)) = Neighbors(u)
      BY <1>1, GatheredRight
  <2> QED
      BY <1>2, <1>3, <2>1 DEF GatheredInv
<1>5. sizes' \in [Vertices -> 0..N] /\ N \in Nat
    BY <1>1, ArcFacts DEF Zeros
<1>6. TypeOK'
    BY <1>1, <1>2, <1>5 DEF IInv, TypeOK
<1> QED
    BY <1>1, <1>2, <1>4, <1>6
       DEF IInv, CountInv, OutLayoutInv, ScatterInv, SizesInv, LayoutInv, SlicesInv

LEMMA SizeVertexKeeps == IInv /\ (\E v \in Vertices : SizeVertex(v)) => IInv'
<1> SUFFICES ASSUME IInv, NEW w \in Vertices, SizeVertex(w) PROVE IInv'
    OBVIOUS
<1>1. /\ phase = "sizes" /\ phase' = "sizes" /\ sizes' = [sizes EXCEPT ![w] = SizeOf(w)]
      /\ done' = done \cup {w}
      /\ UNCHANGED <<call, graph, offsets_, out_offsets, out_neighbors_arena, scan, total>>
      /\ sizes \in [Vertices -> 0..N] /\ done \subseteq Vertices
    BY DEF SizeVertex, transpose, IInv, TypeOK
<1>2. /\ GraphInv' /\ N' = N /\ Vertices' = Vertices /\ \A u : Neighbors(u)' = Neighbors(u)
    BY <1>1, GraphKeeps DEF IInv
<1>3. \A u : Gathered(u)' = Gathered(u)
    BY <1>1 DEF Gathered
<1>4. SizeOf(w) = Cardinality(Neighbors(w)) /\ SizeOf(w) \in 0..N
    BY <1>1, FoundSorted
<1>5. sizes' \in [Vertices -> 0..N] /\ sizes'[w] = SizeOf(w)
      /\ \A u \in Vertices : u # w => sizes'[u] = sizes[u]
    BY <1>1, <1>4
<1>6. \A u \in done' : sizes'[u] = Cardinality(Neighbors(u))
    BY <1>1, <1>4, <1>5 DEF IInv, SizesInv
<1>7. TypeOK'
    BY <1>1, <1>2, <1>5 DEF IInv, TypeOK
<1>8. SizesInv'
    BY <1>1, <1>2, <1>6 DEF SizesInv
<1> QED
    BY <1>1, <1>2, <1>3, <1>7, <1>8
       DEF IInv, CountInv, OutLayoutInv, ScatterInv, GatheredInv, LayoutInv, SlicesInv

LEMMA StartOffsetsKeeps == IInv /\ StartOffsets => IInv'
<1> SUFFICES ASSUME IInv, StartOffsets PROVE IInv'
    OBVIOUS
<1>1. /\ phase = "sizes" /\ phase' = "offsets" /\ done = Vertices
      /\ scan' = 0 /\ total' = 0
      /\ UNCHANGED <<call, graph, offsets_, out_offsets, out_neighbors_arena, sizes, done>>
    BY DEF StartOffsets, transpose
<1>2. /\ GraphInv' /\ N' = N /\ Vertices' = Vertices /\ \A u : Neighbors(u)' = Neighbors(u)
    BY <1>1, GraphKeeps DEF IInv
<1>3. \A u : Gathered(u)' = Gathered(u)
    BY <1>1 DEF Gathered
<1>4. N \in Nat
    BY <1>1, ArcFacts
<1>5. Steps(offsets_, sizes)'
    BY <1>1, <1>2, <1>4 DEF Steps, StepsTo
<1>6. TypeOK'
    BY <1>1, <1>2 DEF IInv, TypeOK
<1> QED
    BY <1>1, <1>2, <1>3, <1>5, <1>6
       DEF IInv, CountInv, OutLayoutInv, ScatterInv, GatheredInv, SizesInv, LayoutInv, SlicesInv

LEMMA PrefixSumKeeps == IInv /\ PrefixSum => IInv'
<1> SUFFICES ASSUME IInv, PrefixSum PROVE IInv'
    OBVIOUS
<1>1. /\ phase = "offsets" /\ phase' = "offsets" /\ scan < N
      /\ offsets_' = [offsets_ EXCEPT ![scan] = total]
      /\ total' = total + sizes[scan] /\ scan' = scan + 1
      /\ UNCHANGED <<call, graph, out_offsets, out_neighbors_arena, sizes, done>>
    BY DEF PrefixSum, transpose
<1>2. /\ GraphInv' /\ N' = N /\ Vertices' = Vertices /\ \A u : Neighbors(u)' = Neighbors(u)
    BY <1>1, GraphKeeps DEF IInv
<1>3. \A u : Gathered(u)' = Gathered(u)
    BY <1>1 DEF Gathered
<1>4. /\ N \in Nat /\ scan \in 0..N - 1 /\ scan \in Nat /\ total \in Nat
      /\ offsets_ \in [0..N -> Nat] /\ sizes \in [0..N - 1 -> Nat]
      /\ StepsTo(offsets_, sizes, N, scan, total)
    BY <1>1, ArcFacts DEF IInv, TypeOK, LayoutInv, Steps, Vertices
<1>5. StepsTo(offsets_', sizes, N, scan + 1, total + sizes[scan])
    BY <1>1, <1>4, StepsOn
<1>6. offsets_' \in [0..N -> Nat] /\ total' \in Nat /\ scan' \in Nat /\ scan' <= N
    BY <1>1, <1>4
<1>7. TypeOK'
    BY <1>1, <1>2, <1>6 DEF IInv, TypeOK
<1>8. Steps(offsets_, sizes)'
    BY <1>1, <1>2, <1>5, <1>6 DEF Steps
<1> QED
    BY <1>1, <1>2, <1>3, <1>7, <1>8
       DEF IInv, CountInv, OutLayoutInv, ScatterInv, GatheredInv, SizesInv, LayoutInv, SlicesInv

LEMMA AllocateNeighborsKeeps == IInv /\ AllocateNeighbors => IInv'
<1> SUFFICES ASSUME IInv, AllocateNeighbors PROVE IInv'
    OBVIOUS
<1>1. /\ phase = "offsets" /\ phase' = "copy" /\ scan = N
      /\ offsets_' = [offsets_ EXCEPT ![N] = total]
      /\ neighbors_' = Zeros(0..total - 1)
      /\ done' = {u \in Vertices : sizes[u] = 0}
      /\ UNCHANGED <<call, graph, out_offsets, out_neighbors_arena, sizes, scan, total>>
    BY DEF AllocateNeighbors, transpose
<1>2. /\ GraphInv' /\ N' = N /\ Vertices' = Vertices /\ \A u : Neighbors(u)' = Neighbors(u)
    BY <1>1, GraphKeeps DEF IInv
<1>3. \A u : Gathered(u)' = Gathered(u)
    BY <1>1 DEF Gathered
<1>4. /\ N \in Nat /\ offsets_ \in [0..N -> Nat] /\ sizes \in [0..N - 1 -> Nat]
      /\ total \in Nat /\ StepsTo(offsets_, sizes, N, N, total)
      /\ offsets_' = [offsets_ EXCEPT ![N] = total]
    BY <1>1, ArcFacts DEF IInv, TypeOK, LayoutInv, Steps, Vertices
<1>5. Consecutive(offsets_', sizes, N)
    BY <1>4, StepsEnd
<1>6. \A u \in Vertices : sizes[u] = Cardinality(Neighbors(u))
    BY <1>1 DEF IInv, SizesInv
<1>7. \A u \in Vertices : offsets_'[u + 1] = offsets_'[u] + Cardinality(Neighbors(u))
    BY <1>5, <1>6 DEF Consecutive, Vertices
<1>8. offsets_' \in [0..N -> Nat] /\ offsets_'[N] = total
    BY <1>4
<1>9. TypeOK'
  <2>1. neighbors_' \in [0..offsets_'[N] - 1 -> Vertices]
    <3>1. \A k \in 0..total - 1 : 0 \in Vertices
        BY <1>4 DEF StepsTo, Vertices
    <3> QED
        BY <1>1, <1>8, <3>1 DEF Zeros
  <2> QED
      BY <1>1, <1>2, <1>8, <2>1 DEF IInv, TypeOK
<1>10. SlicesInv'
  <2>1. \A u \in done' : 1..Cardinality(Neighbors(u)) = {}
      BY <1>1, <1>6
  <2> QED
      BY <1>1, <1>2, <2>1 DEF SlicesInv
<1>11. LayoutInv'
    BY <1>1, <1>2, <1>7 DEF LayoutInv
<1>12. SizesInv'
    BY <1>1, <1>2, <1>6 DEF SizesInv
<1> QED
    BY <1>1, <1>2, <1>3, <1>9, <1>10, <1>11, <1>12
       DEF IInv, CountInv, OutLayoutInv, ScatterInv, GatheredInv

(* The cells of a vertex's set lie in the arena, and are no other vertex's. *)
LEMMA PlacesApart ==
    ASSUME IInv, phase \in {"copy", "built"}
    PROVE  /\ N \in Nat /\ offsets_ \in [0..N -> Nat]
           /\ \A u \in Vertices : \A i \in 1..Cardinality(Neighbors(u)) :
                  offsets_[u] + i - 1 \in 0..offsets_[N] - 1
           /\ \A u, w \in Vertices : \A i \in 1..Cardinality(Neighbors(u)),
                                        j \in 0..Cardinality(Neighbors(w)) - 1 :
                  offsets_[u] + i - 1 = offsets_[w] + j => u = w
<1> DEFINE d == [u \in Vertices |-> Cardinality(Neighbors(u))]
<1>1. \A u \in Vertices : d[u] = Cardinality(Neighbors(u)) /\ d[u] \in Nat
    BY NeighborsFinite
<1>2. d \in [Vertices -> Nat]
    BY <1>1
<1> HIDE DEF d
<1>3. /\ N \in Nat /\ offsets_ \in [0..N -> Nat] /\ d \in [0..N - 1 -> Nat]
      /\ Consecutive(offsets_, d, N)
    BY <1>1, <1>2, ArcFacts DEF IInv, TypeOK, LayoutInv, Vertices, Consecutive
<1>4. /\ \A v \in 0..N - 1 : offsets_[v] + d[v] <= offsets_[N]
      /\ \A v, w \in 0..N - 1 : v < w => offsets_[v] + d[v] <= offsets_[w]
    BY <1>3, SlicesDisjoint
<1>5. ASSUME NEW u \in Vertices, NEW i \in 1..d[u]
      PROVE  offsets_[u] + i - 1 \in 0..offsets_[N] - 1
    BY <1>3, <1>4 DEF Vertices
<1>6. ASSUME NEW u \in Vertices, NEW w \in Vertices, NEW i \in 1..d[u],
             NEW j \in 0..d[w] - 1, offsets_[u] + i - 1 = offsets_[w] + j
      PROVE  u = w
  <2>1. /\ u \in 0..N - 1 /\ w \in 0..N - 1 /\ u \in Int /\ w \in Int
        /\ offsets_[u] \in Nat /\ offsets_[w] \in Nat /\ d[u] \in Nat /\ d[w] \in Nat
      BY <1>3 DEF Vertices
  <2>2. CASE u < w
    <3>1. offsets_[u] + d[u] <= offsets_[w]
        BY <1>4, <2>1, <2>2
    <3> QED
        BY <1>6, <2>1, <3>1
  <2>3. CASE w < u
    <3>1. offsets_[w] + d[w] <= offsets_[u]
        BY <1>4, <2>1, <2>3
    <3> QED
        BY <1>6, <2>1, <3>1
  <2> QED
      BY <2>1, <2>2, <2>3
<1> QED
    BY <1>1, <1>3, <1>5, <1>6

LEMMA CopyVertexKeeps == IInv /\ (\E v \in Vertices : CopyVertex(v)) => IInv'
<1> SUFFICES ASSUME IInv, NEW w \in Vertices, CopyVertex(w) PROVE IInv'
    OBVIOUS
<1> DEFINE found == SortUnique(Gathered(w))
           d == Cardinality(Neighbors(w))
           D == 0..offsets_[N] - 1
<1>1. /\ phase = "copy" /\ phase' = "copy" /\ done' = done \cup {w}
      /\ neighbors_' = [c \in DOMAIN neighbors_ |->
                            IF c - offsets_[w] \in 0..Len(found) - 1
                            THEN found[c - offsets_[w] + 1] ELSE neighbors_[c]]
      /\ UNCHANGED <<call, graph, offsets_, out_offsets, out_neighbors_arena, sizes, scan, total>>
      /\ neighbors_ \in [D -> Vertices] /\ done \subseteq Vertices
    BY DEF CopyVertex, transpose, IInv, TypeOK
<1>2. /\ GraphInv' /\ N' = N /\ Vertices' = Vertices /\ \A u : Neighbors(u)' = Neighbors(u)
    BY <1>1, GraphKeeps DEF IInv
<1>3. \A u : Gathered(u)' = Gathered(u)
    BY <1>1 DEF Gathered
<1>4. /\ found = Sorted(Neighbors(w)) /\ Len(found) = d /\ d \in Nat
      /\ \A i \in 1..d : found[i] \in Vertices
    BY <1>1, FoundSorted
<1>5. /\ N \in Nat /\ offsets_ \in [0..N -> Nat] /\ w \in 0..N /\ offsets_[w] \in Nat
    BY <1>1, PlacesApart DEF Vertices
<1> HIDE DEF found, d
<1>6. \A c \in D : neighbors_'[c] = IF c - offsets_[w] \in 0..d - 1
                                    THEN found[c - offsets_[w] + 1] ELSE neighbors_[c]
    BY <1>1, <1>4
<1>7. neighbors_' \in [D -> Vertices]
  <2>1. ASSUME NEW c \in D PROVE neighbors_'[c] \in Vertices
    <3>1. c - offsets_[w] \in 0..d - 1 => c - offsets_[w] + 1 \in 1..d
        BY <1>4, <1>5
    <3> QED
        BY <1>1, <1>4, <1>6, <3>1
  <2>2. neighbors_' = [c \in D |-> neighbors_'[c]]
      BY <1>1
  <2> QED
      BY <2>1, <2>2
<1>8. ASSUME NEW u \in done', NEW i \in 1..Cardinality(Neighbors(u))
      PROVE  neighbors_'[offsets_[u] + i - 1] = Sorted(Neighbors(u))[i]
  <2>1. u \in Vertices
      BY <1>1
  <2> DEFINE c == offsets_[u] + i - 1
  <2>2. c \in D /\ c \in Int /\ offsets_[u] \in Nat /\ i \in Int /\ c = offsets_[u] + i - 1
    <3>1. offsets_[u] \in Nat /\ i \in Int
        BY <1>5, <2>1, PlacesApart DEF Vertices
    <3> QED
        BY <1>1, <2>1, <3>1, PlacesApart
  <2>3. neighbors_'[c] = IF c - offsets_[w] \in 0..d - 1
                         THEN found[c - offsets_[w] + 1] ELSE neighbors_[c]
    <3> HIDE DEF c, D
    <3> QED
        BY <1>6, <2>2
  <2>4. \A j \in 0..d - 1 : c = offsets_[w] + j => u = w
      BY <1>1, <2>1, PlacesApart DEF d
  <2> HIDE DEF c, D
  <2>5. CASE u = w
    <3>1. c - offsets_[w] = i - 1 /\ c - offsets_[w] + 1 = i /\ i - 1 \in 0..d - 1
        BY <1>4, <1>5, <2>2, <2>5 DEF d
    <3>2. neighbors_'[c] = found[i]
        BY <2>3, <3>1
    <3> QED
        BY <1>4, <2>2, <2>5, <3>2
  <2>6. CASE u # w
    <3>1. u \in done
        BY <1>1, <2>6
    <3>2. c - offsets_[w] \notin 0..d - 1
      <4> DEFINE j == c - offsets_[w]
      <4>1. c = offsets_[w] + j
          BY <1>5, <2>2
      <4> HIDE DEF j
      <4>2. j \notin 0..d - 1
          BY <2>4, <2>6, <4>1
      <4> QED
          BY <4>2 DEF j
    <3>3. neighbors_'[c] = neighbors_[c]
        BY <2>3, <3>2
    <3> QED
        BY <1>1, <2>2, <3>1, <3>3 DEF IInv, SlicesInv
  <2> QED
      BY <2>5, <2>6
<1>9. TypeOK'
    BY <1>1, <1>2, <1>7 DEF IInv, TypeOK
<1>10. SlicesInv'
    BY <1>1, <1>2, <1>8 DEF SlicesInv
<1>11. LayoutInv' /\ SizesInv'
    BY <1>1, <1>2 DEF IInv, LayoutInv, SizesInv
<1> QED
    BY <1>1, <1>2, <1>3, <1>9, <1>10, <1>11
       DEF IInv, CountInv, OutLayoutInv, ScatterInv, GatheredInv

LEMMA FinishBuildKeeps == IInv /\ FinishBuild => IInv'
<1> SUFFICES ASSUME IInv, FinishBuild PROVE IInv'
    OBVIOUS
<1>1. /\ phase = "copy" /\ phase' = "built" /\ done = Vertices /\ scan' = 0 /\ total' = 0
      /\ UNCHANGED <<call, graph, offsets_, neighbors_, done>>
    BY DEF FinishBuild
<1>2. /\ GraphInv' /\ N' = N /\ Vertices' = Vertices /\ \A u : Neighbors(u)' = Neighbors(u)
    BY <1>1, GraphKeeps DEF IInv
<1>3. TypeOK'
    BY <1>1, <1>2 DEF IInv, TypeOK
<1>4. LayoutInv' /\ SlicesInv'
    BY <1>1, <1>2 DEF IInv, LayoutInv, SlicesInv
<1> QED
    BY <1>1, <1>2, <1>3, <1>4
       DEF IInv, CountInv, OutLayoutInv, ScatterInv, GatheredInv, SizesInv

LEMMA StutterKeeps == IInv /\ UNCHANGED vars => IInv'
<1> SUFFICES ASSUME IInv, UNCHANGED vars PROVE IInv'
    OBVIOUS
<1>1. UNCHANGED <<phase, call, graph, offsets_, neighbors_, out_degree, out_offsets, cursor,
                  out_neighbors_arena, next, slot, sizes, scan, total, done>>
    BY DEF vars, transpose
<1>2. N' = N /\ Vertices' = Vertices
    BY <1>1 DEF N, Vertices
<1>3. \A u : Neighbors(u)' = Neighbors(u) /\ Gathered(u)' = Gathered(u) /\ To(u)' = To(u)
    BY <1>1, <1>2 DEF Neighbors, Joined, Gathered, To, Arcs
<1>4. \A p : Behind(p)' = Behind(p) /\ Pending(p)' = Pending(p)
    BY <1>1 DEF Behind, Pending
<1>5. TypeOK'
    BY <1>1, <1>2 DEF IInv, TypeOK
<1>6. GraphInv'
  <2>1. \A u, v : Joined(u, v)' = Joined(u, v)
      BY <1>1 DEF Joined
  <2> QED
      BY <1>1, <1>2, <2>1 DEF IInv, GraphInv
<1>7. CountInv'
    BY <1>1, <1>2, <1>3, <1>4 DEF IInv, CountInv
<1>8. OutLayoutInv'
    BY <1>1, <1>2 DEF IInv, OutLayoutInv, Steps
<1>9. ScatterInv'
  <2>1. \A u : Taken(u)' = Taken(u)
      BY <1>3, <1>4 DEF Taken
  <2>2. \A u, b : Keeps(u, b)' = Keeps(u, b)
      BY <1>1, <1>4 DEF Keeps
  <2>3. \A v : AtEdge(v)' = AtEdge(v)
      BY <1>1 DEF AtEdge
  <2> QED
      BY <1>1, <1>2, <2>1, <2>2, <2>3 DEF IInv, ScatterInv
<1>10. GatheredInv' /\ SizesInv' /\ LayoutInv' /\ SlicesInv'
    BY <1>1, <1>2, <1>3 DEF IInv, GatheredInv, SizesInv, LayoutInv, SlicesInv, Steps
<1> QED
    BY <1>5, <1>6, <1>7, <1>8, <1>9, <1>10 DEF IInv

(* The inductive invariant. *)
THEOREM Invariance == Spec => []IInv
<1>1. IInv /\ [Next]_vars => IInv'
    BY StartBuildKeeps, StartOutOffsetsKeeps, OutPrefixSumKeeps, AllocateOutKeeps,
       StartSizesKeeps, StartOffsetsKeeps, PrefixSumKeeps, AllocateNeighborsKeeps,
       FinishBuildKeeps, CountOutKeeps, CaptureSlotKeeps, StoreOutKeeps,
       SizeVertexKeeps, CopyVertexKeeps, StutterKeeps
       DEF Next
<1> QED
    BY InitIInv, <1>1, PTL DEF Spec

(* Every member and local of build() keeps its type, every index its range. *)
THEOREM TypeCorrect == Spec => []TypeOK
<1>1. IInv => TypeOK
    BY DEF IInv
<1> QED
    BY Invariance, <1>1, PTL

-----------------------------------------------------------------------------
(* The slots of u that are captured, and those that are stored. *)
PendingAt(u) == {v \in Vertices : slot[v] # NoSlot /\ Source(v) = u}
StoredAt(u) == (0..cursor[u] - 1) \ {slot[v] : v \in PendingAt(u)}

LEMMA SlotsOf ==
    ASSUME IInv, phase = "scatter", NEW u \in Vertices,
           NEW b \in Bijection(0..cursor[u] - 1, Taken(u)), Keeps(u, b)
    PROVE  /\ \A v, w \in PendingAt(u) : slot[v] = slot[w] => v = w
           /\ \A k \in 0..cursor[u] - 1 : k \in StoredAt(u) <=> Behind(b[k])
<1> DEFINE K == 0..cursor[u] - 1
           e(v) == <<v, next[v] + 1>>
<1>1. /\ b \in Bijection(K, Taken(u))
      /\ \A k \in K : ~Behind(b[k]) => slot[b[k][1]] = k
    BY DEF Keeps
<1> HIDE DEF K
<1>2. /\ b \in [K -> Taken(u)] /\ \A k, j \in K : b[k] = b[j] => k = j
      /\ \A p \in Taken(u) : \E k \in K : b[k] = p
    BY <1>1, BijectionFacts
<1>3. ASSUME NEW v \in PendingAt(u)
      PROVE  \E k \in K : b[k] = e(v) /\ slot[v] = k /\ ~Behind(b[k])
  <2>1. v \in Vertices /\ slot[v] # NoSlot /\ Source(v) = u
      BY DEF PendingAt
  <2>2. AtEdge(v)
      BY <2>1 DEF IInv, ScatterInv
  <2>3. e(v) \in To(u) /\ ~Behind(e(v))
      BY <2>1, <2>2, AtEntry
  <2>4. e(v) \in Taken(u)
      BY <2>1, <2>3 DEF Taken, Pending
  <2>5. PICK k \in K : b[k] = e(v)
      BY <1>2, <2>4
  <2> QED
      BY <1>1, <2>3, <2>5
<1>4. ASSUME NEW v \in PendingAt(u), NEW w \in PendingAt(u), slot[v] = slot[w] PROVE v = w
    BY <1>3, <1>4
<1>5. ASSUME NEW k \in K, ~Behind(b[k]) PROVE k \notin StoredAt(u)
  <2> DEFINE v == b[k][1]
  <2>1. b[k] \in Taken(u) /\ slot[v] = k
      BY <1>1, <1>2, <1>5
  <2>2. /\ Pending(b[k]) /\ b[k] \in Arcs /\ graph[b[k][1]][b[k][2]] = u
      BY <1>5, <2>1 DEF Taken, To
  <2>3. v \in Vertices /\ slot[v] # NoSlot /\ Source(v) = u
      BY <2>2, ArcFacts DEF Pending, Source
  <2> QED
      BY <2>1, <2>3 DEF StoredAt, PendingAt
<1>6. ASSUME NEW k \in K, Behind(b[k]) PROVE k \in StoredAt(u)
  <2>1. \A v \in PendingAt(u) : slot[v] # k
      BY <1>3, <1>6
  <2> QED
      BY <2>1 DEF StoredAt, K
<1> QED
    BY <1>4, <1>5, <1>6 DEF K

LEMMA TransposeFollows == IInv => TransposeExact
<1> SUFFICES ASSUME IInv, phase = "scatter", NEW u \in Vertices
             PROVE  /\ cursor[u] <= out_offsets[u + 1] - out_offsets[u]
                    /\ Cardinality({slot[v] : v \in PendingAt(u)}) = Cardinality(PendingAt(u))
                    /\ \A v \in Vertices :
                           Cardinality({k \in StoredAt(u) :
                                           out_neighbors_arena[out_offsets[u] + k] = v})
                               = Cardinality({i \in 1..next[v] : graph[v][i] = u})
    BY DEF TransposeExact, PendingAt, StoredAt
<1> DEFINE K == 0..cursor[u] - 1
<1>1. PICK b \in Bijection(K, Taken(u)) : Keeps(u, b)
    BY DEF IInv, ScatterInv
<1>2. /\ \A v, w \in PendingAt(u) : slot[v] = slot[w] => v = w
      /\ \A k \in K : k \in StoredAt(u) <=> Behind(b[k])
    BY <1>1, SlotsOf
<1>3. /\ cursor[u] \in Nat /\ cursor[u] <= out_degree[u] /\ out_degree[u] \in Nat
      /\ IsFiniteSet(Taken(u)) /\ Taken(u) \subseteq To(u)
    BY SlotBounds
<1>4. cursor[u] <= out_offsets[u + 1] - out_offsets[u]
  <2>1. out_offsets[u] \in Nat /\ out_offsets[u + 1] = out_offsets[u] + out_degree[u]
      BY ArcFacts DEF IInv, OutLayoutInv, Vertices
  <2> QED
      BY <1>3, <2>1
<1>5. Cardinality({slot[v] : v \in PendingAt(u)}) = Cardinality(PendingAt(u))
  <2> DEFINE P == PendingAt(u)
             T == {slot[v] : v \in P}
             f == [v \in P |-> slot[v]]
  <2>1. IsFiniteSet(P)
    <3>1. N \in Nat
        BY ArcFacts
    <3>2. IsFiniteSet(Vertices)
        BY <3>1, FS_Interval DEF Vertices
    <3>3. P \in SUBSET Vertices
        BY DEF PendingAt
    <3> QED
        BY <3>2, <3>3, FS_Subset
  <2>2. f \in Bijection(P, T)
      BY <1>2 DEF Bijection, Injection, Surjection, IsInjective
  <2> HIDE DEF P, T, f
  <2>3. \A v \in P : v \in P <=> f[v] \in T
      BY <2>2, BijectionFacts
  <2>4. Cardinality(P) = Cardinality(T)
      BY <2>1, <2>2, <2>3, SameSize
  <2> QED
      BY <2>4 DEF P, T
<1>6. IsFiniteSet(K)
  <2>1. 0 \in Int /\ cursor[u] - 1 \in Int
      BY <1>3
  <2> QED
      BY <2>1, FS_Interval, Zenon
<1>7. \A k \in K : Behind(b[k]) => out_neighbors_arena[out_offsets[u] + k] = b[k][1]
    BY <1>1 DEF Keeps
<1>8. StoredAt(u) \subseteq K
    BY DEF StoredAt
<1> HIDE DEF K
<1>9. b \in [K -> Taken(u)]
    BY <1>1, BijectionFacts
<1>10. ASSUME NEW v \in Vertices
       PROVE  Cardinality({k \in StoredAt(u) : out_neighbors_arena[out_offsets[u] + k] = v})
                  = Cardinality({i \in 1..next[v] : graph[v][i] = u})
  <2> DEFINE A == {k \in StoredAt(u) : out_neighbors_arena[out_offsets[u] + k] = v}
             C == {p \in Taken(u) : Behind(p) /\ p[1] = v}
             D == {i \in 1..next[v] : graph[v][i] = u}
             f == [p \in C |-> p[2]]
  <2>1. Cardinality(A) = Cardinality(C)
    <3>1. A \in SUBSET K /\ C \in SUBSET Taken(u)
        BY <1>8
    <3>2. \A k \in K : k \in A <=> b[k] \in C
        BY <1>2, <1>7, <1>9
    <3> HIDE DEF A, C
    <3> QED
        BY <1>1, <1>6, <3>1, <3>2, SameSize
  <2>2. \A p : p \in C <=> p = <<v, p[2]>> /\ p[2] \in D
    <3>1. next[v] \in 0..Len(graph[v]) /\ Len(graph[v]) \in Nat
        BY ArcFacts DEF IInv, TypeOK
    <3>2. \A i \in 1..next[v] : i \in 1..Len(graph[v]) /\ <<v, i>> \in Arcs
        BY <3>1, ArcFacts
    <3>3. ASSUME NEW p, p \in C PROVE p = <<v, p[2]>> /\ p[2] \in D
      <4>1. p \in Arcs /\ graph[p[1]][p[2]] = u /\ p[1] = v /\ p[2] <= next[v]
          BY <1>3, <3>3 DEF To, Behind
      <4>2. p = <<v, p[2]>> /\ p[2] \in 1..Len(graph[v])
          BY <4>1, ArcFacts
      <4> QED
          BY <3>1, <4>1, <4>2
    <3>4. ASSUME NEW p, p = <<v, p[2]>>, p[2] \in D PROVE p \in C
      <4>1. <<v, p[2]>> \in Arcs /\ graph[v][p[2]] = u /\ p[2] <= next[v] /\ p[1] = v
          BY <3>1, <3>2, <3>4
      <4> QED
          BY <3>4, <4>1 DEF Taken, To, Behind
    <3> HIDE DEF C, D
    <3> QED
        BY <3>3, <3>4
  <2>3. C \in SUBSET Taken(u)
      OBVIOUS
  <2> HIDE DEF A, C, D
  <2>4. f \in Bijection(C, D)
    <3>1. f \in [C -> D]
        BY <2>2
    <3>2. \A p, q \in C : f[p] = f[q] => p = q
        BY <2>2
    <3>3. \A i \in D : \E p \in C : f[p] = i
      <4> SUFFICES ASSUME NEW i \in D PROVE <<v, i>> \in C /\ f[<<v, i>>] = i
          OBVIOUS
      <4>1. <<v, i>> \in C
          BY <2>2
      <4> QED
          BY <4>1
    <3> QED
        BY <3>1, <3>2, <3>3 DEF Bijection, Injection, Surjection, IsInjective
  <2>5. IsFiniteSet(C)
      BY <1>3, <2>3, FS_Subset
  <2> HIDE DEF f
  <2>6. \A p \in C : p \in C <=> f[p] \in D
      BY <2>4, BijectionFacts
  <2>7. Cardinality(C) = Cardinality(D)
      BY <2>4, <2>5, <2>6, SameSize
  <2> QED
      BY <2>1, <2>7 DEF A, D
<1> QED
    BY <1>4, <1>5, <1>10

(* Nothing is lost or overwritten while the transpose is scattered. *)
THEOREM TransposeStaysExact == Spec => []TransposeExact
BY Invariance, TransposeFollows, PTL

-----------------------------------------------------------------------------
LEMMA SliceIs ==
    ASSUME IInv, phase \in {"copy", "built"}, NEW u \in done
    PROVE  /\ u \in Vertices /\ offsets_[u] \in Nat /\ degree(u) \in Nat
           /\ offsets_[u + 1] = offsets_[u] + degree(u)
           /\ \A i \in 1..degree(u) : neighbors_[offsets_[u] + i - 1] \in Neighbors(u)
           /\ \A x \in Neighbors(u) : \E i \in 1..degree(u) : neighbors_[offsets_[u] + i - 1] = x
           /\ \A i, j \in 1..degree(u) :
                  i < j => neighbors_[offsets_[u] + i - 1] < neighbors_[offsets_[u] + j - 1]
<1> DEFINE S == Neighbors(u)
           n == Cardinality(Neighbors(u))
           cell(i) == neighbors_[offsets_[u] + i - 1]
<1>1. u \in Vertices /\ offsets_[u] \in Nat
    BY PlacesApart DEF IInv, TypeOK, Vertices
<1>2. IsFiniteSet(S) /\ S \subseteq Int /\ n \in Nat
    BY <1>1, NeighborsFinite
<1>3. offsets_[u + 1] = offsets_[u] + n
    BY <1>1 DEF IInv, LayoutInv
<1>4. degree(u) = n
    BY <1>1, <1>2, <1>3 DEF degree
<1>5. \A i \in 1..n : cell(i) = Sorted(S)[i]
    BY DEF IInv, SlicesInv
<1> HIDE DEF S
<1>7. /\ \A i \in 1..Cardinality(S) : Sorted(S)[i] \in S
      /\ \A x \in S : \E i \in 1..Cardinality(S) : Sorted(S)[i] = x
      /\ \A i, j \in 1..Cardinality(S) : i < j => Sorted(S)[i] < Sorted(S)[j]
    BY <1>2, SortedRight
<1>8. Cardinality(S) = n
    BY DEF S
<1> HIDE DEF n, cell
<1>9. /\ \A i \in 1..n : cell(i) \in S
      /\ \A x \in S : \E i \in 1..n : cell(i) = x
      /\ \A i, j \in 1..n : i < j => cell(i) < cell(j)
    BY <1>5, <1>7, <1>8
<1> QED
    BY <1>1, <1>2, <1>3, <1>4, <1>9 DEF S, cell

LEMMA SlicesFollow == IInv => SlicesExact
<1> SUFFICES ASSUME IInv, phase \in {"copy", "built"}, NEW u \in done
             PROVE  LET slice == [i \in 1..degree(u) |-> neighbors_[offsets_[u] + i - 1]]
                    IN  /\ \A i, j \in 1..degree(u) : i < j => slice[i] < slice[j]
                        /\ Range(slice) = {v \in Vertices : Joined(u, v)}
    BY DEF SlicesExact
<1> DEFINE slice == [i \in 1..degree(u) |-> neighbors_[offsets_[u] + i - 1]]
           I == 1..degree(u)
<1>1. /\ \A i \in I : slice[i] \in Neighbors(u)
      /\ \A x \in Neighbors(u) : \E i \in I : slice[i] = x
      /\ \A i, j \in I : i < j => slice[i] < slice[j]
    BY SliceIs
<1>2. DOMAIN slice = I
    OBVIOUS
<1> HIDE DEF slice, I
<1>3. Range(slice) = Neighbors(u)
    BY <1>1, <1>2 DEF Range
<1> QED
    BY <1>1, <1>3 DEF slice, I, Neighbors

(* A set that is copied is right, whatever the other threads still copy. *)
THEOREM SlicesStayExact == Spec => []SlicesExact
BY Invariance, SlicesFollow, PTL

LEMMA ContainsFollows == IInv => ContainsExact
<1> SUFFICES ASSUME IInv, phase = "built", NEW u \in Vertices, NEW v \in Vertices
             PROVE  contains(u, v) <=> Joined(u, v)
    BY DEF ContainsExact
<1> DEFINE a == offsets_[u]
           n == degree(u)
           at(p) == neighbors_[p]
           places == a..a + n - 1
           B == {p \in places : at(p) < v}
           found == lower_bound(B, a, n)
<1>1. u \in done
    BY DEF IInv, SlicesInv
<1>2. /\ a \in Nat /\ n \in Nat /\ offsets_[u + 1] = a + n
      /\ \A i \in 1..n : at(a + i - 1) \in Neighbors(u)
      /\ \A x \in Neighbors(u) : \E i \in 1..n : at(a + i - 1) = x
      /\ \A i, j \in 1..n : i < j => at(a + i - 1) < at(a + j - 1)
    BY <1>1, SliceIs
<1>3. /\ v \in Int /\ Neighbors(u) \subseteq Int
    BY NeighborsFinite DEF Vertices
<1>4. contains(u, v) <=> found < a + n /\ ~(v < at(found))
    BY <1>2 DEF contains
<1> HIDE DEF a, n, at
<1>5. \A p \in places : p - a + 1 \in 1..n /\ a + (p - a + 1) - 1 = p
    BY <1>2
<1>6. \A i \in 1..n : a + i - 1 \in places
    BY <1>2
<1>7. \A p \in places : at(p) \in Neighbors(u) /\ at(p) \in Int
    BY <1>2, <1>3, <1>5, Zenon
<1>8. \A x \in Neighbors(u) : \E p \in places : at(p) = x
    BY <1>2, <1>6, Zenon
<1>9. ASSUME NEW p \in places, NEW q \in places, p < q PROVE at(p) < at(q)
  <2> DEFINE i == p - a + 1
             j == q - a + 1
  <2>1. i \in 1..n /\ j \in 1..n /\ i < j /\ a + i - 1 = p /\ a + j - 1 = q
      BY <1>2, <1>5, <1>9
  <2> HIDE DEF i, j
  <2>2. at(a + i - 1) < at(a + j - 1)
      BY <1>2, <2>1
  <2> QED
      BY <2>1, <2>2
<1>10. \A p, q \in a..a + n - 1 : p < q /\ q \in B => p \in B
  <2> SUFFICES ASSUME NEW p \in places, NEW q \in places, p < q, at(q) < v PROVE at(p) < v
      OBVIOUS
  <2>1. at(p) < at(q) /\ at(p) \in Int /\ at(q) \in Int
      BY <1>7, <1>9
  <2> DEFINE x == at(p)
             y == at(q)
  <2> HIDE DEF x, y
  <2>2. x < y /\ x \in Int /\ y \in Int /\ y < v
      BY <2>1 DEF x, y
  <2>3. x < v
      BY <1>3, <2>2
  <2> QED
      BY <2>3 DEF x
<1> HIDE DEF B
<1>11. /\ found \in a..a + n
       /\ \A p \in a..a + n - 1 : p \in B <=> p < found
    BY <1>2, <1>10, LowerBound
<1> HIDE DEF found
<1>12. found \in Int /\ ~(found < found) /\ (found < a + n <=> found \in places)
    BY <1>2, <1>11
<1>13. \A p \in places : at(p) < v <=> p < found
    BY <1>11 DEF B
<1>14. ASSUME contains(u, v) PROVE v \in Neighbors(u)
  <2>1. found \in places /\ ~(v < at(found)) /\ ~(at(found) < v)
      BY <1>4, <1>12, <1>13, <1>14
  <2>2. at(found) \in Int /\ at(found) \in Neighbors(u)
      BY <1>7, <2>1
  <2> DEFINE x == at(found)
  <2> HIDE DEF x
  <2>3. x \in Int /\ ~(v < x) /\ ~(x < v)
      BY <2>1, <2>2 DEF x
  <2>4. x = v
      BY <1>3, <2>3
  <2> QED
      BY <2>2, <2>4 DEF x
<1>15. ASSUME v \in Neighbors(u) PROVE contains(u, v)
  <2>1. PICK p \in places : at(p) = v
      BY <1>8, <1>15
  <2>2. ~(v < v)
      BY <1>3
  <2>3. ~(p < found)
      BY <1>13, <2>1, <2>2
  <2>4. p \in Int /\ p <= a + n - 1 /\ found <= p /\ a \in Nat /\ found \in a..a + n
      BY <1>2, <1>11, <1>12, <2>3
  <2>5. found \in places
      BY <1>2, <2>4
  <2>6. ~(v < at(found))
    <3>1. CASE found = p
        BY <2>1, <2>2, <3>1
    <3>2. CASE found < p
      <4>1. at(found) < at(p)
          BY <1>9, <2>5, <3>2
      <4> DEFINE x == at(found)
      <4> HIDE DEF x
      <4>2. x < v /\ x \in Int
          BY <1>7, <2>1, <2>5, <4>1 DEF x
      <4>3. ~(v < x)
          BY <1>3, <4>2
      <4> QED
          BY <4>3 DEF x
    <3> QED
        BY <1>12, <2>4, <3>1, <3>2
  <2> QED
      BY <1>4, <1>12, <2>5, <2>6
<1>16. v \in Neighbors(u) <=> Joined(u, v)
    BY DEF Neighbors
<1> QED
    BY <1>14, <1>15, <1>16

(* The binary search finds v among u's neighbours exactly if an edge of the *)
(* input joins them.                                                        *)
THEOREM ContainsIsExact == Spec => []ContainsExact
BY Invariance, ContainsFollows, PTL
=============================================================================
