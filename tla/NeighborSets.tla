----------------------------- MODULE NeighborSets -----------------------------
(***************************************************************************)
(* NeighborSets::build and contains (include/tea/neighbor_set.hpp): the    *)
(* undirected neighbours of every vertex of a built TemporalGraph.         *)
(*                                                                         *)
(* A directed graph stores in-neighbours only, so its lists are transposed *)
(* first: a parallel count of the out-degrees, a serial prefix sum and a   *)
(* parallel scatter through one atomic cursor per source.  Then one        *)
(* parallel pass finds the size of every set, a serial one the offsets,    *)
(* and a last parallel pass gathers again and copies.  The parallel loops  *)
(* run over the vertices with schedule(dynamic, 64): any set of vertices   *)
(* may be in progress, each goes through its list in order.  An atomic     *)
(* update or capture is one step; the last passes write only to cells of   *)
(* their own vertex and take one step a vertex.  The sets may be built     *)
(* again.                                                                  *)
(***************************************************************************)
EXTENDS EdgeLists, Functions, Searches

VARIABLES phase,          \* the section of build() that runs
          call,           \* the arguments the graph was built with
          graph,          \* graph[v]: targets_of(v)
          offsets_, neighbors_,                        \* the members
          out_degree, out_offsets, cursor, out_neighbors_arena,
          next,           \* entries of v's list that are behind the loop
          slot,           \* the slot v's iteration has captured, or NoSlot
          sizes,
          scan, total,    \* the serial loops
          done            \* vertices a pass is done with

transpose == <<out_degree, out_offsets, cursor, out_neighbors_arena, next, slot>>
vars == <<phase, call, graph, offsets_, neighbors_, transpose, sizes, scan, total, done>>

NoSlot == -1

N == Cardinality(DOMAIN graph)
Vertices == 0..N - 1

TypeOK ==
    /\ phase \in {"unbuilt", "count", "out_offsets", "scatter", "undirected",
                  "sizes", "offsets", "copy", "built"}
    /\ phase # "unbuilt" =>
           /\ call \in Calls
           /\ \A v \in Vertices : graph[v] \in Seq(Vertices)
           /\ offsets_ \in [0..N -> Nat]
    /\ scan \in Nat /\ total \in Nat
    /\ phase \in {"sizes", "offsets", "copy", "built"} => done \subseteq Vertices
    /\ phase \in {"count", "out_offsets", "scatter"} =>
           /\ call.is_directed
           /\ out_degree \in [Vertices -> Nat]
           /\ \A v \in Vertices : next[v] \in 0..Len(graph[v])
    /\ phase = "scatter" =>
           /\ cursor \in [Vertices -> Nat]
           /\ out_neighbors_arena \in [0..out_offsets[N] - 1 -> Vertices]
    /\ phase \in {"sizes", "offsets", "copy"} => sizes \in [Vertices -> 0..N]
    /\ phase \in {"copy", "built"} => neighbors_ \in [0..offsets_[N] - 1 -> Vertices]

-----------------------------------------------------------------------------
Init ==
    /\ phase = "unbuilt" /\ call = <<>> /\ graph = <<>>
    /\ offsets_ = <<>> /\ neighbors_ = <<>>
    /\ out_degree = <<>> /\ out_offsets = <<>> /\ cursor = <<>>
    /\ out_neighbors_arena = <<>> /\ next = <<>> /\ slot = <<>>
    /\ sizes = <<>> /\ scan = 0 /\ total = 0 /\ done = {}

Zeros(S) == [x \in S |-> 0]

(* build(graph, input_was_directed) of a graph that was built from c.      *)
StartBuild ==
    /\ phase \in {"unbuilt", "built"}
    /\ \E c \in Calls :
           LET V == 0..VertexCountOf(c) - 1
           IN  /\ call' = c
               /\ graph' = [v \in V |-> [i \in DOMAIN ListOf(c, v) |-> ListOf(c, v)[i].v]]
               /\ offsets_' = Zeros(0..VertexCountOf(c))
               /\ out_degree' = Zeros(V)
               /\ next' = Zeros(V)
               /\ phase' = IF c.is_directed THEN "count" ELSE "undirected"
    /\ UNCHANGED <<neighbors_, out_offsets, cursor, out_neighbors_arena, slot, sizes,
                   scan, total, done>>

(* The source of the edge v's iteration is at. *)
Source(v) == graph[v][next[v] + 1]
AtEdge(v) == next[v] < Len(graph[v])
LoopDone == \A v \in Vertices : ~AtEdge(v)

(* omp atomic update: ++out_degree[in_tgts[i]]. *)
CountOut(v) ==
    /\ phase = "count" /\ AtEdge(v)
    /\ out_degree' = [out_degree EXCEPT ![Source(v)] = @ + 1]
    /\ next' = [next EXCEPT ![v] = @ + 1]
    /\ UNCHANGED <<phase, call, graph, offsets_, neighbors_, out_offsets, cursor,
                   out_neighbors_arena, slot, sizes, scan, total, done>>

StartOutOffsets ==
    /\ phase = "count" /\ LoopDone
    /\ out_offsets' = Zeros(0..N)
    /\ scan' = 0 /\ total' = 0
    /\ phase' = "out_offsets"
    /\ UNCHANGED <<call, graph, offsets_, neighbors_, out_degree, cursor,
                   out_neighbors_arena, next, slot, sizes, done>>

OutPrefixSum ==
    /\ phase = "out_offsets" /\ scan < N
    /\ out_offsets' = [out_offsets EXCEPT ![scan] = total]
    /\ total' = total + out_degree[scan]
    /\ scan' = scan + 1
    /\ UNCHANGED <<phase, call, graph, offsets_, neighbors_, out_degree, cursor,
                   out_neighbors_arena, next, slot, sizes, done>>

AllocateOut ==
    /\ phase = "out_offsets" /\ scan = N
    /\ out_offsets' = [out_offsets EXCEPT ![N] = total]
    /\ out_neighbors_arena' = Zeros(0..total - 1)
    /\ cursor' = Zeros(Vertices)
    /\ next' = Zeros(Vertices)
    /\ slot' = [v \in Vertices |-> NoSlot]
    /\ phase' = "scatter"
    /\ UNCHANGED <<call, graph, offsets_, neighbors_, out_degree, sizes, scan, total, done>>

(* Mutant: the cursor of the edge's other end is advanced. *)
MutantCaptureSlot(v) ==
    /\ phase = "scatter" /\ AtEdge(v) /\ slot[v] = NoSlot
    /\ slot' = [slot EXCEPT ![v] = cursor[Source(v)]]
    /\ cursor' = [cursor EXCEPT ![v] = @ + 1]
    /\ UNCHANGED <<phase, call, graph, offsets_, neighbors_, out_degree, out_offsets,
                   out_neighbors_arena, next, sizes, scan, total, done>>

(* omp atomic capture: slot = cursor[u]++. *)
CaptureSlot(v) ==
    /\ phase = "scatter" /\ AtEdge(v) /\ slot[v] = NoSlot
    /\ slot' = [slot EXCEPT ![v] = cursor[Source(v)]]
    /\ cursor' = [cursor EXCEPT ![Source(v)] = @ + 1]
    /\ UNCHANGED <<phase, call, graph, offsets_, neighbors_, out_degree, out_offsets,
                   out_neighbors_arena, next, sizes, scan, total, done>>

StoreOut(v) ==
    /\ phase = "scatter" /\ AtEdge(v) /\ slot[v] # NoSlot
    /\ out_neighbors_arena' =
           [out_neighbors_arena EXCEPT ![out_offsets[Source(v)] + slot[v]] = v]
    /\ slot' = [slot EXCEPT ![v] = NoSlot]
    /\ next' = [next EXCEPT ![v] = @ + 1]
    /\ UNCHANGED <<phase, call, graph, offsets_, neighbors_, out_degree, out_offsets,
                   cursor, sizes, scan, total, done>>

-----------------------------------------------------------------------------
StartSizes ==
    /\ phase = "undirected" \/ (phase = "scatter" /\ LoopDone)
    /\ sizes' = Zeros(Vertices)
    /\ done' = {}
    /\ phase' = "sizes"
    /\ UNCHANGED <<call, graph, offsets_, neighbors_, transpose, scan, total>>

(* Mutant: the in-neighbours alone. *)
MutantGathered(u) == graph[u]

(* The scratch: in-neighbours, then out-neighbours of a directed graph. *)
Gathered(u) ==
    graph[u] \o
    IF ~call.is_directed THEN <<>>
    ELSE [i \in 1..out_offsets[u + 1] - out_offsets[u] |->
             out_neighbors_arena[out_offsets[u] + i - 1]]

(* sort, then unique: the values in ascending order. *)
SortUnique(s) ==
    [i \in 1..Cardinality(Range(s)) |->
        CHOOSE x \in Range(s) : Cardinality({y \in Range(s) : y < x}) = i - 1]

(* Mutant: duplicates are counted. *)
MutantSizeOf(u) == Len(Gathered(u))

SizeOf(u) == Len(SortUnique(Gathered(u)))

(* Pass 1. *)
SizeVertex(u) ==
    /\ phase = "sizes" /\ u \notin done
    /\ sizes' = [sizes EXCEPT ![u] = SizeOf(u)]
    /\ done' = done \cup {u}
    /\ UNCHANGED <<phase, call, graph, offsets_, neighbors_, transpose, scan, total>>

(* Pass 2. *)
StartOffsets ==
    /\ phase = "sizes" /\ done = Vertices
    /\ scan' = 0 /\ total' = 0
    /\ phase' = "offsets"
    /\ UNCHANGED <<call, graph, offsets_, neighbors_, transpose, sizes, done>>

PrefixSum ==
    /\ phase = "offsets" /\ scan < N
    /\ offsets_' = [offsets_ EXCEPT ![scan] = total]
    /\ total' = total + sizes[scan]
    /\ scan' = scan + 1
    /\ UNCHANGED <<phase, call, graph, neighbors_, transpose, sizes, done>>

(* Mutant: the end of the last slice is not stored. *)
MutantAllocateNeighbors ==
    /\ phase = "offsets" /\ scan = N
    /\ neighbors_' = Zeros(0..total - 1)
    /\ done' = {u \in Vertices : sizes[u] = 0}
    /\ phase' = "copy"
    /\ UNCHANGED <<call, graph, offsets_, transpose, sizes, scan, total>>

(* A vertex without neighbours is skipped by pass 3. *)
AllocateNeighbors ==
    /\ phase = "offsets" /\ scan = N
    /\ offsets_' = [offsets_ EXCEPT ![N] = total]
    /\ neighbors_' = Zeros(0..total - 1)
    /\ done' = {u \in Vertices : sizes[u] = 0}
    /\ phase' = "copy"
    /\ UNCHANGED <<call, graph, transpose, sizes, scan, total>>

(* Pass 3 gathers and sorts again, and copies all it finds. *)
CopyVertex(u) ==
    LET found == SortUnique(Gathered(u))
    IN  /\ phase = "copy" /\ u \notin done
        /\ neighbors_' = [c \in DOMAIN neighbors_ |->
                             IF c - offsets_[u] \in 0..Len(found) - 1
                             THEN found[c - offsets_[u] + 1] ELSE neighbors_[c]]
        /\ done' = done \cup {u}
        /\ UNCHANGED <<phase, call, graph, offsets_, transpose, sizes, scan, total>>

(* build() returns; its locals go out of scope. *)
FinishBuild ==
    /\ phase = "copy" /\ done = Vertices
    /\ phase' = "built"
    /\ out_degree' = <<>> /\ out_offsets' = <<>> /\ cursor' = <<>>
    /\ out_neighbors_arena' = <<>> /\ next' = <<>> /\ slot' = <<>>
    /\ sizes' = <<>> /\ scan' = 0 /\ total' = 0
    /\ UNCHANGED <<call, graph, offsets_, neighbors_, done>>

Next ==
    \/ StartBuild \/ StartOutOffsets \/ OutPrefixSum \/ AllocateOut
    \/ StartSizes \/ StartOffsets \/ PrefixSum \/ AllocateNeighbors \/ FinishBuild
    \/ \E v \in Vertices : \/ CountOut(v) \/ CaptureSlot(v) \/ StoreOut(v)
                           \/ SizeVertex(v) \/ CopyVertex(v)

Spec == Init /\ [][Next]_vars

-----------------------------------------------------------------------------
(* The read side. *)
degree(u) == offsets_[u + 1] - offsets_[u]

(* std::binary_search over u's slice: a lower bound, which must be v. *)
contains(u, v) ==
    LET smaller == {p \in offsets_[u]..offsets_[u + 1] - 1 : neighbors_[p] < v}
        found == lower_bound(smaller, offsets_[u], degree(u))
    IN  found < offsets_[u + 1] /\ ~(v < neighbors_[found])

-----------------------------------------------------------------------------
(* Properties *)

(* u and v are joined by an input edge, in either direction. *)
Joined(u, v) ==
    \E i \in 1..Len(call.edges) :
        {call.edges[i].u, call.edges[i].v} = {u, v}

(* At every moment of the scatter, u's slots that have been captured lie   *)
(* in u's slice, and the stored ones hold each edge u -> v that is behind  *)
(* the loop once: no iteration overwrites what another has stored.         *)
TransposeExact ==
    phase = "scatter" =>
        \A u \in Vertices :
            LET pending == {v \in Vertices : slot[v] # NoSlot /\ Source(v) = u}
                stored == (0..cursor[u] - 1) \ {slot[v] : v \in pending}
            IN  /\ cursor[u] <= out_offsets[u + 1] - out_offsets[u]
                /\ Cardinality({slot[v] : v \in pending}) = Cardinality(pending)
                /\ \A v \in Vertices :
                       Cardinality({k \in stored :
                                       out_neighbors_arena[out_offsets[u] + k] = v})
                           = Cardinality({i \in 1..next[v] : graph[v][i] = u})

(* The assert of pass 3: what pass 3 finds for u is as long as what pass 1 *)
(* made room for.  So the slice of a vertex that is done holds its         *)
(* neighbours in strictly ascending order, whatever other threads still    *)
(* copy, and from then on.                                                 *)
SlicesExact ==
    phase \in {"copy", "built"} =>
        \A u \in done :
            LET slice == [i \in 1..degree(u) |-> neighbors_[offsets_[u] + i - 1]]
            IN  /\ \A i, j \in 1..degree(u) : i < j => slice[i] < slice[j]
                /\ Range(slice) = {v \in Vertices : Joined(u, v)}

(* What the rejection test asks (tests/test_node2vec.cpp): v is found in   *)
(* u's set exactly if an edge of the input joins them, whichever way it    *)
(* points, whether or not the graph is directed, and after a rebuild.      *)
ContainsExact ==
    phase = "built" =>
        \A u, v \in Vertices : contains(u, v) <=> Joined(u, v)
=============================================================================
