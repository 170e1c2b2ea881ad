---------------------------- MODULE TemporalGraph ----------------------------
(***************************************************************************)
(* TemporalGraph::build (src/graph.cpp): the inbound-CSR build.            *)
(*                                                                         *)
(* A parallel degree count, a serial prefix sum, a parallel scatter with   *)
(* one atomic cursor per vertex and a parallel per-vertex sort, each       *)
(* behind the barrier that ends the previous one.  The loops over the      *)
(* edges are schedule(static, 4096): chunk k belongs to thread             *)
(* k % NumThreads, which runs its iterations in order.  An atomic update   *)
(* or capture is one step; the two stores of a scattered entry go to a     *)
(* cell no other thread touches (NoSharedCell) and are one step; a         *)
(* vertex's sort reads and writes only that vertex's slice and is one      *)
(* step.  A graph object may be built again.                               *)
(***************************************************************************)
EXTENDS EdgeLists, Functions, Searches

CONSTANTS NumThreads,  \* size of the OpenMP team
          Chunk,       \* 4096 in the code
          StableSort   \* TRUE if std::sort keeps the order of equal keys

ASSUME TeamAssumption == /\ NumThreads \in Nat \ {0}
                         /\ Chunk \in Nat \ {0}
                         /\ StableSort \in BOOLEAN

VARIABLES phase,       \* the section of build() that runs
          call,        \* the arguments of the latest build
          edges,       \* the edge vector, emptied at the end
          n_, offsets, targets, timestamps,   \* the members
          max_id,      \* the max reduction of step 1
          degree,      \* step 2
          counted,     \* entries that have been counted
          total,       \* step 3
          scan,        \* the next index of the serial loops
          cursor,      \* step 5
          slot,        \* the captured slot of each entry, or NoSlot
          written,     \* entries that have been stored
          sorted       \* vertices whose slice is in order

members == <<n_, offsets, targets, timestamps>>
locals == <<max_id, degree, counted, total, scan, cursor, slot, written, sorted>>
vars == <<phase, call, edges, members, locals>>

NoSlot == -1

Vertices == 0..n_ - 1
Sides == IF call.is_directed THEN {"v"} ELSE {"u", "v"}
Entries == (1..Len(edges)) \X Sides

(* Where an entry is stored, and which vertex it stores. *)
At(e) == IF e[2] = "v" THEN edges[e[1]].v ELSE edges[e[1]].u
(* Mutant: the u side, too, stores the source. *)
MutantOther(e) == edges[e[1]].u

Other(e) == IF e[2] = "v" THEN edges[e[1]].u ELSE edges[e[1]].v

(* schedule(static, Chunk), and the order within one thread's iterations. *)
Owner(i) == ((i - 1) \div Chunk) % NumThreads
Earlier(f, e, firstSide) ==
    /\ Owner(f[1]) = Owner(e[1])
    /\ \/ f[1] < e[1]
       \/ f[1] = e[1] /\ f[2] = firstSide /\ e[2] # firstSide

TypeOK ==
    /\ phase \in {"unbuilt", "reduce", "degree", "offsets", "scatter", "sort", "built"}
    /\ phase # "unbuilt" => call \in Calls
    /\ edges \in Seq(Edge)
    /\ n_ \in Nat
    /\ max_id \in Int /\ max_id >= -1
    /\ scan \in Nat
    /\ total \in Nat
    /\ phase \in {"degree", "offsets", "scatter", "sort"} =>
           degree \in [Vertices -> Nat] /\ counted \subseteq Entries
    /\ phase \in {"offsets", "scatter", "sort", "built"} =>
           offsets \in [0..n_ -> Nat]
    /\ phase \in {"scatter", "sort"} =>
           /\ cursor \in [Vertices -> Nat]
           /\ slot \in [Entries -> Nat \cup {NoSlot}]
           /\ written \subseteq Entries
           /\ sorted \subseteq Vertices
    /\ phase \in {"scatter", "sort", "built"} =>
           /\ targets \in [0..offsets[n_] - 1 -> Nat]
           /\ timestamps \in [0..offsets[n_] - 1 -> Int]

-----------------------------------------------------------------------------
NoCall == [edges |-> <<>>, num_vertices |-> 0, is_directed |-> TRUE]

Init ==
    /\ phase = "unbuilt" /\ call = NoCall /\ edges = <<>>
    /\ n_ = 0 /\ offsets = <<>> /\ targets = <<>> /\ timestamps = <<>>
    /\ max_id = -1 /\ degree = <<>> /\ counted = {} /\ total = 0 /\ scan = 0
    /\ cursor = <<>> /\ slot = <<>> /\ written = {} /\ sorted = {}

(* build(edges, num_vertices, is_directed) is called. *)
StartBuild ==
    /\ phase \in {"unbuilt", "built"}
    /\ \E c \in Calls : call' = c /\ edges' = c.edges
    /\ phase' = "reduce"
    /\ max_id' = -1
    /\ scan' = 1
    /\ UNCHANGED <<members, degree, counted, total, cursor, slot, written, sorted>>

(***************************************************************************)
(* 1. reduction(max: max_id).  A max is the same in every order, so the    *)
(* edges are taken in index order.                                         *)
(***************************************************************************)
ReduceMax ==
    /\ phase = "reduce" /\ call.num_vertices < 0 /\ scan <= Len(edges)
    /\ \E m \in {max_id, edges[scan].u, edges[scan].v} :
           /\ m >= max_id /\ m >= edges[scan].u /\ m >= edges[scan].v
           /\ max_id' = m
    /\ scan' = scan + 1
    /\ UNCHANGED <<phase, call, edges, members, degree, counted, total,
                   cursor, slot, written, sorted>>

SizeKnown == phase = "reduce" /\ (call.num_vertices >= 0 \/ scan > Len(edges))

(* Mutant: the + 1 is forgotten. *)
MutantVertexCount == IF call.num_vertices >= 0 THEN call.num_vertices ELSE max_id

VertexCount == IF call.num_vertices >= 0 THEN call.num_vertices ELSE max_id + 1

(* The early return for a graph without vertices. *)
BuildEmpty ==
    /\ SizeKnown /\ VertexCount = 0
    /\ n_' = 0
    /\ offsets' = [i \in 0..0 |-> 0]
    /\ targets' = [p \in {} |-> 0] /\ timestamps' = [p \in {} |-> 0]
    /\ edges' = <<>>
    /\ phase' = "built"
    /\ UNCHANGED <<call, locals>>

StartDegreeCount ==
    /\ SizeKnown /\ VertexCount # 0
    /\ n_' = VertexCount
    /\ degree' = [v \in 0..VertexCount - 1 |-> 0]
    /\ counted' = {}
    /\ phase' = "degree"
    /\ UNCHANGED <<call, edges, offsets, targets, timestamps, max_id, total,
                   scan, cursor, slot, written, sorted>>

(* 2. omp atomic update: ++degree[e.u], then ++degree[e.v]. *)
CountEntry(e) ==
    /\ phase = "degree" /\ e \notin counted
    /\ \A f \in Entries : Earlier(f, e, "u") => f \in counted
    /\ degree' = [degree EXCEPT ![At(e)] = @ + 1]
    /\ counted' = counted \cup {e}
    /\ UNCHANGED <<phase, call, edges, members, max_id, total, scan, cursor,
                   slot, written, sorted>>

(* 3. The serial prefix sum, one vertex at a time. *)
StartOffsets ==
    /\ phase = "degree" /\ counted = Entries
    /\ offsets' = [i \in 0..n_ |-> 0]
    /\ total' = 0
    /\ scan' = 0
    /\ phase' = "offsets"
    /\ UNCHANGED <<call, edges, n_, targets, timestamps, max_id, degree,
                   counted, cursor, slot, written, sorted>>

(* Mutant: total is advanced before it is stored. *)
MutantPrefixSum ==
    /\ phase = "offsets" /\ scan < n_
    /\ offsets' = [offsets EXCEPT ![scan] = total + degree[scan]]
    /\ total' = total + degree[scan]
    /\ scan' = scan + 1
    /\ UNCHANGED <<phase, call, edges, n_, targets, timestamps, max_id, degree,
                   counted, cursor, slot, written, sorted>>

PrefixSum ==
    /\ phase = "offsets" /\ scan < n_
    /\ offsets' = [offsets EXCEPT ![scan] = total]
    /\ total' = total + degree[scan]
    /\ scan' = scan + 1
    /\ UNCHANGED <<phase, call, edges, n_, targets, timestamps, max_id, degree,
                   counted, cursor, slot, written, sorted>>

(* offsets_[n] = total; 4. the two zero-filled arenas; fresh cursors. *)
AllocateArenas ==
    /\ phase = "offsets" /\ scan = n_
    /\ offsets' = [offsets EXCEPT ![n_] = total]
    /\ targets' = [p \in 0..total - 1 |-> 0]
    /\ timestamps' = [p \in 0..total - 1 |-> 0]
    /\ cursor' = [v \in Vertices |-> 0]
    /\ slot' = [e \in Entries |-> NoSlot]
    /\ written' = {}
    /\ sorted' = {}
    /\ phase' = "scatter"
    /\ UNCHANGED <<call, edges, n_, max_id, degree, counted, total, scan>>

(* Mutant: both sides advance the cursor of v. *)
MutantCaptureSlot(e) ==
    /\ phase = "scatter" /\ slot[e] = NoSlot
    /\ \A f \in Entries : Earlier(f, e, "v") => f \in written
    /\ slot' = [slot EXCEPT ![e] = cursor[At(e)]]
    /\ cursor' = [cursor EXCEPT ![edges[e[1]].v] = @ + 1]
    /\ UNCHANGED <<phase, call, edges, members, max_id, degree, counted, total,
                   scan, written, sorted>>

(* 5. omp atomic capture: slot = cursor[At(e)]++. *)
CaptureSlot(e) ==
    /\ phase = "scatter" /\ slot[e] = NoSlot
    /\ \A f \in Entries : Earlier(f, e, "v") => f \in written
    /\ slot' = [slot EXCEPT ![e] = cursor[At(e)]]
    /\ cursor' = [cursor EXCEPT ![At(e)] = @ + 1]
    /\ UNCHANGED <<phase, call, edges, members, max_id, degree, counted, total,
                   scan, written, sorted>>

Cell(e) == offsets[At(e)] + slot[e]

StoreEntry(e) ==
    /\ phase = "scatter" /\ slot[e] # NoSlot /\ e \notin written
    /\ targets' = [targets EXCEPT ![Cell(e)] = Other(e)]
    /\ timestamps' = [timestamps EXCEPT ![Cell(e)] = edges[e[1]].t]
    /\ written' = written \cup {e}
    /\ UNCHANGED <<phase, call, edges, n_, offsets, max_id, degree, counted,
                   total, scan, cursor, slot, sorted>>

StartSort ==
    /\ phase = "scatter" /\ written = Entries
    /\ phase' = "sort"
    /\ UNCHANGED <<call, edges, members, locals>>

Slice(v) == offsets[v]..offsets[v + 1] - 1

(* Mutant: slices of two are skipped as well (d <= 2). *)
MutantSorts(S) ==
    {p \in Bijection(S, S) :
        \A i, j \in S : i < j =>
            IF Cardinality(S) <= 2 THEN p[i] < p[j]
                                   ELSE timestamps[p[i]] <= timestamps[p[j]]}

(***************************************************************************)
(* What std::sort by ts may do to slice S of the arena: any rearrangement  *)
(* that is ascending.  libstdc++ sorts 16 elements or fewer by insertion,  *)
(* which keeps equal keys in order (StableSort).                           *)
(***************************************************************************)
Sorts(S) ==
    {p \in Bijection(S, S) :
        \A i, j \in S : i < j =>
            /\ timestamps[p[i]] <= timestamps[p[j]]
            /\ StableSort /\ timestamps[p[i]] = timestamps[p[j]] => p[i] < p[j]}

(***************************************************************************)
(* 6. zip, sort, unzip one vertex.  schedule(dynamic, 64): any vertex may  *)
(* be next.  A slice of at most one entry is skipped: it has only one      *)
(* arrangement.                                                            *)
(***************************************************************************)
SortVertex(v) ==
    /\ phase = "sort" /\ v \notin sorted
    /\ \E p \in Sorts(Slice(v)) :
           /\ targets' = [i \in DOMAIN targets |->
                             IF i \in Slice(v) THEN targets[p[i]] ELSE targets[i]]
           /\ timestamps' = [i \in DOMAIN timestamps |->
                             IF i \in Slice(v) THEN timestamps[p[i]] ELSE timestamps[i]]
    /\ sorted' = sorted \cup {v}
    /\ UNCHANGED <<phase, call, edges, n_, offsets, max_id, degree, counted,
                   total, scan, cursor, slot, written>>

(* 7. The edges are released; the locals go out of scope. *)
Release ==
    /\ phase = "sort" /\ sorted = Vertices
    /\ edges' = <<>>
    /\ phase' = "built"
    /\ max_id' = -1 /\ total' = 0 /\ scan' = 0
    /\ degree' = <<>> /\ counted' = {} /\ cursor' = <<>> /\ slot' = <<>>
    /\ written' = {} /\ sorted' = {}
    /\ UNCHANGED <<call, members>>

BuildStep ==
    \/ ReduceMax \/ BuildEmpty \/ StartDegreeCount
    \/ \E e \in Entries : CountEntry(e)
    \/ StartOffsets \/ PrefixSum \/ AllocateArenas
    \/ \E e \in Entries : CaptureSlot(e) \/ StoreEntry(e)
    \/ StartSort
    \/ \E v \in Vertices : SortVertex(v)
    \/ Release

Next == StartBuild \/ BuildStep

Spec == Init /\ [][Next]_vars

-----------------------------------------------------------------------------
(* The read side (include/tea/graph.hpp). *)
degree_of(v) == offsets[v + 1] - offsets[v]

(* Mutant: upper_bound. *)
MutantIsBefore(ts, t_prev) == ts <= t_prev

(* std::lower_bound over timestamps_of(v): the entries before t_prev.      *)
IsBefore(ts, t_prev) == ts < t_prev

candidate_set_len(v, t_prev) ==
    lower_bound({p \in Slice(v) : IsBefore(timestamps[p], t_prev)},
                offsets[v], degree_of(v)) - offsets[v]

-----------------------------------------------------------------------------
(* Properties *)

(* An entry's cell lies in its own vertex's slice of the arena: the degrees *)
(* counted in step 2 leave room for every slot captured in step 5.         *)
SlotsInSlice ==
    phase = "scatter" =>
        \A e \in Entries : slot[e] # NoSlot => Cell(e) \in Slice(At(e))

(* No two scattered entries, of whatever threads and vertices, ever go to  *)
(* the same cell: the plain stores after the atomic capture do not race.   *)
NoSharedCell ==
    phase = "scatter" =>
        \A e, f \in Entries :
            slot[e] # NoSlot /\ slot[f] # NoSlot /\ Cell(e) = Cell(f) => e = f

(* In a built graph the candidates of a walk at v before t_prev are the    *)
(* first candidate_set_len(v, t_prev) cells of v's slice, and no others.   *)
CandidatePrefix ==
    phase = "built" =>
        \A v \in Vertices :
            \A t_prev \in {timestamps[p] + d : p \in Slice(v), d \in 0..1} :
                \A p \in Slice(v) :
                    timestamps[p] < t_prev
                        <=> p < offsets[v] + candidate_set_len(v, t_prev)

AdjacencyOf(v) ==
    [i \in 1..degree_of(v) |-> [v |-> targets[offsets[v] + i - 1],
                                t |-> timestamps[offsets[v] + i - 1]]]

(* tests/test_graph.cpp and README.md: the parallel build gives the same   *)
(* adjacency as a build on one thread, whatever the schedule.              *)
BuildDeterministic ==
    phase = "built" => \A v \in Vertices : AdjacencyOf(v) = ListOf(call, v)

(* Where no two entries of a vertex have the same time, the schedule does  *)
(* not show in that vertex's list.                                         *)
UniqueTimesDeterministic ==
    phase = "built" =>
        \A v \in Vertices :
            (\A p, q \in Slice(v) : timestamps[p] = timestamps[q] => p = q)
                => AdjacencyOf(v) = ListOf(call, v)

(* The build delivers what TemporalAdjacency promises. *)
Adjacency ==
    INSTANCE TemporalAdjacency
    WITH building <- IF phase \in {"unbuilt", "built"} THEN {} ELSE {call},
         adj <- IF phase = "built" THEN [v \in Vertices |-> AdjacencyOf(v)] ELSE <<>>
ImplementsAdjacency == Adjacency!Spec
=============================================================================
