------------------------------ MODULE EdgeLists ------------------------------
(***************************************************************************)
(* The input of TemporalGraph::build: an edge vector (include/tea/edge.hpp)*)
(* with the arguments it is called with, and the adjacency entries those   *)
(* edges stand for.                                                        *)
(***************************************************************************)
EXTENDS Integers, Sequences, FiniteSets

CONSTANT Calls  \* the argument lists build() may be called with

(* Vertex ids are int32 >= 0; a time is an int64. *)
Edge == [u : Nat, v : Nat, t : Int]

(***************************************************************************)
(* A call: the edge vector, num_vertices (negative: not given) and         *)
(* is_directed.  Ids are below num_vertices when it is given and not 0,    *)
(* which is what indexing degree[e.v] requires.                            *)
(***************************************************************************)
Callable(c) ==
    /\ c.edges \in Seq(Edge)
    /\ c.num_vertices \in Int
    /\ c.is_directed \in BOOLEAN
    /\ c.num_vertices > 0 =>
           \A i \in 1..Len(c.edges) :
               c.edges[i].u < c.num_vertices /\ c.edges[i].v < c.num_vertices

ASSUME CallsAssumption == \A c \in Calls : Callable(c)

(* Each edge is stored at its v side, and at its u side too if undirected. *)
SidesOf(c) == IF c.is_directed THEN {"v"} ELSE {"u", "v"}
EntriesOf(c) == (1..Len(c.edges)) \X SidesOf(c)

(* The vertex an entry is stored at, and what is stored there. *)
VertexOf(c, e) == IF e[2] = "v" THEN c.edges[e[1]].v ELSE c.edges[e[1]].u
StepOf(c, e) ==
    [v |-> IF e[2] = "v" THEN c.edges[e[1]].u ELSE c.edges[e[1]].v,
     t |-> c.edges[e[1]].t]

(* The list of v, as one thread stores and sorts it: by time, and entries  *)
(* of the same time in the order of the edge vector, the v side first.     *)
ListOf(c, v) ==
    LET mine == {e \in EntriesOf(c) : VertexOf(c, e) = v}
        time(e) == c.edges[e[1]].t
        before(f, e) == \/ time(f) < time(e)
                        \/ time(f) = time(e) /\ f[1] < e[1]
                        \/ time(f) = time(e) /\ f[1] = e[1] /\ f[2] = "v" /\ e[2] = "u"
    IN  [i \in 1..Cardinality(mine) |->
            StepOf(c, CHOOSE e \in mine :
                          Cardinality({f \in mine : before(f, e)}) = i - 1)]

IdsOf(c) == UNION {{c.edges[i].u, c.edges[i].v} : i \in 1..Len(c.edges)}
VertexCountOf(c) ==
    IF c.num_vertices >= 0
    THEN c.num_vertices
    ELSE CHOOSE n \in {0} \cup {id + 1 : id \in IdsOf(c)} :
             \A id \in IdsOf(c) : id < n
=============================================================================
