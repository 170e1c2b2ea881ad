------------------------- MODULE TemporalGraphProofs -------------------------
(***************************************************************************)
(* For every set of calls, team size, chunk size and sort: the scatter of  *)
(* TemporalGraph::build stays inside each vertex's slice and never writes  *)
(* a cell twice; a build delivers what TemporalAdjacency promises, the     *)
(* binary search of the read side finds the candidates, and where times do *)
(* not tie the schedule does not show.                                     *)
(***************************************************************************)
EXTENDS TemporalGraph, DataLemmas

Running == {"degree", "offsets", "scatter", "sort"}

CountedAt(v) == {e \in counted : At(e) = v}
ClaimedAt(v) == {e \in Entries : slot[e] # NoSlot /\ At(e) = v}

(* The edge vector is the call's, and once n is known it bounds every id. *)
EdgesInv ==
    /\ phase \in Running \cup {"reduce"} => edges = call.edges
    /\ phase = "reduce" => scan >= 1
    /\ phase = "reduce" /\ call.num_vertices < 0 =>
           \A i \in 1..Len(edges) :
               i < scan => edges[i].u <= max_id /\ edges[i].v <= max_id
    /\ phase \in Running => \A e \in Entries : At(e) \in Vertices

(* degree counts what has been counted; after its barrier, every entry. *)
DegreeInv ==
    /\ phase \in Running => \A v \in Vertices : degree[v] = Cardinality(CountedAt(v))
    /\ phase \in {"offsets", "scatter"} => counted = Entries

(* Slices have room for their vertices' degrees and do not overlap. *)
OffsetsInv ==
    /\ phase = "offsets" =>
           /\ scan <= n_
           /\ \A a \in Vertices : a < scan => offsets[a] + degree[a] <= total
           /\ \A a, b \in Vertices :
                  a < b /\ b < scan => offsets[a] + degree[a] <= offsets[b]
    /\ phase \in {"scatter", "sort"} =>
           \A a \in Vertices, b \in 0..n_ :
               a < b => offsets[a] + degree[a] <= offsets[b]

(* The cursors have handed out distinct slots, from 0 up. *)
CursorInv ==
    phase = "scatter" =>
        /\ \A v \in Vertices : cursor[v] = Cardinality(ClaimedAt(v))
        /\ \A e \in Entries : slot[e] # NoSlot => slot[e] < cursor[At(e)]
        /\ \A e, f \in Entries :
               /\ slot[e] # NoSlot
               /\ slot[e] = slot[f]
               /\ At(e) = At(f)
               => e = f

IInv == TypeOK /\ EdgesInv /\ DegreeInv /\ OffsetsInv /\ CursorInv

-----------------------------------------------------------------------------
(* What the entries of a well-typed edge vector are. *)
LEMMA EntryTypes ==
    ASSUME TypeOK
    PROVE  /\ IsFiniteSet(Entries)
           /\ \A e \in Entries :
                  /\ e[1] \in 1..Len(edges)
                  /\ At(e) \in Nat /\ Other(e) \in Nat
                  /\ edges[e[1]].t \in Int
                  /\ At(e) \in {edges[e[1]].u, edges[e[1]].v}
<1>1. Len(edges) \in Nat
    BY DEF TypeOK
<1>2. IsFiniteSet(1..Len(edges))
    BY <1>1, FS_Interval
<1>3. IsFiniteSet({"v"}) /\ IsFiniteSet({"v"} \cup {"u"})
    BY FS_Singleton, FS_AddElement
<1>4. {"v"} \cup {"u"} = {"u", "v"}
    OBVIOUS
<1>5. IsFiniteSet(Sides)
    BY <1>3, <1>4 DEF Sides
<1>6. IsFiniteSet(Entries)
    BY <1>2, <1>5, FS_Product DEF Entries
<1>7. ASSUME NEW e \in Entries
      PROVE  /\ e[1] \in 1..Len(edges)
             /\ At(e) \in Nat /\ Other(e) \in Nat
             /\ edges[e[1]].t \in Int
             /\ At(e) \in {edges[e[1]].u, edges[e[1]].v}
  <2>1. e[1] \in 1..Len(edges)
      BY DEF Entries
  <2>2. edges[e[1]] \in Edge
      BY <2>1 DEF TypeOK
  <2> QED
      BY <2>1, <2>2 DEF Edge, At, Other
<1> QED
    BY <1>6, <1>7

(* Adding a counted (or claimed) entry moves its vertex's cardinality by one *)
(* and no other: stated for the difference of two sets of entries.          *)
LEMMA OneMore ==
    ASSUME NEW S, NEW T, NEW e, IsFiniteSet(S), e \notin S, T = S \cup {e}
    PROVE  Cardinality(T) = Cardinality(S) + 1
BY FS_AddElement

LEMMA InitIInv == Init => IInv
BY DEF Init, IInv, TypeOK, EdgesInv, DegreeInv, OffsetsInv, CursorInv, Running,
       NoCall

-----------------------------------------------------------------------------
(* The serial steps before the degree count. *)
LEMMA StartBuildKeeps == IInv /\ StartBuild => IInv'
<1> SUFFICES ASSUME IInv, StartBuild PROVE IInv'
    OBVIOUS
<1>1. TypeOK'
    BY CallsAssumption DEF Callable, IInv, TypeOK, StartBuild, members
<1>2. EdgesInv'
    BY CallsAssumption DEF Callable, StartBuild, EdgesInv, Running
<1>3. DegreeInv' /\ OffsetsInv' /\ CursorInv'
    BY DEF StartBuild, DegreeInv, OffsetsInv, CursorInv, Running
<1> QED
    BY <1>1, <1>2, <1>3 DEF IInv

LEMMA ReduceMaxKeeps == IInv /\ ReduceMax => IInv'
<1> SUFFICES ASSUME IInv, ReduceMax PROVE IInv'
    OBVIOUS
<1>1. scan \in 1..Len(edges)
    BY DEF IInv, TypeOK, EdgesInv, ReduceMax
<1>2. edges[scan] \in Edge
    BY <1>1 DEF IInv, TypeOK
<1>3. PICK m \in {max_id, edges[scan].u, edges[scan].v} :
          /\ m >= max_id /\ m >= edges[scan].u /\ m >= edges[scan].v
          /\ max_id' = m
    BY DEF ReduceMax
<1>4. max_id' \in Int /\ max_id' >= max_id
    BY <1>2, <1>3 DEF IInv, TypeOK, Edge
<1>5. TypeOK'
    BY <1>4 DEF IInv, TypeOK, ReduceMax, members
<1>6. EdgesInv'
  <2>1. ASSUME NEW i \in 1..Len(edges), i < scan + 1
        PROVE  edges[i].u <= max_id' /\ edges[i].v <= max_id'
    <3>1. edges[i] \in Edge
        BY DEF IInv, TypeOK
    <3>2. CASE i = scan
        BY <3>2, <1>3
    <3>3. CASE i < scan
      <4>1. edges[i].u <= max_id /\ edges[i].v <= max_id
          BY <3>3 DEF IInv, EdgesInv, ReduceMax
      <4>2. edges[i].u \in Int /\ edges[i].v \in Int /\ max_id \in Int
          BY SMTT(30), <3>1 DEF IInv, TypeOK, Edge
      <4> QED
          BY <4>1, <4>2, <1>4
    <3> QED
        BY <2>1, <3>2, <3>3 DEF IInv, TypeOK
  <2> QED
      BY <2>1, <1>1 DEF IInv, EdgesInv, ReduceMax, Running
<1>7. DegreeInv' /\ OffsetsInv' /\ CursorInv'
    BY DEF ReduceMax, DegreeInv, OffsetsInv, CursorInv, Running
<1> QED
    BY <1>5, <1>6, <1>7 DEF IInv

LEMMA BuildEmptyKeeps == IInv /\ BuildEmpty => IInv'
<1> SUFFICES ASSUME IInv, BuildEmpty PROVE IInv'
    OBVIOUS
<1>1. TypeOK'
    BY DEF IInv, TypeOK, BuildEmpty, SizeKnown, locals
<1>2. EdgesInv' /\ DegreeInv' /\ OffsetsInv' /\ CursorInv'
    BY DEF BuildEmpty, EdgesInv, DegreeInv, OffsetsInv, CursorInv, Running
<1> QED
    BY <1>1, <1>2 DEF IInv

LEMMA StartDegreeCountKeeps == IInv /\ StartDegreeCount => IInv'
<1> SUFFICES ASSUME IInv, StartDegreeCount PROVE IInv'
    OBVIOUS
<1> USE DEF StartDegreeCount, SizeKnown
<1>1. call \in Calls /\ edges = call.edges
    BY DEF IInv, TypeOK, EdgesInv, Running
<1>2. VertexCount \in Nat /\ VertexCount > 0
    BY <1>1, CallsAssumption DEF Callable, IInv, TypeOK, VertexCount
<1>3. Entries' = Entries /\ \A e \in Entries : At(e)' = At(e)
    BY DEF Entries, Sides, At
<1>4. \A e \in Entries : At(e) \in Vertices'
  <2> SUFFICES ASSUME NEW e \in Entries PROVE At(e) < VertexCount
      BY <1>2, EntryTypes DEF IInv, Vertices
  <2>1. e[1] \in 1..Len(edges) /\ At(e) \in {edges[e[1]].u, edges[e[1]].v}
      BY EntryTypes DEF IInv
  <2>2. edges[e[1]] \in Edge
      BY <2>1 DEF IInv, TypeOK
  <2>3. CASE call.num_vertices >= 0
      BY <2>1, <2>3, <1>1, <1>2, CallsAssumption DEF Callable, VertexCount
  <2>4. CASE ~(call.num_vertices >= 0)
    <3>1. e[1] < scan
        BY <2>1, <2>4 DEF IInv, TypeOK
    <3>2. edges[e[1]].u <= max_id /\ edges[e[1]].v <= max_id
        BY <2>1, <2>4, <3>1, <1>1, CallsAssumption DEF Callable, IInv, EdgesInv
    <3> QED
        BY SMTT(30), <2>1, <2>2, <2>4, <3>2 DEF VertexCount, IInv, TypeOK, Edge
  <2> QED
      BY <2>3, <2>4
<1>5. TypeOK'
    BY <1>2 DEF IInv, TypeOK, Vertices
<1>6. EdgesInv'
    BY <1>1, <1>3, <1>4 DEF EdgesInv, Running
<1>7. DegreeInv'
  <2>1. \A v \in Vertices' : CountedAt(v)' = {}
      BY DEF CountedAt
  <2>2. \A v \in Vertices' : degree'[v] = 0
      BY DEF Vertices
  <2> QED
      BY <2>1, <2>2, FS_EmptySet DEF DegreeInv, Running
<1>8. OffsetsInv' /\ CursorInv'
    BY DEF OffsetsInv, CursorInv
<1> QED
    BY <1>5, <1>6, <1>7, <1>8 DEF IInv

-----------------------------------------------------------------------------
(* The degree count and the prefix sum. *)
LEMMA CountEntryKeeps == IInv /\ (\E e \in Entries : CountEntry(e)) => IInv'
<1> SUFFICES ASSUME IInv, NEW e \in Entries, CountEntry(e) PROVE IInv'
    OBVIOUS
<1> USE DEF CountEntry, members
<1>1. /\ Entries' = Entries /\ Vertices' = Vertices
      /\ \A f \in Entries : At(f)' = At(f)
    BY DEF Entries, Sides, Vertices, At
<1>2. /\ At(e) \in Vertices
      /\ degree \in [Vertices -> Nat] /\ counted \subseteq Entries
    BY DEF IInv, TypeOK, EdgesInv, Running
<1>3. TypeOK'
    BY <1>1, <1>2 DEF IInv, TypeOK
<1>4. EdgesInv'
    BY <1>1 DEF IInv, EdgesInv, Running
<1>5. ASSUME NEW v \in Vertices
      PROVE  degree'[v] = Cardinality(CountedAt(v)')
  <2>1. degree[v] = Cardinality(CountedAt(v))
      BY DEF IInv, DegreeInv, Running
  <2>2. IsFiniteSet(CountedAt(v))
      BY <1>2, EntryTypes, FS_Subset DEF IInv, CountedAt
  <2>3. CASE v = At(e)
    <3>1. CountedAt(v)' = CountedAt(v) \cup {e} /\ e \notin CountedAt(v)
        BY <1>1, <1>2, <2>3 DEF CountedAt
    <3> QED
        BY <3>1, <2>1, <2>2, <2>3, <1>2, OneMore
  <2>4. CASE v # At(e)
    <3>1. CountedAt(v)' = CountedAt(v)
        BY <1>1, <1>2, <2>4 DEF CountedAt
    <3> QED
        BY <3>1, <2>1, <2>4, <1>2
  <2> QED
      BY <2>3, <2>4
<1>6. DegreeInv' /\ OffsetsInv' /\ CursorInv'
    BY <1>1, <1>5 DEF DegreeInv, OffsetsInv, CursorInv
<1> QED
    BY <1>3, <1>4, <1>6 DEF IInv

LEMMA StartOffsetsKeeps == IInv /\ StartOffsets => IInv'
<1> SUFFICES ASSUME IInv, StartOffsets PROVE IInv'
    OBVIOUS
<1> USE DEF StartOffsets
<1>1. /\ Entries' = Entries /\ Vertices' = Vertices
      /\ \A f \in Entries : At(f)' = At(f)
      /\ \A v \in Vertices : CountedAt(v)' = CountedAt(v)
    BY DEF Entries, Sides, Vertices, At, CountedAt
<1>2. TypeOK'
    BY <1>1 DEF IInv, TypeOK
<1>3. EdgesInv' /\ DegreeInv'
    BY <1>1 DEF IInv, EdgesInv, DegreeInv, Running
<1>4. OffsetsInv' /\ CursorInv'
    BY DEF IInv, TypeOK, OffsetsInv, CursorInv, Vertices
<1> QED
    BY <1>2, <1>3, <1>4 DEF IInv

LEMMA PrefixSumKeeps == IInv /\ PrefixSum => IInv'
<1> SUFFICES ASSUME IInv, PrefixSum PROVE IInv'
    OBVIOUS
<1> USE DEF PrefixSum
<1>1. /\ Entries' = Entries /\ Vertices' = Vertices
      /\ \A f \in Entries : At(f)' = At(f)
      /\ \A v \in Vertices : CountedAt(v)' = CountedAt(v)
    BY DEF Entries, Sides, Vertices, At, CountedAt
<1>2. /\ degree \in [Vertices -> Nat] /\ scan \in Vertices
      /\ offsets \in [0..n_ -> Nat] /\ total \in Nat /\ n_ \in Nat
  <2>1. /\ degree \in [Vertices -> Nat] /\ scan \in Nat /\ scan < n_
        /\ offsets \in [0..n_ -> Nat] /\ total \in Nat /\ n_ \in Nat
      BY DEF IInv, TypeOK
  <2> QED
      BY <2>1 DEF Vertices
<1>3. /\ offsets' \in [0..n_ -> Nat]
      /\ \A a \in Vertices : offsets'[a] = IF a = scan THEN total ELSE offsets[a]
      /\ total' = total + degree[scan] /\ total' \in Nat
    BY <1>2 DEF Vertices
<1>4. TypeOK'
    BY <1>1, <1>2, <1>3 DEF IInv, TypeOK
<1>5. EdgesInv' /\ DegreeInv'
    BY <1>1 DEF IInv, EdgesInv, DegreeInv, Running
<1>6. OffsetsInv'
  <2>0. \A a, b \in Vertices :
            a < b /\ b < scan => offsets[a] + degree[a] <= offsets[b]
      BY DEF IInv, OffsetsInv
  <2>1. scan' <= n_'
      BY <1>2 DEF Vertices
  <2>2. ASSUME NEW a \in Vertices, a < scan + 1
        PROVE  offsets'[a] + degree[a] <= total'
    <3>1. CASE a = scan
        BY <3>1, <1>2, <1>3
    <3>2. CASE a < scan
      <4>1. offsets[a] + degree[a] <= total
          BY <3>2 DEF IInv, OffsetsInv
      <4>2. offsets[a] \in Nat /\ degree[a] \in Nat /\ degree[scan] \in Nat
          BY <1>2 DEF Vertices
      <4>3. offsets'[a] = offsets[a]
          BY <3>2, <1>2, <1>3 DEF Vertices
      <4> QED
          BY SMTT(30), <4>1, <4>2, <4>3, <1>2, <1>3
    <3> QED
        BY <2>2, <3>1, <3>2, <1>2 DEF Vertices
  <2>3. ASSUME NEW a \in Vertices, NEW b \in Vertices, a < b, b < scan + 1
        PROVE  offsets'[a] + degree[a] <= offsets'[b]
    <3>1. a < scan /\ offsets'[a] = offsets[a]
        BY <2>3, <1>2, <1>3 DEF Vertices
    <3>2. CASE b = scan
        BY <3>1, <3>2, <1>3 DEF IInv, OffsetsInv
    <3>3. CASE b < scan
      <4>1. offsets[a] + degree[a] <= offsets[b]
          BY <2>0, <2>3, <3>3
      <4>2. offsets'[b] = offsets[b]
          BY <3>3, <1>2, <1>3 DEF Vertices
      <4> QED
          BY <3>1, <4>1, <4>2
    <3> QED
        BY <2>3, <3>2, <3>3, <1>2 DEF Vertices
  <2> QED
      BY <1>1, <2>1, <2>2, <2>3 DEF OffsetsInv
<1>7. CursorInv'
    BY DEF CursorInv
<1> QED
    BY <1>4, <1>5, <1>6, <1>7 DEF IInv

LEMMA AllocateArenasKeeps == IInv /\ AllocateArenas => IInv'
<1> SUFFICES ASSUME IInv, AllocateArenas PROVE IInv'
    OBVIOUS
<1> USE DEF AllocateArenas
<1>1. /\ Entries' = Entries /\ Vertices' = Vertices
      /\ \A f \in Entries : At(f)' = At(f)
      /\ \A v \in Vertices : CountedAt(v)' = CountedAt(v)
    BY DEF Entries, Sides, Vertices, At, CountedAt
<1>2. /\ degree \in [Vertices -> Nat]
      /\ offsets \in [0..n_ -> Nat] /\ total \in Nat /\ n_ \in Nat
    BY DEF IInv, TypeOK
<1>3. /\ offsets' \in [0..n_ -> Nat] /\ offsets'[n_] = total
      /\ \A a \in Vertices : offsets'[a] = offsets[a]
    BY <1>2 DEF Vertices
<1>4. TypeOK'
    BY <1>1, <1>2, <1>3 DEF IInv, TypeOK
<1>5. EdgesInv' /\ DegreeInv'
    BY <1>1 DEF IInv, EdgesInv, DegreeInv, Running
<1>6. OffsetsInv'
  <2> SUFFICES ASSUME NEW a \in Vertices, NEW b \in 0..n_, a < b
               PROVE  offsets'[a] + degree[a] <= offsets'[b]
      BY <1>1 DEF OffsetsInv
  <2>1. a < scan
      BY <1>2 DEF Vertices
  <2>2. CASE b = n_
      BY <2>1, <2>2, <1>3 DEF IInv, OffsetsInv
  <2>3. CASE b # n_
    <3>1. b \in Vertices /\ b < scan
        BY <2>3, <1>2 DEF Vertices
    <3> QED
        BY <3>1, <1>3 DEF IInv, OffsetsInv
  <2> QED
      BY <2>2, <2>3
<1>7. CursorInv'
  <2>1. \A v \in Vertices : ClaimedAt(v)' = {}
      BY <1>1 DEF ClaimedAt
  <2>2. \A v \in Vertices : cursor'[v] = 0
      OBVIOUS
  <2>3. \A e \in Entries : slot'[e] = NoSlot
      OBVIOUS
  <2> QED
      BY <1>1, <2>1, <2>2, <2>3, FS_EmptySet DEF CursorInv
<1> QED
    BY <1>4, <1>5, <1>6, <1>7 DEF IInv

-----------------------------------------------------------------------------
(* The scatter. *)
LEMMA CaptureSlotKeeps == IInv /\ (\E e \in Entries : CaptureSlot(e)) => IInv'
<1> SUFFICES ASSUME IInv, NEW e \in Entries, CaptureSlot(e) PROVE IInv'
    OBVIOUS
<1> USE DEF CaptureSlot, members
<1>1. /\ Entries' = Entries /\ Vertices' = Vertices
      /\ \A f \in Entries : At(f)' = At(f)
      /\ \A v \in Vertices : CountedAt(v)' = CountedAt(v)
    BY DEF Entries, Sides, Vertices, At, CountedAt
<1>2. /\ \A f \in Entries : At(f) \in Vertices
      /\ cursor \in [Vertices -> Nat]
      /\ slot \in [Entries -> Nat \cup {NoSlot}]
    BY DEF IInv, TypeOK, EdgesInv, Running
<1>3. /\ cursor' \in [Vertices -> Nat]
      /\ \A v \in Vertices :
             cursor'[v] = IF v = At(e) THEN cursor[v] + 1 ELSE cursor[v]
    BY <1>2
<1>4. /\ slot' \in [Entries -> Nat \cup {NoSlot}]
      /\ \A f \in Entries : slot'[f] = IF f = e THEN cursor[At(e)] ELSE slot[f]
      /\ slot'[e] # NoSlot
    BY <1>2 DEF NoSlot
<1>5. TypeOK'
    BY <1>1, <1>3, <1>4 DEF IInv, TypeOK
<1>6. EdgesInv' /\ DegreeInv' /\ OffsetsInv'
    BY <1>1 DEF IInv, EdgesInv, DegreeInv, OffsetsInv, Running
<1>7. ASSUME NEW v \in Vertices
      PROVE  cursor'[v] = Cardinality(ClaimedAt(v)')
  <2>1. cursor[v] = Cardinality(ClaimedAt(v))
      BY DEF IInv, CursorInv
  <2>2. IsFiniteSet(ClaimedAt(v))
      BY EntryTypes, FS_Subset DEF IInv, ClaimedAt
  <2>3. CASE v = At(e)
    <3>1. ClaimedAt(v)' = ClaimedAt(v) \cup {e} /\ e \notin ClaimedAt(v)
        BY <1>1, <1>4, <2>3 DEF ClaimedAt
    <3> QED
        BY <3>1, <2>1, <2>2, <2>3, <1>3, OneMore
  <2>4. CASE v # At(e)
    <3>1. ClaimedAt(v)' = ClaimedAt(v)
        BY <1>1, <1>4, <2>4 DEF ClaimedAt
    <3> QED
        BY <3>1, <2>1, <2>4, <1>3
  <2> QED
      BY <2>3, <2>4
<1>8. \A f \in Entries : slot[f] # NoSlot => slot[f] < cursor[At(f)]
    BY DEF IInv, CursorInv
<1>9. ASSUME NEW f \in Entries, slot'[f] # NoSlot
      PROVE  slot'[f] < cursor'[At(f)]
  <2>1. CASE f = e
      BY <2>1, <1>2, <1>3, <1>4
  <2>2. CASE f # e
    <3>1. slot'[f] = slot[f] /\ slot[f] < cursor[At(f)]
        BY <2>2, <1>4, <1>8, <1>9
    <3>2. cursor[At(f)] \in Nat /\ cursor'[At(f)] >= cursor[At(f)]
        BY <1>2, <1>3
    <3>3. slot[f] \in Nat
        BY <3>1, <1>9, <1>2
    <3> QED
        BY <3>1, <3>2, <3>3, <1>3, <1>2
  <2> QED
      BY <2>1, <2>2
<1>10. ASSUME NEW f \in Entries, NEW g \in Entries,
              slot'[f] # NoSlot, slot'[f] = slot'[g], At(f) = At(g)
       PROVE  f = g
  <2>1. CASE f # e /\ g # e
      BY <2>1, <1>4, <1>10 DEF IInv, CursorInv
  <2>2. ASSUME NEW h \in Entries, h # e, At(h) = At(e), slot'[h] = slot'[e]
        PROVE  FALSE
    <3>1. slot[h] = cursor[At(h)] /\ slot[h] # NoSlot
        BY <2>2, <1>4
    <3>2. slot[h] < cursor[At(h)] /\ cursor[At(h)] \in Nat
        BY <3>1, <1>8, <1>2
    <3> QED
        BY <3>1, <3>2
  <2> QED
      BY <2>1, <2>2, <1>10
<1>11. CursorInv'
    BY <1>1, <1>7, <1>9, <1>10 DEF CursorInv
<1> QED
    BY <1>5, <1>6, <1>11 DEF IInv

LEMMA StoreEntryKeeps == IInv /\ (\E e \in Entries : StoreEntry(e)) => IInv'
<1> SUFFICES ASSUME IInv, NEW e \in Entries, StoreEntry(e) PROVE IInv'
    OBVIOUS
<1> USE DEF StoreEntry
<1>1. /\ Entries' = Entries /\ Vertices' = Vertices
      /\ \A f \in Entries : At(f)' = At(f)
      /\ \A v \in Vertices : CountedAt(v)' = CountedAt(v)
      /\ \A v \in Vertices : ClaimedAt(v)' = ClaimedAt(v)
    BY DEF Entries, Sides, Vertices, At, CountedAt, ClaimedAt
<1>2. Other(e) \in Nat /\ edges[e[1]].t \in Int
    BY EntryTypes DEF IInv
<1>3. TypeOK'
  <2>1. targets' \in [0..offsets[n_] - 1 -> Nat]
      BY <1>2 DEF IInv, TypeOK
  <2>2. timestamps' \in [0..offsets[n_] - 1 -> Int]
      BY <1>2 DEF IInv, TypeOK
  <2> QED
      BY <1>1, <2>1, <2>2 DEF IInv, TypeOK
<1>4. EdgesInv' /\ DegreeInv' /\ OffsetsInv' /\ CursorInv'
    BY <1>1 DEF IInv, EdgesInv, DegreeInv, OffsetsInv, CursorInv, Running
<1> QED
    BY <1>3, <1>4 DEF IInv

-----------------------------------------------------------------------------
(* The sort and the return. *)
LEMMA StartSortKeeps == IInv /\ StartSort => IInv'
<1> SUFFICES ASSUME IInv, StartSort PROVE IInv'
    OBVIOUS
<1> USE DEF StartSort, members, locals
<1>1. /\ Entries' = Entries /\ Vertices' = Vertices
      /\ \A f \in Entries : At(f)' = At(f)
      /\ \A v \in Vertices : CountedAt(v)' = CountedAt(v)
    BY DEF Entries, Sides, Vertices, At, CountedAt
<1>2. TypeOK'
    BY <1>1 DEF IInv, TypeOK
<1>3. EdgesInv' /\ DegreeInv' /\ OffsetsInv' /\ CursorInv'
    BY <1>1 DEF IInv, EdgesInv, DegreeInv, OffsetsInv, CursorInv, Running
<1> QED
    BY <1>2, <1>3 DEF IInv

(* A vertex's slice lies inside the arena. *)
LEMMA SliceInArena ==
    ASSUME IInv, phase \in {"scatter", "sort"}, NEW v \in Vertices
    PROVE  Slice(v) \subseteq 0..offsets[n_] - 1
<1>1. /\ offsets \in [0..n_ -> Nat] /\ degree \in [Vertices -> Nat] /\ n_ \in Nat
      /\ v \in 0..n_ /\ v + 1 \in 0..n_ /\ n_ \in 0..n_
    BY SMTT(30) DEF IInv, TypeOK, Vertices
<1>2. offsets[v] \in Nat /\ offsets[v + 1] \in Nat /\ offsets[n_] \in Nat
    BY <1>1
<1>3. offsets[v + 1] <= offsets[n_]
  <2>1. CASE v + 1 = n_
      BY <2>1, <1>2
  <2>2. CASE v + 1 # n_
    <3>1. v + 1 \in Vertices /\ v + 1 < n_
        BY <2>2, <1>1 DEF Vertices
    <3>2. offsets[v + 1] + degree[v + 1] <= offsets[n_]
        BY <3>1, <1>1 DEF IInv, OffsetsInv
    <3>3. degree[v + 1] \in Nat
        BY <3>1, <1>1
    <3> QED
        BY <3>2, <3>3, <1>2
  <2> QED
      BY <2>1, <2>2
<1> QED
    BY <1>2, <1>3 DEF Slice

LEMMA SortVertexKeeps == IInv /\ (\E v \in Vertices : SortVertex(v)) => IInv'
<1> SUFFICES ASSUME IInv, NEW v \in Vertices, SortVertex(v) PROVE IInv'
    OBVIOUS
<1> USE DEF SortVertex
<1>1. /\ Entries' = Entries /\ Vertices' = Vertices
      /\ \A f \in Entries : At(f)' = At(f)
      /\ \A w \in Vertices : CountedAt(w)' = CountedAt(w)
    BY DEF Entries, Sides, Vertices, At, CountedAt
<1>2. PICK p \in Sorts(Slice(v)) :
          /\ targets' = [i \in DOMAIN targets |->
                            IF i \in Slice(v) THEN targets[p[i]] ELSE targets[i]]
          /\ timestamps' = [i \in DOMAIN timestamps |->
                            IF i \in Slice(v) THEN timestamps[p[i]] ELSE timestamps[i]]
    OBVIOUS
<1>3. p \in [Slice(v) -> Slice(v)]
    BY <1>2 DEF Sorts, Bijection, Injection
<1>4. Slice(v) \subseteq 0..offsets[n_] - 1
    BY SliceInArena
<1>5. targets \in [0..offsets[n_] - 1 -> Nat] /\ timestamps \in [0..offsets[n_] - 1 -> Int]
    BY DEF IInv, TypeOK
<1>6. targets' \in [0..offsets[n_] - 1 -> Nat] /\ timestamps' \in [0..offsets[n_] - 1 -> Int]
  <2>1. \A i \in Slice(v) : p[i] \in 0..offsets[n_] - 1
      BY <1>3, <1>4
  <2> DEFINE A == 0..offsets[n_] - 1
  <2>2. targets \in [A -> Nat] /\ timestamps \in [A -> Int]
      BY <1>5
  <2>3. \A i \in Slice(v) : p[i] \in A
      BY <2>1
  <2> HIDE DEF A
  <2>4. targets' \in [A -> Nat]
      BY <1>2, <2>2, <2>3
  <2>5. timestamps' \in [A -> Int]
      BY <1>2, <2>2, <2>3
  <2> QED
      BY <2>4, <2>5 DEF A
<1>7. TypeOK'
    BY <1>1, <1>6 DEF IInv, TypeOK
<1>8. EdgesInv' /\ DegreeInv' /\ OffsetsInv' /\ CursorInv'
    BY <1>1 DEF IInv, EdgesInv, DegreeInv, OffsetsInv, CursorInv, Running
<1> QED
    BY <1>7, <1>8 DEF IInv

LEMMA ReleaseKeeps == IInv /\ Release => IInv'
<1> SUFFICES ASSUME IInv, Release PROVE IInv'
    OBVIOUS
<1>1. TypeOK'
    BY DEF IInv, TypeOK, Release, members
<1>2. EdgesInv' /\ DegreeInv' /\ OffsetsInv' /\ CursorInv'
    BY DEF Release, EdgesInv, DegreeInv, OffsetsInv, CursorInv, Running
<1> QED
    BY <1>1, <1>2 DEF IInv

-----------------------------------------------------------------------------
LEMMA NextKeeps == IInv /\ [Next]_vars => IInv'
<1> SUFFICES ASSUME IInv, [Next]_vars PROVE IInv'
    OBVIOUS
<1>1. CASE UNCHANGED vars
  <2>1. /\ Entries' = Entries /\ Vertices' = Vertices
        /\ \A f \in Entries : At(f)' = At(f)
        /\ \A v \in Vertices : CountedAt(v)' = CountedAt(v)
        /\ \A v \in Vertices : ClaimedAt(v)' = ClaimedAt(v)
      BY <1>1 DEF vars, members, locals, Entries, Sides, Vertices, At,
                  CountedAt, ClaimedAt
  <2>2. TypeOK'
      BY <1>1, <2>1 DEF IInv, TypeOK, vars, members, locals
  <2>3. EdgesInv' /\ DegreeInv' /\ OffsetsInv' /\ CursorInv'
      BY <1>1, <2>1 DEF IInv, vars, members, locals, EdgesInv, DegreeInv,
                        OffsetsInv, CursorInv, Running
  <2> QED
      BY <2>2, <2>3 DEF IInv
<1>2. CASE Next
    BY <1>2, StartBuildKeeps, ReduceMaxKeeps, BuildEmptyKeeps,
       StartDegreeCountKeeps, CountEntryKeeps, StartOffsetsKeeps,
       PrefixSumKeeps, AllocateArenasKeeps, CaptureSlotKeeps, StoreEntryKeeps,
       StartSortKeeps, SortVertexKeeps, ReleaseKeeps
       DEF Next, BuildStep
<1> QED
    BY <1>1, <1>2

(* The inductive invariant holds in every reachable state. *)
THEOREM Invariance == Spec => []IInv
<1>1. Init => IInv
    BY InitIInv
<1>2. IInv /\ [Next]_vars => IInv'
    BY NextKeeps
<1> QED
    BY <1>1, <1>2, PTL DEF Spec

(* Members and locals of build() keep their types and ranges. *)
THEOREM TypeCorrect == Spec => []TypeOK
<1>1. IInv => TypeOK
    BY DEF IInv
<1> QED
    BY <1>1, Invariance, PTL

(* A captured slot is below the degree counted for its vertex. *)
LEMMA SlotBelowDegree ==
    ASSUME IInv, phase = "scatter", NEW e \in Entries, slot[e] # NoSlot
    PROVE  /\ slot[e] \in Nat /\ slot[e] < degree[At(e)]
           /\ At(e) \in Vertices /\ degree[At(e)] \in Nat
<1>1. /\ At(e) \in Vertices /\ slot[e] \in Nat
      /\ degree[At(e)] \in Nat /\ cursor[At(e)] \in Nat
    BY DEF IInv, TypeOK, EdgesInv, Running
<1>2. /\ slot[e] < cursor[At(e)]
      /\ cursor[At(e)] = Cardinality(ClaimedAt(At(e)))
      /\ degree[At(e)] = Cardinality(CountedAt(At(e)))
    BY <1>1 DEF IInv, CursorInv, DegreeInv, Running
<1>3. ClaimedAt(At(e)) \subseteq CountedAt(At(e))
    BY DEF IInv, DegreeInv, ClaimedAt, CountedAt
<1>4. IsFiniteSet(CountedAt(At(e)))
    BY EntryTypes, FS_Subset DEF IInv, DegreeInv, CountedAt
<1>5. cursor[At(e)] <= degree[At(e)]
    BY <1>2, <1>3, <1>4, FS_Subset
<1> QED
    BY <1>1, <1>2, <1>5

LEMMA SlotsInSliceHere == IInv => SlotsInSlice
<1> SUFFICES ASSUME IInv, phase = "scatter", NEW e \in Entries, slot[e] # NoSlot
             PROVE  Cell(e) \in Slice(At(e))
    BY DEF SlotsInSlice
<1>1. /\ slot[e] \in Nat /\ slot[e] < degree[At(e)]
      /\ At(e) \in Vertices /\ degree[At(e)] \in Nat
    BY SlotBelowDegree
<1>2. /\ offsets[At(e)] \in Nat /\ offsets[At(e) + 1] \in Nat
      /\ At(e) + 1 \in 0..n_ /\ At(e) < At(e) + 1
  <2>1. offsets \in [0..n_ -> Nat] /\ n_ \in Nat
      BY DEF IInv, TypeOK
  <2>2. At(e) \in 0..n_ /\ At(e) + 1 \in 0..n_ /\ At(e) < At(e) + 1
      BY <1>1, <2>1 DEF Vertices
  <2> QED
      BY <2>1, <2>2
<1>3. offsets[At(e)] + degree[At(e)] <= offsets[At(e) + 1]
    BY <1>1, <1>2 DEF IInv, OffsetsInv
<1> QED
    BY <1>1, <1>2, <1>3 DEF Cell, Slice

LEMMA NoSharedHere == IInv => NoSharedCell
<1> SUFFICES ASSUME IInv, phase = "scatter", NEW e \in Entries, NEW f \in Entries,
                    slot[e] # NoSlot, slot[f] # NoSlot, Cell(e) = Cell(f)
             PROVE  e = f
    BY DEF NoSharedCell
<1>1. /\ slot[e] \in Nat /\ slot[e] < degree[At(e)]
      /\ At(e) \in Vertices /\ degree[At(e)] \in Nat
    BY SlotBelowDegree
<1>2. /\ slot[f] \in Nat /\ slot[f] < degree[At(f)]
      /\ At(f) \in Vertices /\ degree[At(f)] \in Nat
    BY SlotBelowDegree
<1>3. /\ offsets[At(e)] \in Nat /\ offsets[At(f)] \in Nat
      /\ At(e) \in 0..n_ /\ At(f) \in 0..n_
      /\ At(e) \in Int /\ At(f) \in Int
  <2>1. offsets \in [0..n_ -> Nat] /\ n_ \in Nat
      BY DEF IInv, TypeOK
  <2>2. At(e) \in 0..n_ /\ At(f) \in 0..n_
      BY <1>1, <1>2, <2>1 DEF Vertices
  <2> QED
      BY <2>1, <2>2
<1>4. At(e) < At(f) => offsets[At(e)] + degree[At(e)] <= offsets[At(f)]
    BY <1>1, <1>3 DEF IInv, OffsetsInv
<1>5. At(f) < At(e) => offsets[At(f)] + degree[At(f)] <= offsets[At(e)]
    BY <1>2, <1>3 DEF IInv, OffsetsInv
<1>6. At(e) = At(f)
    BY <1>1, <1>2, <1>3, <1>4, <1>5 DEF Cell
<1>7. slot[e] = slot[f]
    BY <1>1, <1>2, <1>3, <1>6 DEF Cell
<1> QED
    BY <1>6, <1>7 DEF IInv, CursorInv

-----------------------------------------------------------------------------
(* The scatter of every build stays inside the slices its degree count laid *)
(* out: no store leaves the vertex's slice, nor the arena.                  *)
THEOREM ScatterInSlice == Spec => []SlotsInSlice
    BY SlotsInSliceHere, Invariance, PTL

(* No cell of the arena is ever claimed twice, whatever the interleaving of *)
(* the team: the stores of the scatter do not race.                         *)
THEOREM ScatterRaceFree == Spec => []NoSharedCell
    BY NoSharedHere, Invariance, PTL

-----------------------------------------------------------------------------
(* What a build delivers. *)
Holds(p, e) == targets[p] = StepOf(call, e).v /\ timestamps[p] = StepOf(call, e).t

(* The slice of v holds the entries of v, each once. *)
Arranged(v) ==
    \E b \in Bijection(Slice(v), EntriesAt(call, v)) : \A p \in Slice(v) : Holds(p, b[p])

InTimeOrder(v) == \A p, q \in Slice(v) : p < q => timestamps[p] <= timestamps[q]

(* The vertices the graph has are those its input calls for. *)
CountInv ==
    /\ phase = "reduce" => max_id = -1 \/ max_id \in IdsOf(call)
    /\ phase \in Running \cup {"built"} => n_ = VertexCountOf(call)

(* Each slice begins where the one before it ends. *)
LayoutInv ==
    /\ phase = "offsets" =>
           \A v \in Vertices : v < scan =>
               offsets[v] + degree[v] = IF v + 1 < scan THEN offsets[v + 1] ELSE total
    /\ phase \in {"scatter", "sort"} =>
           \A v \in Vertices : offsets[v + 1] = offsets[v] + degree[v]
    /\ phase = "built" => \A v \in Vertices : offsets[v] <= offsets[v + 1]

(* What has been stored stays; a sort moves a vertex's entries about.      *)
ContentsInv ==
    /\ phase = "scatter" =>
           sorted = {} /\ \A e \in written : slot[e] # NoSlot /\ Holds(Cell(e), e)
    /\ phase \in {"sort", "built"} => \A v \in Vertices : Arranged(v)
    /\ phase = "sort" => \A v \in sorted : InTimeOrder(v)
    /\ phase = "built" => \A v \in Vertices : InTimeOrder(v)

CInv == IInv /\ CountInv /\ LayoutInv /\ ContentsInv

-----------------------------------------------------------------------------
(* While the build has its edge vector, its entries are those of the call. *)
LEMMA SameEntries ==
    ASSUME IInv, phase \in Running
    PROVE  /\ Entries = EntriesOf(call)
           /\ \A e : At(e) = VertexOf(call, e)
           /\ \A e : StepOf(call, e) = [v |-> Other(e), t |-> edges[e[1]].t]
<1>1. edges = call.edges
    BY DEF IInv, EdgesInv
<1> QED
    BY <1>1 DEF Entries, Sides, EntriesOf, SidesOf, At, VertexOf, StepOf, Other

(* The size that is found is the number of vertices the input calls for. *)
LEMMA VertexCountRight ==
    ASSUME IInv, CountInv, SizeKnown
    PROVE  VertexCount = VertexCountOf(call)
<1>1. /\ call \in Calls /\ edges = call.edges /\ phase = "reduce"
      /\ edges \in Seq(Edge) /\ max_id \in Int /\ max_id >= -1
    BY DEF IInv, TypeOK, EdgesInv, SizeKnown
<1>2. CASE call.num_vertices >= 0
    BY <1>2 DEF VertexCount, VertexCountOf
<1>3. CASE ~(call.num_vertices >= 0)
  <2>0. call.num_vertices \in Int
      BY <1>1, CallsAssumption DEF Callable
  <2>1. scan > Len(edges) /\ scan \in Nat
      BY <1>3 DEF SizeKnown, IInv, TypeOK
  <2>2. ASSUME NEW id \in IdsOf(call) PROVE id \in Nat /\ id <= max_id
    <3>1. PICK k \in 1..Len(edges) : id \in {edges[k].u, edges[k].v}
        BY <1>1 DEF IdsOf
    <3>2. edges[k] \in Edge /\ k < scan
        BY <1>1, <2>1
    <3>3. edges[k].u <= max_id /\ edges[k].v <= max_id
        BY <1>1, <1>3, <2>0, <3>2 DEF IInv, EdgesInv
    <3> QED
        BY <3>1, <3>2, <3>3 DEF Edge
  <2>3. max_id = -1 \/ max_id \in IdsOf(call)
      BY <1>1 DEF CountInv
  <2> DEFINE Sizes == {0} \cup {id + 1 : id \in IdsOf(call)}
  <2>4. max_id + 1 \in Sizes /\ \A id \in IdsOf(call) : id < max_id + 1
      BY <1>1, <2>2, <2>3
  <2>5. ASSUME NEW n \in Sizes, \A id \in IdsOf(call) : id < n PROVE n = max_id + 1
    <3>1. CASE max_id = -1
      <4>1. IdsOf(call) = {}
          BY <2>2, <3>1
      <4> QED
          BY <3>1, <4>1
    <3>2. CASE max_id \in IdsOf(call)
      <4>1. max_id < n /\ max_id \in Nat
          BY <2>2, <2>5, <3>2
      <4>2. n # 0
          BY <4>1
      <4>3. PICK id \in IdsOf(call) : n = id + 1
          BY <4>2
      <4> QED
          BY <2>2, <4>1, <4>3
    <3> QED
        BY <2>3, <3>1, <3>2
  <2>6. VertexCountOf(call) = CHOOSE n \in Sizes : \A id \in IdsOf(call) : id < n
      BY <1>3 DEF VertexCountOf
  <2> HIDE DEF Sizes
  <2>7. VertexCountOf(call) = max_id + 1
      BY <2>4, <2>5, <2>6
  <2> QED
      BY <1>3, <2>7 DEF VertexCount
<1> QED
    BY <1>2, <1>3

LEMMA CountKeeps == IInv /\ CountInv /\ [Next]_vars => CountInv'
<1> SUFFICES ASSUME IInv, CountInv, [Next]_vars PROVE CountInv'
    OBVIOUS
<1>1. CASE StartBuild
    BY <1>1 DEF StartBuild, CountInv, Running
<1>2. CASE ReduceMax
  <2>1. /\ scan \in 1..Len(edges) /\ edges = call.edges
        /\ phase = "reduce" /\ UNCHANGED <<phase, call>>
      BY <1>2 DEF IInv, TypeOK, EdgesInv, ReduceMax
  <2>2. max_id' \in {max_id, edges[scan].u, edges[scan].v}
      BY <1>2 DEF ReduceMax
  <2>3. edges[scan].u \in IdsOf(call) /\ edges[scan].v \in IdsOf(call)
      BY <2>1 DEF IdsOf
  <2> QED
      BY <2>1, <2>2, <2>3 DEF CountInv, Running
<1>3. CASE BuildEmpty
  <2>1. n_' = VertexCountOf(call) /\ call' = call /\ phase' = "built"
      BY <1>3, VertexCountRight DEF BuildEmpty
  <2> QED
      BY <2>1 DEF CountInv
<1>4. CASE StartDegreeCount
  <2>1. n_' = VertexCountOf(call) /\ call' = call /\ phase' = "degree"
      BY <1>4, VertexCountRight DEF StartDegreeCount
  <2> QED
      BY <2>1 DEF CountInv
<1>5. CASE \/ \E e \in Entries : CountEntry(e) \/ CaptureSlot(e) \/ StoreEntry(e)
           \/ StartOffsets \/ PrefixSum \/ AllocateArenas \/ StartSort
           \/ \E v \in Vertices : SortVertex(v)
           \/ Release
  <2>1. /\ phase \in Running /\ phase' \in Running \cup {"built"}
        /\ UNCHANGED <<n_, call>>
      BY <1>5 DEF CountEntry, CaptureSlot, StoreEntry, StartOffsets, PrefixSum,
                  AllocateArenas, StartSort, SortVertex, Release, Running, members
  <2> QED
      BY <2>1 DEF CountInv, Running
<1>6. CASE UNCHANGED vars
    BY <1>6 DEF vars, members, locals, CountInv
<1> QED
    BY <1>1, <1>2, <1>3, <1>4, <1>5, <1>6 DEF Next, BuildStep

LEMMA LayoutKeeps == IInv /\ IInv' /\ LayoutInv /\ [Next]_vars => LayoutInv'
<1> SUFFICES ASSUME IInv, IInv', LayoutInv, [Next]_vars PROVE LayoutInv'
    OBVIOUS
<1>1. CASE PrefixSum
  <2>1. /\ phase = "offsets" /\ phase' = "offsets"
        /\ scan < n_ /\ scan \in Nat /\ n_ \in Nat /\ scan' = scan + 1
        /\ offsets' = [offsets EXCEPT ![scan] = total]
        /\ total' = total + degree[scan] /\ UNCHANGED <<n_, degree>>
        /\ offsets \in [0..n_ -> Nat]
      BY <1>1 DEF PrefixSum, IInv, TypeOK
  <2>2. /\ \A a \in 0..n_ : offsets'[a] = IF a = scan THEN total ELSE offsets[a]
        /\ Vertices' = Vertices
      BY <2>1 DEF Vertices
  <2>3. ASSUME NEW v \in Vertices, v < scan'
        PROVE  offsets'[v] + degree'[v] = IF v + 1 < scan' THEN offsets'[v + 1] ELSE total'
    <3>1. v \in 0..n_ /\ v + 1 \in 0..n_ /\ v \in Nat /\ v < n_
        BY <2>1 DEF Vertices
    <3>2. CASE v = scan
        BY <2>1, <2>2, <3>1, <3>2
    <3>3. CASE v < scan
      <4>1. offsets[v] + degree[v] = IF v + 1 < scan THEN offsets[v + 1] ELSE total
          BY <2>1, <3>3 DEF LayoutInv
      <4> QED
          BY <2>1, <2>2, <3>1, <3>3, <4>1
    <3> QED
        BY <2>1, <2>3, <3>1, <3>2, <3>3
  <2> QED
      BY <2>1, <2>2, <2>3 DEF LayoutInv
<1>2. CASE AllocateArenas
  <2>1. /\ phase = "offsets" /\ phase' = "scatter" /\ scan = n_ /\ n_ \in Nat
        /\ offsets' = [offsets EXCEPT ![n_] = total] /\ UNCHANGED <<n_, degree>>
        /\ offsets \in [0..n_ -> Nat]
      BY <1>2 DEF AllocateArenas, IInv, TypeOK
  <2>2. /\ \A a \in 0..n_ : offsets'[a] = IF a = n_ THEN total ELSE offsets[a]
        /\ Vertices' = Vertices
      BY <2>1 DEF Vertices
  <2>3. ASSUME NEW v \in Vertices PROVE offsets'[v + 1] = offsets'[v] + degree'[v]
    <3>1. v \in 0..n_ /\ v + 1 \in 0..n_ /\ v \in Nat /\ v < n_
        BY <2>1 DEF Vertices
    <3>2. offsets[v] + degree[v] = IF v + 1 < scan THEN offsets[v + 1] ELSE total
        BY <2>1, <3>1 DEF LayoutInv
    <3> QED
        BY <2>1, <2>2, <3>1, <3>2
  <2> QED
      BY <2>1, <2>2, <2>3 DEF LayoutInv
<1>3. CASE StartOffsets
  <2>1. phase' = "offsets" /\ scan' = 0
      BY <1>3 DEF StartOffsets
  <2>2. \A v \in Vertices' : ~(v < scan')
      BY <2>1 DEF Vertices, IInv, TypeOK
  <2> QED
      BY <2>1, <2>2 DEF LayoutInv
<1>4. CASE Release
  <2>1. /\ phase = "sort" /\ phase' = "built" /\ UNCHANGED <<n_, offsets>>
        /\ n_ \in Nat /\ offsets \in [0..n_ -> Nat] /\ degree \in [Vertices -> Nat]
      BY <1>4 DEF Release, members, IInv, TypeOK
  <2>2. ASSUME NEW v \in Vertices PROVE offsets[v] <= offsets[v + 1]
    <3>1. offsets[v + 1] = offsets[v] + degree[v]
        BY <2>1 DEF LayoutInv
    <3>2. offsets[v] \in Nat /\ degree[v] \in Nat
        BY <2>1 DEF Vertices
    <3> QED
        BY <3>1, <3>2
  <2> QED
      BY <2>1, <2>2 DEF LayoutInv, Vertices
<1>5. CASE BuildEmpty
  <2>1. Vertices' = {} /\ phase' = "built"
      BY <1>5 DEF BuildEmpty, Vertices
  <2> QED
      BY <2>1 DEF LayoutInv
<1>6. CASE \/ \E e \in Entries : CaptureSlot(e) \/ StoreEntry(e)
           \/ StartSort
           \/ \E v \in Vertices : SortVertex(v)
  <2>1. /\ phase \in {"scatter", "sort"} /\ phase' \in {"scatter", "sort"}
        /\ UNCHANGED <<n_, offsets, degree>>
      BY <1>6 DEF CaptureSlot, StoreEntry, StartSort, SortVertex, members, locals
  <2> QED
      BY <2>1 DEF LayoutInv, Vertices
<1>7. CASE \/ StartBuild \/ ReduceMax \/ StartDegreeCount
           \/ \E e \in Entries : CountEntry(e)
  <2>1. phase' \in {"reduce", "degree"}
      BY <1>7 DEF StartBuild, ReduceMax, StartDegreeCount, CountEntry
  <2> QED
      BY <2>1 DEF LayoutInv
<1>8. CASE UNCHANGED vars
    BY <1>8 DEF vars, members, locals, LayoutInv, Vertices
<1> QED
    BY <1>1, <1>2, <1>3, <1>4, <1>5, <1>6, <1>7, <1>8 DEF Next, BuildStep

-----------------------------------------------------------------------------
(* The contents of the arena. *)

(* Slices of different vertices have no cell in common. *)
LEMMA SlicesApart ==
    ASSUME IInv, LayoutInv, phase \in {"scatter", "sort"},
           NEW v \in Vertices, NEW w \in Vertices, v # w
    PROVE  Slice(v) \cap Slice(w) = {}
<1>1. /\ offsets \in [0..n_ -> Nat] /\ degree \in [Vertices -> Nat] /\ n_ \in Nat
      /\ v \in 0..n_ /\ v + 1 \in 0..n_ /\ w \in 0..n_ /\ w + 1 \in 0..n_
      /\ v \in Nat /\ w \in Nat
  <2>1. offsets \in [0..n_ -> Nat] /\ degree \in [Vertices -> Nat] /\ n_ \in Nat
      BY DEF IInv, TypeOK
  <2> QED
      BY <2>1 DEF Vertices
<1>2. offsets[v + 1] = offsets[v] + degree[v] /\ offsets[w + 1] = offsets[w] + degree[w]
    BY DEF LayoutInv
<1>3. offsets[v + 1] <= offsets[w] \/ offsets[w + 1] <= offsets[v]
    BY <1>1, <1>2 DEF IInv, OffsetsInv
<1>4. /\ offsets[v] \in Nat /\ offsets[w] \in Nat
      /\ offsets[v + 1] \in Nat /\ offsets[w + 1] \in Nat
    BY <1>1
<1> QED
    BY <1>3, <1>4 DEF Slice

(* When every entry has been stored, every slice is full. *)
LEMMA FullSlices ==
    ASSUME IInv, LayoutInv, ContentsInv, phase = "scatter", written = Entries,
           NEW v \in Vertices
    PROVE  Arranged(v)
<1>1. /\ Entries = EntriesOf(call) /\ \A e : At(e) = VertexOf(call, e)
    BY SameEntries DEF Running
<1>2. EntriesAt(call, v) = CountedAt(v) /\ EntriesAt(call, v) \subseteq written
    BY <1>1 DEF EntriesAt, CountedAt, IInv, DegreeInv
<1>3. /\ IsFiniteSet(EntriesAt(call, v)) /\ Cardinality(EntriesAt(call, v)) = degree[v]
      /\ degree[v] \in Nat
  <2>1. IsFiniteSet(Entries)
      BY EntryTypes DEF IInv
  <2>2. degree[v] = Cardinality(CountedAt(v)) /\ degree[v] \in Nat
      BY DEF IInv, TypeOK, DegreeInv, Running
  <2> QED
      BY <1>2, <2>1, <2>2, FS_Subset
<1>4. IsFiniteSet(Slice(v)) /\ Cardinality(Slice(v)) = degree[v]
  <2>1. offsets[v] \in Int /\ Slice(v) = offsets[v]..offsets[v] + degree[v] - 1
      BY DEF Slice, LayoutInv, IInv, TypeOK, Vertices
  <2> QED
      BY <1>3, <2>1, IntervalSize, Zenon
<1> DEFINE f == [e \in EntriesAt(call, v) |-> Cell(e)]
<1>5. f \in [EntriesAt(call, v) -> Slice(v)]
  <2> SUFFICES ASSUME NEW e \in EntriesAt(call, v) PROVE Cell(e) \in Slice(v)
      OBVIOUS
  <2>1. e \in Entries /\ slot[e] # NoSlot /\ At(e) = v
      BY <1>1, <1>2 DEF EntriesAt, ContentsInv
  <2> QED
      BY <2>1, SlotsInSliceHere DEF SlotsInSlice
<1>6. ASSUME NEW d \in EntriesAt(call, v), NEW e \in EntriesAt(call, v), f[d] = f[e] PROVE d = e
  <2>1. d \in Entries /\ e \in Entries /\ slot[d] # NoSlot /\ slot[e] # NoSlot
      BY <1>2 DEF ContentsInv
  <2>2. Cell(d) = Cell(e)
      BY <1>6
  <2> QED
      BY <2>1, <2>2, NoSharedHere DEF NoSharedCell
<1>7. \A e \in EntriesAt(call, v) : f[e] = Cell(e)
    OBVIOUS
<1> HIDE DEF f
<1>8. f \in Bijection(EntriesAt(call, v), Slice(v))
    BY <1>3, <1>4, <1>5, <1>6, OneToOneOnto
<1>9. PICK b \in Bijection(Slice(v), EntriesAt(call, v)) : \A p \in Slice(v) : f[b[p]] = p
    BY <1>8, InverseBijection
<1>10. \A p \in Slice(v) : b[p] \in EntriesAt(call, v)
    BY BijectionFacts
<1>11. \A p \in Slice(v) : Holds(p, b[p])
  <2>1. \A p \in Slice(v) : Cell(b[p]) = p /\ b[p] \in written
      BY <1>2, <1>7, <1>9, <1>10
  <2>2. \A e \in written : Holds(Cell(e), e)
      BY DEF ContentsInv
  <2> QED
      BY <2>1, <2>2
<1> QED
    BY <1>11 DEF Arranged

LEMMA StoreEntryHolds ==
    ASSUME IInv, LayoutInv, ContentsInv, NEW e \in Entries, StoreEntry(e)
    PROVE  ContentsInv'
<1>1. /\ phase = "scatter" /\ phase' = "scatter" /\ slot[e] # NoSlot
      /\ targets' = [targets EXCEPT ![Cell(e)] = Other(e)]
      /\ timestamps' = [timestamps EXCEPT ![Cell(e)] = edges[e[1]].t]
      /\ written' = written \cup {e} /\ UNCHANGED <<call, offsets, slot, edges, sorted>>
      /\ written \subseteq Entries
    BY DEF StoreEntry, IInv, TypeOK
<1>2. Cell(e) \in DOMAIN targets /\ Cell(e) \in DOMAIN timestamps
  <2>1. Cell(e) \in Slice(At(e)) /\ At(e) \in Vertices
      BY <1>1, SlotsInSliceHere DEF SlotsInSlice, IInv, EdgesInv, Running
  <2>2. Cell(e) \in 0..offsets[n_] - 1
      BY <1>1, <2>1, SliceInArena
  <2> QED
      BY <1>1, <2>2 DEF IInv, TypeOK
<1>3. ASSUME NEW f \in written' PROVE slot'[f] # NoSlot /\ Holds(Cell(f), f)'
  <2>1. f \in Entries /\ slot[f] # NoSlot
      BY <1>1 DEF ContentsInv
  <2>2. Cell(f)' = Cell(f)
      BY <1>1 DEF Cell, At
  <2>3. CASE f = e
    <3>1. targets'[Cell(f)] = Other(e) /\ timestamps'[Cell(f)] = edges[e[1]].t
        BY <1>1, <1>2, <2>3
    <3>2. StepOf(call, e) = [v |-> Other(e), t |-> edges[e[1]].t]
        BY <1>1, SameEntries DEF Running
    <3> QED
        BY <1>1, <2>1, <2>2, <2>3, <3>1, <3>2 DEF Holds
  <2>4. CASE f # e
    <3>1. Cell(f) # Cell(e)
        BY <1>1, <2>1, <2>4, NoSharedHere DEF NoSharedCell
    <3>2. f \in written
        BY <1>1, <2>4
    <3>3. Holds(Cell(f), f)
        BY <1>1, <3>2 DEF ContentsInv
    <3>4. targets'[Cell(f)] = targets[Cell(f)] /\ timestamps'[Cell(f)] = timestamps[Cell(f)]
        BY <1>1, <1>2, <3>1
    <3> QED
        BY <1>1, <2>1, <2>2, <3>3, <3>4 DEF Holds
  <2> QED
      BY <2>3, <2>4
<1>4. sorted' = {}
    BY <1>1 DEF ContentsInv
<1> QED
    BY <1>1, <1>3, <1>4 DEF ContentsInv

LEMMA SortVertexHolds ==
    ASSUME IInv, LayoutInv, ContentsInv, NEW v \in Vertices, SortVertex(v)
    PROVE  ContentsInv'
<1>1. /\ phase = "sort" /\ phase' = "sort" /\ sorted' = sorted \cup {v}
      /\ UNCHANGED <<call, offsets, n_>> /\ sorted \subseteq Vertices
    BY DEF SortVertex, IInv, TypeOK
<1>2. PICK p \in Sorts(Slice(v)) :
          /\ targets' = [c \in DOMAIN targets |->
                            IF c \in Slice(v) THEN targets[p[c]] ELSE targets[c]]
          /\ timestamps' = [c \in DOMAIN timestamps |->
                            IF c \in Slice(v) THEN timestamps[p[c]] ELSE timestamps[c]]
    BY DEF SortVertex
<1>3. /\ Vertices' = Vertices
      /\ \A w \in Vertices : Slice(w)' = Slice(w) /\ EntriesAt(call, w)' = EntriesAt(call, w)
    BY <1>1 DEF Vertices, Slice, EntriesAt
<1>4. \A w \in Vertices : Slice(w) \subseteq DOMAIN targets /\ Slice(w) \subseteq DOMAIN timestamps
  <2>1. \A w \in Vertices : Slice(w) \subseteq 0..offsets[n_] - 1
      BY <1>1, SliceInArena
  <2> QED
      BY <1>1, <2>1 DEF IInv, TypeOK
<1>5. p \in Bijection(Slice(v), Slice(v))
      /\ \A c, d \in Slice(v) : c < d => timestamps[p[c]] <= timestamps[p[d]]
    BY <1>2 DEF Sorts
<1>6. /\ \A c \in Slice(v) : targets'[c] = targets[p[c]] /\ timestamps'[c] = timestamps[p[c]]
      /\ \A w \in Vertices : w # v => \A c \in Slice(w) :
             targets'[c] = targets[c] /\ timestamps'[c] = timestamps[c]
  <2>1. \A w \in Vertices : w # v => Slice(v) \cap Slice(w) = {}
      BY <1>1, SlicesApart
  <2> QED
      BY <1>2, <1>4, <2>1
<1>7. ASSUME NEW w \in Vertices PROVE Arranged(w)'
  <2>1. PICK b \in Bijection(Slice(w), EntriesAt(call, w)) : \A c \in Slice(w) : Holds(c, b[c])
      BY <1>1 DEF ContentsInv, Arranged
  <2>2. CASE w = v
    <3>1. PICK d \in Bijection(Slice(v), EntriesAt(call, v)) : d = [c \in Slice(v) |-> b[p[c]]]
        BY <1>5, <2>2, ComposedBijection
    <3>2. \A c \in Slice(v) : p[c] \in Slice(v)
        BY <1>5, BijectionFacts
    <3>3. ASSUME NEW c \in Slice(v) PROVE Holds(c, d[c])'
      <4>1. Holds(p[c], b[p[c]]) /\ d[c] = b[p[c]]
          BY <2>1, <2>2, <3>1, <3>2
      <4> QED
          BY <1>1, <1>6, <4>1 DEF Holds
    <3>4. d \in Bijection(Slice(v), EntriesAt(call, v))' /\ \A c \in Slice(v)' : Holds(c, d[c])'
        BY <1>3, <3>1, <3>3
    <3> QED
        BY <2>2, <3>4 DEF Arranged
  <2>3. CASE w # v
    <3>1. \A c \in Slice(w) : Holds(c, b[c])'
        BY <1>1, <1>6, <2>1, <2>3 DEF Holds
    <3>2. b \in Bijection(Slice(w), EntriesAt(call, w))' /\ \A c \in Slice(w)' : Holds(c, b[c])'
        BY <1>3, <3>1
    <3> QED
        BY <3>2 DEF Arranged
  <2> QED
      BY <2>2, <2>3
<1>8. ASSUME NEW w \in sorted' PROVE InTimeOrder(w)'
  <2>1. CASE w = v
      BY <1>3, <1>5, <1>6, <2>1 DEF InTimeOrder
  <2>2. CASE w # v
    <3>1. w \in Vertices /\ InTimeOrder(w)
        BY <1>1, <2>2 DEF ContentsInv
    <3> QED
        BY <1>3, <1>6, <2>2, <3>1 DEF InTimeOrder
  <2> QED
      BY <2>1, <2>2
<1> QED
    BY <1>1, <1>3, <1>7, <1>8 DEF ContentsInv

LEMMA ContentsKeeps == IInv /\ LayoutInv /\ ContentsInv /\ [Next]_vars => ContentsInv'
<1> SUFFICES ASSUME IInv, LayoutInv, ContentsInv, [Next]_vars PROVE ContentsInv'
    OBVIOUS
<1>1. ASSUME NEW e \in Entries, CaptureSlot(e) PROVE ContentsInv'
  <2>1. /\ phase = "scatter" /\ phase' = "scatter" /\ slot[e] = NoSlot
        /\ slot' = [slot EXCEPT ![e] = cursor[At(e)]]
        /\ UNCHANGED <<call, offsets, targets, timestamps, written, sorted, edges>>
        /\ written \subseteq Entries /\ slot \in [Entries -> Nat \cup {NoSlot}]
      BY <1>1 DEF CaptureSlot, members, IInv, TypeOK
  <2>2. ASSUME NEW f \in written PROVE slot'[f] # NoSlot /\ Holds(Cell(f), f)'
    <3>1. f # e /\ slot'[f] = slot[f] /\ slot[f] # NoSlot /\ Holds(Cell(f), f)
        BY <2>1 DEF ContentsInv
    <3>2. Cell(f)' = Cell(f)
        BY <2>1, <3>1 DEF Cell, At
    <3> QED
        BY <2>1, <3>1, <3>2 DEF Holds
  <2>3. sorted' = {}
      BY <2>1 DEF ContentsInv
  <2> QED
      BY <2>1, <2>2, <2>3 DEF ContentsInv
<1>2. CASE StartSort
  <2>1. /\ phase = "scatter" /\ phase' = "sort" /\ written = Entries
        /\ UNCHANGED <<call, n_, offsets, targets, timestamps, sorted>>
      BY <1>2 DEF StartSort, members, locals
  <2>2. \A v \in Vertices : Arranged(v)
      BY <2>1, FullSlices
  <2>3. Vertices' = Vertices /\ \A v \in Vertices : Slice(v)' = Slice(v)
                                   /\ EntriesAt(call, v)' = EntriesAt(call, v)
      BY <2>1 DEF Vertices, Slice, EntriesAt
  <2>4. \A v \in Vertices : Arranged(v)'
      BY <2>1, <2>2, <2>3 DEF Arranged, Holds
  <2>5. sorted' = {}
      BY <2>1 DEF ContentsInv
  <2> QED
      BY <2>1, <2>3, <2>4, <2>5 DEF ContentsInv
<1>3. CASE Release
  <2>1. /\ phase = "sort" /\ phase' = "built" /\ sorted = Vertices
        /\ UNCHANGED <<call, n_, offsets, targets, timestamps>>
      BY <1>3 DEF Release, members
  <2>2. Vertices' = Vertices /\ \A v \in Vertices : Slice(v)' = Slice(v)
                                   /\ EntriesAt(call, v)' = EntriesAt(call, v)
      BY <2>1 DEF Vertices, Slice, EntriesAt
  <2>3. \A v \in Vertices : Arranged(v) /\ InTimeOrder(v)
      BY <2>1 DEF ContentsInv
  <2>4. \A v \in Vertices : Arranged(v)' /\ InTimeOrder(v)'
      BY <2>1, <2>2, <2>3 DEF Arranged, Holds, InTimeOrder
  <2> QED
      BY <2>1, <2>2, <2>4 DEF ContentsInv
<1>4. CASE BuildEmpty
  <2>1. Vertices' = {} /\ phase' = "built"
      BY <1>4 DEF BuildEmpty, Vertices
  <2> QED
      BY <2>1 DEF ContentsInv
<1>5. CASE AllocateArenas
  <2>1. written' = {} /\ sorted' = {} /\ phase' = "scatter"
      BY <1>5 DEF AllocateArenas
  <2> QED
      BY <2>1 DEF ContentsInv
<1>6. CASE \/ StartBuild \/ ReduceMax \/ StartDegreeCount \/ StartOffsets \/ PrefixSum
           \/ \E e \in Entries : CountEntry(e)
  <2>1. phase' \in {"reduce", "degree", "offsets"}
      BY <1>6 DEF StartBuild, ReduceMax, StartDegreeCount, StartOffsets, PrefixSum, CountEntry
  <2> QED
      BY <2>1 DEF ContentsInv
<1>7. CASE UNCHANGED vars
  <2>1. UNCHANGED <<phase, call, edges, n_, offsets, targets, timestamps, slot, written, sorted>>
      BY <1>7 DEF vars, members, locals
  <2>2. /\ Vertices' = Vertices /\ \A e : Cell(e)' = Cell(e)
        /\ \A v : Slice(v)' = Slice(v) /\ EntriesAt(call, v)' = EntriesAt(call, v)
      BY <2>1 DEF Vertices, Slice, EntriesAt, Cell, At
  <2>3. \A p, e : Holds(p, e)' = Holds(p, e)
      BY <2>1 DEF Holds
  <2>4. \A v : Arranged(v)' = Arranged(v) /\ InTimeOrder(v)' = InTimeOrder(v)
      BY <2>1, <2>2, <2>3 DEF Arranged, InTimeOrder
  <2> QED
      BY <2>1, <2>2, <2>3, <2>4 DEF ContentsInv
<1> QED
    BY <1>1, <1>2, <1>3, <1>4, <1>5, <1>6, <1>7, StoreEntryHolds, SortVertexHolds
       DEF Next, BuildStep

(* Whatever the team's schedule, a built graph holds its input's entries. *)
THEOREM ContentsRight == Spec => []CInv
<1>1. Init => CInv
  <2> SUFFICES ASSUME Init PROVE CountInv /\ LayoutInv /\ ContentsInv
      BY InitIInv DEF CInv
  <2>1. phase = "unbuilt"
      BY DEF Init
  <2> QED
      BY <2>1 DEF CountInv, LayoutInv, ContentsInv, Running
<1>2. CInv /\ [Next]_vars => CInv'
    BY NextKeeps, CountKeeps, LayoutKeeps, ContentsKeeps DEF CInv
<1> QED
    BY <1>1, <1>2, PTL DEF Spec

-----------------------------------------------------------------------------
(* The graph that is read. *)

LEMMA BuiltSlice ==
    ASSUME CInv, phase = "built", NEW v \in Vertices
    PROVE  /\ offsets[v] \in Nat /\ degree_of(v) \in Nat
           /\ Slice(v) = offsets[v]..offsets[v] + degree_of(v) - 1
           /\ IsFiniteSet(Slice(v)) /\ Cardinality(Slice(v)) = degree_of(v)
           /\ IsFiniteSet(EntriesAt(call, v)) /\ Cardinality(EntriesAt(call, v)) = degree_of(v)
           /\ \A e \in EntriesAt(call, v) : StepOf(call, e) \in [v : Nat, t : Int]
<1>1. /\ offsets[v] \in Nat /\ offsets[v + 1] \in Nat /\ offsets[v] <= offsets[v + 1]
      /\ call \in Calls
    BY DEF CInv, IInv, TypeOK, LayoutInv, Vertices
<1>2. /\ degree_of(v) \in Nat
      /\ Slice(v) = offsets[v]..offsets[v] + degree_of(v) - 1
    BY <1>1 DEF degree_of, Slice
<1>3. IsFiniteSet(Slice(v)) /\ Cardinality(Slice(v)) = degree_of(v)
  <2>1. offsets[v] \in Int
      BY <1>1
  <2> QED
      BY <1>2, <2>1, IntervalSize, Zenon
<1>4. PICK b \in Bijection(Slice(v), EntriesAt(call, v)) : TRUE
    BY DEF CInv, ContentsInv, Arranged
<1>5. IsFiniteSet(EntriesAt(call, v)) /\ Cardinality(EntriesAt(call, v)) = degree_of(v)
  <2>1. b \in Surjection(Slice(v), EntriesAt(call, v))
      BY DEF Bijection
  <2>2. IsFiniteSet(EntriesAt(call, v))
      BY <1>3, <2>1, FS_Surjection
  <2>3. \A p \in Slice(v) : p \in Slice(v) <=> b[p] \in EntriesAt(call, v)
      BY BijectionFacts
  <2>4. Cardinality(Slice(v)) = Cardinality(EntriesAt(call, v))
      BY <1>3, <2>3, SameSize
  <2> QED
      BY <1>3, <2>2, <2>4
<1>6. \A k \in 1..Len(call.edges) : call.edges[k] \in Edge
    BY <1>1, CallsAssumption DEF Callable
<1>7. \A e \in EntriesAt(call, v) : StepOf(call, e) \in [v : Nat, t : Int]
  <2> SUFFICES ASSUME NEW e \in EntriesAt(call, v) PROVE StepOf(call, e) \in [v : Nat, t : Int]
      OBVIOUS
  <2>1. call.edges[e[1]] \in Edge
      BY <1>6 DEF EntriesAt, EntriesOf
  <2> QED
      BY <2>1 DEF Edge, StepOf
<1> QED
    BY <1>1, <1>2, <1>3, <1>5, <1>7

LEMMA CandidatesHere == CInv => CandidatePrefix
<1> SUFFICES ASSUME CInv, phase = "built", NEW v \in Vertices,
                    NEW s \in Slice(v), NEW d \in 0..1, NEW p \in Slice(v)
             PROVE  timestamps[p] < timestamps[s] + d
                        <=> p < offsets[v] + candidate_set_len(v, timestamps[s] + d)
    BY DEF CandidatePrefix
<1>1. \A q \in Slice(v) : timestamps[q] \in Int
  <2>1. PICK b \in Bijection(Slice(v), EntriesAt(call, v)) : \A q \in Slice(v) : Holds(q, b[q])
      BY DEF CInv, ContentsInv, Arranged
  <2>2. \A q \in Slice(v) : b[q] \in EntriesAt(call, v)
      BY BijectionFacts
  <2>3. \A e \in EntriesAt(call, v) : StepOf(call, e).t \in Int
      BY BuiltSlice
  <2> QED
      BY <2>1, <2>2, <2>3 DEF Holds
<1> DEFINE time == timestamps[s] + d
           B == {q \in Slice(v) : IsBefore(timestamps[q], time)}
<1>2. time \in Int
    BY <1>1
<1> HIDE DEF time
<1>3. /\ offsets[v] \in Nat /\ degree_of(v) \in Nat
      /\ Slice(v) = offsets[v]..offsets[v] + degree_of(v) - 1
    BY BuiltSlice
<1>4. \A q, r \in Slice(v) : q < r /\ r \in B => q \in B
  <2>1. \A q, r \in Slice(v) : q < r => timestamps[q] <= timestamps[r]
      BY DEF CInv, ContentsInv, InTimeOrder
  <2> QED
      BY <1>1, <1>2, <2>1 DEF IsBefore
<1>5. p \in B <=> timestamps[p] < time
    BY DEF IsBefore
<1>6. candidate_set_len(v, time) = lower_bound(B, offsets[v], degree_of(v)) - offsets[v]
    BY DEF candidate_set_len
<1> HIDE DEF B
<1>7. \A q, r \in offsets[v]..offsets[v] + degree_of(v) - 1 : q < r /\ r \in B => q \in B
    BY <1>3, <1>4
<1>8. /\ lower_bound(B, offsets[v], degree_of(v)) \in offsets[v]..offsets[v] + degree_of(v)
      /\ \A q \in offsets[v]..offsets[v] + degree_of(v) - 1 :
             q \in B <=> q < lower_bound(B, offsets[v], degree_of(v))
    BY <1>3, <1>7, LowerBound
<1> DEFINE x == lower_bound(B, offsets[v], degree_of(v))
<1>9. x \in Int /\ (p \in B <=> p < x) /\ p \in Int
    BY <1>3, <1>8
<1>10. candidate_set_len(v, time) = x - offsets[v]
    BY <1>6
<1> HIDE DEF x
<1>11. timestamps[p] < time <=> p < offsets[v] + candidate_set_len(v, time)
    BY <1>3, <1>5, <1>9, <1>10
<1> QED
    BY <1>11 DEF time

(* For every input and schedule: the binary search a walk starts from      *)
(* finds exactly the entries before the walk's time.                       *)
THEOREM SearchFindsCandidates == Spec => []CandidatePrefix
BY ContentsRight, CandidatesHere, PTL

-----------------------------------------------------------------------------
(* The list of a vertex, place by place. *)
LEMMA BuiltList ==
    ASSUME CInv, phase = "built", NEW v \in Vertices
    PROVE  \E g \in Bijection(1..degree_of(v), EntriesAt(call, v)) :
               /\ \A i \in 1..degree_of(v) : AdjacencyOf(v)[i] = StepOf(call, g[i])
               /\ \A i \in 1..degree_of(v) :
                      /\ offsets[v] + i - 1 \in Slice(v)
                      /\ timestamps[offsets[v] + i - 1] = StepOf(call, g[i]).t
<1>1. /\ offsets[v] \in Nat /\ degree_of(v) \in Nat
      /\ Slice(v) = offsets[v]..offsets[v] + degree_of(v) - 1
      /\ \A e \in EntriesAt(call, v) : StepOf(call, e) \in [v : Nat, t : Int]
    BY BuiltSlice
<1>2. PICK b \in Bijection(Slice(v), EntriesAt(call, v)) : \A p \in Slice(v) : Holds(p, b[p])
    BY DEF CInv, ContentsInv, Arranged
<1>3. /\ \A p \in Slice(v) : b[p] \in EntriesAt(call, v)
      /\ \A p, q \in Slice(v) : b[p] = b[q] => p = q
      /\ \A e \in EntriesAt(call, v) : \E p \in Slice(v) : b[p] = e
    BY BijectionFacts
<1> DEFINE g == [i \in 1..degree_of(v) |-> b[offsets[v] + i - 1]]
<1>4. /\ \A i \in 1..degree_of(v) : offsets[v] + i - 1 \in Slice(v)
      /\ \A p \in Slice(v) : p - offsets[v] + 1 \in 1..degree_of(v)
                             /\ p = offsets[v] + (p - offsets[v] + 1) - 1
    BY SMTT(30), <1>1
<1>5. /\ g \in [1..degree_of(v) -> EntriesAt(call, v)]
      /\ \A i \in 1..degree_of(v) : g[i] = b[offsets[v] + i - 1]
    BY <1>3, <1>4
<1> HIDE DEF g
<1>6. ASSUME NEW i \in 1..degree_of(v), NEW j \in 1..degree_of(v), g[i] = g[j] PROVE i = j
  <2>1. offsets[v] + i - 1 = offsets[v] + j - 1
      BY <1>3, <1>4, <1>5, <1>6
  <2> QED
      BY <1>1, <2>1
<1>7. ASSUME NEW e \in EntriesAt(call, v) PROVE \E i \in 1..degree_of(v) : g[i] = e
  <2>1. PICK p \in Slice(v) : b[p] = e
      BY <1>3
  <2>2. g[p - offsets[v] + 1] = b[p]
      BY <1>4, <1>5
  <2> QED
      BY <1>4, <2>1, <2>2
<1>8. g \in Bijection(1..degree_of(v), EntriesAt(call, v))
    BY <1>5, <1>6, <1>7 DEF Bijection, Injection, Surjection, IsInjective
<1>9. ASSUME NEW i \in 1..degree_of(v)
      PROVE  /\ AdjacencyOf(v)[i] = StepOf(call, g[i])
             /\ timestamps[offsets[v] + i - 1] = StepOf(call, g[i]).t
  <2>1. Holds(offsets[v] + i - 1, g[i]) /\ g[i] \in EntriesAt(call, v)
      BY <1>2, <1>3, <1>4, <1>5
  <2>2. AdjacencyOf(v)[i] = [v |-> targets[offsets[v] + i - 1],
                             t |-> timestamps[offsets[v] + i - 1]]
      BY DEF AdjacencyOf
  <2>3. StepOf(call, g[i]) = [v |-> StepOf(call, g[i]).v, t |-> StepOf(call, g[i]).t]
      BY <1>1, <2>1
  <2> QED
      BY <2>1, <2>2, <2>3 DEF Holds
<1> QED
    BY <1>4, <1>8, <1>9

(* What is read at a vertex is what the abstract specification asks of it. *)
LEMMA ListPromised ==
    ASSUME CInv, phase = "built", NEW v \in Vertices
    PROVE  /\ AdjacencyOf(v) \in Seq([v : Nat, t : Int])
           /\ Adjacency!Ascending(AdjacencyOf(v))
           /\ Adjacency!HoldsEntriesAt(call, v, AdjacencyOf(v))
<1> DEFINE d == degree_of(v)
           s == AdjacencyOf(v)
<1>1. PICK g \in Bijection(1..degree_of(v), EntriesAt(call, v)) :
               /\ \A i \in 1..degree_of(v) : AdjacencyOf(v)[i] = StepOf(call, g[i])
               /\ \A i \in 1..degree_of(v) :
                      /\ offsets[v] + i - 1 \in Slice(v)
                      /\ timestamps[offsets[v] + i - 1] = StepOf(call, g[i]).t
    BY BuiltList
<1>2. /\ d \in Nat /\ offsets[v] \in Nat
      /\ IsFiniteSet(EntriesAt(call, v)) /\ Cardinality(EntriesAt(call, v)) = d
      /\ \A e \in EntriesAt(call, v) : StepOf(call, e) \in [v : Nat, t : Int]
    BY BuiltSlice
<1>3. \A i \in 1..d : g[i] \in EntriesAt(call, v)
  <2> DEFINE D == 1..d
  <2>1. g \in Bijection(D, EntriesAt(call, v))
      BY <1>1
  <2> HIDE DEF D
  <2>2. \A i \in D : g[i] \in EntriesAt(call, v)
      BY <2>1, BijectionFacts
  <2> QED
      BY <2>2 DEF D
<1>4. s = [i \in 1..d |-> s[i]]
    BY DEF AdjacencyOf
<1> HIDE DEF d, s
<1>5. \A i \in 1..d : s[i] = StepOf(call, g[i]) /\ s[i] \in [v : Nat, t : Int]
    BY <1>1, <1>2, <1>3 DEF d, s
<1>6. s \in Seq([v : Nat, t : Int]) /\ Len(s) = d /\ DOMAIN s = 1..d
  <2>1. s \in [1..d -> [v : Nat, t : Int]]
      BY <1>4, <1>5
  <2> DEFINE T == [v : Nat, t : Int]
  <2>2. s \in [1..d -> T]
      BY <2>1
  <2> HIDE DEF T
  <2>3. s \in Seq(T) /\ Len(s) = d /\ DOMAIN s = 1..d
      BY <1>2, <2>2, ListIsSeq
  <2> QED
      BY <2>3 DEF T
<1>7. Adjacency!Ascending(s)
  <2>1. \A i \in 1..d : s[i].t = timestamps[offsets[v] + i - 1]
      BY <1>1, <1>5 DEF d
  <2>2. \A p, q \in Slice(v) : p < q => timestamps[p] <= timestamps[q]
      BY DEF CInv, ContentsInv, InTimeOrder
  <2>3. ASSUME NEW i \in 1..d, NEW j \in 1..d, i < j PROVE s[i].t <= s[j].t
    <3>1. offsets[v] + i - 1 < offsets[v] + j - 1
        BY <1>2, <2>3
    <3>2. offsets[v] + i - 1 \in Slice(v) /\ offsets[v] + j - 1 \in Slice(v)
        BY <1>1 DEF d
    <3> QED
        BY <2>1, <2>2, <3>1, <3>2
  <2> QED
      BY <1>6, <2>3 DEF Adjacency!Ascending
<1>8. ASSUME NEW e \in EntriesAt(call, v)
      PROVE  Cardinality({i \in 1..Len(s) : s[i] = StepOf(call, e)})
                 = Cardinality({f \in EntriesAt(call, v) : StepOf(call, f) = StepOf(call, e)})
  <2> DEFINE D == 1..d
             A == {i \in D : s[i] = StepOf(call, e)}
             C == {f \in EntriesAt(call, v) : StepOf(call, f) = StepOf(call, e)}
  <2>1. A \in SUBSET D /\ C \in SUBSET EntriesAt(call, v)
      OBVIOUS
  <2>2. \A i \in D : i \in A <=> g[i] \in C
      BY <1>3, <1>5
  <2>3. IsFiniteSet(D) /\ g \in Bijection(D, EntriesAt(call, v))
      BY <1>1, <1>2, FS_Interval DEF d
  <2> HIDE DEF A, C, D
  <2>4. Cardinality(A) = Cardinality(C)
      BY <2>1, <2>2, <2>3, SameSize
  <2> QED
      BY <1>6, <2>4 DEF A, C, D
<1>9. Adjacency!HoldsEntriesAt(call, v, s)
  <2>1. /\ {e \in Adjacency!EntriesOf(call) : Adjacency!VertexOf(call, e) = v} = EntriesAt(call, v)
        /\ \A e : Adjacency!StepOf(call, e) = StepOf(call, e)
      BY DEF EntriesAt, EntriesOf, SidesOf, VertexOf, StepOf, Adjacency!EntriesOf,
             Adjacency!SidesOf, Adjacency!VertexOf, Adjacency!StepOf
  <2>2. \A S : Adjacency!Cardinality(S) = Cardinality(S)
      BY DEF Cardinality, Adjacency!Cardinality
  <2>3. Len(s) = Adjacency!Cardinality(EntriesAt(call, v))
      BY <1>2, <1>6, <2>2
  <2>4. ASSUME NEW e \in EntriesAt(call, v)
        PROVE  Adjacency!Cardinality({i \in 1..Len(s) : s[i] = Adjacency!StepOf(call, e)})
                   = Adjacency!Cardinality({f \in EntriesAt(call, v) :
                         Adjacency!StepOf(call, f) = Adjacency!StepOf(call, e)})
    <3>1. /\ {i \in 1..Len(s) : s[i] = Adjacency!StepOf(call, e)}
                 = {i \in 1..Len(s) : s[i] = StepOf(call, e)}
          /\ {f \in EntriesAt(call, v) : Adjacency!StepOf(call, f) = Adjacency!StepOf(call, e)}
                 = {f \in EntriesAt(call, v) : StepOf(call, f) = StepOf(call, e)}
        BY <2>1
    <3> QED
        BY <1>8, <2>2, <3>1
  <2> QED
      BY <2>1, <2>3, <2>4 DEF Adjacency!HoldsEntriesAt
<1> QED
    BY <1>6, <1>7, <1>9 DEF s

AbstractBuilding == IF phase \in {"unbuilt", "built"} THEN {} ELSE {call}
AbstractAdj == IF phase = "built" THEN [v \in Vertices |-> AdjacencyOf(v)] ELSE <<>>

LEMMA AdjacencyPromised ==
    CInv /\ phase = "built" => AbstractAdj \in Adjacency!Adjacencies(call)
<1> SUFFICES ASSUME CInv, phase = "built" PROVE AbstractAdj \in Adjacency!Adjacencies(call)
    OBVIOUS
<1>1. Vertices = 0..Adjacency!VertexCountOf(call) - 1
    BY DEF CInv, CountInv, Vertices, VertexCountOf, IdsOf,
           Adjacency!VertexCountOf, Adjacency!IdsOf
<1>2. \A v \in Vertices : /\ AdjacencyOf(v) \in Seq([v : Nat, t : Int])
                          /\ Adjacency!Ascending(AdjacencyOf(v))
                          /\ Adjacency!HoldsEntriesAt(call, v, AdjacencyOf(v))
    BY ListPromised
<1>3. /\ AbstractAdj \in [Vertices -> Seq([v : Nat, t : Int])] /\ DOMAIN AbstractAdj = Vertices
      /\ \A v \in Vertices : AbstractAdj[v] = AdjacencyOf(v)
    BY <1>2 DEF AbstractAdj
<1> QED
    BY <1>1, <1>2, <1>3 DEF Adjacency!Adjacencies

LEMMA AdjacencyStep ==
    CInv /\ CInv' /\ [Next]_vars
        => [Adjacency!Next]_<<AbstractBuilding, AbstractAdj>>
<1> SUFFICES ASSUME CInv, CInv', [Next]_vars
             PROVE  [Adjacency!Next]_<<AbstractBuilding, AbstractAdj>>
    OBVIOUS
<1> DEFINE b == AbstractBuilding
           a == AbstractAdj
<1>1. CASE StartBuild
  <2>1. b = {} /\ b' = {call'} /\ a' = <<>> /\ call' \in Calls
      BY <1>1 DEF StartBuild, AbstractBuilding, AbstractAdj
  <2>2. Adjacency!Begin
      BY <2>1 DEF Adjacency!Begin, Adjacency!NoGraph, AbstractBuilding, AbstractAdj
  <2> QED
      BY <2>2 DEF Adjacency!Next
<1>2. CASE BuildEmpty \/ Release
  <2>1. /\ phase \in {"reduce", "sort"} /\ phase' = "built" /\ call' = call
      BY <1>2 DEF BuildEmpty, Release, SizeKnown
  <2>2. (AbstractAdj \in Adjacency!Adjacencies(call))'
    <3>1. CInv' /\ (phase = "built")'
        BY <2>1
    <3> QED
        BY <3>1, AdjacencyPromised, PTL
  <2>3. AbstractAdj' \in Adjacency!Adjacencies(call)
      BY <2>1, <2>2 DEF Adjacency!Adjacencies
  <2>4. b = {call} /\ b' = {}
      BY <2>1 DEF AbstractBuilding
  <2>5. Adjacency!Finish
      BY <2>3, <2>4 DEF Adjacency!Finish, AbstractBuilding, AbstractAdj
  <2> QED
      BY <2>5 DEF Adjacency!Next
<1>3. CASE \/ ReduceMax \/ StartDegreeCount
           \/ \E e \in Entries : CountEntry(e)
           \/ StartOffsets \/ PrefixSum \/ AllocateArenas
           \/ \E e \in Entries : CaptureSlot(e) \/ StoreEntry(e)
           \/ StartSort
           \/ \E v \in Vertices : SortVertex(v)
  <2>1. /\ phase \in Running \cup {"reduce"} /\ phase' \in Running \cup {"reduce"}
        /\ call' = call
      BY <1>3 DEF ReduceMax, StartDegreeCount, CountEntry, StartOffsets, PrefixSum,
                  AllocateArenas, CaptureSlot, StoreEntry, StartSort, SortVertex,
                  SizeKnown, Running
  <2> QED
      BY <2>1 DEF AbstractBuilding, AbstractAdj, Running
<1>4. CASE UNCHANGED vars
  <2>1. UNCHANGED <<phase, call, n_, offsets, targets, timestamps>>
      BY <1>4 DEF vars, members
  <2> QED
      BY <2>1 DEF AbstractBuilding, AbstractAdj, Vertices, AdjacencyOf, degree_of
<1> QED
    BY <1>1, <1>2, <1>3, <1>4 DEF Next, BuildStep

(* For every input, team and schedule: a build delivers, in one step as    *)
(* its caller sees it, an adjacency TemporalAdjacency allows.              *)
THEOREM Refinement == Spec => ImplementsAdjacency
<1>1. Init => AbstractBuilding = {} /\ AbstractAdj = <<>>
    BY DEF Init, AbstractBuilding, AbstractAdj
<1>2. CInv /\ CInv' /\ [Next]_vars
          => [Adjacency!Next]_<<AbstractBuilding, AbstractAdj>>
    BY AdjacencyStep
<1> QED
    BY <1>1, <1>2, ContentsRight, PTL
       DEF Spec, ImplementsAdjacency, Adjacency!Spec, Adjacency!Init, Adjacency!NoGraph,
           AbstractBuilding, AbstractAdj

-----------------------------------------------------------------------------
LEMMA ListOfPlaces ==
    ASSUME NEW v
    PROVE  ListOf(call, v) =
               [i \in 1..Cardinality(EntriesAt(call, v)) |->
                   StepOf(call, CHOOSE e \in EntriesAt(call, v) :
                       Cardinality({f \in EntriesAt(call, v) : Before(call, f, e)}) = i - 1)]
BY DEF ListOf, Before, EntriesAt

(* In a slice without ties an entry's rank is its place. *)
LEMMA UniqueHere == CInv => UniqueTimesDeterministic
<1> SUFFICES ASSUME CInv, phase = "built", NEW v \in Vertices,
                    \A p, q \in Slice(v) : timestamps[p] = timestamps[q] => p = q
             PROVE  AdjacencyOf(v) = ListOf(call, v)
    BY DEF UniqueTimesDeterministic
<1> DEFINE d == degree_of(v)
           mine == EntriesAt(call, v)
           time(e) == StepOf(call, e).t
           rank(e) == Cardinality({f \in mine : Before(call, f, e)})
           places == 1..d
<1>1. PICK g \in Bijection(places, mine) :
               /\ \A i \in places : AdjacencyOf(v)[i] = StepOf(call, g[i])
               /\ \A i \in places :
                      /\ offsets[v] + i - 1 \in Slice(v)
                      /\ timestamps[offsets[v] + i - 1] = time(g[i])
    BY BuiltList
<1>2. /\ d \in Nat /\ offsets[v] \in Nat
      /\ IsFiniteSet(mine) /\ Cardinality(mine) = d
      /\ \A e \in mine : time(e) \in Int
    BY BuiltSlice
<1>3. IsFiniteSet(places)
    BY <1>2, FS_Interval
<1>4. AdjacencyOf(v) = [i \in 1..d |-> AdjacencyOf(v)[i]]
    BY DEF AdjacencyOf
<1>5. \A e, f \in mine : Before(call, f, e)
          <=> \/ time(f) < time(e)
              \/ time(f) = time(e) /\ f[1] < e[1]
              \/ time(f) = time(e) /\ f[1] = e[1] /\ f[2] = "v" /\ e[2] = "u"
    BY DEF Before, StepOf
<1>6. \A e \in mine : e[1] \in Int
    BY <1>1 DEF EntriesAt, EntriesOf
<1> HIDE DEF d, mine, places, time
<1>7. /\ \A i \in places : g[i] \in mine
      /\ \A i, j \in places : g[i] = g[j] => i = j
      /\ \A e \in mine : \E i \in places : g[i] = e
    BY BijectionFacts
<1>8. \A i, j \in places : i < j => time(g[i]) < time(g[j])
  <2> SUFFICES ASSUME NEW i \in places, NEW j \in places, i < j
               PROVE  time(g[i]) < time(g[j])
      OBVIOUS
  <2> DEFINE p == offsets[v] + i - 1
             q == offsets[v] + j - 1
  <2>1. /\ p \in Slice(v) /\ q \in Slice(v) /\ p < q
        /\ timestamps[p] = time(g[i]) /\ timestamps[q] = time(g[j])
      BY <1>1, <1>2 DEF places
  <2> HIDE DEF p, q
  <2>2. timestamps[p] <= timestamps[q] /\ timestamps[p] # timestamps[q]
      BY <2>1, <1>2 DEF CInv, ContentsInv, InTimeOrder, Slice
  <2> QED
      BY <1>2, <1>7, <2>1, <2>2
<1>9. \A i, j \in places : Before(call, g[i], g[j]) <=> i < j
  <2> SUFFICES ASSUME NEW i \in places, NEW j \in places
               PROVE  Before(call, g[i], g[j]) <=> i < j
      OBVIOUS
  <2>1. i \in Int /\ j \in Int /\ time(g[i]) \in Int /\ time(g[j]) \in Int
      BY <1>2, <1>7 DEF places
  <2>2. g[i] = g[j] => ~Before(call, g[i], g[j])
      BY <1>5, <1>7, <1>6, <2>1
  <2> QED
      BY <1>5, <1>7, <1>8, <2>1, <2>2
<1>10. \A j \in places : rank(g[j]) = j - 1
  <2> SUFFICES ASSUME NEW j \in places PROVE rank(g[j]) = j - 1
      OBVIOUS
  <2> DEFINE A == {i \in places : i < j}
             C == {f \in mine : Before(call, f, g[j])}
  <2>1. A \in SUBSET places /\ C \in SUBSET mine /\ \A i \in places : i \in A <=> g[i] \in C
      BY <1>7, <1>9
  <2>2. A = 1..j - 1 /\ j \in Nat \ {0}
      BY <1>2 DEF places
  <2>3. Cardinality(1..j - 1) = j - 1
      BY <2>2, FS_Interval
  <2>4. rank(g[j]) = Cardinality(C)
      OBVIOUS
  <2> HIDE DEF A, C
  <2>5. Cardinality(A) = Cardinality(C)
      BY <1>3, <2>1, SameSize
  <2> QED
      BY <2>2, <2>3, <2>4, <2>5
<1>11. \A i \in places : (CHOOSE e \in mine : rank(e) = i - 1) = g[i]
  <2> SUFFICES ASSUME NEW i \in places
               PROVE  (CHOOSE e \in mine : rank(e) = i - 1) = g[i]
      OBVIOUS
  <2> HIDE DEF rank
  <2>1. g[i] \in mine /\ rank(g[i]) = i - 1
      BY <1>7, <1>10
  <2>2. ASSUME NEW e \in mine, rank(e) = i - 1 PROVE e = g[i]
    <3>1. PICK j \in places : g[j] = e
        BY <1>7
    <3>2. j - 1 = i - 1 /\ i \in Int /\ j \in Int
        BY <1>10, <2>2, <3>1 DEF places
    <3> QED
        BY <3>1, <3>2
  <2> QED
      BY <2>1, <2>2
<1>12. ListOf(call, v) = [i \in 1..d |-> StepOf(call, CHOOSE e \in mine : rank(e) = i - 1)]
    BY <1>2, ListOfPlaces DEF mine
<1> QED
    BY <1>1, <1>4, <1>11, <1>12 DEF places

(* Where the times of a vertex's entries are distinct, every team and      *)
(* every schedule build the list that one thread builds.                   *)
THEOREM ScheduleDoesNotShow == Spec => []UniqueTimesDeterministic
BY ContentsRight, UniqueHere, PTL
=============================================================================
