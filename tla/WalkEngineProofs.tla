--------------------------- MODULE WalkEngineProofs ---------------------------
(***************************************************************************)
(* For every graph, start list, seed, team and chunk size: the walks the   *)
(* engine delivers pass verify_walk, depend on nothing but their start and *)
(* their own random stream, and are never written by another thread.  The  *)
(* engine implements TemporalWalk: a hop is one Extend of one walk, a walk *)
(* that is stored is one Finish, and no other step of any thread shows;    *)
(* and the statistics a call returns agree with the buffers it has filled. *)
(***************************************************************************)
EXTENDS WalkEngine, DataLemmas

Active(th) == pc[th] \in {"begin", "step"}

(* Walks are handed out once, in order, and not finished before that. *)
ScheduleInv ==
    /\ running \/ num_walks > 0 => starts \in StartLists
    /\ ~running => \A th \in Threads : pc[th] = "done"
    /\ \A th \in Threads : Active(th) =>
           /\ i[th] < last[th] /\ last[th] <= next
           /\ \A w \in Walks : i[th] <= w /\ w < last[th] => ~Done(w)
    /\ \A a, b \in Threads : Active(a) /\ Active(b) /\ a # b =>
           last[a] <= i[b] \/ last[b] <= i[a]
    /\ \A w \in Walks : w >= next => ~Done(w)

(* The first n slots of walk w are live and follow stream w. *)
Follows(w, n) ==
    /\ Cell(w, 0) = [v |-> starts[w + 1], t |-> kSentinelStartTimestamp]
    /\ \A k \in 1..n - 1 :
           /\ Cell(w, k).v \in Vertices
           /\ Cell(w, k) = Sample(Cell(w, k - 1).v, Cell(w, k - 1).t, seed[w][k])

(* A thread's locals mirror the walk it has in hand. *)
InHandInv ==
    \A th \in Threads : pc[th] = "step" =>
        /\ walk_len[th] >= 1
        /\ rng[th] = <<i[th], walk_len[th]>>
        /\ u[th] \in Vertices
        /\ Cell(i[th], walk_len[th] - 1) = [v |-> u[th], t |-> t_prev[th]]
        /\ prev_u[th] = IF walk_len[th] = 1 THEN -1
                        ELSE Cell(i[th], walk_len[th] - 2).v
        /\ Follows(i[th], walk_len[th])

(* A finished walk ended at max_walk_len or where its stream found no edge. *)
DoneInv ==
    \A w \in Walks : Done(w) =>
        /\ walk_lens_out[w] \in 1..max_walk_len
        /\ Follows(w, walk_lens_out[w])
        /\ \A k \in walk_lens_out[w]..max_walk_len - 1 : Cell(w, k) = DeadStep
        /\ walk_lens_out[w] < max_walk_len =>
               Sample(Cell(w, walk_lens_out[w] - 1).v, Cell(w, walk_lens_out[w] - 1).t,
                      seed[w][walk_lens_out[w]]) = DeadStep

IInv == TypeOK /\ ScheduleInv /\ InHandInv /\ DoneInv

-----------------------------------------------------------------------------
(* Multiplication by the stride is monotone. *)
LEMMA Stride ==
    ASSUME NEW a \in Nat, NEW b \in Nat, NEW m \in Nat, a < b
    PROVE  a * m + m <= b * m
<1> DEFINE d == b - a - 1
<1>1. d \in Nat
    OBVIOUS
<1>2. b = a + 1 + d
    OBVIOUS
<1>3. b * m = a * m + m + d * m
    BY <1>1, <1>2
<1>4. d * m \in Nat /\ a * m \in Nat
    BY <1>1
<1> QED
    BY <1>3, <1>4

(* Different walks, or different slots, are different cells of the buffer. *)
LEMMA SlotsApart ==
    ASSUME NEW w \in Nat, NEW x \in Nat,
           NEW s \in 0..max_walk_len - 1, NEW r \in 0..max_walk_len - 1
    PROVE  /\ w < x => Slot(w, s) < Slot(x, r)
           /\ Slot(w, s) = Slot(x, r) => w = x /\ s = r
<1>1. max_walk_len \in Nat
    BY EngineAssumption
<1>2. w * max_walk_len \in Nat /\ x * max_walk_len \in Nat
    BY <1>1
<1>3. w < x => w * max_walk_len + max_walk_len <= x * max_walk_len
    BY <1>1, Stride
<1>4. x < w => x * max_walk_len + max_walk_len <= w * max_walk_len
    BY <1>1, Stride
<1> QED
    BY <1>1, <1>2, <1>3, <1>4 DEF Slot

LEMMA SlotInCells ==
    ASSUME NEW n \in Nat, NEW w \in 0..n - 1, NEW s \in 0..max_walk_len - 1
    PROVE  Slot(w, s) \in 0..n * max_walk_len - 1
<1>1. max_walk_len \in Nat /\ w \in Nat /\ w < n
    BY EngineAssumption
<1>2. w * max_walk_len \in Nat /\ n * max_walk_len \in Nat
    BY <1>1
<1>3. w * max_walk_len + max_walk_len <= n * max_walk_len
    BY <1>1, Stride
<1> QED
    BY <1>1, <1>2, <1>3 DEF Slot

(* A sample is the dead step, or an entry of the vertex older than t. *)
LEMMA SampleResult ==
    ASSUME NEW x \in Vertices, NEW t \in Int, NEW p \in Picks
    PROVE  \/ Sample(x, t, p) = DeadStep /\ Gamma(x, t) \cap Weighted(x) = {}
           \/ \E k \in 1..Len(Adj[x]) :
                  /\ Sample(x, t, p) = Adj[x][k] /\ Adj[x][k].t < t
                  /\ Adj[x][k] \in NodeStep /\ Adj[x][k].v # kWalkDeadSentinel
<1> DEFINE live == Gamma(x, t) \cap Weighted(x)
<1>1. CASE live = {}
    BY <1>1 DEF Sample
<1>2. CASE live # {}
  <2>1. live \in (SUBSET (1..Len(Adj[x]))) \ {{}}
      BY <1>2 DEF Gamma
  <2>2. Pick(live, p) \in live
      BY <2>1, EngineAssumption
  <2>3. Pick(live, p) \in 1..Len(Adj[x]) /\ Adj[x][Pick(live, p)].t < t
      BY <2>2 DEF Gamma
  <2>4. Adj[x] \in Seq(NodeStep)
      BY EngineAssumption
  <2>5. Adj[x][Pick(live, p)] \in NodeStep
      BY <2>3, <2>4
  <2>6. Adj[x][Pick(live, p)].v # kWalkDeadSentinel
      BY <2>5, EngineAssumption DEF NodeStep, kWalkDeadSentinel
  <2>7. Sample(x, t, p) = Adj[x][Pick(live, p)]
      BY <1>2 DEF Sample
  <2> QED
      BY <2>3, <2>5, <2>6, <2>7
<1> QED
    BY <1>1, <1>2

LEMMA InitIInv == Init => IInv
<1> SUFFICES ASSUME Init PROVE IInv
    OBVIOUS
<1>1. num_walks = 0 /\ Walks = {} /\ Cells = {}
    BY EngineAssumption DEF Init, num_walks, Walks, Cells
<1>2. TypeOK
  <2>1. starts \in Seq(Vertices) /\ next \in 0..num_walks /\ seed \in Seeds
      BY <1>1 DEF Init
  <2>2. /\ walks_out \in [Cells -> [v : Vertices \cup {kWalkDeadSentinel}, t : Int]]
        /\ walk_lens_out \in [Walks -> Nat]
      BY <1>1 DEF Init
  <2>3. /\ rng \in [Threads -> Nat \X Nat]
        /\ pc \in [Threads -> {"grab", "begin", "step", "reduce", "done"}]
      BY DEF Init, NoStream
  <2>4. /\ i \in [Threads -> Nat] /\ last \in [Threads -> Nat]
        /\ u \in [Threads -> Vertices \cup {-1}]
        /\ t_prev \in [Threads -> Int]
        /\ prev_u \in [Threads -> Vertices \cup {-1}]
        /\ walk_len \in [Threads -> 0..max_walk_len]
        /\ steps_local \in [Threads -> Nat]
      BY EngineAssumption DEF Init, Zero, NoVertex
  <2>5. running \in BOOLEAN /\ total_steps \in Nat
      BY DEF Init
  <2> QED
      BY <2>1, <2>2, <2>3, <2>4, <2>5 DEF TypeOK
<1>3. ScheduleInv /\ InHandInv /\ DoneInv
    BY <1>1 DEF Init, ScheduleInv, InHandInv, DoneInv, Active
<1> QED
    BY <1>2, <1>3 DEF IInv

-----------------------------------------------------------------------------
LEMMA CallKeeps == IInv /\ Call => IInv'
<1> SUFFICES ASSUME IInv, Call PROVE IInv'
    OBVIOUS
<1> USE DEF Call
<1>1. starts' \in Seq(Vertices) /\ num_walks' \in Nat /\ seed' \in Seeds
    BY EngineAssumption DEF num_walks
<1>2. walks_out' \in [Cells' -> [v : Vertices \cup {kWalkDeadSentinel}, t : Int]]
  <2>1. CASE starts' = <<>>
    <3>1. Cells' = {}
        BY <2>1, EngineAssumption DEF Cells, num_walks
    <3> QED
        BY <3>1 DEF Cells, num_walks
  <2>2. CASE starts' # <<>>
    <3>1. starts'[1] \in Vertices
        BY <1>1, <2>2
    <3> QED
        BY <3>1 DEF Cells, num_walks
  <2> QED
      BY <2>1, <2>2
<1>3. walk_lens_out' \in [Walks' -> Nat] /\ \A w \in Walks' : walk_lens_out'[w] = 0
    BY DEF Walks, num_walks
<1>4. TypeOK'
    BY <1>1, <1>2, <1>3 DEF IInv, TypeOK
<1>5. ScheduleInv' /\ InHandInv' /\ DoneInv'
    BY <1>3 DEF ScheduleInv, InHandInv, DoneInv, Active, Done
<1> QED
    BY <1>4, <1>5 DEF IInv
LEMMA GrabChunkKeeps ==
    ASSUME IInv, NEW th \in Threads, GrabChunk(th) PROVE IInv'
<1> USE DEF GrabChunk
<1>1. /\ next \in Nat /\ num_walks \in Nat /\ next < num_walks
      /\ ChunkEnd \in Nat /\ next < ChunkEnd /\ ChunkEnd <= num_walks
    BY SMTT(30), EngineAssumption DEF IInv, TypeOK, ChunkEnd, num_walks
<1>2. num_walks' = num_walks /\ Walks' = Walks /\ Cells' = Cells
    BY DEF num_walks, Walks, Cells
<1>3. /\ i' \in [Threads -> Nat] /\ i'[th] = next
      /\ last' \in [Threads -> Nat] /\ last'[th] = ChunkEnd
      /\ \A a \in Threads \ {th} : i'[a] = i[a] /\ last'[a] = last[a] /\ pc'[a] = pc[a]
      /\ pc' \in [Threads -> {"grab", "begin", "step", "reduce", "done"}]
      /\ pc'[th] = "begin"
    BY <1>1 DEF IInv, TypeOK
<1>4. TypeOK'
  <2>1. next' \in 0..num_walks'
      BY <1>1, <1>2
  <2> QED
      BY <2>1, <1>2, <1>3 DEF IInv, TypeOK
<1>5. ScheduleInv'
  <2>1. /\ running' => starts' \in StartLists
        /\ ~running' => \A a \in Threads : pc'[a] = "done"
      BY DEF IInv, ScheduleInv
  <2>2. \A w \in Walks : w >= next => ~Done(w)
      BY DEF IInv, ScheduleInv
  <2>3. ASSUME NEW a \in Threads, Active(a)'
        PROVE  /\ i'[a] < last'[a] /\ last'[a] <= next'
               /\ \A w \in Walks : i'[a] <= w /\ w < last'[a] => ~Done(w)'
    <3>1. CASE a = th
        BY <3>1, <1>1, <1>3, <2>2 DEF Done
    <3>2. CASE a # th
      <4>1. /\ i[a] < last[a] /\ last[a] <= next
            /\ \A w \in Walks : i[a] <= w /\ w < last[a] => ~Done(w)
          BY <2>3, <3>2, <1>3 DEF IInv, ScheduleInv, Active
      <4>2. last[a] \in Nat
          BY DEF IInv, TypeOK
      <4> QED
          BY <4>1, <4>2, <3>2, <1>1, <1>3 DEF Done
    <3> QED
        BY <3>1, <3>2
  <2>4. ASSUME NEW a \in Threads, NEW b \in Threads, Active(a)', Active(b)', a # b
        PROVE  last'[a] <= i'[b] \/ last'[b] <= i'[a]
    <3>1. ASSUME NEW c \in Threads, c # th, Active(c)' PROVE last'[c] <= i'[th]
        BY <3>1, <1>3 DEF IInv, ScheduleInv, Active
    <3>2. CASE a # th /\ b # th
        BY <3>2, <2>4, <1>3 DEF IInv, ScheduleInv, Active
    <3> QED
        BY <3>1, <3>2, <2>4
  <2>5. \A w \in Walks' : w >= next' => ~Done(w)'
      BY <1>1, <1>2, <2>2 DEF Done, Walks
  <2> QED
      BY <2>1, <2>3, <2>4, <2>5, <1>2 DEF ScheduleInv
<1>6. InHandInv' /\ DoneInv'
    BY <1>2, <1>3 DEF IInv, InHandInv, DoneInv, Follows, Cell, Done
<1> QED
    BY <1>4, <1>5, <1>6 DEF IInv

LEMMA NoMoreChunksKeeps ==
    ASSUME IInv, NEW th \in Threads, NoMoreChunks(th) PROVE IInv'
<1> USE DEF NoMoreChunks
<1>1. num_walks' = num_walks /\ Walks' = Walks /\ Cells' = Cells
    BY DEF num_walks, Walks, Cells
<1>2. /\ \A a \in Threads : Active(a)' => Active(a)
      /\ \A a \in Threads : pc'[a] = "step" => pc[a] = "step"
      /\ pc' \in [Threads -> {"grab", "begin", "step", "reduce", "done"}]
    BY DEF IInv, TypeOK, Active
<1>3. TypeOK'
    BY <1>1, <1>2 DEF IInv, TypeOK
<1>4. ~running' => \A a \in Threads : pc'[a] = "done"
    BY DEF IInv, ScheduleInv
<1>5. ScheduleInv' /\ InHandInv' /\ DoneInv'
    BY <1>1, <1>2, <1>4
       DEF IInv, ScheduleInv, InHandInv, DoneInv, Follows, Cell, Done
<1> QED
    BY <1>3, <1>5 DEF IInv

LEMMA ReduceKeeps ==
    ASSUME IInv, NEW th \in Threads, Reduce(th) PROVE IInv'
<1> USE DEF Reduce
<1>1. num_walks' = num_walks /\ Walks' = Walks /\ Cells' = Cells
    BY DEF num_walks, Walks, Cells
<1>2. /\ \A a \in Threads : Active(a)' => Active(a)
      /\ \A a \in Threads : pc'[a] = "step" => pc[a] = "step"
      /\ pc' \in [Threads -> {"grab", "begin", "step", "reduce", "done"}]
      /\ total_steps' \in Nat
    BY DEF IInv, TypeOK, Active
<1>3. TypeOK'
    BY <1>1, <1>2 DEF IInv, TypeOK
<1>4. ~running' => \A a \in Threads : pc'[a] = "done"
    BY DEF IInv, ScheduleInv
<1>5. ScheduleInv' /\ InHandInv' /\ DoneInv'
    BY <1>1, <1>2, <1>4
       DEF IInv, ScheduleInv, InHandInv, DoneInv, Follows, Cell, Done
<1> QED
    BY <1>3, <1>5 DEF IInv

LEMMA ReturnKeeps == IInv /\ Return => IInv'
<1> SUFFICES ASSUME IInv, Return PROVE IInv'
    OBVIOUS
<1> USE DEF Return
<1>1. num_walks' = num_walks /\ Walks' = Walks /\ Cells' = Cells
    BY DEF num_walks, Walks, Cells
<1>2. TypeOK'
  <2>1. /\ rng' \in [Threads -> Nat \X Nat]
        /\ i' \in [Threads -> Nat] /\ last' \in [Threads -> Nat]
        /\ u' \in [Threads -> Vertices \cup {-1}]
        /\ t_prev' \in [Threads -> Int]
        /\ prev_u' \in [Threads -> Vertices \cup {-1}]
        /\ walk_len' \in [Threads -> 0..max_walk_len]
        /\ steps_local' \in [Threads -> Nat]
      BY EngineAssumption DEF Zero, NoVertex, NoStream
  <2> QED
      BY <1>1, <2>1 DEF IInv, TypeOK
<1>3. ScheduleInv' /\ InHandInv' /\ DoneInv'
    BY <1>1
       DEF IInv, ScheduleInv, InHandInv, DoneInv, Follows, Cell, Done, Active
<1> QED
    BY <1>2, <1>3 DEF IInv
-----------------------------------------------------------------------------
(* A thread with a walk in hand is its only owner. *)
LEMMA WalkInHand ==
    ASSUME IInv, NEW th \in Threads, Active(th)
    PROVE  /\ i[th] \in Walks /\ i[th] \in Nat /\ ~Done(i[th])
           /\ starts \in StartLists /\ starts[i[th] + 1] \in Vertices
           /\ i[th] < next
           /\ \A b \in Threads \ {th} : Active(b) => i[b] # i[th]
<1>1. /\ i[th] < last[th] /\ last[th] <= next
      /\ \A w \in Walks : i[th] <= w /\ w < last[th] => ~Done(w)
    BY DEF IInv, ScheduleInv
<1>2. /\ i[th] \in Nat /\ last[th] \in Nat /\ next \in 0..num_walks
      /\ num_walks \in Nat /\ starts \in Seq(Vertices)
    BY DEF IInv, TypeOK, num_walks
<1>3. i[th] \in Walks /\ ~Done(i[th]) /\ i[th] < next
    BY <1>1, <1>2 DEF Walks
<1>4. running
    BY DEF IInv, ScheduleInv, Active
<1>5. starts \in StartLists
    BY <1>4 DEF IInv, ScheduleInv
<1>6. starts[i[th] + 1] \in Vertices
    BY <1>1, <1>2 DEF num_walks
<1>7. ASSUME NEW b \in Threads, b # th, Active(b) PROVE i[b] # i[th]
  <2>1. last[th] <= i[b] \/ last[b] <= i[th]
      BY <1>7 DEF IInv, ScheduleInv
  <2>2. i[b] < last[b] /\ i[b] \in Nat /\ last[b] \in Nat
      BY <1>7 DEF IInv, ScheduleInv, TypeOK
  <2> QED
      BY <2>1, <2>2, <1>1, <1>2
<1> QED
    BY <1>2, <1>3, <1>5, <1>6, <1>7

(* A walk's slots are cells of the buffer, and nobody else's. *)
LEMMA OwnSlots ==
    ASSUME TypeOK, NEW w \in Walks, NEW s \in 0..max_walk_len - 1,
           NEW y \in Walks, NEW r \in 0..max_walk_len - 1
    PROVE  /\ Slot(y, r) \in DOMAIN walks_out
           /\ Slot(y, r) = Slot(w, s) => y = w /\ r = s
<1>1. num_walks \in Nat
    BY DEF TypeOK, num_walks
<1>2. w \in Nat /\ y \in Nat
    BY <1>1 DEF Walks
<1>3. Slot(y, r) \in Cells
    BY <1>1, SlotInCells DEF Walks, Cells
<1>4. Slot(y, r) = Slot(w, s) => y = w /\ r = s
    BY <1>2, SlotsApart
<1> QED
    BY <1>3, <1>4 DEF TypeOK

(* A walk whose slots are not written keeps following its stream. *)
LEMMA FollowsStays ==
    ASSUME NEW w, NEW n \in 1..max_walk_len, Follows(w, n),
           UNCHANGED <<starts, seed>>,
           \A r \in 0..n - 1 : walks_out'[Slot(w, r)] = walks_out[Slot(w, r)]
    PROVE  Follows(w, n)'
<1>1. \A r \in 0..n - 1 : Cell(w, r)' = Cell(w, r)
    BY DEF Cell
<1>2. Cell(w, 0)' = [v |-> starts'[w + 1], t |-> kSentinelStartTimestamp]
    BY <1>1 DEF Follows
<1>3. ASSUME NEW k \in 1..n - 1
      PROVE  /\ Cell(w, k)'.v \in Vertices
             /\ Cell(w, k)' = Sample(Cell(w, k - 1)'.v, Cell(w, k - 1)'.t, seed'[w][k])
  <2>1. Cell(w, k)' = Cell(w, k) /\ Cell(w, k - 1)' = Cell(w, k - 1)
      BY <1>1
  <2> QED
      BY <2>1 DEF Follows
<1> QED
    BY <1>2, <1>3 DEF Follows

(* What the other threads have in hand, and the finished walks, do not      *)
(* notice a step that writes only the walk th has in hand.                  *)
LEMMA OthersStay ==
    ASSUME IInv, NEW th \in Threads, Active(th), UNCHANGED <<starts, seed>>,
           \A y \in Walks \ {i[th]} : \A r \in 0..max_walk_len - 1 :
               walks_out'[Slot(y, r)] = walks_out[Slot(y, r)],
           \A y \in Walks \ {i[th]} : walk_lens_out'[y] = walk_lens_out[y],
           \A b \in Threads \ {th} :
               /\ pc'[b] = pc[b] /\ i'[b] = i[b] /\ rng'[b] = rng[b]
               /\ u'[b] = u[b] /\ t_prev'[b] = t_prev[b]
               /\ prev_u'[b] = prev_u[b] /\ walk_len'[b] = walk_len[b]
    PROVE  /\ \A b \in Threads \ {th} : pc'[b] = "step" =>
                  /\ walk_len'[b] >= 1
                  /\ rng'[b] = <<i'[b], walk_len'[b]>>
                  /\ u'[b] \in Vertices
                  /\ Cell(i[b], walk_len[b] - 1)' = [v |-> u'[b], t |-> t_prev'[b]]
                  /\ prev_u'[b] = IF walk_len'[b] = 1 THEN -1
                                  ELSE Cell(i[b], walk_len[b] - 2)'.v
                  /\ Follows(i[b], walk_len[b])'
           /\ \A y \in Walks \ {i[th]} : Done(y) =>
                  /\ walk_lens_out'[y] \in 1..max_walk_len
                  /\ Follows(y, walk_lens_out[y])'
                  /\ \A k \in walk_lens_out[y]..max_walk_len - 1 :
                         walks_out'[Slot(y, k)] = DeadStep
                  /\ walk_lens_out[y] < max_walk_len =>
                         Sample(walks_out'[Slot(y, walk_lens_out[y] - 1)].v,
                                walks_out'[Slot(y, walk_lens_out[y] - 1)].t,
                                seed'[y][walk_lens_out[y]]) = DeadStep
<1>0. max_walk_len \in Nat \ {0}
    BY EngineAssumption
<1>1. ASSUME NEW b \in Threads \ {th}, pc'[b] = "step"
      PROVE  /\ walk_len'[b] >= 1
             /\ rng'[b] = <<i'[b], walk_len'[b]>>
             /\ u'[b] \in Vertices
             /\ Cell(i[b], walk_len[b] - 1)' = [v |-> u'[b], t |-> t_prev'[b]]
             /\ prev_u'[b] = IF walk_len'[b] = 1 THEN -1
                             ELSE Cell(i[b], walk_len[b] - 2)'.v
             /\ Follows(i[b], walk_len[b])'
  <2>1. pc[b] = "step" /\ Active(b)
      BY <1>1 DEF Active
  <2>2. i[b] \in Walks \ {i[th]}
      BY <2>1, WalkInHand
  <2>3. /\ walk_len[b] >= 1 /\ rng[b] = <<i[b], walk_len[b]>> /\ u[b] \in Vertices
        /\ Cell(i[b], walk_len[b] - 1) = [v |-> u[b], t |-> t_prev[b]]
        /\ prev_u[b] = IF walk_len[b] = 1 THEN -1 ELSE Cell(i[b], walk_len[b] - 2).v
        /\ Follows(i[b], walk_len[b])
      BY <2>1 DEF IInv, InHandInv
  <2>4. walk_len[b] \in 1..max_walk_len
      BY <2>3 DEF IInv, TypeOK
  <2>5. \A r \in 0..walk_len[b] - 1 :
            walks_out'[Slot(i[b], r)] = walks_out[Slot(i[b], r)]
      BY <2>2, <2>4, <1>0
  <2>6. Follows(i[b], walk_len[b])'
      BY <2>3, <2>4, <2>5, FollowsStays
  <2>7. Cell(i[b], walk_len[b] - 1)' = Cell(i[b], walk_len[b] - 1)
      BY <2>4, <2>5 DEF Cell
  <2>8. walk_len[b] # 1 => Cell(i[b], walk_len[b] - 2)' = Cell(i[b], walk_len[b] - 2)
      BY <2>4, <2>5 DEF Cell
  <2>9. walk_len'[b] = walk_len[b] /\ rng'[b] = rng[b] /\ u'[b] = u[b]
        /\ i'[b] = i[b] /\ t_prev'[b] = t_prev[b] /\ prev_u'[b] = prev_u[b]
      OBVIOUS
  <2> QED
      BY <2>3, <2>6, <2>7, <2>8, <2>9
<1>2. ASSUME NEW y \in Walks \ {i[th]}, Done(y)
      PROVE  /\ walk_lens_out'[y] \in 1..max_walk_len
             /\ Follows(y, walk_lens_out[y])'
             /\ \A k \in walk_lens_out[y]..max_walk_len - 1 :
                    walks_out'[Slot(y, k)] = DeadStep
             /\ walk_lens_out[y] < max_walk_len =>
                    Sample(walks_out'[Slot(y, walk_lens_out[y] - 1)].v,
                           walks_out'[Slot(y, walk_lens_out[y] - 1)].t,
                           seed'[y][walk_lens_out[y]]) = DeadStep
  <2>1. /\ walk_lens_out[y] \in 1..max_walk_len
        /\ Follows(y, walk_lens_out[y])
        /\ \A k \in walk_lens_out[y]..max_walk_len - 1 : Cell(y, k) = DeadStep
        /\ walk_lens_out[y] < max_walk_len =>
               Sample(Cell(y, walk_lens_out[y] - 1).v, Cell(y, walk_lens_out[y] - 1).t,
                      seed[y][walk_lens_out[y]]) = DeadStep
      BY <1>2 DEF IInv, DoneInv
  <2>2. \A r \in 0..max_walk_len - 1 : walks_out'[Slot(y, r)] = Cell(y, r)
      BY DEF Cell
  <2>3. Follows(y, walk_lens_out[y])'
    <3>1. \A r \in 0..walk_lens_out[y] - 1 :
              walks_out'[Slot(y, r)] = walks_out[Slot(y, r)]
        BY <2>1, <1>0
    <3> QED
        BY <2>1, <3>1, FollowsStays
  <2>4. \A k \in walk_lens_out[y]..max_walk_len - 1 : walks_out'[Slot(y, k)] = DeadStep
      BY <2>1, <2>2
  <2>5. walks_out'[Slot(y, walk_lens_out[y] - 1)] = Cell(y, walk_lens_out[y] - 1)
      BY <2>1, <2>2, <1>0
  <2> QED
      BY <2>1, <2>3, <2>4, <2>5
<1> QED
    BY <1>1, <1>2
-----------------------------------------------------------------------------
LEMMA BeginWalkKeeps ==
    ASSUME IInv, NEW th \in Threads, BeginWalk(th) PROVE IInv'
<1> USE DEF BeginWalk
<1> DEFINE first == [v |-> starts[i[th] + 1], t |-> kSentinelStartTimestamp]
<1>0. max_walk_len \in Nat \ {0} /\ kSentinelStartTimestamp \in Int
    BY EngineAssumption
<1>1. num_walks' = num_walks /\ Walks' = Walks /\ Cells' = Cells
    BY DEF num_walks, Walks, Cells
<1>2. Active(th)
    BY DEF Active
<1>3. /\ i[th] \in Walks /\ i[th] \in Nat /\ ~Done(i[th])
      /\ starts[i[th] + 1] \in Vertices
    BY <1>2, WalkInHand
<1>4. TypeOK
    BY DEF IInv
<1>5. \A y \in Walks, r \in 0..max_walk_len - 1 :
          walks_out'[Slot(y, r)]
              = IF y = i[th] /\ r = 0 THEN first ELSE walks_out[Slot(y, r)]
  <2>1. 0 \in 0..max_walk_len - 1
      BY <1>0
  <2>2. walks_out' = [walks_out EXCEPT ![Slot(i[th], 0)] = first]
      OBVIOUS
  <2>3. \A y \in Walks, r \in 0..max_walk_len - 1 :
            /\ Slot(y, r) \in DOMAIN walks_out
            /\ Slot(y, r) = Slot(i[th], 0) => y = i[th] /\ r = 0
      BY <1>3, <1>4, <2>1, OwnSlots
  <2> HIDE DEF first
  <2> QED
      BY <2>2, <2>3
<1>6. /\ rng'[th] = <<i[th], 1>> /\ u'[th] = starts[i[th] + 1]
      /\ t_prev'[th] = kSentinelStartTimestamp
      /\ prev_u'[th] = -1 /\ walk_len'[th] = 1 /\ pc'[th] = "step"
    BY <1>4 DEF TypeOK, FreshStream
<1>7. \A b \in Threads \ {th} :
          /\ pc'[b] = pc[b] /\ i'[b] = i[b] /\ rng'[b] = rng[b]
          /\ u'[b] = u[b] /\ t_prev'[b] = t_prev[b]
          /\ prev_u'[b] = prev_u[b] /\ walk_len'[b] = walk_len[b]
    BY <1>4 DEF TypeOK
<1>8. TypeOK'
  <2>1. walks_out' \in [Cells -> [v : Vertices \cup {kWalkDeadSentinel}, t : Int]]
      BY <1>0, <1>3, <1>4 DEF TypeOK
  <2>2. /\ rng' \in [Threads -> Nat \X Nat]
        /\ u' \in [Threads -> Vertices \cup {-1}]
        /\ t_prev' \in [Threads -> Int]
        /\ prev_u' \in [Threads -> Vertices \cup {-1}]
      BY <1>0, <1>3, <1>4 DEF TypeOK, FreshStream
  <2>3. /\ walk_len' \in [Threads -> 0..max_walk_len]
        /\ pc' \in [Threads -> {"grab", "begin", "step", "reduce", "done"}]
      BY SMTT(30), <1>0, <1>4 DEF TypeOK
  <2> QED
      BY <1>1, <1>4, <2>1, <2>2, <2>3 DEF TypeOK
<1>9. ScheduleInv'
  <2>1. \A a \in Threads : Active(a)' <=> Active(a)
      BY <1>2, <1>6, <1>7 DEF Active
  <2>2. running
      BY <1>2 DEF IInv, ScheduleInv, Active
  <2>3. \A w : Done(w)' <=> Done(w)
      BY DEF Done
  <2> QED
      BY <1>1, <2>1, <2>2, <2>3 DEF IInv, ScheduleInv
<1>10. Cell(i[th], 0)' = first
    BY <1>3, <1>5, <1>0 DEF Cell
<1>11. Follows(i[th], walk_len[th])'
    BY <1>6, <1>10 DEF Follows
<1>12. InHandInv'
  <2>1. ASSUME NEW b \in Threads, pc'[b] = "step"
        PROVE  /\ walk_len'[b] >= 1
               /\ rng'[b] = <<i'[b], walk_len'[b]>>
               /\ u'[b] \in Vertices
               /\ Cell(i[b], walk_len[b] - 1)' = [v |-> u'[b], t |-> t_prev'[b]]
               /\ prev_u'[b] = IF walk_len'[b] = 1 THEN -1
                               ELSE Cell(i[b], walk_len[b] - 2)'.v
               /\ Follows(i[b], walk_len[b])'
    <3>1. CASE b = th
        BY <3>1, <1>3, <1>6, <1>10, <1>11
    <3>2. CASE b # th
      <4>1. /\ \A y \in Walks \ {i[th]} : \A r \in 0..max_walk_len - 1 :
                   walks_out'[Slot(y, r)] = walks_out[Slot(y, r)]
            /\ \A y \in Walks \ {i[th]} : walk_lens_out'[y] = walk_lens_out[y]
          BY <1>5
      <4> QED
          BY <2>1, <3>2, <4>1, <1>2, <1>7, OthersStay
    <3> QED
        BY <3>1, <3>2
  <2> QED
      BY <2>1 DEF InHandInv
<1>13. DoneInv'
  <2> SUFFICES ASSUME NEW y \in Walks, Done(y)'
               PROVE  /\ walk_lens_out'[y] \in 1..max_walk_len
                      /\ Follows(y, walk_lens_out[y])'
                      /\ \A k \in walk_lens_out'[y]..max_walk_len - 1 :
                             Cell(y, k)' = DeadStep
                      /\ walk_lens_out'[y] < max_walk_len =>
                             Sample(Cell(y, walk_lens_out[y] - 1)'.v,
                                    Cell(y, walk_lens_out[y] - 1)'.t,
                                    seed'[y][walk_lens_out'[y]]) = DeadStep
      BY <1>1 DEF DoneInv
  <2>1. y # i[th] /\ Done(y) /\ walk_lens_out' = walk_lens_out
      BY <1>3 DEF Done
  <2>2. /\ \A x \in Walks \ {i[th]} : \A r \in 0..max_walk_len - 1 :
               walks_out'[Slot(x, r)] = walks_out[Slot(x, r)]
        /\ \A x \in Walks \ {i[th]} : walk_lens_out'[x] = walk_lens_out[x]
      BY <1>5
  <2> QED
      BY <2>1, <2>2, <1>2, <1>7, OthersStay DEF Cell
<1> QED
    BY <1>8, <1>9, <1>12, <1>13 DEF IInv

(* The pick a thread is about to sample with belongs to its walk's stream. *)
LEMMA SampleInHand ==
    ASSUME IInv, NEW th \in Threads, pc[th] = "step", walk_len[th] < max_walk_len
    PROVE  /\ NextSample(th) = Sample(u[th], t_prev[th], seed[i[th]][walk_len[th]])
           /\ seed[i[th]][walk_len[th]] \in Picks
           /\ u[th] \in Vertices /\ t_prev[th] \in Int
           /\ NextSample(th) = DeadStep \/ NextSample(th) \in NodeStep
           /\ NextSample(th) = DeadStep <=> NextSample(th).v = kWalkDeadSentinel
<1>1. rng[th] = <<i[th], walk_len[th]>> /\ u[th] \in Vertices /\ walk_len[th] >= 1
    BY DEF IInv, InHandInv
<1>2. t_prev[th] \in Int /\ seed \in Seeds /\ walk_len[th] \in 0..max_walk_len
    BY DEF IInv, TypeOK
<1>3. i[th] \in Walks /\ starts \in StartLists
    BY WalkInHand DEF Active
<1>4. walk_len[th] \in 1..max_walk_len - 1
    BY <1>1, <1>2, EngineAssumption
<1>5. i[th] \in 0..Len(starts) - 1
    BY <1>3 DEF Walks, num_walks
<1>6. seed[i[th]][walk_len[th]] \in Picks
    BY <1>2, <1>3, <1>4, <1>5, EngineAssumption
<1>7. NextSample(th) = Sample(u[th], t_prev[th], seed[i[th]][walk_len[th]])
    BY <1>1 DEF NextSample
<1>8. DeadStep.v = kWalkDeadSentinel
    BY DEF DeadStep
<1> QED
    BY <1>1, <1>2, <1>6, <1>7, <1>8, SampleResult

LEMMA TakeStepKeeps ==
    ASSUME IInv, NEW th \in Threads, TakeStep(th) PROVE IInv'
<1> USE DEF TakeStep
<1>0. max_walk_len \in Nat \ {0} /\ kSentinelStartTimestamp \in Int
    BY EngineAssumption
<1>1. num_walks' = num_walks /\ Walks' = Walks /\ Cells' = Cells
    BY DEF num_walks, Walks, Cells
<1>2. Active(th)
    BY DEF Active
<1>4. TypeOK
    BY DEF IInv
<1> PICK w \in Walks : w = i[th]
    BY <1>2, WalkInHand
<1> PICK n \in Nat : n = walk_len[th]
    BY <1>0, <1>4 DEF TypeOK
<1> PICK s : s = NextSample(th)
    OBVIOUS
<1>3. w \in Walks /\ w \in Nat /\ ~Done(w)
    BY <1>2, WalkInHand
<1>5. /\ n \in 1..max_walk_len - 1 /\ rng[th] = <<w, n>> /\ u[th] \in Vertices
      /\ Cell(w, n - 1) = [v |-> u[th], t |-> t_prev[th]]
      /\ Follows(w, n)
    BY <1>0, <1>4 DEF IInv, InHandInv, TypeOK
<1>6. /\ s = Sample(u[th], t_prev[th], seed[w][n])
      /\ s \in NodeStep /\ s.v \in Vertices /\ s.t \in Int
  <2>1. /\ NextSample(th) = Sample(u[th], t_prev[th], seed[i[th]][walk_len[th]])
        /\ NextSample(th) = DeadStep \/ NextSample(th) \in NodeStep
        /\ NextSample(th) = DeadStep <=> NextSample(th).v = kWalkDeadSentinel
      BY SampleInHand
  <2>2. NextSample(th) \in NodeStep
      BY <2>1
  <2> QED
      BY <2>1, <2>2 DEF NodeStep
<1>7. \A y \in Walks, r \in 0..max_walk_len - 1 :
          walks_out'[Slot(y, r)]
              = IF y = w /\ r = n THEN s ELSE walks_out[Slot(y, r)]
  <2>1. n \in 0..max_walk_len - 1
      BY <1>5, <1>0
  <2>2. walks_out' = [walks_out EXCEPT ![Slot(w, n)] = s]
      OBVIOUS
  <2>3. \A y \in Walks, r \in 0..max_walk_len - 1 :
            /\ Slot(y, r) \in DOMAIN walks_out
            /\ Slot(y, r) = Slot(w, n) => y = w /\ r = n
      BY <1>3, <1>4, <2>1, OwnSlots
  <2> QED
      BY <2>2, <2>3
<1>8. /\ rng'[th] = <<w, n + 1>> /\ u'[th] = s.v /\ t_prev'[th] = s.t
      /\ prev_u'[th] = u[th] /\ walk_len'[th] = n + 1
      /\ pc' = pc /\ i' = i
    BY <1>4, <1>5 DEF TypeOK, Predecessor
<1>9. \A b \in Threads \ {th} :
          /\ pc'[b] = pc[b] /\ i'[b] = i[b] /\ rng'[b] = rng[b]
          /\ u'[b] = u[b] /\ t_prev'[b] = t_prev[b]
          /\ prev_u'[b] = prev_u[b] /\ walk_len'[b] = walk_len[b]
    BY <1>4 DEF TypeOK
<1>10. TypeOK'
  <2>1. walks_out' \in [Cells -> [v : Vertices \cup {kWalkDeadSentinel}, t : Int]]
    <3>1. s \in [v : Vertices \cup {kWalkDeadSentinel}, t : Int]
        BY <1>6 DEF NodeStep
    <3>2. walks_out' = [walks_out EXCEPT ![Slot(w, n)] = s]
        OBVIOUS
    <3>3. walks_out \in [Cells -> [v : Vertices \cup {kWalkDeadSentinel}, t : Int]]
        BY <1>4 DEF TypeOK
    <3> QED
        BY <3>1, <3>2, <3>3
  <2>2. rng' \in [Threads -> Nat \X Nat]
    <3>1. rng[th][1] \in Nat /\ rng[th][2] + 1 \in Nat
      <4>1. rng[th][1] = w /\ rng[th][2] = n
          BY <1>5
      <4> QED
          BY <4>1, <1>3
    <3>2. rng \in [Threads -> Nat \X Nat]
        BY <1>4, SMTT(30) DEF TypeOK
    <3>3. rng' = [rng EXCEPT ![th] = <<rng[th][1], rng[th][2] + 1>>]
        BY <3>2, SMTT(30)
    <3> QED
        BY <3>1, <3>2, <3>3
  <2>3. u' \in [Threads -> Vertices \cup {-1}]
      BY <1>4, <1>6 DEF TypeOK
  <2>4. t_prev' \in [Threads -> Int]
      BY <1>4, <1>6 DEF TypeOK
  <2>5. prev_u' \in [Threads -> Vertices \cup {-1}]
      BY <1>4, <1>5 DEF TypeOK, Predecessor
  <2>6. walk_len' \in [Threads -> 0..max_walk_len]
      BY <1>0, <1>4, <1>5 DEF TypeOK
  <2>7. /\ running' \in BOOLEAN /\ starts' \in Seq(Vertices) /\ seed' \in Seeds
        /\ walk_lens_out' \in [Walks -> Nat] /\ next' \in 0..num_walks
        /\ pc' \in [Threads -> {"grab", "begin", "step", "reduce", "done"}]
        /\ i' \in [Threads -> Nat] /\ last' \in [Threads -> Nat]
        /\ steps_local' \in [Threads -> Nat] /\ total_steps' \in Nat
      BY <1>4, SMTT(30) DEF TypeOK
  <2> HIDE DEF TakeStep
  <2> QED
      BY <1>1, <2>1, <2>2, <2>3, <2>4, <2>5, <2>6, <2>7 DEF TypeOK
<1>11. ScheduleInv'
  <2>1. \A a \in Threads : Active(a)' <=> Active(a)
      BY DEF Active
  <2>2. \A x : Done(x)' <=> Done(x)
      BY DEF Done
  <2> QED
      BY <1>1, <2>1, <2>2 DEF IInv, ScheduleInv
<1>12. \A r \in 0..n - 1 : walks_out'[Slot(w, r)] = walks_out[Slot(w, r)]
    BY <1>0, <1>3, <1>5, <1>7
<1>13. Cell(w, n)' = s /\ Cell(w, n - 1)' = Cell(w, n - 1)
    BY <1>0, <1>3, <1>5, <1>7 DEF Cell
<1>14. Follows(w, n + 1)'
  <2>1. \A r \in 0..n - 1 : walks_out'[Slot(w, r)] = Cell(w, r)
      BY <1>12 DEF Cell
  <2>2. walks_out'[Slot(w, 0)] = [v |-> starts'[w + 1], t |-> kSentinelStartTimestamp]
      BY <2>1, <1>5 DEF Follows
  <2>3. ASSUME NEW k \in 1..n
        PROVE  /\ walks_out'[Slot(w, k)].v \in Vertices
               /\ walks_out'[Slot(w, k)]
                      = Sample(walks_out'[Slot(w, k - 1)].v,
                               walks_out'[Slot(w, k - 1)].t, seed'[w][k])
    <3>1. CASE k = n
      <4>1. walks_out'[Slot(w, n)] = s
        <5>1. n \in 0..max_walk_len - 1
            BY <1>0, <1>5
        <5> QED
            BY <5>1, <1>7
      <4>2. walks_out'[Slot(w, n - 1)] = [v |-> u[th], t |-> t_prev[th]]
        <5>1. n - 1 \in 0..n - 1
            BY <1>5
        <5>2. walks_out'[Slot(w, n - 1)] = Cell(w, n - 1)
            BY <2>1, <5>1
        <5> QED
            BY <5>2, <1>5
      <4> QED
          BY <3>1, <4>1, <4>2, <1>6
    <3>2. CASE k # n
      <4>1. k \in 1..n - 1 /\ k \in 0..n - 1 /\ k - 1 \in 0..n - 1
          BY <3>2, <1>5
      <4>2. walks_out'[Slot(w, k)] = Cell(w, k)
            /\ walks_out'[Slot(w, k - 1)] = Cell(w, k - 1)
          BY <4>1, <2>1
      <4> QED
          BY <4>1, <4>2, <1>5 DEF Follows
    <3> QED
        BY <3>1, <3>2
  <2>4. i'[th] = w /\ (n + 1) - 1 = n
      BY <1>5, <1>8
  <2> QED
      BY <2>2, <2>3, <2>4, <1>8 DEF Follows, Cell
<1>15. InHandInv'
  <2>1. ASSUME NEW b \in Threads, pc'[b] = "step"
        PROVE  /\ walk_len'[b] >= 1
               /\ rng'[b] = <<i'[b], walk_len'[b]>>
               /\ u'[b] \in Vertices
               /\ Cell(i[b], walk_len[b] - 1)' = [v |-> u'[b], t |-> t_prev'[b]]
               /\ prev_u'[b] = IF walk_len'[b] = 1 THEN -1
                               ELSE Cell(i[b], walk_len[b] - 2)'.v
               /\ Follows(i[b], walk_len[b])'
    <3>1. CASE b = th
      <4>1. walk_len'[b] = n + 1 /\ i'[b] = w /\ n \in Int
          BY <3>1, <1>5, <1>8
      <4>2. Cell(i[b], walk_len[b] - 1)' = s
          BY <4>1, <1>13 DEF Cell
      <4>3. s = [v |-> s.v, t |-> s.t]
          BY <1>6 DEF NodeStep
      <4>4. Cell(i[b], walk_len[b] - 2)'.v = u[th]
          BY <4>1, <1>5, <1>13 DEF Cell
      <4>5. Follows(i[b], walk_len[b])'
          BY <4>1, <1>14, <1>8, <3>1 DEF Follows, Cell
      <4>6. walk_len'[b] >= 1 /\ walk_len'[b] # 1 /\ rng'[b] = <<i'[b], walk_len'[b]>>
          BY <3>1, <4>1, <1>5, <1>8
      <4>7. u'[b] = s.v /\ t_prev'[b] = s.t /\ prev_u'[b] = u[th] /\ s.v \in Vertices
          BY <3>1, <1>6, <1>8
      <4>8. Cell(i[b], walk_len[b] - 1)' = [v |-> u'[b], t |-> t_prev'[b]]
          BY <4>2, <4>3, <4>7
      <4>9. prev_u'[b] = IF walk_len'[b] = 1 THEN -1
                         ELSE Cell(i[b], walk_len[b] - 2)'.v
          BY <4>4, <4>6, <4>7
      <4> QED
          BY <4>5, <4>6, <4>7, <4>8, <4>9
    <3>2. CASE b # th
      <4>1. /\ \A y \in Walks \ {i[th]} : \A r \in 0..max_walk_len - 1 :
                   walks_out'[Slot(y, r)] = walks_out[Slot(y, r)]
            /\ \A y \in Walks \ {i[th]} : walk_lens_out'[y] = walk_lens_out[y]
          BY <1>7
      <4> QED
          BY <2>1, <3>2, <4>1, <1>2, <1>9, OthersStay
    <3> QED
        BY <3>1, <3>2
  <2> QED
      BY <2>1 DEF InHandInv
<1>16. DoneInv'
  <2> SUFFICES ASSUME NEW y \in Walks, Done(y)'
               PROVE  /\ walk_lens_out'[y] \in 1..max_walk_len
                      /\ Follows(y, walk_lens_out[y])'
                      /\ \A k \in walk_lens_out'[y]..max_walk_len - 1 :
                             Cell(y, k)' = DeadStep
                      /\ walk_lens_out'[y] < max_walk_len =>
                             Sample(Cell(y, walk_lens_out[y] - 1)'.v,
                                    Cell(y, walk_lens_out[y] - 1)'.t,
                                    seed'[y][walk_lens_out'[y]]) = DeadStep
      BY <1>1 DEF DoneInv
  <2>1. y # i[th] /\ Done(y) /\ walk_lens_out' = walk_lens_out
      BY <1>3 DEF Done
  <2>2. /\ \A x \in Walks \ {i[th]} : \A r \in 0..max_walk_len - 1 :
               walks_out'[Slot(x, r)] = walks_out[Slot(x, r)]
        /\ \A x \in Walks \ {i[th]} : walk_lens_out'[x] = walk_lens_out[x]
      BY <1>7
  <2> QED
      BY <2>1, <2>2, <1>2, <1>9, OthersStay DEF Cell
<1> QED
    BY <1>10, <1>11, <1>15, <1>16 DEF IInv
(* The padded tail is exactly slots n..max_walk_len - 1 of the walk. *)
LEMMA TailCells ==
    ASSUME NEW w \in Nat, NEW n \in 0..max_walk_len, NEW y \in Nat,
           NEW r \in 0..max_walk_len - 1
    PROVE  Slot(y, r) \in Slot(w, n)..Slot(w, max_walk_len - 1) <=> y = w /\ n <= r
<1>1. max_walk_len \in Nat /\ 0 <= max_walk_len - 1
    BY EngineAssumption
<1>2. w * max_walk_len \in Nat /\ y * max_walk_len \in Nat
    BY <1>1
<1>3. w < y => w * max_walk_len + max_walk_len <= y * max_walk_len
    BY <1>1, Stride
<1>4. y < w => y * max_walk_len + max_walk_len <= w * max_walk_len
    BY <1>1, Stride
<1>5. CASE y = w
    BY <1>1, <1>2, <1>5 DEF Slot
<1>6. CASE y < w
    BY <1>1, <1>2, <1>4, <1>6 DEF Slot
<1>7. CASE w < y
    BY <1>1, <1>2, <1>3, <1>7 DEF Slot
<1> QED
    BY <1>5, <1>6, <1>7

LEMMA FinishWalkKeeps ==
    ASSUME IInv, NEW th \in Threads, FinishWalk(th) PROVE IInv'
<1> USE DEF FinishWalk
<1>0. max_walk_len \in Nat \ {0}
    BY EngineAssumption
<1>1. num_walks' = num_walks /\ Walks' = Walks /\ Cells' = Cells
    BY DEF num_walks, Walks, Cells
<1>2. Active(th) /\ running
    BY DEF Active, IInv, ScheduleInv
<1>4. TypeOK
    BY DEF IInv
<1> PICK w \in Walks : w = i[th]
    BY <1>2, WalkInHand
<1> PICK n \in Nat : n = walk_len[th]
    BY <1>0, <1>4 DEF TypeOK
<1>3. /\ w \in Nat /\ ~Done(w) /\ w < next
      /\ \A b \in Threads \ {th} : Active(b) => i[b] # w
    BY <1>2, WalkInHand
<1>5. n \in 1..max_walk_len /\ Follows(w, n)
  <2>1. walk_len[th] \in 0..max_walk_len
      BY <1>4 DEF TypeOK
  <2>2. walk_len[th] >= 1 /\ Follows(i[th], walk_len[th])
      BY DEF IInv, InHandInv
  <2> QED
      BY <1>0, <2>1, <2>2
<1>6. \A y \in Walks, r \in 0..max_walk_len - 1 :
          walks_out'[Slot(y, r)]
              = IF y = w /\ n <= r THEN DeadStep ELSE walks_out[Slot(y, r)]
  <2> SUFFICES ASSUME NEW y \in Walks, NEW r \in 0..max_walk_len - 1
               PROVE  walks_out'[Slot(y, r)]
                          = IF y = w /\ n <= r THEN DeadStep
                            ELSE walks_out[Slot(y, r)]
      OBVIOUS
  <2>1. y \in Nat
      BY <1>4 DEF TypeOK, Walks, num_walks
  <2>2. Slot(y, r) \in Slot(w, n)..Slot(w, max_walk_len - 1) <=> y = w /\ n <= r
      BY <2>1, <1>3, <1>5, TailCells
  <2>3. Slot(y, r) \in DOMAIN walks_out
      BY <1>4, OwnSlots
  <2> QED
      BY <2>2, <2>3
<1>7. /\ i' \in [Threads -> Nat] /\ i'[th] = w + 1
      /\ pc' \in [Threads -> {"grab", "begin", "step", "reduce", "done"}]
      /\ pc'[th] = IF w + 1 < last[th] THEN "begin" ELSE "grab"
      /\ \A b \in Threads \ {th} :
             /\ pc'[b] = pc[b] /\ i'[b] = i[b] /\ rng'[b] = rng[b]
             /\ u'[b] = u[b] /\ t_prev'[b] = t_prev[b]
             /\ prev_u'[b] = prev_u[b] /\ walk_len'[b] = walk_len[b]
    BY SMTT(30), <1>3, <1>4 DEF TypeOK, MoreInChunk
<1>8. walk_lens_out' = [walk_lens_out EXCEPT ![w] = n]
    OBVIOUS
<1>9. TypeOK'
  <2>1. walks_out' \in [Cells -> [v : Vertices \cup {kWalkDeadSentinel}, t : Int]]
      BY <1>4 DEF TypeOK, DeadStep
  <2>2. walk_lens_out' \in [Walks -> Nat]
      BY <1>4, <1>8 DEF TypeOK
  <2>3. steps_local' \in [Threads -> Nat]
      BY <1>4 DEF TypeOK
  <2> QED
      BY <1>1, <1>4, <1>7, <2>1, <2>2, <2>3 DEF TypeOK
<1>10. \A y \in Walks : Done(y)' <=> Done(y) \/ y = w
    BY SMTT(30), <1>4, <1>5, <1>8 DEF TypeOK, Done
<1>11. ScheduleInv'
  <2>1. \A a \in Threads : Active(a)' => Active(a) /\ i'[a] >= i[a] /\ i'[a] < last[a]
    <3> SUFFICES ASSUME NEW a \in Threads, Active(a)'
                 PROVE  Active(a) /\ i'[a] >= i[a] /\ i'[a] < last[a]
        OBVIOUS
    <3>1. CASE a = th
        BY <3>1, <1>2, <1>3, <1>7 DEF Active
    <3>2. CASE a # th
      <4>1. Active(a) /\ i'[a] = i[a]
          BY <3>2, <1>7 DEF Active
      <4>2. i[a] < last[a] /\ i[a] \in Nat
          BY <1>4, <4>1 DEF IInv, ScheduleInv, TypeOK
      <4> QED
          BY <4>1, <4>2
    <3> QED
        BY <3>1, <3>2
  <2>2. ASSUME NEW a \in Threads, Active(a)'
        PROVE  /\ i'[a] < last'[a] /\ last'[a] <= next'
               /\ \A y \in Walks : i'[a] <= y /\ y < last'[a] => ~Done(y)'
    <3>1. /\ Active(a) /\ i'[a] >= i[a] /\ i'[a] < last[a]
          /\ last[a] <= next /\ last' = last /\ next' = next
          /\ \A y \in Walks : i[a] <= y /\ y < last[a] => ~Done(y)
        BY <2>1, <2>2 DEF IInv, ScheduleInv
    <3>2. i[a] \in Nat /\ i'[a] \in Nat /\ last[a] \in Nat
        BY <1>4, <1>7 DEF TypeOK
    <3>3. ~(i'[a] <= w /\ w < last[a])
      <4>1. CASE a = th
          BY <4>1, <1>3, <1>7
      <4>2. CASE a # th
        <5>1. last[a] <= i[th] \/ last[th] <= i[a]
            BY <1>2, <3>1, <4>2 DEF IInv, ScheduleInv
        <5>2. w < last[th] /\ last[th] \in Nat
            BY <1>2, <1>4 DEF IInv, ScheduleInv, TypeOK
        <5> QED
            BY <1>3, <1>7, <3>1, <3>2, <4>2, <5>1, <5>2
      <4> QED
          BY <4>1, <4>2
    <3>4. ASSUME NEW y \in Walks, i'[a] <= y, y < last[a] PROVE ~Done(y)'
      <4>1. y \in Nat
          BY <1>4 DEF TypeOK, Walks, num_walks
      <4>2. y # w
          BY <3>3, <3>4
      <4>3. i[a] <= y
          BY <3>1, <3>2, <3>4, <4>1
      <4> QED
          BY <1>10, <3>1, <3>4, <4>2, <4>3
    <3> QED
        BY <3>1, <3>4
  <2>3. ASSUME NEW a \in Threads, NEW b \in Threads, Active(a)', Active(b)', a # b
        PROVE  last'[a] <= i'[b] \/ last'[b] <= i'[a]
    <3>1. last[a] <= i[b] \/ last[b] <= i[a]
        BY <2>1, <2>3 DEF IInv, ScheduleInv
    <3>2. i'[a] >= i[a] /\ i'[b] >= i[b] /\ last' = last
        BY <2>1, <2>3
    <3>3. /\ i[a] \in Nat /\ i[b] \in Nat /\ i'[a] \in Nat /\ i'[b] \in Nat
          /\ last[a] \in Nat /\ last[b] \in Nat
        BY <1>4, <1>7 DEF TypeOK
    <3> QED
        BY <3>1, <3>2, <3>3
  <2>4. \A y \in Walks' : y >= next' => ~Done(y)'
    <3>1. next \in Nat /\ \A y \in Walks : y \in Nat
        BY <1>4 DEF TypeOK, Walks, num_walks
    <3>2. \A y \in Walks : y >= next => ~Done(y) /\ y # w
        BY <1>3, <3>1 DEF IInv, ScheduleInv
    <3> QED
        BY <1>1, <1>10, <3>2
  <2>5. running' /\ starts' = starts
      BY <1>2
  <2> QED
      BY <1>1, <2>2, <2>3, <2>4, <2>5 DEF IInv, ScheduleInv
<1>12. /\ \A y \in Walks \ {i[th]} : \A r \in 0..max_walk_len - 1 :
              walks_out'[Slot(y, r)] = walks_out[Slot(y, r)]
       /\ \A y \in Walks \ {i[th]} : walk_lens_out'[y] = walk_lens_out[y]
  <2>1. \A y \in Walks \ {i[th]} : walk_lens_out'[y] = walk_lens_out[y]
      BY <1>4, <1>8 DEF TypeOK
  <2> QED
      BY <1>6, <2>1
<1>13. InHandInv'
  <2>1. ASSUME NEW b \in Threads, pc'[b] = "step"
        PROVE  /\ walk_len'[b] >= 1
               /\ rng'[b] = <<i'[b], walk_len'[b]>>
               /\ u'[b] \in Vertices
               /\ Cell(i[b], walk_len[b] - 1)' = [v |-> u'[b], t |-> t_prev'[b]]
               /\ prev_u'[b] = IF walk_len'[b] = 1 THEN -1
                               ELSE Cell(i[b], walk_len[b] - 2)'.v
               /\ Follows(i[b], walk_len[b])'
    <3>1. b # th
        BY <2>1, <1>7
    <3> QED
        BY <2>1, <3>1, <1>2, <1>7, <1>12, OthersStay
  <2> QED
      BY <2>1 DEF InHandInv
<1>14. ASSUME NEW y \in Walks, y # w, Done(y)
       PROVE  /\ walk_lens_out'[y] \in 1..max_walk_len
              /\ Follows(y, walk_lens_out[y])'
              /\ \A k \in walk_lens_out'[y]..max_walk_len - 1 :
                     Cell(y, k)' = DeadStep
              /\ walk_lens_out'[y] < max_walk_len =>
                     Sample(Cell(y, walk_lens_out[y] - 1)'.v,
                            Cell(y, walk_lens_out[y] - 1)'.t,
                            seed'[y][walk_lens_out'[y]]) = DeadStep
  <2>1. walk_lens_out'[y] = walk_lens_out[y]
      BY <1>12, <1>14
  <2>2. /\ walk_lens_out'[y] \in 1..max_walk_len
        /\ Follows(y, walk_lens_out[y])'
        /\ \A k \in walk_lens_out[y]..max_walk_len - 1 :
               walks_out'[Slot(y, k)] = DeadStep
        /\ walk_lens_out[y] < max_walk_len =>
               Sample(walks_out'[Slot(y, walk_lens_out[y] - 1)].v,
                      walks_out'[Slot(y, walk_lens_out[y] - 1)].t,
                      seed'[y][walk_lens_out[y]]) = DeadStep
      BY <1>2, <1>7, <1>12, <1>14, OthersStay
  <2> QED
      BY <2>1, <2>2 DEF Cell
<1>15. /\ walk_lens_out'[w] = n
       /\ Follows(w, n)'
       /\ \A k \in n..max_walk_len - 1 : Cell(w, k)' = DeadStep
       /\ n < max_walk_len =>
              Sample(Cell(w, n - 1)'.v, Cell(w, n - 1)'.t, seed'[w][n]) = DeadStep
  <2>1. walk_lens_out'[w] = n
      BY <1>4, <1>8 DEF TypeOK
  <2>2. ASSUME NEW r \in 0..n - 1
        PROVE  walks_out'[Slot(w, r)] = walks_out[Slot(w, r)]
    <3>1. r \in 0..max_walk_len - 1 /\ ~(r \in n..max_walk_len - 1)
        BY <1>0, <1>5
    <3> QED
        BY <1>6, <3>1
  <2>3. Follows(w, n)'
      BY <1>5, <2>2, FollowsStays
  <2>4. \A k \in n..max_walk_len - 1 : Cell(w, k)' = DeadStep
      BY <1>0, <1>5, <1>6 DEF Cell
  <2>5. ASSUME n < max_walk_len
        PROVE  Sample(Cell(w, n - 1)'.v, Cell(w, n - 1)'.t, seed'[w][n]) = DeadStep
    <3>1. NextSample(th) = DeadStep
          /\ NextSample(th) = Sample(u[th], t_prev[th], seed[w][n])
        BY <2>5, SampleInHand DEF LoopEnds
    <3>2. Cell(w, n - 1)' = [v |-> u[th], t |-> t_prev[th]]
      <4>1. Cell(w, n - 1) = [v |-> u[th], t |-> t_prev[th]]
          BY DEF IInv, InHandInv
      <4>2. n - 1 \in 0..n - 1
          BY <1>5
      <4> QED
          BY <2>2, <4>1, <4>2 DEF Cell
    <3> QED
        BY <3>1, <3>2
  <2> QED
      BY <2>1, <2>3, <2>4, <2>5
<1>16. DoneInv'
  <2> SUFFICES ASSUME NEW y \in Walks, Done(y)'
               PROVE  /\ walk_lens_out'[y] \in 1..max_walk_len
                      /\ Follows(y, walk_lens_out[y])'
                      /\ \A k \in walk_lens_out'[y]..max_walk_len - 1 :
                             Cell(y, k)' = DeadStep
                      /\ walk_lens_out'[y] < max_walk_len =>
                             Sample(Cell(y, walk_lens_out[y] - 1)'.v,
                                    Cell(y, walk_lens_out[y] - 1)'.t,
                                    seed'[y][walk_lens_out'[y]]) = DeadStep
      BY <1>1 DEF DoneInv
  <2>1. CASE y = w
    <3>1. Follows(y, walk_lens_out[y])'
      <4>1. walk_lens_out'[y] = n
          BY <2>1, <1>15
      <4>2. Follows(w, n)'
          BY <1>15
      <4> QED
          BY <2>1, <4>1, <4>2 DEF Follows, Cell
    <3>2. n - 1 \in Int /\ Cell(y, walk_lens_out[y] - 1)' = Cell(w, n - 1)'
        BY <2>1, <1>5, <1>15 DEF Cell
    <3>3. \A k : Cell(y, k)' = Cell(w, k)'
        BY <2>1 DEF Cell
    <3> QED
        BY <2>1, <1>5, <1>15, <3>1, <3>2, <3>3
  <2>2. CASE y # w
      BY <2>2, <1>10, <1>14
  <2> QED
      BY <2>1, <2>2
<1> QED
    BY <1>9, <1>11, <1>13, <1>16 DEF IInv

LEMMA NextKeeps == IInv /\ [Next]_vars => IInv'
<1> SUFFICES ASSUME IInv, [Next]_vars PROVE IInv'
    OBVIOUS
<1>1. CASE Call
    BY <1>1, CallKeeps
<1>2. ASSUME NEW th \in Threads, Run(th) PROVE IInv'
    BY <1>2, GrabChunkKeeps, NoMoreChunksKeeps, BeginWalkKeeps, TakeStepKeeps,
       FinishWalkKeeps, ReduceKeeps DEF Run
<1>3. CASE Return
    BY <1>3, ReturnKeeps
<1>4. CASE UNCHANGED vars
  <2>1. TypeOK'
      BY <1>4 DEF vars, locals, IInv, TypeOK, Walks, Cells, num_walks
  <2>2. ScheduleInv'
      BY <1>4 DEF vars, locals, IInv, ScheduleInv, Done, Active, Walks, num_walks
  <2>3. InHandInv'
      BY <1>4 DEF vars, locals, IInv, InHandInv, Follows, Cell
  <2>4. DoneInv'
      BY <1>4 DEF vars, locals, IInv, DoneInv, Follows, Cell, Done, Walks, num_walks
  <2> QED
      BY <2>1, <2>2, <2>3, <2>4 DEF IInv
<1> QED
    BY <1>1, <1>2, <1>3, <1>4 DEF Next

THEOREM Invariance == Spec => []IInv
    BY InitIInv, NextKeeps, PTL DEF Spec
-----------------------------------------------------------------------------
(* What is known of a finished walk: its samples are real ones. *)
LEMMA FinishedWalk ==
    ASSUME IInv, NEW w \in Walks, Done(w)
    PROVE  /\ walk_lens_out[w] \in 1..max_walk_len
           /\ Cell(w, 0) = [v |-> starts[w + 1], t |-> kSentinelStartTimestamp]
           /\ \A k \in 0..walk_lens_out[w] - 1 :
                  Cell(w, k).v \in Vertices /\ Cell(w, k).t \in Int
           /\ \A k \in 1..max_walk_len - 1 : seed[w][k] \in Picks
<1>1. walk_lens_out[w] \in 1..max_walk_len /\ Follows(w, walk_lens_out[w])
    BY DEF IInv, DoneInv
<1>2. /\ max_walk_len \in Nat \ {0} /\ starts \in Seq(Vertices)
      /\ w \in 0..Len(starts) - 1 /\ seed \in Seeds
    BY EngineAssumption DEF IInv, TypeOK, Walks, num_walks
<1>3. starts \in StartLists
  <2>1. num_walks \in Nat /\ num_walks > 0
      BY <1>2 DEF num_walks
  <2> QED
      BY <2>1 DEF IInv, ScheduleInv
<1>4. \A k \in 1..max_walk_len - 1 : seed[w][k] \in Picks
    BY <1>2, <1>3, EngineAssumption
<1>5. ASSUME NEW k \in 0..walk_lens_out[w] - 1
      PROVE  Cell(w, k).v \in Vertices /\ Cell(w, k).t \in Int
  <2>1. k \in 0..max_walk_len - 1
      BY <1>1, <1>2
  <2>2. Slot(w, k) \in DOMAIN walks_out
      BY <2>1, OwnSlots DEF IInv
  <2>3. walks_out \in [Cells -> [v : Vertices \cup {kWalkDeadSentinel}, t : Int]]
      BY DEF IInv, TypeOK
  <2>4. Cell(w, k).t \in Int
      BY <2>2, <2>3 DEF Cell
  <2>5. CASE k = 0
    <3>1. starts[w + 1] \in Vertices
        BY <1>2
    <3> QED
        BY <2>4, <2>5, <3>1, <1>1 DEF Follows
  <2>6. CASE k # 0
    <3>1. k \in 1..walk_lens_out[w] - 1
        BY <1>1, <2>6
    <3> QED
        BY <2>4, <3>1, <1>1 DEF Follows
  <2> QED
      BY <2>5, <2>6
<1> QED
    BY <1>1, <1>4, <1>5 DEF Follows

LEMMA VerifiedHere == IInv => WalksVerified
<1> SUFFICES ASSUME IInv, NEW w \in Walks, Done(w)
             PROVE  Cell(w, 0).v = starts[w + 1] /\ verify_walk(w)
    BY DEF WalksVerified
<1> PICK n \in 1..max_walk_len : n = walk_lens_out[w]
    BY FinishedWalk
<1>1. Follows(w, n) /\ \A k \in n..max_walk_len - 1 : Cell(w, k) = DeadStep
    BY DEF IInv, DoneInv
<1>2. ASSUME NEW k \in 1..n - 1
      PROVE  /\ Cell(w, k).v # kWalkDeadSentinel
             /\ Cell(w, k).t < Cell(w, k - 1).t
             /\ edge_in_inbound(Cell(w, k - 1).v, Cell(w, k))
  <2>1. max_walk_len \in Nat
      BY EngineAssumption
  <2>2. k - 1 \in 0..n - 1 /\ k \in 1..max_walk_len - 1
      BY <2>1
  <2>3. /\ Cell(w, k - 1).v \in Vertices /\ Cell(w, k - 1).t \in Int
        /\ seed[w][k] \in Picks
      BY <2>2, FinishedWalk
  <2>4. /\ Cell(w, k).v \in Vertices
        /\ Cell(w, k) = Sample(Cell(w, k - 1).v, Cell(w, k - 1).t, seed[w][k])
      BY <1>1 DEF Follows
  <2>5. Cell(w, k).v # kWalkDeadSentinel /\ Cell(w, k) # DeadStep
      BY <2>4, EngineAssumption DEF DeadStep, kWalkDeadSentinel
  <2> QED
      BY <2>3, <2>4, <2>5, SampleResult DEF edge_in_inbound
<1> QED
    BY <1>1, <1>2, FinishedWalk DEF DeadStep, verify_walk

LEMMA DeterministicHere == IInv => Deterministic
<1> SUFFICES ASSUME IInv, NEW w \in Walks, Done(w), NEW s \in 1..max_walk_len - 1
             PROVE  Cell(w, s) = IF Cell(w, s - 1).v = kWalkDeadSentinel THEN DeadStep
                                 ELSE Sample(Cell(w, s - 1).v, Cell(w, s - 1).t,
                                             seed[w][s])
    BY FinishedWalk DEF Deterministic
<1> PICK n \in 1..max_walk_len : n = walk_lens_out[w]
    BY FinishedWalk
<1>0. max_walk_len \in Nat /\ \A x \in Vertices : x # kWalkDeadSentinel
    BY EngineAssumption DEF kWalkDeadSentinel
<1>1. /\ Follows(w, n)
      /\ \A k \in n..max_walk_len - 1 : Cell(w, k) = DeadStep
      /\ n < max_walk_len =>
             Sample(Cell(w, n - 1).v, Cell(w, n - 1).t, seed[w][n]) = DeadStep
    BY DEF IInv, DoneInv
<1>2. s - 1 \in 0..n - 1 => Cell(w, s - 1).v # kWalkDeadSentinel
    BY <1>0, FinishedWalk
<1>3. CASE s < n
    BY <1>1, <1>2, <1>3 DEF Follows
<1>4. CASE s = n
    BY <1>0, <1>1, <1>2, <1>4
<1>5. CASE s > n
  <2>1. s - 1 \in n..max_walk_len - 1 /\ s \in n..max_walk_len - 1
      BY <1>0, <1>5
  <2> QED
      BY <1>1, <2>1 DEF DeadStep
<1> QED
    BY <1>3, <1>4, <1>5

LEMMA ExclusiveHere == IInv => ExclusiveWalks
<1> SUFFICES ASSUME IInv, NEW a \in Threads, Active(a)
             PROVE  /\ i[a] < last[a]
                    /\ \A w \in i[a]..last[a] - 1 : w \in Walks /\ ~Done(w)
                    /\ \A b \in Threads \ {a} : Active(b) =>
                           (i[a]..last[a] - 1) \cap (i[b]..last[b] - 1) = {}
    BY DEF ExclusiveWalks, Active
<1>1. /\ i[a] < last[a] /\ last[a] <= next
      /\ \A w \in Walks : i[a] <= w /\ w < last[a] => ~Done(w)
    BY DEF IInv, ScheduleInv
<1>2. /\ \A th \in Threads : i[th] \in Nat /\ last[th] \in Nat
      /\ next \in 0..num_walks /\ num_walks \in Nat
    BY DEF IInv, TypeOK, num_walks
<1>3. ASSUME NEW w \in i[a]..last[a] - 1 PROVE w \in Walks /\ ~Done(w)
    BY <1>1, <1>2 DEF Walks
<1>4. ASSUME NEW b \in Threads \ {a}, Active(b)
      PROVE  (i[a]..last[a] - 1) \cap (i[b]..last[b] - 1) = {}
  <2>1. last[a] <= i[b] \/ last[b] <= i[a]
      BY <1>4 DEF IInv, ScheduleInv
  <2> QED
      BY <1>2, <2>1
<1> QED
    BY <1>1, <1>3, <1>4

(* A step of the team writes only the walk of the thread that takes it. *)
LEMMA WritesOwnWalk ==
    ASSUME IInv, NEW th \in Threads, BeginWalk(th) \/ TakeStep(th) \/ FinishWalk(th),
           NEW y \in Walks, Done(y)
    PROVE  /\ walk_lens_out'[y] = walk_lens_out[y]
           /\ \A r \in 0..max_walk_len - 1 :
                  walks_out'[Slot(y, r)] = walks_out[Slot(y, r)]
<1>0. max_walk_len \in Nat \ {0} /\ TypeOK
    BY EngineAssumption DEF IInv
<1>1. Active(th)
    BY DEF Active, BeginWalk, TakeStep, FinishWalk
<1>2. i[th] \in Walks /\ i[th] \in Nat /\ y # i[th]
    BY <1>1, WalkInHand
<1>3. walk_lens_out'[y] = walk_lens_out[y]
    BY <1>0, <1>2 DEF BeginWalk, TakeStep, FinishWalk, TypeOK
<1>4. ASSUME NEW r \in 0..max_walk_len - 1
      PROVE  walks_out'[Slot(y, r)] = walks_out[Slot(y, r)]
  <2>1. ASSUME NEW c \in 0..max_walk_len - 1 PROVE Slot(i[th], c) # Slot(y, r)
      BY <1>0, <1>2, OwnSlots
  <2>2. CASE BeginWalk(th)
    <3>1. 0 \in 0..max_walk_len - 1
        BY <1>0
    <3> QED
        BY <2>1, <2>2, <3>1 DEF BeginWalk
  <2>3. CASE TakeStep(th)
    <3>1. walk_len[th] \in 0..max_walk_len - 1
        BY <1>0, <2>3 DEF TypeOK, TakeStep
    <3> QED
        BY <2>1, <2>3, <3>1 DEF TakeStep
  <2>4. CASE FinishWalk(th)
    <3>1. walk_len[th] \in 0..max_walk_len /\ y \in Nat
        BY <1>0 DEF TypeOK, Walks, num_walks
    <3>2. Slot(y, r) \notin Slot(i[th], walk_len[th])..Slot(i[th], max_walk_len - 1)
        BY <1>2, <3>1, TailCells
    <3>3. Slot(y, r) \in DOMAIN walks_out
        BY <1>0, <1>2, OwnSlots
    <3> QED
        BY <2>4, <3>2, <3>3 DEF FinishWalk
  <2> QED
      BY <2>2, <2>3, <2>4
<1> QED
    BY <1>3, <1>4

(* A weight that never underflows leaves no candidate unreachable. *)
LEMMA NoUnderflowHere ==
    ASSUME \A x \in Vertices : Weighted(x) = 1..Len(Adj[x]), IInv
    PROVE  EarlyTermination
<1> SUFFICES ASSUME NEW w \in Walks, Done(w), walk_lens_out[w] < max_walk_len
             PROVE  ~ \E k \in DOMAIN Adj[Cell(w, walk_lens_out[w] - 1).v] :
                          Adj[Cell(w, walk_lens_out[w] - 1).v][k].t
                              < Cell(w, walk_lens_out[w] - 1).t
    BY DEF EarlyTermination
<1> PICK n \in 1..max_walk_len : n = walk_lens_out[w]
    BY FinishedWalk
<1>1. max_walk_len \in Nat
    BY EngineAssumption
<1> PICK x : x = Cell(w, n - 1).v
    OBVIOUS
<1> PICK t : t = Cell(w, n - 1).t
    OBVIOUS
<1>2. x \in Vertices /\ t \in Int /\ seed[w][n] \in Picks
    BY <1>1, FinishedWalk
<1>3. Sample(x, t, seed[w][n]) = DeadStep
    BY DEF IInv, DoneInv
<1>4. Gamma(x, t) \cap Weighted(x) = {}
  <2>1. DeadStep.v = kWalkDeadSentinel
      BY DEF DeadStep
  <2> QED
      BY <1>2, <1>3, <2>1, SampleResult
<1>5. Adj[x] \in Seq(NodeStep)
    BY <1>2, EngineAssumption
<1> QED
    BY <1>2, <1>4, <1>5 DEF Gamma

-----------------------------------------------------------------------------
(* Every variable keeps its type. *)
THEOREM TypeCorrect == Spec => []TypeOK
<1>1. IInv => TypeOK
    BY DEF IInv
<1> QED
    BY <1>1, Invariance, PTL

(* Whatever the team does, a completed walk passes verify_walk. *)
THEOREM Verified == Spec => []WalksVerified
    BY VerifiedHere, Invariance, PTL

(* A walk's cells are a function of its start and its own stream: the number *)
(* of threads, the chunk size and the interleaving do not show.              *)
THEOREM ThreadIndependent == Spec => []Deterministic
    BY DeterministicHere, Invariance, PTL

(* The dynamic schedule gives every walk to one thread, once. *)
THEOREM WalksExclusive == Spec => []ExclusiveWalks
    BY ExclusiveHere, Invariance, PTL

(* The vertex handed to the sampler as prev_u is where the walk came from. *)
THEOREM PredecessorCorrect == Spec => []PrevIsPredecessor
<1>1. IInv => PrevIsPredecessor
    BY DEF IInv, InHandInv, PrevIsPredecessor
<1> QED
    BY <1>1, Invariance, PTL

(* No step of any thread changes a finished walk before the call returns. *)
THEOREM FinishedStable == Spec => FinishedWalkStable
<1> DEFINE Stable == running => \A w \in Walks : Done(w) =>
               /\ walk_lens_out'[w] = walk_lens_out[w]
               /\ \A s \in 0..max_walk_len - 1 :
                      walks_out'[Slot(w, s)] = walks_out[Slot(w, s)]
<1>1. IInv /\ [Next]_vars => [Stable]_vars
  <2> SUFFICES ASSUME IInv, Next, running, NEW w \in Walks, Done(w)
               PROVE  /\ walk_lens_out'[w] = walk_lens_out[w]
                      /\ \A s \in 0..max_walk_len - 1 :
                             walks_out'[Slot(w, s)] = walks_out[Slot(w, s)]
      OBVIOUS
  <2>1. CASE Call
      BY <2>1 DEF Call
  <2>2. CASE Return
      BY <2>2 DEF Return
  <2>3. ASSUME NEW th \in Threads, GrabChunk(th) \/ NoMoreChunks(th) \/ Reduce(th)
        PROVE  walks_out' = walks_out /\ walk_lens_out' = walk_lens_out
      BY <2>3 DEF GrabChunk, NoMoreChunks, Reduce
  <2> QED
      BY <2>1, <2>2, <2>3, WritesOwnWalk DEF Next, Run
<1> QED
    BY <1>1, Invariance, PTL DEF Spec, FinishedWalkStable

(* README.md "Correctness coverage", under the condition it needs: if no    *)
(* weight underflows, a walk ends early only where its candidate set is     *)
(* empty.  Run walk_underflow shows that the condition is needed.           *)
THEOREM EarlyTerminationJustified ==
    ASSUME \A x \in Vertices : Weighted(x) = 1..Len(Adj[x])
    PROVE  Spec => []EarlyTermination
<1>1. IInv => EarlyTermination
    BY NoUnderflowHere
<1> QED
    BY <1>1, Invariance, PTL

-----------------------------------------------------------------------------
(* What whole calls deliver. *)

(* Every walk below the shared counter is finished or in a thread's chunk, *)
(* so that nothing is left to do when a thread leaves the loop.            *)
CoverInv ==
    /\ running => \A w \in Walks : w < next =>
           \/ Done(w)
           \/ \E th \in Threads : Active(th) /\ i[th] <= w /\ w < last[th]
    /\ running => \A th \in Threads : pc[th] \in {"reduce", "done"} => next = num_walks
    /\ ~running => \A w \in Walks : Done(w)

RInv == IInv /\ CoverInv

-----------------------------------------------------------------------------
(* Cover is kept. *)

LEMMA CoverInit == Init => CoverInv
<1> SUFFICES ASSUME Init PROVE CoverInv
    OBVIOUS
<1>1. num_walks = 0 /\ Walks = {} /\ ~running
    BY DEF Init, num_walks, Walks
<1> QED
    BY <1>1 DEF CoverInv

LEMMA CoverCall == Call => CoverInv'
<1> SUFFICES ASSUME Call PROVE CoverInv'
    OBVIOUS
<1>1. /\ running' /\ next' = 0 /\ Walks' \in SUBSET Nat
      /\ \A th \in Threads : pc'[th] = "grab"
    BY DEF Call, Walks, num_walks
<1>2. \A w \in Walks' : ~(w < next')
    BY <1>1
<1> QED
    BY <1>1, <1>2 DEF CoverInv

LEMMA CoverReturn == IInv /\ CoverInv /\ Return => CoverInv'
<1> SUFFICES ASSUME IInv, CoverInv, Return PROVE CoverInv'
    OBVIOUS
<1>1. /\ running /\ ~running' /\ \A th \in Threads : pc[th] = "done"
      /\ UNCHANGED <<starts, walk_lens_out, next>>
    BY DEF Return
<1>2. Walks' = Walks /\ \A w : Done(w)' = Done(w)
    BY <1>1 DEF Walks, num_walks, Done
<1>3. next = num_walks
    BY <1>1, EngineAssumption DEF CoverInv
<1>4. ASSUME NEW w \in Walks PROVE Done(w)
  <2>1. w < next
      BY <1>3 DEF Walks, IInv, TypeOK, num_walks
  <2>2. \A th \in Threads : ~Active(th)
      BY <1>1 DEF Active
  <2> QED
      BY <1>1, <2>1, <2>2 DEF CoverInv
<1> QED
    BY <1>1, <1>2, <1>4 DEF CoverInv

LEMMA CoverGrab ==
    ASSUME IInv, CoverInv, NEW th \in Threads, GrabChunk(th)
    PROVE  CoverInv'
<1>1. /\ pc[th] = "grab" /\ next < num_walks
      /\ i' = [i EXCEPT ![th] = next] /\ next' = ChunkEnd
      /\ last' = [last EXCEPT ![th] = ChunkEnd]
      /\ pc' = [pc EXCEPT ![th] = "begin"]
      /\ UNCHANGED <<running, starts, walk_lens_out>>
    BY DEF GrabChunk
<1>2. Walks' = Walks /\ num_walks' = num_walks /\ \A w : Done(w)' = Done(w)
    BY <1>1 DEF Walks, num_walks, Done
<1>3. /\ i'[th] = next /\ last'[th] = next' /\ pc'[th] = "begin" /\ running
      /\ \A a \in Threads \ {th} : i'[a] = i[a] /\ last'[a] = last[a] /\ pc'[a] = pc[a]
      /\ next \in Nat
    BY <1>1 DEF IInv, TypeOK, ScheduleInv
<1>4. ASSUME NEW w \in Walks, w < next'
      PROVE  \/ Done(w)
             \/ \E a \in Threads : Active(a)' /\ i'[a] <= w /\ w < last'[a]
  <2>1. CASE w < next
    <3>1. \/ Done(w)
          \/ \E a \in Threads : Active(a) /\ i[a] <= w /\ w < last[a]
        BY <1>3, <2>1 DEF CoverInv
    <3>2. ~Active(th)
        BY <1>1 DEF Active
    <3> QED
        BY <1>3, <3>1, <3>2 DEF Active
  <2>2. CASE ~(w < next)
    <3>1. next <= w
        BY <1>3, <2>2 DEF Walks, num_walks, IInv, TypeOK
    <3>2. Active(th)'
        BY <1>3 DEF Active
    <3> QED
        BY <1>3, <1>4, <3>1, <3>2
  <2> QED
      BY <2>1, <2>2
<1>5. ASSUME NEW a \in Threads, pc'[a] \in {"reduce", "done"} PROVE FALSE
  <2>1. a # th
      BY <1>3, <1>5
  <2>2. next = num_walks
      BY <1>3, <1>5, <2>1 DEF CoverInv
  <2>3. num_walks \in Nat
      BY DEF IInv, TypeOK, num_walks
  <2> QED
      BY <1>1, <2>2, <2>3
<1>6. running'
    BY <1>1, <1>3
<1> QED
    BY <1>2, <1>4, <1>5, <1>6 DEF CoverInv

(* Steps of a thread between two grabs. *)
LEMMA CoverOther ==
    ASSUME IInv, CoverInv, NEW th \in Threads,
           NoMoreChunks(th) \/ BeginWalk(th) \/ TakeStep(th) \/ Reduce(th)
    PROVE  CoverInv'
<1>1. UNCHANGED <<running, starts, walk_lens_out, next, i, last>>
    BY DEF NoMoreChunks, BeginWalk, TakeStep, Reduce
<1>2. Walks' = Walks /\ num_walks' = num_walks /\ \A w : Done(w)' = Done(w)
    BY <1>1 DEF Walks, num_walks, Done
<1>3. pc \in [Threads -> {"grab", "begin", "step", "reduce", "done"}]
    BY DEF IInv, TypeOK
<1>4. \A a \in Threads : Active(a)' <=> Active(a)
    BY <1>3 DEF Active, NoMoreChunks, BeginWalk, TakeStep, Reduce
<1>5. \A a \in Threads : pc'[a] \in {"reduce", "done"} =>
          pc[a] \in {"reduce", "done"} \/ next = num_walks
    BY <1>3 DEF NoMoreChunks, BeginWalk, TakeStep, Reduce
<1> QED
    BY <1>1, <1>2, <1>4, <1>5 DEF CoverInv

LEMMA CoverFinish ==
    ASSUME IInv, CoverInv, NEW th \in Threads, FinishWalk(th)
    PROVE  CoverInv'
<1>1. /\ pc[th] = "step"
      /\ walk_lens_out' = [walk_lens_out EXCEPT ![i[th]] = walk_len[th]]
      /\ i' = [i EXCEPT ![th] = @ + 1]
      /\ pc' = [pc EXCEPT ![th] = IF MoreInChunk(th) THEN "begin" ELSE "grab"]
      /\ UNCHANGED <<running, starts, next, last>>
    BY DEF FinishWalk
<1>2. Walks' = Walks /\ num_walks' = num_walks
    BY <1>1 DEF Walks, num_walks
<1>3. /\ Active(th) /\ running /\ i[th] \in Walks /\ i[th] \in Nat
      /\ last[th] \in Nat /\ walk_len[th] >= 1
    BY <1>1, WalkInHand DEF Active, IInv, ScheduleInv, TypeOK, InHandInv
<1>4. \A w \in Walks : w = i[th] \/ Done(w) => Done(w)'
  <2>1. walk_lens_out \in [Walks -> Nat] /\ walk_len[th] > 0
      BY <1>3 DEF IInv, TypeOK
  <2>2. walk_lens_out'[i[th]] = walk_len[th]
      BY <1>1, <1>3, <2>1
  <2>3. \A w \in Walks : w # i[th] => walk_lens_out'[w] = walk_lens_out[w]
      BY <1>1, <2>1
  <2>4. ASSUME NEW w \in Walks, w = i[th] PROVE Done(w)'
      BY <2>1, <2>2, <2>4 DEF Done
  <2>5. ASSUME NEW w \in Walks, w # i[th], Done(w) PROVE Done(w)'
      BY <2>3, <2>5 DEF Done
  <2> QED
      BY <2>4, <2>5
<1>5. /\ i'[th] = i[th] + 1 /\ last' = last
      /\ pc'[th] = IF i[th] + 1 < last[th] THEN "begin" ELSE "grab"
      /\ \A a \in Threads \ {th} : i'[a] = i[a] /\ pc'[a] = pc[a]
    BY <1>1 DEF IInv, TypeOK, MoreInChunk
<1>6. ASSUME NEW w \in Walks, w < next'
      PROVE  \/ Done(w)'
             \/ \E a \in Threads : Active(a)' /\ i'[a] <= w /\ w < last'[a]
  <2>1. CASE Done(w)
      BY <1>4, <2>1
  <2>2. CASE ~Done(w)
    <3>1. PICK a \in Threads : Active(a) /\ i[a] <= w /\ w < last[a]
        BY <1>1, <1>3, <1>6, <2>2 DEF CoverInv
    <3>2. CASE a # th
        BY <1>5, <3>1, <3>2 DEF Active
    <3>3. CASE a = th /\ w = i[th]
        BY <1>4, <3>3
    <3>4. CASE a = th /\ w # i[th]
      <4>1. w \in Nat /\ i[th] + 1 <= w
          BY <1>3, <3>1, <3>4 DEF Walks, num_walks
      <4>2. i[th] + 1 < last[th]
          BY <1>3, <3>1, <3>4, <4>1
      <4>3. pc'[th] = "begin"
          BY <1>5, <4>2
      <4> QED
          BY <1>5, <3>1, <3>4, <4>1, <4>3 DEF Active
    <3> QED
        BY <3>2, <3>3, <3>4
  <2> QED
      BY <2>1, <2>2
<1>7. ASSUME NEW a \in Threads, pc'[a] \in {"reduce", "done"} PROVE next' = num_walks'
  <2>1. a # th /\ pc[a] \in {"reduce", "done"}
      BY <1>5, <1>7
  <2> QED
      BY <1>1, <1>2, <1>3, <2>1 DEF CoverInv
<1>8. running'
    BY <1>1, <1>3
<1> QED
    BY <1>2, <1>6, <1>7, <1>8 DEF CoverInv

LEMMA CoverKeeps == RInv /\ [Next]_vars => RInv'
<1> SUFFICES ASSUME RInv, [Next]_vars PROVE RInv'
    OBVIOUS
<1>1. IInv /\ CoverInv /\ IInv'
    BY NextKeeps DEF RInv
<1>2. CASE Call
    BY <1>1, <1>2, CoverCall DEF RInv
<1>3. ASSUME NEW th \in Threads, Run(th) PROVE RInv'
    BY <1>1, <1>3, CoverGrab, CoverOther, CoverFinish DEF Run, RInv
<1>4. CASE Return
    BY <1>1, <1>4, CoverReturn DEF RInv
<1>5. CASE UNCHANGED vars
    BY <1>1, <1>5 DEF vars, locals, RInv, CoverInv, Done, Active, Walks, num_walks
<1> QED
    BY <1>2, <1>3, <1>4, <1>5 DEF Next

(* When a call returns every walk is finished. *)
THEOREM Covered == Spec => []RInv
<1>1. Init => RInv
    BY InitIInv, CoverInit DEF RInv
<1> QED
    BY <1>1, CoverKeeps, PTL DEF Spec

-----------------------------------------------------------------------------
(* The refinement mapping. *)

InStep(th, w) == pc[th] = "step" /\ i[th] = w

(* How long a walk is: in the thread that has it, or as it was stored. *)
Lengths ==
    \A w \in Walks :
        /\ LengthOf(w) \in 1..max_walk_len
        /\ Done(w) => LengthOf(w) = walk_lens_out[w]
        /\ \A th \in Threads : InStep(th, w) => ~Done(w) /\ LengthOf(w) = walk_len[th]
        /\ ~Done(w) /\ (\A th \in Threads : ~InStep(th, w)) => LengthOf(w) = 1

LEMMA LengthFacts == RInv => Lengths
<1> SUFFICES ASSUME IInv, NEW w \in Walks
             PROVE  /\ LengthOf(w) \in 1..max_walk_len
                    /\ Done(w) => LengthOf(w) = walk_lens_out[w]
                    /\ \A th \in Threads : InStep(th, w) =>
                           ~Done(w) /\ LengthOf(w) = walk_len[th]
                    /\ ~Done(w) /\ (\A th \in Threads : ~InStep(th, w)) => LengthOf(w) = 1
    BY DEF RInv, Lengths
<1>0. max_walk_len \in Nat \ {0}
    BY EngineAssumption
<1>1. CASE Done(w)
  <2>1. LengthOf(w) = walk_lens_out[w]
      BY <1>1 DEF LengthOf
  <2>2. \A th \in Threads : ~InStep(th, w)
      BY <1>1, WalkInHand DEF InStep, Active
  <2> QED
      BY <1>1, <2>1, <2>2 DEF IInv, DoneInv
<1>2. ASSUME ~Done(w), NEW th \in Threads, InStep(th, w)
      PROVE  LengthOf(w) = walk_len[th]
  <2>1. \A b \in Threads : InStep(b, w) => b = th
      BY <1>2, WalkInHand DEF InStep, Active
  <2>2. (CHOOSE b \in Threads : pc[b] = "step" /\ i[b] = w) = th
      BY <1>2, <2>1 DEF InStep
  <2> QED
      BY <1>2, <2>2 DEF LengthOf, InStep
<1>3. ASSUME NEW th \in Threads, InStep(th, w) PROVE ~Done(w) /\ walk_len[th] \in 1..max_walk_len
  <2>1. ~Done(w)
      BY <1>3, WalkInHand DEF InStep, Active
  <2>2. walk_len[th] >= 1 /\ walk_len[th] \in 0..max_walk_len
      BY <1>3 DEF IInv, InHandInv, InStep, TypeOK
  <2> QED
      BY <1>0, <2>1, <2>2
<1>4. ~Done(w) /\ (\A th \in Threads : ~InStep(th, w)) => LengthOf(w) = 1
    BY DEF LengthOf, InStep
<1> QED
    BY <1>0, <1>1, <1>2, <1>3, <1>4

(* The mapped walks, without the case of an empty start list. *)
Mapped == AbstractWalks = [w \in Walks |-> WalkSoFar(w)]

LEMMA MappedWalks == Mapped
<1>1. CASE starts # <<>>
    BY <1>1 DEF AbstractWalks, Mapped
<1>2. CASE starts = <<>>
  <2>1. Walks = {}
      BY <1>2 DEF Walks, num_walks
  <2>2. <<>> = [w \in {} |-> WalkSoFar(w)]
      OBVIOUS
  <2> QED
      BY <1>2, <2>1, <2>2 DEF AbstractWalks, Mapped
<1> QED
    BY <1>1, <1>2

(* A walk that keeps its length and the cells of its slots is the same. *)
LEMMA SameWalk ==
    ASSUME UNCHANGED starts, NEW w \in Walks, LengthOf(w)' = LengthOf(w),
           LengthOf(w) \in 1..max_walk_len,
           \A k \in 1..LengthOf(w) - 1 :
               walks_out'[Slot(w, k)] = walks_out[Slot(w, k)]
    PROVE  WalkSoFar(w)' = WalkSoFar(w)
<1>1. max_walk_len \in Nat
    BY EngineAssumption
<1> DEFINE n == LengthOf(w)
<1>2. ASSUME NEW k \in 1..n, k # 1 PROVE Cell(w, k - 1)' = Cell(w, k - 1)
  <2>1. k - 1 \in 1..n - 1
      BY <1>1, <1>2
  <2> QED
      BY <2>1 DEF Cell
<1> QED
    BY <1>2 DEF WalkSoFar

(* A step that changes no walk is a stutter. *)
LEMMA Stutter ==
    ASSUME UNCHANGED starts,
           \A w \in Walks : WalkSoFar(w)' = WalkSoFar(w) /\ (Done(w)' <=> Done(w))
    PROVE  UNCHANGED <<AbstractWalks, {w \in Walks : Done(w)}>>
<1>1. Walks' = Walks
    BY DEF Walks, num_walks
<1>2. Mapped /\ Mapped'
    BY MappedWalks, PTL
<1>3. AbstractWalks' = AbstractWalks
    BY <1>1, <1>2 DEF Mapped
<1>4. {w \in Walks : Done(w)}' = {w \in Walks : Done(w)}
    BY <1>1
<1> QED
    BY <1>3, <1>4

LEMMA SameLength ==
    ASSUME Lengths, Lengths', NEW w \in Walks, Walks' = Walks,
           walk_lens_out'[w] = walk_lens_out[w],
           \A th \in Threads : /\ InStep(th, w)' <=> InStep(th, w)
                               /\ InStep(th, w) => walk_len'[th] = walk_len[th]
    PROVE  /\ LengthOf(w)' = LengthOf(w) /\ (Done(w)' <=> Done(w))
           /\ LengthOf(w) \in 1..max_walk_len
<1>1. Done(w)' <=> Done(w)
    BY DEF Done
<1>2. CASE Done(w)
    BY <1>1, <1>2 DEF Lengths
<1>3. CASE \E th \in Threads : InStep(th, w)
    BY <1>3 DEF Lengths
<1>4. CASE ~Done(w) /\ \A th \in Threads : ~InStep(th, w)
    BY <1>1, <1>4 DEF Lengths
<1>5. LengthOf(w) \in 1..max_walk_len
    BY DEF Lengths
<1> QED
    BY <1>1, <1>2, <1>3, <1>4, <1>5

Shown == <<AbstractWalks, {w \in Walks : Done(w)}>>

(* The schedule and the reduction do not show. *)
LEMMA QuietSteps ==
    ASSUME RInv, RInv',
           Return \/ \E th \in Threads : GrabChunk(th) \/ NoMoreChunks(th) \/ Reduce(th)
    PROVE  UNCHANGED Shown
<1>1. UNCHANGED <<starts, walks_out, walk_lens_out>>
    BY DEF Return, GrabChunk, NoMoreChunks, Reduce
<1>2. Walks' = Walks
    BY <1>1 DEF Walks, num_walks
<1>3. Lengths /\ Lengths'
    BY LengthFacts, PTL
<1>4. ASSUME NEW th \in Threads, NEW w \in Walks
      PROVE  /\ InStep(th, w)' <=> InStep(th, w)
             /\ InStep(th, w) => walk_len'[th] = walk_len[th]
  <2>1. /\ pc \in [Threads -> {"grab", "begin", "step", "reduce", "done"}]
        /\ i \in [Threads -> Nat]
      BY DEF RInv, IInv, TypeOK
  <2>2. CASE Return
      BY <2>2 DEF Return, InStep
  <2>3. ASSUME NEW a \in Threads, GrabChunk(a) \/ NoMoreChunks(a) \/ Reduce(a)
        PROVE  /\ InStep(th, w)' <=> InStep(th, w)
               /\ walk_len' = walk_len
    <3>1. pc'[a] # "step" /\ pc[a] # "step"
        BY <2>1, <2>3 DEF GrabChunk, NoMoreChunks, Reduce
    <3>2. th # a => pc'[th] = pc[th] /\ i'[th] = i[th]
        BY <2>1, <2>3 DEF GrabChunk, NoMoreChunks, Reduce
    <3>3. walk_len' = walk_len
        BY <2>3 DEF GrabChunk, NoMoreChunks, Reduce
    <3> QED
        BY <3>1, <3>2, <3>3 DEF InStep
  <2> QED
      BY <2>2, <2>3
<1>5. ASSUME NEW w \in Walks
      PROVE  WalkSoFar(w)' = WalkSoFar(w) /\ (Done(w)' <=> Done(w))
  <2>1. /\ LengthOf(w)' = LengthOf(w) /\ (Done(w)' <=> Done(w))
        /\ LengthOf(w) \in 1..max_walk_len
      BY <1>1, <1>2, <1>3, <1>4, SameLength
  <2> QED
      BY <1>1, <2>1, SameWalk
<1> QED
    BY <1>1, <1>5, Stutter DEF Shown

(* A step of thread th leaves the walks it does not have in hand alone. *)
LEMMA OtherWalks ==
    ASSUME RInv, RInv', NEW th \in Threads,
           BeginWalk(th) \/ TakeStep(th) \/ FinishWalk(th),
           NEW w \in Walks, w # i[th]
    PROVE  WalkSoFar(w)' = WalkSoFar(w) /\ (Done(w)' <=> Done(w))
<1>0. /\ max_walk_len \in Nat \ {0} /\ TypeOK /\ IInv
      /\ pc \in [Threads -> {"grab", "begin", "step", "reduce", "done"}]
      /\ i \in [Threads -> Nat]
    BY EngineAssumption DEF RInv, IInv, TypeOK
<1>1. UNCHANGED starts /\ Walks' = Walks
    BY DEF BeginWalk, TakeStep, FinishWalk, Walks, num_walks
<1>2. Active(th) /\ i[th] \in Walks /\ i[th] \in Nat
    BY <1>0, WalkInHand DEF Active, BeginWalk, TakeStep, FinishWalk
<1>3. walk_lens_out'[w] = walk_lens_out[w]
    BY <1>0 DEF BeginWalk, TakeStep, FinishWalk, TypeOK
<1>4. ASSUME NEW b \in Threads
      PROVE  /\ InStep(b, w)' <=> InStep(b, w)
             /\ InStep(b, w) => walk_len'[b] = walk_len[b]
  <2>1. CASE b # th
    <3>1. pc'[b] = pc[b] /\ i'[b] = i[b] /\ walk_len'[b] = walk_len[b]
        BY <1>0, <2>1 DEF BeginWalk, TakeStep, FinishWalk, TypeOK
    <3> QED
        BY <3>1 DEF InStep
  <2>2. CASE b = th
    <3>1. ~InStep(b, w)
        BY <2>2 DEF InStep
    <3>2. BeginWalk(th) \/ TakeStep(th) => i' = i
        BY DEF BeginWalk, TakeStep
    <3>3. FinishWalk(th) => pc'[th] # "step"
        BY <1>0 DEF FinishWalk
    <3> QED
        BY <2>2, <3>1, <3>2, <3>3 DEF InStep
  <2> QED
      BY <2>1, <2>2
<1>5. ASSUME NEW r \in 0..max_walk_len - 1
      PROVE  walks_out'[Slot(w, r)] = walks_out[Slot(w, r)]
  <2>1. ASSUME NEW c \in 0..max_walk_len - 1 PROVE Slot(i[th], c) # Slot(w, r)
      BY <1>0, <1>2, OwnSlots
  <2>2. CASE BeginWalk(th)
    <3>1. 0 \in 0..max_walk_len - 1
        BY <1>0
    <3> QED
        BY <2>1, <2>2, <3>1 DEF BeginWalk
  <2>3. CASE TakeStep(th)
    <3>1. walk_len[th] \in 0..max_walk_len - 1
        BY <1>0, <2>3 DEF TypeOK, TakeStep
    <3> QED
        BY <2>1, <2>3, <3>1 DEF TakeStep
  <2>4. CASE FinishWalk(th)
    <3>1. walk_len[th] \in 0..max_walk_len /\ w \in Nat
        BY <1>0 DEF TypeOK, Walks, num_walks
    <3>2. Slot(w, r) \notin Slot(i[th], walk_len[th])..Slot(i[th], max_walk_len - 1)
        BY <1>2, <3>1, TailCells
    <3>3. Slot(w, r) \in DOMAIN walks_out
        BY <1>0, <1>2, OwnSlots
    <3> QED
        BY <2>4, <3>2, <3>3 DEF FinishWalk
  <2> QED
      BY <2>2, <2>3, <2>4
<1>6. Lengths /\ Lengths'
    BY LengthFacts, PTL
<1>7. /\ LengthOf(w)' = LengthOf(w) /\ (Done(w)' <=> Done(w))
      /\ LengthOf(w) \in 1..max_walk_len
    BY <1>1, <1>3, <1>4, <1>6, SameLength
<1>8. \A k \in 1..LengthOf(w) - 1 : walks_out'[Slot(w, k)] = walks_out[Slot(w, k)]
    BY <1>0, <1>5, <1>7
<1> QED
    BY <1>1, <1>7, <1>8, SameWalk

(* Slot 0 is in the abstract walk from the start. *)
LEMMA BeginStep ==
    ASSUME RInv, RInv', NEW th \in Threads, BeginWalk(th)
    PROVE  UNCHANGED Shown
<1>0. Lengths /\ Lengths'
    BY LengthFacts, PTL
<1>1. UNCHANGED starts /\ Walks' = Walks /\ walk_lens_out' = walk_lens_out
    BY DEF BeginWalk, Walks, num_walks
<1>2. ASSUME NEW w \in Walks, w = i[th]
      PROVE  WalkSoFar(w)' = WalkSoFar(w) /\ (Done(w)' <=> Done(w))
  <2>1. ~Done(w) /\ \A b \in Threads : ~InStep(b, w)
      BY <1>2, WalkInHand DEF RInv, BeginWalk, InStep, Active
  <2>2. LengthOf(w) = 1
      BY <1>0, <2>1 DEF Lengths
  <2>3. InStep(th, w)' /\ walk_len'[th] = 1
      BY <1>2 DEF BeginWalk, InStep, RInv, IInv, TypeOK
  <2>4. LengthOf(w)' = 1
      BY <1>0, <1>1, <2>3 DEF Lengths
  <2>5. WalkSoFar(w)' = WalkSoFar(w)
      BY <1>1, <2>2, <2>4 DEF WalkSoFar
  <2> QED
      BY <1>1, <2>1, <2>5 DEF Done
<1> QED
    BY <1>1, <1>2, OtherWalks, Stutter DEF Shown

(* Appending to a sequence given as a function. *)
LEMMA AppendPointwise ==
    ASSUME NEW n \in Nat, NEW f, f = [j \in 1..n |-> f[j]], NEW e
    PROVE  Append(f, e) = [j \in 1..(n + 1) |-> IF j = n + 1 THEN e ELSE f[j]]
<1> DEFINE S == {f[j] : j \in 1..n} \cup {e}
<1>1. f \in [1..n -> S]
    OBVIOUS
<1>2. e \in S
    OBVIOUS
<1> HIDE DEF S
<1>3. f \in Seq(S) /\ Len(f) = n
  <2>1. f \in Seq(S)
    BY <1>1, SeqDef
  <2>2. DOMAIN f = 1..n
    BY <1>1
  <2> QED
    BY <2>1, <2>2
<1>4. /\ Append(f, e) \in Seq(S) /\ Len(Append(f, e)) = n + 1
      /\ Append(f, e)[n + 1] = e
      /\ \A j \in 1..n : Append(f, e)[j] = f[j]
    BY <1>2, <1>3, AppendProperties
<1> DEFINE g == Append(f, e)
<1>5. g = [j \in 1..(n + 1) |-> g[j]]
    BY <1>4
<1> HIDE DEF g
<1>6. \A j \in 1..(n + 1) : g[j] = IF j = n + 1 THEN e ELSE f[j]
    BY <1>4 DEF g
<1> QED
    BY <1>5, <1>6 DEF g

(* A hop extends the walk in hand by an older entry of its last vertex. *)
LEMMA HopExtends ==
    ASSUME RInv, RInv', NEW th \in Threads, TakeStep(th)
    PROVE  TemporalWalk!Next
<1>0. /\ max_walk_len \in Nat \ {0} /\ TypeOK /\ IInv /\ Lengths /\ Lengths'
      /\ Mapped /\ Mapped'
    BY EngineAssumption, LengthFacts, MappedWalks, PTL DEF RInv, IInv
<1>1. UNCHANGED starts /\ Walks' = Walks /\ walk_lens_out' = walk_lens_out
    BY DEF TakeStep, Walks, num_walks
<1>2. Active(th)
    BY DEF TakeStep, Active
<1> PICK w \in Walks : w = i[th]
    BY <1>0, <1>2, WalkInHand
<1> PICK n \in Nat : n = walk_len[th]
    BY <1>0 DEF TypeOK
<1>3. w \in Nat /\ ~Done(w)
    BY <1>0, <1>2, WalkInHand
<1>4. /\ n \in 1..max_walk_len - 1 /\ u[th] \in Vertices
      /\ Cell(w, n - 1) = [v |-> u[th], t |-> t_prev[th]]
      /\ Follows(w, n) /\ n < max_walk_len
  <2>1. /\ walk_len[th] >= 1 /\ u[th] \in Vertices
        /\ Cell(w, n - 1) = [v |-> u[th], t |-> t_prev[th]]
        /\ Follows(w, n)
      BY <1>0 DEF IInv, InHandInv, TakeStep
  <2>2. walk_len[th] < max_walk_len
      BY DEF TakeStep
  <2> QED
      BY <1>0, <2>1, <2>2
<1>5. LengthOf(w) = n
    BY <1>0 DEF Lengths, InStep, TakeStep
<1>6. LengthOf(w)' = n + 1
  <2>1. InStep(th, w)' /\ walk_len'[th] = n + 1
      BY <1>0 DEF TakeStep, InStep, TypeOK
  <2> QED
      BY <1>0, <1>1, <2>1 DEF Lengths
<1>7. PICK k \in 1..Len(Adj[u[th]]) :
          NextSample(th) = Adj[u[th]][k] /\ Adj[u[th]][k].t < t_prev[th]
  <2>1. /\ NextSample(th) = Sample(u[th], t_prev[th], seed[i[th]][walk_len[th]])
        /\ seed[i[th]][walk_len[th]] \in Picks
        /\ u[th] \in Vertices /\ t_prev[th] \in Int
      BY <1>0, SampleInHand DEF TakeStep
  <2>2. NextSample(th).v # kWalkDeadSentinel
      BY DEF TakeStep
  <2>3. DeadStep.v = kWalkDeadSentinel
      BY DEF DeadStep
  <2> QED
      BY <2>1, <2>2, <2>3, SampleResult
<1>8. \A r \in 0..max_walk_len - 1 :
          walks_out'[Slot(w, r)] = IF r = n THEN NextSample(th) ELSE walks_out[Slot(w, r)]
  <2>1. n \in 0..max_walk_len - 1
      BY <1>0, <1>4
  <2>2. walks_out' = [walks_out EXCEPT ![Slot(w, n)] = NextSample(th)]
      BY DEF TakeStep
  <2>3. \A r \in 0..max_walk_len - 1 :
            /\ Slot(w, r) \in DOMAIN walks_out
            /\ Slot(w, r) = Slot(w, n) => r = n
      BY <1>0, <2>1, OwnSlots
  <2> QED
      BY <2>2, <2>3
<1> DEFINE first == [v |-> starts[w + 1], t |-> kSentinelStartTimestamp]
           before == WalkSoFar(w)
           after == WalkSoFar(w)'
           entry == Adj[u[th]][k]
<1>9. /\ before = [j \in 1..n |-> IF j = 1 THEN first ELSE Cell(w, j - 1)]
      /\ Len(before) = n /\ before[n] = [v |-> u[th], t |-> t_prev[th]]
  <2>1. before = [j \in 1..n |-> IF j = 1 THEN first ELSE Cell(w, j - 1)]
      BY <1>5 DEF WalkSoFar
  <2>2. n = 1 => Cell(w, n - 1) = first
      BY <1>4 DEF Follows
  <2> HIDE DEF before
  <2> QED
      BY <1>4, <2>1, <2>2
<1>10. after = Append(before, entry)
  <2>1. after = [j \in 1..(n + 1) |-> IF j = 1 THEN first ELSE Cell(w, j - 1)']
      BY <1>1, <1>6 DEF WalkSoFar
  <2>2. \A j \in 1..n : j # 1 => Cell(w, j - 1)' = Cell(w, j - 1)
    <3> SUFFICES ASSUME NEW j \in 1..n, j # 1 PROVE Cell(w, j - 1)' = Cell(w, j - 1)
        OBVIOUS
    <3>1. j - 1 \in 0..max_walk_len - 1 /\ j - 1 # n
        BY <1>0, <1>4
    <3> QED
        BY <1>8, <3>1 DEF Cell
  <2>3. Cell(w, n)' = entry
    <3>1. n \in 0..max_walk_len - 1
        BY <1>0, <1>4
    <3> QED
        BY <1>7, <1>8, <3>1 DEF Cell
  <2> HIDE DEF after, before, entry, first
  <2>4. Append(before, entry) = [j \in 1..(n + 1) |-> IF j = n + 1 THEN entry ELSE before[j]]
    <3>1. before = [j \in 1..n |-> before[j]]
        BY <1>9
    <3> QED
        BY <1>4, <3>1, AppendPointwise
  <2>5. \A j \in 1..(n + 1) :
            (IF j = 1 THEN first ELSE Cell(w, j - 1)')
                = IF j = n + 1 THEN entry ELSE before[j]
    <3> SUFFICES ASSUME NEW j \in 1..(n + 1)
                 PROVE  (IF j = 1 THEN first ELSE Cell(w, j - 1)')
                            = IF j = n + 1 THEN entry ELSE before[j]
        OBVIOUS
    <3>1. CASE j = n + 1
      <4>1. j # 1 /\ j - 1 = n
          BY <1>4, <3>1
      <4> QED
          BY <2>3, <3>1, <4>1
    <3>2. CASE j # n + 1
      <4>1. j \in 1..n
          BY <3>2
      <4> QED
          BY <1>9, <2>2, <3>2, <4>1
    <3> QED
        BY <3>1, <3>2
  <2> QED
      BY <2>1, <2>4, <2>5
<1>11. AbstractWalks' = [AbstractWalks EXCEPT ![w] = Append(@, entry)]
  <2>1. AbstractWalks = [y \in Walks |-> WalkSoFar(y)]
      BY <1>0 DEF Mapped
  <2>2. AbstractWalks' = [y \in Walks |-> WalkSoFar(y)']
      BY <1>0, <1>1 DEF Mapped
  <2>3. \A y \in Walks : y # w => WalkSoFar(y)' = WalkSoFar(y)
      BY OtherWalks
  <2>4. WalkSoFar(w)' = Append(WalkSoFar(w), entry)
      BY <1>10
  <2> HIDE DEF entry
  <2> QED
      BY <2>1, <2>2, <2>3, <2>4
<1>12. {y \in Walks : Done(y)}' = {y \in Walks : Done(y)}
    BY <1>1 DEF Done
<1>13. AbstractWalks[w] = before /\ w \in DOMAIN AbstractWalks
    BY <1>0 DEF Mapped
<1>14. TemporalWalk!Extend(w)
  <2>1. w \notin {y \in Walks : Done(y)} /\ Len(AbstractWalks[w]) < max_walk_len
      BY <1>3, <1>4, <1>9, <1>13
  <2>2. AbstractWalks[w][Len(AbstractWalks[w])] = [v |-> u[th], t |-> t_prev[th]]
      BY <1>9, <1>13
  <2>3. k \in TemporalWalk!Gamma(u[th], t_prev[th])
      BY <1>7 DEF TemporalWalk!Gamma
  <2> DEFINE walks == AbstractWalks
             end == AbstractWalks[w][Len(AbstractWalks[w])]
  <2>4. end.v = u[th] /\ end.t = t_prev[th]
      BY <2>2
  <2> HIDE DEF entry
  <2>5. /\ k \in TemporalWalk!Gamma(end.v, end.t)
        /\ AbstractWalks' = [AbstractWalks EXCEPT ![w] = Append(@, Adj[end.v][k])]
      BY <1>11, <2>3, <2>4 DEF entry
  <2> QED
      BY <1>12, <2>1, <2>5, Zenon DEF TemporalWalk!Extend
<1> QED
    BY <1>13, <1>14 DEF TemporalWalk!Next

(* Storing the length of a walk finishes it. *)
LEMMA StoreFinishes ==
    ASSUME RInv, RInv', NEW th \in Threads, FinishWalk(th)
    PROVE  TemporalWalk!Next
<1>0. /\ max_walk_len \in Nat \ {0} /\ TypeOK /\ IInv /\ Lengths /\ Lengths'
      /\ Mapped /\ Mapped'
    BY EngineAssumption, LengthFacts, MappedWalks, PTL DEF RInv, IInv
<1>1. UNCHANGED starts /\ Walks' = Walks
    BY DEF FinishWalk, Walks, num_walks
<1>2. Active(th) /\ pc[th] = "step"
    BY DEF FinishWalk, Active
<1> PICK w \in Walks : w = i[th]
    BY <1>0, <1>2, WalkInHand
<1>3. w \in Nat /\ ~Done(w)
    BY <1>0, <1>2, WalkInHand
<1>4. LengthOf(w) = walk_len[th] /\ walk_len[th] \in 1..max_walk_len
    BY <1>0, <1>2 DEF Lengths, InStep
<1>5. walk_lens_out'[w] = walk_len[th]
    BY <1>0 DEF FinishWalk, TypeOK
<1>6. Done(w)'
    BY <1>4, <1>5 DEF Done
<1>7. LengthOf(w)' = walk_len[th]
    BY <1>0, <1>1, <1>5, <1>6 DEF Lengths
<1>8. WalkSoFar(w)' = WalkSoFar(w)
  <2>1. ASSUME NEW r \in 1..LengthOf(w) - 1
        PROVE  walks_out'[Slot(w, r)] = walks_out[Slot(w, r)]
    <3>1. r \in 0..max_walk_len - 1 /\ ~(walk_len[th] <= r) /\ walk_len[th] \in 0..max_walk_len
        BY <1>0, <1>4
    <3>2. Slot(w, r) \notin Slot(w, walk_len[th])..Slot(w, max_walk_len - 1)
        BY <1>3, <3>1, TailCells
    <3>3. Slot(w, r) \in DOMAIN walks_out
        BY <1>0, <3>1, OwnSlots
    <3> QED
        BY <3>2, <3>3 DEF FinishWalk
  <2>2. LengthOf(w) \in 1..max_walk_len /\ LengthOf(w)' = LengthOf(w)
      BY <1>4, <1>7
  <2> QED
      BY <1>1, <2>1, <2>2, SameWalk
<1>9. \A y \in Walks : y # w => WalkSoFar(y)' = WalkSoFar(y) /\ (Done(y)' <=> Done(y))
    BY OtherWalks
<1>10. AbstractWalks' = AbstractWalks /\ w \in DOMAIN AbstractWalks
    BY <1>0, <1>1, <1>8, <1>9 DEF Mapped
<1>11. {y \in Walks : Done(y)}' = {y \in Walks : Done(y)} \cup {w}
    BY <1>1, <1>3, <1>6, <1>9
<1>12. TemporalWalk!Finish(w)
    BY <1>3, <1>10, <1>11 DEF TemporalWalk!Finish
<1> QED
    BY <1>10, <1>12 DEF TemporalWalk!Next

(* A call finds every walk of the last one finished, and starts new ones. *)
LEMMA CallStarts ==
    ASSUME RInv, RInv', Call
    PROVE  TemporalWalk!Next
<1>0. Lengths' /\ Mapped /\ Mapped'
    BY LengthFacts, MappedWalks, PTL
<1>1. /\ ~running /\ starts' \in StartLists
      /\ \A th \in Threads : pc'[th] = "grab"
      /\ walk_lens_out' = [w \in 0..Len(starts') - 1 |-> 0]
      /\ Walks' = 0..Len(starts') - 1
    BY DEF Call, Walks, num_walks
<1>2. \A w \in Walks' : ~Done(w)'
    BY <1>1 DEF Done
<1>3. ASSUME NEW w \in Walks' PROVE LengthOf(w)' = 1
  <2>1. \A th \in Threads : ~InStep(th, w)'
      BY <1>1 DEF InStep
  <2> QED
      BY <1>0, <1>2, <2>1 DEF Lengths
<1>4. \A w \in Walks' : WalkSoFar(w)' =
          <<[v |-> starts'[w + 1], t |-> kSentinelStartTimestamp]>>
    BY <1>3 DEF WalkSoFar
<1>5. AbstractWalks' = [w \in 0..Len(starts') - 1 |->
          <<[v |-> starts'[w + 1], t |-> kSentinelStartTimestamp]>>]
    BY <1>0, <1>1, <1>4 DEF Mapped
<1>6. {w \in Walks : Done(w)}' = {}
    BY <1>2
<1>7. {w \in Walks : Done(w)} = DOMAIN AbstractWalks
  <2>1. {w \in Walks : Done(w)} = Walks
      BY <1>1 DEF RInv, CoverInv
  <2> QED
      BY <1>0, <2>1 DEF Mapped
<1>8. TemporalWalk!Call
    BY <1>1, <1>5, <1>6, <1>7 DEF TemporalWalk!Call
<1> QED
    BY <1>8 DEF TemporalWalk!Next

-----------------------------------------------------------------------------
(* The engine implements TemporalWalk: whatever the team does, a caller    *)
(* sees walks that begin at their start vertex and grow by one strictly    *)
(* older entry at a time, and that stay as they are once they are stored.  *)
THEOREM Refinement == Spec => ImplementsTemporalWalk
<1>1. Init => TemporalWalk!Init
  <2> SUFFICES ASSUME Init PROVE TemporalWalk!Init
      OBVIOUS
  <2>1. starts = <<>> /\ Walks = {}
      BY DEF Init, Walks, num_walks
  <2> QED
      BY <2>1 DEF TemporalWalk!Init, AbstractWalks
<1>2. RInv /\ RInv' /\ [Next]_vars => [TemporalWalk!Next]_TemporalWalk!vars
  <2> SUFFICES ASSUME RInv, RInv', [Next]_vars
               PROVE  TemporalWalk!Next \/ UNCHANGED Shown
      BY DEF TemporalWalk!vars, Shown
  <2>1. CASE Call
      BY <2>1, CallStarts
  <2>2. CASE Return
      BY <2>2, QuietSteps
  <2>3. ASSUME NEW th \in Threads, Run(th) PROVE TemporalWalk!Next \/ UNCHANGED Shown
      BY <2>3, QuietSteps, BeginStep, HopExtends, StoreFinishes DEF Run
  <2>4. CASE UNCHANGED vars
    <3>1. UNCHANGED <<starts, walks_out, walk_lens_out, walk_len, pc, i>>
        BY <2>4 DEF vars, locals
    <3>2. Walks' = Walks /\ \A w \in Walks : Done(w)' = Done(w)
        BY <3>1 DEF Walks, num_walks, Done
    <3>3. \A w \in Walks : WalkSoFar(w)' = WalkSoFar(w)
        BY <3>1, <3>2 DEF WalkSoFar, LengthOf, Cell, Done
    <3> QED
        BY <3>1, <3>2, <3>3, Stutter DEF Shown
  <2> QED
      BY <2>1, <2>2, <2>3, <2>4 DEF Next
<1> QED
    BY <1>1, <1>2, Covered, PTL DEF Spec, ImplementsTemporalWalk, TemporalWalk!Spec
-----------------------------------------------------------------------------
(* The counts of the threads, the total and the lengths that are stored.    *)

(* What a thread has counted and not yet added to the total. *)
Pending == [th \in Threads |-> IF pc[th] = "done" THEN 0 ELSE steps_local[th]]

TotalInv ==
    /\ ~running => \A th \in Threads : steps_local[th] = 0
    /\ running => total_steps + SumFunctionOnSet(Pending, Threads)
                      = SumFunctionOnSet(walk_lens_out, Walks)
    /\ ~running =>
           /\ stats.num_walks = num_walks
           /\ stats.total_steps = SumFunctionOnSet(walk_lens_out, Walks)
           /\ stats.dead_at_start = Cardinality({w \in Walks : walk_lens_out[w] <= 1})

LEMMA WalksFinite == TypeOK => IsFiniteSet(Walks)
<1> SUFFICES ASSUME TypeOK PROVE IsFiniteSet(Walks)
    OBVIOUS
<1>1. num_walks - 1 \in Int
    BY DEF TypeOK, num_walks
<1> QED
    BY <1>1, FS_Interval DEF Walks

LEMMA TotalInit == Init => TotalInv
<1> SUFFICES ASSUME Init PROVE TotalInv
    OBVIOUS
<1>1. num_walks = 0 /\ Walks = {} /\ ~running /\ stats = NoStats
      /\ \A th \in Threads : steps_local[th] = 0
    BY DEF Init, num_walks, Walks, Zero
<1>2. SumFunctionOnSet(walk_lens_out, Walks) = 0
    BY <1>1, SumEmpty
<1>3. {w \in Walks : walk_lens_out[w] <= 1} = {} /\ Cardinality({}) = 0
    BY <1>1, FS_EmptySet
<1> QED
    BY <1>1, <1>2, <1>3 DEF TotalInv, NoStats

LEMMA TotalCall ==
    ASSUME IsFiniteSet(Threads), IInv', TotalInv, Call PROVE TotalInv'
<1>1. /\ ~running /\ running' /\ total_steps' = 0 /\ steps_local' = steps_local
      /\ \A w \in Walks' : walk_lens_out'[w] = 0
    BY DEF Call, Walks, num_walks
<1>2. \A th \in Threads : Pending'[th] = 0
    BY <1>1 DEF TotalInv, Pending
<1>3. SumFunctionOnSet(Pending', Threads) = 0
    BY <1>2, SumZero
<1>4. SumFunctionOnSet(walk_lens_out', Walks') = 0
  <2>0. TypeOK'
      BY DEF IInv
  <2>1. IsFiniteSet(Walks)'
      BY <2>0, WalksFinite, PTL
  <2> QED
      BY <1>1, <2>1, SumZero
<1> QED
    BY <1>1, <1>3, <1>4 DEF TotalInv

LEMMA TotalReturn ==
    ASSUME IsFiniteSet(Threads), TypeOK, TotalInv, Return PROVE TotalInv'
<1>1. /\ running /\ ~running' /\ \A th \in Threads : pc[th] = "done"
      /\ steps_local' = Zero /\ UNCHANGED <<starts, walk_lens_out>>
      /\ stats' = [num_walks |-> num_walks, total_steps |-> total_steps,
                   dead_at_start |-> Cardinality({w \in Walks : walk_lens_out[w] <= 1})]
    BY DEF Return
<1>2. Walks' = Walks /\ num_walks' = num_walks
    BY <1>1 DEF Walks, num_walks
<1>3. \A th \in Threads : Pending[th] = 0
    BY <1>1 DEF Pending
<1>4. SumFunctionOnSet(Pending, Threads) = 0
    BY <1>3, SumZero
<1>5. SumFunctionOnSet(walk_lens_out, Walks) = total_steps
    BY <1>1, <1>4 DEF TotalInv, TypeOK
<1> QED
    BY <1>1, <1>2, <1>5 DEF TotalInv, Zero

(* Steps that neither store a length nor count. *)
LEMMA TotalOther ==
    ASSUME TypeOK, TotalInv, running, NEW th \in Threads,
           GrabChunk(th) \/ NoMoreChunks(th) \/ BeginWalk(th) \/ TakeStep(th)
    PROVE  TotalInv'
<1>1. UNCHANGED <<running, starts, walk_lens_out, steps_local, total_steps>>
    BY DEF GrabChunk, NoMoreChunks, BeginWalk, TakeStep
<1>2. \A a \in Threads : pc'[a] = "done" <=> pc[a] = "done"
    BY DEF GrabChunk, NoMoreChunks, BeginWalk, TakeStep, TypeOK
<1>3. Pending' = Pending
    BY <1>1, <1>2 DEF Pending
<1> QED
    BY <1>1, <1>3 DEF TotalInv, Walks, num_walks

LEMMA TotalReduce ==
    ASSUME IsFiniteSet(Threads), TypeOK, TotalInv, running, NEW th \in Threads, Reduce(th)
    PROVE  TotalInv'
<1>1. /\ pc[th] = "reduce" /\ pc' = [pc EXCEPT ![th] = "done"]
      /\ total_steps' = total_steps + steps_local[th]
      /\ UNCHANGED <<running, starts, walk_lens_out, steps_local>>
    BY DEF Reduce
<1>2. /\ total_steps \in Nat /\ pc \in [Threads -> {"grab", "begin", "step", "reduce", "done"}]
      /\ steps_local \in [Threads -> Nat]
    BY DEF TypeOK
<1>3. /\ \A a \in Threads : Pending[a] \in Int /\ Pending'[a] \in Int
      /\ \A a \in Threads : a # th => Pending'[a] = Pending[a]
      /\ Pending'[th] = 0 /\ Pending[th] = steps_local[th]
    BY <1>1, <1>2 DEF Pending
<1> DEFINE before == SumFunctionOnSet(Pending, Threads)
           after == SumFunctionOnSet(Pending', Threads)
<1>4. after = before + (Pending'[th] - Pending[th])
    BY <1>3, SumUpdate
<1>5. before \in Int
    BY <1>3, SumInt
<1>6. total_steps' + after = total_steps + before
  <2> HIDE DEF before, after
  <2>1. steps_local[th] \in Nat
      BY <1>2
  <2> QED
      BY <1>1, <1>2, <1>3, <1>4, <1>5, <2>1
<1> QED
    BY <1>1, <1>6 DEF TotalInv, Walks, num_walks

LEMMA TotalFinish ==
    ASSUME IsFiniteSet(Threads), IInv, TotalInv, running, NEW th \in Threads, FinishWalk(th)
    PROVE  TotalInv'
<1>1. /\ pc[th] = "step"
      /\ pc' = [pc EXCEPT ![th] = IF MoreInChunk(th) THEN "begin" ELSE "grab"]
      /\ walk_lens_out' = [walk_lens_out EXCEPT ![i[th]] = walk_len[th]]
      /\ steps_local' = [steps_local EXCEPT ![th] = @ + walk_len[th]]
      /\ UNCHANGED <<running, starts, total_steps>>
    BY DEF FinishWalk
<1>2. /\ total_steps \in Nat /\ pc \in [Threads -> {"grab", "begin", "step", "reduce", "done"}]
      /\ steps_local \in [Threads -> Nat] /\ walk_lens_out \in [Walks -> Nat]
      /\ walk_len[th] \in Nat
    BY SMTT(30), EngineAssumption DEF IInv, TypeOK
<1>3. i[th] \in Walks /\ ~Done(i[th])
    BY <1>1, WalkInHand DEF Active
<1> PICK w \in Walks : w = i[th]
    BY <1>3
<1> PICK k \in Nat : k = walk_len[th]
    BY <1>2
<1>4. /\ \A a \in Threads : Pending[a] \in Int /\ Pending'[a] \in Int
      /\ \A a \in Threads : a # th => Pending'[a] = Pending[a]
      /\ Pending[th] \in Nat /\ Pending'[th] = Pending[th] + k
    BY <1>1, <1>2 DEF Pending
<1>5. /\ \A y \in Walks : walk_lens_out[y] \in Int /\ walk_lens_out'[y] \in Int
      /\ \A y \in Walks : y # w => walk_lens_out'[y] = walk_lens_out[y]
      /\ walk_lens_out[w] = 0 /\ walk_lens_out'[w] = k
    BY <1>1, <1>2, <1>3 DEF Done
<1> DEFINE before == SumFunctionOnSet(Pending, Threads)
           after == SumFunctionOnSet(Pending', Threads)
           stored == SumFunctionOnSet(walk_lens_out, Walks)
           stored_after == SumFunctionOnSet(walk_lens_out', Walks)
<1>6. after = before + (Pending'[th] - Pending[th])
    BY <1>4, SumUpdate
<1>7. stored_after = stored + (walk_lens_out'[w] - walk_lens_out[w])
  <2>1. IsFiniteSet(Walks)
      BY WalksFinite DEF IInv
  <2> DEFINE f == walk_lens_out
             g == walk_lens_out'
  <2>2. /\ \A y \in Walks : f[y] \in Int /\ g[y] \in Int
        /\ \A y \in Walks : y # w => g[y] = f[y]
      BY <1>5
  <2> HIDE DEF f, g
  <2>3. SumFunctionOnSet(g, Walks) = SumFunctionOnSet(f, Walks) + (g[w] - f[w])
      BY <2>1, <2>2, SumUpdate
  <2> QED
      BY <2>3 DEF f, g
<1>8. before \in Int /\ total_steps + before = stored
    BY <1>4, SumInt DEF TotalInv
<1>9. total_steps' + after = stored_after
  <2> HIDE DEF before, after, stored, stored_after
  <2>1. after = before + k
      BY <1>4, <1>6, <1>8
  <2>2. stored_after = stored + k
      BY <1>2, <1>5, <1>7, <1>8
  <2> QED
      BY <1>1, <1>2, <1>8, <2>1, <2>2
<1> QED
    BY <1>1, <1>9 DEF TotalInv, Walks, num_walks

LEMMA TotalKeeps ==
    ASSUME IsFiniteSet(Threads)
    PROVE  IInv /\ IInv' /\ TotalInv /\ [Next]_vars => TotalInv'
<1> SUFFICES ASSUME IInv, IInv', TotalInv, [Next]_vars PROVE TotalInv'
    OBVIOUS
<1>1. CASE Call
    BY <1>1, TotalCall
<1>2. CASE Return
    BY <1>2, TotalReturn DEF IInv
<1>3. ASSUME NEW th \in Threads, Run(th) PROVE TotalInv'
  <2>1. running
      BY <1>3 DEF Run, GrabChunk, NoMoreChunks, BeginWalk, TakeStep, FinishWalk, Reduce,
                  IInv, ScheduleInv
  <2> QED
      BY <1>3, <2>1, TotalOther, TotalReduce, TotalFinish DEF Run, IInv
<1>4. CASE UNCHANGED vars
    BY <1>4 DEF vars, locals, TotalInv, Pending, Walks, num_walks
<1> QED
    BY <1>1, <1>2, <1>3, <1>4 DEF Next

(* The hypotheses of StatsExact: a team of threads is finite, no weight      *)
(* underflows, and a walk may take a hop (with one slot per walk, every walk *)
(* has length 1 and counts as dead at the start).                            *)
StatsAssumption ==
    /\ IsFiniteSet(Threads)
    /\ \A x \in Vertices : Weighted(x) = 1..Len(Adj[x])
    /\ max_walk_len >= 2

(* A finished walk's live slots are the first walk_lens_out[w]. *)
LEMMA LiveSlots ==
    ASSUME IInv, NEW w \in Walks, Done(w), NEW s \in 0..max_walk_len - 1
    PROVE  walks_out[Slot(w, s)].v # kWalkDeadSentinel <=> s < walk_lens_out[w]
<1>1. /\ walk_lens_out[w] \in 1..max_walk_len
      /\ Follows(w, walk_lens_out[w])
      /\ \A k \in walk_lens_out[w]..max_walk_len - 1 : Cell(w, k) = DeadStep
    BY DEF IInv, DoneInv
<1> PICK n \in 1..max_walk_len : n = walk_lens_out[w]
    BY <1>1
<1>2. max_walk_len \in Nat
    BY EngineAssumption
<1>3. kWalkDeadSentinel \notin Vertices
    BY EngineAssumption DEF kWalkDeadSentinel
<1>4. CASE s = 0
  <2>1. w + 1 \in 1..Len(starts) /\ starts \in Seq(Vertices)
      BY DEF IInv, TypeOK, Walks, num_walks
  <2>2. starts[w + 1] \in Vertices
      BY <2>1
  <2>3. Cell(w, 0).v = starts[w + 1]
      BY <1>1 DEF Follows
  <2> QED
      BY <1>2, <1>3, <1>4, <2>2, <2>3 DEF Cell
<1>5. CASE s \in 1..n - 1
  <2>1. Cell(w, s).v \in Vertices
      BY <1>1, <1>5 DEF Follows
  <2> QED
      BY <1>2, <1>3, <1>5, <2>1 DEF Cell
<1>6. CASE s \in n..max_walk_len - 1
  <2>1. Cell(w, s) = DeadStep
      BY <1>1, <1>6
  <2> QED
      BY <1>2, <1>6, <2>1 DEF Cell, DeadStep
<1> QED
    BY <1>2, <1>4, <1>5, <1>6

(* A walk died at its start if and only if its start has no candidate. *)
LEMMA DeadAtStart ==
    ASSUME StatsAssumption, IInv, NEW w \in Walks, Done(w)
    PROVE  walk_lens_out[w] <= 1 <=>
               \A k \in DOMAIN Adj[starts[w + 1]] :
                   Adj[starts[w + 1]][k].t >= kSentinelStartTimestamp
<1> PICK n \in 1..max_walk_len : n = walk_lens_out[w]
    BY DEF IInv, DoneInv
<1> PICK x : x = starts[w + 1]
    OBVIOUS
<1>1. max_walk_len \in Nat /\ max_walk_len >= 2 /\ w \in 0..Len(starts) - 1
      /\ kSentinelStartTimestamp \in Int /\ starts \in Seq(Vertices)
    BY EngineAssumption DEF StatsAssumption, IInv, TypeOK, Walks, num_walks
<1>2. x \in Vertices
    BY <1>1
<1>3. seed[w][1] \in Picks
  <2>1. starts \in StartLists /\ seed \in Seeds
      BY <1>1 DEF IInv, TypeOK, ScheduleInv, num_walks
  <2>2. \A sd \in Seeds, list \in StartLists :
            \A y \in 0..Len(list) - 1, k \in 1..max_walk_len - 1 : sd[y][k] \in Picks
      BY EngineAssumption
  <2>3. 1 \in 1..max_walk_len - 1
      BY <1>1
  <2> QED
      BY <1>1, <2>1, <2>2, <2>3, Zenon
<1>4. Cell(w, 0) = [v |-> x, t |-> kSentinelStartTimestamp] /\ Follows(w, n)
    BY DEF IInv, DoneInv, Follows
<1> DEFINE first == Sample(x, kSentinelStartTimestamp, seed[w][1])
<1>5. n = 1 => first = DeadStep
  <2>1. n < max_walk_len =>
            Sample(Cell(w, n - 1).v, Cell(w, n - 1).t, seed[w][n]) = DeadStep
      BY DEF IInv, DoneInv
  <2> QED
      BY <1>1, <1>4, <2>1
<1>6. n # 1 => first # DeadStep
  <2> SUFFICES ASSUME n # 1 PROVE first # DeadStep
      OBVIOUS
  <2>1. 1 \in 1..n - 1
      BY <1>1
  <2>2. Cell(w, 1).v \in Vertices
        /\ Cell(w, 1) = Sample(Cell(w, 1 - 1).v, Cell(w, 1 - 1).t, seed[w][1])
      BY <1>4, <2>1 DEF Follows
  <2>3. Cell(w, 1) = first
      BY <1>4, <2>2
  <2> QED
      BY <2>2, <2>3, EngineAssumption DEF DeadStep, kWalkDeadSentinel
<1>7. first = DeadStep <=> Gamma(x, kSentinelStartTimestamp) = {}
  <2>1. Gamma(x, kSentinelStartTimestamp) \cap Weighted(x)
            = Gamma(x, kSentinelStartTimestamp)
      BY <1>2 DEF StatsAssumption, Gamma
  <2>2. DeadStep.v = kWalkDeadSentinel
      BY DEF DeadStep
  <2>3. Gamma(x, kSentinelStartTimestamp) = {} => first = DeadStep
      BY <2>1 DEF Sample
  <2>4. first = DeadStep => Gamma(x, kSentinelStartTimestamp) = {}
      BY <1>1, <1>2, <1>3, <2>1, <2>2, SampleResult
  <2> QED
      BY <2>3, <2>4
<1>8. Adj[x] \in Seq(NodeStep)
    BY <1>2, EngineAssumption
<1>9. Gamma(x, kSentinelStartTimestamp) = {} <=>
          \A k \in DOMAIN Adj[x] : Adj[x][k].t >= kSentinelStartTimestamp
  <2>1. DOMAIN Adj[x] = 1..Len(Adj[x])
      BY <1>8
  <2>2. \A k \in 1..Len(Adj[x]) : Adj[x][k].t \in Int
    <3>1. \A k \in 1..Len(Adj[x]) : Adj[x][k] \in NodeStep
        BY <1>8
    <3> QED
        BY <3>1 DEF NodeStep
  <2>3. \A k \in 1..Len(Adj[x]) :
            ~(Adj[x][k].t < kSentinelStartTimestamp)
                <=> Adj[x][k].t >= kSentinelStartTimestamp
      BY <1>1, <2>2
  <2> QED
      BY <2>1, <2>3 DEF Gamma
<1> QED
    BY <1>1, <1>5, <1>6, <1>7, <1>9

LEMMA StatsHere ==
    ASSUME StatsAssumption, RInv, TotalInv PROVE StatsExact
<1> SUFFICES ASSUME ~running
             PROVE  /\ stats.total_steps =
                           Cardinality({c \in Cells : walks_out[c].v # kWalkDeadSentinel})
                    /\ stats.dead_at_start =
                           Cardinality({w \in Walks : \A k \in DOMAIN Adj[starts[w + 1]] :
                               Adj[starts[w + 1]][k].t >= kSentinelStartTimestamp})
    BY DEF StatsExact, TotalInv
<1>1. \A w \in Walks : Done(w)
    BY DEF RInv, CoverInv
<1>2. /\ stats.total_steps = SumFunctionOnSet(walk_lens_out, Walks)
      /\ stats.dead_at_start = Cardinality({w \in Walks : walk_lens_out[w] <= 1})
    BY DEF TotalInv
<1> DEFINE live == {c \in Cells : walks_out[c].v # kWalkDeadSentinel}
<1>3. Cardinality(live) = SumFunctionOnSet(walk_lens_out, Walks)
  <2>1. /\ num_walks \in Nat /\ max_walk_len \in Nat /\ Walks = 0..num_walks - 1
        /\ live \in SUBSET (0..num_walks * max_walk_len - 1)
      BY EngineAssumption DEF RInv, IInv, TypeOK, num_walks, Walks, Cells
  <2>2. walk_lens_out \in [0..num_walks - 1 -> 0..max_walk_len]
    <3>1. \A w \in Walks : walk_lens_out[w] \in 0..max_walk_len
        BY <1>1, <2>1 DEF RInv, IInv, DoneInv
    <3> QED
        BY <2>1, <3>1 DEF RInv, IInv, TypeOK
  <2>3. ASSUME NEW w \in 0..num_walks - 1, NEW s \in 0..max_walk_len - 1
        PROVE  w * max_walk_len + s \in live <=> s < walk_lens_out[w]
    <3>1. w \in Walks /\ Done(w)
        BY <1>1, <2>1
    <3>2. Slot(w, s) \in Cells
        BY <2>1, SlotInCells DEF Cells
    <3>3. walks_out[Slot(w, s)].v # kWalkDeadSentinel <=> s < walk_lens_out[w]
        BY <3>1, LiveSlots DEF RInv
    <3> QED
        BY <3>2, <3>3 DEF Slot
  <2> HIDE DEF live
  <2> QED
      BY <2>1, <2>2, <2>3, CountBlocks
<1>4. {w \in Walks : walk_lens_out[w] <= 1}
          = {w \in Walks : \A k \in DOMAIN Adj[starts[w + 1]] :
                 Adj[starts[w + 1]][k].t >= kSentinelStartTimestamp}
    BY <1>1, DeadAtStart DEF RInv
<1> QED
    BY <1>2, <1>3, <1>4

(* The statistics of a call agree with its buffers: every thread's count is *)
(* added once, and total_steps is the number of live slots.                 *)
THEOREM StatsAgree ==
    ASSUME StatsAssumption
    PROVE  Spec => []StatsExact
<1>1. IsFiniteSet(Threads)
    BY DEF StatsAssumption
<1>2. Init => TotalInv
    BY TotalInit
<1>3. RInv /\ RInv' /\ TotalInv /\ [Next]_vars => TotalInv'
    BY <1>1, TotalKeeps DEF RInv
<1>4. RInv /\ TotalInv => StatsExact
    BY StatsHere
<1> QED
    BY <1>2, <1>3, <1>4, Covered, PTL DEF Spec
=============================================================================
