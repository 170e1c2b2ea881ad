------------------------------ MODULE WalkEngine ------------------------------
(***************************************************************************)
(* detail::run_walks_impl (include/tea/walk_engine.hpp): an OpenMP team    *)
(* takes chunks of walks from a shared counter (schedule(dynamic, 64)) and *)
(* writes each walk into its own max_walk_len cells of the caller's flat   *)
(* buffer; per-thread step counts are reduced at the end.                  *)
(*                                                                         *)
(* A random stream is the sequence of picks it leads to: Pcg64(seed, i) is *)
(* seed[i], and one element of it stands for the draws of one sample()     *)
(* call.  A step of a walk reads the immutable graph and touches the       *)
(* thread's locals and its walk's own cells (ExclusiveWalks), so an        *)
(* iteration of the step loop is one step of the model.                    *)
(***************************************************************************)
EXTENDS Integers, Sequences, FiniteSets

CONSTANTS Vertices, Adj, StartLists, max_walk_len, kSentinelStartTimestamp,
          Threads,      \* the OpenMP team
          Chunk,        \* 64 in the code
          Underflow,    \* exp(-x * scale) is 0 for x > Underflow
          Seeds,        \* seed[w][k]: the k-th pick of stream w
          Picks,        \* what a sample() call may draw
          Pick(_, _)    \* the member of a set of positions a pick selects

NodeStep == [v : Vertices, t : Int]

(* Mutant: an entry one tick before t_prev is missed. *)
MutantGamma(v, t) == {k \in 1..Len(Adj[v]) : Adj[v][k].t < t - 1}

(* candidate_set_len: the entries of v a walk that arrived at t may take. *)
Gamma(v, t) == {k \in 1..Len(Adj[v]) : Adj[v][k].t < t}

kWalkDeadSentinel == -1
DeadStep == [v |-> kWalkDeadSentinel, t |-> 0]

ASSUME EngineAssumption ==
    /\ Vertices \subseteq Nat
    /\ Adj \in [Vertices -> Seq(NodeStep)]
    /\ StartLists \subseteq Seq(Vertices)
    /\ max_walk_len \in Nat \ {0}
    /\ kSentinelStartTimestamp \in Int
    /\ Threads # {}
    /\ Chunk \in Nat \ {0}
    /\ Underflow \in Int
    /\ \A sd \in Seeds, list \in StartLists :
           \A w \in 0..Len(list) - 1, k \in 1..max_walk_len - 1 : sd[w][k] \in Picks
    /\ \A v \in Vertices, p \in Picks :
           \A S \in (SUBSET (1..Len(Adj[v]))) \ {{}} : Pick(S, p) \in S

(* Lists are ascending in time (TemporalAdjacency); no int64 is above the   *)
(* sentinel.                                                               *)
ASSUME GraphAssumption ==
    \A v \in Vertices : \A k \in 1..Len(Adj[v]) :
        /\ Adj[v][k].t <= kSentinelStartTimestamp
        /\ k > 1 => Adj[v][k - 1].t <= Adj[v][k].t

VARIABLES running,        \* between the call and the return
          starts, seed,   \* the arguments
          walks_out, walk_lens_out,  \* the caller's buffers
          next,           \* the next walk of the dynamic schedule
          pc, i, last,    \* per thread: control, walk, end of its chunk
          rng,            \* stream and position
          u, t_prev, prev_u, walk_len,
          steps_local,    \* the thread's copy of total_steps_local
          total_steps,    \* the reduction
          stats           \* WalkRunStats of the last return

locals == <<pc, i, last, rng, u, t_prev, prev_u, walk_len, steps_local>>
vars == <<running, starts, seed, walks_out, walk_lens_out, next, locals,
          total_steps, stats>>

num_walks == Len(starts)
Walks == 0..num_walks - 1

(* Mutant: the stride is one cell short. *)
MutantSlot(w, s) == w * (max_walk_len - 1) + s

(* walks_out + i * max_walk_len, slots[s]. *)
Slot(w, s) == w * max_walk_len + s
Cells == 0..num_walks * max_walk_len - 1

NoStats == [num_walks |-> 0, total_steps |-> 0, dead_at_start |-> 0]

TypeOK ==
    /\ running \in BOOLEAN
    /\ starts \in Seq(Vertices) /\ seed \in Seeds
    /\ walks_out \in [Cells -> [v : Vertices \cup {kWalkDeadSentinel}, t : Int]]
    /\ walk_lens_out \in [Walks -> Nat]
    /\ next \in 0..num_walks
    /\ pc \in [Threads -> {"grab", "begin", "step", "reduce", "done"}]
    /\ i \in [Threads -> Nat] /\ last \in [Threads -> Nat]
    /\ rng \in [Threads -> Nat \X Nat]
    /\ u \in [Threads -> Vertices \cup {-1}]
    /\ t_prev \in [Threads -> Int]
    /\ prev_u \in [Threads -> Vertices \cup {-1}]
    /\ walk_len \in [Threads -> 0..max_walk_len]
    /\ steps_local \in [Threads -> Nat]
    /\ total_steps \in Nat

-----------------------------------------------------------------------------
(***************************************************************************)
(* sample(u, t_prev, ...): a candidate of positive weight, or the dead     *)
(* step if there is none.  The weight of an entry underflows to 0 when it  *)
(* is too far before the newest entry of u (ExponentialBias); Uniform and  *)
(* Linear weights never do (a large Underflow).                            *)
(***************************************************************************)
Weighted(v) == {k \in 1..Len(Adj[v]) : Adj[v][Len(Adj[v])].t - Adj[v][k].t <= Underflow}

(* Mutant: upper_bound instead of lower_bound admits t = t_prev. *)
MutantSample(v, t, pick) ==
    LET live == {k \in Weighted(v) : Adj[v][k].t <= t}
    IN  IF live = {} THEN DeadStep ELSE Adj[v][Pick(live, pick)]

Sample(v, t, pick) ==
    LET live == Gamma(v, t) \cap Weighted(v)
    IN  IF live = {} THEN DeadStep ELSE Adj[v][Pick(live, pick)]

(* make_all_nodes_starts: walks_per_node walks from every vertex with an *)
(* inbound entry, in vertex order.                                       *)
make_all_nodes_starts(walks_per_node) ==
    LET sources == {v \in Vertices : Len(Adj[v]) > 0}
        nth(n) == CHOOSE v \in sources : Cardinality({w \in sources : w < v}) = n
    IN  [k \in 1..Cardinality(sources) * walks_per_node |->
            nth((k - 1) \div walks_per_node)]

-----------------------------------------------------------------------------
(* The locals outside the parallel region. *)
Zero == [th \in Threads |-> 0]
NoVertex == [th \in Threads |-> -1]
NoStream == [th \in Threads |-> <<0, 1>>]

Init ==
    /\ running = FALSE
    /\ starts = <<>> /\ seed \in Seeds
    /\ walks_out = [c \in {} |-> DeadStep] /\ walk_lens_out = [w \in {} |-> 0]
    /\ next = 0
    /\ pc = [th \in Threads |-> "done"]
    /\ i = Zero /\ last = Zero /\ rng = NoStream
    /\ u = NoVertex /\ t_prev = Zero /\ prev_u = NoVertex /\ walk_len = Zero
    /\ steps_local = Zero
    /\ total_steps = 0 /\ stats = NoStats

(* run_walks_* is called with buffers whose contents are not the walks. *)
Call ==
    /\ ~running
    /\ running' = TRUE
    /\ starts' \in StartLists
    /\ seed' \in Seeds
    /\ walks_out' = [c \in 0..Len(starts') * max_walk_len - 1 |->
                        [v |-> starts'[1], t |-> 0]]
    /\ walk_lens_out' = [w \in 0..Len(starts') - 1 |-> 0]
    /\ next' = 0
    /\ pc' = [th \in Threads |-> "grab"]
    /\ total_steps' = 0
    /\ stats' = NoStats
    /\ UNCHANGED <<i, last, rng, u, t_prev, prev_u, walk_len, steps_local>>

(* Mutant: the last chunk is not clamped to num_walks. *)
MutantChunkEnd == next + Chunk

ChunkEnd == IF next + Chunk < num_walks THEN next + Chunk ELSE num_walks

(* schedule(dynamic, Chunk): the next chunk, or the end of the loop. *)
GrabChunk(th) ==
    /\ pc[th] = "grab" /\ next < num_walks
    /\ i' = [i EXCEPT ![th] = next]
    /\ next' = ChunkEnd
    /\ last' = [last EXCEPT ![th] = ChunkEnd]
    /\ pc' = [pc EXCEPT ![th] = "begin"]
    /\ UNCHANGED <<running, starts, seed, walks_out, walk_lens_out, rng, u,
                   t_prev, prev_u, walk_len, steps_local, total_steps, stats>>

NoMoreChunks(th) ==
    /\ pc[th] = "grab" /\ next = num_walks
    /\ pc' = [pc EXCEPT ![th] = "reduce"]
    /\ UNCHANGED <<running, starts, seed, walks_out, walk_lens_out, next, i,
                   last, rng, u, t_prev, prev_u, walk_len, steps_local,
                   total_steps, stats>>

(* Mutant: a stream per thread. *)
MutantFreshStream(th) == <<th - 1, 1>>

(* Pcg64 rng(global_seed, i). *)
FreshStream(th) == <<i[th], 1>>

(* Slot 0, the walk's own stream, and its locals. *)
BeginWalk(th) ==
    /\ pc[th] = "begin"
    /\ walks_out' = [walks_out EXCEPT ![Slot(i[th], 0)] =
                        [v |-> starts[i[th] + 1], t |-> kSentinelStartTimestamp]]
    /\ rng' = [rng EXCEPT ![th] = FreshStream(th)]
    /\ u' = [u EXCEPT ![th] = starts[i[th] + 1]]
    /\ t_prev' = [t_prev EXCEPT ![th] = kSentinelStartTimestamp]
    /\ prev_u' = [prev_u EXCEPT ![th] = -1]
    /\ walk_len' = [walk_len EXCEPT ![th] = 1]
    /\ pc' = [pc EXCEPT ![th] = "step"]
    /\ UNCHANGED <<running, starts, seed, walk_lens_out, next, i, last,
                   steps_local, total_steps, stats>>

NextSample(th) ==
    Sample(u[th], t_prev[th], seed[rng[th][1]][rng[th][2]])

(* Mutant: prev_u = u after u = s.v. *)
MutantPredecessor(th) == NextSample(th).v

(* What prev_u becomes: u before it moves on. *)
Predecessor(th) == u[th]

(* A hop; in the loop, step = walk_len. *)
TakeStep(th) ==
    /\ pc[th] = "step" /\ walk_len[th] < max_walk_len
    /\ NextSample(th).v # kWalkDeadSentinel
    /\ walks_out' = [walks_out EXCEPT ![Slot(i[th], walk_len[th])] = NextSample(th)]
    /\ rng' = [rng EXCEPT ![th] = <<@[1], @[2] + 1>>]
    /\ prev_u' = [prev_u EXCEPT ![th] = Predecessor(th)]
    /\ u' = [u EXCEPT ![th] = NextSample(th).v]
    /\ t_prev' = [t_prev EXCEPT ![th] = NextSample(th).t]
    /\ walk_len' = [walk_len EXCEPT ![th] = @ + 1]
    /\ UNCHANGED <<running, starts, seed, walk_lens_out, next, pc, i, last,
                   steps_local, total_steps, stats>>

(* Mutant: the dead step does not end the loop. *)
MutantLoopEnds(th) == walk_len[th] = max_walk_len

LoopEnds(th) ==
    walk_len[th] < max_walk_len => NextSample(th).v = kWalkDeadSentinel

(* Mutant: one walk too many (i <= last). *)
MutantMoreInChunk(th) == i[th] + 1 <= last[th]

MoreInChunk(th) == i[th] + 1 < last[th]

(* The loop ends; the tail is padded, the length stored and counted. *)
FinishWalk(th) ==
    /\ pc[th] = "step" /\ LoopEnds(th)
    /\ walks_out' = [c \in DOMAIN walks_out |->
                        IF c \in Slot(i[th], walk_len[th])..Slot(i[th], max_walk_len - 1)
                        THEN DeadStep ELSE walks_out[c]]
    /\ walk_lens_out' = [walk_lens_out EXCEPT ![i[th]] = walk_len[th]]
    /\ steps_local' = [steps_local EXCEPT ![th] = @ + walk_len[th]]
    /\ i' = [i EXCEPT ![th] = @ + 1]
    /\ pc' = [pc EXCEPT ![th] = IF MoreInChunk(th) THEN "begin" ELSE "grab"]
    /\ UNCHANGED <<running, starts, seed, next, last, rng, u, t_prev, prev_u,
                   walk_len, total_steps, stats>>

(* Mutant: the thread's count replaces the others'. *)
MutantReduce(th) ==
    /\ pc[th] = "reduce"
    /\ total_steps' = steps_local[th]
    /\ pc' = [pc EXCEPT ![th] = "done"]
    /\ UNCHANGED <<running, starts, seed, walks_out, walk_lens_out, next, i,
                   last, rng, u, t_prev, prev_u, walk_len, steps_local, stats>>

(* reduction(+:total_steps_local) at the end of the parallel region. *)
Reduce(th) ==
    /\ pc[th] = "reduce"
    /\ total_steps' = total_steps + steps_local[th]
    /\ pc' = [pc EXCEPT ![th] = "done"]
    /\ UNCHANGED <<running, starts, seed, walks_out, walk_lens_out, next, i,
                   last, rng, u, t_prev, prev_u, walk_len, steps_local, stats>>

Run(th) == \/ GrabChunk(th) \/ NoMoreChunks(th) \/ BeginWalk(th)
           \/ TakeStep(th) \/ FinishWalk(th) \/ Reduce(th)

(* The team has joined; the stats are filled in and returned. *)
Return ==
    /\ running /\ \A th \in Threads : pc[th] = "done"
    /\ running' = FALSE
    /\ stats' = [num_walks |-> num_walks,
                 total_steps |-> total_steps,
                 dead_at_start |-> Cardinality({w \in Walks : walk_lens_out[w] <= 1})]
    /\ i' = Zero /\ last' = Zero /\ rng' = NoStream
    /\ u' = NoVertex /\ t_prev' = Zero /\ prev_u' = NoVertex /\ walk_len' = Zero
    /\ steps_local' = Zero
    /\ UNCHANGED <<starts, seed, walks_out, walk_lens_out, next, pc, total_steps>>

Next == Call \/ (\E th \in Threads : Run(th)) \/ Return

(* Every thread of the team is scheduled until the region is left. *)
Spec == Init /\ [][Next]_vars
             /\ \A th \in Threads : WF_vars(Run(th))
             /\ WF_vars(Return)

-----------------------------------------------------------------------------
(* Properties *)

(* Done(w): walk w has been completed in this run (lengths start at 0). *)
Done(w) == walk_lens_out[w] > 0
Cell(w, s) == walks_out[Slot(w, s)]

(* The checks of tea_verify_walks (cli/tea_verify_walks.cpp). *)
edge_in_inbound(x, s) == \E j \in 1..Len(Adj[x]) : Adj[x][j] = s

verify_walk(w) ==
    /\ Cell(w, 0).t = kSentinelStartTimestamp
    /\ walk_lens_out[w] \in 1..max_walk_len
    /\ \A k \in 1..walk_lens_out[w] - 1 :
           /\ Cell(w, k).v # kWalkDeadSentinel
           /\ Cell(w, k).t < Cell(w, k - 1).t
           /\ edge_in_inbound(Cell(w, k - 1).v, Cell(w, k))
    /\ \A k \in walk_lens_out[w]..max_walk_len - 1 :
           Cell(w, k).v = kWalkDeadSentinel

(* Every walk passes tea_verify_walks as soon as it is complete, and starts *)
(* at its own start vertex.                                                *)
WalksVerified ==
    \A w \in Walks : Done(w) => Cell(w, 0).v = starts[w + 1] /\ verify_walk(w)

(* A thread works inside its chunk; what is left of it holds no finished   *)
(* walk and none that another thread has.                                  *)
ExclusiveWalks ==
    \A a \in Threads : pc[a] \in {"begin", "step"} =>
        /\ i[a] < last[a]
        /\ \A w \in i[a]..last[a] - 1 : w \in Walks /\ ~Done(w)
        /\ \A b \in Threads \ {a} : pc[b] \in {"begin", "step"} =>
               (i[a]..last[a] - 1) \cap (i[b]..last[b] - 1) = {}

(* No thread writes into a finished walk, whatever walks run beside it. *)
FinishedWalkStable ==
    [][running => \A w \in Walks : Done(w) =>
           /\ walk_lens_out'[w] = walk_lens_out[w]
           /\ \A s \in 0..max_walk_len - 1 :
                  walks_out'[Slot(w, s)] = walks_out[Slot(w, s)]]_vars

(* README.md "Threading": the output depends on the seed and the walk's    *)
(* index, not on how walks are spread over threads: each slot of walk w is *)
(* the sample that slot before it and stream w lead to.                    *)
Deterministic ==
    \A w \in Walks : Done(w) =>
        /\ Cell(w, 0) = [v |-> starts[w + 1], t |-> kSentinelStartTimestamp]
        /\ \A s \in 1..max_walk_len - 1 :
               Cell(w, s) = IF Cell(w, s - 1).v = kWalkDeadSentinel THEN DeadStep
                            ELSE Sample(Cell(w, s - 1).v, Cell(w, s - 1).t, seed[w][s])

(* The sampler is told the vertex the walk really came from: prev_u is     *)
(* the vertex before u in the buffer, -1 on the first hop (node2vec's      *)
(* rejection test depends on it).                                          *)
PrevIsPredecessor ==
    \A th \in Threads : pc[th] = "step" =>
        /\ Cell(i[th], walk_len[th] - 1) = [v |-> u[th], t |-> t_prev[th]]
        /\ prev_u[th] = IF walk_len[th] = 1 THEN -1
                        ELSE Cell(i[th], walk_len[th] - 2).v

(* The stats agree with the buffers: total_steps counts the live slots and *)
(* dead_at_start the walks whose start has no edge before the sentinel.    *)
StatsExact ==
    ~running =>
        /\ stats.num_walks = num_walks
        /\ stats.total_steps =
               Cardinality({c \in Cells : walks_out[c].v # kWalkDeadSentinel})
        /\ stats.dead_at_start =
               Cardinality({w \in Walks : \A k \in DOMAIN Adj[starts[w + 1]] :
                   Adj[starts[w + 1]][k].t >= kSentinelStartTimestamp})

(* README.md "Correctness coverage": a walk is shorter than max_walk_len   *)
(* only if the candidate set of its last slot is empty.                    *)
EarlyTermination ==
    \A w \in Walks : Done(w) /\ walk_lens_out[w] < max_walk_len =>
        LET end == Cell(w, walk_lens_out[w] - 1)
        IN  ~ \E k \in DOMAIN Adj[end.v] : Adj[end.v][k].t < end.t

(* Every call returns. *)
CallReturns == running ~> ~running

(* The slots walk w has so far. *)
LengthOf(w) ==
    IF Done(w) THEN walk_lens_out[w]
    ELSE IF \E th \in Threads : pc[th] = "step" /\ i[th] = w
         THEN walk_len[CHOOSE th \in Threads : pc[th] = "step" /\ i[th] = w]
         ELSE 1

WalkSoFar(w) ==
    [k \in 1..LengthOf(w) |->
        IF k = 1 THEN [v |-> starts[w + 1], t |-> kSentinelStartTimestamp]
                 ELSE Cell(w, k - 1)]

AbstractWalks ==
    IF starts = <<>> THEN <<>> ELSE [w \in Walks |-> WalkSoFar(w)]

(* The engine's walks are TemporalWalk's. *)
TemporalWalk ==
    INSTANCE TemporalWalk
    WITH walks <- AbstractWalks, finished <- {w \in Walks : Done(w)}
ImplementsTemporalWalk == TemporalWalk!Spec
=============================================================================
