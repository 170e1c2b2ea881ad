# TLA+ specifications of the TEA temporal random walk engine

The repository is a C++ implementation of TEA: temporal random walks that are
sampled from per-vertex alias tables (PAT) or a hierarchy of them (HPAT). It
reads a list of timestamped edges, stores them as an inbound CSR graph, builds
a sampling index, and runs many walks *backward in time* with an OpenMP team.
The modules here model that code, TLC checks them on small instances, and
TLAPS proves the safety properties and the refinements the runs check - of the graph
build, the indexes, the samplers, the engine and the two programs - for every
instance. What stays with TLC alone is liveness. Paths below are relative to the repository.

## Inventory

| Component | Code | State | Operations | Made correct by |
|---|---|---|---|---|
| Temporal graph | `src/graph.cpp`, `include/tea/graph.hpp` | `n_`, `offsets_`, `targets_`, `timestamps_` | `build`, slices, `degree`, `candidate_set_len` | no entry lost, doubled or put into another vertex's slice; lists ascending in time; the candidates are a prefix |
| Alias tables | `include/tea/alias.hpp` | table cells, the scratch with its two stacks | `build_alias_into`, `AliasView::sample` | every slot completed; sampled in proportion to its weight, and never without weight |
| PAT | `include/tea/pat.hpp` | trunk sizes, alias arena, cumulative totals and offsets | `build`, `alias_view_of_trunk`, `trunk_cumsums_of` | readers find what the build stored; exact distribution for every prefix |
| HPAT | `include/tea/hpat.hpp`, `trunk_ref.hpp` | alias and totals arenas with their offsets | `build`, `solo_alias_view`, `alias_view_of_trunk`, `trunk_total_of` | the same |
| AuxIndex | `include/tea/aux_index.hpp` | covers of all prefixes, offsets, `active` | `build` within a budget, `cover_for` | a looked-up cover is the computed one |
| Samplers | `include/tea/sampler.hpp` | scratch only | `sample_pat`, `sample_hpat`, `rejection_loop` | each candidate with its weight's share (times beta for node2vec); never a later edge; the loop ends |
| Neighbour sets | `include/tea/neighbor_set.hpp` | `neighbors_`, `offsets_` | `build`, `contains`, `degree` | exactly the undirected neighbours |
| Biases | `include/tea/bias.hpp`, `node2vec_bias.hpp` | parameters | `compute_weights`, `accept_ratio` | weights non-negative, newest edge the heaviest |
| Random numbers | `include/tea/rng.hpp` | one stream | `next_u01`, `next_below` | stream *i* is a function of seed and *i* |
| Walk engine | `include/tea/walk_engine.hpp` | the caller's flat buffers, per-thread locals, reduction | `run_walks_*`, `make_all_nodes_starts` | every walk valid, independent of the team, written once; stats agree |
| CSV reader | `include/tea/csv_reader.hpp` | none | `read_edges_csv`, `compute_edge_stats` | every row of the file, or an exception |
| Command line | `cli/cli_args.hpp` | none | `parse_cli_args` | defaults; what is invalid throws |
| `tea_walk` | `cli/tea_walk.cpp` | the objects above, the buffers | `main`, `run_non_node2vec`, `run_node2vec` | the report and the exit code say what happened |
| `tea_verify_walks` | `cli/tea_verify_walks.cpp` | the same | the same, `verify_walk` | passes exactly when all walks are real |

**How they interact.** Everything is a direct call. `tea_walk` builds the graph,
then the index over it (PAT, or HPAT which owns an AuxIndex) and, for node2vec,
the neighbour sets; from then on all of these are immutable and shared by
the team without locks. The engine calls `sample_*`, which asks the graph for
the candidate prefix, the index for tables and totals, and (node2vec) the
neighbour sets about the previous vertex. The buffers belong to the caller. The programs do these
steps one after another; an exception anywhere ends them with an exit code of its
own. There are no messages, no persistence and no failure recovery; concurrency is
OpenMP regions that are separated by barriers.

**What is hard.**

- Interleaving: the degree count and the scatter of the graph (and the transpose
  of the neighbour sets) share atomic counters, and the stores after an atomic capture are
  plain. The engine shares one buffer and a dynamic chunk counter.
- Layout agreement: cursors run through an arena at build time, closed formulas recompute the
  same offsets at read time; short last trunks, solo vertices and vertices
  without edges sit between the others.
- Boundaries: `t < t_prev`, `r == cumsum`, full versus partial trunk, the last
  chunk, the sentinel time, weights that underflow to 0.
- Reuse: objects may be built again, scratch is used for one table after another;
  weights are computed twice, when an index is built and when a cut trunk is sampled.
- Retries: the rejection loop gives up after `kNode2VecMaxRetries` proposals and
  returns the last one.
- Partial input and narrowing: bad and blank lines, and a walk count that is an int64 in the
  program and an int32 in the engine.

`PROJECT.json` lists each hazard at its line with the properties that cover it.

## Modules

| Module | Models | Notes |
|---|---|---|
| `EdgeLists` | the input of `TemporalGraph::build` | entries, sides, vertex count, the list a single thread would store |
| `TemporalAdjacency` | *abstract*: what a build promises | begin, then finish with any ascending lists that hold exactly the entries |
| `TemporalGraph` | `TemporalGraph::build`, `candidate_set_len` | one action per atomic update, capture, store, serial loop step and sorted vertex |
| `TemporalWalk` | *abstract*: a set of temporal walks that grow by one candidate | |
| `WalkEngine` | `run_walks_impl`, `make_all_nodes_starts`, `verify_walk` | one action per chunk grab, walk start, hop, walk end, reduction, return |
| `Bias` | the static weights of all biases, with the per-vertex parameters | |
| `PrefixSampler` | *abstract*: what an index promises | after a build for a graph and a bias, samples of every prefix have exactly the weights as shares |
| `AliasArenas` | what PAT and HPAT share: arenas of tables, inverse transform sampling | |
| `Pat` | `Pat::build`, its accessors, `sample_pat` | sizes (parallel), layout (serial), fill (parallel) |
| `Trunks` | trunk decomposition and level offset formulas of HPAT | |
| `Hpat` | `Hpat::build`, `AuxIndex::build`, accessors, `sample_hpat` | serial layout, parallel fill, budget check |
| `AliasTable` | `build_alias_into`, `AliasView::sample` | one action per pairing; every value in double or float may be rounded, by a bounded error |
| `NeighborSets` | `NeighborSets::build`, `contains` | transpose with atomic cursors, two gather passes |
| `Node2Vec` | `rejection_loop`, `Node2VecBias` | one action per proposal and test, for all runs of a call at once; the proposal is what `PrefixSampler` promises, `contains` what `NeighborSets` does |
| `TeaPrograms` | the two programs, `cli_args.hpp`, `csv_reader.hpp` | arguments, file, graph, index, walks, then report or verification; the library is what `TemporalAdjacency` (through `EdgeLists`), `PrefixSampler` and `TemporalWalk` promise |
| `Searches` | `std::lower_bound`, which the graph and the neighbour sets call | |
| `TemporalGraphProofs`, `WalkEngineProofs`, `PatProofs`, `HpatProofs`, `NeighborSetsProofs`, `TeaProgramsProofs` | | the theorems about the module each is named for |
| `SamplingProofs` | | the theorems about `AliasTable` and `Node2Vec` |
| `DataLemmas` | | facts about sums, counting, enumerations, powers, binary search and edge lists that the proofs share |
| `MC*` | small instances for TLC | |

**Correspondence.** Variables have the names of the members and locals they
stand for (`n_`, `offsets`, `cursor`, `trunk_sizes`, `prev_u`, ...); `phase` or
`pc` says which section of the function runs. A barrier is a guard that waits
for all threads: `counted = Entries`, `filled = Vertices`, `pc[th] = "done"`.
Definitions that begin with `Mutant` are not part of the model; each is a wrong
variant of the next definition, and the property listed with it in
`PROJECT.json` fails when it takes that definition's place.

*Atomicity.* An `omp atomic` is one step. What a thread does to cells no other
thread touches is one step as well: the two stores of an entry, the sort of one
vertex, one trunk, one hop of a walk. That the cells are private is a property,
not an assumption (`NoSharedCell`, `TransposeExact`, `TrunksReadBack`,
`FinishedWalkStable`). `schedule(static, c)` is modelled with the owner and order of each
iteration; for `schedule(dynamic, 64)` over vertices, any set of vertices may be
in progress, which includes every assignment of chunks; the engine's own dynamic
schedule has its chunk counter.

*Data.* A random stream is the sequence of choices it leads to. A weight is a
natural number and a distribution is the exact share of each edge, so "the same
distribution" is an equation and not a statistical test. `exp` is a decreasing
function that reaches 0: powers of two down to `Horizon`, and a quotient by the
time span is rounded down. That keeps what the code depends on: the pivot is the newest
edge of the whole vertex, the scale comes from the whole vertex, equal times have
equal weights, old edges underflow. For node2vec a run of
the rejection loop is one of `Draws ^ retry` equally likely sequences of draws, and
`accepted` and `pending` count them. A cell of an alias
arena names the edges its table was built for, the slot, and so tells whether a
reader looks at one whole table; that a table samples its slots by weight is
`AliasTable`'s part. There a probability is a number of units; a scaled weight and a remainder are
rounded to any value within `Rounding.double` units of the exact one, a threshold, which
is narrowed when it is stored, to any within `Rounding.float`, as long as 0 stays 0, nothing becomes
negative, a threshold is at most 1.0 and scaled weights are in the order of the weights. The two are
independent parameters, since a float is coarser by many orders. The order in which `std::sort` leaves equal times is open
(`StableSort = FALSE`) or kept (`TRUE`, what libstdc++ does for 16 elements or fewer).

## Runs

| Run | Instance | Shows |
|---|---|---|
| `build` | seven calls (both directions, ties, parallel edges, a self loop, isolated vertices, `num_vertices` given, missing or 0), three threads, one edge per chunk | the scatter stays in its slices and shares no cell; candidates are a prefix; without equal times the schedule does not show; the build implements `TemporalAdjacency` |
| `walk` | two threads, chunks of two, three start lists, two sets of streams, walks of up to four slots | every finished walk passes the verifier, is a function of its start and stream, and stays; chunks are exclusive; `prev_u`, stats and early ends are right; the engine implements `TemporalWalk`; every call returns |
| `hpat` | five graphs, linear and exponential bias, threshold 2, two budgets (one of which some graphs exceed) | what the fill stores is what the accessors find; a looked-up cover is the computed one; `Hpat` implements `PrefixSampler` |
| `hpat_no_index` | the same graphs, four biases, no budget | the distributions are the same from covers computed on the fly, and from the stored parameters for prefixes of solo vertices; kept apart from `hpat` because a build with a budget before one without is what `hpat_stale` is about |
| `pat` | four graphs, four biases, minimum trunk sizes 1, 3, 8 | the same for `Pat`, on both sides of the partial trunk, whose weights are computed when sampling |
| `alias` | spans of up to five weights from 0, 1, 5; exact, and doubles off by up to one unit and floats by up to two | all slots completed, proportional sampling and no mass lost up to the roundings, no sample of a slot without weight |
| `neighbors` | six calls, all vertices of a pass in progress at once | the transpose loses nothing, passes 1 and 3 agree, `contains` answers what the edge list says |
| `node2vec` | two graphs, four settings of p, q and the rescaling, a cap of 3 | short of the cap, edges are accepted in the proportions weight times beta; at the cap they are off by at most (1 - beta_min / beta_max) ^ retries; no run is lost; the loop ends |
| `programs` | both programs, nine paths, 90 command lines, a 4-bit int32 | the verifier passes exactly when every walk asked for was made and is real; the engine is asked for no more walks than there are buffers; the report is true; a program that ends with 0 has taken in the whole file |
| `build_ties` | two edges of equal time, two threads | *violation*: their order depends on the schedule |
| `walk_underflow` | exponential weights that underflow | *violation*: a walk ends with candidates left |
| `hpat_stale` | a build with a budget, then one without | *violation*: the old auxiliary index stays active |

**Why the bounds are enough.** The races are between two accesses to one counter or
one cell, so two writers to a vertex and a third elsewhere show each of them;
`build` has three threads on vertices with two and three entries, with a
vertex on each side whose slice would be hit. In `walk`, five walks in chunks of
two on two threads give a chunk that crosses the end, a thread that takes two
chunks, and one that may take none; the start list has a start without entries and one whose only edge
has the sentinel time. Layout errors show at the first vertex with another behind
it; the graphs of `hpat` and `pat` put deep, shallow and empty vertices in each
order, with degrees up to 7 (three levels; four trunks with a short last one) and
times that are equal, close, and far enough apart for exponential weights of 0; linear
weights are all distinct, so no two edges are confused unnoticed. The only counters are the build's own; nothing
is cut off by a state constraint. `kHpatDegreeThreshold`, the chunk sizes and the
minimum trunk size are constants of the modules so that small instances reach both
sides of them.

`alias` has spans whose scaled weights are exactly 1.0, so that rounding decides the stack, spans with a slot that donates twice, and
one with four slots without weight, where the roundings in double reach 1.0 and `NoWeightNoShare` would fail without
its hypothesis. A unit is coarse (One is three units for each unit of weight), so a rounding is far larger than any of the code's.

`node2vec` has candidates at every distance from the previous vertex, neighbours
by an edge in either direction, a self loop at the previous vertex, and candidates without
weight; the skew bound of the cap is in powers of the number of retries, so a cap of 3
(1024 in the code) has a first, a middle and a last retry. `programs` narrows walk counts
to 4 bits: 1 to 7 walks from each of 2, 3 or 4 start vertices give counts that fit,
turn negative, become 0, and come out positive but too small; its files
have blank lines inside and at the end, ids beyond the width, no rows, no header, and a bad
line. The graph on which walks branch is walked once from each vertex under all biases,
variants and directions; the graphs with many walks have no choices, so that the states stay few.

**Fairness.** Only two runs use it. `WalkEngine`: weak fairness of each thread until
the region is left, and of the return (OpenMP keeps a team running to the barrier,
and no step waits for anything else). `Node2Vec`: weak
fairness of the steps of a loop that runs. Whether another call is ever made is
not assumed.

**Violations.** `build_ties`: entries with equal times at a vertex come in the
order of the atomic captures, because the comparison looks at the time only; the
test "parallel build is deterministic" has no such input. `UniqueTimesDeterministic`
is what does hold. `walk_underflow`: the sampler returns the dead step when all
candidate weights are 0, so the top-level README's claim that a short walk proves
an empty candidate set needs weights that do not underflow; with that assumption
it is proved. `hpat_stale`: `build` with a budget of 0 does not clear the
auxiliary index of an earlier build. The shipped programs build an index once.

## Proofs

Every property of a passing run is the statement of a theorem, except the two
liveness properties; `PROJECT.json` pairs them up. A module of proofs has the
same shape throughout: `Init => IInv`, one lemma for each action that `IInv` is
kept, `Spec => []IInv`, and each property from `IInv`. The theorems assume what
the `ASSUME`s of the modelled modules say, which TLC evaluates on every run, and the few
hypotheses written out in a theorem. Each of those is needed, and a run shows it
or the text below says why.

**What the provers cannot do by themselves.** No backend does induction, and the library's
induction theorems take an operator as a parameter, which none can instantiate.
`DataLemmas` therefore states induction about sets: a set of naturals that is not empty has a
least element (`LeastElement`), a set with 0 that is closed under successor
holds all naturals (`SetInduction`), a family with each subset of a finite set whose proper
subsets it has contains that set (`SubsetInduction`). A recursive definition is shown to exist in the
same way. Sums over finite sets, counting by a bijection, increasing enumerations, ranks
in an order, binary search and powers of two rest on these, and are
stated once there.

**`TemporalGraphProofs`**, for any calls, team size, chunk and sort (`CallsAssumption`, `TeamAssumption`):
`TypeCorrect`, `ScatterInSlice`, `ScatterRaceFree`, `SearchFindsCandidates`,
`ScheduleDoesNotShow`, `Refinement` (of `TemporalAdjacency`). `SlotsInSlice`
is not inductive: it needs that `degree[v]` is the number of entries counted at `v` and that all
are counted after the barrier (`DegreeInv`); that the prefix sum leaves each
vertex `degree[v]` cells before the next begins, first for the vertices behind
the scan, then for all (`OffsetsInv`); that a cursor is the number of slots it
has handed out and these are distinct (`CursorInv`); and that every id is below
`n_`, which comes from the reduction or from the caller (`EdgesInv`). A captured
slot is then below the cursor, hence below the number of entries at the vertex,
and the slices of two vertices do not meet. For the refinement `CInv` adds what
is in the cells: a written entry is in its cell, and after the scatter the slice of
a vertex and its entries are in bijection, which a sort keeps (`ContentsInv`). A build's
last step is then one `Finish` of the abstract module, and everything before it
stutters. With distinct times two ascending lists of the same entries are equal,
which is `ScheduleDoesNotShow`; `SearchFindsCandidates` applies the lemma on binary
search to an ascending slice.

**`WalkEngineProofs`**, for any graph, start lists, seeds, team and chunk (`EngineAssumption`,
`GraphAssumption`): `TypeCorrect`, `WalksExclusive`, `Verified`,
`ThreadIndependent`, `PredecessorCorrect`, `FinishedStable`,
`EarlyTerminationJustified`, `Refinement` (of `TemporalWalk`), `StatsAgree`.
`ScheduleInv` says that the chunks in hand are disjoint, below the shared
counter, and hold no finished walk; with `SlotsApart` (the stride separates the
cells of different walks) a thread's write changes no other walk. `InHandInv`
says that a thread's locals mirror the walk it has in hand, whose slots follow
its stream; `DoneInv` says the same of finished walks, their padding and why they
ended. `CoverInv` is the other half of the schedule: every walk below the counter is
finished or in a chunk, so that nothing is left when the last thread leaves; without it
the return of a call is no step of `TemporalWalk`, and the stats are those of some of the walks.
`TotalInv` counts steps: what is reduced and what threads still hold make up the stored lengths.
`EarlyTerminationJustified` and `StatsAgree` assume that no weight underflows, which
`walk_underflow` shows to be needed; `StatsAgree` also that the team is finite and that a walk may take a hop
(with one slot to a walk, all count as dead at the start).

**`SamplingProofs`**, about alias tables of any number of slots, weights, resolution and rounding errors
(`AliasAssumption`): `TableTypeCorrect`, `SamplesInProportion`, `NoMassLost`, `WeightlessNeverSampled`. The slots are
the completed ones and those on the two stacks, which have no slot in common and none twice;
those below 1 are on one stack and the others on the other (`StackInv`). What the completed
slots give to a slot and what it has left is its weight, off by at most the rounding of its scaled weight
and, for each completed slot, of a remainder and a threshold, *and* a bound of the same kind holds for all
other slots together, with the roundings of all scaled weights (`MassInv`): the second half is what makes
the slots left at the end 1 up to roundings, when one stack is empty. A slot without weight has exactly 0
left as long as it is on a stack, and is nobody's alias (`WeightlessInv`); a slot left over
at the end has 1 up to the roundings in double, so it has weight if these are less than 1 together.

About the rejection loop, for every graph, `p`, `q`, bias and cap (`Node2VecAssumption`): `TypeCorrect`,
`ProportionalShortOfCap`, `SkewAtCap`. After `r` retries each edge has been
returned `share * Prescribed` times, for one `share` of all edges, and
`(Draws - z) ^ r` runs are left, where `z` is the total of the prescribed weights; together they
are the `Draws ^ r` there are (`ShareInv`). The last, unconditional acceptance moves at most the runs that
were left, and `beta_min / beta_max` bounds `z` from below.

**`NeighborSetsProofs`**, for any calls and schedules: `TypeCorrect`, `TransposeStaysExact`, `SlicesStayExact`,
`ContainsIsExact`. The slots captured of `u` are in bijection with the entries with source
`u` that the loops have passed or are at (`ScatterInv`). Gathered entries are then the
neighbours that the edge list gives (`GatheredInv`), both sort passes have as many, and a slice
is their only ascending enumeration (`SlicesInv`), where the binary search finds them.

**`PatProofs`**, for any graphs, biases and minimum trunk sizes, through rebuilds: `TypeCorrect`,
`StoredTrunksReadBack`, `Refinement` (of `PrefixSampler`). The cumulative offsets are those of the trunk counts
(`LayoutInv`); a vertex's running total is the sum of the weights up to its next trunk (`ProgressInv`);
what it has stored is where the accessors look, and no other vertex's fill reaches it (`StoredInv`).
For the refinement, a prefix is its whole trunks and at most one cut trunk. The trunk is drawn
by counting the draws that the inverse transform sends to each place; in a whole
trunk the table then gives an edge its weight out of the trunk's total, and in a cut trunk the
weights computed again from the stored parameters are the ones the vertex was built with.

**`HpatProofs`**, for any graphs, biases, threshold and schedule: `Invariance`, `StoredTrunksReadBack`, `SamplingReady`,
and with the hypothesis that builds with and without a budget are not mixed on one object -
`hpat_stale` is what happens otherwise - `TypeCorrect`, `CoverLookupIsExact`, `Refinement` (of `PrefixSampler`).
`FillInv` is the argument of `Pat` for a hierarchy: the build's cursors are the closed formulas of
the readers (`ProgressInv`), which takes the sums of `degree \div 2^k` over the levels. `AuxInv` describes
the index: prefix sums of the numbers of prefixes and of cover entries; the cover of
prefix `L` begins where the covers of shorter prefixes end (`StoredCover`), because a cover has
as many trunks as `L` has binary digits 1. `L_offsets` is read one past a vertex's own part; that the
next vertex with an index begins there, whatever solo vertices are between, is an induction
downwards over the vertices. `ReadyInv` says what a finished fill leaves for readers. In
`Refinement`, the trunks of a cover tile the prefix, the inverse transform gives a trunk draws
in proportion to its stored total, and its table gives an edge its weight of them; whole solo vertices sample
their table, prefixes of them the weights computed again.

**`TeaProgramsProofs`**, for any files and command lines that meet `ProgramsAssumption` (ids that, cast to the width, are at least 0 and less than
its largest number; no time after the sentinel; counts are integers): `TypeCorrect`, `InputIsComplete`, `VerifierIsExact`,
`ReportIsTruthful`. `IInv` is a disjunction, one disjunct for each stage of the programs (`AtParse` ... `Verified`), each with what has
been computed by then. The rows of a file and the entries of the lists are in bijection, so that
lengths can be counted by rows (`GraphRight`, `PairsCounted`). A cast keeps numbers that fit, and otherwise
is never larger than the number cast (`Int32Right`), so the engine makes at most the walks there are
buffers for, and a walk that was not made has length 0. Walks are made by a recursion over their length (`WalksRight`). The centre is
`MadeIsReal`: a walk passes `verify_walk` exactly if it is a real walk of the file, and exactly if it is among
those the engine made. Both theorems about the results follow by counting.

**Only model-checked**: `CallReturns` and `RetriesEnd`, which are liveness under fairness and, like
`ENABLED`, out of the prover's reach. The three runs that expect a violation have no theorem; they refute.
Whether the modelled parts fit together is part of the models: `TeaPrograms` and `Node2Vec` are built on the
operators that `TemporalAdjacency` and `PrefixSampler` promise, and the refinements above show that `TemporalGraph`,
`Pat` and `Hpat` keep these promises; there is no single module with all of the system's steps.

## Plan

All of it is done, in this order: `TemporalGraph`, `WalkEngine`, `Hpat` with `AuxIndex`, `AliasTable`, `Pat`,
`NeighborSets`, `Bias`, `Node2Vec`, `TeaPrograms`; then the proofs: types and races of the graph and the engine,
their refinements, the slices of the neighbour sets, tables and the rejection loop, the arenas of `Pat` and `Hpat`, their
refinements of `PrefixSampler`, the auxiliary index, and the programs. A next step would be a module that composes the graph's
build with the engine, so that the callers' barrier between them is a step too.

## Not modelled

- The bits of PCG64 and floating-point arithmetic, except the bounded rounding in
  the alias construction and weights that underflow: data no property tells apart. The rounding
  of the sum `total` is part of the factor `n / total`, and so of each scaled weight; that the total is
  finite, and large enough for the factor to be finite, is assumed.
- Printing, timing and memory accounting, and which sample walks the verifier prints: no
  later behaviour depends on them.
- What makes the characters of a CSV line bad, and how `strtoll`, `atoi` and `atof` read
  digits: a line is blank, bad, or its three numbers, and an argument is its number.
- Ids that are negative or INT32_MAX after the cast: indexing by the first and adding 1
  to the second are undefined; files in `programs` have none (`ProgramsAssumption`).
  An id that only becomes another valid one is modelled.
- `TEA_DISABLE_AUX`: it makes the budget 0, and `hpat` and `hpat_no_index` show that
  this changes no sample.
- An exception inside a parallel region or a `noexcept` sampler, which ends the process.
- `kExpBiasRescaleTarget` (`include/tea/config.hpp:53`): no code uses it; the rescaling
  is `timescale_bound` of `bias.hpp`.
- The test programs, read for what they say of the code.
