------------------------------ MODULE TeaPrograms ------------------------------
(***************************************************************************)
(* The programs tea_walk and tea_verify_walks (cli/): arguments, CSV file, *)
(* graph, sampler, walks, report or verification.  The library is what its *)
(* own modules promise: the lists of EdgeLists (TemporalGraph), the        *)
(* candidates of positive weight (PrefixSampler, Node2Vec), complete walks *)
(* (TemporalWalk).                                                         *)
(***************************************************************************)
EXTENDS EdgeLists, Bias, Functions

CONSTANTS ArgVs,  \* argv[1], argv[2], ...; numbers as atoi and atof read them
          Files,  \* path -> lines, the header first, of the files that open
          Width,  \* 32: the width of an int32_t
          kDefaultWalksPerNode, kDefaultMaxWalkLen,  \* 20 and 80
          kSentinelStartTimestamp

kWalkDeadSentinel == -1
Programs == {"tea_walk", "tea_verify_walks"}
Pickers == {"uniform", "linear", "exponential", "temporal_node2vec"}
Variants == {"tea_pat", "tea_hpat"}

(* static_cast<int32_t>(x) *)
Int32(x) == ((x + 2^(Width - 1)) % 2^Width) - 2^(Width - 1)

(* A line is blank, or cannot be parsed, or is three numbers. *)
Line == [kind : {"blank", "bad"}] \cup [kind : {"edge"}, u : Int, v : Int, t : Int]

ASSUME ProgramsAssumption ==
    /\ Width \in Nat \ {0} /\ kSentinelStartTimestamp \in Int
    /\ kDefaultWalksPerNode \in Nat \ {0} /\ kDefaultMaxWalkLen \in Nat \ {0}
    /\ \A a \in ArgVs : \A k \in {5, 6, 7} \cap DOMAIN a : a[k] \in Int
    /\ \A path \in DOMAIN Files : Files[path] \in Seq(Line)
    /\ \A path \in DOMAIN Files : \A n \in DOMAIN Files[path] :
           Files[path][n].kind = "edge" =>
               /\ Int32(Files[path][n].u) \in 0..2^(Width - 1) - 2
               /\ Int32(Files[path][n].v) \in 0..2^(Width - 1) - 2
               /\ Files[path][n].t <= kSentinelStartTimestamp

VARIABLES program, argv,            \* what was started, and how
          pc,
          args,                     \* CliArgs
          edges, graph,             \* the rows read; the lists built from them
          index,                    \* the PAT or HPAT, with the bias it holds
          starts, next,             \* start vertices; the walk being made or verified
          walks_out, walk_lens_out, \* walks_out[i]: the max_walk_len cells of walk i
          stats, report,            \* what the engine returned; what was printed
          exit_code

command == <<program, argv>>
engine == <<starts, walks_out, walk_lens_out>>
vars == <<command, pc, args, edges, graph, index, engine, next, stats, report, exit_code>>

-----------------------------------------------------------------------------
(* try_int, try_double and try_str: an argument or its default. *)
Arg(k, default) == IF k \in DOMAIN argv THEN argv[k] ELSE default

CliArgs ==
    [file_path |-> argv[1],
     picker |-> Arg(2, "exponential"),
     variant |-> Arg(3, "tea_hpat"),
     is_directed |-> Arg(4, 1) # 0,
     num_walks_per_node |-> Arg(5, kDefaultWalksPerNode),
     max_walk_len |-> Arg(6, kDefaultMaxWalkLen),
     timescale_bound |-> Arg(7, -1)]

(* Neither parse_picker, parse_variant nor the range checks throw. *)
Valid(a) ==
    /\ a.picker \in Pickers /\ a.variant \in Variants
    /\ a.num_walks_per_node > 0 /\ a.max_walk_len > 0

(* Mutant: reading ends at a blank line. *)
MutantData(path) ==
    {n \in 2..Len(Files[path]) : \A m \in 2..n : Files[path][m].kind # "blank"}

(* The data lines of a file: all but the header and the blank ones. *)
Data(path) == {n \in 2..Len(Files[path]) : Files[path][n].kind # "blank"}

(* read_edges_csv returns: the file opens, is not empty, and parses. *)
Readable(path) ==
    /\ path \in DOMAIN Files /\ Files[path] # <<>>
    /\ \A n \in Data(path) : Files[path][n].kind = "edge"

Row(path, n) == [u |-> Int32(Files[path][n].u), v |-> Int32(Files[path][n].v),
                 t |-> Files[path][n].t]

read_edges_csv(path) ==
    LET nth(k) == CHOOSE n \in Data(path) :
                      Cardinality({m \in Data(path) : m < n}) = k - 1
    IN  [k \in 1..Cardinality(Data(path)) |-> Row(path, nth(k))]

(* compute_edge_stats(edges).max_node_id; -1 without edges. *)
max_node_id(es) == VertexCountOf([edges |-> es, num_vertices |-> -1]) - 1

BiasOf(a) ==
    [kind |-> IF a.picker = "temporal_node2vec" THEN "exponential" ELSE a.picker,
     timescale_bound |-> a.timescale_bound]

make_all_nodes_starts(g, walks_per_node) ==
    LET sources == {v \in DOMAIN g : Len(g[v]) > 0}
        nth(n) == CHOOSE v \in sources : Cardinality({w \in sources : w < v}) = n
    IN  [k \in 1..Cardinality(sources) * walks_per_node |->
            nth((k - 1) \div walks_per_node)]

(* The hops the sampler may return: the index was built with the bias. *)
Hops(s) ==
    LET list == graph[s.v]
        weights == compute_weights_full(index.bias, [k \in DOMAIN list |-> list[k].t])
    IN  {list[k] : k \in {j \in DOMAIN list : list[j].t < s.t /\ weights[j] > 0}}

(* The walks from v that are complete: of n cells, or at a dead end. *)
CompleteWalks(v) ==
    LET Longer(w, n) ==
            IF Len(w) < n - 1 \/ Hops(w[Len(w)]) = {} THEN {w}
            ELSE {Append(w, s) : s \in Hops(w[Len(w)])}
        walks[n \in 1..args.max_walk_len] ==
            IF n = 1 THEN {<<[v |-> v, t |-> kSentinelStartTimestamp]>>}
            ELSE UNION {Longer(w, n) : w \in walks[n - 1]}
    IN  walks[args.max_walk_len]

num_walks == Len(starts)

(* Mutant: walks from every vertex, those without a list among them. *)
MutantEngineWalks == Int32(Cardinality(DOMAIN graph) * args.num_walks_per_node)

(* The number of walks the engine is called with. *)
EngineWalks == Int32(num_walks)

-----------------------------------------------------------------------------
NoArgs == [max_walk_len |-> 0]
NoStats == [num_walks |-> 0, total_steps |-> 0, dead_at_start |-> 0]
NoReport == [scheduled |-> 0, done |-> 0, total_steps |-> 0, dead_at_start |-> -1]

Init ==
    /\ program \in Programs /\ argv \in ArgVs
    /\ pc = "parse" /\ args = NoArgs /\ edges = <<>> /\ graph = <<>>
    /\ index = <<>> /\ starts = <<>> /\ next = 0
    /\ walks_out = <<>> /\ walk_lens_out = <<>>
    /\ stats = NoStats /\ report = NoReport /\ exit_code = -1

Exit(code) == pc' = "exit" /\ exit_code' = code
Goto(stage) == pc' = stage /\ UNCHANGED exit_code

(* main's handler: an exception was thrown. *)
Catch == Exit(IF program = "tea_walk" THEN 2 ELSE 1)

parse_cli_args ==
    /\ pc = "parse"
    /\ \/ argv = <<>> /\ Exit(1) /\ UNCHANGED args
       \/ argv # <<>> /\ argv[1] \in {"--help", "-h"} /\ Exit(0) /\ UNCHANGED args
       \/ /\ argv # <<>> /\ argv[1] \notin {"--help", "-h"}
          /\ IF Valid(CliArgs) THEN Goto("load") /\ args' = CliArgs
                               ELSE Catch /\ UNCHANGED args
    /\ UNCHANGED <<command, edges, graph, index, engine, next, stats, report>>

(* The rows are read, and the graph is built from all of them. *)
LoadFile ==
    /\ pc = "load" /\ Readable(args.file_path)
    /\ edges' = read_edges_csv(args.file_path)
    /\ LET call == [edges |-> edges', num_vertices |-> max_node_id(edges') + 1,
                    is_directed |-> args.is_directed]
       IN  graph' = [v \in 0..VertexCountOf(call) - 1 |-> ListOf(call, v)]
    /\ Goto("run")
    /\ UNCHANGED <<command, args, index, engine, next, stats, report>>

RejectFile ==
    /\ pc = "load" /\ ~Readable(args.file_path)
    /\ Catch
    /\ UNCHANGED <<command, args, edges, graph, index, engine, next, stats, report>>

(* The index, the start vertices and value-initialised buffers. *)
Prepare ==
    /\ index' = [variant |-> args.variant, bias |-> BiasOf(args)]
    /\ starts' = make_all_nodes_starts(graph, args.num_walks_per_node)
    /\ walks_out' = [w \in 0..Len(starts') - 1 |->
                        [s \in 1..args.max_walk_len |-> [v |-> 0, t |-> 0]]]
    /\ walk_lens_out' = [w \in 0..Len(starts') - 1 |-> 0]
    /\ UNCHANGED <<command, args, edges, graph, next, stats, report>>

(* tea_walk without node2vec leaves when there is nothing to walk from. *)
run_non_node2vec ==
    /\ pc = "run" /\ program = "tea_walk" /\ args.picker # "temporal_node2vec"
    /\ Prepare
    /\ IF starts' = <<>> THEN Exit(0) ELSE Goto("walk")

run_node2vec ==
    /\ pc = "run" /\ program = "tea_walk" /\ args.picker = "temporal_node2vec"
    /\ Prepare /\ Goto("walk")

verify_non_node2vec ==
    /\ pc = "run" /\ program = "tea_verify_walks" /\ args.picker # "temporal_node2vec"
    /\ Prepare /\ Goto("walk")

verify_node2vec ==
    /\ pc = "run" /\ program = "tea_verify_walks" /\ args.picker = "temporal_node2vec"
    /\ Prepare /\ Goto("walk")

(* std::bad_alloc, while anything of the above is built. *)
OutOfMemory ==
    /\ pc \in {"load", "run"} /\ Catch
    /\ UNCHANGED <<command, args, edges, graph, index, engine, next, stats, report>>

(* run_walks_* is called: one walk after another. *)
Walk ==
    /\ pc = "walk" /\ next < EngineWalks
    /\ \E walk \in CompleteWalks(starts[next + 1]) :
           /\ walks_out' = [walks_out EXCEPT ![next] =
                  [s \in 1..args.max_walk_len |->
                      IF s <= Len(walk) THEN walk[s] ELSE [v |-> kWalkDeadSentinel, t |-> 0]]]
           /\ walk_lens_out' = [walk_lens_out EXCEPT ![next] = Len(walk)]
    /\ next' = next + 1
    /\ UNCHANGED <<command, pc, args, edges, graph, index, starts, stats, report, exit_code>>

(* Mutant: the stats count the walks that were asked for. *)
MutantRunStats ==
    [num_walks |-> num_walks,
     total_steps |-> SumFunction(walk_lens_out),
     dead_at_start |-> Cardinality({w \in 0..next - 1 : walk_lens_out[w] <= 1})]

(* WalkRunStats, from the engine's own num_walks. *)
RunStats ==
    [num_walks |-> EngineWalks,
     total_steps |-> SumFunction(walk_lens_out),
     dead_at_start |-> Cardinality({w \in 0..next - 1 : walk_lens_out[w] <= 1})]

WalksReturn ==
    /\ pc = "walk" /\ next >= EngineWalks
    /\ stats' = RunStats /\ next' = 0
    /\ Goto(IF program = "tea_walk" THEN "report" ELSE "verify")
    /\ UNCHANGED <<command, args, edges, graph, index, engine, report>>

(* run_node2vec does not print the walks that were dead at their start. *)
Report ==
    /\ pc = "report" /\ Exit(0)
    /\ report' = [scheduled |-> num_walks, done |-> stats.num_walks,
                  total_steps |-> stats.total_steps,
                  dead_at_start |-> IF args.picker = "temporal_node2vec" THEN -1
                                    ELSE stats.dead_at_start]
    /\ UNCHANGED <<command, args, edges, graph, index, engine, next, stats>>

edge_in_inbound(u, s) == \E k \in DOMAIN graph[u] : graph[u][k] = s

verify_walk(w) ==
    LET slots == walks_out[w]
        walk_len == walk_lens_out[w]
    IN  /\ slots[1].t = kSentinelStartTimestamp
        /\ walk_len \in 1..args.max_walk_len
        /\ \A k \in 2..walk_len :
               /\ slots[k].v # kWalkDeadSentinel
               /\ slots[k].t < slots[k - 1].t
               /\ edge_in_inbound(slots[k - 1].v, slots[k])
        /\ \A k \in walk_len + 1..args.max_walk_len : slots[k].v = kWalkDeadSentinel

(* Mutant: the walks the engine reports are verified. *)
MutantToVerify == stats.num_walks

(* How many walks the loop verifies: all that were asked for. *)
ToVerify == num_walks

die_on_step == Exit(2)

VerifyNext ==
    /\ pc = "verify" /\ next < ToVerify
    /\ IF verify_walk(next) THEN Goto("verify") /\ next' = next + 1
                            ELSE die_on_step /\ UNCHANGED next
    /\ UNCHANGED <<command, args, edges, graph, index, engine, stats, report>>

AllVerified ==
    /\ pc = "verify" /\ next >= ToVerify
    /\ Exit(0)
    /\ UNCHANGED <<command, args, edges, graph, index, engine, next, stats, report>>

Next == \/ parse_cli_args \/ LoadFile \/ RejectFile
        \/ run_non_node2vec \/ run_node2vec \/ verify_non_node2vec \/ verify_node2vec
        \/ OutOfMemory \/ Walk \/ WalksReturn \/ Report \/ VerifyNext \/ AllVerified

Spec == Init /\ [][Next]_vars
-----------------------------------------------------------------------------
(* Properties *)

(* Never is the engine asked for more walks than there are start vertices  *)
(* and buffers, which it has no way to check.                              *)
TypeOK ==
    /\ pc \in {"parse", "load", "run", "walk", "report", "verify", "exit"}
    /\ exit_code \in -1..2 /\ (exit_code = -1 <=> pc # "exit")
    /\ args = NoArgs \/ Valid(args)
    /\ \A k \in DOMAIN edges : edges[k] \in Edge
    /\ \A k \in DOMAIN starts : starts[k] \in DOMAIN graph
    /\ DOMAIN walk_lens_out = 0..num_walks - 1 \/ walk_lens_out = <<>>
    /\ \A w \in DOMAIN walk_lens_out : walk_lens_out[w] \in 0..args.max_walk_len
    /\ next \in 0..num_walks
    /\ pc = "walk" => EngineWalks <= num_walks
    /\ stats.num_walks \in Int /\ stats.num_walks <= num_walks
    /\ stats.total_steps \in Nat /\ stats.dead_at_start \in Nat

(* What was asked for, by the file and the arguments alone: walks_per_node *)
(* walks from every vertex that a row leads to.                            *)
RowsOf(path) == {Row(path, n) : n \in {m \in 2..Len(Files[path]) : Files[path][m].kind = "edge"}}
LeadsTo(row, from, to) ==
    \/ row.u = from /\ row.v = to
    \/ ~args.is_directed /\ row.v = from /\ row.u = to
Sources == UNION {{row.v} \cup (IF args.is_directed THEN {} ELSE {row.u}) :
                      row \in RowsOf(args.file_path)}
Scheduled == 0..Cardinality(Sources) * args.num_walks_per_node - 1
StartOf(w) == CHOOSE v \in Sources :
    Cardinality({x \in Sources : x < v}) = w \div args.num_walks_per_node

(* Walk w was made: it starts where it should, and goes back in time along *)
(* rows of the file.                                                       *)
RealWalk(w) ==
    LET n == walk_lens_out[w]
        cell == walks_out[w]
    IN  /\ w \in DOMAIN walk_lens_out /\ n > 0
        /\ cell[1] = [v |-> StartOf(w), t |-> kSentinelStartTimestamp]
        /\ \A k \in 2..n : /\ cell[k].t < cell[k - 1].t
                          /\ \E row \in RowsOf(args.file_path) :
                                 row.t = cell[k].t /\ LeadsTo(row, cell[k].v, cell[k - 1].v)
        /\ \A k \in n + 1..args.max_walk_len : cell[k].v = kWalkDeadSentinel

(* tea_verify_walks.cpp, head comment: once the walks have been made, the  *)
(* verifier ends with 0 if every walk that was asked for is a backward     *)
(* walk along rows of the file, and with 2 if not - also when their number *)
(* does not fit the int32 the engine takes.                                *)
VerifierExact ==
    program = "tea_verify_walks" /\ args # NoArgs /\ exit_code \in {0, 2} =>
        /\ exit_code = 0 <=> \A w \in Scheduled : RealWalk(w)
        /\ num_walks = Cardinality(Scheduled)

(* The report of tea_walk can be trusted: as many walks are scheduled as   *)
(* were asked for, all are reported done only if each of them was made,    *)
(* and the steps are the cells of the walks that were made.                *)
ReportTruthful ==
    program = "tea_walk" /\ args # NoArgs /\ exit_code = 0 =>
        LET made == {w \in Scheduled : RealWalk(w)}
        IN  /\ report.scheduled = Cardinality(Scheduled)
            /\ report.done = report.scheduled <=> made = Scheduled
            /\ report.done >= 0 => report.done = Cardinality(made)
            /\ report.total_steps = Cardinality({cell \in made \X (1..args.max_walk_len) :
                   walks_out[cell[1]][cell[2]].v # kWalkDeadSentinel})
            /\ report.dead_at_start \in
                   {-1, Cardinality({w \in made : args.max_walk_len > 1 =>
                            walks_out[w][2].v = kWalkDeadSentinel})}

(* A program that ends with 0 was asked for help, or has taken in the      *)
(* whole file: every line after the header is blank or a row, and each row *)
(* is in the graph, on each of its sides, once.                            *)
InputComplete ==
    exit_code = 0 /\ argv[1] \notin {"--help", "-h"} =>
        LET lines == Files[argv[1]]
            rows == {n \in 2..Len(lines) : lines[n].kind # "blank"}
            at(v, n) == Cardinality({side \in {"u", "v"} :
                            /\ side = "u" => ~args.is_directed
                            /\ lines[n][side] % 2^Width = v})
        IN  /\ argv[1] \in DOMAIN Files
            /\ \A n \in rows : lines[n].kind = "edge"
            /\ \A v \in DOMAIN graph :
                   Len(graph[v]) = SumFunction([n \in rows |-> at(v, n)])
            /\ \A n \in rows : LET row == Row(argv[1], n) IN
                   /\ edge_in_inbound(row.v, [v |-> row.u, t |-> row.t])
                   /\ ~args.is_directed => edge_in_inbound(row.u, [v |-> row.v, t |-> row.t])
=============================================================================
