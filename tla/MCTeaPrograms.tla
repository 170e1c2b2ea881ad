---------------------------- MODULE MCTeaPrograms ----------------------------
(* int32 is 4 bits wide here (-8..7), so that 8 walks are too many.  The   *)
(* walks of "rich" branch and meet ties, a self loop, the sentinel's time  *)
(* and a far older edge; "fork", "chain" and "star" have 2, 3 and 4 start  *)
(* vertices and no choice.                                                 *)
EXTENDS TeaPrograms, TLC

MCMaxTime == 9
Header == [kind |-> "bad"]
Blank == [kind |-> "blank"]
R(x, y, time) == [kind |-> "edge", u |-> x, v |-> y, t |-> time]

MCFiles ==
    ("rich" :> <<Header, R(0, 1, 5), R(1, 0, 3), R(2, 0, 4), Blank, R(0, 2, 3), R(1, 1, 5),
                 R(0, 1, 0), R(2, 3, 9), Blank>>)
    @@ ("fork" :> <<Header, R(0, 1, 2), R(18, 2, 2), Blank>>)
    @@ ("chain" :> <<Header, R(0, 1, 3), R(1, 2, 4), R(2, 3, 5)>>)
    @@ ("star" :> <<Header, R(0, 1, 3), R(0, 2, 3), R(0, 3, 3), R(0, 4, 9)>>)
    @@ ("header" :> <<Header>>)
    @@ ("no_rows" :> <<Header, Blank, Blank>>)
    @@ ("empty" :> <<>>)
    @@ ("bad" :> <<Header, R(0, 1, 2), Header>>)

MCCalls ==
    {[edges |-> read_edges_csv(path), num_vertices |-> max_node_id(read_edges_csv(path)) + 1,
      is_directed |-> dir] :
        path \in {p \in DOMAIN MCFiles : Readable(p)}, dir \in BOOLEAN}

MCArgVs ==
    {<<>>, <<"--help">>, <<"missing">>, <<"fork">>, <<"fork", "newest">>, <<"fork", "linear", "pat">>,
     <<"fork", "uniform", "tea_pat", 1, 0>>, <<"fork", "uniform", "tea_pat", 1, 1, -1>>,
     <<"fork", "linear", "tea_pat", 0, 1, 1>>}
    \cup {<<path>> : path \in {"empty", "bad", "header", "no_rows", "chain", "star"}}
    \cup {<<"header", "temporal_node2vec">>}
    \cup {<<"rich", picker, variant, dir, 1, 3, bound>> :
              picker \in Pickers, variant \in Variants, dir \in {0, 1}, bound \in {-1, 2}}
    \cup {<<path, picker, "tea_hpat", 1, wpn, 2>> :
              path \in {"fork", "chain", "star"}, picker \in {"linear", "temporal_node2vec"},
              wpn \in 1..7}
=============================================================================
