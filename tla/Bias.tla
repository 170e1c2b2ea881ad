--------------------------------- MODULE Bias ---------------------------------
(***************************************************************************)
(* The static weights of a vertex's edges (include/tea/bias.hpp).  A bias  *)
(* is [kind, timescale_bound]; Node2VecBias forwards to the exponential    *)
(* one.  exp(-x) is any decreasing function that reaches 0: powers of two, *)
(* 0 beyond Horizon.  A scale is a fraction <<numerator, denominator>>.    *)
(***************************************************************************)
EXTENDS Integers, Sequences

CONSTANT Horizon

ASSUME HorizonAssumption == Horizon \in Nat

Exp(x) == IF x > Horizon THEN 0 ELSE 2^(Horizon - x)

(* PerVertexParams{} *)
NoParams == [t_pivot |-> 0, scale |-> <<0, 1>>]

compute_per_vertex_params(b, ts) ==
    IF b.kind # "exponential" \/ ts = <<>> THEN NoParams
    ELSE LET span == ts[Len(ts)] - ts[1]
         IN  [t_pivot |-> ts[Len(ts)],
              scale |-> IF span <= 0 THEN <<0, 1>>
                        ELSE IF b.timescale_bound > 0 THEN <<b.timescale_bound, span>>
                        ELSE <<1, 1>>]

(* LinearBias: the rank of entry i of a slice that starts at slice_start_pos, from 0. *)
Rank(slice_start_pos, i) == slice_start_pos + i

(* ExponentialBias: how far t is before the pivot, scaled. *)
Decay(params, t) == Exp(((params.t_pivot - t) * params.scale[1]) \div params.scale[2])

(* Mutant: slice_start_pos is ignored. *)
MutantWeights(b, ts_slice, params, slice_start_pos) ==
    [i \in 1..Len(ts_slice) |->
        CASE b.kind = "uniform" -> 1
          [] b.kind = "linear" -> Rank(0, i)
          [] b.kind = "exponential" -> Decay(params, ts_slice[i])]

compute_weights(b, ts_slice, params, slice_start_pos) ==
    [i \in 1..Len(ts_slice) |->
        CASE b.kind = "uniform" -> 1
          [] b.kind = "linear" -> Rank(slice_start_pos, i)
          [] b.kind = "exponential" -> Decay(params, ts_slice[i])]

compute_weights_full(b, ts) ==
    compute_weights(b, ts, compute_per_vertex_params(b, ts), 0)
=============================================================================
