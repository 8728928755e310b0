-------------------------- MODULE AdTapeGradient --------------------------
(***************************************************************************)
(* What a sweep over the tape must compute, defined without a tape: the    *)
(* chain rule as a sum over the paths of the expression graph.             *)
(***************************************************************************)
EXTENDS AdTape, Functions

(* The derivative of y with respect to x along the varis in swept: the sum   *)
(* over all paths from y down to x of the product of the partials.           *)
Derivative(swept, x) ==
  LET D[y \in Live] ==
        IF y = x THEN 1
        ELSE SumFunction([c \in {e \in swept : varis[e].from = y} |->
               SumFunction([k \in DOMAIN varis[c].ops |->
                 varis[c].ops[k].d * D[varis[c].ops[k].v]])])
  IN  D

(* A sweep that has run to its end added to every adjoint the derivatives of *)
(* all seeded varis, weighted with their seeds: within the innermost scope   *)
(* the whole chain rule, repeated operands and repeated sweeps included,     *)
(* beyond it only the last edge (grad, vari::chain, jacobian's repeated      *)
(* sweeps).                                                                  *)
SweepIsTransposedJacobian ==
  exception = "none" /\ TopIs("grad") /\ Top.i = Top.beginning =>
    LET swept == {a \in RangeOf(var_stack_) :
                    Depth = 0 \/ a > LastOf(nested_next_locs_)}
    IN  \A x \in Live :
          LET D == Derivative(swept, x)
          IN  adj[x] = SumFunction([y \in Live |-> Top.start[y] * D[y]])
=============================================================================
