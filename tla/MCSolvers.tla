------------------------------ MODULE MCSolvers ------------------------------
(***************************************************************************)
(* Qubits (d = 2), pulses of one to three steps over three levels, propagators to*)
(* first order; states, Hamiltonians and decay times that exercise every *)
(* term of the equations; ensembles of two trajectories over two slices.       *)
(***************************************************************************)
EXTENDS Solvers

R(x) == <<x, 0>>
I(y) == <<0, y>>

\* Arbitrary coefficients, all different: what is checked is where each one goes.  With
\* this one of order 12, Pauli X has a denominator that needs another row as its pivot.
MCPade == [k \in 0..13 |-> IF k = 12 THEN 186 ELSE 3 * k * k + k + 1]
MCHamiltonians == {<<<<R(a), <<b, c>>>>, <<<<b, -c>>, R(d)>>>> : a, d \in {0, 2}, b, c \in {0, 1, 2}}

MCInitialI == <<<<0>>, <<0, 1>>, <<0, 1, 0>>>>
MCInitialQ == <<<<1>>, <<1, -1>>, <<1, -1, 0>>>>
MCLevels == -1..1
MCPropagator ==
  LET table(i, q) == <<<<One, <<-q, -i>>>>, <<<<q, -i>>, One>>>>   \* 1 - i (i X + q Y)
  IN [d \in {0, 2} |-> [a \in MCLevels \X MCLevels |-> IF d = 0 THEN <<>> ELSE table(a[1], a[2])]]

PauliX == <<0, 0, 1, 0, 1, 0, 0, 0>>
PauliY == <<0, 0, 0, -1, 0, 1, 0, 0>>
PhaseGate == <<1, 0, 0, 0, 0, 0, 0, -1>>
Config(steps, target, iterations) ==
  [num_time_steps |-> steps, duration_ns |-> 20, target_fidelity |-> target,
   max_iterations |-> iterations, learning_rate |-> 1]
MCGrapeCalls ==
  LET call(config, target, controls, dim) ==
        [config |-> config, target |-> target, drift |-> target, controls |-> controls, dim |-> dim]
      both == <<PauliX, PauliY>>
  IN {call(Config(n, f, 3), u, both, 2) : n \in {1, 2}, f \in {4, 6}, u \in {PauliX, PhaseGate}}
       \cup {call(Config(3, 6, 1), PhaseGate, both, 2)}
       \cup {call(Config(1, 0, 2), <<>>, <<<<>>, <<>>>>, 0), call(Config(1, 7, 2), PauliX, both, 2),
             call(Config(1, 6, 2), PauliX, <<PauliX>>, 2), call(Config(1, 6, 2), <<1>>, both, 2)}

\* A landscape with a ridge off the axes and a corner where the evolution is not a number.
MCOpenFidelity ==
  LET pulses(n) == [1..n -> -2..2] \X [1..n -> -2..2]
      height(i, q) == 4 - ((i + q - 2) * (i + q - 2)) \div 2 + i
      value(p, n) ==
        IF \E t \in 1..n : p[1][t] = -2 /\ p[2][t] = -2 THEN NaN
        ELSE LET h == height(p[1][1], p[2][n]) IN IF h < 0 THEN 0 ELSE h
  IN [p \in pulses(1) \cup pulses(2) |-> value(p, Len(p[1]))]
MCOpenCalls ==
  {[grape |-> Config(n, f, 3), fd_epsilon |-> 1, rates |-> rates] :
     n \in {1, 2}, f \in {0, 5, 6}, rates \in {{1}, {-1}}}
  \cup {[grape |-> Config(1, 5, 3), fd_epsilon |-> 0, rates |-> {1}]}

MCLindbladCalls ==
  {[num_time_steps |-> n, duration_ns |-> 4, t1 |-> t1, t2 |-> t2, store_trajectory |-> store,
    rho |-> r, hamiltonians |-> hs, dim |-> 2] :
     n \in {1, 2}, t1 \in {3, 5}, t2 \in {4, 6, 7}, store \in BOOLEAN,
     r \in {<<1, 0, 0, 0, 0, 0, 0, 0>>, <<2, 0, 3, 1, 3, -1, -1, 0>>, <<0, 1, 1, 0>>},
     hs \in {<<PauliX>>, <<PauliX, PauliY>>, <<PauliX, <<1, 0, 2, -3, 2, 3, 5, 0>>>>}}
  \cup {[num_time_steps |-> 1, duration_ns |-> 4, t1 |-> 3, t2 |-> 4, store_trajectory |-> TRUE,
         rho |-> <<1, 0>>, hamiltonians |-> <<<<2, 0>>>>, dim |-> 1]}

\* (1 + r . sigma), twice a density matrix of Bloch vector r.
Bloch(x, y, z) == <<1 + z, 0, x, -y, x, y, 1 - z, 0>>
MCFeedbackCalls ==
  {[axes |-> axes, gains |-> gains, cap |-> cap, full |-> NoGainMatrix,
    target |-> Bloch(0, 0, -1), state |-> Bloch(x, y, z)] :
     axes \in {<<"x">>, <<"y", "x">>, <<"z", "x", "y">>}, gains \in {<<1>>, <<2, 1>>, <<-1>>, <<NotFinite>>},
     cap \in {0, 1}, x, y \in {-1, 0, 1}, z \in {0, 1}}
  \cup {[axes |-> <<"x", "z">>, gains |-> <<>>, cap |-> 1, full |-> f,
         target |-> Bloch(0, 1, 0), state |-> Bloch(1, 0, 0)] :
           f \in {<<1, 0, 0, 0, 1, 1, 0, 0, 1>>, <<1>>}}

MCMeasuredSteps ==
  {[rho |-> r, h |-> h, t1 |-> 3, t2 |-> 4, operator |-> c, root |-> 3, rate |-> 2, dt |-> 5, noise |-> 7] :
     r \in {<<<<R(3), <<2, 1>>>>, <<<<2, -1>>, R(-2)>>>>, Diagonal(2, Half), <<<<One, Zero>>, <<Zero, Zero>>>>},
     h \in {<<<<R(2), <<1, 1>>>>, <<<<1, -1>>, R(0)>>>>, Zeros(2)},
     c \in {<<>>, <<<<R(1), I(2)>>, <<R(3), I(-1)>>>>}}

MCSmeCalls ==
  LET call(ensemble, n, eta, projection, dim) ==
        [ensemble |-> ensemble, n |-> n, slices |-> 2, duration |-> 20, eta |-> eta, tolerance |-> 1,
         positivity |-> 1, projection |-> projection, seed |-> 3, dim |-> dim,
         hamiltonians |-> 2, physical |-> TRUE]
  IN {call(FALSE, 1, 1, p, d) : p \in BOOLEAN, d \in {2, 3}}
       \cup {[call(TRUE, 2, 1, FALSE, 2) EXCEPT !.slices = 1, !.hamiltonians = 1], call(TRUE, 0, 1, FALSE, 2),
             call(TRUE, 2, 0, FALSE, 2), [call(TRUE, 2, 1, TRUE, 2) EXCEPT !.physical = FALSE],
             [call(FALSE, 1, 1, FALSE, 2) EXCEPT !.hamiltonians = 1]}
=============================================================================
