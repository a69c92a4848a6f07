---------------------------- MODULE MCPulseService ----------------------------
(***************************************************************************)
(* Two backend names and two backend objects of different size.  One handler *)
(* is enough: handlers share nothing but the registry, which they only read  *)
(* and which Admin changes at every point of the handler.                    *)
(***************************************************************************)
EXTENDS PulseService

CONSTANTS qutip, iqm, small, large

MCNumQubits == [o \in {small, large} |-> IF o = small THEN 1 ELSE 2]

Pulse(name, formed, target, measure) ==
  [backend |-> name, wellFormed |-> formed, inRange |-> TRUE, target |-> target, measure |-> measure]

toDefault == Pulse(NoName, TRUE, <<0>>, <<>>)     \* fits both backends
toNamed == Pulse(iqm, TRUE, <<1>>, <<>>)          \* fits the larger one only
malformed == Pulse(iqm, FALSE, <<0>>, <<>>)
repeated == Pulse(NoName, TRUE, <<0, 0>>, <<>>)   \* the same qubit twice
measured == Pulse(NoName, TRUE, <<1>>, <<0>>)     \* measures a qubit it does not drive

MCRequests == {toDefault, toNamed, malformed, repeated, measured}
MCBatches == UNION {[1..n -> {toDefault, toNamed, malformed}] : n \in 0..2}
               \cup {<<toDefault, malformed, toDefault>>}
=============================================================================
