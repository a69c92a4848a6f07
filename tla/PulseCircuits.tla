---------------------------- MODULE PulseCircuits ----------------------------
(***************************************************************************)
(* The circuits a pulse becomes on the cloud backends: hal/src/backend/iqm,     *)
(* ibm and braket pulse_to_*, and compiler.rs.  Angles are whole quarter turns   *)
(* and a sample drives one axis, so that every phase is one too.              *)
(***************************************************************************)
EXTENDS Integers, Sequences, SequencesExt

NotFinite == -1   \* an angle that is infinite or not a number; no magnitude is negative

\* samples: <<i, q>> of each time step; dt: the area of a sample of one, in quarter turns,
\* NotFinite when num_time_steps is zero (gRPC does not look at it).
PulseType == [samples : Seq(Int \X Int), dt : Nat \cup {NotFinite}, targets : Seq(Nat), shots : Nat]

Magnitude(s) == IF s[1] # 0 THEN IF s[1] > 0 THEN s[1] ELSE -s[1] ELSE IF s[2] > 0 THEN s[2] ELSE -s[2]
Area(samples) == FoldLeft(LAMBDA sum, s : <<sum[1] + s[1], sum[2] + s[2]>>, <<0, 0>>, samples)
\* atan2, of a vector on an axis.
Phase(area) ==
  CASE area[2] > 0 -> 1 [] area[2] < 0 -> 3 [] area[1] < 0 -> 2 [] OTHER -> 0

\* extract_rotation_params: the mean of the magnitudes, whatever the duration.
ExtractRotationParams(samples) ==
  [angle |-> IF samples = <<>> THEN 0
             ELSE FoldLeft(LAMBDA sum, s : sum + Magnitude(s), 0, samples) \div Len(samples),
   phase |-> Phase(Area(samples))]

\* pulse_rotation: the magnitude of the area.
PulseRotation(pulse) ==
  LET area == Area(pulse.samples)
  IN IF pulse.dt = NotFinite THEN [angle |-> NotFinite, phase |-> NotFinite]
     ELSE [angle |-> pulse.dt * Magnitude(area), phase |-> Phase(area)]

Rotation(provider, pulse) ==
  IF provider = "iqm" THEN ExtractRotationParams(pulse.samples) ELSE PulseRotation(pulse)

-----------------------------------------------------------------------------
(* pulse_to_circuit and the two pulse_to_qasm                               *)

Gate(name, qubit, angle, phase) == [name |-> name, qubit |-> qubit, angle |-> angle, phase |-> phase]
Measure(qubits) == [k \in DOMAIN qubits |-> Gate("measure", qubits[k], 0, 0)]
Negative(phase) == IF phase = NotFinite THEN NotFinite ELSE (4 - phase) % 4

\* IQM: the target qubits by their own names; of three and more only two are driven.
IqmCircuit(pulse) ==
  LET turn == ExtractRotationParams(pulse.samples)
      targets == pulse.targets
      driven == IF Len(targets) > 2 THEN SubSeq(targets, 1, 2) ELSE targets
      cz == IF Len(targets) < 2 THEN <<>> ELSE <<Gate("cz", driven[1], 0, 0)>>
      prx == IF turn.angle = 0 THEN <<>>
             ELSE [k \in DOMAIN driven |-> Gate("prx", driven[k], turn.angle, turn.phase)]
  IN cz \o prx \o Measure(targets)

Renumbered(targets) == [k \in DOMAIN targets |-> k - 1]
\* Mutant: the turn of the first qubit only.
QasmOfFirst(provider, pulse) ==
  LET turn == PulseRotation(pulse)
  IN <<Gate("rz", 0, turn.phase, 0), Gate("rx", 0, turn.angle, 0),
       Gate("rz", 0, Negative(turn.phase), 0)>> \o Measure(Renumbered(pulse.targets))
\* IBM and Braket: qubits renumbered from zero, each turned alike.
Qasm(provider, pulse) ==
  LET turn == PulseRotation(pulse)
      about(q) == IF provider = "ibm"
                    THEN <<Gate("sx", q, 1, 0), Gate("rz", q, turn.angle, 0), Gate("sx", q, 1, 0)>>
                    ELSE <<Gate("rx", q, turn.angle, 0)>>
      turns(q) == <<Gate("rz", q, turn.phase, 0)>> \o about(q) \o <<Gate("rz", q, Negative(turn.phase), 0)>>
      qubits == Renumbered(pulse.targets)
  IN FlattenSeq([k \in DOMAIN qubits |-> turns(qubits[k])]) \o Measure(qubits)

Circuit(provider, pulse) == IF provider = "iqm" THEN IqmCircuit(pulse) ELSE Qasm(provider, pulse)

-----------------------------------------------------------------------------
(* What a circuit does to a qubit, as a rotation of its Bloch vector          *)

RotatedZ(v, n) == CASE n % 4 = 0 -> v [] n % 4 = 1 -> <<-v[2], v[1], v[3]>>
                    [] n % 4 = 2 -> <<-v[1], -v[2], v[3]>> [] n % 4 = 3 -> <<v[2], -v[1], v[3]>>
RotatedX(v, n) == CASE n % 4 = 0 -> v [] n % 4 = 1 -> <<v[1], -v[3], v[2]>>
                    [] n % 4 = 2 -> <<v[1], -v[2], -v[3]>> [] n % 4 = 3 -> <<v[1], v[3], -v[2]>>
Applied(gate, v) ==
  CASE gate.name = "rz" -> RotatedZ(v, gate.angle)
    [] gate.name \in {"rx", "sx"} -> RotatedX(v, gate.angle)
    [] gate.name = "prx" -> RotatedZ(RotatedX(RotatedZ(v, -gate.phase), gate.angle), gate.phase)
    [] OTHER -> v
Ground == <<0, 0, 1>>
Final(circuit, qubit) ==
  FoldLeft(LAMBDA v, gate : IF gate.qubit = qubit THEN Applied(gate, v) ELSE v, Ground, circuit)
=============================================================================
