---------------------------- MODULE ProvenanceTree ----------------------------
(***************************************************************************)
(* How the tree of an experiment is built and hashed                        *)
(* (core/src/qubitos/provenance/builder.py, nodes.py).  A hash is            *)
(* what it is computed from: hashes are equal exactly when SHA-256 is fed    *)
(* the same, and the sort of the child hashes makes them a bag.              *)
(***************************************************************************)
EXTENDS Naturals, Sequences, Bags, SequencesExt

CONSTANTS Labels, Contents, Empty
ASSUME EmptyAssumption == Empty \in Contents

\* What an experiment records: labelled parts.  json: everything in it can be written as
\* JSON, which set_metadata does not ask for.
Part == [label : Labels, content : Contents]
Experiment == [qubits : Seq(Part), pulses : Seq(Part), config : Seq(Part),
               events : Seq(Part), json : BOOLEAN]

\* The label of a leaf is made from what its content holds too.
HashLeaf(type, label, content) ==
  [type |-> type, content |-> <<label, content>>, children |-> EmptyBag]

HashInternal(type, hashes) ==
  [type |-> type, content |-> <<>>,
   children |-> [h \in Range(hashes) |-> Cardinality({k \in DOMAIN hashes : hashes[k] = h})]]

Leaf(type, label, content) ==
  [type |-> type, label |-> label, content |-> content, children |-> <<>>,
   hash |-> HashLeaf(type, label, content)]

Internal(type, label, children) ==
  [type |-> type, label |-> label, content |-> Empty, children |-> children,
   hash |-> HashInternal(type, [k \in DOMAIN children |-> children[k].hash])]

Leaves(type, parts) == [k \in DOMAIN parts |-> Leaf(type, parts[k].label, parts[k].content)]

\* A section without parts is a leaf of its own.
Section(type, label, children) ==
  IF children = <<>> THEN Leaf(type, label, Empty) ELSE Internal(type, label, children)

\* ProvenanceBuilder.build
Build(e) ==
  LET calibration == Internal("calibration", "calibration", Leaves("qubit_calibration", e.qubits))
      pulses == Section("pulse_sequence", "pulse_sequence", Leaves("scheduled_pulse", e.pulses))
      config == Section("config", "config", Leaves("grape_config", e.config))
      experiment == Internal("experiment", "experiment", <<pulses, config>>)
  IN Internal("root", "", <<calibration, experiment>> \o Leaves("drift_event", e.events))
=============================================================================
