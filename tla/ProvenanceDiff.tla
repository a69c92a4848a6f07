---------------------------- MODULE ProvenanceDiff ----------------------------
(***************************************************************************)
(* The difference of two trees of a store (core/src/qubitos/provenance/     *)
(* tree.py and diff.py), and what it says of the experiments they were        *)
(* built of.                                                                *)
(***************************************************************************)
EXTENDS ProvenanceStore

IsLeaf(node) == node.children = <<>>
Key(node) == [type |-> node.type, label |-> node.label]
Keys(node) == {Key(node.children[k]) : k \in DOMAIN node.children}

\* The dict of the children keeps the last of those with the same type and label.
ChildAt(node, key) ==
  node.children[CHOOSE k \in DOMAIN node.children :
    /\ Key(node.children[k]) = key
    /\ \A j \in DOMAIN node.children : Key(node.children[j]) = key => j <= k]

\* ProvenanceTree._diff_recursive at one node: the places of the changed nodes from there on, as
\* paths of keys.  below: those of the children that both nodes have.
ChangedWith(below, a, b, path) ==
  IF a.hash = b.hash THEN {}
  ELSE IF IsLeaf(a) /\ IsLeaf(b) THEN {path}
  ELSE UNION {IF key \in Keys(a) \cap Keys(b) THEN below[key] ELSE {Append(path, key)} :
                key \in Keys(a) \cup Keys(b)}

\* The recursion, from the leaves up: a tree that was built has four levels.
ChangedPart(a, b, path) == ChangedWith([key \in {} |-> {}], a, b, path)
ChangedSection(a, b, path) ==
  ChangedWith([key \in Keys(a) \cap Keys(b) |->
                 ChangedPart(ChildAt(a, key), ChildAt(b, key), Append(path, key))], a, b, path)
ChangedBranch(a, b, path) ==
  ChangedWith([key \in Keys(a) \cap Keys(b) |->
                 ChangedSection(ChildAt(a, key), ChildAt(b, key), Append(path, key))], a, b, path)
Changed(a, b, path) ==
  ChangedWith([key \in Keys(a) \cap Keys(b) |->
                 ChangedBranch(ChildAt(a, key), ChildAt(b, key), Append(path, key))], a, b, path)

\* What only the second tree has is passed over.
DiffOfFirst(a, b) == {p \in Changed(a, b, <<>>) : p # <<>> /\ p[1] \in Keys(a)}

\* ProvenanceTree.diff
Diff(a, b) == IF a.hash = b.hash THEN {} ELSE Changed(a, b, <<>>)

\* Reference: what an experiment records, by the type of its leaves; and where two of
\* them differ.
PartsIn(type, parts) == {<<type, p.label, p.content>> : p \in Range(parts)}
PartsOf(e) ==
  PartsIn("qubit_calibration", e.qubits) \cup PartsIn("scheduled_pulse", e.pulses)
    \cup PartsIn("grape_config", e.config) \cup PartsIn("drift_event", e.events)

Differing(d, e) ==
  {[type |-> p[1], label |-> p[2]] : p \in (PartsOf(d) \ PartsOf(e)) \cup (PartsOf(e) \ PartsOf(d))}

LabelsUnique(e) ==
  \A parts \in {e.qubits, e.pulses, e.config, e.events} :
    \A j, k \in DOMAIN parts : parts[j].label = parts[k].label => j = k

-----------------------------------------------------------------------------
(* Properties                                                               *)

\* For trees whose parts have different labels the difference names exactly the parts that
\* differ; it is empty for trees with one hash, those with the same parts in any order
\* (tree.py 85-174, builder.py 43-54).
DiffExact ==
  \A p \in open : \A j, k \in DOMAIN trees[p] :
    LET d == trees[p][j] e == trees[p][k] IN
      LabelsUnique(d) /\ LabelsUnique(e) =>
        /\ {path[Len(path)] : path \in Diff(Build(d), Build(e))} = Differing(d, e)
        /\ (Differing(d, e) = {}) <=> (Hash(d) = Hash(e))

=============================================================================
