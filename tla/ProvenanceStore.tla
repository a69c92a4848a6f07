---------------------------- MODULE ProvenanceStore ----------------------------
(***************************************************************************)
(* The store of provenance trees (core/src/qubitos/provenance/store.py): an *)
(* ordered dictionary in each process that uses it, written to one file in   *)
(* full after every change.  Writing opens the file, which empties it, and   *)
(* fills it; the process can end in between, the tree can turn out not to be  *)
(* JSON, and nothing keeps two processes from using the file at once.         *)
(***************************************************************************)
EXTENDS ProvenanceTree

CONSTANTS
  Processes,
  Experiments, \* the experiments whose trees are stored
  MaxEntries,  \* max_entries of each process
  MaxStores    \* bound on the trees stored (a bound of the model)

ASSUME StoreAssumption ==
  /\ \A e \in Experiments : e \in Experiment
  /\ MaxEntries \in [Processes -> Nat \ {0}] /\ MaxStores \in Nat

VARIABLES
  open,      \* the processes that have a store
  trees,     \* _trees of each, the experiments in the dictionary's order
  saving,    \* the processes between open(..., "w") and the end of json.dump
  disturbed, \* those of them that are not the only one to write meanwhile
  file,      \* the file: state and trees
  stored,    \* history: every experiment stored, in order
  mishaps    \* history: what went wrong with the file

storeVars == <<open, trees, saving, disturbed, file, stored, mishaps>>

Torn == [state |-> "torn", trees |-> <<>>]
Intact(ts) == [state |-> "intact", trees |-> ts]
Mishaps == {"interrupted", "not_json", "shared"}

Hash(e) == Build(e).hash

\* The keys of a dictionary.
HashesDiffer(ts) == IsInjective([k \in DOMAIN ts |-> Hash(ts[k])])

StoreTypeOK ==
  /\ open \subseteq Processes /\ saving \subseteq open /\ disturbed \subseteq saving
  /\ trees \in [Processes -> Seq(Experiments)]
  /\ \A p \in Processes : HashesDiffer(trees[p])
  /\ file.state \in {"absent", "torn", "intact"} /\ file.trees \in Seq(Experiments)
  /\ stored \in Seq(Experiments) /\ Len(stored) <= MaxStores
  /\ mishaps \subseteq Mishaps

StoreInit ==
  /\ open = {} /\ saving = {} /\ disturbed = {}
  /\ trees = [p \in Processes |-> <<>>]
  /\ file = [state |-> "absent", trees |-> <<>>]
  /\ stored = <<>> /\ mishaps = {}

\* ProvenanceStore(persist_path=...): a file that cannot be parsed counts as empty, and
\* max_entries does not limit what is loaded.
Open(p) ==
  /\ p \notin open /\ open' = open \cup {p}
  /\ trees' = [trees EXCEPT ![p] = IF file.state = "intact" THEN file.trees ELSE <<>>]
  /\ mishaps' = mishaps \cup (IF open # {} THEN {"shared"} ELSE {})
  /\ UNCHANGED <<saving, disturbed, file, stored>>

\* One tree goes at most.
EvictedOnce(ts, max) == IF Len(ts) > max THEN SubSeq(ts, 2, Len(ts)) ELSE ts

\* The dictionary after a store: a tree with a known hash replaces the old one and moves
\* to the end; then the first ones go.
Evicted(ts, max) == IF Len(ts) > max THEN SubSeq(ts, Len(ts) - max + 1, Len(ts)) ELSE ts

\* A tree that is known keeps its place.
EnteredInPlace(ts, e, max) ==
  IF \E k \in DOMAIN ts : Hash(ts[k]) = Hash(e)
  THEN Evicted([k \in DOMAIN ts |-> IF Hash(ts[k]) = Hash(e) THEN e ELSE ts[k]], max)
  ELSE Evicted(Append(ts, e), max)

Entered(ts, e, max) ==
  LET known == {k \in DOMAIN ts : Hash(ts[k]) = Hash(e)}
      others == IF known = {} THEN ts ELSE RemoveAt(ts, CHOOSE k \in known : TRUE)
  IN Evicted(Append(others, e), max)

\* store(), up to the file being opened for writing.
Store(p, e) ==
  /\ p \in open \ saving /\ Len(stored) < MaxStores
  /\ trees' = [trees EXCEPT ![p] = Entered(@, e, MaxEntries[p])]
  /\ stored' = Append(stored, e)
  /\ saving' = saving \cup {p}
  /\ disturbed' = IF saving = {} THEN {} ELSE saving \cup {p}
  /\ file' = Torn
  /\ UNCHANGED <<open, mishaps>>

Writable(p) == \A k \in DOMAIN trees[p] : trees[p][k].json

\* The end of json.dump.  Where two processes wrote, either's text may lie over the other's.
Saved(p) ==
  /\ p \in saving /\ Writable(p)
  /\ \/ file' = Intact(trees[p])
     \/ p \in disturbed /\ file' = Torn
  /\ saving' = saving \ {p} /\ disturbed' = (disturbed \cup saving) \ {p}
  /\ UNCHANGED <<open, trees, stored, mishaps>>

\* json.dump raises where it meets what is not JSON; the tree stays in memory.
NotJson(p) ==
  /\ p \in saving /\ ~Writable(p)
  /\ saving' = saving \ {p} /\ disturbed' = (disturbed \cup saving) \ {p}
  /\ file' = Torn
  /\ mishaps' = mishaps \cup {"not_json"}
  /\ UNCHANGED <<open, trees, stored>>

\* The process ends, in the middle of a save or not.
Exit(p) ==
  /\ p \in open
  /\ open' = open \ {p} /\ saving' = saving \ {p} /\ disturbed' = disturbed \ {p}
  /\ trees' = [trees EXCEPT ![p] = <<>>]
  /\ mishaps' = mishaps \cup (IF p \in saving THEN {"interrupted"} ELSE {})
  /\ UNCHANGED <<file, stored>>

StoreNext == \E p \in Processes :
  \/ Open(p) \/ Saved(p) \/ NotJson(p) \/ Exit(p)
  \/ \E e \in Experiments : Store(p, e)

StoreSpec == StoreInit /\ [][StoreNext]_storeVars

-----------------------------------------------------------------------------
(* Properties                                                               *)

\* The n trees with different hashes that were stored last.
Recent(n) ==
  {e \in Range(stored) : \E k \in DOMAIN stored :
     /\ stored[k] = e
     /\ Cardinality({Hash(stored[j]) : j \in k..Len(stored)}) <= n
     /\ \A j \in (k + 1)..Len(stored) : Hash(stored[j]) # Hash(e)}

Least == CHOOSE n \in {MaxEntries[p] : p \in Processes} : \A p \in Processes : n <= MaxEntries[p]

\* As long as no save is interrupted or fails and no two processes have the store at the
\* same time, the trees stored last, over all processes and restarts, are in the file and
\* in every open store (store.py 51-66, 99-127).
RecentKept ==
  mishaps = {} /\ saving = {} /\ stored # <<>> =>
    /\ file.state = "intact" /\ Recent(Least) \subseteq Range(file.trees)
    /\ Cardinality(open) = 1 => \A p \in open : trees[p] = file.trees

\* A store holds more than max_entries only between its opening, which may load more, and
\* its first change, which evicts as many as it takes (store.py 51-66, 109-127).
StoreBounded == [][\A p \in Processes :
  Len(trees'[p]) > MaxEntries[p] => trees'[p] = trees[p] \/ p \notin open]_storeVars
=============================================================================
