----------------------------- MODULE MCTaskRun -----------------------------
(* TLC instances of TaskRun.                                               *)
EXTENDS TaskRun, TLC

CONSTANT First   \* one of the runs

\* Runs that have the same rights are interchangeable.
RunSymmetry == Permutations(Runs)

\* At most one of the requests names an unknown task and at most one continues a
\* topic, of a run of this task or of another.
OneInit ==
  /\ Init
  /\ Cardinality({r \in Runs : TaskOf(r) = UnknownTask}) <= 1
  /\ Cardinality({r \in Runs : req[r].cont # None}) <= 1

OneSpec == OneInit /\ [][Next]_vars

\* Two requests for one task, each for a topic of its own, up to renaming the keys.
PairInit ==
  /\ Init
  /\ \A r \in Runs : TaskOf(r) # UnknownTask /\ req[r].cont = None
  /\ req[First].key = "id"

PairSpec == PairInit /\ [][Next]_vars /\ Fairness
=============================================================================
