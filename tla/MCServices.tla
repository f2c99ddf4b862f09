----------------------------- MODULE MCServices -----------------------------
(***************************************************************************)
(* Five components that share no state, checked in one run: part names the *)
(* one that steps, the others stay as they start.                          *)
(***************************************************************************)
EXTENDS EditLock, EngramCache, Extraction, ToolResult, Connections, TLC

CONSTANTS session1, session2, editor1, editor2

EditorIds == session1 :> editor1 @@ session2 :> editor2

VARIABLE part

Init ==
  /\ part \in {"lock", "cache", "extraction", "result", "connections"}
  /\ LockInit /\ (part = "lock" \/ enabled)
  /\ ResultInit /\ (part = "result" \/ outcome = [runes |-> <<>>, bypass |-> FALSE])
  /\ CacheInit /\ ExtractionInit /\ ConnInit

Next ==
  \/ /\ part = "lock" /\ LockNext
     /\ UNCHANGED <<part, cacheVars, extractionVars, resultVars, connVars>>
  \/ /\ part = "cache" /\ CacheNext
     /\ UNCHANGED <<part, lockVars, extractionVars, resultVars, connVars>>
  \/ /\ part = "extraction" /\ ExtractionNext
     /\ UNCHANGED <<part, lockVars, cacheVars, resultVars, connVars>>
  \/ /\ part = "result" /\ Invoke
     /\ UNCHANGED <<part, lockVars, cacheVars, extractionVars, connVars>>
  \/ /\ part = "connections" /\ ConnNext
     /\ UNCHANGED <<part, lockVars, cacheVars, extractionVars, resultVars>>

Spec ==
  Init /\ [][Next]_<<part, lockVars, cacheVars, extractionVars, resultVars, connVars>>

\* The types of all five.
TypeOK ==
  /\ LockTypeOK /\ CacheTypeOK /\ ExtractionTypeOK /\ ConnTypeOK
  /\ text.kind \in {"none", "ok", "raised"} \cup Classes

\* No definition tells engrams apart, or calls of the memory manager.
Symmetry == Permutations(Engrams) \cup Permutations(MemoryCalls)
=============================================================================
