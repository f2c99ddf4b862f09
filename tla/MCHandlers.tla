----------------------------- MODULE MCHandlers -----------------------------
(***************************************************************************)
(* Four components that share no state, checked in one run: part names     *)
(* the one that steps, the others stay as they start.                      *)
(***************************************************************************)
EXTENDS AgentExec, StdioConn, SendChat, Palace

CONSTANTS agent1, c1, c2, p1, p2
AgentIds == [o \in Ops |-> agent1]

VARIABLE part

Init ==
  /\ part \in {"agent", "stdio", "chat", "palace"}
  /\ AgentInit /\ (part = "agent" \/ mode = [o \in Ops |-> "chat"])
  /\ StdioInit /\ ChatInit
  /\ PalaceInit /\ (part = "palace" \/ layer = [c \in Children |-> "identities"])
  /\ layer[c1] = "contexts" => layer[c2] = "contexts"

\* Ids of the palace are taken in one order where nothing else tells them apart: fairness
\* speaks of no creation, so no behaviour is lost but for the names of its ids.
InOrder ==
  /\ p2 \in used' => p1 \in used'
  /\ c2 \in used' => c1 \in used' \/ layer[c1] # layer[c2]

Next ==
  \/ part = "agent" /\ AgentNext /\ UNCHANGED <<part, stdioVars, chatVars, palaceVars>>
  \/ part = "stdio" /\ StdioNext /\ UNCHANGED <<part, agentVars, chatVars, palaceVars>>
  \/ part = "chat" /\ ChatNext /\ UNCHANGED <<part, agentVars, stdioVars, palaceVars>>
  \/ part = "palace" /\ PalaceNext /\ InOrder /\ UNCHANGED <<part, agentVars, stdioVars, chatVars>>

Spec ==
  /\ Init /\ [][Next]_<<part, agentVars, stdioVars, chatVars, palaceVars>>
  /\ AgentFairness /\ StdioFairness /\ PalaceFairness

\* The types of all four.
TypeOK == AgentTypeOK /\ StdioTypeOK /\ ChatTypeOK /\ PalaceTypeOK
=============================================================================
