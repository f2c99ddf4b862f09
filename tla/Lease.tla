------------------------------- MODULE Lease -------------------------------
(***************************************************************************)
(* What an edit lock promises: one owner at a time, who loses it by giving *)
(* it back or by its expiry, and by nothing that anybody else does.        *)
(***************************************************************************)
CONSTANTS
  Owners,   \* everything that may hold the lease, each once
  Nobody    \* the owner of a free lease, not one of them

VARIABLES
  owner,    \* who holds the lease
  client    \* where each owner is: "out" before, "in" while, "left" after

vars == <<owner, client>>

Init ==
  /\ owner = Nobody
  /\ client = [o \in Owners |-> "out"]

Grab(o) ==
  /\ owner = Nobody
  /\ client[o] = "out"
  /\ owner' = o
  /\ client' = [client EXCEPT ![o] = "in"]

\* An owner leaves and gives the lease back.
GiveBack(o) ==
  /\ owner = o
  /\ client[o] = "in"
  /\ owner' = Nobody
  /\ client' = [client EXCEPT ![o] = "left"]

\* It leaves after its lease has expired, or its farewell is lost: whoever has
\* the lease keeps it.
Leave(o) ==
  /\ client[o] = "in"
  /\ client' = [client EXCEPT ![o] = "left"]
  /\ UNCHANGED owner

Expire ==
  /\ owner # Nobody
  /\ owner' = Nobody
  /\ UNCHANGED client

Next ==
  \/ \E o \in Owners : Grab(o) \/ GiveBack(o) \/ Leave(o)
  \/ Expire

Spec == Init /\ [][Next]_vars

=============================================================================
