--------------------------- MODULE EditLockProofs ---------------------------
(***************************************************************************)
(* The edit lock of EditLock implements the lease of Lease, for any calls, *)
(* sessions and users: the proof is an induction with LockInv.             *)
(***************************************************************************)
EXTENDS EditLock, TLAPS

Owners == LockCalls \cup Sessions

\* What a refinement needs of the reachable states: a call is among the applied ones
\* exactly when its SET took effect, the key holds none but applied calls, and without
\* Redis nothing is ever stored.
LockInv ==
  /\ LockTypeOK
  /\ \A c \in LockCalls : call[c] = "idle" => c \notin applied
  /\ \A c \in LockCalls : enabled /\ call[c] = "holding" => c \in applied
  /\ \A c \in LockCalls : key = c => c \in applied
  /\ \A s \in Sessions : key = s => session[s] # "idle"
  /\ ~enabled => key = Free /\ applied = {}

LEMMA LockInvInit == LockInit => LockInv
BY FreeAssumption DEF LockInit, LockInv, LockTypeOK

LEMMA LockInvStep == LockInv /\ [LockNext]_lockVars => LockInv'
<1> SUFFICES ASSUME LockInv, [LockNext]_lockVars PROVE LockInv'
  OBVIOUS
<1> USE FreeAssumption, StacksAssumption DEF LockInv, LockTypeOK
<1>1. ASSUME NEW c \in LockCalls, AcquireNoop(c) PROVE LockInv'
  BY <1>1 DEF AcquireNoop
<1>2. ASSUME NEW c \in LockCalls, SetKey(c) PROVE LockInv'
  <2>1. CASE key = Free
    BY <1>2, <2>1 DEF SetKey
  <2>2. CASE key # Free
    BY <1>2, <2>2 DEF SetKey
  <2> QED
    BY <2>1, <2>2
<1>3. ASSUME NEW c \in LockCalls, SetFails(c) PROVE LockInv'
  BY <1>3 DEF SetFails
<1>4. ASSUME NEW c \in LockCalls, Granted(c) PROVE LockInv'
  BY <1>4 DEF Granted
<1>5. ASSUME NEW c \in LockCalls, Denied(c) PROVE LockInv'
  BY <1>5 DEF Denied
<1>6. ASSUME NEW c \in LockCalls, Undo(c) PROVE LockInv'
  BY <1>6 DEF Undo, DeleteOwnToken
<1>7. ASSUME NEW c \in LockCalls, Release(c) PROVE LockInv'
  BY <1>7 DEF Release, DeleteOwnToken
<1>8. ASSUME ExpireKey PROVE LockInv'
  BY <1>8 DEF ExpireKey
<1>9. ASSUME NEW s \in Sessions, SessionAcquire(s) PROVE LockInv'
  BY <1>9 DEF SessionAcquire
<1>10. ASSUME NEW s \in Sessions, SessionRelease(s) PROVE LockInv'
  BY <1>10 DEF SessionRelease
<1>11. ASSUME NEW u \in Editors, CanWrite(u) PROVE LockInv'
  <2>1. told' \in [Editors -> {"nothing", "yes", "no", "error"}]
    BY <1>11 DEF CanWrite
  <2>2. UNCHANGED <<enabled, key, applied, call, session>>
    BY <1>11 DEF CanWrite
  <2> QED
    BY <2>1, <2>2
<1>12. CASE UNCHANGED lockVars
  BY <1>12 DEF lockVars
<1> QED
  BY <1>1, <1>2, <1>3, <1>4, <1>5, <1>6, <1>7, <1>8, <1>9, <1>10, <1>11, <1>12
  DEF LockNext

LEMMA LockInvariance == LockSpec => []LockInv
BY LockInvInit, LockInvStep, PTL DEF LockSpec

\* Every variable of the edit lock keeps its type (lock/mutex.go).
THEOREM LockTypeCorrect == LockSpec => []LockTypeOK
<1>1. LockInv => LockTypeOK
  BY DEF LockInv
<1> QED
  BY LockInvariance, <1>1, PTL

-----------------------------------------------------------------------------
(* The refinement.  A step changes where at most one owner is. *)

Clients == [o \in Owners |-> ClientOf(o)]

\* An owner of whom neither state nor application changes stays where it is.
LEMMA OthersStay ==
  ASSUME LockInv, NEW o \in Owners,
         o \in Sessions => session'[o] = session[o],
         o \in LockCalls => call'[o] = call[o] /\ (o \in applied' <=> o \in applied)
  PROVE  ClientOf(o)' = ClientOf(o)
BY StacksAssumption DEF ClientOf, Untaken, Gone, Owners

\* A step that moves one owner to w is one of the abstract client.
LEMMA OneMoves ==
  ASSUME NEW o \in Owners, NEW w, ClientOf(o)' = w,
         \A q \in Owners \ {o} : ClientOf(q)' = ClientOf(q)
  PROVE  Clients' = [Clients EXCEPT ![o] = w]
BY DEF Clients

\* A step that moves nobody.
LEMMA NoneMoves ==
  ASSUME \A q \in Owners : ClientOf(q)' = ClientOf(q)
  PROVE  Clients' = Clients
BY DEF Clients

LEMMA RefinesInit == LockInit => Abstract!Init
BY StacksAssumption DEF LockInit, Abstract!Init, ClientOf, Untaken

\* An owner who is in leaves: it gives back what it holds, or whoever has the lease
\* keeps it.
LEMMA LeaveOrGiveBack ==
  ASSUME NEW o \in Owners, ClientOf(o) = "in", Clients' = [Clients EXCEPT ![o] = "left"],
         (key' = key) \/ (key = o /\ key' = Free)
  PROVE  Abstract!Next
BY DEF Abstract!Next, Abstract!GiveBack, Abstract!Leave, Clients, Owners

LEMMA RefinesStep == LockInv /\ [LockNext]_lockVars => [Abstract!Next]_(Abstract!vars)
<1> SUFFICES ASSUME LockInv, [LockNext]_lockVars
             PROVE  Abstract!Next \/ UNCHANGED <<key, Clients>>
  BY DEF Abstract!vars, Clients, Owners
<1> USE FreeAssumption, StacksAssumption
<1> DEFINE Still == key' = key /\ Clients' = Clients
<1>1. ASSUME NEW c \in LockCalls, AcquireNoop(c) PROVE Still
  <2>1. ClientOf(c) = "out" /\ ClientOf(c)' = "out"
    BY <1>1 DEF AcquireNoop, LockInv, LockTypeOK, ClientOf, Untaken
  <2>2. \A q \in Owners \ {c} : ClientOf(q)' = ClientOf(q)
    BY <1>1, OthersStay DEF AcquireNoop, LockInv, LockTypeOK
  <2> QED
    BY <1>1, <2>1, <2>2, NoneMoves DEF AcquireNoop
<1>2. ASSUME NEW c \in LockCalls, SetKey(c) PROVE Abstract!Next \/ Still
  <2>1. \A q \in Owners \ {c} : ClientOf(q)' = ClientOf(q)
    BY <1>2, OthersStay DEF SetKey, LockInv, LockTypeOK
  <2>2. ClientOf(c) = "out"
    BY <1>2 DEF SetKey, LockInv, LockTypeOK, ClientOf, Untaken
  <2>3. CASE key = Free
    <3>1. ClientOf(c)' = "in"
      BY <1>2, <2>3 DEF SetKey, LockInv, LockTypeOK, ClientOf, Untaken, Gone
    <3>2. Clients' = [Clients EXCEPT ![c] = "in"]
      BY <3>1, <2>1, OneMoves DEF Owners
    <3>3. Clients[c] = "out" /\ c \in Owners
      BY <2>2 DEF Clients, Owners
    <3>4. key' = c
      BY <1>2, <2>3 DEF SetKey
    <3> QED
      BY <2>3, <3>2, <3>3, <3>4 DEF Abstract!Next, Abstract!Grab, Clients, Owners
  <2>4. CASE key # Free
    <3>1. ClientOf(c)' = "out"
      BY <1>2, <2>4 DEF SetKey, LockInv, LockTypeOK, ClientOf, Untaken
    <3> QED
      BY <1>2, <2>1, <2>2, <2>4, <3>1, NoneMoves DEF SetKey
  <2> QED
    BY <2>3, <2>4
<1>3. ASSUME NEW c \in LockCalls, SetFails(c) PROVE Still
  <2>1. ClientOf(c) = "out" /\ ClientOf(c)' = "out"
    BY <1>3 DEF SetFails, LockInv, LockTypeOK, ClientOf, Untaken
  <2>2. \A q \in Owners \ {c} : ClientOf(q)' = ClientOf(q)
    BY <1>3, OthersStay DEF SetFails, LockInv, LockTypeOK
  <2> QED
    BY <1>3, <2>1, <2>2, NoneMoves DEF SetFails
<1>4. ASSUME NEW c \in LockCalls, Granted(c) PROVE Still
  <2>1. ClientOf(c)' = ClientOf(c)
    BY <1>4 DEF Granted, LockInv, LockTypeOK, ClientOf, Untaken, Gone
  <2>2. \A q \in Owners \ {c} : ClientOf(q)' = ClientOf(q)
    BY <1>4, OthersStay DEF Granted, LockInv, LockTypeOK
  <2> QED
    BY <1>4, <2>1, <2>2, NoneMoves DEF Granted
<1>5. ASSUME NEW c \in LockCalls, Denied(c) PROVE Still
  <2>1. ClientOf(c)' = ClientOf(c)
    BY <1>5 DEF Denied, LockInv, LockTypeOK, ClientOf, Untaken, Gone
  <2>2. \A q \in Owners \ {c} : ClientOf(q)' = ClientOf(q)
    BY <1>5, OthersStay DEF Denied, LockInv, LockTypeOK
  <2> QED
    BY <1>5, <2>1, <2>2, NoneMoves DEF Denied
<1>6. ASSUME NEW c \in LockCalls, Undo(c) PROVE Abstract!Next \/ Still
  <2>1. \A q \in Owners \ {c} : ClientOf(q)' = ClientOf(q)
    BY <1>6, OthersStay DEF Undo, LockInv, LockTypeOK
  <2>2. (key' = key) \/ (key = c /\ key' = Free)
    BY <1>6 DEF Undo, DeleteOwnToken
  <2>3. CASE c \in applied
    <3>1. ClientOf(c) = "in" /\ ClientOf(c)' = "left"
      BY <1>6, <2>3 DEF Undo, LockInv, LockTypeOK, ClientOf, Untaken, Gone
    <3>2. Clients' = [Clients EXCEPT ![c] = "left"]
      BY <2>1, <3>1, OneMoves DEF Owners
    <3> QED
      BY <2>2, <3>1, <3>2, LeaveOrGiveBack DEF Owners
  <2>4. CASE c \notin applied
    <3>1. ClientOf(c)' = ClientOf(c)
      BY <1>6, <2>4 DEF Undo, ClientOf, Untaken
    <3>2. key # c
      BY <2>4 DEF LockInv
    <3> QED
      BY <2>1, <2>2, <3>1, <3>2, NoneMoves
  <2> QED
    BY <2>3, <2>4
<1>7. ASSUME NEW c \in LockCalls, Release(c) PROVE Abstract!Next \/ Still
  <2>1. \A q \in Owners \ {c} : ClientOf(q)' = ClientOf(q)
    BY <1>7, OthersStay DEF Release, LockInv, LockTypeOK
  <2>2. (key' = key) \/ (key = c /\ key' = Free)
    BY <1>7 DEF Release, DeleteOwnToken
  <2>3. CASE enabled
    <3>1. ClientOf(c) = "in" /\ ClientOf(c)' = "left"
      BY <1>7, <2>3 DEF Release, LockInv, LockTypeOK, ClientOf, Untaken, Gone
    <3>2. Clients' = [Clients EXCEPT ![c] = "left"]
      BY <2>1, <3>1, OneMoves DEF Owners
    <3> QED
      BY <2>2, <3>1, <3>2, LeaveOrGiveBack DEF Owners
  <2>4. CASE ~enabled
    <3>1. ClientOf(c) = "out" /\ ClientOf(c)' = "out"
      BY <1>7, <2>4 DEF Release, LockInv, LockTypeOK, ClientOf, Untaken
    <3> QED
      BY <1>7, <2>1, <2>4, <3>1, NoneMoves DEF Release
  <2> QED
    BY <2>3, <2>4
<1>8. ASSUME ExpireKey PROVE Abstract!Next
  <2>1. Clients' = Clients
    BY <1>8, OthersStay, NoneMoves DEF ExpireKey
  <2> QED
    BY <1>8, <2>1 DEF ExpireKey, Abstract!Next, Abstract!Expire, Clients, Owners
<1>9. ASSUME NEW s \in Sessions, SessionAcquire(s) PROVE Abstract!Next
  <2>1. \A q \in Owners \ {s} : ClientOf(q)' = ClientOf(q)
    BY <1>9, OthersStay DEF SessionAcquire, LockInv, LockTypeOK
  <2>2. ClientOf(s) = "out" /\ ClientOf(s)' = "in"
    BY <1>9 DEF SessionAcquire, LockInv, LockTypeOK, ClientOf, Untaken, Gone
  <2>3. Clients' = [Clients EXCEPT ![s] = "in"] /\ Clients[s] = "out"
    BY <2>1, <2>2, OneMoves DEF Owners, Clients
  <2>4. key = Free /\ key' = s /\ s \in Owners
    BY <1>9 DEF SessionAcquire, Owners
  <2> QED
    BY <2>3, <2>4 DEF Abstract!Next, Abstract!Grab, Clients, Owners
<1>10. ASSUME NEW s \in Sessions, SessionRelease(s) PROVE Abstract!Next
  <2>1. \A q \in Owners \ {s} : ClientOf(q)' = ClientOf(q)
    BY <1>10, OthersStay DEF SessionRelease, LockInv, LockTypeOK
  <2>2. ClientOf(s) = "in" /\ ClientOf(s)' = "left"
    BY <1>10 DEF SessionRelease, LockInv, LockTypeOK, ClientOf, Untaken, Gone
  <2>3. Clients' = [Clients EXCEPT ![s] = "left"]
    BY <2>1, <2>2, OneMoves DEF Owners
  <2>4. (key' = key) \/ (key = s /\ key' = Free)
    BY <1>10 DEF SessionRelease
  <2> QED
    BY <2>2, <2>3, <2>4, LeaveOrGiveBack DEF Owners
<1>11. ASSUME NEW u \in Editors, CanWrite(u) PROVE Still
  <2>1. UNCHANGED <<key, applied, call, session>>
    BY <1>11 DEF CanWrite
  <2> QED
    BY <2>1, OthersStay, NoneMoves
<1>12. CASE UNCHANGED lockVars
  BY <1>12, OthersStay, NoneMoves DEF lockVars
<1> QED
  BY <1>1, <1>2, <1>3, <1>4, <1>5, <1>6, <1>7, <1>8, <1>9, <1>10, <1>11, <1>12
  DEF LockNext

\* The lock of lock/mutex.go is a lease: whoever releases late, cleans up after a failed
\* Acquire or loses an answer, only the owner's own release and the expiry end a
\* holder's time.
THEOREM LockIsALease == LockSpec => LockIsLease
BY LockInvariance, RefinesInit, RefinesStep, PTL DEF LockSpec, LockIsLease, Abstract!Spec

=============================================================================
