----------------------------- MODULE EditLock ------------------------------
(***************************************************************************)
(* The edit lock of lock/mutex.go on one resource: calls of Acquire and    *)
(* Release over redsync, the editing sessions of the TypeScript stack,     *)
(* which store a JSON payload under the same Redis key, and CanWrite,      *)
(* which reads that payload.  Locks of different resources share nothing.  *)
(*                                                                         *)
(* redsync gives every call of Acquire a random token; here the call       *)
(* stands for its token, and a session for its payload.                    *)
(***************************************************************************)
CONSTANTS
  LockCalls,      \* calls of Acquire
  Sessions,       \* editing sessions of the TypeScript stack
  Editors,        \* users who ask whether they may write
  EditorOf,       \* the user of each session (HolderPayload.OwnerID)
  Free            \* the key does not exist

ASSUME FreeAssumption == Free \notin LockCalls \cup Sessions
ASSUME StacksAssumption == LockCalls \cap Sessions = {}
ASSUME EditorAssumption == EditorOf \in [Sessions -> Editors]

VARIABLES
  enabled,   \* Redis is configured
  key,       \* the value of the key
  applied,   \* the calls whose SET NX has taken effect
  call,      \* the next step of each call, or what its caller got: a lock
             \* ("holding"), (nil, nil) ("blocked") or an error
  session,   \* the same for each session of the other stack
  told       \* the last answer of CanWrite to each user

lockVars == <<enabled, key, applied, call, session, told>>

-----------------------------------------------------------------------------
LockInit ==
  /\ enabled \in BOOLEAN
  /\ key = Free
  /\ applied = {}
  /\ call = [c \in LockCalls |-> "idle"]
  /\ session = [s \in Sessions |-> "idle"]
  /\ told = [u \in Editors |-> "nothing"]

\* Without Redis every call is granted.
AcquireNoop(c) ==
  /\ ~enabled
  /\ call[c] = "idle"
  /\ call' = [call EXCEPT ![c] = "holding"]
  /\ UNCHANGED <<enabled, key, applied, session, told>>

\* Redis executes the one SET NX EX of the call.
SetKey(c) ==
  /\ enabled
  /\ call[c] = "idle"
  /\ IF key = Free
     THEN key' = c /\ applied' = applied \cup {c}
     ELSE UNCHANGED <<key, applied>>
  /\ call' = [call EXCEPT ![c] = "asked"]
  /\ UNCHANGED <<enabled, session, told>>

\* Redis was not reached.
SetFails(c) ==
  /\ enabled
  /\ call[c] = "idle"
  /\ call' = [call EXCEPT ![c] = "undoError"]
  /\ UNCHANGED <<enabled, key, applied, session, told>>

\* The caller learns that it has the lock.  redsync compares the time with the
\* expiry before it says so.
Granted(c) ==
  /\ call[c] = "asked"
  /\ key = c
  /\ call' = [call EXCEPT ![c] = "holding"]
  /\ UNCHANGED <<enabled, key, applied, session, told>>

\* The key was taken, or the answer came too late (ErrTaken, ErrFailed), or the
\* answer was lost.  In each case redsync first takes its own token back.
Denied(c) ==
  /\ call[c] = "asked"
  /\ \/ call' = [call EXCEPT ![c] = "undoBlocked"]
     \/ call' = [call EXCEPT ![c] = "undoError"]
  /\ UNCHANGED <<enabled, key, applied, session, told>>

\* Mutant: DEL without the comparison of the token.
DeleteAnyToken(c) == key' = Free

\* The script of redsync's release: DEL if the value is the caller's token.
DeleteOwnToken(c) == key' = IF key = c THEN Free ELSE key

Undo(c) ==
  /\ call[c] \in {"undoBlocked", "undoError"}
  /\ DeleteOwnToken(c) \/ UNCHANGED key
  /\ call' = [call EXCEPT ![c] = IF @ = "undoBlocked" THEN "blocked" ELSE "error"]
  /\ UNCHANGED <<enabled, applied, session, told>>

\* Release ignores the errors of Unlock: the key then waits for its expiry.
Release(c) ==
  /\ call[c] = "holding"
  /\ IF enabled THEN DeleteOwnToken(c) \/ UNCHANGED key ELSE UNCHANGED key
  /\ call' = [call EXCEPT ![c] = "released"]
  /\ UNCHANGED <<enabled, applied, session, told>>

\* The 30 seconds of the key pass, whatever its holder is doing.
ExpireKey ==
  /\ key # Free
  /\ key' = Free
  /\ UNCHANGED <<enabled, applied, call, session, told>>

-----------------------------------------------------------------------------
\* The other stack takes the lock and gives it back with the same comparison.
SessionAcquire(s) ==
  /\ enabled
  /\ session[s] = "idle"
  /\ key = Free
  /\ key' = s
  /\ session' = [session EXCEPT ![s] = "holding"]
  /\ UNCHANGED <<enabled, applied, call, told>>

SessionRelease(s) ==
  /\ session[s] = "holding"
  /\ key' = IF key = s THEN Free ELSE key
  /\ session' = [session EXCEPT ![s] = "released"]
  /\ UNCHANGED <<enabled, applied, call, told>>

\* getActiveLockRaw decodes the payload of the other stack; the token of a call of
\* Acquire is no JSON, and the caller gets the error of the decoder.
BlockingHolder(u) ==
  IF ~enabled \/ key = Free THEN "none"
  ELSE IF key \in LockCalls THEN "undecodable"
  ELSE IF EditorOf[key] = u THEN "none" ELSE EditorOf[key]

CanWrite(u) ==
  /\ \/ told' = [told EXCEPT ![u] =
            CASE BlockingHolder(u) = "none" -> "yes"
              [] BlockingHolder(u) = "undecodable" -> "error"
              [] OTHER -> "no"]
     \/ enabled /\ told' = [told EXCEPT ![u] = "error"]   \* Redis was not reached
  /\ UNCHANGED <<enabled, key, applied, call, session>>

LockNext ==
  \/ \E c \in LockCalls :
       \/ AcquireNoop(c) \/ SetKey(c) \/ SetFails(c) \/ Granted(c) \/ Denied(c)
       \/ Undo(c) \/ Release(c)
  \/ ExpireKey
  \/ \E s \in Sessions : SessionAcquire(s) \/ SessionRelease(s)
  \/ \E u \in Editors : CanWrite(u)

LockSpec == LockInit /\ [][LockNext]_lockVars

-----------------------------------------------------------------------------
LockTypeOK ==
  /\ enabled \in BOOLEAN
  /\ key \in LockCalls \cup Sessions \cup {Free}
  /\ applied \subseteq LockCalls
  /\ call \in [LockCalls -> {"idle", "asked", "undoBlocked", "undoError",
                            "holding", "blocked", "error", "released"}]
  /\ session \in [Sessions -> {"idle", "holding", "released"}]
  /\ told \in [Editors -> {"nothing", "yes", "no", "error"}]

\* Where a holder of the lease is.  A call is in from its SET until it has given up
\* or released the lock.
Untaken(o) == IF o \in Sessions THEN session[o] = "idle" ELSE o \notin applied
Gone(o) == IF o \in Sessions THEN session[o] = "released"
           ELSE call[o] \in {"blocked", "error", "released"}
ClientOf(o) == IF Untaken(o) THEN "out" ELSE IF Gone(o) THEN "left" ELSE "in"

Abstract == INSTANCE Lease WITH
  Owners <- LockCalls \cup Sessions, Nobody <- Free,
  owner <- key, client <- [o \in LockCalls \cup Sessions |-> ClientOf(o)]

\* The lock is a lease: the late release of a call whose lock has expired, and the
\* clean-up of a call that never got it, leave the lock of the next holder alone
\* (Acquire and Release of lock/mutex.go over both stacks' keys).
LockIsLease == Abstract!Spec

=============================================================================
