-------------------------- MODULE McpManagerProofs --------------------------
(***************************************************************************)
(* The connections of the MCP manager: no session leaks, none that was     *)
(* closed stays in the table, one call at a time reconnects, for any       *)
(* servers, calls and connections.  The proof is an induction with         *)
(* McpInv, which says who owns each connection.                            *)
(***************************************************************************)
EXTENDS McpManager, TLAPS

Reconnecting == {"compare", "connect", "install", "closeStale"}

\* A connection that was made and not closed.
Live(k) == session[k] \in {"open", "lost"}

\* A call has the variables its step needs.
CallsReady ==
  /\ \A c \in Calls : pc[c] \in {"call", "retry", "reconnect"} \cup Reconnecting =>
       conn[c] \in Conns
  /\ \A c \in Calls : pc[c] \in {"install", "closeStale"} => fresh[c] \in Conns

\* reconnectMu: one call at a time reconnects a connection.
Mutex ==
  \A c, d \in Calls : c # d /\ pc[c] \in Reconnecting /\ pc[d] \in Reconnecting =>
    conn[c] # conn[d]

\* What the table, a goroutine that loads and a reconnecting call own is live, except that
\* the stale connection may have been closed, but was made.
OwnedIsLive ==
  /\ \A s \in Servers : servers[s] # None => Live(servers[s])
  /\ \A s \in Servers : load[s] = "dialed" => dialed[s] \in Conns /\ Live(dialed[s])
  /\ \A c \in Calls : pc[c] = "install" => Live(fresh[c])
  /\ \A c \in Calls : pc[c] = "closeStale" => session[conn[c]] # "unused"

\* No connection has two owners.
TableOwns ==
  /\ \A s, t \in Servers : s # t /\ servers[s] # None => servers[s] # servers[t]
  /\ \A s, t \in Servers : load[t] = "dialed" => dialed[t] # servers[s]
  /\ \A s \in Servers, c \in Calls : pc[c] = "install" => fresh[c] # servers[s]
  /\ \A s \in Servers, c \in Calls : pc[c] = "closeStale" => conn[c] # servers[s]

HandsOwn ==
  /\ \A s, t \in Servers : s # t /\ load[s] = "dialed" /\ load[t] = "dialed" =>
       dialed[s] # dialed[t]
  /\ \A s \in Servers, c \in Calls : load[s] = "dialed" /\ pc[c] = "install" =>
       fresh[c] # dialed[s]
  /\ \A s \in Servers, c \in Calls : load[s] = "dialed" /\ pc[c] = "closeStale" =>
       conn[c] # dialed[s]
  /\ \A c, d \in Calls : c # d /\ pc[c] = "install" /\ pc[d] = "install" =>
       fresh[c] # fresh[d]
  /\ \A c, d \in Calls : pc[c] = "closeStale" /\ pc[d] = "install" => conn[c] # fresh[d]

\* A server has a connection only after it was loaded; nothing is in the table once
\* Close has emptied it.
TableOnTime ==
  /\ \A s \in Servers : load[s] \in {"dialing", "dialed"} => servers[s] = None
  /\ closing # "no" => closed
  /\ closing = "returned" => \A s \in Servers : servers[s] = None

Types ==
  /\ servers \in [Servers -> Conns \cup {None}]
  /\ session \in [Conns -> SessionStates]
  /\ closed \in BOOLEAN
  /\ closing \in {"no", "waiting", "woken", "draining", "returned", "panicked"}
  /\ load \in [Servers -> {"dialing", "dialed", "connected", "failed"}]
  /\ dialed \in [Servers -> Conns \cup {None}]
  /\ pc \in [Calls -> Labels]
  /\ target \in [Calls -> Servers]
  /\ conn \in [Calls -> Conns \cup {None}]
  /\ fresh \in [Calls -> Conns \cup {None}]
  /\ losses \in Nat

McpInv ==
  /\ Types /\ CallsReady /\ Mutex
  /\ OwnedIsLive /\ TableOwns /\ HandsOwn /\ TableOnTime
  /\ SessionsOwned

LEMMA InvInit == Init => McpInv
<1> SUFFICES ASSUME Init PROVE McpInv
  OBVIOUS
<1>1. Types
  BY DEF Init, Types, SessionStates, Labels
<1>2. \A c \in Calls : pc[c] = "idle"
  BY DEF Init
<1>3. CallsReady /\ Mutex
  BY <1>2 DEF CallsReady, Mutex, Reconnecting
<1>4. OwnedIsLive /\ TableOwns /\ HandsOwn
  BY <1>2 DEF Init, OwnedIsLive, TableOwns, HandsOwn
<1>5. TableOnTime /\ SessionsOwned
  BY DEF Init, TableOnTime, SessionsOwned
<1> QED
  BY <1>1, <1>3, <1>4, <1>5 DEF McpInv

\* The connection that is made next has no owner.
LEMMA NextIsUnused == \A k \in NextConn : k \in Conns /\ session[k] = "unused"
BY DEF NextConn

LEMMA InvStep == McpInv /\ [Next]_vars => McpInv'
<1> SUFFICES ASSUME McpInv, [Next]_vars PROVE McpInv'
  OBVIOUS
<1> USE NoneAssumption DEF McpInv
<1>1. ASSUME NEW s \in Servers, Dial(s) PROVE McpInv'
  <2>1. Types'
    BY <1>1, NextIsUnused DEF Types, SessionStates, Labels, Over, CallsReady, TableOnTime,
       Dial, callVars
  <2>2. CallsReady'
    BY <1>1, NextIsUnused DEF Types, CallsReady, Reconnecting, Dial, callVars
  <2>3. Mutex'
    BY <1>1, NextIsUnused DEF Types, Mutex, Reconnecting, Dial, callVars
  <2>4. OwnedIsLive'
    <3>1. \A x \in Conns : /\ Live(x) => session'[x] \in {"open", "lost"}
                           /\ session[x] # "unused" => session'[x] # "unused"
      BY <1>1, NextIsUnused DEF Dial, Types, Live
    <3>2. \A t \in Servers : load'[t] = "dialed" =>
            dialed'[t] \in Conns /\ session'[dialed'[t]] \in {"open", "lost"}
      BY <1>1, <3>1, NextIsUnused DEF Dial, Types, OwnedIsLive
    <3>3. UNCHANGED <<servers, pc, fresh, conn>>
      BY <1>1 DEF Dial, callVars
    <3> QED
      BY <3>1, <3>2, <3>3 DEF Types, CallsReady, Reconnecting, OwnedIsLive, Live
  <2>5. TableOwns'
    BY <1>1, NextIsUnused DEF Types, OwnedIsLive, TableOwns, HandsOwn, CallsReady,
       TableOnTime, Live, Reconnecting, Dial, callVars
  <2>6. HandsOwn'
    BY <1>1, NextIsUnused DEF Types, OwnedIsLive, TableOwns, HandsOwn, CallsReady,
       TableOnTime, Live, Reconnecting, Mutex, Dial, callVars
  <2>7. TableOnTime'
    BY <1>1, NextIsUnused DEF Types, TableOnTime, Dial, callVars
  <2>8. SessionsOwned'
    BY <1>1, NextIsUnused DEF Types, SessionsOwned, InTable, InHand, OwnedIsLive, CallsReady,
       Live, Dial, callVars
  <2> QED
    BY <2>1, <2>2, <2>3, <2>4, <2>5, <2>6, <2>7, <2>8
<1>2. ASSUME NEW s \in Servers, Register(s) PROVE McpInv'
  <2>1. Types'
    BY <1>2 DEF Types, SessionStates, Labels, Over, CallsReady, TableOnTime, Register,
       callVars
  <2>2. CallsReady'
    BY <1>2 DEF Types, CallsReady, Reconnecting, Register, callVars
  <2>3. Mutex'
    BY <1>2 DEF Types, Mutex, Reconnecting, Register, callVars
  <2>4. OwnedIsLive'
    BY <1>2 DEF Types, OwnedIsLive, TableOwns, HandsOwn, CallsReady, TableOnTime, Live,
       Reconnecting, Register, callVars
  <2>5. TableOwns'
    BY <1>2 DEF Types, OwnedIsLive, TableOwns, HandsOwn, CallsReady, TableOnTime, Live,
       Reconnecting, Register, callVars
  <2>6. HandsOwn'
    BY <1>2 DEF Types, OwnedIsLive, TableOwns, HandsOwn, CallsReady, TableOnTime, Live,
       Reconnecting, Mutex, Register, callVars
  <2>7. TableOnTime'
    BY <1>2 DEF Types, TableOnTime, Register, callVars
  <2>8. SessionsOwned'
    <3>1. servers[s] = None
      BY <1>2 DEF Register, TableOnTime
    <3>2. UNCHANGED <<pc, fresh, conn>>
      BY <1>2 DEF Register, callVars
    <3>3. CASE closed
      BY <1>2, <3>2, <3>3 DEF Register, Types, SessionsOwned, InTable, InHand, OwnedIsLive
    <3>4. CASE ~closed
      BY <1>2, <3>1, <3>2, <3>4 DEF Register, Types, SessionsOwned, InTable, InHand
    <3> QED
      BY <3>3, <3>4
  <2> QED
    BY <2>1, <2>2, <2>3, <2>4, <2>5, <2>6, <2>7, <2>8
<1>3. ASSUME NEW c \in Calls, Begin(c) \/ ReadLock(c) PROVE McpInv'
  <2>1. Types'
    BY <1>3 DEF Types, SessionStates, Labels, Over, CallsReady, TableOnTime, Begin, ReadLock,
       Goto, loadVars
  <2>2. CallsReady'
    BY <1>3 DEF Types, CallsReady, Reconnecting, Begin, ReadLock, Goto, loadVars
  <2>3. Mutex'
    BY <1>3 DEF Types, Mutex, Reconnecting, Begin, ReadLock, Goto, loadVars
  <2>4. OwnedIsLive'
    BY <1>3 DEF Types, OwnedIsLive, TableOwns, HandsOwn, CallsReady, TableOnTime, Live,
       Reconnecting, Begin, ReadLock, Goto, loadVars
  <2>5. TableOwns'
    BY <1>3 DEF Types, OwnedIsLive, TableOwns, HandsOwn, CallsReady, TableOnTime, Live,
       Reconnecting, Begin, ReadLock, Goto, loadVars
  <2>6. HandsOwn'
    BY <1>3 DEF Types, OwnedIsLive, TableOwns, HandsOwn, CallsReady, TableOnTime, Live,
       Reconnecting, Mutex, Begin, ReadLock, Goto, loadVars
  <2>7. TableOnTime'
    BY <1>3 DEF Types, TableOnTime, Begin, ReadLock, Goto, loadVars
  <2>8. SessionsOwned'
    BY <1>3 DEF Types, SessionsOwned, InTable, InHand, OwnedIsLive, CallsReady, Live, Begin,
       ReadLock, Goto, loadVars
  <2> QED
    BY <2>1, <2>2, <2>3, <2>4, <2>5, <2>6, <2>7, <2>8
<1>4. ASSUME NEW c \in Calls, LookUp(c) PROVE McpInv'
  <2>1. Types'
    BY <1>4 DEF Types, SessionStates, Labels, Over, CallsReady, TableOnTime, LookUp, Goto,
       loadVars
  <2>2. CallsReady'
    BY <1>4 DEF Types, CallsReady, Reconnecting, LookUp, Goto, loadVars
  <2>3. Mutex'
    BY <1>4 DEF Types, Mutex, Reconnecting, LookUp, Goto, loadVars
  <2>4. OwnedIsLive'
    BY <1>4 DEF Types, OwnedIsLive, TableOwns, HandsOwn, CallsReady, TableOnTime, Live,
       Reconnecting, LookUp, Goto, loadVars
  <2>5. TableOwns'
    BY <1>4 DEF Types, OwnedIsLive, TableOwns, HandsOwn, CallsReady, TableOnTime, Live,
       Reconnecting, LookUp, Goto, loadVars
  <2>6. HandsOwn'
    BY <1>4 DEF Types, OwnedIsLive, TableOwns, HandsOwn, CallsReady, TableOnTime, Live,
       Reconnecting, Mutex, LookUp, Goto, loadVars
  <2>7. TableOnTime'
    BY <1>4 DEF Types, TableOnTime, LookUp, Goto, loadVars
  <2>8. SessionsOwned'
    BY <1>4 DEF Types, SessionsOwned, InTable, InHand, OwnedIsLive, CallsReady, Live, LookUp,
       Goto, loadVars
  <2> QED
    BY <2>1, <2>2, <2>3, <2>4, <2>5, <2>6, <2>7, <2>8
<1>5. ASSUME NEW c \in Calls, Call(c) \/ Retry(c) PROVE McpInv'
  <2>1. Types'
    BY <1>5 DEF Types, SessionStates, Labels, Over, CallsReady, TableOnTime, Call, Retry,
       Goto, Finish, loadVars
  <2>2. CallsReady'
    BY <1>5 DEF Types, CallsReady, Reconnecting, Call, Retry, Goto, Finish, loadVars
  <2>3. Mutex'
    BY <1>5 DEF Types, Mutex, Reconnecting, Call, Retry, Goto, Finish, loadVars
  <2>4. OwnedIsLive'
    BY <1>5 DEF Types, OwnedIsLive, TableOwns, HandsOwn, CallsReady, TableOnTime, Live,
       Reconnecting, Call, Retry, Goto, Finish, loadVars
  <2>5. TableOwns'
    BY <1>5 DEF Types, OwnedIsLive, TableOwns, HandsOwn, CallsReady, TableOnTime, Live,
       Reconnecting, Call, Retry, Goto, Finish, loadVars
  <2>6. HandsOwn'
    BY <1>5 DEF Types, OwnedIsLive, TableOwns, HandsOwn, CallsReady, TableOnTime, Live,
       Reconnecting, Mutex, Call, Retry, Goto, Finish, loadVars
  <2>7. TableOnTime'
    BY <1>5 DEF Types, TableOnTime, Call, Retry, Goto, Finish, loadVars
  <2>8. SessionsOwned'
    BY <1>5 DEF Types, SessionsOwned, InTable, InHand, OwnedIsLive, CallsReady, Live, Call,
       Retry, Goto, Finish, loadVars
  <2> QED
    BY <2>1, <2>2, <2>3, <2>4, <2>5, <2>6, <2>7, <2>8
<1>6. ASSUME NEW c \in Calls, LockStale(c) PROVE McpInv'
  <2>1. Types'
    BY <1>6 DEF Types, SessionStates, Labels, Over, CallsReady, TableOnTime, LockStale,
       Holding, Goto, Finish, loadVars
  <2>2. CallsReady'
    BY <1>6 DEF Types, CallsReady, Reconnecting, LockStale, Holding, Goto, Finish, loadVars
  <2>3. Mutex'
    BY <1>6 DEF Types, Mutex, Reconnecting, LockStale, Holding, Goto, Finish, loadVars
  <2>4. OwnedIsLive'
    BY <1>6 DEF Types, OwnedIsLive, TableOwns, HandsOwn, CallsReady, TableOnTime, Live,
       Reconnecting, LockStale, Holding, Goto, Finish, loadVars
  <2>5. TableOwns'
    BY <1>6 DEF Types, OwnedIsLive, TableOwns, HandsOwn, CallsReady, TableOnTime, Live,
       Reconnecting, LockStale, Holding, Goto, Finish, loadVars
  <2>6. HandsOwn'
    BY <1>6 DEF Types, OwnedIsLive, TableOwns, HandsOwn, CallsReady, TableOnTime, Live,
       Reconnecting, Mutex, LockStale, Holding, Goto, Finish, loadVars
  <2>7. TableOnTime'
    BY <1>6 DEF Types, TableOnTime, LockStale, Holding, Goto, Finish, loadVars
  <2>8. SessionsOwned'
    BY <1>6 DEF Types, SessionsOwned, InTable, InHand, OwnedIsLive, CallsReady, Live,
       LockStale, Holding, Goto, Finish, loadVars
  <2> QED
    BY <2>1, <2>2, <2>3, <2>4, <2>5, <2>6, <2>7, <2>8
<1>7. ASSUME NEW c \in Calls, Compare(c) PROVE McpInv'
  <2>a. /\ UNCHANGED <<load, dialed, fresh>>
        /\ \A d \in Calls : pc'[d] \in {"install", "closeStale"} => d # c
        /\ \A d \in Calls \ {c} : pc'[d] = pc[d] /\ conn'[d] = conn[d]
    BY <1>7 DEF Compare, Goto, Finish, loadVars, Types
  <2>1. Types'
    BY <1>7 DEF Types, SessionStates, Labels, Over, CallsReady, TableOnTime, Compare, Goto,
       Finish, loadVars
  <2>2. CallsReady'
    BY <1>7 DEF Types, CallsReady, Reconnecting, Compare, Goto, Finish, loadVars
  <2>3. Mutex'
    BY <1>7 DEF Types, Mutex, Reconnecting, Compare, Goto, Finish, loadVars
  <2>4. OwnedIsLive'
    BY <1>7 DEF Types, OwnedIsLive, TableOwns, HandsOwn, CallsReady, TableOnTime, Live,
       Reconnecting, Compare, Goto, Finish, loadVars
  <2>5. TableOwns'
    BY <1>7 DEF Types, OwnedIsLive, TableOwns, HandsOwn, CallsReady, TableOnTime, Live,
       Reconnecting, Compare, Goto, Finish, loadVars
  <2>6. HandsOwn'
    BY <2>a DEF HandsOwn
  <2>7. TableOnTime'
    BY <1>7 DEF Types, TableOnTime, Compare, Goto, Finish, loadVars
  <2>8. SessionsOwned'
    BY <1>7 DEF Types, SessionsOwned, InTable, InHand, OwnedIsLive, CallsReady, Live, Compare,
       Goto, Finish, loadVars
  <2> QED
    BY <2>1, <2>2, <2>3, <2>4, <2>5, <2>6, <2>7, <2>8
<1>8. ASSUME NEW c \in Calls, Connect(c) PROVE McpInv'
  <2>1. Types'
    BY <1>8, NextIsUnused DEF Types, SessionStates, Labels, Over, CallsReady, TableOnTime,
       Connect, Goto, Finish, loadVars
  <2>2. CallsReady'
    BY <1>8, NextIsUnused DEF Types, CallsReady, Reconnecting, Connect, Goto, Finish, loadVars
  <2>3. Mutex'
    BY <1>8, NextIsUnused DEF Types, Mutex, Reconnecting, Connect, Goto, Finish, loadVars
  <2>4. OwnedIsLive'
    <3>1. \A x \in Conns : /\ Live(x) => session'[x] \in {"open", "lost"}
                           /\ session[x] # "unused" => session'[x] # "unused"
      BY <1>8, NextIsUnused DEF Connect, Types, Live
    <3>2. UNCHANGED <<servers, load, dialed, conn>>
      BY <1>8 DEF Connect, loadVars
    <3>3. \A d \in Calls : pc'[d] = "install" =>
            fresh'[d] \in Conns /\ session'[fresh'[d]] \in {"open", "lost"}
      BY <1>8, <3>1, NextIsUnused
      DEF Connect, Goto, Finish, Types, Labels, OwnedIsLive, CallsReady
    <3>4. \A d \in Calls : pc'[d] = "closeStale" => pc[d] = "closeStale"
      BY <1>8 DEF Connect, Goto, Finish, Types
    <3> QED
      BY <3>1, <3>2, <3>3, <3>4 DEF Types, CallsReady, Reconnecting, OwnedIsLive, Live
  <2>5. TableOwns'
    BY <1>8, NextIsUnused DEF Types, OwnedIsLive, TableOwns, HandsOwn, CallsReady,
       TableOnTime, Live, Reconnecting, Connect, Goto, Finish, loadVars
  <2>6. HandsOwn'
    BY <1>8, NextIsUnused DEF Types, OwnedIsLive, TableOwns, HandsOwn, CallsReady,
       TableOnTime, Live, Reconnecting, Mutex, Connect, Goto, Finish, loadVars
  <2>7. TableOnTime'
    BY <1>8, NextIsUnused DEF Types, TableOnTime, Connect, Goto, Finish, loadVars
  <2>8. SessionsOwned'
    BY <1>8, NextIsUnused DEF Types, SessionsOwned, InTable, InHand, OwnedIsLive, CallsReady,
       Live, Connect, Goto, Finish, loadVars
  <2> QED
    BY <2>1, <2>2, <2>3, <2>4, <2>5, <2>6, <2>7, <2>8
<1>9. ASSUME NEW c \in Calls, Install(c) PROVE McpInv'
  <2>a. fresh[c] \in Conns /\ conn[c] \in Conns /\ Live(fresh[c]) /\ pc[c] = "install"
    BY <1>9 DEF Install, CallsReady, Reconnecting, OwnedIsLive
  <2>b. UNCHANGED <<load, dialed>> /\ \A d \in Calls \ {c} : pc'[d] = pc[d]
    BY <1>9 DEF Install, Goto, Finish, loadVars, Types
  <2>c. ASSUME ~closed /\ servers[target[c]] = conn[c]
        PROVE  OwnedIsLive' /\ TableOwns' /\ HandsOwn'
    <3>1. /\ servers' = [servers EXCEPT ![target[c]] = fresh[c]]
          /\ pc'[c] = "closeStale" /\ UNCHANGED <<session, conn, fresh>>
      BY <1>9, <2>c DEF Install, Goto, Types
    <3>2. session[conn[c]] # "unused"
      BY <1>9, <2>a, <2>c DEF OwnedIsLive, Live, Types
    <3>3. OwnedIsLive'
      BY <2>a, <2>b, <3>1, <3>2 DEF OwnedIsLive, Live, Types
    <3>4. TableOwns'
      BY <2>a, <2>b, <2>c, <3>1 DEF TableOwns, HandsOwn, Types
    <3>5. HandsOwn'
      BY <2>a, <2>b, <2>c, <3>1 DEF HandsOwn, TableOwns, Types
    <3> QED
      BY <3>3, <3>4, <3>5
  <2>d. ASSUME ~(~closed /\ servers[target[c]] = conn[c])
        PROVE  OwnedIsLive' /\ TableOwns' /\ HandsOwn'
    <3>1. /\ session' = [session EXCEPT ![fresh[c]] = "closed"]
          /\ pc'[c] \in {"error", "retry"} /\ UNCHANGED servers
          /\ \A d \in Calls \ {c} : conn'[d] = conn[d] /\ fresh'[d] = fresh[d]
      BY <1>9, <2>d DEF Install, Goto, Finish, Types
    <3>2. \A x \in Conns : /\ x # fresh[c] => session'[x] = session[x]
                           /\ session[x] # "unused" => session'[x] # "unused"
      BY <2>a, <3>1 DEF Types
    <3>3. OwnedIsLive'
      BY <2>a, <2>b, <3>1, <3>2
      DEF OwnedIsLive, TableOwns, HandsOwn, CallsReady, Reconnecting, Live, Types
    <3>4. TableOwns'
      BY <2>b, <3>1 DEF TableOwns, Types
    <3>5. HandsOwn'
      BY <2>b, <3>1 DEF HandsOwn, Types
    <3> QED
      BY <3>3, <3>4, <3>5
  <2>1. Types'
    BY <1>9 DEF Types, SessionStates, Labels, Over, CallsReady, TableOnTime, Install, Goto,
       Finish, loadVars
  <2>2. CallsReady'
    BY <1>9 DEF Types, CallsReady, Reconnecting, Install, Goto, Finish, loadVars
  <2>3. Mutex'
    BY <1>9 DEF Types, Mutex, Reconnecting, Install, Goto, Finish, loadVars
  <2>4. OwnedIsLive'
    BY <2>c, <2>d
  <2>5. TableOwns'
    BY <2>c, <2>d
  <2>6. HandsOwn'
    BY <2>c, <2>d
  <2>7. TableOnTime'
    <3>1. conn[c] # None
      BY <1>9 DEF Install, CallsReady, Reconnecting
    <3> QED
      BY <1>9, <3>1 DEF Install, Goto, Finish, loadVars, Types, TableOnTime
  <2>8. SessionsOwned'
    BY <1>9 DEF Types, SessionsOwned, InTable, InHand, OwnedIsLive, CallsReady, Live, Install,
       Goto, Finish, loadVars
  <2> QED
    BY <2>1, <2>2, <2>3, <2>4, <2>5, <2>6, <2>7, <2>8
<1>10. ASSUME NEW c \in Calls, CloseStale(c) PROVE McpInv'
  <2>1. Types'
    BY <1>10 DEF Types, SessionStates, Labels, Over, CallsReady, TableOnTime, CloseStale,
       Goto, loadVars
  <2>2. CallsReady'
    BY <1>10 DEF Types, CallsReady, Reconnecting, CloseStale, Goto, loadVars
  <2>3. Mutex'
    BY <1>10 DEF Types, Mutex, Reconnecting, CloseStale, Goto, loadVars
  <2>4. OwnedIsLive'
    BY <1>10 DEF Types, OwnedIsLive, TableOwns, HandsOwn, CallsReady, TableOnTime, Live,
       Reconnecting, CloseStale, Goto, loadVars
  <2>5. TableOwns'
    BY <1>10 DEF Types, OwnedIsLive, TableOwns, HandsOwn, CallsReady, TableOnTime, Live,
       Reconnecting, CloseStale, Goto, loadVars
  <2>6. HandsOwn'
    BY <1>10 DEF Types, OwnedIsLive, TableOwns, HandsOwn, CallsReady, TableOnTime, Live,
       Reconnecting, Mutex, CloseStale, Goto, loadVars
  <2>7. TableOnTime'
    BY <1>10 DEF Types, TableOnTime, CloseStale, Goto, loadVars
  <2>8. SessionsOwned'
    BY <1>10 DEF Types, SessionsOwned, InTable, InHand, OwnedIsLive, CallsReady, Live,
       CloseStale, Goto, loadVars
  <2> QED
    BY <2>1, <2>2, <2>3, <2>4, <2>5, <2>6, <2>7, <2>8
<1>11. ASSUME CloseSwap \/ CloseResume PROVE McpInv'
  <2>1. Types'
    BY <1>11 DEF Types, SessionStates, Labels, Over, CallsReady, TableOnTime, CloseSwap,
       CloseResume, loadVars, callVars
  <2>2. CallsReady'
    BY <1>11 DEF Types, CallsReady, Reconnecting, CloseSwap, CloseResume, loadVars, callVars
  <2>3. Mutex'
    BY <1>11 DEF Types, Mutex, Reconnecting, CloseSwap, CloseResume, loadVars, callVars
  <2>4. OwnedIsLive'
    BY <1>11 DEF Types, OwnedIsLive, TableOwns, HandsOwn, CallsReady, TableOnTime, Live,
       Reconnecting, CloseSwap, CloseResume, loadVars, callVars
  <2>5. TableOwns'
    BY <1>11 DEF Types, OwnedIsLive, TableOwns, HandsOwn, CallsReady, TableOnTime, Live,
       Reconnecting, CloseSwap, CloseResume, loadVars, callVars
  <2>6. HandsOwn'
    BY <1>11 DEF Types, OwnedIsLive, TableOwns, HandsOwn, CallsReady, TableOnTime, Live,
       Reconnecting, Mutex, CloseSwap, CloseResume, loadVars, callVars
  <2>7. TableOnTime'
    BY <1>11 DEF Types, TableOnTime, CloseSwap, CloseResume, loadVars, callVars
  <2>8. SessionsOwned'
    BY <1>11 DEF Types, SessionsOwned, InTable, InHand, OwnedIsLive, CallsReady, Live,
       CloseSwap, CloseResume, loadVars, callVars
  <2> QED
    BY <2>1, <2>2, <2>3, <2>4, <2>5, <2>6, <2>7, <2>8
<1>12. ASSUME CloseAll PROVE McpInv'
  <2>1. Types'
    BY <1>12 DEF Types, SessionStates, Labels, Over, CallsReady, TableOnTime, CloseAll,
       loadVars, callVars
  <2>2. CallsReady'
    BY <1>12 DEF Types, CallsReady, Reconnecting, CloseAll, loadVars, callVars
  <2>3. Mutex'
    BY <1>12 DEF Types, Mutex, Reconnecting, CloseAll, loadVars, callVars
  <2>4. OwnedIsLive'
    BY <1>12 DEF Types, OwnedIsLive, TableOwns, HandsOwn, CallsReady, TableOnTime, Live,
       Reconnecting, CloseAll, loadVars, callVars
  <2>5. TableOwns'
    BY <1>12 DEF Types, OwnedIsLive, TableOwns, HandsOwn, CallsReady, TableOnTime, Live,
       Reconnecting, CloseAll, loadVars, callVars
  <2>6. HandsOwn'
    BY <1>12 DEF Types, OwnedIsLive, TableOwns, HandsOwn, CallsReady, TableOnTime, Live,
       Reconnecting, Mutex, CloseAll, loadVars, callVars
  <2>7. TableOnTime'
    BY <1>12 DEF Types, TableOnTime, CloseAll, loadVars, callVars
  <2>8. SessionsOwned'
    BY <1>12 DEF Types, SessionsOwned, InTable, InHand, OwnedIsLive, CallsReady, Live,
       CloseAll, loadVars, callVars
  <2> QED
    BY <2>1, <2>2, <2>3, <2>4, <2>5, <2>6, <2>7, <2>8
<1>13. ASSUME NEW k \in Conns, LoseSession(k) PROVE McpInv'
  <2>1. Types'
    BY <1>13 DEF Types, SessionStates, Labels, Over, CallsReady, TableOnTime, LoseSession,
       loadVars, callVars
  <2>2. CallsReady'
    BY <1>13 DEF Types, CallsReady, Reconnecting, LoseSession, loadVars, callVars
  <2>3. Mutex'
    BY <1>13 DEF Types, Mutex, Reconnecting, LoseSession, loadVars, callVars
  <2>4. OwnedIsLive'
    BY <1>13 DEF Types, OwnedIsLive, TableOwns, HandsOwn, CallsReady, TableOnTime, Live,
       Reconnecting, LoseSession, loadVars, callVars
  <2>5. TableOwns'
    BY <1>13 DEF Types, OwnedIsLive, TableOwns, HandsOwn, CallsReady, TableOnTime, Live,
       Reconnecting, LoseSession, loadVars, callVars
  <2>6. HandsOwn'
    BY <1>13 DEF Types, OwnedIsLive, TableOwns, HandsOwn, CallsReady, TableOnTime, Live,
       Reconnecting, Mutex, LoseSession, loadVars, callVars
  <2>7. TableOnTime'
    BY <1>13 DEF Types, TableOnTime, LoseSession, loadVars, callVars
  <2>8. SessionsOwned'
    BY <1>13 DEF Types, SessionsOwned, InTable, InHand, OwnedIsLive, CallsReady, Live,
       LoseSession, loadVars, callVars
  <2> QED
    BY <2>1, <2>2, <2>3, <2>4, <2>5, <2>6, <2>7, <2>8
<1>14. ASSUME UNCHANGED vars PROVE McpInv'
  <2>1. Types'
    BY <1>14 DEF Types, SessionStates, Labels, Over, CallsReady, TableOnTime, vars, loadVars,
       callVars
  <2>2. CallsReady'
    BY <1>14 DEF Types, CallsReady, Reconnecting, vars, loadVars, callVars
  <2>3. Mutex'
    BY <1>14 DEF Types, Mutex, Reconnecting, vars, loadVars, callVars
  <2>4. OwnedIsLive'
    BY <1>14 DEF Types, OwnedIsLive, TableOwns, HandsOwn, CallsReady, TableOnTime, Live,
       Reconnecting, vars, loadVars, callVars
  <2>5. TableOwns'
    BY <1>14 DEF Types, OwnedIsLive, TableOwns, HandsOwn, CallsReady, TableOnTime, Live,
       Reconnecting, vars, loadVars, callVars
  <2>6. HandsOwn'
    BY <1>14 DEF Types, OwnedIsLive, TableOwns, HandsOwn, CallsReady, TableOnTime, Live,
       Reconnecting, Mutex, vars, loadVars, callVars
  <2>7. TableOnTime'
    BY <1>14 DEF Types, TableOnTime, vars, loadVars, callVars
  <2>8. SessionsOwned'
    BY <1>14 DEF Types, SessionsOwned, InTable, InHand, OwnedIsLive, CallsReady, Live, vars,
       loadVars, callVars
  <2> QED
    BY <2>1, <2>2, <2>3, <2>4, <2>5, <2>6, <2>7, <2>8
<1> QED
  BY <1>1, <1>2, <1>3, <1>4, <1>5, <1>6, <1>7, <1>8, <1>9, <1>10, <1>11, <1>12, <1>13, <1>14
  DEF Next, CallStep, LoadStep, CloseStep

LEMMA Invariance == Spec => []McpInv
BY InvInit, InvStep, PTL DEF Spec

\* Every variable of the manager keeps its type (mcp/manager.go).
THEOREM TypeCorrect == Spec => []TypeOK
<1>1. McpInv => TypeOK
  BY NoneAssumption DEF McpInv, Types, CallsReady, TypeOK, Counted, Labels, Over, Reconnecting
<1> QED
  BY Invariance, <1>1, PTL

\* No session leaks, whatever reconnections, loading and Close do (mcp/manager.go).
THEOREM NoSessionLeaks == Spec => []SessionsOwned
<1>1. McpInv => SessionsOwned
  BY DEF McpInv
<1> QED
  BY Invariance, <1>1, PTL

\* No closed connection stays in the table, and none comes into it after Close.
THEOREM TableStaysLive == Spec => []TableIsLive
<1>1. McpInv => TableIsLive
  BY DEF McpInv, OwnedIsLive, TableOnTime, TableIsLive, Live
<1> QED
  BY Invariance, <1>1, PTL

\* However many calls find a session lost, one at a time connects again.
THEOREM OneReconnects == Spec => []SingleReconnect
<1>1. McpInv => SingleReconnect
  BY DEF McpInv, Mutex, SingleReconnect, Reconnecting
<1> QED
  BY Invariance, <1>1, PTL
=============================================================================
