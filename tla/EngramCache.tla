---------------------------- MODULE EngramCache ----------------------------
(***************************************************************************)
(* The MuninnDB store of memory/muninn_store.go: engrams in a remote       *)
(* database, and a cache of their ids by vault and concept, which every    *)
(* operation fills or empties in a step of its own after the remote call.  *)
(* The tools and the Manager of memory/tools.go and memory/manager.go call *)
(* it concurrently.                                                        *)
(*                                                                         *)
(* The database is external: a write makes an engram with a new id, an     *)
(* activation returns whatever engrams it finds relevant, and the answer   *)
(* to any call may be lost.                                                *)
(***************************************************************************)
EXTENDS Naturals, Sequences, SequencesExt

CONSTANTS
  Vaults,       \* users
  Concepts,     \* memory keys
  Engrams,      \* engram ids
  Unwritten,    \* what the database knows of an id it has not given yet
  NoEngram,     \* no id
  MemoryCalls,  \* concurrent calls of the store
  BatchSize,    \* writes in one WriteBatch (50 in the code)
  BatchLength   \* bound on the entries of one SetBatch

ASSUME EngramAssumption == NoEngram \notin Engrams
ASSUME UnwrittenAssumption == Unwritten \notin [vault : Vaults, concept : Concepts]
ASSUME BatchAssumption == BatchSize \in Nat \ {0} /\ BatchLength \in Nat

VARIABLES
  engram,     \* vault and concept of each engram written
  forgotten,  \* engrams that Forget has removed
  idCache,    \* MuninnStore.idCache
  memory      \* each call of the store under way

cacheVars == <<engram, forgotten, idCache, memory>>

-----------------------------------------------------------------------------
Idle == [step |-> "idle"]

\* Engrams a vault holds, and those of one concept.
Live(v) == {e \in Engrams \ forgotten : engram[e] # Unwritten /\ engram[e].vault = v}
LiveOf(v, k) == {e \in Live(v) : engram[e].concept = k}

CacheInit ==
  /\ engram = [e \in Engrams |-> Unwritten]
  /\ forgotten = {}
  /\ idCache = [v \in Vaults |-> [k \in Concepts |-> NoEngram]]
  /\ memory = [m \in MemoryCalls |-> Idle]

Step(m, s) == memory[m].step = s

\* A call with some of its variables set, perhaps for the first time.
With(call, fields) ==
  [f \in DOMAIN call \cup DOMAIN fields |->
     IF f \in DOMAIN fields THEN fields[f] ELSE call[f]]

Become(m, fields) == memory' = [memory EXCEPT ![m] = With(@, fields)]

\* setIDCache and deleteIDCache.
CacheId(v, k, id) == idCache' = [idCache EXCEPT ![v][k] = id]

\* A call is over, unless PurgeOlderThan has more keys to delete.
Return(m) ==
  IF memory[m].purge = {} THEN memory' = [memory EXCEPT ![m] = Idle]
  ELSE \E k \in memory[m].purge :
         Become(m, [step |-> "look", kind |-> "delete", key |-> k,
                    purge |-> memory[m].purge \ {k}])

-----------------------------------------------------------------------------
\* Set and SetBatch.  Set is a batch of one; a batch is a map, in any order.
StartSet(m) ==
  /\ Step(m, "idle")
  /\ \E v \in Vaults, n \in 1..BatchLength : \E keys \in [1..n -> Concepts] :
       /\ IsInjective(keys)
       /\ memory' = [memory EXCEPT ![m] =
            [step |-> "write", vault |-> v, keys |-> keys, start |-> 0,
             results |-> <<>>, purge |-> {}]]
  /\ UNCHANGED <<engram, forgotten, idCache>>

\* WriteBatch writes some of the items of the chunk; its answer gives the index of
\* each item in the chunk, with an id, no id, or an error.
WriteBatch(m) ==
  /\ Step(m, "write")
  /\ LET call == memory[m]
         chunk == 1..(IF call.start + BatchSize <= Len(call.keys)
                      THEN BatchSize ELSE Len(call.keys) - call.start)
     IN \E written \in SUBSET chunk :
        \E id \in [written -> {e \in Engrams : engram[e] = Unwritten}] :
          /\ \A i, j \in written : id[i] = id[j] => i = j
          /\ engram' = [e \in Engrams |->
               IF \E i \in written : id[i] = e
               THEN [vault |-> call.vault,
                     concept |-> call.keys[call.start
                                           + CHOOSE i \in written : id[i] = e]]
               ELSE engram[e]]
          /\ \/ \E silent \in SUBSET chunk :
                  Become(m, [step |-> "results", results |->
                    [i \in chunk |-> [index |-> i,
                       id |-> IF i \in silent THEN NoEngram
                              ELSE IF i \in written THEN id[i] ELSE "error"]]])
             \/ Return(m)
  /\ UNCHANGED <<forgotten, idCache>>

\* Mutant: the index of a result taken as an index into all the keys.
KeyOfChunk(call, result) == call.keys[result.index]

KeyOf(call, result) == call.keys[call.start + result.index]

\* One result of the batch goes into the cache; the first error ends the call.
CacheResult(m) ==
  /\ Step(m, "results")
  /\ LET call == memory[m]
         result == Head(call.results)
     IN CASE call.results = <<>> /\ call.start + BatchSize < Len(call.keys) ->
               /\ Become(m, [step |-> "write", start |-> call.start + BatchSize])
               /\ UNCHANGED idCache
          [] call.results = <<>> /\ call.start + BatchSize >= Len(call.keys) ->
               Return(m) /\ UNCHANGED idCache
          [] call.results # <<>> /\ result.id = "error" ->
               Return(m) /\ UNCHANGED idCache
          [] OTHER ->
               /\ Become(m, [results |-> Tail(call.results)])
               /\ IF result.id = NoEngram THEN UNCHANGED idCache
                  ELSE CacheId(call.vault, KeyOf(call, result), result.id)
  /\ UNCHANGED <<engram, forgotten>>

-----------------------------------------------------------------------------
\* Get and Delete.
StartKey(m) ==
  /\ Step(m, "idle")
  /\ \E v \in Vaults, k \in Concepts, kind \in {"get", "delete"} :
       memory' = [memory EXCEPT ![m] =
         [step |-> "look", kind |-> kind, vault |-> v, key |-> k, purge |-> {}]]
  /\ UNCHANGED <<engram, forgotten, idCache>>

LookUpId(m) ==
  /\ Step(m, "look")
  /\ LET call == memory[m]
         id == idCache[call.vault][call.key]
     IN Become(m, [id |-> id, step |->
          IF id = NoEngram THEN "activate" ELSE IF call.kind = "get" THEN "read" ELSE "forget"])
  /\ UNCHANGED <<engram, forgotten, idCache>>

\* An exact read; its error does not touch the cache.
Read(m) ==
  /\ Step(m, "read")
  /\ Return(m)
  /\ UNCHANGED <<engram, forgotten, idCache>>

\* The answer of Activate is filtered for the exact concept.
ActivateKey(m) ==
  /\ Step(m, "activate")
  /\ LET call == memory[m]
     IN \/ \E e \in LiveOf(call.vault, call.key) :
             IF call.kind = "get"
             THEN Become(m, [step |-> "found", found |-> {<<call.key, e>>}])
             ELSE Become(m, [step |-> "forget", id |-> e])
        \/ Return(m)        \* nothing found, or the call failed
  /\ UNCHANGED <<engram, forgotten, idCache>>

Forget(m) ==
  /\ Step(m, "forget")
  /\ \/ forgotten' = forgotten \cup {memory[m].id} /\ Become(m, [step |-> "evict"])
     \/ forgotten' = forgotten \cup {memory[m].id} /\ Return(m)  \* the answer is lost
     \/ UNCHANGED forgotten /\ Return(m)
  /\ UNCHANGED <<engram, idCache>>

Evict(m) ==
  /\ Step(m, "evict")
  /\ CacheId(memory[m].vault, memory[m].key, NoEngram)
  /\ Return(m)
  /\ UNCHANGED <<engram, forgotten>>

-----------------------------------------------------------------------------
\* Search, Activate and List cache whatever they are given.  List reads on page by
\* page, Recall activates and may search afterwards, PurgeOlderThan lists and then
\* deletes the keys that are old.
StartSweep(m) ==
  /\ Step(m, "idle")
  /\ \E v \in Vaults, kind \in {"search", "list", "purge"} :
       memory' = [memory EXCEPT ![m] = [step |-> "sweep", kind |-> kind, vault |-> v,
                                        listed |-> {}, purge |-> {}]]
  /\ UNCHANGED <<engram, forgotten, idCache>>

Sweep(m) ==
  /\ Step(m, "sweep")
  /\ \/ \E page \in SUBSET Live(memory[m].vault) :
          Become(m, [step |-> "found",
                     found |-> {<<engram[e].concept, e>> : e \in page},
                     listed |-> memory[m].listed \cup {engram[e].concept : e \in page}])
     \/ Return(m)           \* the call failed
  /\ UNCHANGED <<engram, forgotten, idCache>>

CacheFound(m) ==
  /\ Step(m, "found")
  /\ memory[m].found # {}
  /\ \E item \in memory[m].found :
       /\ CacheId(memory[m].vault, item[1], item[2])
       /\ Become(m, [found |-> memory[m].found \ {item}])
  /\ UNCHANGED <<engram, forgotten>>

AllFound(m) ==
  /\ Step(m, "found")
  /\ memory[m].found = {}
  /\ CASE memory[m].kind = "get" -> Return(m)
       [] memory[m].kind = "purge" ->
            \/ Become(m, [step |-> "sweep"])
            \/ \E old \in SUBSET memory[m].listed :
                 Become(m, [step |-> "purge", purge |-> old])
       [] OTHER -> Become(m, [step |-> "sweep"]) \/ Return(m)
  /\ UNCHANGED <<engram, forgotten, idCache>>

Purge(m) ==
  /\ Step(m, "purge")
  /\ Return(m)
  /\ UNCHANGED <<engram, forgotten, idCache>>

CacheNext ==
  \E m \in MemoryCalls :
    \/ StartSet(m) \/ WriteBatch(m) \/ CacheResult(m)
    \/ StartKey(m) \/ LookUpId(m) \/ Read(m) \/ ActivateKey(m) \/ Forget(m) \/ Evict(m)
    \/ StartSweep(m) \/ Sweep(m) \/ CacheFound(m) \/ AllFound(m) \/ Purge(m)

CacheSpec == CacheInit /\ [][CacheNext]_cacheVars

-----------------------------------------------------------------------------
CacheTypeOK ==
  /\ engram \in [Engrams -> [vault : Vaults, concept : Concepts] \cup {Unwritten}]
  /\ forgotten \subseteq {e \in Engrams : engram[e] # Unwritten}
  /\ idCache \in [Vaults -> [Concepts -> Engrams \cup {NoEngram}]]
  /\ DOMAIN memory = MemoryCalls

\* An id in the cache is that of an engram of the same vault and concept, dead or
\* alive, whatever batches failed half-way and calls overtook each other: Get never
\* shows another memory and Delete never forgets one (setIDCache and its callers).
CachedIdsMatch ==
  \A v \in Vaults, k \in Concepts :
    idCache[v][k] # NoEngram => engram[idCache[v][k]] = [vault |-> v, concept |-> k]

=============================================================================
