------------------------- MODULE EngramCacheProofs -------------------------
(***************************************************************************)
(* The cache of engram ids never holds the id of another memory, for any   *)
(* vaults, concepts, engrams, calls and sizes of batches: an induction     *)
(* with CacheInv.                                                          *)
(***************************************************************************)
EXTENDS EngramCache, TLAPS

\* In this state of the database, e is an engram of the concept k in the vault v.
IsOf(e, v, k, store) ==
  e \in Engrams /\ store[e] # Unwritten /\ store[e].vault = v /\ store[e].concept = k

\* What a call was answered, and has not yet put into the cache, is true.
CallOK(call, store) ==
  /\ call.step # "idle" => {"step", "vault", "purge"} \subseteq DOMAIN call /\ call.vault \in Vaults
  /\ call.step \in {"write", "results"} =>
       /\ {"keys", "start", "results"} \subseteq DOMAIN call
       /\ call.keys \in Seq(Concepts)
       /\ call.start \in Nat /\ call.start <= Len(call.keys)
  /\ call.step = "results" =>
       /\ call.results \in Seq([index : Nat, id : Engrams \cup {NoEngram, "error"}])
       /\ \A i \in 1..Len(call.results) : call.results[i].id \notin {NoEngram, "error"} =>
            IsOf(call.results[i].id, call.vault,
                 call.keys[call.start + call.results[i].index], store)
  /\ call.step = "found" =>
       /\ "found" \in DOMAIN call
       /\ \A item \in call.found : IsOf(item[2], call.vault, item[1], store)

Written == [vault : Vaults, concept : Concepts]

CacheTrue ==
  /\ idCache \in [Vaults -> [Concepts -> Engrams \cup {NoEngram}]]
  /\ \A v \in Vaults, k \in Concepts :
       idCache[v][k] # NoEngram => IsOf(idCache[v][k], v, k, engram)

CallsTrue ==
  /\ DOMAIN memory = MemoryCalls
  /\ \A m \in MemoryCalls : CallOK(memory[m], engram)

CacheInv == engram \in [Engrams -> Written \cup {Unwritten}] /\ CacheTrue /\ CallsTrue

LEMMA CacheInvInit == CacheInit => CacheInv
BY DEF CacheInit, CacheInv, CacheTrue, CallsTrue, CallOK, Idle

\* The database keeps what it has written.
Keeps ==
  /\ engram' \in [Engrams -> Written \cup {Unwritten}]
  /\ \A e \in Engrams : engram[e] # Unwritten => engram'[e] = engram[e]

LEMMA CallStaysOK ==
  ASSUME Keeps, NEW call, CallOK(call, engram)
  PROVE  CallOK(call, engram')
BY DEF Keeps, CallOK, IsOf

\* One call goes on while the database keeps what it has.
LEMMA OneCallMoves ==
  ASSUME CallsTrue, Keeps, NEW m \in MemoryCalls, NEW call,
         memory' = [memory EXCEPT ![m] = call], CallOK(call, engram')
  PROVE  CallsTrue'
<1>1. ASSUME NEW q \in MemoryCalls PROVE CallOK(memory'[q], engram')
  <2>1. CASE q = m  BY <2>1 DEF CallsTrue
  <2>2. CASE q # m
    <3>1. memory'[q] = memory[q] /\ CallOK(memory[q], engram)  BY <2>2 DEF CallsTrue
    <3> QED BY <3>1, CallStaysOK
  <2> QED BY <2>1, <2>2
<1>2. DOMAIN memory' = MemoryCalls  BY DEF CallsTrue
<1> QED BY <1>1, <1>2 DEF CallsTrue, CallOK, IsOf

\* The cache is left alone, or gets an id that is true, or loses one.
LEMMA CacheStays ==
  ASSUME CacheTrue, Keeps, UNCHANGED idCache
  PROVE  CacheTrue'
BY DEF CacheTrue, Keeps, IsOf

LEMMA CacheGets ==
  ASSUME CacheTrue, Keeps, NEW v, NEW k, NEW id, CacheId(v, k, id),
         id = NoEngram \/ IsOf(id, v, k, engram')
  PROVE  CacheTrue'
<1>1. idCache' = [idCache EXCEPT ![v][k] = id]  BY DEF CacheId
<1>2. id \in Engrams \cup {NoEngram}  BY DEF IsOf
<1>3. idCache' \in [Vaults -> [Concepts -> Engrams \cup {NoEngram}]]
  BY <1>1, <1>2 DEF CacheTrue
<1>4. ASSUME NEW w \in Vaults, NEW l \in Concepts, idCache'[w][l] # NoEngram
      PROVE  IsOf(idCache'[w][l], w, l, engram')
  <2>1. CASE w = v /\ l = k
    <3>1. idCache'[w][l] = id  BY <1>1, <2>1 DEF CacheTrue
    <3> QED BY <1>4, <2>1, <3>1
  <2>2. CASE ~(w = v /\ l = k)
    <3>1. idCache'[w][l] = idCache[w][l]  BY <1>1, <2>2 DEF CacheTrue
    <3> QED BY <1>4, <3>1 DEF CacheTrue, Keeps, IsOf
  <2> QED BY <2>1, <2>2
<1> QED BY <1>3, <1>4 DEF CacheTrue, IsOf

\* The end of a call, or of one deletion of PurgeOlderThan.
LEMMA ReturnIsOK ==
  ASSUME CallsTrue, Keeps, NEW m \in MemoryCalls, memory[m].step # "idle", Return(m)
  PROVE  CallsTrue'
<1>1. CASE memory' = [memory EXCEPT ![m] = Idle]
  <2>1. CallOK(Idle, engram')  BY DEF CallOK, Idle
  <2> QED BY <1>1, <2>1, OneCallMoves
<1>2. ASSUME NEW k,
             Become(m, [step |-> "look", kind |-> "delete", key |-> k,
                        purge |-> memory[m].purge \ {k}])
      PROVE  CallsTrue'
  <2> DEFINE call == With(memory[m], [step |-> "look", kind |-> "delete", key |-> k,
                                      purge |-> memory[m].purge \ {k}])
  <2>1. CallOK(memory[m], engram)  BY DEF CallsTrue
  <2>2. CallOK(call, engram')  BY <2>1 DEF CallOK, With
  <2>3. memory' = [memory EXCEPT ![m] = call]  BY <1>2 DEF Become, CallsTrue
  <2> HIDE DEF call
  <2> QED BY <2>2, <2>3, OneCallMoves
<1> QED BY <1>1, <1>2 DEF Return

-----------------------------------------------------------------------------
LEMMA NothingWritten ==
  ASSUME CacheInv, UNCHANGED engram
  PROVE  Keeps
BY DEF CacheInv, Keeps

\* Calls begin.
LEMMA StartIsOK ==
  ASSUME CacheInv, NEW m \in MemoryCalls, StartSet(m) \/ StartKey(m) \/ StartSweep(m)
  PROVE  CacheInv'
<1>1. Keeps /\ UNCHANGED <<engram, idCache>>
  BY NothingWritten DEF StartSet, StartKey, StartSweep
<1>2. PICK call : memory' = [memory EXCEPT ![m] = call] /\ CallOK(call, engram')
  <2>1. CASE StartSet(m)
    <3>0. PICK v \in Vaults, n \in 1..BatchLength : \E keys \in [1..n -> Concepts] :
            memory' = [memory EXCEPT ![m] =
              [step |-> "write", vault |-> v, keys |-> keys, start |-> 0,
               results |-> <<>>, purge |-> {}]]
      BY <2>1 DEF StartSet
    <3>1. PICK keys \in [1..n -> Concepts] :
            memory' = [memory EXCEPT ![m] =
              [step |-> "write", vault |-> v, keys |-> keys, start |-> 0,
               results |-> <<>>, purge |-> {}]]
      BY <3>0
    <3>2. keys \in Seq(Concepts) /\ 0 <= Len(keys)
      BY BatchAssumption
    <3>3. CallOK([step |-> "write", vault |-> v, keys |-> keys, start |-> 0,
                  results |-> <<>>, purge |-> {}], engram')
      BY <3>2 DEF CallOK
    <3> QED BY <3>1, <3>3
  <2>2. CASE StartKey(m)
    <3>1. PICK v \in Vaults, k \in Concepts, kind \in {"get", "delete"} :
            memory' = [memory EXCEPT ![m] =
              [step |-> "look", kind |-> kind, vault |-> v, key |-> k, purge |-> {}]]
      BY <2>2 DEF StartKey
    <3>2. CallOK([step |-> "look", kind |-> kind, vault |-> v, key |-> k, purge |-> {}],
                 engram')
      BY DEF CallOK
    <3> QED BY <3>1, <3>2
  <2>3. CASE StartSweep(m)
    <3>1. PICK v \in Vaults, kind \in {"search", "list", "purge"} :
            memory' = [memory EXCEPT ![m] =
              [step |-> "sweep", kind |-> kind, vault |-> v, listed |-> {}, purge |-> {}]]
      BY <2>3 DEF StartSweep
    <3>2. CallOK([step |-> "sweep", kind |-> kind, vault |-> v, listed |-> {}, purge |-> {}],
                 engram')
      BY DEF CallOK
    <3> QED BY <3>1, <3>2
  <2> QED BY <2>1, <2>2, <2>3
<1> QED BY <1>1, <1>2, OneCallMoves, CacheStays DEF CacheInv

\* Reads, and the deletion of an engram, end the call or carry it on.
LEMMA ReadIsOK ==
  ASSUME CacheInv, NEW m \in MemoryCalls,
         \/ LookUpId(m) \/ Read(m) \/ ActivateKey(m) \/ Forget(m)
         \/ Sweep(m) \/ AllFound(m) \/ Purge(m)
  PROVE  CacheInv'
<1>1. Keeps /\ UNCHANGED <<engram, idCache>> /\ memory[m].step # "idle"
  BY NothingWritten
  DEF LookUpId, Read, ActivateKey, Forget, Sweep, AllFound, Purge, Step
<1>2. CallOK(memory[m], engram)  BY DEF CacheInv, CallsTrue
<1>3. ASSUME NEW fields, Become(m, fields), CallOK(With(memory[m], fields), engram')
      PROVE  CallsTrue'
  <2> DEFINE call == With(memory[m], fields)
  <2>1. memory' = [memory EXCEPT ![m] = call]  BY <1>3 DEF Become, CacheInv, CallsTrue
  <2>2. CallOK(call, engram')  BY <1>3
  <2> HIDE DEF call
  <2> QED BY <1>1, <2>1, <2>2, OneCallMoves DEF CacheInv
<1>4. ASSUME Return(m) PROVE CallsTrue'
  BY <1>1, <1>4, ReturnIsOK DEF CacheInv
<1>5. ASSUME LookUpId(m) PROVE CallsTrue'
  <2> DEFINE hit == idCache[memory[m].vault][memory[m].key]
             next == IF hit = NoEngram THEN "activate"
                     ELSE IF memory[m].kind = "get" THEN "read" ELSE "forget"
  <2>1. Become(m, [id |-> hit, step |-> next])
    BY <1>5 DEF LookUpId
  <2>2. next \in {"activate", "read", "forget"}
    OBVIOUS
  <2> HIDE DEF hit, next
  <2>3. CallOK(With(memory[m], [id |-> hit, step |-> next]), engram')
    BY <1>1, <1>2, <2>2 DEF CallOK, With
  <2> QED BY <1>3, <2>1, <2>3
<1>6. ASSUME ActivateKey(m) PROVE CallsTrue'
  <2>1. ASSUME NEW e \in LiveOf(memory[m].vault, memory[m].key),
               Become(m, [step |-> "found", found |-> {<<memory[m].key, e>>}])
        PROVE  CallsTrue'
    <3>1. IsOf(e, memory[m].vault, memory[m].key, engram')
      BY <1>1, <2>1 DEF LiveOf, Live, IsOf
    <3> DEFINE items == {<<memory[m].key, e>>}
    <3>2. \A item \in items : IsOf(item[2], memory[m].vault, item[1], engram')
      BY <3>1
    <3> HIDE DEF items
    <3>3. CallOK(With(memory[m], [step |-> "found", found |-> items]), engram')
      BY <1>1, <1>2, <3>2 DEF CallOK, With
    <3> QED BY <1>3, <2>1, <3>3 DEF items
  <2>2. ASSUME NEW e, Become(m, [step |-> "forget", id |-> e])
        PROVE  CallsTrue'
    <3>1. CallOK(With(memory[m], [step |-> "forget", id |-> e]), engram')
      BY <1>1, <1>2 DEF CallOK, With
    <3> QED BY <1>3, <2>2, <3>1
  <2> QED BY <1>4, <1>6, <2>1, <2>2 DEF ActivateKey
<1>7. ASSUME Forget(m) PROVE CallsTrue'
  <2>1. CallOK(With(memory[m], [step |-> "evict"]), engram')
    BY <1>1, <1>2 DEF CallOK, With
  <2> QED BY <1>3, <1>4, <1>7, <2>1 DEF Forget
<1>8. ASSUME Sweep(m) PROVE CallsTrue'
  <2>1. ASSUME NEW page \in SUBSET Live(memory[m].vault), NEW all,
               Become(m, [step |-> "found",
                          found |-> {<<engram[e].concept, e>> : e \in page},
                          listed |-> all])
        PROVE  CallsTrue'
    <3> DEFINE items == {<<engram[e].concept, e>> : e \in page}
    <3>1. \A item \in items : IsOf(item[2], memory[m].vault, item[1], engram')
      BY <1>1 DEF Live, IsOf
    <3> HIDE DEF items
    <3>2. CallOK(With(memory[m], [step |-> "found", found |-> items, listed |-> all]),
                 engram')
      BY <1>1, <1>2, <3>1 DEF CallOK, With
    <3> QED BY <1>3, <2>1, <3>2 DEF items
  <2> QED BY <1>4, <1>8, <2>1 DEF Sweep
<1>9. ASSUME AllFound(m) PROVE CallsTrue'
  <2>1. CallOK(With(memory[m], [step |-> "sweep"]), engram')
    BY <1>1, <1>2 DEF CallOK, With
  <2>2. ASSUME NEW old PROVE
          CallOK(With(memory[m], [step |-> "purge", purge |-> old]), engram')
    BY <1>1, <1>2 DEF CallOK, With
  <2> QED BY <1>3, <1>4, <1>9, <2>1, <2>2 DEF AllFound
<1>10. CallsTrue'
  BY <1>4, <1>5, <1>6, <1>7, <1>8, <1>9 DEF Read, Purge
<1> QED BY <1>1, <1>10, CacheStays DEF CacheInv

\* What a call was told goes into the cache.
LEMMA FoundIsOK ==
  ASSUME CacheInv, NEW m \in MemoryCalls, CacheFound(m)
  PROVE  CacheInv'
<1>1. Keeps /\ UNCHANGED engram /\ memory[m].step = "found"
  BY NothingWritten DEF CacheFound, Step
<1>2. CallOK(memory[m], engram)  BY DEF CacheInv, CallsTrue
<1>3. PICK item \in memory[m].found :
        /\ CacheId(memory[m].vault, item[1], item[2])
        /\ Become(m, [found |-> memory[m].found \ {item}])
  BY DEF CacheFound
<1>4. IsOf(item[2], memory[m].vault, item[1], engram')
  BY <1>1, <1>2 DEF CallOK
<1>5. CacheTrue'
  BY <1>1, <1>3, <1>4, CacheGets DEF CacheInv
<1> DEFINE call == With(memory[m], [found |-> memory[m].found \ {item}])
<1>6. CallOK(call, engram')
  BY <1>1, <1>2 DEF CallOK, With
<1>7. memory' = [memory EXCEPT ![m] = call]
  BY <1>3 DEF Become, CacheInv, CallsTrue
<1> HIDE DEF call
<1> QED BY <1>1, <1>5, <1>6, <1>7, OneCallMoves DEF CacheInv

LEMMA EvictIsOK ==
  ASSUME CacheInv, NEW m \in MemoryCalls, Evict(m)
  PROVE  CacheInv'
<1>1. Keeps /\ UNCHANGED engram /\ memory[m].step # "idle"
  BY NothingWritten DEF Evict, Step
<1>2. CacheTrue'
  BY <1>1, CacheGets DEF Evict, CacheInv
<1>3. CallsTrue'
  BY <1>1, ReturnIsOK DEF Evict, CacheInv
<1> QED BY <1>1, <1>2, <1>3 DEF CacheInv

\* One result of a batch goes into the cache, under the key of its item.
LEMMA ResultIsOK ==
  ASSUME CacheInv, NEW m \in MemoryCalls, CacheResult(m)
  PROVE  CacheInv'
<1> DEFINE call == memory[m]
           rest == With(call, [results |-> Tail(call.results)])
<1>1. Keeps /\ UNCHANGED engram /\ call.step = "results"
  BY NothingWritten DEF CacheResult, Step
<1>2. CallOK(call, engram)  BY DEF CacheInv, CallsTrue
<1>3. CASE Return(m) /\ UNCHANGED idCache
  BY <1>1, <1>3, ReturnIsOK, CacheStays DEF CacheInv
<1>4. CASE /\ Become(m, [step |-> "write", start |-> call.start + BatchSize])
           /\ UNCHANGED idCache /\ call.start + BatchSize < Len(call.keys)
  <2> DEFINE next == With(call, [step |-> "write", start |-> call.start + BatchSize])
  <2>1. call.start + BatchSize \in Nat  BY <1>1, <1>2, BatchAssumption DEF CallOK
  <2>2. CallOK(next, engram')
    <3>1. /\ next.step = "write" /\ next.vault = call.vault /\ next.keys = call.keys
          /\ next.start = call.start + BatchSize
          /\ {"step", "vault", "purge", "keys", "start", "results"} \subseteq DOMAIN next
      BY <1>1, <1>2 DEF CallOK, With
    <3> HIDE DEF next
    <3> QED BY <1>1, <1>2, <1>4, <2>1, <3>1 DEF CallOK
  <2>3. memory' = [memory EXCEPT ![m] = next]
    BY <1>4 DEF Become, CacheInv, CallsTrue
  <2> HIDE DEF next
  <2> QED BY <1>1, <1>4, <2>2, <2>3, OneCallMoves, CacheStays DEF CacheInv
<1>5. CASE /\ call.results # <<>> /\ Head(call.results).id # "error"
           /\ Become(m, [results |-> Tail(call.results)])
           /\ IF Head(call.results).id = NoEngram THEN UNCHANGED idCache
              ELSE CacheId(call.vault, KeyOf(call, Head(call.results)), Head(call.results).id)
  <2>1. /\ call.results \in Seq([index : Nat, id : Engrams \cup {NoEngram, "error"}])
        /\ call.results # <<>>
    BY <1>1, <1>2, <1>5 DEF CallOK
  <2>2. /\ Head(call.results) = call.results[1] /\ 1 \in 1..Len(call.results)
        /\ Tail(call.results) \in Seq([index : Nat, id : Engrams \cup {NoEngram, "error"}])
        /\ \A i \in 1..Len(Tail(call.results)) :
             i + 1 \in 1..Len(call.results) /\ Tail(call.results)[i] = call.results[i + 1]
    BY <2>1
  <2>3. CacheTrue'
    <3>1. CASE Head(call.results).id = NoEngram
      BY <1>1, <1>5, <3>1, CacheStays DEF CacheInv
    <3>2. CASE Head(call.results).id # NoEngram
      <4>1. IsOf(Head(call.results).id, call.vault, KeyOf(call, Head(call.results)), engram')
        BY <1>1, <1>2, <1>5, <2>2, <3>2 DEF CallOK, KeyOf
      <4> QED BY <1>1, <1>5, <3>2, <4>1, CacheGets DEF CacheInv
    <3> QED BY <3>1, <3>2
  <2>4. CallOK(rest, engram')
    <3>1. /\ rest.step = "results" /\ rest.vault = call.vault /\ rest.keys = call.keys
          /\ rest.start = call.start /\ rest.results = Tail(call.results)
          /\ {"step", "vault", "purge", "keys", "start", "results"} \subseteq DOMAIN rest
      BY <1>1, <1>2 DEF CallOK, With
    <3>2. \A i \in 1..Len(rest.results) : rest.results[i].id \notin {NoEngram, "error"} =>
            IsOf(rest.results[i].id, rest.vault,
                 rest.keys[rest.start + rest.results[i].index], engram')
      BY <1>1, <1>2, <2>2, <3>1 DEF CallOK
    <3> HIDE DEF rest
    <3> QED BY <1>1, <1>2, <2>2, <3>1, <3>2 DEF CallOK
  <2>5. memory' = [memory EXCEPT ![m] = rest]
    BY <1>5 DEF Become, CacheInv, CallsTrue
  <2> HIDE DEF rest
  <2>6. CallsTrue'  BY <1>1, <2>4, <2>5, OneCallMoves DEF CacheInv
  <2> QED BY <1>1, <2>3, <2>6 DEF CacheInv
<1>6. CASE call.results = <<>>
  <2>1. call.start + BatchSize < Len(call.keys) \/ call.start + BatchSize >= Len(call.keys)
    BY <1>1, <1>2, BatchAssumption DEF CallOK
  <2> QED BY <1>3, <1>4, <1>6, <2>1 DEF CacheResult
<1>7. CASE call.results # <<>> /\ Head(call.results).id = "error"
  BY <1>3, <1>7 DEF CacheResult
<1>8. CASE call.results # <<>> /\ Head(call.results).id # "error"
  BY <1>5, <1>8 DEF CacheResult
<1> QED BY <1>6, <1>7, <1>8

LEMMA NewEngram ==
  ASSUME NEW v \in Vaults, NEW k \in Concepts, NEW e \in Engrams, NEW store,
         store[e] = [vault |-> v, concept |-> k]
  PROVE  store[e] \in Written /\ IsOf(e, v, k, store)
BY UnwrittenAssumption DEF Written, IsOf

LEMMA FunctionIsSeq ==
  ASSUME NEW n \in Nat, NEW S, NEW f \in [1..n -> S]
  PROVE  f \in Seq(S) /\ Len(f) = n
OBVIOUS

\* The engrams of a chunk are those of its keys.
LEMMA BatchIsOK ==
  ASSUME CacheInv, NEW m \in MemoryCalls, WriteBatch(m)
  PROVE  CacheInv' /\ Keeps
<1> DEFINE call == memory[m]
           size == IF call.start + BatchSize <= Len(call.keys)
                   THEN BatchSize ELSE Len(call.keys) - call.start
           NewEngrams(written, id) ==
             [e \in Engrams |->
               IF \E i \in written : id[i] = e
               THEN [vault |-> call.vault,
                     concept |-> call.keys[call.start + CHOOSE i \in written : id[i] = e]]
               ELSE engram[e]]
           Results(written, id, silent) ==
             [i \in 1..size |-> [index |-> i,
               id |-> IF i \in silent THEN NoEngram
                      ELSE IF i \in written THEN id[i] ELSE "error"]]
<1>1. call.step = "write" /\ UNCHANGED idCache  BY DEF WriteBatch, Step
<1>2. CallOK(call, engram)  BY DEF CacheInv, CallsTrue
<1>3. /\ size \in Nat
      /\ \A i \in 1..size : call.start + i \in 1..Len(call.keys)
  BY <1>1, <1>2, BatchAssumption DEF CallOK
<1>4. PICK written \in SUBSET (1..size) :
        \E id \in [written -> {e \in Engrams : engram[e] = Unwritten}] :
          /\ \A i, j \in written : id[i] = id[j] => i = j
          /\ engram' = NewEngrams(written, id)
          /\ \/ \E silent \in SUBSET (1..size) :
                  Become(m, [step |-> "results", results |-> Results(written, id, silent)])
             \/ Return(m)
  BY DEF WriteBatch
<1>5. PICK id \in [written -> {e \in Engrams : engram[e] = Unwritten}] :
        /\ \A i, j \in written : id[i] = id[j] => i = j
        /\ engram' = NewEngrams(written, id)
        /\ \/ \E silent \in SUBSET (1..size) :
                Become(m, [step |-> "results", results |-> Results(written, id, silent)])
           \/ Return(m)
  BY <1>4
<1> HIDE DEF size
<1>6. ASSUME NEW i \in written
      PROVE  /\ id[i] \in Engrams /\ call.keys[call.start + i] \in Concepts
             /\ engram'[id[i]] = [vault |-> call.vault, concept |-> call.keys[call.start + i]]
  <2>1. id[i] \in Engrams /\ i = (CHOOSE j \in written : id[j] = id[i])
    <3> DEFINE first == CHOOSE j \in written : id[j] = id[i]
    <3>1. first \in written /\ id[first] = id[i]  OBVIOUS
    <3> HIDE DEF first
    <3>2. first = i  BY <1>5, <3>1
    <3> QED BY <1>5, <3>2 DEF first
  <2>2. call.keys[call.start + i] \in Concepts
    <3>1. i \in 1..size  BY <1>4
    <3>2. call.keys \in Seq(Concepts) /\ call.start + i \in 1..Len(call.keys)
      BY <1>1, <1>2, <1>3, <3>1 DEF CallOK
    <3> HIDE DEF call
    <3> QED BY <3>2
  <2>3. engram'[id[i]] =
          [vault |-> call.vault,
           concept |-> call.keys[call.start + CHOOSE j \in written : id[j] = id[i]]]
    BY <1>5, <2>1
  <2> QED BY <2>1, <2>2, <2>3
<1>7. \A e \in Engrams : (\E i \in written : id[i] = e) \/ engram'[e] = engram[e]
  BY <1>5
<1>8. Keeps
  <2>1. engram' \in [Engrams -> Written \cup {Unwritten}]
    <3>1. DOMAIN engram' = Engrams /\ engram' = [e \in Engrams |-> engram'[e]]  BY <1>5
    <3>2. ASSUME NEW e \in Engrams PROVE engram'[e] \in Written \cup {Unwritten}
      <4>1. CASE engram'[e] = engram[e]  BY <4>1 DEF CacheInv
      <4>2. ASSUME NEW i \in written, id[i] = e PROVE engram'[e] \in Written
        <5>1. call.vault \in Vaults  BY <1>1, <1>2 DEF CallOK
        <5>2. call.keys[call.start + i] \in Concepts
              /\ engram'[e] = [vault |-> call.vault, concept |-> call.keys[call.start + i]]
          BY <1>6, <4>2
        <5> QED BY <5>1, <5>2, NewEngram
      <4> QED BY <1>7, <4>1, <4>2
    <3> QED BY <3>1, <3>2
  <2>2. ASSUME NEW e \in Engrams, engram[e] # Unwritten PROVE engram'[e] = engram[e]
    <3>1. \A i \in written : id[i] # e  BY <1>5, <2>2
    <3> QED BY <1>7, <3>1
  <2> QED BY <2>1, <2>2 DEF Keeps
<1>9. \A i \in written : IsOf(id[i], call.vault, call.keys[call.start + i], engram')
  <2> SUFFICES ASSUME NEW i \in written
               PROVE  IsOf(id[i], call.vault, call.keys[call.start + i], engram')
    OBVIOUS
  <2>1. call.vault \in Vaults  BY <1>1, <1>2 DEF CallOK
  <2>2. /\ id[i] \in Engrams /\ call.keys[call.start + i] \in Concepts
        /\ engram'[id[i]] = [vault |-> call.vault, concept |-> call.keys[call.start + i]]
    BY <1>6
  <2> QED BY <2>1, <2>2, NewEngram
<1>10. CASE Return(m)
  BY <1>1, <1>8, <1>10, ReturnIsOK, CacheStays DEF CacheInv, Keeps
<1>11. ASSUME NEW silent \in SUBSET (1..size),
              Become(m, [step |-> "results", results |-> Results(written, id, silent)])
       PROVE  CacheInv'
  <2> DEFINE results == Results(written, id, silent)
             next == With(call, [step |-> "results", results |-> results])
  <2>1. \A i \in 1..size :
          /\ results[i] \in [index : Nat, id : Engrams \cup {NoEngram, "error"}]
          /\ results[i].index = i
          /\ results[i].id \notin {NoEngram, "error"} => i \in written /\ results[i].id = id[i]
    BY <1>3, <1>6
  <2>2. results \in Seq([index : Nat, id : Engrams \cup {NoEngram, "error"}])
        /\ Len(results) = size
    <3>1. results \in [1..size -> [index : Nat, id : Engrams \cup {NoEngram, "error"}]]
      BY <2>1
    <3> HIDE DEF results
    <3> QED BY <1>3, <3>1, FunctionIsSeq
  <2> HIDE DEF results
  <2>3. /\ next.step = "results" /\ next.vault = call.vault /\ next.keys = call.keys
        /\ next.start = call.start /\ next.results = results
        /\ {"step", "vault", "purge", "keys", "start", "results"} \subseteq DOMAIN next
    BY <1>1, <1>2 DEF CallOK, With
  <2>4. memory' = [memory EXCEPT ![m] = next]
    BY <1>11 DEF Become, CacheInv, CallsTrue, results
  <2> HIDE DEF next
  <2>5. CallOK(next, engram')
    BY <1>1, <1>2, <1>9, <2>1, <2>2, <2>3 DEF CallOK
  <2> QED BY <1>1, <1>8, <2>4, <2>5, OneCallMoves, CacheStays DEF CacheInv, Keeps
<1> QED BY <1>5, <1>8, <1>10, <1>11

LEMMA CacheInvStep == CacheInv /\ [CacheNext]_cacheVars => CacheInv'
<1> SUFFICES ASSUME CacheInv, [CacheNext]_cacheVars PROVE CacheInv'
  OBVIOUS
<1>1. CASE UNCHANGED cacheVars
  <2>1. Keeps /\ UNCHANGED <<engram, idCache, memory>>
    BY <1>1, NothingWritten DEF cacheVars
  <2>2. \A m \in MemoryCalls : CallOK(memory'[m], engram')
    BY <2>1 DEF CacheInv, CallsTrue
  <2>3. CallsTrue'
    BY <2>1, <2>2 DEF CacheInv, CallsTrue
  <2> QED BY <2>1, <2>3, CacheStays DEF CacheInv, Keeps
<1>2. CASE CacheNext
  BY <1>2, StartIsOK, ReadIsOK, FoundIsOK, EvictIsOK, ResultIsOK, BatchIsOK DEF CacheNext
<1> QED BY <1>1, <1>2

\* The cache never names another memory than the one it is asked for, whatever batches
\* fail half-way, answers are lost, and calls overtake each other: for any sizes.
THEOREM CacheNamesRightMemory == CacheSpec => []CachedIdsMatch
<1>1. CacheInv => CachedIdsMatch
  <2> SUFFICES ASSUME CacheInv, NEW v \in Vaults, NEW k \in Concepts, idCache[v][k] # NoEngram
               PROVE  engram[idCache[v][k]] = [vault |-> v, concept |-> k]
    BY DEF CachedIdsMatch
  <2> DEFINE e == idCache[v][k]
  <2>1. e \in Engrams /\ engram[e] # Unwritten /\ engram[e].vault = v /\ engram[e].concept = k
    BY DEF CacheInv, CacheTrue, IsOf
  <2>2. engram[e] \in Written  BY <2>1 DEF CacheInv
  <2> HIDE DEF e
  <2>3. engram[e] = [vault |-> v, concept |-> k]  BY <2>1, <2>2 DEF Written
  <2> QED BY <2>3 DEF e
<1> QED BY CacheInvInit, CacheInvStep, <1>1, PTL DEF CacheSpec

-----------------------------------------------------------------------------
(* Types: only an engram that was written is ever forgotten *)

\* What a call will look up or forget is there.
CallSure(call, store) ==
  /\ call.step # "idle" => call.purge \subseteq Concepts
  /\ call.step \in {"look", "activate", "sweep", "found"} => "kind" \in DOMAIN call
  /\ call.step = "look" => "key" \in DOMAIN call /\ call.key \in Concepts
  /\ call.step = "sweep" \/ (call.step = "found" /\ call.kind # "get") =>
       "listed" \in DOMAIN call /\ call.listed \subseteq Concepts
  /\ call.step = "forget" =>
       "id" \in DOMAIN call /\ call.id \in Engrams /\ store[call.id] # Unwritten

CallsSure == \A m \in MemoryCalls : CallSure(memory[m], engram)

CacheTypeInv ==
  CacheInv /\ CallsSure /\ forgotten \subseteq {e \in Engrams : engram[e] # Unwritten}

LEMMA CacheTypeInvInit == CacheInit => CacheTypeInv
BY CacheInvInit DEF CacheInit, CacheTypeInv, CallsSure, CallSure, Idle

LEMMA StepKeeps == ASSUME CacheInv, [CacheNext]_cacheVars PROVE Keeps
<1>1. CASE UNCHANGED engram  BY <1>1, NothingWritten
<1>2. CASE \E m \in MemoryCalls : WriteBatch(m)  BY <1>2, BatchIsOK
<1> QED
  BY <1>1, <1>2
  DEF CacheNext, cacheVars, StartSet, CacheResult, StartKey, LookUpId, Read, ActivateKey, Forget,
      Evict, StartSweep, Sweep, CacheFound, AllFound, Purge

\* One call goes on.
LEMMA SureCallMoves ==
  ASSUME CacheInv, CallsSure, Keeps, NEW m \in MemoryCalls, NEW call,
         memory' = [memory EXCEPT ![m] = call], CallSure(call, engram')
  PROVE  CallsSure'
<1>1. \A q \in MemoryCalls : memory'[q] = IF q = m THEN call ELSE memory[q]
  BY DEF CacheInv, CallsTrue
<1>2. ASSUME NEW q \in MemoryCalls, q # m PROVE CallSure(memory'[q], engram')
  <2>1. memory'[q] = memory[q] /\ CallSure(memory[q], engram)
    BY <1>1, <1>2 DEF CallsSure
  <2> QED BY <2>1 DEF CallSure, Keeps
<1> QED BY <1>1, <1>2 DEF CallsSure

LEMMA SureReturn ==
  ASSUME CacheInv, CallsSure, Keeps, NEW m \in MemoryCalls, memory[m].step # "idle", Return(m)
  PROVE  CallsSure'
<1>1. CASE memory' = [memory EXCEPT ![m] = Idle]
  <2>1. CallSure(Idle, engram')  BY DEF CallSure, Idle
  <2> QED BY <1>1, <2>1, SureCallMoves
<1>2. ASSUME NEW k \in memory[m].purge,
             Become(m, [step |-> "look", kind |-> "delete", key |-> k,
                        purge |-> memory[m].purge \ {k}])
      PROVE  CallsSure'
  <2> DEFINE call == With(memory[m], [step |-> "look", kind |-> "delete", key |-> k,
                                      purge |-> memory[m].purge \ {k}])
  <2>1. memory[m].purge \subseteq Concepts  BY DEF CallsSure, CallSure
  <2>2. /\ call.step = "look" /\ call.key = k /\ call.purge = memory[m].purge \ {k}
        /\ {"step", "kind", "key", "purge"} \subseteq DOMAIN call
    BY DEF With
  <2>3. memory' = [memory EXCEPT ![m] = call]
    BY <1>2 DEF Become, CacheInv, CallsTrue
  <2> HIDE DEF call
  <2>4. CallSure(call, engram')  BY <2>1, <2>2 DEF CallSure
  <2> QED BY <2>3, <2>4, SureCallMoves
<1> QED BY <1>1, <1>2 DEF Return

\* Calls begin; batches are written and their results cached.
LEMMA StartIsSure ==
  ASSUME CacheInv, CallsSure, Keeps, NEW m \in MemoryCalls,
         StartSet(m) \/ StartKey(m) \/ StartSweep(m)
  PROVE  CallsSure'
<1>1. CASE StartSet(m)
  <2>1. PICK v \in Vaults, n \in 1..BatchLength : \E keys \in [1..n -> Concepts] :
          memory' = [memory EXCEPT ![m] =
            [step |-> "write", vault |-> v, keys |-> keys, start |-> 0,
             results |-> <<>>, purge |-> {}]]
    BY <1>1 DEF StartSet
  <2>2. PICK keys \in [1..n -> Concepts] :
          memory' = [memory EXCEPT ![m] =
            [step |-> "write", vault |-> v, keys |-> keys, start |-> 0,
             results |-> <<>>, purge |-> {}]]
    BY <2>1
  <2>3. CallSure([step |-> "write", vault |-> v, keys |-> keys, start |-> 0,
                  results |-> <<>>, purge |-> {}], engram')
    BY DEF CallSure
  <2> QED BY <2>2, <2>3, SureCallMoves
<1>2. CASE StartKey(m)
  <2>1. PICK v \in Vaults, k \in Concepts, kind \in {"get", "delete"} :
          memory' = [memory EXCEPT ![m] =
            [step |-> "look", kind |-> kind, vault |-> v, key |-> k, purge |-> {}]]
    BY <1>2 DEF StartKey
  <2>2. CallSure([step |-> "look", kind |-> kind, vault |-> v, key |-> k, purge |-> {}], engram')
    BY DEF CallSure
  <2> QED BY <2>1, <2>2, SureCallMoves
<1>3. CASE StartSweep(m)
  <2>1. PICK v \in Vaults, kind \in {"search", "list", "purge"} :
          memory' = [memory EXCEPT ![m] =
            [step |-> "sweep", kind |-> kind, vault |-> v, listed |-> {}, purge |-> {}]]
    BY <1>3 DEF StartSweep
  <2>2. CallSure([step |-> "sweep", kind |-> kind, vault |-> v, listed |-> {}, purge |-> {}],
                 engram')
    BY DEF CallSure
  <2> QED BY <2>1, <2>2, SureCallMoves
<1> QED BY <1>1, <1>2, <1>3

LEMMA BatchIsSure ==
  ASSUME CacheInv, CallsSure, Keeps, NEW m \in MemoryCalls,
         WriteBatch(m) \/ CacheResult(m) \/ Evict(m) \/ Read(m) \/ Purge(m)
  PROVE  CallsSure'
<1>1. memory[m].step # "idle" /\ CallOK(memory[m], engram) /\ CallSure(memory[m], engram)
  BY DEF WriteBatch, CacheResult, Evict, Read, Purge, Step, CacheInv, CallsTrue, CallsSure
<1>2. ASSUME NEW fields, Become(m, fields), "purge" \notin DOMAIN fields,
             With(memory[m], fields).step \in {"write", "results"}
      PROVE  CallsSure'
  <2> DEFINE call == With(memory[m], fields)
  <2>1. call.purge = memory[m].purge  BY <1>1, <1>2 DEF With, CallOK
  <2>2. memory' = [memory EXCEPT ![m] = call]  BY <1>2 DEF Become, CacheInv, CallsTrue
  <2>3. call.step \in {"write", "results"}  BY <1>2
  <2> HIDE DEF call
  <2>4. CallSure(call, engram')  BY <1>1, <2>1, <2>3 DEF CallSure
  <2> QED BY <2>2, <2>4, SureCallMoves
<1>3. ASSUME NEW results PROVE
        With(memory[m], [step |-> "results", results |-> results]).step = "results"
  BY DEF With
<1>4. ASSUME NEW start PROVE
        With(memory[m], [step |-> "write", start |-> start]).step = "write"
  BY DEF With
<1>5. ASSUME NEW results, memory[m].step = "results" PROVE
        With(memory[m], [results |-> results]).step = "results"
  BY <1>1, <1>5 DEF With, CallOK
<1>6. CASE Return(m)  BY <1>1, <1>6, SureReturn
<1>7. CASE WriteBatch(m) /\ ~Return(m)
  <2>1. PICK results : Become(m, [step |-> "results", results |-> results])
    BY <1>7 DEF WriteBatch
  <2> QED BY <1>2, <1>3, <2>1
<1>8. CASE CacheResult(m) /\ ~Return(m)
  <2>1. memory[m].step = "results"  BY <1>8 DEF CacheResult, Step
  <2>2. \/ \E start : Become(m, [step |-> "write", start |-> start])
        \/ \E results : Become(m, [results |-> results])
    <3>1. CallOK(memory[m], engram) /\ memory[m].step = "results"  BY <1>1, <2>1
    <3>2. \/ memory[m].start + BatchSize < Len(memory[m].keys)
          \/ memory[m].start + BatchSize >= Len(memory[m].keys)
      BY <3>1, BatchAssumption DEF CallOK
    <3>3. CASE memory[m].results = <<>> /\ memory[m].start + BatchSize < Len(memory[m].keys)
      BY <1>8, <3>3 DEF CacheResult
    <3>4. CASE memory[m].results = <<>> /\ ~(memory[m].start + BatchSize < Len(memory[m].keys))
      BY <1>8, <3>2, <3>4 DEF CacheResult
    <3>5. CASE memory[m].results # <<>> /\ Head(memory[m].results).id = "error"
      BY <1>8, <3>5 DEF CacheResult
    <3>6. CASE memory[m].results # <<>> /\ Head(memory[m].results).id # "error"
      BY <1>8, <3>6 DEF CacheResult
    <3> QED BY <3>3, <3>4, <3>5, <3>6
  <2>3. ASSUME NEW start, Become(m, [step |-> "write", start |-> start]) PROVE CallsSure'
    BY <1>2, <1>4, <2>3
  <2>4. ASSUME NEW results, Become(m, [results |-> results]) PROVE CallsSure'
    BY <1>2, <1>5, <2>1, <2>4
  <2> QED BY <2>2, <2>3, <2>4
<1> QED BY <1>6, <1>7, <1>8 DEF Evict, Read, Purge

\* Lookups, activations and pages; what is forgotten was written.
LEMMA LookIsSure ==
  ASSUME CacheInv, CallsSure, Keeps, NEW m \in MemoryCalls,
         \/ LookUpId(m) \/ ActivateKey(m) \/ Forget(m) \/ Sweep(m) \/ CacheFound(m) \/ AllFound(m)
  PROVE  CallsSure'
<1>1. memory[m].step # "idle" /\ CallOK(memory[m], engram) /\ CallSure(memory[m], engram)
  BY DEF LookUpId, ActivateKey, Forget, Sweep, CacheFound, AllFound, Step, CacheInv, CallsTrue,
         CallsSure
<1>2. ASSUME NEW fields, Become(m, fields), CallSure(With(memory[m], fields), engram')
      PROVE  CallsSure'
  <2> DEFINE call == With(memory[m], fields)
  <2>1. memory' = [memory EXCEPT ![m] = call]  BY <1>2 DEF Become, CacheInv, CallsTrue
  <2>2. CallSure(call, engram')  BY <1>2
  <2> HIDE DEF call
  <2> QED BY <2>1, <2>2, SureCallMoves
<1>3. CASE Return(m)  BY <1>1, <1>3, SureReturn
<1>4. CASE LookUpId(m)
  <2> DEFINE hit == idCache[memory[m].vault][memory[m].key]
             next == IF hit = NoEngram THEN "activate"
                     ELSE IF memory[m].kind = "get" THEN "read" ELSE "forget"
  <2>1. Become(m, [id |-> hit, step |-> next]) /\ memory[m].step = "look"
    BY <1>4 DEF LookUpId, Step
  <2>2. next \in {"activate", "read", "forget"}
        /\ (next = "forget" => hit \in Engrams /\ engram'[hit] # Unwritten)
    <3>1. memory[m].vault \in Vaults /\ memory[m].key \in Concepts
      BY <1>1, <2>1 DEF CallOK, CallSure
    <3> QED BY <3>1 DEF CacheInv, CacheTrue, IsOf, Keeps
  <2> HIDE DEF hit, next
  <2>3. CallSure(With(memory[m], [id |-> hit, step |-> next]), engram')
    BY <1>1, <2>1, <2>2 DEF CallOK, CallSure, With
  <2> QED BY <1>2, <2>1, <2>3
<1>5. CASE ActivateKey(m) /\ ~Return(m)
  <2>1. memory[m].step = "activate"  BY <1>5 DEF ActivateKey, Step
  <2>2. PICK e \in LiveOf(memory[m].vault, memory[m].key) :
          IF memory[m].kind = "get"
          THEN Become(m, [step |-> "found", found |-> {<<memory[m].key, e>>}])
          ELSE Become(m, [step |-> "forget", id |-> e])
    BY <1>5 DEF ActivateKey
  <2>3. e \in Engrams /\ engram'[e] # Unwritten
    BY DEF LiveOf, Live, Keeps
  <2>4. ASSUME NEW items, memory[m].kind = "get"
        PROVE  CallSure(With(memory[m], [step |-> "found", found |-> items]), engram')
    BY <1>1, <2>1, <2>4 DEF CallOK, CallSure, With
  <2>5. CallSure(With(memory[m], [step |-> "forget", id |-> e]), engram')
    BY <1>1, <2>1, <2>3 DEF CallOK, CallSure, With
  <2> QED BY <1>2, <2>2, <2>4, <2>5
<1>6. CASE Forget(m) /\ ~Return(m)
  <2>1. CallSure(With(memory[m], [step |-> "evict"]), engram')
    BY <1>1 DEF CallOK, CallSure, With
  <2> QED BY <1>2, <1>6, <2>1 DEF Forget
<1>7. CASE Sweep(m) /\ ~Return(m)
  <2>1. memory[m].step = "sweep"  BY <1>7 DEF Sweep, Step
  <2>2. PICK page \in SUBSET Live(memory[m].vault) :
          Become(m, [step |-> "found",
                     found |-> {<<engram[e].concept, e>> : e \in page},
                     listed |-> memory[m].listed \cup {engram[e].concept : e \in page}])
    BY <1>7 DEF Sweep
  <2> DEFINE items == {<<engram[e].concept, e>> : e \in page}
             all == memory[m].listed \cup {engram[e].concept : e \in page}
  <2>3. all \subseteq Concepts
    <3>1. memory[m].listed \subseteq Concepts  BY <1>1, <2>1 DEF CallSure
    <3>2. \A e \in page : engram[e].concept \in Concepts
      BY DEF Live, CacheInv, Written
    <3> QED BY <3>1, <3>2
  <2> HIDE DEF items, all
  <2>4. CallSure(With(memory[m], [step |-> "found", found |-> items, listed |-> all]), engram')
    BY <1>1, <2>1, <2>3 DEF CallOK, CallSure, With
  <2> QED BY <1>2, <2>2, <2>4 DEF items, all
<1>8. CASE CacheFound(m)
  <2>1. PICK items : Become(m, [found |-> items]) /\ memory[m].step = "found"
    BY <1>8 DEF CacheFound, Step
  <2>2. CallSure(With(memory[m], [found |-> items]), engram')
    BY <1>1, <2>1 DEF CallOK, CallSure, With
  <2> QED BY <1>2, <2>1, <2>2
<1>9. CASE AllFound(m) /\ ~Return(m)
  <2>1. memory[m].step = "found" /\ memory[m].kind # "get"
    BY <1>9 DEF AllFound, Step
  <2>2. memory[m].listed \subseteq Concepts  BY <1>1, <2>1 DEF CallSure
  <2>3. CallSure(With(memory[m], [step |-> "sweep"]), engram')
    BY <1>1, <2>1 DEF CallOK, CallSure, With
  <2>4. ASSUME NEW old \in SUBSET memory[m].listed
        PROVE  CallSure(With(memory[m], [step |-> "purge", purge |-> old]), engram')
    BY <1>1, <2>1, <2>2 DEF CallOK, CallSure, With
  <2> QED BY <1>2, <1>9, <2>3, <2>4 DEF AllFound
<1> QED BY <1>3, <1>4, <1>5, <1>6, <1>7, <1>8, <1>9

LEMMA CacheTypeInvStep == CacheTypeInv /\ [CacheNext]_cacheVars => CacheTypeInv'
<1> SUFFICES ASSUME CacheTypeInv, [CacheNext]_cacheVars PROVE CacheTypeInv'  OBVIOUS
<1>1. CacheInv /\ CallsSure /\ Keeps /\ CacheInv'
  BY StepKeeps, CacheInvStep DEF CacheTypeInv
<1>2. CallsSure'
  <2>1. CASE UNCHANGED cacheVars  BY <1>1, <2>1 DEF cacheVars, CallsSure
  <2>2. CASE CacheNext
    BY <1>1, <2>2, StartIsSure, BatchIsSure, LookIsSure DEF CacheNext
  <2> QED BY <2>1, <2>2
<1>3. forgotten' \subseteq {e \in Engrams : engram'[e] # Unwritten}
  <2>1. CASE UNCHANGED forgotten  BY <1>1, <2>1 DEF CacheTypeInv, Keeps
  <2>2. ASSUME NEW m \in MemoryCalls, Forget(m)
        PROVE  forgotten' \subseteq {e \in Engrams : engram'[e] # Unwritten}
    <3>1. memory[m].id \in Engrams /\ engram[memory[m].id] # Unwritten
      BY <1>1, <2>2 DEF Forget, Step, CallsSure, CallSure
    <3> QED BY <1>1, <2>2, <3>1 DEF Forget, CacheTypeInv, Keeps
  <2> QED
    BY <2>1, <2>2
    DEF CacheNext, cacheVars, StartSet, WriteBatch, CacheResult, StartKey, LookUpId, Read,
        ActivateKey, Evict, StartSweep, Sweep, CacheFound, AllFound, Purge
<1> QED BY <1>1, <1>2, <1>3 DEF CacheTypeInv

\* The types: a call forgets only an engram that was written, whatever it looked up.
THEOREM CacheTypes == CacheSpec => []CacheTypeOK
<1>1. CacheTypeInv => CacheTypeOK
  BY DEF CacheTypeInv, CacheInv, CacheTrue, CallsTrue, CacheTypeOK, Written
<1> QED BY <1>1, CacheTypeInvInit, CacheTypeInvStep, PTL DEF CacheSpec

=============================================================================
