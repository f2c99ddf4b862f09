--------------------------- MODULE ServicesProofs ---------------------------
(***************************************************************************)
(* The components of MCServices: extractions, results of tools, and         *)
(* connections, each by an induction with an invariant of its own; the     *)
(* edit lock and the cache have modules of their own.                      *)
(***************************************************************************)
EXTENDS MCServices, EditLockProofs, EngramCacheProofs, WellFoundedInduction, TLAPS

-----------------------------------------------------------------------------
(* Extractions *)

\* What a request has reached, its counter, its jobs and its row say of each other.
Consistent(x) ==
  /\ extraction[x] \in {"idle", "refused", "failed", "list"} =>
       jobs[x] = {} /\ enqueued[x] = 0
  /\ enqueued[x] # 0 => jobs[x] # {}
  /\ extraction[x] = "pending" => enqueued[x] # 0
  /\ extraction[x] = "success" => enqueued[x] = 0
  /\ asyncTask[x] = "success" => extraction[x] = "success"
  /\ asyncTask[x] = "error" => extraction[x] = "failed"
  /\ polled[x] # "absent" => extraction[x] \in {"success", "pending"}
  /\ polled[x] # "error"
  /\ polled[x] = "success" => enqueued[x] = 0

ExtractionInv == ExtractionTypeOK /\ \A x \in Extractions : Consistent(x)

LEMMA ExtractionInvInit == ExtractionInit => ExtractionInv
BY DEF ExtractionInit, ExtractionInv, ExtractionTypeOK, Consistent

\* A step changes the variables of one request.
LEMMA ExtractionInvStep == ExtractionInv /\ [ExtractionNext]_extractionVars => ExtractionInv'
<1> SUFFICES ASSUME ExtractionInv, [ExtractionNext]_extractionVars PROVE ExtractionInv'
  OBVIOUS
<1> USE DEF ExtractionInv, ExtractionTypeOK, Consistent, Go
<1>1. ASSUME NEW x \in Extractions, Refuse(x) PROVE ExtractionInv'
  BY <1>1 DEF Refuse
<1>2. ASSUME NEW x \in Extractions, CreateExtractionTask(x) PROVE ExtractionInv'
  BY <1>2 DEF CreateExtractionTask, Write
<1>3. ASSUME NEW x \in Extractions, ListUserTopics(x) PROVE ExtractionInv'
  BY <1>3 DEF ListUserTopics, Write
<1>4. ASSUME NEW x \in Extractions, EnqueueMemoryIngestJob(x) PROVE ExtractionInv'
  <2>1. PICK topic \in pending[x], inserted \in BOOLEAN, acknowledged \in BOOLEAN :
          /\ acknowledged => inserted
          /\ pending' = [pending EXCEPT ![x] = @ \ {topic}]
          /\ jobs' = IF inserted THEN [jobs EXCEPT ![x] = @ \cup {topic}] ELSE jobs
          /\ Count(x, acknowledged)
    BY <1>4 DEF EnqueueMemoryIngestJob
  <2>2. CASE acknowledged
    BY <1>4, <2>1, <2>2 DEF EnqueueMemoryIngestJob, Count
  <2>3. CASE ~acknowledged
    <3>1. enqueued' = enqueued
      BY <2>1, <2>3 DEF Count
    <3> QED
      BY <1>4, <2>1, <3>1 DEF EnqueueMemoryIngestJob
  <2> QED
    BY <2>2, <2>3
<1>5. ASSUME NEW x \in Extractions, SetExtractionStatus(x) PROVE ExtractionInv'
  BY <1>5 DEF SetExtractionStatus, FinalStatus, Write
<1>6. ASSUME NEW x \in Extractions, Poll(x) PROVE ExtractionInv'
  BY <1>6 DEF Poll
<1>7. CASE UNCHANGED extractionVars
  BY <1>7 DEF extractionVars
<1> QED
  BY <1>1, <1>2, <1>3, <1>4, <1>5, <1>6, <1>7 DEF ExtractionNext

\* An extraction that failed has queued nothing, one that is pending has queued a job,
\* and the front end is never told what is not so (extraction_handler.go).
THEOREM ExtractionIsHonest == ExtractionSpec => []ExtractionHonest
<1>1. ExtractionInv => ExtractionHonest
  BY DEF ExtractionInv, ExtractionTypeOK, Consistent, ExtractionHonest
<1> QED
  BY ExtractionInvInit, ExtractionInvStep, <1>1, PTL DEF ExtractionSpec

-----------------------------------------------------------------------------
(* Tool results *)

\* Whatever error a tool returned, its result says retry only if its code, its status or
\* its words do, and none of higher rank says otherwise (error_classify.go).
THEOREM RetriesAreExplicit == ResultInit /\ [][Invoke]_resultVars => []RetryIsExplicit
<1>1. ResultInit => RetryIsExplicit
  BY DEF ResultInit, RetryIsExplicit
<1>2. RetryIsExplicit /\ [Invoke]_resultVars => RetryIsExplicit'
  <2> SUFFICES ASSUME RetryIsExplicit, [Invoke]_resultVars PROVE RetryIsExplicit'
    OBVIOUS
  <2>1. CASE UNCHANGED resultVars
    BY <2>1 DEF resultVars, RetryIsExplicit
  <2>2. CASE Invoke /\ text'.kind = "retry"
    <3>1. outcome \in Errors /\ ClassifyKind(outcome) = "retry" /\ outcome' = outcome
      BY <2>2 DEF Invoke
    <3>2. /\ outcome.status \in Statuses /\ outcome.words \subseteq Classes
      BY <3>1 DEF Errors
    <3>3. CASE outcome.code \in Classes
      BY <3>1, <3>3 DEF ClassifyKind, RetryIsExplicit
    <3>4. CASE outcome.code \notin Classes /\ ByStatus(outcome.status) # "none"
      <4>1. outcome.status \in {408, 425, 429} \/ outcome.status >= 500
        BY <3>1, <3>2, <3>4 DEF ClassifyKind, ByStatus, Statuses, NoStatus
      <4> QED BY <3>1, <3>4, <4>1 DEF RetryIsExplicit
    <3>5. CASE outcome.code \notin Classes /\ ByStatus(outcome.status) = "none"
      <4>1. outcome.status \in {NoStatus, 418}
        BY <3>2, <3>5 DEF ByStatus, Statuses, NoStatus
      <4>2. ByWords(outcome.words) = "retry"
        BY <3>1, <3>5 DEF ClassifyKind
      <4>3. outcome.words = {"retry"}
        BY <3>2, <4>2 DEF ByWords, Classes
      <4> QED BY <3>1, <3>5, <4>1, <4>3 DEF RetryIsExplicit
    <3> QED BY <3>3, <3>4, <3>5
  <2>3. CASE Invoke /\ text'.kind # "retry"
    BY <2>3 DEF RetryIsExplicit
  <2> QED BY <2>1, <2>2, <2>3
<1> QED BY <1>1, <1>2, PTL

\* A set of natural numbers has a least one; so induction needs no more than sets.
LEMMA LeastNumber ==
  ASSUME NEW T, T \subseteq Nat, T # {}
  PROVE  \E x \in T : \A y \in T : x <= y
<1>1. PICK x \in T : \A y \in T : ~(<<y, x>> \in OpToRel(<, Nat))
  BY NatLessThanWellFounded, WFMin
<1>2. ASSUME NEW y \in T, y < x PROVE FALSE
  <2>1. y \in Nat /\ x \in Nat  OBVIOUS
  <2>2. <<y, x>> \in OpToRel(<, Nat)  BY <1>2, <2>1 DEF OpToRel
  <2> QED BY <1>1, <2>2
<1> QED BY <1>2

LEMMA InductionOnSet ==
  ASSUME NEW S, 0 \in S, \A n \in Nat : n \in S => n + 1 \in S
  PROVE  \A n \in Nat : n \in S
<1> DEFINE T == {n \in Nat : n \notin S}
<1>1. ASSUME T # {} PROVE FALSE
  <2>1. PICK x \in T : \A y \in T : x <= y  BY <1>1, LeastNumber
  <2>2. x \in Nat \ {0} /\ x - 1 \in Nat /\ (x - 1) + 1 = x /\ x - 1 \notin T
    BY <2>1
  <2> QED BY <2>1, <2>2
<1> QED BY <1>1

\* The recursion of Ends has a solution, from the left to the right.
Sums(s, f) == f = [i \in 0..Len(s) |-> IF i = 0 THEN 0 ELSE f[i - 1] + s[i]]

LEMMA SumsExist == ASSUME NEW s \in Seq(1..4) PROVE \E f : Sums(s, f) /\ f \in [0..Len(s) -> Nat]
<1> DEFINE Upto(n, f) == /\ f \in [0..n -> Nat] /\ f[0] = 0
                         /\ \A i \in 1..n : i <= Len(s) => f[i] = f[i - 1] + s[i]
           S == {n \in Nat : \E f : Upto(n, f)}
<1>1. 0 \in S
  <2>1. Upto(0, [i \in 0..0 |-> 0])  OBVIOUS
  <2> QED BY <2>1
<1>2. ASSUME NEW n \in Nat, n \in S PROVE n + 1 \in S
  <2>1. PICK f : Upto(n, f)  BY <1>2
  <2> DEFINE new == IF n + 1 <= Len(s) THEN f[n] + s[n + 1] ELSE 0
             g == [i \in 0..n + 1 |-> IF i <= n THEN f[i] ELSE new]
  <2>2. new \in Nat  BY <2>1
  <2>3. /\ g \in [0..n + 1 -> Nat] /\ g[n + 1] = new /\ \A i \in 0..n : g[i] = f[i]
    BY <2>1, <2>2
  <2>4. ASSUME NEW i \in 1..n + 1, i <= Len(s) PROVE g[i] = g[i - 1] + s[i]
    <3>1. CASE i <= n
      <4>1. i \in 1..n /\ i \in 0..n /\ i - 1 \in 0..n  BY <3>1
      <4> HIDE DEF g, new
      <4> QED BY <2>1, <2>3, <2>4, <4>1
    <3>2. CASE i = n + 1
      <4>1. i - 1 = n /\ n \in 0..n /\ new = f[n] + s[i]  BY <2>4, <3>2
      <4> HIDE DEF g, new
      <4> QED BY <2>3, <3>2, <4>1
    <3> QED BY <3>1, <3>2
  <2> HIDE DEF g, new
  <2>5. Upto(n + 1, g)  BY <2>1, <2>3, <2>4
  <2> QED BY <2>5
<1>3. Len(s) \in S
  <2>1. Len(s) \in Nat  OBVIOUS
  <2> HIDE DEF S
  <2> QED BY <1>1, <1>2, <2>1, InductionOnSet
<1> HIDE DEF Upto
<1>4. PICK f : Upto(Len(s), f)  BY <1>3
<1>5. Sums(s, f)
  <2>1. /\ f \in [0..Len(s) -> Nat] /\ f[0] = 0
        /\ \A i \in 1..Len(s) : f[i] = f[i - 1] + s[i]
    BY <1>4 DEF Upto
  <2> QED BY <2>1 DEF Sums
<1> QED BY <1>4, <1>5 DEF Upto

LEMMA EndsAreSums ==
  ASSUME NEW s \in Seq(1..4)
  PROVE  /\ Ends(s)[0] = 0
         /\ \A i \in 1..Len(s) : Ends(s)[i] = Ends(s)[i - 1] + s[i]
<1>1. \E f : f = [i \in 0..Len(s) |-> IF i = 0 THEN 0 ELSE f[i - 1] + s[i]]
  BY SumsExist DEF Sums
<1>2. Ends(s) = [i \in 0..Len(s) |-> IF i = 0 THEN 0 ELSE Ends(s)[i - 1] + s[i]]
  BY <1>1 DEF Ends
<1> QED BY <1>2

\* So the ends are numbers that grow.
LEMMA EndsAreNumbers ==
  ASSUME NEW s \in Seq(1..4)
  PROVE  \A i \in 0..Len(s) : Ends(s)[i] \in Nat
<1> DEFINE e == Ends(s)
           S == {n \in Nat : n <= Len(s) => e[n] \in Nat}
<1>1. /\ e[0] = 0
      /\ \A i \in 1..Len(s) : e[i] = e[i - 1] + s[i]
      /\ \A i \in 1..Len(s) : s[i] \in 1..4
      /\ Len(s) \in Nat
  BY EndsAreSums
<1> HIDE DEF e
<1>2. 0 \in S  BY <1>1
<1>3. ASSUME NEW n \in Nat, n \in S PROVE n + 1 \in S
  <2> SUFFICES ASSUME n + 1 <= Len(s) PROVE e[n + 1] \in Nat
    OBVIOUS
  <2>1. e[n] \in Nat  BY <1>1, <1>3
  <2>2. n + 1 \in 1..Len(s) /\ (n + 1) - 1 = n  BY <1>1
  <2>3. e[n + 1] = e[n] + s[n + 1] /\ s[n + 1] \in 1..4  BY <1>1, <2>2
  <2> QED BY <2>1, <2>3
<1>4. \A n \in Nat : n \in S
  <2> HIDE DEF S
  <2> QED BY <1>2, <1>3, InductionOnSet
<1> QED BY <1>1, <1>4 DEF e

LEMMA EndsGrow ==
  ASSUME NEW s \in Seq(1..4)
  PROVE  \A i, j \in 0..Len(s) : i < j => Ends(s)[i] < Ends(s)[j]
<1> DEFINE e == Ends(s)
           S == {n \in Nat : n <= Len(s) => \A i \in 0..n - 1 : e[i] < e[n]}
<1>1. /\ \A i \in 0..Len(s) : e[i] \in Nat
      /\ \A i \in 1..Len(s) : e[i] = e[i - 1] + s[i]
      /\ \A i \in 1..Len(s) : s[i] \in 1..4
      /\ Len(s) \in Nat
  BY EndsAreSums, EndsAreNumbers
<1> HIDE DEF e
<1>2. 0 \in S  OBVIOUS
<1>3. ASSUME NEW n \in Nat, n \in S PROVE n + 1 \in S
  <2> SUFFICES ASSUME n + 1 <= Len(s), NEW i \in 0..n PROVE e[i] < e[n + 1]
    OBVIOUS
  <2>1. i \in 0..Len(s) /\ n \in 0..Len(s) /\ n + 1 \in 1..Len(s) /\ (n + 1) - 1 = n
    BY <1>1
  <2>2. e[n + 1] = e[n] + s[n + 1] /\ s[n + 1] \in 1..4 /\ e[i] \in Nat /\ e[n] \in Nat
    BY <1>1, <2>1
  <2>3. i # n => e[i] < e[n]  BY <1>1, <1>3
  <2> QED BY <2>2, <2>3
<1>4. \A n \in Nat : n \in S
  <2> HIDE DEF S
  <2> QED BY <1>2, <1>3, InductionOnSet
<1>5. ASSUME NEW i \in 0..Len(s), NEW j \in 0..Len(s), i < j PROVE e[i] < e[j]
  <2>1. j \in S /\ i \in 0..j - 1 /\ j <= Len(s)  BY <1>1, <1>4, <1>5
  <2> QED BY <2>1
<1> QED BY <1>5 DEF e

\* The last end within the limit is the only end the specification can choose, and it is
\* what Cutoff keeps.
LEMMA CutoffIsAnEnd ==
  ASSUME NEW s \in Seq(1..4)
  PROVE  Cutoff(s) = CHOOSE x \in {StartOf(s, i) + s[i] : i \in DOMAIN s} \cup {0} :
                       /\ x <= MaxLength
                       /\ \A f \in {StartOf(s, i) + s[i] : i \in DOMAIN s} \cup {0} :
                            f <= MaxLength => f <= x
<1> DEFINE e == Ends(s)
           ends == {StartOf(s, i) + s[i] : i \in DOMAIN s} \cup {0}
           LastThatFits(x) == x <= MaxLength /\ \A f \in ends : f <= MaxLength => f <= x
           crossing == {i \in DOMAIN s : /\ NearCut(StartOf(s, i))
                                         /\ StartOf(s, i) + s[i] > MaxLength}
<1>1. /\ e[0] = 0
      /\ \A i \in 0..Len(s) : e[i] \in Nat
      /\ \A i \in 1..Len(s) : e[i] = e[i - 1] + s[i]
      /\ \A i, j \in 0..Len(s) : i < j => e[i] < e[j]
      /\ \A i \in 1..Len(s) : s[i] \in 1..4
      /\ Len(s) \in Nat /\ DOMAIN s = 1..Len(s)
      /\ MaxLength \in Nat \ {0}
  BY EndsAreSums, EndsAreNumbers, EndsGrow, LengthAssumption
<1>2. /\ Length(s) = e[Len(s)]
      /\ \A i : StartOf(s, i) = e[i - 1]
      /\ \A o : NearCut(o) <=> o >= 0 /\ o >= MaxLength - 3 /\ o < MaxLength
  BY DEF Length, StartOf, NearCut
<1>3. Cutoff(s) = IF Length(s) <= MaxLength THEN Length(s)
                  ELSE IF crossing # {} THEN StartOf(s, CHOOSE i \in crossing : TRUE)
                  ELSE MaxLength
  BY DEF Cutoff
<1> HIDE DEF e
<1>4. ends = {e[i] : i \in 0..Len(s)}
  <2>1. ASSUME NEW x \in ends PROVE x \in {e[i] : i \in 0..Len(s)}
    <3>1. CASE x = 0
      <4>1. 0 \in 0..Len(s)  BY <1>1
      <4> QED BY <1>1, <3>1, <4>1
    <3>2. CASE x # 0
      <4>1. PICK i \in DOMAIN s : x = StartOf(s, i) + s[i]  BY <3>2
      <4>2. i \in 1..Len(s) /\ i \in 0..Len(s)  BY <1>1
      <4>3. x = e[i]  BY <1>1, <1>2, <4>1, <4>2
      <4> QED BY <4>2, <4>3
    <3> QED BY <3>1, <3>2
  <2>2. ASSUME NEW i \in 0..Len(s) PROVE e[i] \in ends
    <3>1. CASE i = 0  BY <1>1, <3>1
    <3>2. CASE i # 0
      <4>1. i \in DOMAIN s  BY <1>1, <3>2
      <4>2. e[i] = StartOf(s, i) + s[i]  BY <1>1, <1>2, <4>1
      <4> QED BY <4>1, <4>2
    <3> QED BY <3>1, <3>2
  <2> QED BY <2>1, <2>2
<1> HIDE DEF ends, crossing
<1>5. Cutoff(s) \in ends /\ LastThatFits(Cutoff(s))
  <2>1. CASE e[Len(s)] <= MaxLength
    <3>1. Cutoff(s) = e[Len(s)] /\ Len(s) \in 0..Len(s)  BY <1>1, <1>2, <1>3, <2>1
    <3>2. ASSUME NEW f \in ends PROVE f <= e[Len(s)]
      <4>1. PICK i \in 0..Len(s) : f = e[i]  BY <1>4
      <4>2. i = Len(s) \/ i < Len(s)
        <5>1. Len(s) \in Nat /\ i \in 0..Len(s)  BY <1>1
        <5> QED BY <5>1
      <4>3. e[i] \in Nat /\ e[Len(s)] \in Nat  BY <1>1, <3>1
      <4>4. i < Len(s) => e[i] < e[Len(s)]  BY <1>1, <3>1
      <4> QED BY <4>1, <4>2, <4>3, <4>4
    <3> QED BY <1>4, <2>1, <3>1, <3>2
  <2>2. CASE ~(e[Len(s)] <= MaxLength)
    <3> DEFINE over == {i \in 0..Len(s) : e[i] > MaxLength}
    <3>1. over \subseteq Nat /\ over # {}
      <4>1. Len(s) \in 0..Len(s) /\ e[Len(s)] \in Nat  BY <1>1
      <4>2. e[Len(s)] > MaxLength  BY <1>1, <2>2, <4>1
      <4> QED BY <4>1, <4>2
    <3>2. PICK c \in over : \A i \in over : c <= i  BY <3>1, LeastNumber
    <3>3. c \in 1..Len(s) /\ e[c] > MaxLength
      <4>1. c \in 0..Len(s) /\ e[c] > MaxLength  OBVIOUS
      <4>2. c # 0  BY <1>1, <4>1
      <4> QED BY <4>1, <4>2
    <3>4. c - 1 \in 0..Len(s) /\ c \in 0..Len(s) /\ c - 1 < c  BY <1>1, <3>3
    <3>5. e[c - 1] <= MaxLength
      <4>1. c - 1 \notin over  BY <3>2, <3>4
      <4> QED BY <1>1, <3>4, <4>1
    <3>6. e[c] = e[c - 1] + s[c] /\ s[c] \in 1..4 /\ e[c - 1] \in Nat /\ e[c] \in Nat
      BY <1>1, <3>3, <3>4
    <3> HIDE DEF over
    <3>7. ASSUME NEW i \in 0..Len(s), e[i] <= MaxLength PROVE e[i] <= e[c - 1]
      <4>1. i \in Int /\ c \in Int /\ e[i] \in Nat  BY <1>1, <3>3
      <4>2. ~(c < i) /\ i # c
        <5>1. c < i => e[c] < e[i]  BY <1>1, <3>4
        <5> QED BY <1>1, <3>3, <3>6, <3>7, <4>1, <5>1
      <4>3. i < c - 1 \/ i = c - 1  BY <4>1, <4>2
      <4>4. i < c - 1 => e[i] < e[c - 1]  BY <1>1, <3>4
      <4> QED BY <3>6, <4>1, <4>3, <4>4
    <3>8. \A i \in DOMAIN s : i \in crossing <=>
            /\ e[i - 1] >= MaxLength - 3 /\ e[i - 1] < MaxLength /\ e[i] > MaxLength
      <4>1. ASSUME NEW i \in DOMAIN s
            PROVE  i \in 1..Len(s) /\ i - 1 \in 0..Len(s) /\ e[i - 1] \in Nat
                   /\ StartOf(s, i) = e[i - 1] /\ StartOf(s, i) + s[i] = e[i]
        <5>1. i \in 1..Len(s) /\ i - 1 \in 0..Len(s)  BY <1>1
        <5> QED BY <1>1, <1>2, <5>1
      <4>2. ASSUME NEW i \in DOMAIN s
            PROVE  i \in crossing <=> NearCut(StartOf(s, i)) /\ StartOf(s, i) + s[i] > MaxLength
        BY DEF crossing
      <4>3. ASSUME NEW i \in DOMAIN s
            PROVE  NearCut(StartOf(s, i)) <=> e[i - 1] >= MaxLength - 3 /\ e[i - 1] < MaxLength
        <5>1. e[i - 1] >= 0  BY <4>1
        <5>2. StartOf(s, i) = e[i - 1]  BY <4>1
        <5> QED BY <1>2, <5>1, <5>2
      <4>4. \A i \in DOMAIN s : StartOf(s, i) + s[i] = e[i]  BY <4>1
      <4> QED BY <4>2, <4>3, <4>4
    <3>9. Cutoff(s) = e[c - 1]
      <4>1. Cutoff(s) = IF crossing # {} THEN StartOf(s, CHOOSE i \in crossing : TRUE)
                        ELSE MaxLength
        BY <1>2, <1>3, <2>2
      <4>2. ASSUME NEW i \in crossing PROVE i = c
        <5>1. i \in DOMAIN s  BY DEF crossing
        <5>2. e[i - 1] < MaxLength /\ e[i] > MaxLength  BY <3>8, <5>1
        <5>3. i \in 1..Len(s) /\ i \in 0..Len(s) /\ i - 1 \in 0..Len(s)  BY <1>1, <5>1
        <5>4. ~(i < c)
          <6>1. i < c => i < c - 1 \/ i = c - 1  BY <3>3, <5>3
          <6>2. i < c - 1 => e[i] < e[c - 1]  BY <1>1, <3>4, <5>3
          <6>3. e[i] \in Nat  BY <1>1, <5>3
          <6> QED BY <1>1, <3>5, <3>6, <5>2, <6>1, <6>2, <6>3
        <5>5. ~(c < i)
          <6>1. c < i => c < i - 1 \/ c = i - 1  BY <3>3, <5>3
          <6>2. c < i - 1 => e[c] < e[i - 1]  BY <1>1, <3>4, <5>3
          <6>3. e[i - 1] \in Nat  BY <1>1, <5>3
          <6> QED BY <1>1, <3>3, <3>6, <5>2, <6>1, <6>2, <6>3
        <5> QED BY <3>3, <5>3, <5>4, <5>5
      <4>3. CASE crossing # {}
        <5>1. (CHOOSE i \in crossing : TRUE) = c  BY <4>2, <4>3
        <5> QED BY <1>2, <4>1, <4>3, <5>1
      <4>4. CASE crossing = {}
        <5>1. c \in DOMAIN s /\ c \notin crossing  BY <1>1, <3>3, <4>4
        <5>2. ~(e[c - 1] >= MaxLength - 3 /\ e[c - 1] < MaxLength)  BY <3>3, <3>8, <5>1
        <5>3. e[c - 1] = MaxLength  BY <1>1, <3>3, <3>5, <3>6, <5>2
        <5> QED BY <4>1, <4>4, <5>3
      <4> QED BY <4>3, <4>4
    <3>10. ASSUME NEW f \in ends, f <= MaxLength PROVE f <= e[c - 1]
      <4>1. PICK i \in 0..Len(s) : f = e[i]  BY <1>4
      <4> QED BY <3>7, <3>10, <4>1
    <3> QED BY <1>4, <3>4, <3>5, <3>9, <3>10
  <2> QED BY <2>1, <2>2
<1>6. ASSUME NEW x \in ends, NEW y \in ends, LastThatFits(x), LastThatFits(y) PROVE x = y
  <2>1. x \in Nat /\ y \in Nat  BY <1>1, <1>4
  <2> QED BY <1>6, <2>1
<1>7. Cutoff(s) = CHOOSE x \in ends : LastThatFits(x)
  <2>1. \E x \in ends : LastThatFits(x)  BY <1>5
  <2> DEFINE z == CHOOSE x \in ends : LastThatFits(x)
  <2>2. z \in ends /\ LastThatFits(z)  BY <2>1
  <2> HIDE DEF z, LastThatFits
  <2> QED BY <1>5, <1>6, <2>2 DEF z
<1> QED BY <1>7 DEF ends

\* The result of a tool stays what it is until its text is made, and then the text is cut
\* at the last rune that fits.
Cut ==
  /\ outcome \in Results \cup Errors
  /\ CutsOnRunes

\* TruncateToolResult cuts at the end of a rune, and as late as the limit lets it, for
\* results of any runes and any limit; a result that is passed through is whole.
THEOREM CutsAreOnRunes == ResultInit /\ [][Invoke]_resultVars => []CutsOnRunes
<1>1. ResultInit => Cut
  BY DEF ResultInit, Cut, CutsOnRunes
<1>2. Cut /\ [Invoke]_resultVars => Cut'
  <2> SUFFICES ASSUME Cut, [Invoke]_resultVars PROVE Cut'
    OBVIOUS
  <2>1. CASE UNCHANGED resultVars
    BY <2>1 DEF Cut, CutsOnRunes, resultVars
  <2>2. CASE Invoke
    <3>1. outcome' = outcome /\ outcome \in Results \cup Errors  BY <2>2 DEF Invoke, Cut
    <3>2. CASE outcome \in Errors
      <4>1. text'.kind # "ok"
        <5>1. text' = [kind |-> IF outcome.bypass THEN "raised" ELSE ClassifyKind(outcome)]
          BY <2>2, <3>2 DEF Invoke
        <5>2. text'.kind = IF outcome.bypass THEN "raised" ELSE ClassifyKind(outcome)
          BY <5>1
        <5>3. ClassifyKind(outcome) # "ok"
          BY DEF ClassifyKind, ByStatus, ByWords, Classes
        <5> QED BY <5>2, <5>3
      <4> QED BY <3>1, <4>1 DEF Cut, CutsOnRunes
    <3>3. CASE outcome \notin Errors
      <4>1. text'.kept = IF outcome.bypass THEN Length(outcome.runes)
                         ELSE Cutoff(outcome.runes)
        BY <2>2, <3>3 DEF Invoke
      <4>2. outcome.runes \in Seq(1..4)
        <5>1. outcome.runes \in BoundedSeq(1..4, MaxRunes)  BY <3>1, <3>3 DEF Results
        <5>2. PICK m \in 0..MaxRunes : outcome.runes \in [1..m -> 1..4]
          BY <5>1 DEF BoundedSeq, SeqOf
        <5>3. m \in Nat  BY LengthAssumption
        <5> QED BY <5>2, <5>3
      <4>3. Cutoff(outcome.runes) =
              CHOOSE x \in {StartOf(outcome.runes, i) + outcome.runes[i]
                              : i \in DOMAIN outcome.runes} \cup {0} :
                /\ x <= MaxLength
                /\ \A f \in {StartOf(outcome.runes, i) + outcome.runes[i]
                               : i \in DOMAIN outcome.runes} \cup {0} :
                     f <= MaxLength => f <= x
        BY <4>2, CutoffIsAnEnd
      <4>4. CutsOnRunes'
        BY <3>1, <4>1, <4>3 DEF CutsOnRunes
      <4> QED BY <3>1, <4>4 DEF Cut
    <3> QED BY <3>2, <3>3
  <2> QED BY <2>1, <2>2
<1>3. Cut => CutsOnRunes  BY DEF Cut
<1> QED BY <1>1, <1>2, <1>3, PTL

-----------------------------------------------------------------------------
(* Connections *)

\* The tables of Composio and of the web application, and the table of requests.
StoresOK ==
  /\ account \in [Accounts -> Lifecycle \cup {"absent", "deleted"}]
  /\ linkedBy \in [Accounts -> Users \cup {Empty}]
  /\ plugin \in [Users -> {NoRow} \cup [account : Accounts, status : Lifecycle]]
  /\ DOMAIN request = Requests

\* An account is there, and was linked for u.
LinkedFor(a, u) == a \in Accounts /\ account[a] # "absent" /\ linkedBy[a] = u

\* u has given his consent to it.
Owned(a, u) == LinkedFor(a, u) /\ account[a] \in {"ACTIVE", "deleted"}

AccountsLinked == \A a \in Accounts : account[a] # "absent" => linkedBy[a] \in Users

RowsLinked ==
  \A u \in Users : plugin[u].status # "none" =>
    /\ LinkedFor(plugin[u].account, u)
    /\ plugin[u].status = "ACTIVE" => Owned(plugin[u].account, u)

\* What a request knows.
RequestOK(q) ==
  /\ q.step = "execute" => Owned(q.account, q.user)
  /\ q.step \in {"config", "no config"} => q.user \in Users

\* An account belongs to whom it was linked for, and a row says ACTIVE only of an account
\* that its user has consented to.
ConnInv ==
  /\ StoresOK
  /\ AccountsLinked
  /\ RowsLinked
  /\ \A r \in Requests : RequestOK(request[r])

LEMMA NothingKnown == NoRow.status = "none" /\ NoRequest.step = "idle"
BY DEF NoRow, NoRequest

LEMMA ConnInvInit == ConnInit => ConnInv
<1> SUFFICES ASSUME ConnInit PROVE ConnInv
  OBVIOUS
<1>1. StoresOK /\ AccountsLinked
  BY DEF ConnInit, StoresOK, AccountsLinked
<1>2. RowsLinked
  BY NothingKnown DEF ConnInit, RowsLinked
<1>3. \A r \in Requests : RequestOK(request[r])
  BY NothingKnown DEF ConnInit, RequestOK
<1> QED
  BY <1>1, <1>2, <1>3 DEF ConnInv

-----------------------------------------------------------------------------
\* Accounts that are there keep their user and their consent.
AccountsKeep ==
  \A a \in Accounts : account[a] # "absent" =>
    /\ account'[a] # "absent" /\ linkedBy'[a] = linkedBy[a]
    /\ account[a] \in {"ACTIVE", "deleted"} => account'[a] \in {"ACTIVE", "deleted"}

LEMMA LinksStay ==
  ASSUME AccountsKeep, NEW a, NEW u
  PROVE  /\ LinkedFor(a, u) => a \in Accounts /\ account'[a] # "absent" /\ linkedBy'[a] = u
         /\ Owned(a, u) => account'[a] \in {"ACTIVE", "deleted"}
BY DEF AccountsKeep, LinkedFor, Owned

\* Rows that are not written stay linked.
LEMMA RowsStay == ASSUME RowsLinked, AccountsKeep, UNCHANGED plugin PROVE RowsLinked'
<1> SUFFICES ASSUME NEW u \in Users, plugin[u].status # "none"
             PROVE  /\ LinkedFor(plugin[u].account, u)'
                    /\ plugin[u].status = "ACTIVE" => Owned(plugin[u].account, u)'
  BY DEF RowsLinked
<1>1. LinkedFor(plugin[u].account, u)
      /\ (plugin[u].status = "ACTIVE" => Owned(plugin[u].account, u))
  BY DEF RowsLinked
<1> QED
  BY <1>1, LinksStay DEF LinkedFor, Owned

\* What a request knows stays true.
LEMMA KnownStays ==
  ASSUME AccountsKeep, NEW r \in Requests, RequestOK(request[r]), request'[r] = request[r]
  PROVE  RequestOK(request[r])'
<1>1. ASSUME request[r].step = "execute" PROVE Owned(request[r].account, request[r].user)'
  BY <1>1, LinksStay DEF RequestOK, LinkedFor, Owned
<1> QED
  BY <1>1 DEF RequestOK

\* A step of the services alone.
LEMMA StoresMove ==
  ASSUME ConnInv, StoresOK', AccountsLinked', RowsLinked', AccountsKeep, UNCHANGED request
  PROVE  ConnInv'
<1>1. \A r \in Requests : RequestOK(request[r])'
  BY KnownStays DEF ConnInv
<1> QED
  BY <1>1 DEF ConnInv

\* A step of a request, after which it knows what it should.
LEMMA RequestMoves ==
  ASSUME ConnInv, StoresOK', AccountsLinked', AccountsKeep, UNCHANGED plugin,
         NEW r \in Requests, RequestOK(request[r])',
         \A q \in Requests \ {r} : request'[q] = request[q]
  PROVE  ConnInv'
<1>1. \A q \in Requests : RequestOK(request[q])'
  BY KnownStays DEF ConnInv
<1> QED
  BY <1>1, RowsStay DEF ConnInv

\* A step of a request that forgets what it knew, or learns nothing that matters.
LEMMA RequestGoesOn ==
  ASSUME ConnInv, AccountsLinked', StoresOK', AccountsKeep, UNCHANGED plugin,
         NEW r \in Requests, NEW next, Proceed(r, next),
         next.step \notin {"execute", "config", "no config"}
  PROVE  ConnInv'
<1>1. request'[r] = next /\ \A q \in Requests \ {r} : request'[q] = request[q]
  BY DEF Proceed, ConnInv, StoresOK
<1>2. RequestOK(request[r])'
  BY <1>1 DEF RequestOK
<1> QED
  BY <1>1, <1>2, RequestMoves

\* Services that are not written to.
LEMMA StoresUnwritten ==
  ASSUME ConnInv, UNCHANGED <<account, linkedBy, plugin>>, DOMAIN request' = Requests
  PROVE  StoresOK' /\ AccountsKeep /\ AccountsLinked'
BY DEF ConnInv, StoresOK, AccountsKeep, AccountsLinked

LEMMA ConnInvStep == ConnInv /\ [ConnNext]_connVars => ConnInv'
<1> SUFFICES ASSUME ConnInv, [ConnNext]_connVars PROVE ConnInv'
  OBVIOUS
<1> DEFINE Same == UNCHANGED <<account, linkedBy, plugin>>
<1>a. ASSUME NEW r \in Requests, NEW next, Proceed(r, next)
      PROVE  /\ DOMAIN request' = Requests
             /\ request'[r] = next
             /\ \A q \in Requests \ {r} : request'[q] = request[q]
  BY <1>a DEF Proceed, ConnInv, StoresOK
<1>b. ASSUME NEW r \in Requests, NEW next, Proceed(r, next), Same,
             next.step \notin {"execute", "config", "no config"}
      PROVE  ConnInv'
  BY <1>a, <1>b, StoresUnwritten, RequestGoesOn
<1>c. ASSUME NEW r \in Requests, Answer(r), Same PROVE ConnInv'
  BY <1>b, <1>c, NothingKnown DEF Answer
<1>1. ASSUME NEW r \in Requests, NEW u \in Users, ListAuthConfigs(r, u) PROVE ConnInv'
  <2> DEFINE next == [step |-> IF configs > 0 THEN "config" ELSE "no config", user |-> u]
  <2>1. next.step # "execute" /\ next.user \in Users
    OBVIOUS
  <2>2. Proceed(r, next) /\ Same
    BY <1>1 DEF ListAuthConfigs
  <2>3. RequestOK(request[r])'
    BY <1>a, <2>1, <2>2 DEF RequestOK
  <2> QED
    BY <1>a, <2>2, <2>3, StoresUnwritten, RequestMoves
<1>2. ASSUME NEW r \in Requests, NEW u \in Users, ResolveAccount(r, u) PROVE ConnInv'
  <2>1. PICK a \in Resolvable(u) :
          Proceed(r, IF a = Empty THEN NotConnected
                     ELSE [step |-> "execute", user |-> u, account |-> a])
    BY <1>2 DEF ResolveAccount
  <2>2. CASE a = Empty
    <3>1. NotConnected.step = "not connected"
      BY DEF NotConnected
    <3> QED
      BY <1>2, <2>1, <2>2, <3>1, <1>b DEF ResolveAccount
  <2>3. CASE a # Empty
    <3>1. Owned(a, u)
      <4>1. PICK v \in Users : plugin[v] # NoRow /\ a = AccountOf(plugin[v], v, u)
        BY <2>1, <2>3 DEF Resolvable
      <4>2. plugin[v].status \in Lifecycle
        BY <4>1 DEF ConnInv, StoresOK
      <4>3. v = u /\ plugin[v].status = "ACTIVE" /\ a = plugin[v].account
        BY <2>3, <4>1, <4>2, EmptyAssumption DEF AccountOf, Lifecycle
      <4> QED BY <4>3 DEF ConnInv, RowsLinked
    <3> DEFINE next == [step |-> "execute", user |-> u, account |-> a]
    <3>2. Proceed(r, next) /\ Same
      BY <1>2, <2>1, <2>3 DEF ResolveAccount
    <3>3. next.step = "execute" /\ next.user = u /\ next.account = a
      OBVIOUS
    <3>4. RequestOK(request[r])'
      BY <1>a, <3>1, <3>2, <3>3 DEF RequestOK, Owned, LinkedFor
    <3> QED
      BY <1>a, <3>2, <3>4, StoresUnwritten, RequestMoves
  <2> QED
    BY <2>2, <2>3
<1>3. ASSUME NEW r \in Requests, NEW a \in Accounts, GetConnection(r, a) PROVE ConnInv'
  BY <1>3, <1>b DEF GetConnection
<1>4. ASSUME NEW r \in Requests, NEW a \in Accounts, DeleteConnection(r, a) PROVE ConnInv'
  <2> DEFINE next == [step |-> "deleted", account |-> a]
  <2>1. Proceed(r, next) /\ next.step = "deleted"
    BY <1>4 DEF DeleteConnection
  <2>2. StoresOK'
    BY <1>4, <2>1, <1>a DEF DeleteConnection, ConnInv, StoresOK
  <2>3. AccountsKeep
    BY <1>4 DEF DeleteConnection, ConnInv, StoresOK, AccountsKeep
  <2>4. AccountsLinked'
    BY <1>4 DEF DeleteConnection, ConnInv, StoresOK, AccountsLinked
  <2> QED
    BY <1>4, <2>1, <2>2, <2>3, <2>4, RequestGoesOn DEF DeleteConnection
<1>5. ASSUME NEW r \in Requests, CreateManagedAuthConfig(r) PROVE ConnInv'
  <2>1. CASE Answer(r)
    BY <1>5, <2>1, <1>c DEF CreateManagedAuthConfig
  <2>2. CASE Proceed(r, [request[r] EXCEPT !.step = "config"])
    <3> DEFINE next == [request[r] EXCEPT !.step = "config"]
    <3>1. request[r].user \in Users
      BY <1>5 DEF CreateManagedAuthConfig, ConnInv, RequestOK, Stage
    <3>2. next.user = request[r].user /\ next.step # "execute"
      OBVIOUS
    <3>3. RequestOK(request[r])'
      BY <1>a, <2>2, <3>1, <3>2 DEF RequestOK
    <3> QED
      BY <1>5, <1>a, <2>2, <3>3, StoresUnwritten, RequestMoves DEF CreateManagedAuthConfig
  <2> QED
    BY <1>5, <2>1, <2>2 DEF CreateManagedAuthConfig
<1>6. ASSUME NEW r \in Requests, LinkConnection(r) PROVE ConnInv'
  <2>1. CASE Answer(r) /\ UNCHANGED <<account, linkedBy>>
    BY <1>6, <2>1, <1>c DEF LinkConnection
  <2>2. ASSUME NEW a \in Accounts, account[a] = "absent",
               account' = [account EXCEPT ![a] = "PENDING"],
               linkedBy' = [linkedBy EXCEPT ![a] = request[r].user],
               NEW next, Proceed(r, next), next.step \notin {"execute", "config", "no config"}
        PROVE  ConnInv'
    <3>1. request[r].user \in Users
      BY <1>6 DEF LinkConnection, ConnInv, RequestOK, Stage
    <3>2. StoresOK'
      BY <1>6, <1>a, <2>2, <3>1 DEF LinkConnection, ConnInv, StoresOK, Lifecycle
    <3>3. AccountsKeep
      BY <2>2 DEF ConnInv, StoresOK, AccountsKeep
    <3>4. AccountsLinked'
      BY <2>2, <3>1 DEF ConnInv, StoresOK, AccountsLinked
    <3> QED
      BY <1>6, <2>2, <3>2, <3>3, <3>4, RequestGoesOn DEF LinkConnection
  <2>3. ASSUME NEW a \in Accounts, account[a] = "absent",
               account' = [account EXCEPT ![a] = "PENDING"],
               linkedBy' = [linkedBy EXCEPT ![a] = request[r].user], Answer(r)
        PROVE  ConnInv'
    BY <2>2, <2>3, NothingKnown DEF Answer
  <2>4. ASSUME NEW a \in Accounts, account[a] = "absent",
               account' = [account EXCEPT ![a] = "PENDING"],
               linkedBy' = [linkedBy EXCEPT ![a] = request[r].user],
               Proceed(r, [step |-> "linked", account |-> a])
        PROVE  ConnInv'
    BY <2>2, <2>4
  <2> QED
    BY <1>6, <2>1, <2>3, <2>4 DEF LinkConnection
<1>7. ASSUME NEW r \in Requests, SetConn(r) \/ PollConnection(r) \/ DeleteConn(r) \/ ExecuteTool(r)
      PROVE ConnInv'
  BY <1>7, <1>c DEF SetConn, PollConnection, DeleteConn, ExecuteTool
<1>8. ASSUME NEW a \in Accounts, Consent(a) PROVE ConnInv'
  <2>1. StoresOK'
    BY <1>8 DEF Consent, ConnInv, StoresOK, Lifecycle
  <2>2. AccountsKeep /\ AccountsLinked'
    BY <1>8 DEF Consent, ConnInv, StoresOK, AccountsKeep, AccountsLinked
  <2> QED
    BY <1>8, <2>1, <2>2, RowsStay, StoresMove DEF Consent, ConnInv
<1>9. ASSUME NEW a \in Accounts, SavePlugin(a) PROVE ConnInv'
  <2> DEFINE row == [account |-> a, status |-> account[a]]
  <2>1. account[a] \in Lifecycle /\ account[a] # "absent" /\ linkedBy[a] \in Users
    BY <1>9 DEF SavePlugin, ConnInv, AccountsLinked, Lifecycle
  <2>2. row.account = a /\ row.status = account[a]
    OBVIOUS
  <2>3. \A u \in Users : plugin'[u] = IF u = linkedBy[a] THEN row ELSE plugin[u]
    BY <1>9, <2>1 DEF SavePlugin, ConnInv, StoresOK
  <2>4. StoresOK'
    BY <1>9, <2>1 DEF SavePlugin, ConnInv, StoresOK
  <2>5. RowsLinked'
    BY <1>9, <2>1, <2>2, <2>3
    DEF SavePlugin, ConnInv, RowsLinked, Owned, LinkedFor
  <2> QED
    BY <1>9, <2>4, <2>5, StoresMove DEF SavePlugin, ConnInv, AccountsLinked, AccountsKeep
<1>10. ASSUME NEW a \in Accounts, NEW status \in Lifecycle, UpdatePlugin(a, status) PROVE ConnInv'
  BY <1>10, StoresUnwritten, RowsStay, StoresMove DEF UpdatePlugin, ConnInv, StoresOK
<1>11. ASSUME NEW u \in Users, RemovePlugin(u) PROVE ConnInv'
  <2>1. \A v \in Users : plugin'[v] = IF v = u THEN NoRow ELSE plugin[v]
    BY <1>11 DEF RemovePlugin, ConnInv, StoresOK
  <2>2. StoresOK'
    BY <1>11 DEF RemovePlugin, ConnInv, StoresOK
  <2>3. RowsLinked'
    BY <1>11, <2>1, NothingKnown DEF RemovePlugin, ConnInv, RowsLinked, Owned, LinkedFor
  <2> QED
    BY <1>11, <2>2, <2>3, StoresMove DEF RemovePlugin, ConnInv, AccountsLinked, AccountsKeep
<1>12. CASE UNCHANGED connVars
  BY <1>12, StoresUnwritten, RowsStay, StoresMove DEF connVars, ConnInv, StoresOK
<1> QED
  BY <1>1, <1>2, <1>3, <1>4, <1>5, <1>6, <1>7, <1>8, <1>9, <1>10, <1>11, <1>12 DEF ConnNext

\* An action runs only on an account that was linked for the caller and that he has
\* consented to (composioExecuteToolHandler and RESTAccountStore.Resolve).
THEOREM AccountIsAlwaysMine == ConnSpec => []AccountIsMine
<1>1. ConnInv => AccountIsMine
  BY DEF ConnInv, RequestOK, AccountIsMine, Owned, LinkedFor, Stage
<1> QED
  BY ConnInvInit, ConnInvStep, <1>1, PTL DEF ConnSpec

\* The types, with what a request knows at each step.
ConnRequests ==
  {NoRequest, NotConnected}
  \cup [step : {"config", "no config"}, user : Users]
  \cup [step : {"linked", "deleted"}, account : Accounts]
  \cup [step : {"polled"}, account : Accounts, status : Lifecycle]
  \cup [step : {"execute"}, user : Users, account : Accounts]

LEMMA Knows ==
  ASSUME NEW q \in ConnRequests
  PROVE  /\ q.step = "no config" => q.user \in Users /\ [q EXCEPT !.step = "config"] \in ConnRequests
         /\ q.step \in {"linked", "deleted", "polled"} => q.account \in Accounts
         /\ q.step = "polled" => q.status \in Lifecycle
<1>1. CASE q \in {NoRequest, NotConnected}
  <2>1. NoRequest.step = "idle" /\ NotConnected.step = "not connected"
    BY DEF NoRequest, NotConnected
  <2>2. q.step = "idle" \/ q.step = "not connected"  BY <1>1, <2>1
  <2>3. q.step \notin {"linked", "deleted", "polled"}  BY <2>2
  <2>4. q.step # "no config"  BY <2>2
  <2> QED BY <2>3, <2>4
<1>2. CASE q \in [step : {"config", "no config"}, user : Users]
  BY <1>2 DEF ConnRequests
<1>3. CASE q \in [step : {"linked", "deleted"}, account : Accounts]
  BY <1>3
<1>4. CASE q \in [step : {"polled"}, account : Accounts, status : Lifecycle]
  BY <1>4
<1>5. CASE q \in [step : {"execute"}, user : Users, account : Accounts]
  BY <1>5
<1> QED BY <1>1, <1>2, <1>3, <1>4, <1>5 DEF ConnRequests

LEMMA ConnTypesInit == ConnInit => ConnTypeOK
BY DEF ConnInit, ConnTypeOK

LEMMA ConnTypesStep == ConnInv /\ ConnTypeOK /\ ConnInv' /\ [ConnNext]_connVars => ConnTypeOK'
<1> SUFFICES ASSUME ConnInv, ConnTypeOK, ConnInv', [ConnNext]_connVars PROVE ConnTypeOK'
  OBVIOUS
<1>1. /\ request \in [Requests -> ConnRequests] /\ configs \in Nat
      /\ conn \in [Accounts -> Lifecycle \cup {"none"}]
  BY DEF ConnTypeOK, ConnRequests
<1>2. ASSUME configs' \in Nat, conn' \in [Accounts -> Lifecycle \cup {"none"}],
             request' \in [Requests -> ConnRequests]
      PROVE  ConnTypeOK'
  BY <1>2 DEF ConnInv, StoresOK, ConnTypeOK, ConnRequests
<1>3. ASSUME NEW r \in Requests, NEW next \in ConnRequests, Proceed(r, next)
      PROVE  request' \in [Requests -> ConnRequests]
  BY <1>1, <1>3 DEF Proceed
<1>4. ASSUME NEW r \in Requests, Answer(r) PROVE request' \in [Requests -> ConnRequests]
  BY <1>3, <1>4 DEF Answer, ConnRequests
<1>5. ASSUME NEW r \in Requests, NEW u \in Users, ListAuthConfigs(r, u) PROVE ConnTypeOK'
  <2>1. \A s \in {"config", "no config"} : [step |-> s, user |-> u] \in ConnRequests
    BY DEF ConnRequests
  <2>2. PICK s \in {"config", "no config"} : Proceed(r, [step |-> s, user |-> u])
    BY <1>5 DEF ListAuthConfigs
  <2> QED BY <1>1, <1>2, <1>3, <1>5, <2>1, <2>2 DEF ListAuthConfigs
<1>6. ASSUME NEW r \in Requests, NEW u \in Users, ResolveAccount(r, u) PROVE ConnTypeOK'
  <2>1. PICK a \in Resolvable(u) :
          Proceed(r, IF a = Empty THEN NotConnected
                     ELSE [step |-> "execute", user |-> u, account |-> a])
    BY <1>6 DEF ResolveAccount
  <2>2. a = Empty \/ a \in Accounts
    <3>1. \A v \in Users : plugin[v] # NoRow => plugin[v].account \in Accounts
      BY DEF ConnInv, StoresOK
    <3> QED BY <3>1 DEF Resolvable, AccountOf
  <2>3. /\ NotConnected \in ConnRequests
        /\ a \in Accounts => [step |-> "execute", user |-> u, account |-> a] \in ConnRequests
    BY DEF ConnRequests
  <2>4. request' \in [Requests -> ConnRequests]
    <3>1. CASE a = Empty  BY <1>3, <2>1, <2>3, <3>1
    <3>2. CASE a # Empty  BY <1>3, <2>1, <2>2, <2>3, <3>2
    <3> QED BY <3>1, <3>2
  <2> QED BY <1>1, <1>2, <1>6, <2>4 DEF ResolveAccount
<1>7. ASSUME NEW r \in Requests, NEW a \in Accounts, GetConnection(r, a) PROVE ConnTypeOK'
  <2>1. PICK status \in Lifecycle :
          Proceed(r, [step |-> "polled", account |-> a, status |-> status])
    BY <1>7 DEF GetConnection, Lifecycle
  <2>2. [step |-> "polled", account |-> a, status |-> status] \in ConnRequests
    BY DEF ConnRequests
  <2> QED BY <1>1, <1>2, <1>3, <1>7, <2>1, <2>2 DEF GetConnection
<1>8. ASSUME NEW r \in Requests, NEW a \in Accounts, DeleteConnection(r, a) PROVE ConnTypeOK'
  <2>1. [step |-> "deleted", account |-> a] \in ConnRequests
    BY DEF ConnRequests
  <2> QED BY <1>1, <1>2, <1>3, <1>8, <2>1 DEF DeleteConnection
<1>9. ASSUME NEW r \in Requests, CreateManagedAuthConfig(r) PROVE ConnTypeOK'
  <2>1. configs' \in Nat
    <3>1. configs' \in {configs, configs + 1}  BY <1>9 DEF CreateManagedAuthConfig
    <3> QED BY <1>1, <3>1
  <2>2. [request[r] EXCEPT !.step = "config"] \in ConnRequests
    BY <1>1, <1>9, Knows DEF CreateManagedAuthConfig, Stage
  <2>3. request' \in [Requests -> ConnRequests]
    BY <1>3, <1>4, <1>9, <2>2 DEF CreateManagedAuthConfig
  <2> QED BY <1>1, <1>2, <1>9, <2>1, <2>3 DEF CreateManagedAuthConfig
<1>10. ASSUME NEW r \in Requests, LinkConnection(r) PROVE ConnTypeOK'
  <2>1. \A a \in Accounts : [step |-> "linked", account |-> a] \in ConnRequests
    BY DEF ConnRequests
  <2>2. Answer(r) \/ \E a \in Accounts : Proceed(r, [step |-> "linked", account |-> a])
    BY <1>10 DEF LinkConnection
  <2>3. request' \in [Requests -> ConnRequests]
    BY <1>3, <1>4, <2>1, <2>2
  <2> QED BY <1>1, <1>2, <1>10, <2>3 DEF LinkConnection
<1>11. ASSUME NEW r \in Requests, SetConn(r) \/ PollConnection(r) \/ DeleteConn(r)
       PROVE  ConnTypeOK'
  <2>1. conn' \in [Accounts -> Lifecycle \cup {"none"}]
    BY <1>1, <1>11, Knows DEF SetConn, PollConnection, DeleteConn, Stage, Lifecycle
  <2> QED BY <1>1, <1>2, <1>4, <1>11, <2>1 DEF SetConn, PollConnection, DeleteConn
<1>12. ASSUME NEW r \in Requests, ExecuteTool(r) PROVE ConnTypeOK'
  BY <1>1, <1>2, <1>4, <1>12 DEF ExecuteTool
<1>13. ASSUME NEW a \in Accounts, Consent(a) \/ SavePlugin(a) PROVE ConnTypeOK'
  BY <1>1, <1>2, <1>13 DEF Consent, SavePlugin
<1>14. ASSUME NEW a \in Accounts, NEW status \in Lifecycle, UpdatePlugin(a, status)
       PROVE  ConnTypeOK'
  BY <1>1, <1>2, <1>14 DEF UpdatePlugin
<1>15. ASSUME NEW u \in Users, RemovePlugin(u) PROVE ConnTypeOK'
  BY <1>1, <1>2, <1>15 DEF RemovePlugin
<1>16. CASE UNCHANGED connVars
  BY <1>1, <1>2, <1>16 DEF connVars
<1> QED
  BY <1>5, <1>6, <1>7, <1>8, <1>9, <1>10, <1>11, <1>12, <1>13, <1>14, <1>15, <1>16 DEF ConnNext

-----------------------------------------------------------------------------
(* The six components together *)

\* The class of a result, and of every outcome there is.
LEMMA KindsOfErrors == ASSUME NEW e \in Errors PROVE ClassifyKind(e) \in Classes
<1>1. ByStatus(e.status) \in Classes \cup {"none"}
  <2>1. e.status \in Statuses  BY DEF Errors
  <2> QED BY <2>1 DEF ByStatus, Statuses, NoStatus, Classes
<1>2. ByWords(e.words) \in Classes  BY DEF ByWords, Classes
<1> QED BY <1>1, <1>2 DEF ClassifyKind

KindOK == text.kind \in {"none", "ok", "raised"} \cup Classes

LEMMA KindStays == KindOK /\ [Invoke]_resultVars => KindOK'
<1> SUFFICES ASSUME KindOK, [Invoke]_resultVars PROVE KindOK'  OBVIOUS
<1>1. CASE UNCHANGED resultVars  BY <1>1 DEF resultVars, KindOK
<1>2. CASE Invoke /\ outcome \in Errors
  <2>1. text'.kind = "raised" \/ text'.kind = ClassifyKind(outcome)
    BY <1>2 DEF Invoke
  <2> QED BY <1>2, <2>1, KindsOfErrors DEF KindOK
<1>3. CASE Invoke /\ outcome \notin Errors
  BY <1>3 DEF Invoke, KindOK
<1> QED BY <1>1, <1>2, <1>3

ServicesInv ==
  LockInv /\ CacheTypeInv /\ ExtractionInv /\ ConnInv /\ ConnTypeOK /\ KindOK

\* A step of one part is a step of that component and no step of the others.
LEMMA ServicesStep ==
  [Next]_<<part, lockVars, cacheVars, extractionVars, resultVars, connVars>> =>
    /\ [LockNext]_lockVars /\ [CacheNext]_cacheVars /\ [ExtractionNext]_extractionVars
    /\ [Invoke]_resultVars /\ [ConnNext]_connVars
BY DEF Next

\* What each of the five components keeps by itself, they keep together.
THEOREM ServicesInvariant == Spec => []ServicesInv
<1>1. Init => ServicesInv
  <2> SUFFICES ASSUME Init PROVE ServicesInv  OBVIOUS
  <2>1. LockInit /\ CacheInit /\ ExtractionInit /\ ResultInit /\ ConnInit
    BY DEF Init
  <2>2. KindOK  BY <2>1 DEF ResultInit, KindOK
  <2> QED
    BY <2>1, <2>2, LockInvInit, CacheTypeInvInit, ExtractionInvInit, ConnInvInit,
       ConnTypesInit
    DEF ServicesInv
<1>2. ServicesInv
      /\ [Next]_<<part, lockVars, cacheVars, extractionVars, resultVars, connVars>>
      => ServicesInv'
  BY ServicesStep, LockInvStep, CacheTypeInvStep, ExtractionInvStep, ConnInvStep,
     ConnTypesStep, KindStays
  DEF ServicesInv
<1> QED BY <1>1, <1>2, PTL DEF Spec

\* The types of the five components, in whatever order they step.
THEOREM ServicesTypes == Spec => []TypeOK
<1>1. ServicesInv => TypeOK
  BY DEF ServicesInv, LockInv, ExtractionInv, KindOK, TypeOK, CacheTypeInv, CacheInv,
         CacheTrue, CallsTrue, CacheTypeOK, Written
<1> QED BY <1>1, ServicesInvariant, PTL

=============================================================================
