----------------------------- MODULE ToolResult -----------------------------
(***************************************************************************)
(* What ClassifiedToolMiddleware of middleware/wrappers.go makes of the    *)
(* outcome of a tool: an error becomes a text with a recovery strategy     *)
(* (error_classify.go), a long result is cut (truncate.go).                *)
(*                                                                         *)
(* A result is the sequence of the sizes of its runes in bytes.  An error  *)
(* is what normalizeSignal takes from it: the class of its code, a status  *)
(* found in its message, and the classes of keywords in it.                *)
(***************************************************************************)
EXTENDS Integers, Sequences, SequencesExt

CONSTANTS
  MaxLength,   \* longest result in bytes (25000 in the code)
  MaxRunes     \* bound on the runes of a result

ASSUME LengthAssumption == MaxLength \in Nat \ {0} /\ MaxRunes \in Nat

VARIABLES
  outcome,   \* what the tool returned
  text       \* what the agent gets

resultVars == <<outcome, text>>

-----------------------------------------------------------------------------
Classes == {"stop", "replan", "retry"}
NoStatus == 0

\* The statuses the code tells apart, and one of each kind it does not.
Statuses == {NoStatus, 400, 401, 403, 404, 408, 409, 418, 422, 425, 429, 500, 503}

Results == [runes : BoundedSeq(1..4, MaxRunes), bypass : BOOLEAN]
Errors == [code : Classes \cup {"none", "other"}, status : Statuses,
           words : SUBSET Classes, bypass : BOOLEAN]

\* classifyKind: the code, then the status, then the keywords.
ByStatus(status) ==
  CASE status \in {401, 403} -> "stop"
    [] status \in {400, 404, 409, 422} -> "replan"
    [] status \in {408, 425, 429} \/ status >= 500 -> "retry"
    [] OTHER -> "none"

\* Mutant: retry is what remains.
ByWordsElseRetry(words) ==
  IF "stop" \in words THEN "stop"
  ELSE IF "replan" \in words THEN "replan" ELSE "retry"

ByWords(words) ==
  IF "stop" \in words THEN "stop"
  ELSE IF "replan" \in words THEN "replan"
  ELSE IF "retry" \in words THEN "retry" ELSE "stop"

ClassifyKind(e) ==
  IF e.code \in Classes THEN e.code
  ELSE IF ByStatus(e.status) # "none" THEN ByStatus(e.status)
  ELSE ByWords(e.words)

-----------------------------------------------------------------------------
\* The byte offsets at which the runes of s end, after 0; its length in bytes, and the
\* offset at which a rune starts.
Ends(s) ==
  LET end[i \in 0..Len(s)] == IF i = 0 THEN 0 ELSE end[i - 1] + s[i]
  IN end
Length(s) == Ends(s)[Len(s)]
StartOf(s, i) == Ends(s)[i - 1]

\* Mutant: one offset too few.
NearCutTooShort(offset) == offset >= 0 /\ offset >= MaxLength - 2 /\ offset < MaxLength

\* The offsets at which the loop looks for a rune that crosses the limit.
NearCut(offset) == offset >= 0 /\ offset >= MaxLength - 3 /\ offset < MaxLength

\* TruncateToolResult: the number of bytes that are kept, before the notice.
Cutoff(s) ==
  LET crossing == {i \in DOMAIN s : /\ NearCut(StartOf(s, i))
                                    /\ StartOf(s, i) + s[i] > MaxLength}
  IN IF Length(s) <= MaxLength THEN Length(s)
     ELSE IF crossing # {} THEN StartOf(s, CHOOSE i \in crossing : TRUE)
     ELSE MaxLength

-----------------------------------------------------------------------------
ResultInit ==
  /\ outcome \in Results \cup Errors
  /\ text = [kind |-> "none"]

\* A tool whose results are archives is passed through, with its errors as they are
\* (ArchiveBypassIdentifiers).
Invoke ==
  /\ text.kind = "none"
  /\ text' = CASE outcome \in Errors -> [kind |-> IF outcome.bypass THEN "raised"
                                                  ELSE ClassifyKind(outcome)]
               [] OTHER -> [kind |-> "ok",
                            kept |-> IF outcome.bypass THEN Length(outcome.runes)
                                     ELSE Cutoff(outcome.runes)]
  /\ UNCHANGED outcome

-----------------------------------------------------------------------------
\* An error is called retryable only on evidence: a code, a status or a word that says
\* so, with nothing of higher rank that says otherwise; whatever is unknown stops the
\* agent, because its side effect may have happened (error_classify.go:205-208).
RetryIsExplicit ==
  text.kind = "retry" =>
    \/ outcome.code = "retry"
    \/ /\ outcome.code \notin Classes
       /\ outcome.status \in {408, 425, 429} \/ outcome.status >= 500
    \/ /\ outcome.code \notin Classes
       /\ outcome.status \in {NoStatus, 418}
       /\ outcome.words = {"retry"}

\* What is kept of a long result ends where a rune ends, and no rune that would have
\* fitted is missing (TruncateToolResult, for runes of any size).
CutsOnRunes ==
  text.kind = "ok" =>
    LET s == outcome.runes
        ends == {StartOf(s, i) + s[i] : i \in DOMAIN s} \cup {0}
    IN text.kept = IF outcome.bypass THEN Length(s)
                   ELSE CHOOSE e \in ends :
                          /\ e <= MaxLength
                          /\ \A f \in ends : f <= MaxLength => f <= e

=============================================================================
