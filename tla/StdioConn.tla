----------------------------- MODULE StdioConn -----------------------------
(***************************************************************************)
(* The connection to an MCP server that runs as a child process,           *)
(* mcp/stdio_transport.go: the goroutine that decodes what the child       *)
(* writes, Read and Write, and Close with its three waits for the child.   *)
(*                                                                         *)
(* The child writes JSON values.  A value is the sequence of the messages  *)
(* of its batch, numbered as they are written; one that does not parse     *)
(* stops the decoder, and one that parses and is no batch of messages      *)
(* makes only the Read that gets it fail.                                  *)
(***************************************************************************)
EXTENDS Naturals, Sequences

CONSTANTS
  Writers,    \* goroutines that call Write
  MaxValues   \* bound on the values the child writes

ASSUME ValuesAssumption == MaxValues \in Nat

VARIABLES
  child,      \* the process: "running", "exited" or, after Wait, "reaped"
  output,     \* the values in the pipe from the child
  sent,       \* how many values and messages the child has written
  stdoutOpen, \* whether our end of that pipe is open: Wait closes it
  stdinOpen,  \* whether our end of the other pipe is
  decoder,    \* the goroutine: what it does, and the value it offers
  reader,     \* the caller of Read
  msgs,       \* stdioConn.queue: what is left of the last batch
  got,        \* the messages Read has returned
  broken,     \* whether a Read has failed
  writer,     \* each caller of Write; one at a time holds writeMu
  closer,     \* where Close stands
  closedChan  \* stdioConn.closed

stdioVars == <<child, output, sent, stdoutOpen, stdinOpen, decoder, reader, msgs, got,
               broken, writer, closer, closedChan>>
process == <<child, output, sent, stdoutOpen, stdinOpen>>
reading == <<decoder, reader, msgs, got, broken>>

-----------------------------------------------------------------------------
Garbage == [kind |-> "garbage", batch |-> <<>>]
NoBatch == [kind |-> "nobatch", batch |-> <<>>]
EndOfFile == [kind |-> "end", batch |-> <<>>]
Batch(first, last) == [kind |-> "batch", batch |-> [i \in 1..last - first + 1 |-> first + i - 1]]
Nothing == [kind |-> "nothing", batch |-> <<>>]

StdioInit ==
  /\ child = "running" /\ output = <<>> /\ sent = [values |-> 0, messages |-> 0]
  /\ stdoutOpen = TRUE /\ stdinOpen = TRUE
  /\ decoder = [does |-> "decode", offers |-> Nothing]
  /\ reader = "idle" /\ msgs = <<>> /\ got = <<>> /\ broken = FALSE
  /\ writer = [w \in Writers |-> "idle"]
  /\ closer = "no" /\ closedChan = FALSE

-----------------------------------------------------------------------------
(* The child process *)

ChildWrites ==
  /\ child = "running" /\ sent.values < MaxValues
  /\ \E size \in 0..2 :
       \E value \in IF size = 0 THEN {Garbage, NoBatch}
                    ELSE {Batch(sent.messages + 1, sent.messages + size)} :
         /\ output' = Append(output, value)
         /\ sent' = [values |-> sent.values + 1, messages |-> sent.messages + size]
  /\ UNCHANGED <<child, stdoutOpen, stdinOpen, reading, writer, closer, closedChan>>

\* By itself, at the end of its input, or on a signal.
ChildExits ==
  /\ child = "running"
  /\ child' = "exited"
  /\ UNCHANGED <<output, sent, stdoutOpen, stdinOpen, reading, writer, closer, closedChan>>

\* The goroutine of Close: cmd.Wait closes the pipe, with what is still in it.
Reap ==
  /\ child = "exited" /\ closer # "no" /\ ~stdinOpen
  /\ child' = "reaped" /\ stdoutOpen' = FALSE /\ output' = <<>>
  /\ UNCHANGED <<sent, stdinOpen, reading, writer, closer, closedChan>>

-----------------------------------------------------------------------------
(* newStdioConn: the decoder *)

Decode ==
  /\ decoder.does = "decode"
  /\ \/ /\ output # <<>>
        /\ decoder' = [does |-> "offer", offers |-> Head(output)]
        /\ output' = Tail(output)
     \/ /\ output = <<>> /\ (child # "running" \/ ~stdoutOpen)
        /\ decoder' = [does |-> "offer", offers |-> EndOfFile]
        /\ UNCHANGED output
  /\ UNCHANGED <<child, sent, stdoutOpen, stdinOpen, reader, msgs, got, broken, writer, closer, closedChan>>

\* The value offered is for nobody once the connection is closed.
StopDecoder ==
  /\ decoder.does = "offer" /\ closedChan
  /\ decoder' = [does |-> "stopped", offers |-> Nothing]
  /\ UNCHANGED <<process, reader, msgs, got, broken, writer, closer, closedChan>>

-----------------------------------------------------------------------------
(* Read, which the MCP library calls from one goroutine *)

\* Mutant: Read waits for the next value although the last batch is not used up.
ReadNextBatch ==
  /\ reader = "idle"
  /\ reader' = "waiting"
  /\ UNCHANGED <<process, decoder, msgs, got, broken, writer, closer, closedChan>>

Read ==
  /\ reader = "idle"
  /\ IF msgs # <<>> THEN got' = Append(got, Head(msgs)) /\ msgs' = Tail(msgs) /\ UNCHANGED reader
                    ELSE reader' = "waiting" /\ UNCHANGED <<got, msgs>>
  /\ UNCHANGED <<process, decoder, broken, writer, closer, closedChan>>

\* The channel is unbuffered: decoder and reader meet.  readBatch refuses a value whole.
Receive ==
  /\ reader = "waiting" /\ decoder.does = "offer"
  /\ LET value == decoder.offers
     IN /\ decoder' = [does |-> IF value.kind \in {"garbage", "end"} THEN "stopped" ELSE "decode",
                       offers |-> Nothing]
        /\ IF value.kind = "batch"
           THEN /\ got' = Append(got, Head(value.batch)) /\ msgs' = Tail(value.batch)
                /\ UNCHANGED broken
           ELSE broken' = TRUE /\ UNCHANGED <<got, msgs>>
  /\ reader' = "idle"
  /\ UNCHANGED <<process, writer, closer, closedChan>>

\* The connection is closed, or the context of this Read is done.
ReadFails ==
  /\ reader = "waiting"
  /\ reader' = "idle"
  /\ broken' = (broken \/ closedChan)
  /\ UNCHANGED <<process, decoder, msgs, got, writer, closer, closedChan>>

-----------------------------------------------------------------------------
(* Write *)

LockWrite(w) ==
  /\ writer[w] = "idle"
  /\ \A v \in Writers : writer[v] = "idle"
  /\ writer' = [writer EXCEPT ![w] = "writing"]
  /\ UNCHANGED <<process, reading, closer, closedChan>>

\* The pipe may be full until the child reads it, or until it is closed.
WriteReturns(w) ==
  /\ writer[w] = "writing"
  /\ writer' = [writer EXCEPT ![w] = "idle"]
  /\ UNCHANGED <<process, reading, closer, closedChan>>

-----------------------------------------------------------------------------
(* Close, which closeOnce lets in once *)

CloseStdin ==
  /\ closer = "no"
  /\ stdinOpen' = FALSE
  /\ closer' = "eof"
  /\ UNCHANGED <<child, output, sent, stdoutOpen, reading, writer, closedChan>>

\* Mutant: Close returns and leaves the channel open.
CloseReturnsOnly ==
  /\ closer' = "returned"
  /\ UNCHANGED closedChan

CloseReturns ==
  /\ closer' = "returned"
  /\ closedChan' = TRUE

\* The child is reaped within one of the three waits, of TerminateDuration each.
ChildAwaited ==
  /\ closer \in {"eof", "term", "kill"} /\ child = "reaped"
  /\ CloseReturns
  /\ UNCHANGED <<process, reading, writer>>

\* After the end of its input the child gets SIGTERM; if it cannot be sent, SIGKILL at
\* once, and if that cannot be sent, nothing.
WaitElapses ==
  /\ closer \in {"eof", "term", "kill"}
  /\ \/ /\ closer = "eof" /\ child # "reaped"
        /\ closer' = "term" /\ UNCHANGED closedChan
     \/ /\ closer = "term" /\ child # "reaped"
        /\ closer' = "kill" /\ UNCHANGED closedChan
     \/ closer \in {"eof", "term"} /\ child = "reaped" /\ CloseReturns
     \/ closer = "kill" /\ CloseReturns
  /\ UNCHANGED <<process, reading, writer>>

StdioNext ==
  \/ ChildWrites \/ ChildExits \/ Reap
  \/ Decode \/ StopDecoder \/ Read \/ Receive \/ ReadFails
  \/ \E w \in Writers : LockWrite(w) \/ WriteReturns(w)
  \/ CloseStdin \/ ChildAwaited \/ WaitElapses

\* Goroutines run and the waits elapse.  Nothing is assumed of the child, which need
\* not exit even on SIGKILL, nor of the MCP library, which need not read or close.
StdioFairness ==
  /\ WF_stdioVars(Decode) /\ WF_stdioVars(StopDecoder) /\ WF_stdioVars(Reap)
  /\ WF_stdioVars(closedChan /\ ReadFails)
  /\ \A w \in Writers : WF_stdioVars(~stdinOpen /\ WriteReturns(w))
  /\ WF_stdioVars(ChildAwaited \/ WaitElapses)

StdioSpec == StdioInit /\ [][StdioNext]_stdioVars /\ StdioFairness

-----------------------------------------------------------------------------
Values == [kind : {"garbage", "nobatch", "end", "nothing", "batch"}, batch : Seq(Nat)]

StdioTypeOK ==
  /\ child \in {"running", "exited", "reaped"}
  /\ output \in Seq(Values)
  /\ sent \in [values : 0..MaxValues, messages : 0..2 * MaxValues]
  /\ stdoutOpen \in BOOLEAN /\ stdinOpen \in BOOLEAN
  /\ decoder \in [does : {"decode", "offer", "stopped"}, offers : Values]
  /\ reader \in {"idle", "waiting"}
  /\ msgs \in Seq(Nat) /\ got \in Seq(Nat)
  /\ broken \in BOOLEAN
  /\ writer \in [Writers -> {"idle", "writing"}]
  /\ closer \in {"no", "eof", "term", "kill", "returned"}
  /\ closedChan \in BOOLEAN

\* Read returns the messages in the order in which the child wrote them, each once, and
\* none is left out before a Read has failed: across batches, cancelled Reads, the end
\* of the child and Close.
ReadInOrder ==
  /\ \A i, j \in 1..Len(got) : i < j => got[i] < got[j]
  /\ ~broken => \A i \in 1..Len(got) : got[i] = i

\* Close returns, whatever the child does; then nobody is left behind: no Read, no
\* Write, and once the child is gone, no decoder.
ConnectionEnds ==
  /\ closer # "no" ~> closer = "returned" /\ reader = "idle"
  /\ \A w \in Writers : closer # "no" /\ writer[w] = "writing" ~> writer[w] = "idle"
  /\ closer = "returned" /\ child = "reaped" ~> decoder.does = "stopped"

=============================================================================
