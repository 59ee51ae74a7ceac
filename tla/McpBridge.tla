----------------------------- MODULE McpBridge -----------------------------
(***************************************************************************)
(* apps/cli/src/mcp: tools/call requests are dispatched on one shared      *)
(* context.  A dispatch points ctx.output at a buffer of its own while the *)
(* command runs and puts the previous formatter back when it ends.  The    *)
(* command looks up ctx.output each time it writes.  Nothing queues the    *)
(* requests: a second one may be dispatched while the first one awaits.    *)
(***************************************************************************)
EXTENDS Integers, Sequences

CONSTANTS
  Calls,      \* tools/call requests
  Stdout,     \* where the formatter of the process writes
  MaxWrites   \* bound on the records one command writes

ASSUME BridgeAssumption ==
  MaxWrites \in Nat /\ Stdout \notin Calls

Sinks == Calls \cup {Stdout}
\* A request without a name, one for a tool that is not listed, one for a tool.
RequestKinds == {"malformed", "unknown", "tool"}
Answers == [kind : {"none", "error", "rejected", "text"}, text : Seq(Calls)]
NoAnswer == [kind |-> "none", text |-> <<>>]
\* Mutant: the envelope is built and not returned.
NoEnvelope == [kind |-> "undefined", text |-> <<>>]

\* toErrorEnvelope: every failure is an answer with isError.
ErrorAnswer == [kind |-> "error", text |-> <<>>]

VARIABLES
  pc,        \* where each dispatch is suspended
  output,    \* the sink ctx.output writes to
  previous,  \* previousOutput of each dispatch
  captured,  \* per sink, the calls whose records it received, in order
  written,   \* history: records each command wrote
  answer,    \* what each request was answered with
  aborted,   \* the signal of the process
  before,    \* history: the dispatches in flight when each dispatch began
  crossed    \* history: a dispatch ended before one begun after it

vars == <<pc, output, previous, captured, written, answer, aborted, before, crossed>>

Init ==
  /\ pc = [c \in Calls |-> "idle"]
  /\ output = Stdout
  /\ previous = [c \in Calls |-> Stdout]
  /\ captured = [s \in Sinks |-> <<>>]
  /\ written = [c \in Calls |-> 0]
  /\ answer = [c \in Calls |-> NoAnswer]
  /\ aborted = FALSE
  /\ before = [c \in Calls |-> {}]
  /\ crossed = FALSE

Dispatched(c) == pc[c] \in {"importing", "running"}
InFlight == {c \in Calls : Dispatched(c)}
Goto(c, where) == pc' = [pc EXCEPT ![c] = where]
Reply(c, a) == Goto(c, "done") /\ answer' = [answer EXCEPT ![c] = a]

-----------------------------------------------------------------------------
\* dispatchToolCall up to its first await.  A bad request is answered at once;
\* an aborted signal makes the handler reject, outside the try.
Call(c, kind) ==
  /\ pc[c] = "idle"
  /\ \/ /\ kind # "tool"
        /\ Reply(c, ErrorAnswer)
        /\ UNCHANGED <<output, previous, before>>
     \/ /\ kind = "tool" /\ aborted
        /\ Reply(c, [kind |-> "rejected", text |-> <<>>])
        /\ UNCHANGED <<output, previous, before>>
     \/ /\ kind = "tool" /\ ~aborted
        /\ Goto(c, "importing")
        /\ previous' = [previous EXCEPT ![c] = output]
        /\ output' = c
        /\ before' = [before EXCEPT ![c] = InFlight]
        /\ UNCHANGED answer
  /\ UNCHANGED <<captured, written, aborted, crossed>>

\* Mutant: the previous formatter is not put back.
LeaveOutput(c) == output' = output

\* The finally of withCapturedOutput.
RestoreOutput(c) == output' = previous[c]

\* A dispatch ends, perhaps before one that was begun after it.
Ends(c, a) ==
  /\ Reply(c, a)
  /\ RestoreOutput(c)
  /\ crossed' = (crossed \/ \E d \in InFlight : c \in before[d])

\* The command's module is loaded, or cannot be.
ImportReturns(c, loaded) ==
  /\ pc[c] = "importing"
  /\ IF loaded
       THEN Goto(c, "running") /\ UNCHANGED <<answer, output, crossed>>
       ELSE Ends(c, ErrorAnswer)
  /\ UNCHANGED <<previous, captured, written, aborted, before>>

\* Mutant: the command keeps the formatter of its start-up.
WriteToStdout(c) ==
  /\ pc[c] = "running"
  /\ written[c] < MaxWrites
  /\ written' = [written EXCEPT ![c] = @ + 1]
  /\ captured' = [captured EXCEPT ![Stdout] = Append(@, c)]
  /\ UNCHANGED <<pc, output, previous, answer, aborted, before, crossed>>

\* The command awaits what it needs, then writes a record.
Write(c) ==
  /\ pc[c] = "running"
  /\ written[c] < MaxWrites
  /\ written' = [written EXCEPT ![c] = @ + 1]
  /\ captured' = [captured EXCEPT ![output] = Append(@, c)]
  /\ UNCHANGED <<pc, output, previous, answer, aborted, before, crossed>>

\* The command returns: the answer is what its own buffer holds.
CommandReturns(c) ==
  /\ pc[c] = "running"
  /\ Ends(c, [kind |-> "text", text |-> captured[c]])
  /\ UNCHANGED <<previous, captured, written, aborted, before>>

CommandThrows(c) ==
  /\ pc[c] = "running"
  /\ Ends(c, ErrorAnswer)
  /\ UNCHANGED <<previous, captured, written, aborted, before>>

Abort ==
  /\ ~aborted
  /\ aborted' = TRUE
  /\ UNCHANGED <<pc, output, previous, captured, written, answer, before, crossed>>

Next ==
  \/ \E c \in Calls, kind \in RequestKinds : Call(c, kind)
  \/ \E c \in Calls, loaded \in BOOLEAN : ImportReturns(c, loaded)
  \/ \E c \in Calls : Write(c) \/ CommandReturns(c) \/ CommandThrows(c)
  \/ Abort

Spec == Init /\ [][Next]_vars

-----------------------------------------------------------------------------
(* Properties. *)

\* Every variable has its type.
TypeOK ==
  /\ pc \in [Calls -> {"idle", "importing", "running", "done"}]
  /\ output \in Sinks
  /\ previous \in [Calls -> Sinks]
  /\ captured \in [Sinks -> Seq(Calls)]
  /\ written \in [Calls -> 0..MaxWrites]
  /\ answer \in [Calls -> Answers]
  /\ aborted \in BOOLEAN /\ crossed \in BOOLEAN
  /\ before \in [Calls -> SUBSET Calls]

\* The calls whose dispatch was in flight together with that of c.
Overlapped(c) == before[c] \cup {d \in Calls : c \in before[d]}

OwnRecords(c) ==
  /\ Len(answer[c].text) = written[c]
  /\ \A i \in 1..Len(answer[c].text) : answer[c].text[i] = c

\* docs/adr/0011: "stdout carries MCP framed JSON-RPC only": no record of a
\* command reaches stdout, whether the commands before it failed or not, as long
\* as dispatches end in the reverse order of their beginning: one at a time, or
\* nested.
CleanStdout == ~crossed => captured[Stdout] = <<>>

\* The same for ctx.output: once no dispatch is in flight it is the formatter of
\* the process again, whichever way the dispatches ended.
OutputRestored == ~crossed /\ InFlight = {} => output = Stdout

\* An answer holds records of its own command and of those that were in flight
\* with it, and of no earlier or later one; a command that had the bridge to
\* itself is answered with all of its records, in order, and nothing else, even
\* when earlier calls crossed and left ctx.output at the buffer of one of them.
AnswersOwnOutput ==
  \A c \in Calls : answer[c].kind = "text" =>
    /\ \A i \in 1..Len(answer[c].text) : answer[c].text[i] \in {c} \cup Overlapped(c)
    /\ Overlapped(c) = {} => OwnRecords(c)

\* docs/adr/0011: "The capture buffer is per-call and bounded" and "Multiple
\* concurrent tool calls are allowed": every answer holds exactly its own
\* command's records, overlapping calls or not.
BuffersPerCall == \A c \in Calls : answer[c].kind = "text" => OwnRecords(c)
=============================================================================
