-------------------------- MODULE McpBridgeProofs --------------------------
(***************************************************************************)
(* Proofs about McpBridge: types, and what keeps tool calls apart: in any  *)
(* order the calls that overlap no other, and all of stdout as long as     *)
(* dispatches end in the reverse order of their beginning.                 *)
(***************************************************************************)
EXTENDS McpBridge, SequenceTheorems, TLAPS

\* A dispatch that has not begun has left no trace.
Untouched ==
  \A c \in Calls : pc[c] = "idle" =>
    /\ output # c /\ captured[c] = <<>> /\ before[c] = {}
    /\ \A d \in Calls : previous[d] # c /\ c \notin before[d]

\* Of two dispatches in flight one began while the other was.
Ordered ==
  \A c, d \in InFlight : c # d => c \in before[d] \/ d \in before[c]

\* The buffer of a dispatch in flight holds records of it and of those that
\* overlapped it; alone, it owns ctx.output and has received all of its records.
OwnBuffer(c) ==
  /\ \A i \in 1..Len(captured[c]) : captured[c][i] \in {c} \cup Overlapped(c)
  /\ Overlapped(c) = {} =>
       /\ output = c /\ Len(captured[c]) = written[c]
       /\ \A i \in 1..Len(captured[c]) : captured[c][i] = c
OwnBuffers == \A c \in InFlight : OwnBuffer(c)
OwnAnswer(c) ==
  /\ \A i \in 1..Len(answer[c].text) : answer[c].text[i] \in {c} \cup Overlapped(c)
  /\ Overlapped(c) = {} => OwnRecords(c)

\* Only a command that runs has written.
Quiet == \A c \in Calls : pc[c] \in {"idle", "importing"} => written[c] = 0
AnswersLast == \A c \in Calls : answer[c].kind = "text" => pc[c] = "done"

Apart == Untouched /\ Ordered /\ OwnBuffers /\ Quiet /\ AnswersLast /\ AnswersOwnOutput

\* s is the formatter that the last of the dispatches S to begin has set.
Top(s, S) ==
  \/ S = {} /\ s = Stdout
  \/ s \in S /\ before[s] = S \ {s}

\* Dispatches that have not crossed are a stack, and each remembers the top of
\* those below it.
Stacked ==
  /\ Top(output, InFlight)
  /\ \A c \in InFlight : before[c] \subseteq InFlight /\ c \notin before[c]
  /\ \A c \in InFlight : Top(previous[c], before[c])
Nested == ~crossed => Stacked /\ captured[Stdout] = <<>>

USE BridgeAssumption

-----------------------------------------------------------------------------
\* The types hold initially.
LEMMA TypeInit == Init => TypeOK
<1> SUFFICES ASSUME Init PROVE TypeOK
  OBVIOUS
<1>1. <<>> \in Seq(Calls)
  OBVIOUS
<1>2. captured \in [Sinks -> Seq(Calls)]
  BY <1>1 DEF Init
<1>3. answer \in [Calls -> Answers]
  BY <1>1 DEF Init, NoAnswer, Answers
<1>4. /\ pc \in [Calls -> {"idle", "importing", "running", "done"}]
      /\ output \in Sinks /\ previous \in [Calls -> Sinks]
  BY DEF Init, Sinks
<1>5. 0 \in 0..MaxWrites
  OBVIOUS
<1>6. /\ written \in [Calls -> 0..MaxWrites] /\ aborted \in BOOLEAN
      /\ crossed \in BOOLEAN /\ before \in [Calls -> SUBSET Calls]
  BY <1>5 DEF Init
<1> QED
  BY <1>2, <1>3, <1>4, <1>6 DEF TypeOK

\* Every step keeps the types.
LEMMA TypeStep == TypeOK /\ [Next]_vars => TypeOK'
<1> SUFFICES ASSUME TypeOK, [Next]_vars PROVE TypeOK'
  OBVIOUS
<1>1. ASSUME NEW c \in Calls, NEW kind \in RequestKinds, Call(c, kind)
      PROVE TypeOK'
  <2>1. ErrorAnswer \in Answers /\ [kind |-> "rejected", text |-> <<>>] \in Answers
    BY DEF ErrorAnswer, Answers
  <2>2. /\ pc' \in [Calls -> {"idle", "importing", "running", "done"}]
        /\ output' \in Sinks /\ previous' \in [Calls -> Sinks]
    BY <1>1 DEF TypeOK, Call, Reply, Goto, Sinks
  <2>3. answer' \in [Calls -> Answers]
    BY <1>1, <2>1 DEF TypeOK, Call, Reply, Goto
  <2>4. before' \in [Calls -> SUBSET Calls]
    <3>1. InFlight \in SUBSET Calls
      BY DEF InFlight
    <3> HIDE DEF InFlight
    <3> QED
      BY <1>1, <3>1 DEF TypeOK, Call
  <2> QED
    BY <1>1, <2>2, <2>3, <2>4 DEF TypeOK, Call
<1>2. ASSUME NEW c \in Calls, NEW loaded \in BOOLEAN, ImportReturns(c, loaded)
      PROVE TypeOK'
  <2>1. ErrorAnswer \in Answers
    BY DEF ErrorAnswer, Answers
  <2>2. CASE loaded
    BY <1>2, <2>2 DEF TypeOK, ImportReturns, Goto
  <2>3. CASE ~loaded
    BY <1>2, <2>1, <2>3 DEF TypeOK, ImportReturns, Ends, Reply, Goto, RestoreOutput
  <2> QED
    BY <2>2, <2>3
<1>3. ASSUME NEW c \in Calls, Write(c) PROVE TypeOK'
  <2>1. written[c] + 1 \in 0..MaxWrites
    BY <1>3 DEF TypeOK, Write
  <2>2. Append(captured[output], c) \in Seq(Calls)
    BY <1>3 DEF TypeOK
  <2>3. written' \in [Calls -> 0..MaxWrites]
    BY <1>3, <2>1 DEF TypeOK, Write
  <2>4. captured' \in [Sinks -> Seq(Calls)]
    BY <1>3, <2>2 DEF TypeOK, Write
  <2> QED
    BY <1>3, <2>3, <2>4 DEF TypeOK, Write
<1>4. ASSUME NEW c \in Calls, CommandReturns(c) PROVE TypeOK'
  BY <1>4 DEF TypeOK, CommandReturns, Ends, Reply, Goto, RestoreOutput, Sinks, Answers
<1>5. ASSUME NEW c \in Calls, CommandThrows(c) PROVE TypeOK'
  BY <1>5 DEF TypeOK, CommandThrows, Ends, Reply, Goto, RestoreOutput, ErrorAnswer, Sinks, Answers
<1>6. CASE Abort
  BY <1>6 DEF TypeOK, Abort
<1>7. CASE UNCHANGED vars
  BY <1>7 DEF TypeOK, vars
<1> QED
  BY <1>1, <1>2, <1>3, <1>4, <1>5, <1>6, <1>7 DEF Next

\* Every variable of the bridge keeps its type, overlapping calls or not.
THEOREM TypeCorrect == Spec => []TypeOK
<1> QED
  BY TypeInit, TypeStep, PTL DEF Spec

-----------------------------------------------------------------------------
\* What every kind of step does, in terms of the dispatches in flight.  A
\* request is answered at once:
Answered(c) ==
  /\ pc[c] = "idle" /\ pc' = [pc EXCEPT ![c] = "done"]
  /\ \E a \in Answers : a.kind # "text" /\ answer' = [answer EXCEPT ![c] = a]
  /\ UNCHANGED <<output, previous, captured, written, before, crossed>>

\* or a dispatch begins,
Begins(c) ==
  /\ pc[c] = "idle" /\ pc' = [pc EXCEPT ![c] = "importing"]
  /\ previous' = [previous EXCEPT ![c] = output] /\ output' = c
  /\ before' = [before EXCEPT ![c] = InFlight]
  /\ UNCHANGED <<answer, captured, written, crossed>>

\* or its module is loaded,
Loads(c) ==
  /\ pc[c] = "importing" /\ pc' = [pc EXCEPT ![c] = "running"]
  /\ UNCHANGED <<answer, output, previous, captured, written, before, crossed>>

\* or it ends, with its buffer or with an error.
Leaves(c) ==
  /\ c \in InFlight /\ pc' = [pc EXCEPT ![c] = "done"]
  /\ \E a \in Answers :
       /\ a.kind = "text" => a.text = captured[c]
       /\ answer' = [answer EXCEPT ![c] = a]
  /\ output' = previous[c]
  /\ crossed' = (crossed \/ \E d \in InFlight : c \in before[d])
  /\ UNCHANGED <<previous, captured, written, before>>

\* A step is one of these, a record written, or one that leaves all of it alone.
LEMMA StepKinds ==
  ASSUME TypeOK, [Next]_vars
  PROVE  \/ \E c \in Calls : Answered(c) \/ Begins(c) \/ Loads(c) \/ Leaves(c) \/ Write(c)
         \/ UNCHANGED <<pc, output, previous, captured, written, answer, before, crossed>>
<1>0. /\ ErrorAnswer \in Answers /\ ErrorAnswer.kind = "error"
      /\ [kind |-> "rejected", text |-> <<>>] \in Answers
      /\ \A c \in Calls : [kind |-> "text", text |-> captured[c]] \in Answers
  BY DEF ErrorAnswer, Answers, TypeOK, Sinks
<1>1. ASSUME NEW c \in Calls, NEW kind \in RequestKinds, Call(c, kind)
      PROVE Answered(c) \/ Begins(c)
  <2>1. CASE kind # "tool"
    BY <1>0, <1>1, <2>1 DEF Call, Reply, Goto, Answered
  <2>2. CASE kind = "tool" /\ aborted
    BY <1>0, <1>1, <2>2 DEF Call, Reply, Goto, Answered
  <2>3. CASE kind = "tool" /\ ~aborted
    BY <1>1, <2>3 DEF Call, Goto, Begins
  <2> QED
    BY <2>1, <2>2, <2>3 DEF TypeOK
<1>2. ASSUME NEW c \in Calls, NEW loaded \in BOOLEAN, ImportReturns(c, loaded)
      PROVE Loads(c) \/ Leaves(c)
  <2>1. CASE loaded
    BY <1>2, <2>1 DEF ImportReturns, Goto, Loads
  <2>2. CASE ~loaded
    BY <1>0, <1>2, <2>2 DEF ImportReturns, Ends, Reply, Goto, RestoreOutput, Leaves,
                            InFlight, Dispatched
  <2> QED
    BY <2>1, <2>2
<1>3. ASSUME NEW c \in Calls, CommandReturns(c) PROVE Leaves(c)
  BY <1>0, <1>3 DEF CommandReturns, Ends, Reply, Goto, RestoreOutput, Leaves, InFlight, Dispatched
<1>4. ASSUME NEW c \in Calls, CommandThrows(c) PROVE Leaves(c)
  BY <1>0, <1>4 DEF CommandThrows, Ends, Reply, Goto, RestoreOutput, Leaves, InFlight, Dispatched
<1>5. CASE Abort
  BY <1>5 DEF Abort
<1>6. CASE UNCHANGED vars
  BY <1>6 DEF vars
<1> QED
  BY <1>1, <1>2, <1>3, <1>4, <1>5, <1>6 DEF Next

-----------------------------------------------------------------------------
\* Calls are apart initially.
LEMMA ApartInit == Init => Apart
BY DEF Init, Apart, Untouched, Ordered, OwnBuffers, OwnBuffer, Quiet, AnswersLast,
       AnswersOwnOutput, InFlight, Dispatched, NoAnswer, Sinks

\* Whatever overlaps what, every step keeps them apart.
LEMMA ApartStep ==
  ASSUME TypeOK, Apart, [Next]_vars
  PROVE  Apart'
<1> USE DEF Apart
<1>1. ASSUME NEW c \in Calls, Answered(c) PROVE Apart'
  <2>1. InFlight' = InFlight
    BY <1>1 DEF Answered, InFlight, Dispatched, TypeOK
  <2>2. Untouched' /\ Quiet'
    BY <1>1 DEF Answered, Untouched, Quiet, TypeOK
  <2>3. Ordered' /\ OwnBuffers'
    BY <1>1, <2>1 DEF Answered, Ordered, OwnBuffers, OwnBuffer, Overlapped
  <2>4. AnswersLast'
    BY <1>1 DEF Answered, AnswersLast, TypeOK
  <2>5. ASSUME NEW d \in Calls, answer'[d].kind = "text" PROVE OwnAnswer(d)'
    <3>1. answer'[d] = answer[d] /\ Overlapped(d)' = Overlapped(d) /\ written' = written
      BY <1>1, <2>5 DEF Answered, Overlapped, TypeOK
    <3> QED
      BY <2>5, <3>1 DEF AnswersOwnOutput, OwnAnswer, OwnRecords
  <2> QED
    BY <2>2, <2>3, <2>4, <2>5 DEF AnswersOwnOutput, OwnAnswer
<1>2. ASSUME NEW c \in Calls, Begins(c) PROVE Apart'
  <2>1. InFlight' = InFlight \cup {c} /\ c \notin InFlight
    BY <1>2 DEF Begins, InFlight, Dispatched, TypeOK
  <2>2. /\ before'[c] = InFlight /\ \A d \in Calls \ {c} : before'[d] = before[d]
        /\ output' = c /\ captured' = captured /\ written' = written /\ answer' = answer
    BY <1>2 DEF Begins, TypeOK
  <2>3. /\ captured[c] = <<>> /\ written[c] = 0 /\ before[c] = {}
        /\ answer[c].kind # "text" /\ \A d \in Calls : c \notin before[d]
    BY <1>2 DEF Begins, Untouched, Quiet, AnswersLast
  <2>4. Untouched' /\ Quiet'
    BY <1>2, <2>1, <2>2 DEF Begins, Untouched, Quiet, InFlight, Dispatched, TypeOK
  <2>5. Ordered'
    <3>1. ASSUME NEW d \in InFlight, NEW e \in InFlight, d # e
          PROVE  d \in before'[e] \/ e \in before'[d]
      BY <2>1, <2>2, <3>1 DEF Ordered, InFlight
    <3>2. \A d \in InFlight : d \in before'[c]
      BY <2>2
    <3> QED
      BY <2>1, <3>1, <3>2 DEF Ordered
  <2>6. \A d \in Calls \ {c} : Overlapped(d) \subseteq Overlapped(d)'
    BY <2>2, <2>3 DEF Overlapped
  <2>7. \A d \in InFlight : c \in Overlapped(d)'
    BY <2>1, <2>2 DEF Overlapped
  <2>8. OwnBuffers'
    <3>1. ASSUME NEW d \in InFlight PROVE OwnBuffer(d)'
      <4>1. d # c /\ d \in Calls /\ OwnBuffer(d)
        BY <2>1 DEF OwnBuffers, InFlight
      <4> QED
        BY <2>2, <2>6, <2>7, <4>1 DEF OwnBuffer
    <3>2. OwnBuffer(c)'
      BY <2>2, <2>3 DEF OwnBuffer
    <3> QED
      BY <2>1, <3>1, <3>2 DEF OwnBuffers
  <2>9. \A d \in Calls : answer[d].kind = "text" => Overlapped(d)' = Overlapped(d)
    <3>1. ASSUME NEW d \in Calls, answer[d].kind = "text"
          PROVE  d # c /\ d \notin InFlight
      BY <2>3, <3>1 DEF AnswersLast, InFlight, Dispatched
    <3> QED
      BY <2>2, <2>3, <3>1 DEF Overlapped
  <2>10. AnswersLast' /\ AnswersOwnOutput'
    BY <1>2, <2>2, <2>3, <2>9 DEF Begins, AnswersLast, AnswersOwnOutput, OwnRecords, TypeOK
  <2> QED
    BY <2>4, <2>5, <2>8, <2>10
<1>3. ASSUME NEW c \in Calls, Loads(c) PROVE Apart'
  <2>1. InFlight' = InFlight
    BY <1>3 DEF Loads, InFlight, Dispatched, TypeOK
  <2>2. Untouched' /\ Quiet'
    BY <1>3 DEF Loads, Untouched, Quiet, TypeOK
  <2>3. Ordered' /\ OwnBuffers'
    BY <1>3, <2>1 DEF Loads, Ordered, OwnBuffers, OwnBuffer, Overlapped
  <2>4. AnswersLast'
    BY <1>3 DEF Loads, AnswersLast, TypeOK
  <2>5. ASSUME NEW d \in Calls, answer'[d].kind = "text" PROVE OwnAnswer(d)'
    <3>1. answer'[d] = answer[d] /\ Overlapped(d)' = Overlapped(d) /\ written' = written
      BY <1>3, <2>5 DEF Loads, Overlapped, TypeOK
    <3> QED
      BY <2>5, <3>1 DEF AnswersOwnOutput, OwnAnswer, OwnRecords
  <2> QED
    BY <2>2, <2>3, <2>4, <2>5 DEF AnswersOwnOutput, OwnAnswer
<1>4. ASSUME NEW c \in Calls, Leaves(c) PROVE Apart'
  <2>1. InFlight' = InFlight \ {c} /\ pc[c] # "idle" /\ pc[c] # "done"
    BY <1>4 DEF Leaves, InFlight, Dispatched, TypeOK
  <2>2. /\ previous' = previous /\ before' = before /\ captured' = captured
        /\ written' = written /\ output' = previous[c]
        /\ \A d \in Calls \ {c} : pc'[d] = pc[d] /\ answer'[d] = answer[d]
        /\ pc'[c] = "done"
    BY <1>4 DEF Leaves, TypeOK
  <2>3. \A d \in Calls : Overlapped(d)' = Overlapped(d)
    BY <2>2 DEF Overlapped
  <2>4. Untouched' /\ Quiet' /\ AnswersLast'
    BY <2>1, <2>2 DEF Untouched, Quiet, AnswersLast
  <2>5. Ordered'
    BY <2>1, <2>2 DEF Ordered
  <2>6. \A d \in InFlight \ {c} : Overlapped(d) # {}
    BY <1>4 DEF Leaves, Ordered, Overlapped, InFlight
  <2>7. OwnBuffers'
    <3>1. ASSUME NEW d \in InFlight \ {c} PROVE OwnBuffer(d)'
      <4>1. d \in Calls /\ OwnBuffer(d) /\ Overlapped(d)' = Overlapped(d) /\ Overlapped(d) # {}
        BY <2>3, <2>6 DEF OwnBuffers, InFlight
      <4> QED
        BY <2>2, <4>1 DEF OwnBuffer
    <3> QED
      BY <2>1, <3>1 DEF OwnBuffers
  <2>8. c \in InFlight /\ answer'[c].kind = "text" => answer'[c].text = captured[c]
    BY <1>4 DEF Leaves, TypeOK
  <2>9. AnswersOwnOutput'
    <3>1. ASSUME NEW d \in Calls, answer'[d].kind = "text"
          PROVE  /\ \A i \in 1..Len(answer'[d].text) :
                      answer'[d].text[i] \in {d} \cup Overlapped(d)
                 /\ Overlapped(d) = {} => OwnRecords(d)'
      <4>1. CASE d = c
        <5>1. answer'[d].text = captured[d] /\ d \in InFlight
          BY <1>4, <2>8, <3>1, <4>1 DEF Leaves
        <5> QED
          BY <2>2, <5>1 DEF OwnBuffers, OwnBuffer, OwnRecords
      <4>2. CASE d # c
        BY <2>2, <3>1, <4>2 DEF AnswersOwnOutput, OwnRecords
      <4> QED
        BY <4>1, <4>2
    <3> QED
      BY <2>3, <3>1 DEF AnswersOwnOutput
  <2> QED
    BY <2>4, <2>5, <2>7, <2>9
<1>5. ASSUME NEW c \in Calls, Write(c) PROVE Apart'
  <2>1. /\ pc' = pc /\ output' = output /\ previous' = previous
        /\ answer' = answer /\ before' = before
        /\ written' = [written EXCEPT ![c] = @ + 1]
        /\ captured' = [captured EXCEPT ![output] = Append(@, c)]
        /\ pc[c] = "running" /\ c \in InFlight
    BY <1>5 DEF Write, InFlight, Dispatched
  <2>2. InFlight' = InFlight /\ \A d \in Calls : Overlapped(d)' = Overlapped(d)
    BY <2>1 DEF InFlight, Dispatched, Overlapped
  <2>3. Untouched' /\ Quiet' /\ AnswersLast' /\ Ordered'
    BY <2>1, <2>2 DEF Untouched, Quiet, AnswersLast, Ordered, TypeOK, Sinks
  <2>4. AnswersOwnOutput'
    BY <2>1, <2>2 DEF AnswersOwnOutput, AnswersLast, OwnRecords, TypeOK
  <2>5. ASSUME NEW d \in InFlight
        PROVE  OwnBuffer(d)'
    <3>0. d \in Calls /\ captured[d] \in Seq(Calls) /\ written[d] \in Nat
      BY DEF InFlight, TypeOK, Sinks
    <3>1. c \in {d} \cup Overlapped(d)
      BY <2>1 DEF Ordered, Overlapped, InFlight
    <3>2. CASE output = d
      <4>1. captured'[d] = Append(captured[d], c)
        BY <2>1, <3>0, <3>2 DEF TypeOK
      <4>2. Overlapped(d) = {} => c = d /\ written'[d] = written[d] + 1
        BY <2>1, <3>0, <3>1 DEF TypeOK
      <4>3. \A i \in 1..Len(captured'[d]) : captured'[d][i] \in {d} \cup Overlapped(d)
        BY <3>0, <3>1, <4>1 DEF OwnBuffers, OwnBuffer
      <4>4. Overlapped(d) = {} => Len(captured'[d]) = written'[d]
        BY <3>0, <4>1, <4>2 DEF OwnBuffers, OwnBuffer
      <4>5. Overlapped(d) = {} => \A i \in 1..Len(captured'[d]) : captured'[d][i] = d
        BY <3>0, <4>1, <4>2 DEF OwnBuffers, OwnBuffer
      <4> QED
        BY <2>1, <2>2, <3>0, <3>2, <4>3, <4>4, <4>5 DEF OwnBuffer
    <3>3. CASE output # d
      <4>1. captured'[d] = captured[d] /\ OwnBuffer(d) /\ Overlapped(d) # {}
        BY <2>1, <3>0, <3>3 DEF OwnBuffers, OwnBuffer, TypeOK, Sinks
      <4> QED
        BY <2>1, <2>2, <3>0, <4>1 DEF OwnBuffer
    <3> QED
      BY <3>2, <3>3
  <2>6. OwnBuffers'
    BY <2>2, <2>5 DEF OwnBuffers
  <2> QED
    BY <2>3, <2>4, <2>6
<1>6. CASE UNCHANGED <<pc, output, previous, captured, written, answer, before, crossed>>
  BY <1>6 DEF Untouched, Ordered, OwnBuffers, Quiet, AnswersLast, AnswersOwnOutput,
              OwnBuffer, InFlight, Dispatched, Overlapped, OwnRecords
<1> QED
  BY <1>1, <1>2, <1>3, <1>4, <1>5, <1>6, StepKinds

\* In any interleaving an answer holds records of its own command and of those in
\* flight with it only, and a command that had the bridge to itself is answered with
\* all of its records, in order, and nothing else, even after others have crossed
\* (withCapturedOutput of mcp/captured-sink.ts).
THEOREM AnswersAreOwn == Spec => []AnswersOwnOutput
<1>1. TypeOK /\ Apart /\ [Next]_vars => (TypeOK /\ Apart)'
  BY TypeStep, ApartStep
<1>2. Apart => AnswersOwnOutput
  BY DEF Apart
<1> QED
  BY TypeInit, ApartInit, <1>1, <1>2, PTL DEF Spec

-----------------------------------------------------------------------------
\* No dispatch is in flight initially, and stdout is clean.
LEMMA NestedInit == Init => Nested
BY DEF Init, Nested, Stacked, Top, InFlight, Dispatched, Sinks

\* Every step keeps the stack, or crosses.
LEMMA NestedStep ==
  ASSUME TypeOK, Untouched, Nested, [Next]_vars
  PROVE  Nested'
<1> SUFFICES ASSUME ~crossed' PROVE Stacked' /\ captured'[Stdout] = <<>>
  BY DEF Nested
<1>0. Stdout \notin InFlight /\ InFlight \subseteq Calls
  BY DEF InFlight
<1>1. ASSUME NEW c \in Calls, Answered(c) PROVE Stacked' /\ captured'[Stdout] = <<>>
  <2>1. InFlight' = InFlight
    BY <1>1 DEF Answered, InFlight, Dispatched, TypeOK
  <2> QED
    BY <1>1, <2>1 DEF Answered, Nested, Stacked, Top
<1>2. ASSUME NEW c \in Calls, Begins(c) PROVE Stacked' /\ captured'[Stdout] = <<>>
  <2>1. InFlight' = InFlight \cup {c} /\ c \notin InFlight
    BY <1>2 DEF Begins, InFlight, Dispatched, TypeOK
  <2>2. /\ before'[c] = InFlight /\ \A d \in Calls \ {c} : before'[d] = before[d]
        /\ previous'[c] = output /\ \A d \in Calls \ {c} : previous'[d] = previous[d]
        /\ output' = c /\ captured' = captured
    BY <1>2 DEF Begins, TypeOK
  <2>3. Stacked /\ captured[Stdout] = <<>>
    BY <1>2 DEF Begins, Nested
  <2>4. \A d \in InFlight : d # c /\ previous[d] # c /\ c \notin before[d]
    BY <1>2, <2>1 DEF Begins, Untouched, InFlight
  <2>5. Top(output, InFlight)'
    BY <2>1, <2>2 DEF Top
  <2>6. \A d \in InFlight' : (before[d] \subseteq InFlight /\ d \notin before[d])'
    BY <1>0, <2>1, <2>2, <2>3 DEF Stacked
  <2>7. Top(previous[c], before[c])'
    BY <1>0, <2>1, <2>2, <2>3 DEF Stacked, Top
  <2>8. \A d \in InFlight : Top(previous[d], before[d])'
    BY <1>0, <2>2, <2>3, <2>4 DEF Stacked, Top
  <2> QED
    BY <2>1, <2>2, <2>3, <2>5, <2>6, <2>7, <2>8 DEF Nested, Stacked
<1>3. ASSUME NEW c \in Calls, Loads(c) PROVE Stacked' /\ captured'[Stdout] = <<>>
  <2>1. InFlight' = InFlight
    BY <1>3 DEF Loads, InFlight, Dispatched, TypeOK
  <2> QED
    BY <1>3, <2>1 DEF Loads, Nested, Stacked, Top
<1>4. ASSUME NEW c \in Calls, Leaves(c) PROVE Stacked' /\ captured'[Stdout] = <<>>
  <2>1. InFlight' = InFlight \ {c} /\ c \in InFlight
    BY <1>4 DEF Leaves, InFlight, Dispatched, TypeOK
  <2>2. /\ previous' = previous /\ before' = before /\ captured' = captured
        /\ output' = previous[c]
        /\ ~crossed /\ \A d \in InFlight : c \notin before[d]
    BY <1>4 DEF Leaves, TypeOK
  <2>3. Stacked /\ captured[Stdout] = <<>>
    BY <2>2 DEF Nested
  <2>4. output = c
    BY <2>1, <2>2, <2>3 DEF Stacked, Top
  <2>5. before[c] = InFlight \ {c}
    BY <1>0, <2>1, <2>3, <2>4 DEF Stacked, Top
  <2> QED
    BY <2>1, <2>2, <2>3, <2>5 DEF Stacked, Top
<1>5. ASSUME NEW c \in Calls, Write(c) PROVE Stacked' /\ captured'[Stdout] = <<>>
  <2>1. c \in InFlight /\ InFlight' = InFlight
    BY <1>5 DEF Write, InFlight, Dispatched
  <2>2. Stacked /\ captured[Stdout] = <<>>
    BY <1>5 DEF Write, Nested
  <2>3. output # Stdout
    BY <1>0, <2>1, <2>2 DEF Stacked, Top
  <2>4. captured'[Stdout] = <<>>
    BY <1>5, <2>2, <2>3 DEF Write, TypeOK, Sinks
  <2> QED
    BY <1>5, <2>1, <2>2, <2>4 DEF Write, Stacked, Top
<1>6. CASE UNCHANGED <<pc, output, previous, captured, written, answer, before, crossed>>
  BY <1>6 DEF Nested, Stacked, Top, InFlight, Dispatched
<1> QED
  BY <1>1, <1>2, <1>3, <1>4, <1>5, <1>6, StepKinds

\* The stack is an invariant.
LEMMA StackInvariant == Spec => []Nested
<1>1. TypeOK /\ Apart /\ Nested /\ [Next]_vars => (TypeOK /\ Apart /\ Nested)'
  BY TypeStep, ApartStep, NestedStep DEF Apart
<1> QED
  BY TypeInit, ApartInit, NestedInit, <1>1, PTL DEF Spec

\* As long as dispatches end in the reverse order of their beginning, no record of a
\* command reaches stdout, for any number of calls and records, whether commands
\* fail or not (withCapturedOutput of mcp/captured-sink.ts).
THEOREM StdoutStaysClean == Spec => []CleanStdout
<1>1. Nested => CleanStdout
  BY DEF Nested, CleanStdout
<1> QED
  BY StackInvariant, <1>1, PTL

\* And whichever way the dispatches ended, the formatter of the process is back when
\* none is in flight.
THEOREM OutputComesBack == Spec => []OutputRestored
<1>1. Nested => OutputRestored
  BY DEF Nested, Stacked, Top, OutputRestored
<1> QED
  BY StackInvariant, <1>1, PTL
=============================================================================
