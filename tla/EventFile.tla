------------------------------ MODULE EventFile ------------------------------
(***************************************************************************)
(* createFileSink of packages/events/src/sinks.ts under the writer of      *)
(* writer.ts.  write only extends a chain of promises, so lines are        *)
(* appended one after the other; flush and close wait for the chain as it  *)
(* is when they are called.                                                *)
(***************************************************************************)
EXTENDS Naturals, Sequences

CONSTANTS
  Waiters,   \* calls of flush and close
  MaxLines,  \* bound on the lines written
  MayFail    \* TRUE when opening the file or appending to it may fail

VARIABLES
  written,  \* how many lines were passed to write; they are numbered
  settled,  \* how many links of the chain have settled
  opening,  \* the promise of the first open: never made, pending, open, failed
  handle,   \* the handle: none, open, closing or closed
  file,     \* the lines in the file
  waiter,   \* each flush or close: kind, state, and the chain it waits for
  failed    \* history: lines lost because the file refused

vars == <<written, settled, opening, handle, file, waiter, failed>>

NoWaiter == [kind |-> "none", state |-> "idle", mark |-> 0]

Init ==
  /\ written = 0 /\ settled = 0
  /\ opening = "never" /\ handle = "none"
  /\ file = <<>>
  /\ waiter = [w \in Waiters |-> NoWaiter]
  /\ failed = {}

Pending == settled < written

\* emit redacts and serializes a record and hands the line to write.
Write ==
  /\ written < MaxLines
  /\ written' = written + 1
  /\ UNCHANGED <<settled, opening, handle, file, waiter, failed>>

\* getHandle: the first line opens the file.
Open ==
  /\ Pending /\ opening = "never"
  /\ opening' = "pending"
  /\ UNCHANGED <<written, settled, handle, file, waiter, failed>>

Opened ==
  /\ opening = "pending"
  /\ opening' = "open" /\ handle' = "open"
  /\ UNCHANGED <<written, settled, file, waiter, failed>>

OpenFails ==
  /\ MayFail
  /\ opening = "pending"
  /\ opening' = "failed"
  /\ UNCHANGED <<written, settled, handle, file, waiter, failed>>

\* Mutant: every write appends by itself, in whatever order the file system
\* gets to it.
AppendUnchained ==
  /\ Pending /\ handle = "open"
  /\ \E n \in 1..written :
       /\ \A i \in DOMAIN file : file[i] # n
       /\ file' = Append(file, n)
  /\ settled' = settled + 1
  /\ UNCHANGED <<written, opening, handle, waiter, failed>>

AppendLine ==
  /\ Pending /\ handle = "open"
  /\ file' = Append(file, settled + 1)
  /\ settled' = settled + 1
  /\ UNCHANGED <<written, opening, handle, waiter, failed>>

\* The promise of the open is kept when it fails, so all later lines fail too; a
\* single append may fail.  The chain swallows both.
LineFails ==
  /\ Pending
  /\ opening = "failed" \/ (MayFail /\ handle = "open")
  /\ failed' = failed \cup {settled + 1}
  /\ settled' = settled + 1
  /\ UNCHANGED <<written, opening, handle, file, waiter>>

\* The promise of the open is kept by a close as well: it yields a closed handle.
LineTooLate ==
  /\ Pending
  /\ handle \in {"closing", "closed"}
  /\ settled' = settled + 1
  /\ UNCHANGED <<written, opening, handle, file, waiter, failed>>

Wait(w, kind) ==
  /\ waiter[w].state = "idle"
  /\ waiter' = [waiter EXCEPT ![w] = [kind |-> kind, state |-> "waiting", mark |-> written]]
  /\ UNCHANGED <<written, settled, opening, handle, file, failed>>

Passed(w) == waiter[w].state = "waiting" /\ settled >= waiter[w].mark
Return(w) == waiter' = [waiter EXCEPT ![w].state = "returned"]

\* Mutant: flush only syncs.
FlushAtOnce(w) ==
  /\ waiter[w].state = "waiting"
  /\ waiter[w].kind = "flush"
  /\ Return(w)
  /\ UNCHANGED <<written, settled, opening, handle, file, failed>>

\* The chain, then sync, whose failure is ignored.
Flush(w) ==
  /\ Passed(w)
  /\ waiter[w].kind = "flush"
  /\ Return(w)
  /\ UNCHANGED <<written, settled, opening, handle, file, failed>>

\* The chain, then the handle is closed if there is one.
Close(w) ==
  /\ Passed(w)
  /\ waiter[w].kind = "close"
  /\ IF handle \in {"open", "closing"}
       THEN /\ handle' = "closing"
            /\ waiter' = [waiter EXCEPT ![w].state = "closing"]
       ELSE Return(w) /\ UNCHANGED handle
  /\ UNCHANGED <<written, settled, opening, file, failed>>

Closed(w) ==
  /\ waiter[w].state = "closing"
  /\ handle' = "closed"
  /\ Return(w)
  /\ UNCHANGED <<written, settled, opening, file, failed>>

Next ==
  \/ Write \/ Open \/ Opened \/ OpenFails
  \/ AppendLine \/ LineFails \/ LineTooLate
  \/ \E w \in Waiters : Wait(w, "flush") \/ Wait(w, "close")
                        \/ Flush(w) \/ Close(w) \/ Closed(w)

Spec == Init /\ [][Next]_vars

-----------------------------------------------------------------------------
TypeOK ==
  /\ written \in Nat /\ settled \in 0..written
  /\ opening \in {"never", "pending", "open", "failed"}
  /\ handle \in {"none", "open", "closing", "closed"}
  /\ file \in Seq(1..settled)
  /\ waiter \in [Waiters -> [kind : {"none", "flush", "close"}, mark : 0..written,
                             state : {"idle", "waiting", "closing", "returned"}]]
  /\ failed \subseteq 1..settled

\* What flush and close promise: when one has returned, every line written before
\* it was called is in the file, unless the file refused it or an earlier close
\* came before the line; and the lines are in the order they were written.
LinesKept ==
  /\ \A i, j \in DOMAIN file : i < j => file[i] < file[j]
  /\ \A w \in Waiters : waiter[w].state = "returned" =>
       \A n \in 1..waiter[w].mark :
         \/ \E i \in DOMAIN file : file[i] = n
         \/ n \in failed
         \/ \E v \in Waiters : waiter[v].kind = "close" /\ waiter[v].mark < n
=============================================================================
