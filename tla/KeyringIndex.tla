----------------------------- MODULE KeyringIndex -----------------------------
(***************************************************************************)
(* packages/secrets/src/keyring.ts: secrets in the operating system's      *)
(* keyring, which cannot be listed, and beside it a file with their names. *)
(* Nothing is locked; the MCP server runs several calls in one process,    *)
(* and the index's temporary file is named after the process.              *)
(***************************************************************************)
CONSTANTS
  Calls,  \* calls on the store
  Home,   \* the process of each call
  Asked,  \* the jobs each call may be given: [op, name]
  Names   \* names of secrets

VARIABLES
  keyring,    \* names with an entry in the OS keyring (external)
  index,      \* the index file: "half" or a set of names
  tmp,        \* the temporary file of each process, likewise, or "absent"
  into,       \* where the file is that a call has open: still the temporary one,
              \* the index since another call renamed it, or gone
  pc,         \* what each call does next
  job,        \* what it was asked
  mem,        \* the names it has read and will write
  listing,    \* the answer of a list
  stale,      \* history: calls whose names were written over since read
  clobbered,  \* history: a call wrote names it had read before such a write
  mixed,      \* history: names two calls changed at the same time
  cut,        \* history: names a call on which stopped half way
  shared      \* history: two calls wrote one temporary file at the same time

history == <<stale, clobbered, mixed, cut, shared>>
vars == <<keyring, index, tmp, into, pc, job, mem, listing, history>>

Procs == {Home[c] : c \in Calls}
Whole(names) == [state |-> "whole", names |-> names]
Half == [state |-> "half", names |-> {}]
Absent == [state |-> "absent", names |-> {}]
NoJob == [op |-> "none", name |-> "none"]

Init ==
  /\ keyring \in SUBSET Names
  /\ index = IF keyring = {} THEN Absent ELSE Whole(keyring)
  /\ tmp = [p \in Procs |-> Absent]
  /\ into = [c \in Calls |-> "none"]
  /\ pc = [c \in Calls |-> "idle"]
  /\ job = [c \in Calls |-> NoJob]
  /\ mem = [c \in Calls |-> {}]
  /\ listing = [c \in Calls |-> {}]
  /\ stale = {} /\ clobbered = FALSE /\ mixed = {} /\ cut = {} /\ shared = FALSE

Changing == {"reading", "opening", "filling", "renaming"}
Writing == {"filling", "renaming"}
Active(c) == pc[c] \in Changing \cup {"listing"}
Goto(c, where) == pc' = [pc EXCEPT ![c] = where]
\* The temporary file of a call is that of its process.
TmpOf(c) == tmp[Home[c]]
SetTmp(c, content) == tmp' = [tmp EXCEPT ![Home[c]] = content]

\* setPassword and deletePassword do not wait: the entry changes with the call.
Begin(c, j) ==
  /\ pc[c] = "idle"
  /\ job' = [job EXCEPT ![c] = j]
  /\ IF j.op = "list"
       THEN Goto(c, "listing") /\ UNCHANGED <<keyring, mixed>>
       ELSE /\ keyring' = IF j.op = "set" THEN keyring \cup {j.name}
                                         ELSE keyring \ {j.name}
            /\ mixed' = IF \E d \in Calls : pc[d] \in Changing /\ job[d].name = j.name
                          THEN mixed \cup {j.name} ELSE mixed
            /\ Goto(c, "reading")
  /\ UNCHANGED <<index, tmp, into, mem, listing, stale, clobbered, cut, shared>>

\* The keyring refuses: nothing is changed.
Refuse(c, j) ==
  /\ pc[c] = "idle"
  /\ j.op # "list"
  /\ job' = [job EXCEPT ![c] = j]
  /\ Goto(c, "ended")
  /\ UNCHANGED <<keyring, index, tmp, into, mem, listing, history>>

\* readIndex: a missing file is empty, and one that does not parse throws.
ReadIndex(c) ==
  /\ pc[c] = "reading"
  /\ index # Half
  /\ LET name == job[c].name
     IN IF job[c].op = "set" /\ name \in index.names
          THEN Goto(c, "ended") /\ UNCHANGED mem
          ELSE /\ Goto(c, "opening")
               /\ mem' = [mem EXCEPT ![c] =
                    IF job[c].op = "set" THEN index.names \cup {name}
                                         ELSE index.names \ {name}]
  /\ stale' = stale \ {c}
  /\ UNCHANGED <<keyring, index, tmp, into, job, listing, clobbered, mixed, cut,
                 shared>>

\* writeFile truncates the temporary file before it fills it.
OpenTmp(c) ==
  /\ pc[c] = "opening"
  /\ SetTmp(c, Half)
  /\ into' = [into EXCEPT ![c] = "tmp"]
  /\ shared' = (shared \/ \E d \in Calls \ {c} : Home[d] = Home[c] /\ pc[d] \in Writing)
  /\ Goto(c, "filling")
  /\ UNCHANGED <<keyring, index, job, mem, listing, stale, clobbered, mixed, cut>>

\* What names leave in a file they are written into: more than themselves, if the
\* file held more.
Written(content, names) ==
  {Whole(names)} \cup (IF content.state = "whole" THEN {Half} ELSE {})

\* The names go into the file that was opened, wherever it is by now.
FillTmp(c) ==
  /\ pc[c] = "filling"
  /\ CASE into[c] = "tmp" ->
            UNCHANGED index /\ \E content \in Written(TmpOf(c), mem[c]) : SetTmp(c, content)
       [] into[c] = "index" -> UNCHANGED tmp /\ index' \in Written(index, mem[c])
       [] OTHER -> UNCHANGED <<index, tmp>>
  /\ into' = [into EXCEPT ![c] = "none"]
  /\ Goto(c, "renaming")
  /\ UNCHANGED <<keyring, job, mem, listing, history>>

\* A rename by c: the temporary file takes the place of the index.
Moved(c) ==
  [d \in Calls |-> CASE into[d] = "index" -> "gone"
                     [] into[d] = "tmp" /\ Home[d] = Home[c] -> "index"
                     [] OTHER -> into[d]]

\* Mutant: a set writes back the name alone.
RenameAlone(c) ==
  /\ pc[c] = "renaming"
  /\ index' = Whole({job[c].name})
  /\ SetTmp(c, Absent) /\ into' = Moved(c)
  /\ stale' = stale \cup (Calls \ {c})
  /\ clobbered' = (clobbered \/ c \in stale)
  /\ Goto(c, "ended")
  /\ UNCHANGED <<keyring, job, mem, listing, mixed, cut, shared>>

\* rename publishes what the process's temporary file holds by now.
Rename(c) ==
  /\ pc[c] = "renaming"
  /\ TmpOf(c) # Absent
  /\ index' = TmpOf(c)
  /\ SetTmp(c, Absent) /\ into' = Moved(c)
  /\ stale' = stale \cup (Calls \ {c})
  /\ clobbered' = (clobbered \/ c \in stale)
  /\ Goto(c, "ended")
  /\ UNCHANGED <<keyring, job, mem, listing, mixed, cut, shared>>

List(c) ==
  /\ pc[c] = "listing"
  /\ index # Half
  /\ listing' = [listing EXCEPT ![c] = index.names]
  /\ Goto(c, "ended")
  /\ UNCHANGED <<keyring, index, tmp, into, job, mem, history>>

\* The process dies, or an operation on the files fails: a temporary file that
\* another call renamed away, an index that does not parse, a full disk.
Stop(c) ==
  /\ Active(c)
  /\ Goto(c, "stopped")
  /\ cut' = cut \cup {job[c].name}
  /\ into' = [into EXCEPT ![c] = "none"]
  /\ UNCHANGED <<keyring, index, tmp, job, mem, listing, stale, clobbered, mixed, shared>>

Next == \E c \in Calls :
  \/ \E j \in Asked[c] : Begin(c, j) \/ Refuse(c, j)
  \/ ReadIndex(c) \/ OpenTmp(c) \/ FillTmp(c) \/ Rename(c)
  \/ List(c)
  \/ Stop(c)

Spec == Init /\ [][Next]_vars

-----------------------------------------------------------------------------
Contents == [state : {"whole", "half", "absent"}, names : SUBSET Names]

TypeOK ==
  /\ keyring \subseteq Names
  /\ index \in Contents
  /\ pc \in [Calls -> {"idle", "listing", "ended", "stopped"} \cup Changing]
  /\ into \in [Calls -> {"none", "tmp", "index", "gone"}]
  /\ \A c \in Calls : mem[c] \subseteq Names
  /\ stale \subseteq Calls

\* A list tells what the keyring holds: a name is in the index exactly when it
\* has an entry, and the index can be read.  The exceptions are a call on that
\* name that is under way, was cut short, or overlapped another on the name, and
\* the two races the code leaves open: an index written over, or a temporary
\* file written by two calls.
IndexTrue ==
  clobbered \/ shared \/
    /\ index.state # "half"
    /\ \A n \in Names :
         \/ n \in keyring <=> n \in index.names
         \/ n \in mixed \cup cut
         \/ \E c \in Calls : pc[c] \in Changing /\ job[c].name = n
=============================================================================
