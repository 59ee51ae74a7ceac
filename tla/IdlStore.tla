------------------------------- MODULE IdlStore -------------------------------
(***************************************************************************)
(* operations/idl-load.ts and commands/idl: IDLs cached one file per       *)
(* program, and a labels file that names programs.  Every command is a     *)
(* process; nothing is locked.  An action is one operation on a file, or a *)
(* run of code without one.  A file is replaced by a rename, so readers    *)
(* find all of it or none; a command may stop before any of its steps,     *)
(* because the process dies or the operation fails.                        *)
(***************************************************************************)
EXTENDS IdlEncode

CONSTANTS
  Cmds,          \* the commands that run
  Pids,          \* well-formed program ids
  Labels,        \* labels, and names IDLs declare
  short,         \* shortLabel of each program
  Idls,          \* the IDLs there are
  metadataName,  \* the name each declares, or "none"
  instructions,  \* the instructions of each; a name is its pieces between dots
  dotted,        \* of each label the pieces between its dots, in lower case
  lower(_),      \* a piece of a name in lower case
  Asked          \* the jobs each command may be given

NoLabel == "none"
Absent == "absent"
\* What loadIdl may come upon instead of an IDL.
BadSources == {"unreadable", "not JSON", "not an IDL", "on chain"}
Modes == {"plan", "simulate", "execute", "both"}

ASSUME NamesAssumption ==
  /\ NoLabel \notin Labels \cup Pids
  /\ Absent \notin Idls
  /\ Labels \cap Pids = {}
  /\ Idls \cap BadSources = {}
IsSequence(s) == s \in Seq({s[n] : n \in DOMAIN s})
ASSUME IdlAssumption ==
  /\ short \in [Pids -> Labels]
  /\ metadataName \in [Idls -> Labels \cup {NoLabel}]
  /\ DOMAIN instructions = Idls
  /\ \A i \in Idls :
       /\ IsSequence(instructions[i])
       /\ \A k \in DOMAIN instructions[i] :
            LET ix == instructions[i][k]
            IN /\ IsSequence(ix.args) /\ IsSequence(ix.accounts)
               /\ \A n \in DOMAIN ix.args : ix.args[n].type \in Types
ASSUME JobsAssumption ==
  \A c \in Cmds : \A j \in Asked[c] :
    /\ j.op \in {"add", "list", "remove", "call"}
    /\ j.op = "add" => /\ j.source \in Idls \cup BadSources
                       /\ j.label \in Labels \cup {NoLabel}
    /\ j.op \in {"remove", "call"} => j.ref \in Pids \cup Labels /\ j.mode \in Modes
    /\ j.op = "remove" => j.mode = "plan"
    /\ j.op = "call" => \A f \in DOMAIN j.flags : j.flags[f] \in Raws

VARIABLES
  files,      \* the cached IDL of each program
  labels,     \* the labels file
  pc,         \* what each command does next
  job,        \* what it was asked
  pid,        \* the program it works on, once that is known
  mem,        \* the labels it has read
  todo,       \* file names of its listing still to be read
  entries,    \* its listing so far, or the IDL of its call
  outcome,    \* what it printed
  given,      \* history: the label acknowledged last for a program still cached
  stale,      \* history: commands whose labels were written over since read
  clobbered,  \* history: a command wrote labels it had read before such a write
  mixed,      \* history: programs two commands changed at the same time
  cut         \* history: programs a removal of which stopped half way

history == <<given, stale, clobbered, mixed, cut>>
work == <<job, pid, mem, todo, entries, outcome>>
idlVars == <<files, labels, pc, work, history>>

NoPid == "none"
NoLabels == [p \in Pids |-> NoLabel]
NoJob == [op |-> "none"]
NoOutcome == [ok |-> FALSE, code |-> "none"]
Done == [ok |-> TRUE, code |-> "none"]

IdlInit ==
  /\ files \in [Pids -> Idls \cup {Absent}]
  /\ labels \in {l \in [Pids -> Labels \cup {NoLabel}] :
                   \A p \in Pids : files[p] = Absent => l[p] = NoLabel}
  /\ pc = [c \in Cmds |-> "idle"]
  /\ job = [c \in Cmds |-> NoJob]
  /\ pid = [c \in Cmds |-> NoPid]
  /\ mem = [c \in Cmds |-> NoLabels]
  /\ todo = [c \in Cmds |-> {}]
  /\ entries = [c \in Cmds |-> {}]
  /\ outcome = [c \in Cmds |-> NoOutcome]
  /\ given = labels
  /\ stale = {} /\ clobbered = FALSE /\ mixed = {} /\ cut = {}

Ended == {"ended", "stopped"}
Active(c) == pc[c] \notin Ended \cup {"idle"}
Goto(c, where) == pc' = [pc EXCEPT ![c] = where]
Finish(c, answer) == Goto(c, "ended") /\ outcome' = [outcome EXCEPT ![c] = answer]

\* An add works on its program from the start, a removal once it is resolved.
Changing == {"loading", "storing", "labelling", "relabelling",
             "removing", "unlinking", "unlabelling"}
\* A command that changes p starts on it.
Engage(c, p) ==
  mixed' = IF \E d \in Cmds \ {c} : pc[d] \in Changing /\ pid[d] = p
             THEN mixed \cup {p} ELSE mixed

\* The label a program is shown under.
shown(names, p, idl) ==
  CASE names[p] # NoLabel -> names[p]
    [] names[p] = NoLabel /\ metadataName[idl] # NoLabel -> metadataName[idl]
    [] OTHER -> short[p]

-----------------------------------------------------------------------------
(* The commands start. *)

\* What an operation does first: an id needs no resolving, a label does.
Begin(c, j) ==
  /\ pc[c] = "idle"
  /\ job' = [job EXCEPT ![c] = j]
  /\ CASE j.op = "add" /\ j.pid \notin Pids ->
            Finish(c, Refusal("VALIDATION")) /\ UNCHANGED <<pid, mixed>>
       [] j.op = "call" /\ j.mode = "both" ->
            Finish(c, Refusal("USAGE")) /\ UNCHANGED <<pid, mixed>>
       [] j.op = "add" /\ j.pid \in Pids ->
            /\ Goto(c, "loading") /\ Engage(c, j.pid)
            /\ pid' = [pid EXCEPT ![c] = j.pid]
            /\ UNCHANGED outcome
       [] j.op = "remove" /\ j.ref \in Pids ->
            /\ Goto(c, "removing") /\ Engage(c, j.ref)
            /\ pid' = [pid EXCEPT ![c] = j.ref]
            /\ UNCHANGED outcome
       [] j.op = "call" /\ j.mode # "both" /\ j.ref \in Pids ->
            /\ Goto(c, "calling")
            /\ pid' = [pid EXCEPT ![c] = j.ref]
            /\ UNCHANGED <<outcome, mixed>>
       [] j.op \in {"remove", "call"} /\ j.mode # "both" /\ j.ref \notin Pids ->
            Goto(c, "resolving") /\ UNCHANGED <<pid, outcome, mixed>>
       [] j.op = "list" -> Goto(c, "listing") /\ UNCHANGED <<pid, outcome, mixed>>
  /\ UNCHANGED <<files, labels, mem, todo, entries, given, stale, clobbered, cut>>

\* The program is known: the removal or the call goes on with it.
Resolved(c, p) ==
  /\ pid' = [pid EXCEPT ![c] = p]
  /\ IF job[c].op = "remove" THEN Goto(c, "removing") /\ Engage(c, p)
                             ELSE Goto(c, "calling") /\ UNCHANGED mixed

\* resolveProgramId: the labels file decides; two programs may share a label, and
\* then the one that was labelled first wins.  Otherwise the listing is searched.
Resolve(c) ==
  /\ pc[c] = "resolving"
  /\ \/ \E p \in Pids : labels[p] = job[c].ref /\ Resolved(c, p)
     \/ /\ \A p \in Pids : labels[p] # job[c].ref
        /\ Goto(c, "listing")
        /\ UNCHANGED <<pid, mixed>>
  /\ UNCHANGED <<files, labels, job, mem, todo, entries, outcome, given, stale,
                 clobbered, cut>>

-----------------------------------------------------------------------------
(* idlList. *)

\* readdir; the labels file and the temporary files have other names.
ReadDir(c) ==
  /\ pc[c] = "listing"
  /\ todo' = [todo EXCEPT ![c] = {p \in Pids : files[p] # Absent}]
  /\ Goto(c, "listing labels")
  /\ UNCHANGED <<files, labels, job, pid, mem, entries, outcome, history>>

ListLabels(c) ==
  /\ pc[c] = "listing labels"
  /\ mem' = [mem EXCEPT ![c] = labels]
  /\ Goto(c, "listing files")
  /\ UNCHANGED <<files, labels, job, pid, todo, entries, outcome, history>>

\* One file of the directory; one that is gone by now is passed over.
ListFile(c, p) ==
  /\ pc[c] = "listing files"
  /\ p \in todo[c]
  /\ todo' = [todo EXCEPT ![c] = @ \ {p}]
  /\ entries' = IF files[p] = Absent THEN entries
                ELSE [entries EXCEPT ![c] = @ \cup
                       {[pid |-> p, label |-> shown(mem[c], p, files[p]),
                        idl |-> files[p]]}]
  /\ UNCHANGED <<files, labels, pc, job, pid, mem, outcome, history>>

\* The listing is complete: it is the answer, or a label is looked up in it.
Listed(c) ==
  /\ pc[c] = "listing files"
  /\ todo[c] = {}
  /\ IF job[c].op = "list"
       THEN Finish(c, Done) /\ UNCHANGED <<pid, mixed>>
       ELSE \/ /\ \E e \in entries[c] : e.label = job[c].ref /\ Resolved(c, e.pid)
               /\ UNCHANGED outcome
            \/ /\ \A e \in entries[c] : e.label # job[c].ref
               /\ Finish(c, Refusal("IDL_NOT_FOUND"))
               /\ UNCHANGED <<pid, mixed>>
  /\ UNCHANGED <<files, labels, job, mem, todo, entries, given, stale, clobbered,
                 cut>>

-----------------------------------------------------------------------------
(* Labels are read, changed in memory and written back. *)

\* A write of the labels file takes effect for everybody who reads later.
WriteLabels(c, names) ==
  /\ labels' = names
  /\ clobbered' = (clobbered \/ c \in stale)
  /\ stale' = stale \cup (Cmds \ {c})

ReadLabels(c, next) ==
  /\ mem' = [mem EXCEPT ![c] = labels]
  /\ stale' = stale \ {c}
  /\ Goto(c, next)

-----------------------------------------------------------------------------
(* idlAdd. *)

\* loadIdl and validateIdl.  No fetcher is wired, so an IDL comes from a file.
Load(c) ==
  /\ pc[c] = "loading"
  /\ CASE job[c].source = "unreadable" -> Finish(c, Refusal("IO"))
       [] job[c].source \in {"not JSON", "not an IDL"} -> Finish(c, Refusal("VALIDATION"))
       [] job[c].source = "on chain" -> Finish(c, Refusal("IDL_NOT_FOUND"))
       [] OTHER -> Goto(c, "storing") /\ UNCHANGED outcome
  /\ UNCHANGED <<files, labels, job, pid, mem, todo, entries, history>>

\* The rename at the end of atomicWriteFile.
StoreIdl(c) ==
  /\ pc[c] = "storing"
  /\ files' = [files EXCEPT ![pid[c]] = job[c].source]
  /\ Goto(c, "labelling")
  /\ UNCHANGED <<labels, work, history>>

\* The labels are read in any case, and written only when a label was given.
AddReadsLabels(c) ==
  /\ pc[c] = "labelling"
  /\ ReadLabels(c, IF job[c].label = NoLabel THEN "ended" ELSE "relabelling")
  /\ outcome' = IF job[c].label = NoLabel THEN [outcome EXCEPT ![c] = Done] ELSE outcome
  /\ UNCHANGED <<files, labels, job, pid, todo, entries, given, clobbered, mixed, cut>>

\* Mutant: the file is written with the new label only.
RelabelAlone(c) ==
  /\ pc[c] = "relabelling"
  /\ WriteLabels(c, [NoLabels EXCEPT ![pid[c]] = job[c].label])
  /\ given' = [given EXCEPT ![pid[c]] = job[c].label]
  /\ Finish(c, Done)
  /\ UNCHANGED <<files, job, pid, mem, todo, entries, mixed, cut>>

Relabel(c) ==
  /\ pc[c] = "relabelling"
  /\ WriteLabels(c, [mem[c] EXCEPT ![pid[c]] = job[c].label])
  /\ given' = [given EXCEPT ![pid[c]] = job[c].label]
  /\ Finish(c, Done)
  /\ UNCHANGED <<files, job, pid, mem, todo, entries, mixed, cut>>

-----------------------------------------------------------------------------
(* idlRemove. *)

\* The labels are read before the file is deleted.
RemoveReadsLabels(c) ==
  /\ pc[c] = "removing"
  /\ ReadLabels(c, "unlinking")
  /\ UNCHANGED <<files, labels, job, pid, todo, entries, outcome, given, clobbered,
                 mixed, cut>>

\* Mutant: the label of a removed program stays.
UnlinkOnly(c) ==
  /\ pc[c] = "unlinking"
  /\ files' = [files EXCEPT ![pid[c]] = Absent]
  /\ given' = [given EXCEPT ![pid[c]] = NoLabel]
  /\ Finish(c, Done)
  /\ UNCHANGED <<labels, job, pid, mem, todo, entries, stale, clobbered, mixed, cut>>

Unlink(c) ==
  /\ pc[c] = "unlinking"
  /\ IF files[pid[c]] = Absent
       THEN /\ Finish(c, Refusal("IDL_NOT_FOUND"))
            /\ UNCHANGED <<files, given>>
       ELSE /\ files' = [files EXCEPT ![pid[c]] = Absent]
            /\ given' = [given EXCEPT ![pid[c]] = NoLabel]
            /\ IF mem[c][pid[c]] = NoLabel
                 THEN Finish(c, Done)
                 ELSE Goto(c, "unlabelling") /\ UNCHANGED outcome
  /\ UNCHANGED <<labels, job, pid, mem, todo, entries, stale, clobbered, mixed, cut>>

Unlabel(c) ==
  /\ pc[c] = "unlabelling"
  /\ WriteLabels(c, [mem[c] EXCEPT ![pid[c]] = NoLabel])
  /\ Finish(c, Done)
  /\ UNCHANGED <<files, job, pid, mem, todo, entries, given, mixed, cut>>

-----------------------------------------------------------------------------
(* idlCall. *)

\* A synthesized command has a path, in lower case, and any end of it that starts
\* after a dot names it.
path(label, ix) ==
  <<"program">> \o dotted[label] \o [n \in DOMAIN ix.name |-> lower(ix.name[n])]
endsWith(whole, wanted) ==
  LET n == Len(whole) - Len(wanted)
  IN n > 0 /\ \A k \in DOMAIN wanted : whole[n + k] = lower(wanted[k])
instruction(label, idl, wanted) ==
  {i \in DOMAIN instructions[idl] : endsWith(path(label, instructions[idl][i]), wanted)}

\* readCachedIdl.
ReadIdl(c) ==
  /\ pc[c] = "calling"
  /\ IF files[pid[c]] = Absent
       THEN Finish(c, Refusal("IDL_NOT_FOUND")) /\ UNCHANGED entries
       ELSE /\ entries' = [entries EXCEPT ![c] =
                             {[pid |-> pid[c], label |-> NoLabel, idl |-> files[pid[c]]]}]
            /\ Goto(c, "naming")
            /\ UNCHANGED outcome
  /\ UNCHANGED <<files, labels, job, pid, mem, todo, history>>

\* The labels are read, as they name the commands; the first command of the wanted
\* name has the call.
Call(c) ==
  /\ pc[c] = "naming"
  /\ \E e \in entries[c] :
       LET found == instruction(shown(labels, pid[c], e.idl), e.idl, job[c].ix)
           first == CHOOSE i \in found : \A k \in found : i <= k
           ix == instructions[e.idl][first]
       IN Finish(c,
            IF found = {} THEN Refusal("IDL_NOT_FOUND")
            ELSE [answer |-> Handle(ix, pid[c], callFlags(job[c].flags, job[c].mode)),
                  ok |-> TRUE, code |-> "none", ix |-> ix])
  /\ UNCHANGED <<files, labels, job, pid, mem, todo, entries, history>>

-----------------------------------------------------------------------------
\* The process dies, or the operation it is about to do fails.
Stop(c) ==
  /\ Active(c)
  /\ Goto(c, "stopped")
  /\ cut' = IF pc[c] = "unlabelling" THEN cut \cup {pid[c]} ELSE cut
  /\ UNCHANGED <<files, labels, work, given, stale, clobbered, mixed>>

IdlNext == \E c \in Cmds :
  \/ \E j \in Asked[c] : Begin(c, j)
  \/ Resolve(c) \/ ReadDir(c) \/ ListLabels(c)
  \/ \E p \in Pids : ListFile(c, p)
  \/ Listed(c)
  \/ Load(c) \/ StoreIdl(c) \/ AddReadsLabels(c) \/ Relabel(c)
  \/ RemoveReadsLabels(c) \/ Unlink(c) \/ Unlabel(c)
  \/ ReadIdl(c) \/ Call(c)
  \/ Stop(c)

IdlSpec == IdlInit /\ [][IdlNext]_idlVars

-----------------------------------------------------------------------------
IdlTypeOK ==
  /\ files \in [Pids -> Idls \cup {Absent}]
  /\ labels \in [Pids -> Labels \cup {NoLabel}]
  /\ pc \in [Cmds -> Ended \cup Changing \cup
             {"idle", "resolving", "calling", "naming", "listing", "listing labels",
              "listing files"}]
  /\ pid \in [Cmds -> Pids \cup {NoPid}]
  /\ mem \in [Cmds -> [Pids -> Labels \cup {NoLabel}]]
  /\ \A c \in Cmds : todo[c] \subseteq Pids

\* A label whose add was acknowledged stays until its program is removed or given
\* another one, whatever other commands do in between; the exception is the one
\* race of the code, a command that writes back labels it had read before
\* another's write.
LabelKept ==
  ~clobbered => \A p \in Pids : given[p] # NoLabel => labels[p] = given[p]

\* A label never names a program that is not cached (it would hide another one of
\* that name, and could not be removed): such a label is about to be cleared by
\* the removal of its program, or that removal stopped half way, or two commands
\* changed the program at the same time, or the labels were written over.
NoDangling ==
  ~clobbered => \A p \in Pids \ (mixed \cup cut) :
    labels[p] # NoLabel /\ files[p] = Absent =>
      \E c \in Cmds : pc[c] = "unlabelling" /\ pid[c] = p

\* A synthesized command says what its caller meant: the program that reads the
\* instruction's data finds the values of the flags, and what the schema lets
\* through and fits is not refused (idl-synth.ts, encodeValue).  The exception is an
\* argument with the name of one of solcli's own options, which call.command.ts
\* keeps from the instruction.
CallEncodes ==
  \A c \in Cmds : outcome[c].ok /\ job[c].op = "call" =>
    Faithful(outcome[c].ix, job[c].flags, job[c].mode, outcome[c].answer)
=============================================================================
