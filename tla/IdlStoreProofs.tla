---------------------------- MODULE IdlStoreProofs ----------------------------
(***************************************************************************)
(* Proofs about IdlStore, for any commands, programs, labels and IDLs, and *)
(* about the encoding of a call, for any types, strings and base.          *)
(***************************************************************************)
EXTENDS IdlStore, SequenceTheorems, WellFoundedInduction, TLAPS

LabelMaps == [Pids -> Labels \cup {NoLabel}]
Adding == {"storing", "labelling", "relabelling"}
Searching == {"resolving", "listing", "listing labels", "listing files"}
PcValues == Ended \cup Changing \cup Searching \cup {"idle", "calling", "naming"}

\* What the label of a command says of its local variables.
LocalOf(d) ==
  /\ pc[d] \in Changing \cup {"calling", "naming"} => pid[d] \in Pids
  /\ pc[d] \in Adding \cup {"loading"} \cup Searching => job[d] \in Asked[d]
  /\ pc[d] \in Adding \cup {"loading"} => job[d].op = "add"
  /\ pc[d] \in Adding => job[d].source \in Idls
  /\ pc[d] = "relabelling" => job[d].label \in Labels
  /\ \A e \in entries[d] : e.pid \in Pids

OthersOK ==
  /\ given \in LabelMaps
  /\ stale \subseteq Cmds
  /\ clobbered \in BOOLEAN
  /\ DOMAIN job = Cmds /\ DOMAIN entries = Cmds /\ DOMAIN todo = Cmds

TypeInv == IdlTypeOK /\ OthersOK /\ \A d \in Cmds : LocalOf(d)

\* The labels in memory are those of the file unless somebody wrote them since;
\* a removal that is about to clear a label has withdrawn it already.
ReadInv ==
  \A c \in Cmds \ stale :
    /\ pc[c] \in {"relabelling", "unlinking", "unlabelling"} => mem[c] = labels
    /\ pc[c] = "unlabelling" => given[pid[c]] = NoLabel

LabelInv == TypeInv /\ ReadInv /\ LabelKept

\* One step of one command.
Step(c) == \/ \E j \in Asked[c] : Begin(c, j)
           \/ Resolve(c) \/ ReadDir(c) \/ ListLabels(c)
           \/ \E p \in Pids : ListFile(c, p)
           \/ Listed(c)
           \/ Load(c) \/ StoreIdl(c) \/ AddReadsLabels(c) \/ Relabel(c)
           \/ RemoveReadsLabels(c) \/ Unlink(c) \/ Unlabel(c)
           \/ ReadIdl(c) \/ Call(c) \/ Stop(c)

-----------------------------------------------------------------------------
LEMMA InitTyped == IdlInit => TypeInv
<1> SUFFICES ASSUME IdlInit PROVE TypeInv
  OBVIOUS
<1> USE DEF LabelMaps, NoLabels, Ended, Changing, Searching, Adding
<1>1. labels \in LabelMaps /\ given \in LabelMaps
  BY DEF IdlInit
<1>2. IdlTypeOK
  BY <1>1 DEF IdlInit, IdlTypeOK
<1>3. OthersOK
  BY <1>1 DEF IdlInit, OthersOK
<1>4. ASSUME NEW d \in Cmds PROVE LocalOf(d)
  BY <1>4 DEF IdlInit, LocalOf
<1> QED BY <1>2, <1>3, <1>4 DEF TypeInv

LEMMA StepTyped == TypeInv /\ [IdlNext]_idlVars => TypeInv'
<1> SUFFICES ASSUME TypeInv, [IdlNext]_idlVars PROVE TypeInv'
  OBVIOUS
<1> USE DEF LabelMaps, Ended, Changing, Searching, Adding, work, history
<1>0. CASE UNCHANGED idlVars
  BY <1>0 DEF TypeInv, IdlTypeOK, OthersOK, LocalOf, idlVars
<1> SUFFICES ASSUME NEW c \in Cmds, Step(c) PROVE TypeInv'
  BY <1>0 DEF IdlNext, Step
<1>1. ASSUME NEW j \in Asked[c], Begin(c, j) PROVE TypeInv'
  <2>0. /\ j.op \in {"add", "list", "remove", "call"}
        /\ j.op = "remove" => j.mode # "both"
    BY JobsAssumption
  <2>a. /\ job' = [job EXCEPT ![c] = j]
        /\ \/ pc' = [pc EXCEPT ![c] = "ended"] /\ pid' = pid
           \/ /\ j.op = "add" /\ j.pid \in Pids
              /\ pc' = [pc EXCEPT ![c] = "loading"] /\ pid' = [pid EXCEPT ![c] = j.pid]
           \/ /\ j.ref \in Pids /\ pid' = [pid EXCEPT ![c] = j.ref]
              /\ \/ pc' = [pc EXCEPT ![c] = "removing"]
                 \/ pc' = [pc EXCEPT ![c] = "calling"]
           \/ /\ pid' = pid
              /\ \/ pc' = [pc EXCEPT ![c] = "resolving"]
                 \/ pc' = [pc EXCEPT ![c] = "listing"]
    <3>1. CASE j.op = "add"
      BY <1>1, <3>1 DEF Begin, Goto, Finish
    <3>2. CASE j.op = "remove"
      BY <1>1, <3>2, <2>0 DEF Begin, Goto, Finish
    <3>3. CASE j.op = "call"
      BY <1>1, <3>3 DEF Begin, Goto, Finish
    <3>4. CASE j.op = "list"
      BY <1>1, <3>4 DEF Begin, Goto, Finish
    <3> QED BY <2>0, <3>1, <3>2, <3>3, <3>4
  <2>b. UNCHANGED <<files, labels, mem, todo, entries, given, stale, clobbered, cut>>
    BY <1>1 DEF Begin
  <2>1. IdlTypeOK'
    BY <2>a, <2>b DEF TypeInv, IdlTypeOK
  <2>2. OthersOK'
    BY <2>a, <2>b DEF TypeInv, OthersOK
  <2>3. ASSUME NEW d \in Cmds PROVE LocalOf(d)'
    <3>1. CASE d = c
      BY <2>a, <2>b, <3>1 DEF TypeInv, IdlTypeOK, OthersOK, LocalOf
    <3>2. CASE d # c
      BY <2>a, <2>b, <3>2, <2>3 DEF TypeInv, IdlTypeOK, OthersOK, LocalOf
    <3> QED BY <3>1, <3>2
  <2> QED BY <2>1, <2>2, <2>3 DEF TypeInv
<1>2. CASE Resolve(c)
  <2>1. IdlTypeOK'
    BY <1>2 DEF TypeInv, IdlTypeOK, LocalOf, Resolve, Resolved, Goto
  <2>2. OthersOK'
    BY <1>2 DEF TypeInv, IdlTypeOK, OthersOK, LocalOf, Resolve, Resolved, Goto
  <2>3. ASSUME NEW d \in Cmds PROVE LocalOf(d)'
    BY <1>2, <2>3 DEF TypeInv, IdlTypeOK, OthersOK, LocalOf, Resolve, Resolved, Goto
  <2> QED BY <2>1, <2>2, <2>3 DEF TypeInv
<1>3. CASE ReadDir(c)
  <2>1. IdlTypeOK'
    BY <1>3 DEF TypeInv, IdlTypeOK, OthersOK, LocalOf, ReadDir, Goto
  <2>2. OthersOK'
    BY <1>3 DEF TypeInv, IdlTypeOK, OthersOK, LocalOf, ReadDir, Goto
  <2>3. ASSUME NEW d \in Cmds PROVE LocalOf(d)'
    BY <1>3, <2>3 DEF TypeInv, IdlTypeOK, OthersOK, LocalOf, ReadDir, Goto
  <2> QED BY <2>1, <2>2, <2>3 DEF TypeInv
<1>4. CASE ListLabels(c)
  <2>1. IdlTypeOK'
    BY <1>4 DEF TypeInv, IdlTypeOK, LocalOf, ListLabels, Goto
  <2>2. OthersOK'
    BY <1>4 DEF TypeInv, IdlTypeOK, OthersOK, LocalOf, ListLabels, Goto
  <2>3. ASSUME NEW d \in Cmds PROVE LocalOf(d)'
    BY <1>4, <2>3 DEF TypeInv, IdlTypeOK, OthersOK, LocalOf, ListLabels, Goto
  <2> QED BY <2>1, <2>2, <2>3 DEF TypeInv
<1>5. ASSUME NEW p \in Pids, ListFile(c, p) PROVE TypeInv'
  <2>1. IdlTypeOK'
    BY <1>5 DEF TypeInv, IdlTypeOK, OthersOK, LocalOf, ListFile
  <2>2. OthersOK'
    BY <1>5 DEF TypeInv, IdlTypeOK, OthersOK, LocalOf, ListFile
  <2>3. ASSUME NEW d \in Cmds PROVE LocalOf(d)'
    <3>1. \A e \in entries[d]' : e.pid \in Pids
      <4> DEFINE new == [pid |-> p, label |-> shown(mem[c], p, files[p]), idl |-> files[p]]
      <4>1. new.pid = p
        OBVIOUS
      <4>2. entries' = entries \/ entries' = [entries EXCEPT ![c] = @ \cup {new}]
        BY <1>5 DEF ListFile
      <4> HIDE DEF new
      <4>3. entries'[d] \subseteq entries[d] \cup {new}
        BY <4>2 DEF TypeInv, OthersOK
      <4> QED BY <4>1, <4>3 DEF TypeInv, LocalOf
    <3> QED BY <1>5, <3>1 DEF TypeInv, LocalOf, ListFile
  <2> QED BY <2>1, <2>2, <2>3 DEF TypeInv
<1>6. CASE Listed(c)
  <2>1. IdlTypeOK'
    BY <1>6 DEF TypeInv, IdlTypeOK, LocalOf, Listed, Resolved, Goto, Finish
  <2>2. OthersOK'
    BY <1>6 DEF TypeInv, IdlTypeOK, OthersOK, LocalOf, Listed, Resolved, Goto, Finish
  <2>3. ASSUME NEW d \in Cmds PROVE LocalOf(d)'
    BY <1>6, <2>3
       DEF TypeInv, IdlTypeOK, OthersOK, LocalOf, Listed, Resolved, Goto, Finish
  <2> QED BY <2>1, <2>2, <2>3 DEF TypeInv
<1>7. CASE Load(c)
  <2>1. IdlTypeOK'
    BY <1>7, JobsAssumption
       DEF TypeInv, IdlTypeOK, LocalOf, Load, Goto, Finish, BadSources
  <2>2. OthersOK'
    BY <1>7, JobsAssumption
       DEF TypeInv, IdlTypeOK, OthersOK, LocalOf, Load, Goto, Finish, BadSources
  <2>3. ASSUME NEW d \in Cmds PROVE LocalOf(d)'
    <3>1. job[c].source \in Idls \cup BadSources
      BY <1>7, JobsAssumption DEF TypeInv, LocalOf, Load
    <3>2. pc' = [pc EXCEPT ![c] = "ended"]
          \/ (job[c].source \in Idls /\ pc' = [pc EXCEPT ![c] = "storing"])
      BY <1>7, <3>1 DEF Load, Goto, Finish, BadSources
    <3>3. UNCHANGED <<job, pid, entries>>
      BY <1>7 DEF Load
    <3>4. CASE d = c
      BY <1>7, <3>2, <3>3, <3>4 DEF TypeInv, IdlTypeOK, LocalOf, Load
    <3>5. CASE d # c
      BY <3>2, <3>3, <3>5 DEF TypeInv, IdlTypeOK, LocalOf
    <3> QED BY <3>4, <3>5
  <2> QED BY <2>1, <2>2, <2>3 DEF TypeInv
<1>8. CASE StoreIdl(c)
  <2>1. IdlTypeOK'
    BY <1>8 DEF TypeInv, IdlTypeOK, LocalOf, StoreIdl, Goto
  <2>2. OthersOK'
    BY <1>8 DEF TypeInv, IdlTypeOK, OthersOK, LocalOf, StoreIdl, Goto
  <2>3. ASSUME NEW d \in Cmds PROVE LocalOf(d)'
    BY <1>8, <2>3 DEF TypeInv, IdlTypeOK, OthersOK, LocalOf, StoreIdl, Goto
  <2> QED BY <2>1, <2>2, <2>3 DEF TypeInv
<1>9. CASE AddReadsLabels(c)
  <2>1. IdlTypeOK'
    BY <1>9, JobsAssumption
       DEF TypeInv, IdlTypeOK, LocalOf, AddReadsLabels, ReadLabels, Goto
  <2>2. OthersOK'
    BY <1>9, JobsAssumption
       DEF TypeInv, IdlTypeOK, OthersOK, LocalOf, AddReadsLabels, ReadLabels, Goto
  <2>3. ASSUME NEW d \in Cmds PROVE LocalOf(d)'
    BY <1>9, JobsAssumption, <2>3
       DEF TypeInv, IdlTypeOK, OthersOK, LocalOf, AddReadsLabels, ReadLabels, Goto
  <2> QED BY <2>1, <2>2, <2>3 DEF TypeInv
<1>10. CASE Relabel(c)
  <2>1. IdlTypeOK'
    BY <1>10 DEF TypeInv, IdlTypeOK, LocalOf, Relabel, WriteLabels, Goto, Finish
  <2>2. OthersOK'
    BY <1>10
       DEF TypeInv, IdlTypeOK, OthersOK, LocalOf, Relabel, WriteLabels, Goto, Finish
  <2>3. ASSUME NEW d \in Cmds PROVE LocalOf(d)'
    BY <1>10, <2>3
       DEF TypeInv, IdlTypeOK, OthersOK, LocalOf, Relabel, WriteLabels, Goto, Finish
  <2> QED BY <2>1, <2>2, <2>3 DEF TypeInv
<1>11. CASE RemoveReadsLabels(c)
  <2>1. IdlTypeOK'
    BY <1>11 DEF TypeInv, IdlTypeOK, LocalOf, RemoveReadsLabels, ReadLabels, Goto
  <2>2. OthersOK'
    BY <1>11
       DEF TypeInv, IdlTypeOK, OthersOK, LocalOf, RemoveReadsLabels, ReadLabels,
           Goto
  <2>3. ASSUME NEW d \in Cmds PROVE LocalOf(d)'
    BY <1>11, <2>3
       DEF TypeInv, IdlTypeOK, OthersOK, LocalOf, RemoveReadsLabels, ReadLabels,
           Goto
  <2> QED BY <2>1, <2>2, <2>3 DEF TypeInv
<1>12. CASE Unlink(c)
  <2>1. IdlTypeOK'
    BY <1>12 DEF TypeInv, IdlTypeOK, LocalOf, Unlink, Goto, Finish
  <2>2. OthersOK'
    BY <1>12 DEF TypeInv, IdlTypeOK, OthersOK, LocalOf, Unlink, Goto, Finish
  <2>3. ASSUME NEW d \in Cmds PROVE LocalOf(d)'
    BY <1>12, <2>3 DEF TypeInv, IdlTypeOK, OthersOK, LocalOf, Unlink, Goto, Finish
  <2> QED BY <2>1, <2>2, <2>3 DEF TypeInv
<1>13. CASE Unlabel(c)
  <2>1. IdlTypeOK'
    BY <1>13 DEF TypeInv, IdlTypeOK, LocalOf, Unlabel, WriteLabels, Goto, Finish
  <2>2. OthersOK'
    BY <1>13
       DEF TypeInv, IdlTypeOK, OthersOK, LocalOf, Unlabel, WriteLabels, Goto, Finish
  <2>3. ASSUME NEW d \in Cmds PROVE LocalOf(d)'
    BY <1>13, <2>3
       DEF TypeInv, IdlTypeOK, OthersOK, LocalOf, Unlabel, WriteLabels, Goto, Finish
  <2> QED BY <2>1, <2>2, <2>3 DEF TypeInv
<1>14. CASE Call(c)
  <2>1. IdlTypeOK'
    BY <1>14 DEF TypeInv, IdlTypeOK, LocalOf, Call, Goto, Finish
  <2>2. OthersOK'
    BY <1>14 DEF TypeInv, IdlTypeOK, OthersOK, LocalOf, Call, Goto, Finish
  <2>3. ASSUME NEW d \in Cmds PROVE LocalOf(d)'
    BY <1>14, <2>3 DEF TypeInv, IdlTypeOK, OthersOK, LocalOf, Call, Goto, Finish
  <2> QED BY <2>1, <2>2, <2>3 DEF TypeInv
<1>16. CASE ReadIdl(c)
  <2>0. pc[c] = "calling" /\ pid[c] \in Pids
    BY <1>16 DEF TypeInv, LocalOf, ReadIdl
  <2>1. IdlTypeOK'
    BY <1>16 DEF TypeInv, IdlTypeOK, LocalOf, ReadIdl, Goto, Finish
  <2>2. OthersOK'
    BY <1>16 DEF TypeInv, IdlTypeOK, OthersOK, LocalOf, ReadIdl, Goto, Finish
  <2>3. ASSUME NEW d \in Cmds PROVE LocalOf(d)'
    <3>1. \A e \in entries[d]' : e.pid \in Pids
      <4> DEFINE new == [pid |-> pid[c], label |-> NoLabel, idl |-> files[pid[c]]]
      <4>1. new.pid = pid[c]
        OBVIOUS
      <4>2. entries' = entries \/ entries' = [entries EXCEPT ![c] = {new}]
        BY <1>16 DEF ReadIdl
      <4> HIDE DEF new
      <4>3. entries'[d] \subseteq entries[d] \cup {new}
        BY <4>2 DEF TypeInv, OthersOK
      <4> QED BY <2>0, <4>1, <4>3 DEF TypeInv, LocalOf
    <3>2. /\ pc'[d] = pc[d] \/ (d = c /\ pc'[d] \in {"ended", "naming"})
          /\ job' = job /\ pid' = pid
      BY <1>16 DEF TypeInv, IdlTypeOK, ReadIdl, Goto, Finish
    <3> QED BY <2>0, <3>1, <3>2 DEF TypeInv, LocalOf
  <2> QED BY <2>1, <2>2, <2>3 DEF TypeInv
<1>15. CASE Stop(c)
  <2>1. IdlTypeOK'
    BY <1>15 DEF TypeInv, IdlTypeOK, LocalOf, Stop, Goto
  <2>2. OthersOK'
    BY <1>15 DEF TypeInv, IdlTypeOK, OthersOK, LocalOf, Stop, Goto
  <2>3. ASSUME NEW d \in Cmds PROVE LocalOf(d)'
    BY <1>15, <2>3 DEF TypeInv, IdlTypeOK, OthersOK, LocalOf, Stop, Goto
  <2> QED BY <2>1, <2>2, <2>3 DEF TypeInv
<1> QED
  BY <1>1, <1>2, <1>3, <1>4, <1>5, <1>6, <1>7, <1>8,
     <1>9, <1>10, <1>11, <1>12, <1>13, <1>14, <1>15, <1>16 DEF Step

\* Every variable of the store keeps its type, whatever commands overlap or stop
\* (idl-load.ts).
THEOREM TypeCorrect == IdlSpec => []IdlTypeOK
<1>1. TypeInv => IdlTypeOK
  BY DEF TypeInv
<1> QED BY InitTyped, StepTyped, <1>1, PTL DEF IdlSpec

-----------------------------------------------------------------------------
(* LabelKept. *)

LEMMA InitLabels == IdlInit => LabelInv
<1> SUFFICES ASSUME IdlInit PROVE LabelInv
  OBVIOUS
<1>1. ReadInv
  BY DEF IdlInit, ReadInv
<1>2. LabelKept
  BY DEF IdlInit, LabelKept
<1> QED BY <1>1, <1>2, InitTyped DEF LabelInv

\* The steps that neither read nor write the labels, nor withdraw one.
LEMMA LabelsAlone ==
  ASSUME LabelInv, NEW c \in Cmds, UNCHANGED <<labels, given, stale, clobbered, mem>>,
         pc[c] \notin {"relabelling", "unlinking", "unlabelling"},
         \E l : pc' = [pc EXCEPT ![c] = l]
                /\ l \notin {"relabelling", "unlinking", "unlabelling"},
         \A d \in Cmds \ {c} : pid'[d] = pid[d]
  PROVE  ReadInv' /\ LabelKept'
<1>1. ReadInv'
  <2> SUFFICES ASSUME NEW d \in Cmds \ stale
               PROVE  /\ pc'[d] \in {"relabelling", "unlinking", "unlabelling"}
                           => mem[d] = labels
                      /\ pc'[d] = "unlabelling" => given[pid'[d]] = NoLabel
    BY DEF ReadInv
  <2>1. d # c => pc'[d] = pc[d]
    BY DEF LabelInv, TypeInv, IdlTypeOK
  <2>2. pc'[c] \notin {"relabelling", "unlinking", "unlabelling"}
    BY DEF LabelInv, TypeInv, IdlTypeOK
  <2> QED BY <2>1, <2>2 DEF LabelInv, ReadInv
<1>2. LabelKept'
  BY DEF LabelInv, LabelKept
<1> QED BY <1>1, <1>2

\* Reading the labels.
LEMMA LabelsRead ==
  ASSUME LabelInv, NEW c \in Cmds, NEW l, ReadLabels(c, l), l # "unlabelling",
         UNCHANGED <<labels, given, clobbered, pid>>
  PROVE  ReadInv' /\ LabelKept'
<1>1. ASSUME NEW d \in Cmds \ stale'
      PROVE  /\ pc'[d] \in {"relabelling", "unlinking", "unlabelling"}
                  => mem'[d] = labels'
             /\ pc'[d] = "unlabelling" => given'[pid'[d]] = NoLabel
  <2>1. CASE d = c
    BY <2>1 DEF LabelInv, TypeInv, IdlTypeOK, ReadLabels, Goto
  <2>2. CASE d # c
    BY <2>2, <1>1 DEF LabelInv, TypeInv, IdlTypeOK, ReadInv, ReadLabels, Goto
  <2> QED BY <2>1, <2>2
<1> QED BY <1>1 DEF ReadInv, LabelInv, LabelKept

\* Writing them: by a command that has read them since the last write, or the
\* labels are written over.
LEMMA LabelsWritten ==
  ASSUME LabelInv, NEW c \in Cmds, NEW l \in Labels \cup {NoLabel},
         pc[c] \in {"relabelling", "unlabelling"},
         WriteLabels(c, [mem[c] EXCEPT ![pid[c]] = l]),
         given' = [given EXCEPT ![pid[c]] = l],
         UNCHANGED <<mem, pid>>, pc' = [pc EXCEPT ![c] = "ended"]
  PROVE  ReadInv' /\ LabelKept'
<1>1. ReadInv'
  <2> SUFFICES ASSUME NEW d \in Cmds \ stale'
               PROVE  pc'[d] \notin {"relabelling", "unlinking", "unlabelling"}
    BY DEF ReadInv
  <2>1. d = c
    BY DEF WriteLabels
  <2> QED BY <2>1 DEF LabelInv, TypeInv, IdlTypeOK
<1>2. LabelKept'
  <2> SUFFICES ASSUME ~clobbered', NEW p \in Pids, given'[p] # NoLabel
               PROVE  labels'[p] = given'[p]
    BY DEF LabelKept
  <2>1. ~clobbered /\ c \notin stale
    BY DEF WriteLabels
  <2>2. mem[c] = labels
    BY <2>1 DEF LabelInv, ReadInv
  <2>3. labels' = [labels EXCEPT ![pid[c]] = l]
    BY <2>2 DEF WriteLabels
  <2>4. labels \in LabelMaps /\ given \in LabelMaps
    BY DEF LabelInv, TypeInv, IdlTypeOK, OthersOK, LabelMaps
  <2> QED BY <2>1, <2>3, <2>4 DEF LabelInv, LabelKept, LabelMaps
<1> QED BY <1>1, <1>2

LEMMA StepLabels == LabelInv /\ [IdlNext]_idlVars => LabelInv'
<1> SUFFICES ASSUME LabelInv, [IdlNext]_idlVars PROVE ReadInv' /\ LabelKept'
  BY StepTyped DEF LabelInv
<1> USE DEF work, history
<1>0. CASE UNCHANGED idlVars
  BY <1>0 DEF LabelInv, ReadInv, LabelKept, idlVars
<1> SUFFICES ASSUME NEW c \in Cmds, Step(c) PROVE ReadInv' /\ LabelKept'
  BY <1>0 DEF IdlNext, Step
<1>T. TypeInv /\ pc[c] \in PcValues
  BY DEF LabelInv, TypeInv, IdlTypeOK, PcValues, Searching, Changing, Ended
<1>1. ASSUME NEW j \in Asked[c], Begin(c, j) PROVE ReadInv' /\ LabelKept'
  <2>0. /\ j.op \in {"add", "list", "remove", "call"}
        /\ j.op = "remove" => j.mode # "both"
    BY JobsAssumption
  <2>1. /\ \E l \in {"ended", "loading", "removing", "calling", "resolving",
                     "listing"} : pc' = [pc EXCEPT ![c] = l]
        /\ \A d \in Cmds \ {c} : pid'[d] = pid[d]
    <3> USE DEF Begin, Goto, Finish, TypeInv, IdlTypeOK
    <3>1. CASE j.op = "add"
      BY <1>1, <3>1, <1>T
    <3>2. CASE j.op = "remove"
      BY <1>1, <3>2, <2>0, <1>T
    <3>3. CASE j.op = "call"
      BY <1>1, <3>3, <1>T
    <3>4. CASE j.op = "list"
      BY <1>1, <3>4, <1>T
    <3> QED BY <2>0, <3>1, <3>2, <3>3, <3>4
  <2> QED BY <1>1, <2>1, LabelsAlone DEF Begin
<1>2. CASE Resolve(c)
  <2>1. /\ \E l \in {"removing", "calling", "listing"} : pc' = [pc EXCEPT ![c] = l]
        /\ \A d \in Cmds \ {c} : pid'[d] = pid[d]
    BY <1>2, <1>T DEF Resolve, Resolved, Goto, TypeInv, IdlTypeOK
  <2> QED BY <1>2, <2>1, LabelsAlone DEF Resolve
<1>3. CASE ReadDir(c)
  <2>1. \E l \in {"listing labels"} : pc' = [pc EXCEPT ![c] = l]
    BY <1>3 DEF ReadDir, Goto
  <2>2. UNCHANGED <<labels, given, stale, clobbered, mem, pid>> /\ pc[c] = "listing"
    BY <1>3 DEF ReadDir
  <2> QED BY <2>1, <2>2, LabelsAlone
<1>4. CASE ListLabels(c)
  <2>1. \A d \in Cmds \ {c} : mem'[d] = mem[d] /\ pc'[d] = pc[d]
    BY <1>4, <1>T DEF ListLabels, Goto, TypeInv, IdlTypeOK
  <2>2. pc'[c] = "listing files"
    BY <1>4, <1>T DEF ListLabels, Goto, TypeInv, IdlTypeOK
  <2> QED BY <1>4, <2>1, <2>2 DEF ListLabels, LabelInv, ReadInv, LabelKept
<1>5. ASSUME NEW p \in Pids, ListFile(c, p) PROVE ReadInv' /\ LabelKept'
  BY <1>5 DEF ListFile, LabelInv, ReadInv, LabelKept
<1>6. CASE Listed(c)
  <2>1. /\ \E l \in {"ended", "removing", "calling"} : pc' = [pc EXCEPT ![c] = l]
        /\ \A d \in Cmds \ {c} : pid'[d] = pid[d]
    BY <1>6, <1>T DEF Listed, Resolved, Goto, Finish, TypeInv, IdlTypeOK
  <2> QED BY <1>6, <2>1, LabelsAlone DEF Listed
<1>7. CASE Load(c)
  <2>1. job[c].source \in Idls \cup BadSources
    BY <1>7, <1>T, JobsAssumption DEF TypeInv, LocalOf, Load
  <2>2. \E l \in {"ended", "storing"} : pc' = [pc EXCEPT ![c] = l]
    BY <1>7, <2>1 DEF Load, Goto, Finish, BadSources
  <2> QED BY <1>7, <2>2, LabelsAlone DEF Load
<1>8. CASE StoreIdl(c)
  <2>1. \E l \in {"labelling"} : pc' = [pc EXCEPT ![c] = l]
    BY <1>8 DEF StoreIdl, Goto
  <2>2. UNCHANGED <<labels, given, stale, clobbered, mem, pid>> /\ pc[c] = "storing"
    BY <1>8 DEF StoreIdl
  <2> QED BY <2>1, <2>2, LabelsAlone
<1>9. CASE AddReadsLabels(c)
  BY <1>9, LabelsRead DEF AddReadsLabels
<1>10. CASE Relabel(c)
  BY <1>10, <1>T, LabelsWritten
     DEF Relabel, Finish, Goto, TypeInv, LocalOf, Adding
<1>11. CASE RemoveReadsLabels(c)
  BY <1>11, LabelsRead DEF RemoveReadsLabels
<1>12. CASE Unlink(c)
  <2>1. /\ pc' = [pc EXCEPT ![c] = "ended"] /\ given' = given
        \/ /\ given' = [given EXCEPT ![pid[c]] = NoLabel]
           /\ \/ pc' = [pc EXCEPT ![c] = "ended"]
              \/ pc' = [pc EXCEPT ![c] = "unlabelling"]
    BY <1>12 DEF Unlink, Goto, Finish
  <2>2. UNCHANGED <<labels, pid, mem, stale, clobbered>> /\ pc[c] = "unlinking"
    BY <1>12 DEF Unlink
  <2>3. given \in LabelMaps /\ pc \in [Cmds -> PcValues] /\ pid[c] \in Pids
    BY <1>T, <2>2 DEF TypeInv, IdlTypeOK, OthersOK, LocalOf, PcValues, Searching,
                      Changing, Ended
  <2>4. ReadInv'
    <3> SUFFICES ASSUME NEW d \in Cmds \ stale
                 PROVE  /\ pc'[d] \in {"relabelling", "unlinking", "unlabelling"}
                             => mem[d] = labels
                        /\ pc'[d] = "unlabelling" => given'[pid[d]] = NoLabel
      BY <2>2 DEF ReadInv
    <3>1. CASE d = c
      BY <2>1, <2>2, <2>3, <3>1 DEF LabelInv, ReadInv, LabelMaps
    <3>2. CASE d # c
      <4>1. pc'[d] = pc[d]
        BY <2>1, <2>3, <3>2
      <4>2. \A p \in Pids : given[p] = NoLabel => given'[p] = NoLabel
        BY <2>1, <2>3 DEF LabelMaps
      <4>3. pc[d] = "unlabelling" => pid[d] \in Pids
        BY <1>T DEF TypeInv, LocalOf, Changing
      <4> QED BY <4>1, <4>2, <4>3 DEF LabelInv, ReadInv
    <3> QED BY <3>1, <3>2
  <2>5. LabelKept'
    BY <2>1, <2>2, <2>3 DEF LabelInv, LabelKept, LabelMaps
  <2> QED BY <2>4, <2>5
<1>13. CASE Unlabel(c)
  <2>1. CASE c \in stale
    <3>1. clobbered'
      BY <1>13, <2>1 DEF Unlabel, WriteLabels
    <3>2. \A d \in Cmds \ stale' : d = c
      BY <1>13 DEF Unlabel, WriteLabels
    <3>3. pc'[c] = "ended"
      BY <1>13, <1>T DEF Unlabel, Finish, Goto, TypeInv, IdlTypeOK
    <3> QED BY <3>1, <3>2, <3>3 DEF ReadInv, LabelKept
  <2>2. CASE c \notin stale
    <3>1. given[pid[c]] = NoLabel /\ pid[c] \in Pids /\ given \in LabelMaps
      BY <1>13, <1>T, <2>2
         DEF Unlabel, LabelInv, ReadInv, TypeInv, LocalOf, Changing, OthersOK
    <3>2. given' = [given EXCEPT ![pid[c]] = NoLabel]
      BY <1>13, <3>1 DEF Unlabel, LabelMaps
    <3> QED BY <1>13, <3>2, LabelsWritten DEF Unlabel, Finish, Goto
  <2> QED BY <2>1, <2>2
<1>14. CASE Call(c)
  <2>1. \E l \in {"ended"} : pc' = [pc EXCEPT ![c] = l]
    BY <1>14 DEF Call, Finish, Goto
  <2>2. UNCHANGED <<labels, given, stale, clobbered, mem, pid>> /\ pc[c] = "naming"
    BY <1>14 DEF Call
  <2> QED BY <2>1, <2>2, LabelsAlone
<1>16. CASE ReadIdl(c)
  <2>1. \E l \in {"ended", "naming"} : pc' = [pc EXCEPT ![c] = l]
    BY <1>16 DEF ReadIdl, Finish, Goto
  <2>2. UNCHANGED <<labels, given, stale, clobbered, mem, pid>> /\ pc[c] = "calling"
    BY <1>16 DEF ReadIdl
  <2> QED BY <2>1, <2>2, LabelsAlone
<1>15. CASE Stop(c)
  <2>1. \A d \in Cmds \ {c} : pc'[d] = pc[d]
    BY <1>15, <1>T DEF Stop, Goto, TypeInv, IdlTypeOK
  <2>2. pc'[c] = "stopped"
    BY <1>15, <1>T DEF Stop, Goto, TypeInv, IdlTypeOK
  <2> QED BY <1>15, <2>1, <2>2 DEF Stop, LabelInv, ReadInv, LabelKept
<1> QED
  BY <1>1, <1>2, <1>3, <1>4, <1>5, <1>6, <1>7, <1>8, <1>9, <1>10, <1>11, <1>12,
     <1>13, <1>14, <1>15, <1>16 DEF Step

\* An acknowledged label stays until its program is removed or labelled anew, for
\* any commands that overlap, unless a command wrote back labels it had read
\* before another's write (idlAdd and idlRemove of idl-load.ts).
THEOREM LabelsKept == IdlSpec => []LabelKept
<1>1. LabelInv => LabelKept
  BY DEF LabelInv
<1> QED BY InitLabels, StepLabels, <1>1, PTL DEF IdlSpec

-----------------------------------------------------------------------------
(* NoDangling. *)

\* Two commands that change one program at a time are on record.
MixedInv ==
  \A c, d \in Cmds :
    c # d /\ pc[c] \in Changing /\ pc[d] \in Changing /\ pid[c] = pid[d]
      => pid[c] \in mixed

\* What an add is about to label is cached.
CachedInv ==
  \A c \in Cmds : pc[c] \in {"labelling", "relabelling"} /\ pid[c] \notin mixed
    => files[pid[c]] # Absent

\* A removal knows its program's label, although others may have been written.
HoldInv ==
  ~clobbered => \A c \in Cmds :
    pc[c] \in {"unlinking", "unlabelling"} /\ pid[c] \notin mixed
      => mem[c][pid[c]] = labels[pid[c]]

StoreInv == LabelInv /\ MixedInv /\ CachedInv /\ HoldInv /\ NoDangling

LEMMA InitStore == IdlInit => StoreInv
<1> SUFFICES ASSUME IdlInit PROVE StoreInv
  OBVIOUS
<1>1. MixedInv /\ CachedInv /\ HoldInv
  BY DEF IdlInit, MixedInv, CachedInv, HoldInv, Changing
<1>2. NoDangling
  BY DEF IdlInit, NoDangling
<1> QED BY <1>1, <1>2, InitLabels DEF StoreInv

\* Every step moves one command, and takes up a program only with Engage.
LEMMA OneMoves ==
  ASSUME TypeInv, NEW c \in Cmds, Step(c)
  PROVE  /\ \A d \in Cmds \ {c} : pc'[d] = pc[d] /\ pid'[d] = pid[d]
         /\ mixed \subseteq mixed'
         /\ \/ pc'[c] \notin Changing
            \/ pc[c] \in Changing /\ pid'[c] = pid[c]
            \/ pc'[c] \in {"loading", "removing"} /\ Engage(c, pid'[c])
<1> DEFINE Goal == /\ \A d \in Cmds \ {c} : pc'[d] = pc[d] /\ pid'[d] = pid[d]
                   /\ mixed \subseteq mixed'
                   /\ \/ pc'[c] \notin Changing
                      \/ pc[c] \in Changing /\ pid'[c] = pid[c]
                      \/ pc'[c] \in {"loading", "removing"} /\ Engage(c, pid'[c])
<1>T. pc \in [Cmds -> PcValues] /\ pid \in [Cmds -> Pids \cup {NoPid}]
  BY DEF TypeInv, IdlTypeOK, PcValues, Searching, Changing, Ended
<1>E. \A q : Engage(c, q) => mixed \subseteq mixed'
  BY DEF Engage
<1> USE DEF Goto, Finish, Changing, work, history
<1>1. ASSUME NEW j \in Asked[c], Begin(c, j) PROVE Goal
  <2>0. /\ j.op \in {"add", "list", "remove", "call"}
        /\ j.op = "remove" => j.mode # "both"
    BY JobsAssumption
  <2>1. CASE j.op = "add"
    BY <1>1, <2>1, <1>T, <1>E DEF Begin
  <2>2. CASE j.op = "remove"
    BY <1>1, <2>0, <2>2, <1>T, <1>E DEF Begin
  <2>3. CASE j.op = "call"
    BY <1>1, <2>3, <1>T, <1>E DEF Begin
  <2>4. CASE j.op = "list"
    BY <1>1, <2>4, <1>T, <1>E DEF Begin
  <2> QED BY <2>0, <2>1, <2>2, <2>3, <2>4
<1>2. CASE Resolve(c)
  BY <1>2, <1>T, <1>E DEF Resolve, Resolved
<1>3. CASE ReadDir(c) \/ ListLabels(c) \/ \E p \in Pids : ListFile(c, p)
  BY <1>3, <1>T DEF ReadDir, ListLabels, ListFile
<1>4. CASE Listed(c)
  BY <1>4, <1>T, <1>E DEF Listed, Resolved
<1>5. CASE Load(c)
  <2>1. job[c].source \in Idls \cup BadSources
    BY <1>5, JobsAssumption DEF TypeInv, LocalOf, Load
  <2>2. \E l \in {"ended", "storing"} : pc' = [pc EXCEPT ![c] = l]
    BY <1>5, <2>1 DEF Load, BadSources
  <2> QED BY <1>5, <2>2, <1>T DEF Load
<1>6. CASE StoreIdl(c) \/ AddReadsLabels(c) \/ Relabel(c)
  BY <1>6, <1>T DEF StoreIdl, AddReadsLabels, ReadLabels, Relabel
<1>7. CASE RemoveReadsLabels(c) \/ Unlink(c) \/ Unlabel(c)
  BY <1>7, <1>T DEF RemoveReadsLabels, ReadLabels, Unlink, Unlabel
<1>8. CASE ReadIdl(c) \/ Call(c) \/ Stop(c)
  BY <1>8, <1>T DEF ReadIdl, Call, Stop
<1> QED BY <1>1, <1>2, <1>3, <1>4, <1>5, <1>6, <1>7, <1>8 DEF Step

LEMMA StepMixed == ASSUME TypeInv, MixedInv, NEW c \in Cmds, Step(c) PROVE MixedInv'
<1> SUFFICES ASSUME NEW a \in Cmds, NEW b \in Cmds, a # b, pc'[a] \in Changing,
                    pc'[b] \in Changing, pid'[a] = pid'[b]
             PROVE  pid'[a] \in mixed'
  BY DEF MixedInv
<1>1. CASE a # c /\ b # c
  BY <1>1, OneMoves DEF MixedInv
<1>2. ASSUME NEW d \in Cmds, d # c, pc'[d] \in Changing, pc'[c] \in Changing,
             pid'[d] = pid'[c]
      PROVE  pid'[c] \in mixed'
  <2>1. pc[d] = pc'[d] /\ pid[d] = pid'[d]
    BY <1>2, OneMoves
  <2>2. CASE pc[c] \in Changing /\ pid'[c] = pid[c]
    BY <1>2, <2>1, <2>2, OneMoves DEF MixedInv
  <2>3. CASE Engage(c, pid'[c])
    BY <1>2, <2>1, <2>3 DEF Engage
  <2> QED BY <1>2, <2>2, <2>3, OneMoves
<1> QED BY <1>1, <1>2

\* A step that writes neither store, nor ends the clearing of a label.
LEMMA Quiet ==
  ASSUME StoreInv, NEW c \in Cmds, Step(c), UNCHANGED <<files, labels, clobbered>>,
         cut \subseteq cut', pc[c] = "unlabelling" => pid[c] \in cut',
         pc'[c] \notin {"labelling", "relabelling", "unlinking", "unlabelling"},
         \A d \in Cmds \ {c} : mem'[d] = mem[d]
  PROVE  CachedInv' /\ HoldInv' /\ NoDangling'
<1>1. /\ \A d \in Cmds \ {c} : pc'[d] = pc[d] /\ pid'[d] = pid[d]
      /\ mixed \subseteq mixed'
  BY OneMoves DEF StoreInv, LabelInv
<1>2. CachedInv'
  BY <1>1 DEF StoreInv, CachedInv
<1>3. HoldInv'
  BY <1>1 DEF StoreInv, HoldInv
<1>4. NoDangling'
  <2> SUFFICES ASSUME ~clobbered, NEW p \in Pids \ (mixed' \cup cut'),
                      labels[p] # NoLabel, files[p] = Absent
               PROVE  \E d \in Cmds : pc'[d] = "unlabelling" /\ pid'[d] = p
    BY DEF NoDangling
  <2>1. PICK d \in Cmds : pc[d] = "unlabelling" /\ pid[d] = p
    BY <1>1 DEF StoreInv, NoDangling
  <2>2. d # c
    BY <2>1
  <2> QED BY <1>1, <2>1, <2>2
<1> QED BY <1>2, <1>3, <1>4

LEMMA StepStore == StoreInv /\ [IdlNext]_idlVars => StoreInv'
<1> SUFFICES ASSUME StoreInv, [IdlNext]_idlVars PROVE StoreInv'
  OBVIOUS
<1>0. CASE UNCHANGED idlVars
  BY <1>0, StepLabels
     DEF StoreInv, MixedInv, CachedInv, HoldInv, NoDangling, idlVars, work, history
<1>L. LabelInv'
  BY StepLabels DEF StoreInv
<1> SUFFICES ASSUME NEW c \in Cmds, Step(c) PROVE StoreInv'
  BY <1>0 DEF IdlNext, Step
<1> SUFFICES CachedInv' /\ HoldInv' /\ NoDangling'
  BY <1>L, StepMixed DEF StoreInv, LabelInv
<1>T. TypeInv /\ pc \in [Cmds -> PcValues] /\ files \in [Pids -> Idls \cup {Absent}]
      /\ labels \in LabelMaps
  BY DEF StoreInv, LabelInv, TypeInv, IdlTypeOK, PcValues, Searching, Changing, Ended,
         LabelMaps
<1>P. /\ \A d \in Cmds \ {c} : pc'[d] = pc[d] /\ pid'[d] = pid[d]
      /\ mixed \subseteq mixed'
  BY <1>T, OneMoves
\* Nobody else changes the program of a command unless that is on record.
<1>M. \A d \in Cmds \ {c} : pc[c] \in Changing /\ pc[d] \in Changing
                            /\ pid[d] \notin mixed => pid[c] # pid[d]
  BY DEF StoreInv, MixedInv
<1> USE DEF Goto, Finish, work, history
<1>1. ASSUME NEW j \in Asked[c], Begin(c, j) PROVE CachedInv' /\ HoldInv' /\ NoDangling'
  <2>0. /\ j.op \in {"add", "list", "remove", "call"}
        /\ j.op = "remove" => j.mode # "both"
    BY JobsAssumption
  <2>1. pc'[c] \in {"ended", "loading", "removing", "calling", "resolving", "listing"}
    <3>1. CASE j.op = "add"
      BY <1>1, <3>1, <1>T DEF Begin
    <3>2. CASE j.op = "remove"
      BY <1>1, <3>2, <2>0, <1>T DEF Begin
    <3>3. CASE j.op = "call"
      BY <1>1, <3>3, <1>T DEF Begin
    <3>4. CASE j.op = "list"
      BY <1>1, <3>4, <1>T DEF Begin
    <3> QED BY <2>0, <3>1, <3>2, <3>3, <3>4
  <2>2. UNCHANGED <<files, labels, clobbered, cut, mem>> /\ pc[c] = "idle"
    BY <1>1 DEF Begin
  <2> QED BY <2>1, <2>2, Quiet
<1>2. CASE Resolve(c)
  <2>1. pc'[c] \in {"removing", "calling", "listing"}
    BY <1>2, <1>T DEF Resolve, Resolved
  <2>2. UNCHANGED <<files, labels, clobbered, cut, mem>> /\ pc[c] = "resolving"
    BY <1>2 DEF Resolve
  <2> QED BY <2>1, <2>2, Quiet
<1>3. CASE ReadDir(c) \/ ListLabels(c) \/ \E p \in Pids : ListFile(c, p)
  <2>1. /\ pc[c] \in Searching /\ pc'[c] \in Searching
        /\ UNCHANGED <<files, labels, clobbered, cut>>
        /\ \A d \in Cmds \ {c} : mem'[d] = mem[d]
    BY <1>3, <1>T DEF ReadDir, ListLabels, ListFile, Searching, TypeInv, IdlTypeOK
  <2> QED BY <2>1, Quiet DEF Searching
<1>4. CASE Listed(c)
  <2>1. pc'[c] \in {"ended", "removing", "calling"}
    BY <1>4, <1>T DEF Listed, Resolved
  <2>2. UNCHANGED <<files, labels, clobbered, cut, mem>> /\ pc[c] = "listing files"
    BY <1>4 DEF Listed
  <2> QED BY <2>1, <2>2, Quiet
<1>5. CASE Load(c)
  <2>1. job[c].source \in Idls \cup BadSources
    BY <1>5, <1>T, JobsAssumption DEF TypeInv, LocalOf, Load
  <2>2. pc'[c] \in {"ended", "storing"}
    BY <1>5, <2>1, <1>T DEF Load, BadSources
  <2>3. UNCHANGED <<files, labels, clobbered, cut, mem>> /\ pc[c] = "loading"
    BY <1>5 DEF Load
  <2> QED BY <2>2, <2>3, Quiet
<1>6. CASE StoreIdl(c)
  <2>1. /\ pc[c] = "storing" /\ pc' = [pc EXCEPT ![c] = "labelling"]
        /\ files' = [files EXCEPT ![pid[c]] = job[c].source]
        /\ UNCHANGED <<labels, clobbered, mem, pid, mixed, cut>>
    BY <1>6 DEF StoreIdl
  <2>2. pid[c] \in Pids /\ job[c].source # Absent
    BY <2>1, <1>T, NamesAssumption DEF TypeInv, LocalOf, Adding, Changing
  <2>3. \A p \in Pids : files'[p] = Absent => files[p] = Absent
    BY <2>1, <2>2, <1>T
  <2>4. CachedInv'
    BY <2>1, <2>2, <1>T, <1>P DEF StoreInv, CachedInv, TypeInv, LocalOf, Changing
  <2>5. HoldInv'
    BY <2>1, <1>T, <1>P DEF StoreInv, HoldInv
  <2>6. NoDangling'
    BY <2>1, <2>3, <1>T, <1>P DEF StoreInv, NoDangling
  <2> QED BY <2>4, <2>5, <2>6
<1>7. CASE AddReadsLabels(c)
  <2>1. /\ pc[c] = "labelling" /\ pc'[c] \in {"ended", "relabelling"}
        /\ UNCHANGED <<files, labels, clobbered, pid, mixed, cut>>
        /\ \A d \in Cmds \ {c} : mem'[d] = mem[d]
    BY <1>7, <1>T DEF AddReadsLabels, ReadLabels, TypeInv, IdlTypeOK
  <2>2. CachedInv'
    BY <2>1, <1>P DEF StoreInv, CachedInv
  <2>3. HoldInv'
    BY <2>1, <1>P DEF StoreInv, HoldInv
  <2>4. NoDangling'
    BY <2>1, <1>P DEF StoreInv, NoDangling
  <2> QED BY <2>2, <2>3, <2>4
<1>8. CASE RemoveReadsLabels(c)
  <2>1. /\ pc[c] = "removing" /\ pc'[c] = "unlinking" /\ mem'[c] = labels
        /\ UNCHANGED <<files, labels, clobbered, pid, mixed, cut>>
        /\ \A d \in Cmds \ {c} : mem'[d] = mem[d]
    BY <1>8, <1>T DEF RemoveReadsLabels, ReadLabels, TypeInv, IdlTypeOK
  <2>2. CachedInv'
    BY <2>1, <1>P DEF StoreInv, CachedInv
  <2>3. HoldInv'
    BY <2>1, <1>P DEF StoreInv, HoldInv
  <2>4. NoDangling'
    BY <2>1, <1>P DEF StoreInv, NoDangling
  <2> QED BY <2>2, <2>3, <2>4
<1>9. CASE Unlink(c)
  <2>1. /\ pc[c] = "unlinking"
        /\ UNCHANGED <<labels, clobbered, mem, pid, mixed, cut>>
        /\ \/ files' = files /\ pc'[c] = "ended"
           \/ /\ files' = [files EXCEPT ![pid[c]] = Absent]
              /\ IF mem[c][pid[c]] = NoLabel THEN pc'[c] = "ended"
                                             ELSE pc'[c] = "unlabelling"
    BY <1>9, <1>T DEF Unlink
  <2>2. pid[c] \in Pids /\ pc[c] \in Changing
    BY <2>1, <1>T DEF TypeInv, LocalOf, Changing
  <2>3. CachedInv'
    <3> SUFFICES ASSUME NEW d \in Cmds, pc'[d] \in {"labelling", "relabelling"},
                        pid[d] \notin mixed
                 PROVE  files'[pid[d]] # Absent
      BY <2>1 DEF CachedInv
    <3>1. d # c /\ pc[d] = pc'[d] /\ pc[d] \in Changing
      BY <2>1, <1>P DEF Changing
    <3>2. pid[c] # pid[d] /\ pid[d] \in Pids /\ files[pid[d]] # Absent
      BY <2>2, <3>1, <1>M, <1>T DEF StoreInv, CachedInv, TypeInv, LocalOf
    <3> QED BY <2>1, <2>2, <3>2, <1>T
  <2>4. HoldInv'
    BY <2>1, <1>P DEF StoreInv, HoldInv
  <2>5. NoDangling'
    <3> SUFFICES ASSUME ~clobbered, NEW p \in Pids \ (mixed \cup cut),
                        labels[p] # NoLabel, files'[p] = Absent
                 PROVE  \E d \in Cmds : pc'[d] = "unlabelling" /\ pid[d] = p
      BY <2>1 DEF NoDangling
    <3>1. CASE files[p] = Absent
      BY <2>1, <3>1, <1>P DEF StoreInv, NoDangling
    <3>2. CASE files[p] # Absent
      <4>1. p = pid[c] /\ files' # files
        BY <2>1, <3>2, <1>T
      <4>2. mem[c][p] = labels[p]
        BY <2>1, <4>1 DEF StoreInv, HoldInv
      <4> QED BY <2>1, <4>1, <4>2
    <3> QED BY <3>1, <3>2
  <2> QED BY <2>3, <2>4, <2>5
<1>10. ASSUME NEW l \in Labels \cup {NoLabel}, pc[c] \in {"relabelling", "unlabelling"},
              WriteLabels(c, [mem[c] EXCEPT ![pid[c]] = l]), pc'[c] = "ended",
              UNCHANGED <<files, mem, pid, mixed, cut>>,
              pc[c] = "unlabelling" => l = NoLabel
       PROVE  CachedInv' /\ HoldInv' /\ NoDangling'
  <2>1. pid[c] \in Pids /\ pc[c] \in Changing
    BY <1>10, <1>T DEF TypeInv, LocalOf, Changing
  <2>2. ~clobbered' => ~clobbered /\ labels' = [labels EXCEPT ![pid[c]] = l]
    BY <1>10 DEF WriteLabels, StoreInv, LabelInv, ReadInv
  <2>3. CachedInv'
    BY <1>10, <1>P DEF StoreInv, CachedInv
  <2>4. HoldInv'
    <3> SUFFICES ASSUME ~clobbered', NEW d \in Cmds, pid[d] \notin mixed,
                        pc'[d] \in {"unlinking", "unlabelling"}
                 PROVE  mem[d][pid[d]] = labels'[pid[d]]
      BY <1>10 DEF HoldInv
    <3>1. d # c /\ pc[d] = pc'[d] /\ pc[d] \in Changing
      BY <1>10, <1>P DEF Changing
    <3>2. pid[c] # pid[d] /\ pid[d] \in Pids
      BY <2>1, <3>1, <1>M, <1>T DEF TypeInv, LocalOf
    <3> QED BY <2>2, <3>1, <3>2, <1>T DEF StoreInv, HoldInv, LabelMaps
  <2>5. NoDangling'
    <3> SUFFICES ASSUME ~clobbered', NEW p \in Pids \ (mixed \cup cut),
                        labels'[p] # NoLabel, files[p] = Absent
                 PROVE  \E d \in Cmds : pc'[d] = "unlabelling" /\ pid[d] = p
      BY <1>10 DEF NoDangling
    <3>1. p # pid[c]
      <4>1. CASE pc[c] = "relabelling"
        BY <4>1 DEF StoreInv, CachedInv
      <4>2. CASE pc[c] = "unlabelling"
        BY <4>2, <1>10, <2>1, <2>2, <1>T DEF LabelMaps
      <4> QED BY <1>10, <4>1, <4>2
    <3>2. labels[p] # NoLabel
      BY <2>1, <2>2, <3>1, <1>T DEF LabelMaps
    <3>3. PICK d \in Cmds : pc[d] = "unlabelling" /\ pid[d] = p
      BY <2>2, <3>2 DEF StoreInv, NoDangling
    <3> QED BY <3>1, <3>3, <1>P
  <2> QED BY <2>3, <2>4, <2>5
<1>11. CASE Relabel(c)
  <2>1. job[c].label \in Labels \cup {NoLabel} /\ pc[c] = "relabelling"
    BY <1>11, <1>T DEF Relabel, TypeInv, LocalOf
  <2>2. /\ WriteLabels(c, [mem[c] EXCEPT ![pid[c]] = job[c].label])
        /\ UNCHANGED <<files, mem, pid, mixed, cut>> /\ pc'[c] = "ended"
    BY <1>11, <1>T DEF Relabel
  <2> QED BY <2>1, <2>2, <1>10
<1>12. CASE Unlabel(c)
  BY <1>12, <1>10, <1>T DEF Unlabel
<1>13. CASE ReadIdl(c) \/ Call(c)
  BY <1>13, <1>T, Quiet DEF ReadIdl, Call
<1>14. CASE Stop(c)
  BY <1>14, <1>T, Quiet DEF Stop
<1> QED
  BY <1>1, <1>2, <1>3, <1>4, <1>5, <1>6, <1>7, <1>8, <1>9, <1>11, <1>12, <1>13,
     <1>14 DEF Step

\* No label of the file names a program that is not cached, however adds and
\* removals overlap, except for what a removal is about to clear or stopped before
\* clearing, programs that two commands changed at the same time, and labels that
\* were written over (idl-load.ts).
THEOREM NoneDangling == IdlSpec => []NoDangling
<1>1. StoreInv => NoDangling
  BY DEF StoreInv
<1> QED BY InitStore, StepStore, <1>1, PTL DEF IdlSpec

-----------------------------------------------------------------------------
(* Recursion over 0..N. *)

LEMMA Least ==
  ASSUME NEW S, S \subseteq Nat, S # {}
  PROVE  \E m \in S : \A n \in S : m <= n
<1> DEFINE R == {ss \in Nat \X Nat : ss[1] < ss[2]}
<1>1. R = OpToRel(<, Nat)
  BY Zenon DEF OpToRel
<1>2. IsWellFoundedOn(R, Nat)
  BY <1>1, NatLessThanWellFounded, Zenon
<1> HIDE DEF R
<1>3. PICK m \in S : \A n \in S : <<n, m>> \notin R
  BY <1>2, WFMin
<1>4. ASSUME NEW n \in S, n < m PROVE FALSE
  <2>1. <<n, m>> \in Nat \X Nat /\ <<n, m>>[1] < <<n, m>>[2]
    BY <1>4
  <2>2. <<n, m>> \in R
    BY <2>1, Zenon DEF R
  <2> QED
    BY <1>3, <2>2
<1> QED
  BY <1>4

\* What holds of 0, and of n + 1 whenever it holds of n, holds up to N: "good" is the
\* set of the numbers it holds of.
LEMMA UpTo ==
  ASSUME NEW N \in Nat, NEW good, 0 \in good,
         \A n \in 0..N : n < N /\ n \in good => n + 1 \in good
  PROVE  \A n \in 0..N : n \in good
<1> DEFINE bad == {n \in 0..N : n \notin good}
<1>1. ASSUME bad # {} PROVE FALSE
  <2>0. bad \subseteq Nat
    OBVIOUS
  <2>1. PICK m \in bad : \A n \in bad : m <= n
    <3> HIDE DEF bad
    <3> QED BY <1>1, <2>0, Least
  <2>2. m # 0 /\ m - 1 \in 0..N /\ m - 1 < N /\ (m - 1) + 1 = m /\ m - 1 \in good
    BY <2>1
  <2>3. (m - 1) + 1 \in good
    BY <2>2
  <2> QED BY <2>1, <2>2, <2>3
<1> QED BY <1>1

\* f is the function on 0..N that the first value and each step define.
Defined(f, N, S, first, step) ==
  /\ f \in [0..N -> S] /\ f[0] = first
  /\ \A i \in 1..N : f[i] = step[<<i, f[i - 1]>>]

LEMMA Stepwise ==
  ASSUME NEW N \in Nat, NEW S, NEW first \in S, NEW step \in [(1..N) \X S -> S]
  PROVE  \E f : Defined(f, N, S, first, step)
<1> DEFINE built(n) == \E f \in [0..n -> S] :
                         f[0] = first /\ \A i \in 1..n : f[i] = step[<<i, f[i - 1]>>]
           good == {n \in 0..N : built(n)}
<1>1. built(0)
  <2> DEFINE f == [i \in 0..0 |-> first]
  <2>1. f \in [0..0 -> S] /\ f[0] = first /\ \A i \in 1..0 : FALSE
    OBVIOUS
  <2> QED BY <2>1
<1>2. ASSUME NEW n \in 0..N, n < N, built(n) PROVE built(n + 1)
  <2>1. PICK f \in [0..n -> S] : f[0] = first /\ \A i \in 1..n : f[i] = step[<<i, f[i - 1]>>]
    BY <1>2
  <2> DEFINE g == [i \in 0..n + 1 |-> IF i = n + 1 THEN step[<<n + 1, f[n]>>] ELSE f[i]]
  <2>2. n \in 0..n /\ f[n] \in S /\ n + 1 \in 1..N
    BY <1>2, <2>1
  <2>3. step[<<n + 1, f[n]>>] \in S
    BY <2>2
  <2>4. g \in [0..n + 1 -> S]
    BY <2>1, <2>3
  <2>5. g[0] = first
    BY <2>1
  <2>6. ASSUME NEW i \in 1..n + 1 PROVE g[i] = step[<<i, g[i - 1]>>]
    <3>1. g[i - 1] = f[i - 1]
      BY <2>6
    <3>2. CASE i = n + 1
      <4>1. i - 1 = n /\ g[i] = step[<<n + 1, f[n]>>]
        BY <3>2
      <4> HIDE DEF g
      <4> QED BY <3>1, <3>2, <4>1
    <3>3. CASE i # n + 1
      <4>1. i \in 1..n /\ g[i] = f[i]
        BY <2>6, <3>3
      <4> QED BY <2>1, <3>1, <4>1
    <3> QED BY <3>2, <3>3
  <2> HIDE DEF g
  <2> QED BY <2>4, <2>5, <2>6
<1> HIDE DEF built
<1>3. \A n \in 0..N : n \in good
  <2>1. 0 \in good
    BY <1>1
  <2>2. \A n \in 0..N : n < N /\ n \in good => n + 1 \in good
    BY <1>2
  <2> HIDE DEF good
  <2> QED BY <2>1, <2>2, UpTo
<1>4. built(N)
  BY <1>3
<1> QED BY <1>4 DEF built, Defined

-----------------------------------------------------------------------------
(* Numbers and their bytes. *)

LEMMA Powers ==
  /\ Power = [k \in 0..8 |-> IF k = 0 THEN 1 ELSE Base * Power[k - 1]]
  /\ \A k \in 0..8 : Power[k] \in Nat \ {0}
<1> DEFINE S == Nat \ {0}
           step == [p \in (1..8) \X S |-> Base * p[2]]
<1>0. Base \in Nat \ {0}
  BY BaseAssumption
<1>1. step \in [(1..8) \X S -> S]
  <2>1. \A p \in (1..8) \X S : Base * p[2] \in S
    <3> SUFFICES ASSUME NEW p \in (1..8) \X S PROVE Base * p[2] \in S
      OBVIOUS
    <3>1. p[2] \in Nat \ {0}
      OBVIOUS
    <3> HIDE DEF step
    <3> QED BY <1>0, <3>1, SMT
  <2> QED BY <2>1
<1>2. \A i \in 1..8, x \in S : step[<<i, x>>] = Base * x
  OBVIOUS
<1>3. PICK f \in [0..8 -> S] : f[0] = 1 /\ \A i \in 1..8 : f[i] = step[<<i, f[i - 1]>>]
  <2> DEFINE N == 8
             one == 1
  <2> HIDE DEF step
  <2>1. N \in Nat /\ one \in S /\ step \in [(1..N) \X S -> S]
    BY <1>1
  <2> HIDE DEF S, N, one
  <2>2. \E g : Defined(g, N, S, one, step)
    BY <2>1, Stepwise
  <2> QED BY <2>2 DEF Defined, N, one
<1>4. f = [k \in 0..8 |-> IF k = 0 THEN 1 ELSE Base * f[k - 1]]
  <2>1. \A k \in 0..8 : f[k] = IF k = 0 THEN 1 ELSE Base * f[k - 1]
    <3> SUFFICES ASSUME NEW k \in 1..8 PROVE f[k] = Base * f[k - 1]
      BY <1>3
    <3>1. f[k - 1] \in S
      BY <1>3
    <3> HIDE DEF step
    <3> QED BY <1>2, <1>3, <3>1
  <2> HIDE DEF step
  <2> QED BY <2>1
<1>5. Power = [k \in 0..8 |-> IF k = 0 THEN 1 ELSE Base * Power[k - 1]]
  BY <1>4, Zenon DEF Power
<1>6. ASSUME NEW k \in 0..8, Power[k] = f[k], k < 8 PROVE Power[k + 1] = f[k + 1]
  <2>1. k + 1 \in 0..8 /\ k + 1 # 0 /\ (k + 1) - 1 = k
    BY <1>6
  <2>2. Power[k + 1] = Base * Power[k]
    BY <2>1, <1>5
  <2>3. f[k + 1] = Base * f[k]
    BY <2>1, <1>4
  <2> QED BY <1>6, <2>2, <2>3
<1>7. \A k \in 0..8 : Power[k] = f[k]
  <2> DEFINE good == {k \in 0..8 : Power[k] = f[k]}
  <2>1. 0 \in good
    BY <1>3, <1>5
  <2>2. \A k \in 0..8 : k < 8 /\ k \in good => k + 1 \in good
    BY <1>6
  <2> HIDE DEF good
  <2>3. \A k \in 0..8 : k \in good
    BY <2>1, <2>2, UpTo
  <2> QED BY <2>3 DEF good
<1> QED BY <1>3, <1>5, <1>7

LEMMA Power1 == \A k \in 0..7 : Power[k + 1] = Base * Power[k]
<1> SUFFICES ASSUME NEW k \in 0..7 PROVE Power[k + 1] = Base * Power[k]
  OBVIOUS
<1>1. k + 1 \in 0..8 /\ k + 1 # 0 /\ (k + 1) - 1 = k
  OBVIOUS
<1> QED BY <1>1, Powers

LEMMA Quotient ==
  ASSUME NEW D \in Nat \ {0}, NEW n \in Int, NEW s \in Int, NEW u \in 0..D - 1, n = D * s + u
  PROVE  n \div D = s /\ n % D = u
<1>1. n \div D = s
  BY SMT
<1>2. n % D = u
  BY SMT
<1> QED BY <1>1, <1>2

LEMMA Division ==
  ASSUME NEW D \in Nat \ {0}, NEW n \in Int
  PROVE  n \div D \in Int /\ (n % D) \in 0..D - 1 /\ n = D * (n \div D) + (n % D)
<1>1. n \div D \in Int
  BY SMT
<1>2. (n % D) \in 0..D - 1
  BY SMT
<1>3. n = D * (n \div D) + (n % D)
  BY SMT
<1> QED BY <1>1, <1>2, <1>3

\* The remainder by P * B has one more digit than the remainder by P.
LEMMA NextDigit ==
  ASSUME NEW P \in Nat \ {0}, NEW B \in Nat \ {0}, NEW n \in Int
  PROVE  n % (B * P) = (n % P) + ((n \div P) % B) * P
<1> DEFINE q == n \div P
           r == n % P
           s == q \div B
           t == q % B
<1>1. q \in Int /\ r \in 0..P - 1 /\ n = P * q + r
  BY Division
<1>2. s \in Int /\ t \in 0..B - 1 /\ q = B * s + t
  BY <1>1, Division
<1> HIDE DEF q, r, s, t
<1>3. B * P \in Nat \ {0}
  BY SMT
<1>4. r + t * P \in 0..(B * P) - 1
  BY <1>1, <1>2, SMT
<1>5. n = (B * P) * s + (r + t * P)
  BY <1>1, <1>2, SMT
<1>6. n % (B * P) = r + t * P
  BY <1>2, <1>3, <1>4, <1>5, Quotient
<1> QED BY <1>6 DEF q, r, t

LEMMA TakeAfter ==
  ASSUME NEW S, NEW x \in Seq(S), NEW s \in Seq(S)
  PROVE  Take(x \o s, Len(x)) = x /\ After(x \o s, Len(x)) = s
<1> DEFINE xs == x \o s
           n == Len(x)
<1>1. /\ xs \in Seq(S) /\ n \in Nat /\ Len(xs) = n + Len(s) /\ Len(s) \in Nat
      /\ \A i \in 1..n + Len(s) : xs[i] = IF i <= n THEN x[i] ELSE s[i - n]
  BY ConcatProperties
<1>2. x = [i \in 1..n |-> x[i]] /\ s = [i \in 1..Len(s) |-> s[i]]
  OBVIOUS
<1> HIDE DEF xs, n
<1>3. Take(xs, n) = [i \in 1..n |-> x[i]]
  <2>1. Take(xs, n) = [i \in 1..n |-> xs[i]]
    BY <1>1 DEF Take
  <2>2. \A i \in 1..n : xs[i] = x[i]
    BY <1>1
  <2> QED BY <2>1, <2>2
<1>4. After(xs, n) = [i \in 1..Len(s) |-> s[i]]
  <2>1. After(xs, n) = [i \in 1..Len(s) |-> xs[i + n]]
    BY <1>1 DEF After
  <2>2. \A i \in 1..Len(s) : xs[i + n] = s[i]
    BY <1>1
  <2> QED BY <2>1, <2>2
<1> QED BY <1>2, <1>3, <1>4 DEF xs, n

\* After a single byte.
LEMMA AfterOne ==
  ASSUME NEW S, NEW x \in S, NEW s \in Seq(S)
  PROVE  (<<x>> \o s)[1] = x /\ After(<<x>> \o s, 1) = s /\ <<x>> \o s \in Seq(S)
<1>1. <<x>> \in Seq(S) /\ Len(<<x>>) = 1
  OBVIOUS
<1>2. After(<<x>> \o s, 1) = s
  BY <1>1, TakeAfter
<1> QED BY <1>1, <1>2

LEMMA Base2 == Base \in Nat \ {0} /\ 0 \in Byte /\ 1 \in Byte /\ Byte \subseteq Nat
BY BaseAssumption DEF Byte

LEMMA Digits ==
  ASSUME NEW n \in Int, NEW w \in 0..8
  PROVE  /\ LE(n, w) \in Seq(Byte) /\ Len(LE(n, w)) = w
         /\ \A i \in 1..w : LE(n, w)[i] = (n \div Power[i - 1]) % Base
<1>1. ASSUME NEW i \in 1..w PROVE (n \div Power[i - 1]) % Base \in Byte
  <2>1. Power[i - 1] \in Nat \ {0}
    BY Powers
  <2>2. n \div Power[i - 1] \in Int
    BY <2>1, Division
  <2> QED BY <2>2, Base2, Division DEF Byte
<1> QED BY <1>1 DEF LE

\* The bytes of a number say what is left of it in their width.
LEMMA FromBytes ==
  ASSUME NEW n \in Int, NEW w \in 0..8
  PROVE  FromLE(LE(n, w)) = n % Power[w]
<1> DEFINE b == LE(n, w)
           f == [i \in 0..w |-> n % Power[i]]
           sum == CHOOSE g : g = [i \in 0..w |-> IF i = 0 THEN 0
                                                 ELSE g[i - 1] + b[i] * Power[i - 1]]
<1>1. Len(b) = w /\ \A i \in 1..w : b[i] = (n \div Power[i - 1]) % Base
  BY Digits
<1>2. n % Power[0] = 0
  <2>1. Power[0] = 1
    BY Powers
  <2> QED BY <2>1
<1>3. ASSUME NEW i \in 1..w
      PROVE  n % Power[i] = (n % Power[i - 1]) + b[i] * Power[i - 1]
  <2>1. i - 1 \in 0..7 /\ (i - 1) + 1 = i /\ i - 1 \in 0..8
    OBVIOUS
  <2>2. Power[i] = Base * Power[i - 1] /\ Power[i - 1] \in Nat \ {0}
    BY <2>1, Power1, Powers
  <2>3. n % (Base * Power[i - 1])
          = (n % Power[i - 1]) + ((n \div Power[i - 1]) % Base) * Power[i - 1]
    BY <2>2, Base2, NextDigit
  <2> QED BY <1>1, <2>2, <2>3
<1> HIDE DEF b
<1>4. f = [i \in 0..w |-> IF i = 0 THEN 0 ELSE f[i - 1] + b[i] * Power[i - 1]]
  <2>1. \A i \in 0..w : f[i] = IF i = 0 THEN 0 ELSE f[i - 1] + b[i] * Power[i - 1]
    <3>0. f[0] = 0
      BY <1>2
    <3> SUFFICES ASSUME NEW i \in 1..w PROVE f[i] = f[i - 1] + b[i] * Power[i - 1]
      <4> HIDE DEF f
      <4> QED BY <3>0
    <3>1. f[i] = n % Power[i] /\ f[i - 1] = n % Power[i - 1]
      OBVIOUS
    <3> QED BY <1>3, <3>1
  <2> QED BY <2>1
<1> HIDE DEF f
<1>5. sum = [i \in 0..w |-> IF i = 0 THEN 0 ELSE sum[i - 1] + b[i] * Power[i - 1]]
  BY <1>4, Zenon
<1>6. FromLE(b) = sum[w]
  BY <1>1 DEF FromLE
<1> HIDE DEF sum
<1>7. \A i \in 0..w : sum[i] = n % Power[i]
  <2> DEFINE good == {i \in 0..w : sum[i] = n % Power[i]}
  <2>1. 0 \in good
    BY <1>2, <1>5
  <2>2. ASSUME NEW i \in 0..w, i < w, i \in good PROVE i + 1 \in good
    <3>1. i + 1 \in 1..w /\ (i + 1) - 1 = i /\ i + 1 \in 0..w /\ i + 1 # 0
      BY <2>2
    <3>2. sum[i + 1] = sum[i] + b[i + 1] * Power[i]
      BY <1>5, <3>1
    <3>3. n % Power[i + 1] = (n % Power[i]) + b[i + 1] * Power[i]
      BY <1>3, <3>1
    <3> QED BY <2>2, <3>1, <3>2, <3>3
  <2>3. w \in Nat
    OBVIOUS
  <2> HIDE DEF good
  <2>4. \A i \in 0..w : i \in good
    BY <2>1, <2>2, <2>3, UpTo
  <2> QED BY <2>4 DEF good
<1> QED BY <1>6, <1>7 DEF b

LEMMA Remainder == ASSUME NEW P \in Nat \ {0}, NEW n \in 0..P - 1 PROVE n % P = n
BY SMT

LEMMA SmallNumber ==
  ASSUME NEW w \in 0..8, NEW n \in 0..Power[w] - 1
  PROVE  FromLE(LE(n, w)) = n
<1>1. Power[w] \in Nat \ {0}
  BY Powers
<1>2. n % Power[w] = n
  BY <1>1, Remainder
<1> QED BY <1>2, FromBytes

\* What a program makes of an unsigned number read from so many bytes.
Value(name, m) ==
  IF name \in Signed /\ 2 * m >= Power[Width(name)] THEN m - Power[Width(name)] ELSE m

LEMMA WidthOf == ASSUME NEW name PROVE Width(name) \in 1..8 /\ Width(name) \in 0..8
BY DEF Width

\* An integer in the range of its type is read as it was written, in any base: what
\* setUint and setBigUint leave in the bytes of an instruction is what the program
\* gets out of them, negative numbers included (idl-synth.ts, u8
\* to i64LE).
THEOREM IntegerRead ==
  ASSUME NEW name \in Integral, NEW n \in Int, InRange(name, n)
  PROVE  Value(name, FromLE(LE(n, Width(name)))) = n
<1> DEFINE w == Width(name)
           P == Power[w]
           h == P \div 2
<1>0. w \in 0..8
  BY WidthOf
<1>1. P \in Nat \ {0}
  BY <1>0, Powers
<1>2. h \in Int /\ 2 * h <= P /\ P <= 2 * h + 1
  BY <1>1
<1>3. FromLE(LE(n, w)) = n % P
  BY <1>0, FromBytes
<1>4. IF name \in Signed THEN -h <= n /\ n < h ELSE 0 <= n /\ n < P
  BY DEF InRange, Min, Limit
<1>5. Value(name, n % P) = IF name \in Signed /\ 2 * (n % P) >= P THEN (n % P) - P ELSE n % P
  BY DEF Value
<1> HIDE DEF w, P, h
<1>6. CASE 0 <= n /\ n < P
  <2>1. n \in 0..P - 1
    BY <1>1, <1>6
  <2>2. n % P = n
    BY <1>1, <2>1, Remainder
  <2> QED BY <1>1, <1>2, <1>3, <1>4, <1>5, <2>2 DEF w
<1>7. CASE n < 0
  <2>1. n = P * (-1) + (n + P) /\ n + P \in 0..P - 1
    BY <1>1, <1>2, <1>4, <1>7
  <2>2. n % P = n + P
    BY <1>1, <2>1, Quotient
  <2>3. name \in Signed /\ 2 * (n + P) >= P
    BY <1>1, <1>2, <1>4, <1>7
  <2> QED BY <1>3, <1>5, <2>2, <2>3, <1>1 DEF w
<1>8. (0 <= n /\ n < P) \/ n < 0
  BY <1>1, <1>2, <1>4
<1> QED BY <1>6, <1>7, <1>8

-----------------------------------------------------------------------------
(* Parts one after the other. *)

Outs == [ok : BOOLEAN, data : Seq(Byte)]

LEMMA Tuple ==
  ASSUME NEW n \in Nat, NEW f, f = [i \in 1..n |-> f[i]]
  PROVE  f \in Seq({f[i] : i \in 1..n}) /\ Len(f) = n
OBVIOUS

LEMMA OutsOf ==
  /\ Invalid \in Outs /\ ~Invalid.ok
  /\ \A d \in Seq(Byte) : Bytes(d) \in Outs /\ Bytes(d).ok /\ Bytes(d).data = d
  /\ \A o \in Outs : o.ok \in BOOLEAN /\ o.data \in Seq(Byte)
BY DEF Outs, Invalid, Bytes

\* One more part.
Join(out, part) ==
  IF ~out.ok THEN out ELSE IF ~part.ok THEN part ELSE Bytes(out.data \o part.data)

Joins(f, n, parts) ==
  /\ f \in [0..n -> Outs] /\ f[0] = Bytes(<<>>)
  /\ \A i \in 1..n : f[i] = Join(f[i - 1], parts[i])

LEMMA JoinTyped == \A o \in Outs, p \in Outs : Join(o, p) \in Outs
<1> SUFFICES ASSUME NEW o \in Outs, NEW p \in Outs PROVE Join(o, p) \in Outs
  OBVIOUS
<1>1. o.data \o p.data \in Seq(Byte)
  BY OutsOf
<1> QED BY <1>1, OutsOf DEF Join

LEMMA Concat ==
  ASSUME NEW n \in Nat, NEW parts, parts = [i \in 1..n |-> parts[i]],
         \A i \in 1..n : parts[i] \in Outs
  PROVE  \E f : Joins(f, n, parts) /\ concatBytes(parts) = f[n]
<1> DEFINE step == [p \in (1..n) \X Outs |-> Join(p[2], parts[p[1]])]
           all == CHOOSE g : g = [i \in 0..n |->
                    IF i = 0 THEN Bytes(<<>>)
                    ELSE IF ~g[i - 1].ok THEN g[i - 1]
                    ELSE IF ~parts[i].ok THEN parts[i]
                    ELSE Bytes(g[i - 1].data \o parts[i].data)]
           first == Bytes(<<>>)
<1>0. Len(parts) = n
  BY Tuple
<1>1. step \in [(1..n) \X Outs -> Outs]
  BY JoinTyped
<1>2. first \in Outs
  <2>1. <<>> \in Seq(Byte)
    OBVIOUS
  <2> QED BY <2>1, OutsOf
<1>3. PICK f : Defined(f, n, Outs, first, step)
  <2> HIDE DEF first, step
  <2> QED BY <1>1, <1>2, Stepwise
<1>4. \A i \in 1..n : f[i] = Join(f[i - 1], parts[i])
  <2> SUFFICES ASSUME NEW i \in 1..n PROVE f[i] = Join(f[i - 1], parts[i])
    OBVIOUS
  <2>1. f[i - 1] \in Outs /\ f[i] = step[<<i, f[i - 1]>>]
    <3> HIDE DEF step
    <3> QED BY <1>3 DEF Defined
  <2> QED BY <2>1
<1>5. Joins(f, n, parts)
  BY <1>3, <1>4 DEF Joins, Defined
<1>6. f = [i \in 0..n |-> IF i = 0 THEN Bytes(<<>>)
                        ELSE IF ~f[i - 1].ok THEN f[i - 1]
                        ELSE IF ~parts[i].ok THEN parts[i]
                        ELSE Bytes(f[i - 1].data \o parts[i].data)]
  <2>1. \A i \in 0..n : f[i] = IF i = 0 THEN Bytes(<<>>) ELSE Join(f[i - 1], parts[i])
    BY <1>5 DEF Joins
  <2>2. f = [i \in 0..n |-> IF i = 0 THEN Bytes(<<>>) ELSE Join(f[i - 1], parts[i])]
    BY <1>5, <2>1 DEF Joins
  <2> QED BY <2>2 DEF Join
<1>7. concatBytes(parts) = all[n]
  BY <1>0 DEF concatBytes
<1>8. all = [i \in 0..n |-> IF i = 0 THEN Bytes(<<>>)
                          ELSE IF ~all[i - 1].ok THEN all[i - 1]
                          ELSE IF ~parts[i].ok THEN parts[i]
                          ELSE Bytes(all[i - 1].data \o parts[i].data)]
  BY <1>6, Zenon
<1> HIDE DEF all, step, first
<1>9. \A i \in 0..n : all[i] = f[i]
  <2> DEFINE good == {i \in 0..n : all[i] = f[i]}
  <2>1. 0 \in good
    BY <1>6, <1>8
  <2>2. ASSUME NEW i \in 0..n, i < n, i \in good PROVE i + 1 \in good
    <3>1. i + 1 \in 0..n /\ (i + 1) - 1 = i /\ i + 1 # 0
      BY <2>2
    <3>2. all[i + 1] = Join(all[i], parts[i + 1])
      BY <1>8, <3>1 DEF Join
    <3>3. f[i + 1] = Join(f[i], parts[i + 1])
      BY <1>6, <3>1 DEF Join
    <3> QED BY <2>2, <3>1, <3>2, <3>3
  <2> HIDE DEF good
  <2>3. \A i \in 0..n : i \in good
    BY <2>1, <2>2, UpTo
  <2> QED BY <2>3 DEF good
<1>10. concatBytes(parts) = f[n]
  BY <1>7, <1>9
<1> QED BY <1>5, <1>10

LEMMA ConcatOk ==
  ASSUME NEW n \in Nat, NEW parts, parts = [i \in 1..n |-> parts[i]],
         \A i \in 1..n : parts[i] \in Outs
  PROVE  /\ concatBytes(parts) \in Outs
         /\ concatBytes(parts).ok <=> \A i \in 1..n : parts[i].ok
<1>1. PICK f : Joins(f, n, parts) /\ concatBytes(parts) = f[n]
  BY Concat
<1> DEFINE good == {i \in 0..n : f[i].ok <=> \A j \in 1..i : parts[j].ok}
<1>2. 0 \in good
  <2>1. <<>> \in Seq(Byte)
    OBVIOUS
  <2>2. f[0].ok
    BY <1>1, <2>1, OutsOf DEF Joins
  <2> QED BY <2>2
<1>3. ASSUME NEW i \in 0..n, i < n, i \in good PROVE i + 1 \in good
  <2>1. i + 1 \in 1..n /\ (i + 1) - 1 = i /\ i + 1 \in 0..n
    BY <1>3
  <2>2. f[i] \in Outs /\ parts[i + 1] \in Outs /\ f[i + 1] = Join(f[i], parts[i + 1])
    BY <1>1, <2>1 DEF Joins
  <2>3. f[i + 1].ok <=> f[i].ok /\ parts[i + 1].ok
    <3>1. f[i].data \o parts[i + 1].data \in Seq(Byte)
      BY <2>2, OutsOf
    <3>2. CASE ~f[i].ok
      BY <2>2, <3>2 DEF Join
    <3>3. CASE f[i].ok /\ ~parts[i + 1].ok
      BY <2>2, <3>3 DEF Join
    <3>4. CASE f[i].ok /\ parts[i + 1].ok
      BY <2>2, <3>4 DEF Join, Bytes
    <3> QED BY <3>2, <3>3, <3>4
  <2>4. (\A j \in 1..i + 1 : parts[j].ok) <=> (\A j \in 1..i : parts[j].ok) /\ parts[i + 1].ok
    <3>1. \A j : j \in 1..i + 1 <=> j \in 1..i \/ j = i + 1
      BY <2>1
    <3> QED BY <3>1, Zenon
  <2>5. f[i].ok <=> \A j \in 1..i : parts[j].ok
    BY <1>3
  <2> HIDE DEF good
  <2>6. f[i + 1].ok <=> \A j \in 1..i + 1 : parts[j].ok
    BY <2>3, <2>4, <2>5, Zenon
  <2> QED BY <2>1, <2>6 DEF good
<1> HIDE DEF good
<1>4. \A i \in 0..n : i \in good
  BY <1>2, <1>3, UpTo
<1>5. n \in good /\ f[n] \in Outs
  BY <1>1, <1>4 DEF Joins
<1> QED BY <1>1, <1>5 DEF good

LEMMA Assoc ==
  ASSUME NEW a \in Seq(Byte), NEW b \in Seq(Byte), NEW c \in Seq(Byte)
  PROVE  (a \o b) \o c = a \o (b \o c)
BY ConcatAssociative

LEMMA DataAssoc ==
  ASSUME NEW o \in Outs, NEW p \in Outs, NEW s \in Seq(Byte)
  PROVE  (o.data \o p.data) \o s = o.data \o (p.data \o s)
<1>1. o.data \in Seq(Byte) /\ p.data \in Seq(Byte)
  BY OutsOf
<1> QED BY <1>1, Assoc

\* What is left before and after each of m values read from b.
Rests(r, m, readers, b) ==
  /\ r = [i \in 0..m |-> r[i]] /\ r[0] = b
  /\ \A i \in 1..m : r[i] = readers[i][r[i - 1]].rest

LEMMA OneRests ==
  ASSUME NEW n \in Nat, NEW readers, NEW b, NEW q, NEW r,
         Rests(q, n, readers, b), Rests(r, n, readers, b)
  PROVE  \A i \in 0..n : q[i] = r[i]
<1> DEFINE good == {i \in 0..n : q[i] = r[i]}
<1>1. 0 \in good
  BY DEF Rests
<1>2. ASSUME NEW i \in 0..n, i < n, i \in good PROVE i + 1 \in good
  <2>1. i + 1 \in 1..n /\ (i + 1) - 1 = i /\ i + 1 \in 0..n
    BY <1>2
  <2>2. q[i + 1] = readers[i + 1][q[i]].rest
    BY <2>1 DEF Rests
  <2>3. r[i + 1] = readers[i + 1][r[i]].rest
    BY <2>1 DEF Rests
  <2> QED BY <1>2, <2>1, <2>2, <2>3
<1> HIDE DEF good
<1>3. \A i \in 0..n : i \in good
  BY <1>1, <1>2, UpTo
<1> QED BY <1>3 DEF good

EachReads(n, parts, readers, vals) ==
  \A i \in 1..n : \A s \in Seq(Byte) : readers[i][parts[i].data \o s] = Read(vals[i], s)

\* Readers that each read their part give the values of the parts.
LEMMA ConcatRead ==
  ASSUME NEW n \in Nat, NEW parts, parts = [i \in 1..n |-> parts[i]],
         \A i \in 1..n : parts[i] \in Outs,
         NEW readers, readers = [i \in 1..n |-> readers[i]], NEW vals,
         EachReads(n, parts, readers, vals),
         concatBytes(parts).ok, NEW rest \in Seq(Byte)
  PROVE  ReadEach(readers, concatBytes(parts).data \o rest)
           = Read([i \in 1..n |-> vals[i]], rest)
<1>1. PICK f : Joins(f, n, parts) /\ concatBytes(parts) = f[n]
  BY Concat
<1> DEFINE Reads(r, m, s) == /\ Rests(r, m, readers, f[m].data \o s) /\ r[m] = s
                             /\ \A i \in 1..m : readers[i][r[i - 1]].value = vals[i]
           good == {m \in 0..n : f[m].ok => \A s \in Seq(Byte) : \E r : Reads(r, m, s)}
<1> HIDE DEF Reads, good
<1>2. 0 \in good
  <2> SUFFICES ASSUME NEW s \in Seq(Byte) PROVE \E r : Reads(r, 0, s)
    BY DEF good
  <2>0. <<>> \in Seq(Byte)
    OBVIOUS
  <2>1. f[0].data \o s = s
    BY <1>1, <2>0, OutsOf, ConcatEmptySeq DEF Joins
  <2> DEFINE r == [i \in 0..0 |-> s]
  <2>2. r = [i \in 0..0 |-> r[i]] /\ r[0] = s /\ \A i \in 1..0 : FALSE
    OBVIOUS
  <2>3. Rests(r, 0, readers, f[0].data \o s)
    <3> HIDE DEF r
    <3> QED BY <2>1, <2>2 DEF Rests
  <2> HIDE DEF r
  <2>4. Reads(r, 0, s)
    BY <2>2, <2>3 DEF Reads
  <2> QED BY <2>4
<1>3. ASSUME NEW m \in 0..n, m < n, m \in good PROVE m + 1 \in good
  <2>0. m + 1 \in 1..n /\ m + 1 \in 0..n /\ (m + 1) - 1 = m /\ m \in Nat
    BY <1>3
  <2> SUFFICES ASSUME f[m + 1].ok, NEW s \in Seq(Byte) PROVE \E r : Reads(r, m + 1, s)
    BY <2>0 DEF good
  <2> DEFINE d == parts[m + 1].data
             t == d \o s
  <2>1. /\ f[m] \in Outs /\ parts[m + 1] \in Outs
        /\ f[m + 1] = Join(f[m], parts[m + 1])
    BY <1>1, <2>0 DEF Joins
  <2>2. f[m].data \in Seq(Byte) /\ d \in Seq(Byte) /\ t \in Seq(Byte)
        /\ f[m].data \o d \in Seq(Byte)
    BY <2>1, OutsOf
  <2>3. f[m].ok /\ f[m + 1].data = f[m].data \o d
    BY <2>1, <2>2, OutsOf DEF Join
  <2>4. f[m + 1].data \o s = f[m].data \o t
    <3> DEFINE o == f[m]
               p == parts[m + 1]
    <3>1. o \in Outs /\ p \in Outs
      BY <2>1
    <3>2. f[m + 1].data = o.data \o p.data
      BY <2>3
    <3> HIDE DEF o, p
    <3>3. (o.data \o p.data) \o s = o.data \o (p.data \o s)
      BY <3>1, DataAssoc
    <3>4. f[m + 1].data \o s = o.data \o (p.data \o s)
      BY <3>2, <3>3
    <3> QED BY <3>4 DEF o, p
  <2>5. readers[m + 1][t] = Read(vals[m + 1], s)
    BY <2>0 DEF EachReads
  <2> HIDE DEF d, t
  <2>6. PICK r : Reads(r, m, t)
    BY <1>3, <2>2, <2>3 DEF good
  <2>a. Rests(r, m, readers, f[m].data \o t) /\ r[m] = t
        /\ \A i \in 1..m : readers[i][r[i - 1]].value = vals[i]
    BY <2>6 DEF Reads
  <2> DEFINE q == [i \in 0..m + 1 |-> IF i = m + 1 THEN s ELSE r[i]]
             b == f[m + 1].data \o s
  <2>7. q[m + 1] = s /\ \A i \in 0..m : q[i] = r[i]
    BY <2>0
  <2>8. q[0] = b /\ \A i \in 1..m + 1 : q[i] = readers[i][q[i - 1]].rest
    <3> HIDE DEF q
    <3>1. r[0] = b
      BY <2>4, <2>a DEF Rests
    <3>2. \A i \in 1..m : r[i] = readers[i][r[i - 1]].rest
      BY <2>a DEF Rests
    <3> HIDE DEF b
    <3>3. q[m + 1] = readers[m + 1][q[m]].rest
      BY <2>0, <2>5, <2>a, <2>7 DEF Read
    <3>4. ASSUME NEW i \in 1..m PROVE q[i] = readers[i][q[i - 1]].rest
      <4>1. i \in 0..m /\ i - 1 \in 0..m
        BY <2>0
      <4> QED BY <2>7, <3>2, <4>1
    <3>5. ASSUME NEW i \in 1..m + 1 PROVE i \in 1..m \/ i = m + 1
      BY <2>0
    <3>6. q[0] = r[0]
      <4>1. 0 \in 0..m
        BY <2>0
      <4> QED BY <2>7, <4>1
    <3> QED BY <2>0, <3>1, <3>3, <3>4, <3>5, <3>6
  <2>9. Rests(q, m + 1, readers, b)
    <3>1. q = [i \in 0..m + 1 |-> q[i]]
      OBVIOUS
    <3> HIDE DEF q, b
    <3> QED BY <2>8, <3>1 DEF Rests
  <2>10. ASSUME NEW i \in 1..m + 1 PROVE readers[i][q[i - 1]].value = vals[i]
    <3> HIDE DEF q
    <3>1. CASE i = m + 1
      <4>1. q[m] = t /\ i - 1 = m
        <5>1. m \in 0..m
          BY <2>0
        <5> QED BY <2>0, <2>a, <2>7, <3>1, <5>1
      <4>2. readers[m + 1][t].value = vals[m + 1]
        BY <2>5 DEF Read
      <4> QED BY <3>1, <4>1, <4>2
    <3>2. CASE i # m + 1
      <4>1. i \in 1..m /\ i - 1 \in 0..m
        BY <2>0, <3>2
      <4> QED BY <2>7, <2>a, <4>1
    <3> QED BY <3>1, <3>2
  <2> HIDE DEF q
  <2>11. Reads(q, m + 1, s)
    BY <2>7, <2>9, <2>10 DEF Reads
  <2> QED BY <2>11
<1>4. n \in good
  <2>1. \A m \in 0..n : m \in good
    BY <1>2, <1>3, UpTo
  <2> QED BY <2>1
<1> DEFINE b == concatBytes(parts).data \o rest
           all == CHOOSE g : g = [i \in 0..Len(readers) |->
                               IF i = 0 THEN b ELSE readers[i][g[i - 1]].rest]
<1>5. PICK r : Reads(r, n, rest)
  BY <1>1, <1>4 DEF good
<1>6. /\ Rests(r, n, readers, b) /\ r[n] = rest
      /\ \A i \in 1..n : readers[i][r[i - 1]].value = vals[i]
  BY <1>1, <1>5 DEF Reads
<1>7. Rests(all, n, readers, b)
  <2>0. Len(readers) = n
    BY Tuple
  <2> HIDE DEF all, b
  <2>1. r = [i \in 0..n |-> IF i = 0 THEN b ELSE readers[i][r[i - 1]].rest]
    <3>1. r = [i \in 0..n |-> r[i]] /\ r[0] = b
          /\ \A i \in 1..n : r[i] = readers[i][r[i - 1]].rest
      BY <1>6 DEF Rests
    <3>2. ASSUME NEW i \in 0..n
          PROVE  r[i] = IF i = 0 THEN b ELSE readers[i][r[i - 1]].rest
      <4>1. i = 0 \/ i \in 1..n
        OBVIOUS
      <4> QED BY <3>1, <4>1
    <3> QED BY <3>1, <3>2
  <2> USE DEF all
  <2>2. all = [i \in 0..Len(readers) |-> IF i = 0 THEN b ELSE readers[i][all[i - 1]].rest]
    BY <2>0, <2>1, Zenon
  <2> HIDE DEF all
  <2>3. all = [i \in 0..n |-> IF i = 0 THEN b ELSE readers[i][all[i - 1]].rest]
    BY <2>0, <2>2
  <2>4. all = [i \in 0..n |-> all[i]]
    BY <2>3
  <2>5. all[0] = b
    BY <2>3
  <2>6. ASSUME NEW i \in 1..n PROVE all[i] = readers[i][all[i - 1]].rest
    <3>1. i \in 0..n /\ i # 0
      OBVIOUS
    <3> QED BY <2>3, <3>1
  <2> QED BY <2>4, <2>5, <2>6 DEF Rests
<1>8. ReadEach(readers, b)
        = Read([i \in 1..n |-> readers[i][all[i - 1]].value], all[n])
  <2>1. Len(readers) = n
    BY Tuple
  <2>2. ReadEach(readers, b)
          = Read([i \in 1..Len(readers) |-> readers[i][all[i - 1]].value],
                 all[Len(readers)])
    BY Zenon DEF ReadEach
  <2> HIDE DEF b, all
  <2> QED BY <2>1, <2>2
<1> HIDE DEF all
<1>9. \A i \in 0..n : all[i] = r[i]
  BY <1>6, <1>7, OneRests
<1>10. ASSUME NEW i \in 1..n PROVE readers[i][all[i - 1]].value = vals[i]
  <2>1. all[i - 1] = r[i - 1]
    BY <1>9
  <2> QED BY <1>6, <2>1
<1>11. all[n] = rest
  BY <1>6, <1>9
<1>12. [i \in 1..n |-> readers[i][all[i - 1]].value] = [i \in 1..n |-> vals[i]]
  BY <1>10
<1> QED BY <1>8, <1>11, <1>12

-----------------------------------------------------------------------------
(* Strings, and values of one word. *)

Pieces == [kind : STRING, value : Int, bytes : Seq(Byte)]

LEMMA RawOf ==
  ASSUME NEW raw \in Raws
  PROVE  /\ raw \in Seq(Pieces) /\ Len(raw) \in Nat \ {0} /\ raw[1] \in Pieces
         /\ Len(raw) < Power[4] /\ Len(textBytes(raw)) < Power[4]
         /\ \A i \in 1..Len(raw) : /\ raw[i] \in Pieces /\ <<raw[i]>> \in Raws
                                   /\ raw[i].kind = "key" => Len(raw[i].bytes) = KeyBytes
<1>1. raw \in Seq(Pieces) /\ raw # <<>>
  BY RawsAssumption DEF Pieces
<1>2. DOMAIN raw = 1..Len(raw) /\ Len(raw) \in Nat /\ Len(raw) # 0
  <2> HIDE DEF Pieces
  <2> QED BY <1>1, EmptySeq
<1>3. \A i \in 1..Len(raw) : raw[i] \in Pieces
  BY <1>1, <1>2
<1>4. \A i \in DOMAIN raw : /\ <<raw[i]>> \in Raws
                            /\ raw[i].kind = "key" => Len(raw[i].bytes) = KeyBytes
  BY RawsAssumption
<1>5. Len(raw) < Power[4] /\ Len(textBytes(raw)) < Power[4]
  BY RawsAssumption
<1> QED BY <1>1, <1>2, <1>3, <1>4, <1>5

LEMMA PieceOf ==
  ASSUME NEW p \in Pieces
  PROVE  p.value \in Int /\ p.bytes \in Seq(Byte)
BY DEF Pieces

LEMMA TextTyped == ASSUME NEW raw \in Raws PROVE textBytes(raw) \in Seq(Byte)
<1> DEFINE n == Len(raw)
           parts == [i \in 1..n |->
                       Bytes(IF i = 1 THEN raw[1].bytes ELSE Comma \o raw[i].bytes)]
<1>1. n \in Nat /\ \A i \in 1..n : raw[i] \in Pieces
  BY RawOf
<1>2. ASSUME NEW i \in 1..n PROVE parts[i] \in Outs
  <2> DEFINE d == IF i = 1 THEN raw[1].bytes ELSE Comma \o raw[i].bytes
  <2>1. Comma \in Seq(Byte)
    BY Base2 DEF Comma
  <2>2. raw[i].bytes \in Seq(Byte)
    BY <1>1, PieceOf
  <2>3. Comma \o raw[i].bytes \in Seq(Byte)
    BY <2>1, <2>2, ConcatProperties
  <2>4. d \in Seq(Byte)
    BY <2>2, <2>3
  <2>5. parts[i] = Bytes(d)
    OBVIOUS
  <2> HIDE DEF d, parts
  <2> QED BY <2>4, <2>5, OutsOf
<1>3. parts = [i \in 1..n |-> parts[i]]
  OBVIOUS
<1>4. textBytes(raw) = concatBytes(parts).data
  BY DEF textBytes
<1> HIDE DEF parts, n
<1>5. concatBytes(parts) \in Outs
  BY <1>1, <1>2, <1>3, ConcatOk
<1> QED BY <1>4, <1>5, OutsOf

LEMMA Items ==
  ASSUME NEW raw \in Raws
  PROVE  /\ Len(readArray(raw)) \in 0..Power[4] - 1
         /\ readArray(raw) = [i \in 1..Len(readArray(raw)) |-> readArray(raw)[i]]
         /\ \A i \in 1..Len(readArray(raw)) : readArray(raw)[i] \in Raws
<1>0. Power[4] \in Nat \ {0}
  BY Powers
<1>1. CASE raw = <<Empty>>
  <2>1. readArray(raw) = <<>>
    BY <1>1 DEF readArray
  <2> QED BY <1>0, <2>1
<1>2. CASE raw # <<Empty>>
  <2> DEFINE items == [i \in 1..Len(raw) |-> <<raw[i]>>]
  <2>1. readArray(raw) = items
    BY <1>2 DEF readArray
  <2>2. Len(raw) \in Nat /\ Len(raw) < Power[4] /\ \A i \in 1..Len(raw) : <<raw[i]>> \in Raws
    BY RawOf
  <2>3. Len(items) = Len(raw) /\ \A i \in 1..Len(raw) : items[i] = <<raw[i]>>
    BY <2>2
  <2>4. items = [i \in 1..Len(raw) |-> items[i]]
    OBVIOUS
  <2> HIDE DEF items
  <2>5. Len(items) \in 0..Power[4] - 1
    BY <1>0, <2>2, <2>3
  <2>6. items = [i \in 1..Len(items) |-> items[i]]
    BY <2>3, <2>4
  <2>7. \A i \in 1..Len(items) : items[i] \in Raws
    BY <2>2, <2>3
  <2> QED BY <2>1, <2>5, <2>6, <2>7
<1> QED BY <1>1, <1>2

LEMMA Four == 4 \in 0..8 /\ Power[4] \in Nat \ {0}
BY Powers

LEMMA PrimitiveTyped ==
  ASSUME NEW name, NEW raw \in Raws
  PROVE  encodePrimitive(name, raw) \in Outs
<1>1. \A w \in 0..8 : \A n \in Int : LE(n, w) \in Seq(Byte)
  BY Digits
<1>2. raw[1].value \in Int /\ raw[1].bytes \in Seq(Byte)
  BY RawOf, PieceOf
<1>3. LE(raw[1].value, Width(name)) \in Seq(Byte)
  BY <1>1, <1>2, WidthOf
<1>4. <<0>> \in Seq(Byte) /\ <<1>> \in Seq(Byte)
  BY Base2
<1>5. LE(Len(textBytes(raw)), 4) \o textBytes(raw) \in Seq(Byte)
  <2>1. textBytes(raw) \in Seq(Byte)
    BY TextTyped
  <2>2. Len(textBytes(raw)) \in Int
    BY <2>1
  <2>3. LE(Len(textBytes(raw)), 4) \in Seq(Byte)
    BY <1>1, <2>2, Four
  <2> QED BY <2>1, <2>3, ConcatProperties
<1> QED BY <1>2, <1>3, <1>4, <1>5, OutsOf DEF encodePrimitive

\* A value with no wraps that is written and fits is read as what was meant.
LEMMA PrimitiveRead ==
  ASSUME NEW name \in SUPPORTED_PRIMITIVES, NEW raw \in Raws, encodePrimitive(name, raw).ok,
         name \in Integral => InRange(name, raw[1].value), NEW s \in Seq(Byte)
  PROVE  ReadPrimitive(name, encodePrimitive(name, raw).data \o s)
           = Read(MeantPrimitive(name, raw), s)
<1>0. raw[1].value \in Int /\ raw[1].bytes \in Seq(Byte) /\ ~Invalid.ok
  BY RawOf, PieceOf, OutsOf
<1>1. CASE name \in Integral
  <2>0. name # "bool" /\ name # "string" /\ name # "publicKey"
    BY <1>1 DEF Integral
  <2>a. encodePrimitive(name, raw) = IF IsInt(raw) /\ readInt(name, raw[1].value)
                                       THEN Bytes(LE(raw[1].value, Width(name))) ELSE Invalid
    BY <1>1, <2>0 DEF encodePrimitive
  <2>b. \A b : ReadPrimitive(name, b) = Read(Value(name, FromLE(Take(b, Width(name)))),
                                             After(b, Width(name)))
    BY <1>1, <2>0 DEF ReadPrimitive, Value
  <2>c. MeantPrimitive(name, raw) = raw[1].value
    BY <1>1, <2>0 DEF MeantPrimitive
  <2> DEFINE n == raw[1].value
             w == Width(name)
             x == LE(n, w)
  <2>1. encodePrimitive(name, raw) = Bytes(x)
    BY <1>0, <2>a
  <2>2. w \in 0..8 /\ n \in Int /\ InRange(name, n)
    BY <1>0, <1>1, WidthOf
  <2>3. x \in Seq(Byte) /\ Len(x) = w
    <3> HIDE DEF n, w
    <3> QED BY <2>2, Digits
  <2>4. Value(name, FromLE(x)) = n
    BY <1>1, <2>2, IntegerRead
  <2> HIDE DEF n, x, w
  <2>5. Take(x \o s, w) = x /\ After(x \o s, w) = s
    BY <2>3, TakeAfter
  <2>6. encodePrimitive(name, raw).data = x
    BY <2>1, <2>3, OutsOf
  <2>7. ReadPrimitive(name, x \o s) = Read(Value(name, FromLE(Take(x \o s, w))), After(x \o s, w))
    BY <2>b DEF w
  <2>8. MeantPrimitive(name, raw) = n
    BY <2>c DEF n
  <2> QED BY <2>4, <2>5, <2>6, <2>7, <2>8
<1>2. CASE name = "bool"
  <2>0. name \notin Integral
    BY <1>2 DEF Integral
  <2>1. PICK v \in Byte : encodePrimitive(name, raw) = Bytes(<<v>>) /\ (v = 1 <=> IsTrue(raw))
    <3>1. CASE IsTrue(raw)
      BY <1>2, <2>0, <3>1, Base2 DEF encodePrimitive
    <3>2. CASE ~IsTrue(raw)
      BY <1>0, <1>2, <2>0, <3>2, Base2 DEF encodePrimitive
    <3> QED BY <3>1, <3>2
  <2>2. (<<v>> \o s)[1] = v /\ After(<<v>> \o s, 1) = s
    BY AfterOne
  <2>3. encodePrimitive(name, raw).data = <<v>>
    BY <2>1 DEF Bytes
  <2>4. ReadPrimitive(name, <<v>> \o s) = Read(v = 1, s)
    BY <1>2, <2>0, <2>2 DEF ReadPrimitive
  <2>5. MeantPrimitive(name, raw) = IsTrue(raw)
    BY <1>2, <2>0 DEF MeantPrimitive
  <2>6. (v = 1) = IsTrue(raw)
    BY <2>1, Zenon DEF IsTrue
  <2> QED BY <2>3, <2>4, <2>5, <2>6
<1>3. CASE name = "string"
  <2>0. name \notin Integral /\ name # "bool"
    BY <1>3 DEF Integral
  <2> DEFINE x == textBytes(raw)
             n == Len(x)
             h == LE(n, 4)
             b == h \o (x \o s)
  <2>1. x \in Seq(Byte) /\ n \in 0..Power[4] - 1 /\ n \in Int
    <3>1. x \in Seq(Byte)
      BY TextTyped
    <3>2. n \in Nat /\ n < Power[4]
      BY <3>1, RawOf
    <3> HIDE DEF n
    <3> QED BY <3>1, <3>2, Four
  <2>2. encodePrimitive(name, raw) = Bytes(h \o x)
    BY <1>3, <2>0 DEF encodePrimitive
  <2>3. ReadPrimitive(name, b)
          = Read(Take(After(b, 4), FromLE(Take(b, 4))), After(After(b, 4), FromLE(Take(b, 4))))
    BY <1>3, <2>0 DEF ReadPrimitive
  <2>4. MeantPrimitive(name, raw) = x
    BY <1>3, <2>0 DEF MeantPrimitive
  <2>5. n = Len(x)
    OBVIOUS
  <2> HIDE DEF x, n
  <2>6. h \in Seq(Byte) /\ Len(h) = 4
    BY <2>1, Four, Digits
  <2>7. FromLE(h) = n
    BY <2>1, Four, SmallNumber
  <2> HIDE DEF h
  <2>8. x \o s \in Seq(Byte) /\ h \o x \in Seq(Byte)
    BY <2>1, <2>6, ConcatProperties
  <2>9. Take(b, 4) = h /\ After(b, 4) = x \o s
    BY <2>6, <2>8, TakeAfter
  <2>10. Take(x \o s, n) = x /\ After(x \o s, n) = s
    BY <2>1, <2>5, TakeAfter
  <2>11. (h \o x) \o s = b
    BY <2>1, <2>6, Assoc
  <2>12. encodePrimitive(name, raw).data = h \o x
    BY <2>2, <2>8, OutsOf
  <2> HIDE DEF b
  <2> QED BY <2>3, <2>4, <2>7, <2>9, <2>10, <2>11, <2>12
<1>4. CASE name = "publicKey"
  <2>0. name \notin Integral /\ name # "bool" /\ name # "string"
    BY <1>4 DEF Integral
  <2>1. encodePrimitive(name, raw) = Bytes(raw[1].bytes) /\ raw[1].kind = "key"
    BY <1>0, <1>4, <2>0 DEF encodePrimitive
  <2>2. Len(raw[1].bytes) = KeyBytes
    <3>1. 1 \in 1..Len(raw)
      BY RawOf
    <3> QED BY <2>1, <3>1, RawOf
  <2> DEFINE x == raw[1].bytes
  <2>3. ReadPrimitive(name, x \o s) = Read(Take(x \o s, KeyBytes), After(x \o s, KeyBytes))
    BY <1>4, <2>0 DEF ReadPrimitive
  <2>4. MeantPrimitive(name, raw) = x
    BY <1>4, <2>0 DEF MeantPrimitive
  <2>5. encodePrimitive(name, raw).data = x /\ x \in Seq(Byte) /\ Len(x) = KeyBytes
    BY <1>0, <2>1, <2>2, OutsOf
  <2> HIDE DEF x
  <2>6. Take(x \o s, KeyBytes) = x /\ After(x \o s, KeyBytes) = s
    BY <2>5, TakeAfter
  <2> QED BY <2>3, <2>4, <2>5, <2>6
<1>5. CASE name = "pubkey"
  <2>1. encodePrimitive(name, raw) = Invalid
    BY <1>5 DEF encodePrimitive, Integral
  <2> QED BY <1>0, <2>1
<1> QED BY <1>1, <1>2, <1>3, <1>4, <1>5 DEF SUPPORTED_PRIMITIVES, Integral
-----------------------------------------------------------------------------
(* One more wrap. *)

MeantWrapped(wrap, mean, raw) ==
  IF wrap.shape = "option" THEN <<mean[raw]>>
  ELSE [i \in 1..Len(readArray(raw)) |-> mean[readArray(raw)[i]]]

FitsWrapped(wrap, fit, raw) ==
  IF wrap.shape = "option" THEN raw \in fit
  ELSE /\ wrap.shape = "array" => Len(readArray(raw)) = wrap.len
       /\ \A i \in DOMAIN readArray(raw) : readArray(raw)[i] \in fit

AdmitsWrapped(wrap, admit, raw) ==
  IF wrap.shape = "option" THEN raw \in admit
  ELSE \A i \in DOMAIN readArray(raw) : readArray(raw)[i] \in admit

\* What is written of each string that fits is read, whatever follows it.
RoundTrip(enc, read, mean, fit) ==
  \A raw \in Raws : enc[raw].ok /\ raw \in fit =>
    \A s \in Seq(Byte) : read[enc[raw].data \o s] = Read(mean[raw], s)

\* The encodings of the items of a string.
Parts(enc, raw) == [i \in 1..Len(readArray(raw)) |-> enc[readArray(raw)[i]]]

LEMMA PartsOf ==
  ASSUME NEW enc \in [Raws -> Outs], NEW raw \in Raws
  PROVE  /\ Len(readArray(raw)) \in Nat
         /\ Parts(enc, raw) = [i \in 1..Len(readArray(raw)) |-> Parts(enc, raw)[i]]
         /\ \A i \in 1..Len(readArray(raw)) : /\ Parts(enc, raw)[i] \in Outs
                                              /\ Parts(enc, raw)[i] = enc[readArray(raw)[i]]
         /\ concatBytes(Parts(enc, raw)) \in Outs
         /\ concatBytes(Parts(enc, raw)).ok
              <=> \A i \in 1..Len(readArray(raw)) : enc[readArray(raw)[i]].ok
<1> DEFINE items == readArray(raw)
           n == Len(items)
           parts == Parts(enc, raw)
<1>1. n \in Nat /\ \A i \in 1..n : items[i] \in Raws
  BY Items, Four
<1>2. parts = [i \in 1..n |-> enc[items[i]]]
  BY DEF Parts
<1> HIDE DEF items, n, parts
<1>3. parts = [i \in 1..n |-> parts[i]]
  BY <1>2
<1>4. \A i \in 1..n : parts[i] \in Outs /\ parts[i] = enc[items[i]]
  BY <1>1, <1>2
<1>5. concatBytes(parts) \in Outs /\ (concatBytes(parts).ok <=> \A i \in 1..n : parts[i].ok)
  BY <1>1, <1>3, <1>4, ConcatOk
<1>6. (\A i \in 1..n : parts[i].ok) <=> \A i \in 1..n : enc[items[i]].ok
  BY <1>4
<1>7. concatBytes(parts).ok <=> \A i \in 1..n : enc[items[i]].ok
  BY <1>5, <1>6
<1> QED BY <1>1, <1>3, <1>4, <1>5, <1>7 DEF items, n, parts

LEMMA PrefixedOf ==
  ASSUME NEW h \in Seq(Byte), NEW o \in Outs
  PROVE  /\ Prefixed(h, o) \in Outs /\ (Prefixed(h, o).ok <=> o.ok)
         /\ o.ok => Prefixed(h, o).data = h \o o.data
<1>1. h \o o.data \in Seq(Byte)
  BY OutsOf, ConcatProperties
<1>2. CASE o.ok
  BY <1>1, <1>2, OutsOf DEF Prefixed
<1>3. CASE ~o.ok
  BY <1>3 DEF Prefixed
<1> QED BY <1>2, <1>3

\* The body of encodeWrapped, case by case.
LEMMA WrappedCases ==
  ASSUME NEW wrap \in Wraps, NEW enc, NEW raw
  PROVE  /\ wrap.shape \in {"option", "vec", "array"} /\ wrap.len \in Nat
         /\ wrap.shape = "option" => encodeWrapped(wrap, enc, raw) = Prefixed(<<1>>, enc[raw])
         /\ wrap.shape = "vec" => encodeWrapped(wrap, enc, raw)
              = Prefixed(LE(Len(readArray(raw)), 4), concatBytes(Parts(enc, raw)))
         /\ wrap.shape = "array" => encodeWrapped(wrap, enc, raw)
              = IF Len(readArray(raw)) = wrap.len THEN concatBytes(Parts(enc, raw)) ELSE Invalid
BY DEF Wraps, encodeWrapped, Parts

LEMMA Header == ASSUME NEW raw \in Raws PROVE LE(Len(readArray(raw)), 4) \in Seq(Byte)
                                            /\ Len(LE(Len(readArray(raw)), 4)) = 4
                                            /\ FromLE(LE(Len(readArray(raw)), 4))
                                                 = Len(readArray(raw))
<1> DEFINE n == Len(readArray(raw))
<1>1. n \in 0..Power[4] - 1
  BY Items
<1> HIDE DEF n
<1>2. n \in Int
  BY <1>1, Four
<1>3. LE(n, 4) \in Seq(Byte) /\ Len(LE(n, 4)) = 4 /\ FromLE(LE(n, 4)) = n
  BY <1>1, <1>2, Four, Digits, SmallNumber
<1> QED BY <1>3 DEF n

LEMMA One == <<1>> \in Seq(Byte) /\ <<0>> \in Seq(Byte) /\ <<>> \in Seq(Byte)
<1>1. <<>> \in Seq(Byte)
  OBVIOUS
<1> QED BY <1>1, Base2

LEMMA WrapTyped ==
  ASSUME NEW wrap \in Wraps, NEW enc \in [Raws -> Outs], NEW raw \in Raws
  PROVE  encodeWrapped(wrap, enc, raw) \in Outs
<1>1. enc[raw] \in Outs
  OBVIOUS
<1>2. concatBytes(Parts(enc, raw)) \in Outs
  BY PartsOf
<1>3. CASE wrap.shape = "option"
  BY <1>1, <1>3, One, WrappedCases, PrefixedOf
<1>4. CASE wrap.shape = "vec"
  <2>1. LE(Len(readArray(raw)), 4) \in Seq(Byte)
    BY Header
  <2> QED BY <1>2, <1>4, <2>1, WrappedCases, PrefixedOf
<1>5. CASE wrap.shape = "array"
  BY <1>2, <1>5, OutsOf, WrappedCases
<1> QED BY <1>3, <1>4, <1>5, WrappedCases

LEMMA WrapOk ==
  ASSUME NEW wrap \in Wraps, NEW enc \in [Raws -> Outs], NEW fit, NEW admit, NEW raw \in Raws,
         \A r \in Raws : r \in fit /\ r \in admit => enc[r].ok,
         FitsWrapped(wrap, fit, raw), AdmitsWrapped(wrap, admit, raw)
  PROVE  encodeWrapped(wrap, enc, raw).ok
<1>1. CASE wrap.shape = "option"
  <2>1. enc[raw].ok /\ enc[raw] \in Outs
    BY <1>1 DEF FitsWrapped, AdmitsWrapped
  <2>2. Prefixed(<<1>>, enc[raw]).ok
    BY <2>1, One, PrefixedOf
  <2> QED BY <1>1, <2>2, WrappedCases
<1>2. CASE wrap.shape # "option"
  <2> DEFINE items == readArray(raw)
  <2>1. /\ wrap.shape = "array" => Len(items) = wrap.len
        /\ \A i \in DOMAIN items : items[i] \in fit /\ items[i] \in admit
    BY <1>2 DEF FitsWrapped, AdmitsWrapped
  <2>2. DOMAIN items = 1..Len(items) /\ \A i \in 1..Len(items) : items[i] \in Raws
    BY Items
  <2>3. \A i \in 1..Len(items) : enc[items[i]].ok
    <3> HIDE DEF items
    <3> QED BY <2>1, <2>2
  <2>4. concatBytes(Parts(enc, raw)).ok /\ concatBytes(Parts(enc, raw)) \in Outs
    BY <2>3, PartsOf
  <2>5. LE(Len(items), 4) \in Seq(Byte)
    BY Header
  <2>6. CASE wrap.shape = "vec"
    BY <2>4, <2>5, <2>6, WrappedCases, PrefixedOf
  <2>7. CASE wrap.shape = "array"
    BY <2>1, <2>4, <2>7, WrappedCases
  <2> QED BY <1>2, <2>6, <2>7, WrappedCases
<1> QED BY <1>1, <1>2

\* The items of a string, read one after the other.
LEMMA ItemsRead ==
  ASSUME NEW enc \in [Raws -> Outs], NEW read, NEW mean, NEW fit,
         RoundTrip(enc, read, mean, fit), NEW raw \in Raws,
         \A i \in DOMAIN readArray(raw) : readArray(raw)[i] \in fit,
         concatBytes(Parts(enc, raw)).ok, NEW s \in Seq(Byte)
  PROVE  ReadEach([i \in 1..Len(readArray(raw)) |-> read],
                  concatBytes(Parts(enc, raw)).data \o s)
           = Read([i \in 1..Len(readArray(raw)) |-> mean[readArray(raw)[i]]], s)
<1> DEFINE items == readArray(raw)
           n == Len(items)
           parts == Parts(enc, raw)
           readers == [i \in 1..n |-> read]
           vals == [i \in 1..n |-> mean[items[i]]]
<1>1. n \in Nat /\ DOMAIN items = 1..n /\ \A i \in 1..n : items[i] \in Raws
  BY Items, Four
<1>2. /\ parts = [i \in 1..n |-> parts[i]]
      /\ \A i \in 1..n : parts[i] \in Outs /\ parts[i] = enc[items[i]]
      /\ concatBytes(parts).ok
      /\ \A i \in 1..n : enc[items[i]].ok
  BY PartsOf
<1>3. \A i \in 1..n : items[i] \in fit
  BY <1>1
<1> HIDE DEF parts, items, n
<1>4. readers = [i \in 1..n |-> readers[i]] /\ vals = [i \in 1..n |-> vals[i]]
      /\ \A i \in 1..n : readers[i] = read /\ vals[i] = mean[items[i]]
  OBVIOUS
<1> HIDE DEF readers, vals
<1>5. ASSUME NEW i \in 1..n, NEW t \in Seq(Byte)
      PROVE  readers[i][parts[i].data \o t] = Read(vals[i], t)
  <2>1. read[enc[items[i]].data \o t] = Read(mean[items[i]], t)
    BY <1>1, <1>2, <1>3 DEF RoundTrip
  <2> QED BY <1>2, <1>4, <2>1
<1>a. EachReads(n, parts, readers, vals)
  BY <1>5 DEF EachReads
<1>6. ReadEach(readers, concatBytes(parts).data \o s) = Read([i \in 1..n |-> vals[i]], s)
  BY <1>1, <1>2, <1>4, <1>a, ConcatRead
<1>7. ReadEach(readers, concatBytes(parts).data \o s) = Read(vals, s)
  BY <1>4, <1>6
<1> QED BY <1>7 DEF readers, vals, parts, items, n

LEMMA WrapRead ==
  ASSUME NEW wrap \in Wraps, NEW enc \in [Raws -> Outs], NEW read, NEW mean, NEW fit,
         RoundTrip(enc, read, mean, fit), NEW raw \in Raws,
         encodeWrapped(wrap, enc, raw).ok, FitsWrapped(wrap, fit, raw), NEW s \in Seq(Byte)
  PROVE  ReadWrapped(wrap, read, encodeWrapped(wrap, enc, raw).data \o s)
           = Read(MeantWrapped(wrap, mean, raw), s)
<1>1. CASE wrap.shape = "option"
  <2> DEFINE d == enc[raw].data
             t == d \o s
             b == <<1>> \o t
  <2>1. encodeWrapped(wrap, enc, raw) = Prefixed(<<1>>, enc[raw]) /\ enc[raw] \in Outs
    BY <1>1, WrappedCases
  <2>a. enc[raw].ok /\ Prefixed(<<1>>, enc[raw]).data = <<1>> \o enc[raw].data
    BY <2>1, One, PrefixedOf
  <2>2. enc[raw].ok /\ encodeWrapped(wrap, enc, raw).data = <<1>> \o d /\ d \in Seq(Byte)
    BY <2>1, <2>a, OutsOf
  <2>3. raw \in fit
    BY <1>1 DEF FitsWrapped
  <2>4. read[d \o s] = Read(mean[raw], s)
    BY <2>2, <2>3 DEF RoundTrip
  <2> HIDE DEF d
  <2>5. (<<1>> \o d) \o s = b /\ d \o s \in Seq(Byte)
    BY <2>2, One, Assoc, ConcatProperties
  <2> HIDE DEF t
  <2>6. b[1] = 1 /\ After(b, 1) = t
    <3>1. t \in Seq(Byte) /\ 1 \in Byte
      BY <2>5, Base2 DEF t
    <3> QED BY <3>1, AfterOne
  <2> HIDE DEF b
  <2>7. ReadWrapped(wrap, read, b) = Read(<<read[t].value>>, read[t].rest)
    BY <1>1, <2>6 DEF ReadWrapped
  <2>8. MeantWrapped(wrap, mean, raw) = <<mean[raw]>>
    BY <1>1 DEF MeantWrapped
  <2>9. read[t].value = mean[raw] /\ read[t].rest = s
    BY <2>4 DEF Read, t
  <2> QED BY <2>2, <2>5, <2>7, <2>8, <2>9
<1>2. CASE wrap.shape # "option"
  <2> DEFINE n == Len(readArray(raw))
             body == concatBytes(Parts(enc, raw))
             h == LE(n, 4)
             readers == [i \in 1..n |-> read]
             vals == [i \in 1..n |-> mean[readArray(raw)[i]]]
  <2>1. MeantWrapped(wrap, mean, raw) = vals
    BY <1>2 DEF MeantWrapped
  <2>2. body \in Outs
    BY PartsOf
  <2>3. \A i \in DOMAIN readArray(raw) : readArray(raw)[i] \in fit
    BY <1>2 DEF FitsWrapped
  <2>4. body.ok => ReadEach(readers, body.data \o s) = Read(vals, s)
    BY <2>3, ItemsRead
  <2>5. CASE wrap.shape = "vec"
    <3> DEFINE b == h \o (body.data \o s)
    <3>1. encodeWrapped(wrap, enc, raw) = Prefixed(h, body)
      BY <2>5, WrappedCases
    <3>2. h \in Seq(Byte) /\ Len(h) = 4 /\ FromLE(h) = n
      BY Header
    <3>3. ReadWrapped(wrap, read, b)
            = ReadEach([i \in 1..FromLE(Take(b, 4)) |-> read], After(b, 4))
      BY <2>5 DEF ReadWrapped
    <3> HIDE DEF body, h
    <3>4. body.ok /\ encodeWrapped(wrap, enc, raw).data = h \o body.data
          /\ body.data \in Seq(Byte)
      <4>1. body.ok /\ Prefixed(h, body).data = h \o body.data
        BY <2>2, <3>1, <3>2, PrefixedOf
      <4> QED BY <2>2, <3>1, <4>1, OutsOf
    <3>5. (h \o body.data) \o s = b /\ body.data \o s \in Seq(Byte)
      BY <3>2, <3>4, Assoc, ConcatProperties
    <3>6. Take(b, 4) = h /\ After(b, 4) = body.data \o s
      BY <3>2, <3>5, TakeAfter
    <3> HIDE DEF b, n, vals
    <3>7. ReadWrapped(wrap, read, b) = ReadEach(readers, body.data \o s)
      BY <3>2, <3>3, <3>6
    <3> HIDE DEF readers
    <3> QED BY <2>1, <2>4, <3>4, <3>5, <3>7
  <2>6. CASE wrap.shape = "array"
    <3>1. n = wrap.len
      BY <2>6 DEF FitsWrapped
    <3>2. encodeWrapped(wrap, enc, raw) = body
      BY <2>6, <3>1, WrappedCases
    <3>3. \A b : ReadWrapped(wrap, read, b) = ReadEach(readers, b)
      BY <2>6, <3>1 DEF ReadWrapped
    <3> HIDE DEF body, readers, vals
    <3> QED BY <2>1, <2>4, <3>2, <3>3
  <2> QED BY <1>2, <2>5, <2>6, WrappedCases
<1> QED BY <1>1, <1>2
-----------------------------------------------------------------------------
(* The functions on the wraps of a type, layer by layer. *)

\* encodeValue.
Encode0(tag) == [raw \in Raws |-> encodePrimitive(tag.leaf, raw)]
Encode1(tag, k, prev) ==
  [raw \in Raws |-> encodeWrapped(tag.wraps[k], prev, raw)]
EncodeLayers(f, n, tag) ==
  /\ f = [k \in 0..n |-> f[k]] /\ f[0] = Encode0(tag)
  /\ \A k \in 1..n : f[k] = Encode1(tag, k, f[k - 1])

LEMMA EncodeLayered ==
  ASSUME NEW tag, Len(tag.wraps) \in Nat
  PROVE  \E f : EncodeLayers(f, Len(tag.wraps), tag) /\ encodeValue(tag) = f[Len(tag.wraps)]
<1> DEFINE N == Len(tag.wraps)
           built(n) == \E f : EncodeLayers(f, n, tag)
           good == {n \in 0..N : built(n)}
<1>1. built(0)
  <2> DEFINE f == [k \in 0..0 |-> Encode0(tag)]
  <2>1. f = [k \in 0..0 |-> f[k]] /\ f[0] = Encode0(tag) /\ \A k \in 1..0 : FALSE
    OBVIOUS
  <2> HIDE DEF f
  <2> QED BY <2>1 DEF EncodeLayers
<1>2. ASSUME NEW n \in 0..N, n < N, built(n) PROVE built(n + 1)
  <2>1. PICK f : EncodeLayers(f, n, tag)
    BY <1>2
  <2> DEFINE g == [k \in 0..n + 1 |-> IF k = n + 1 THEN Encode1(tag, k, f[n]) ELSE f[k]]
  <2>2. g = [k \in 0..n + 1 |-> g[k]] /\ g[n + 1] = Encode1(tag, n + 1, f[n])
        /\ \A k \in 0..n : g[k] = f[k]
    OBVIOUS
  <2> HIDE DEF g
  <2>3. 0 \in 0..n /\ n \in 0..n /\ (n + 1) - 1 = n
    OBVIOUS
  <2>4. ASSUME NEW k \in 1..n + 1 PROVE g[k] = Encode1(tag, k, g[k - 1])
    <3>1. CASE k = n + 1
      BY <2>2, <2>3, <3>1
    <3>2. CASE k # n + 1
      <4>1. k \in 1..n /\ k \in 0..n /\ k - 1 \in 0..n
        BY <3>2
      <4> QED BY <2>1, <2>2, <4>1 DEF EncodeLayers
    <3> QED BY <3>1, <3>2
  <2>5. g[0] = Encode0(tag)
    BY <2>1, <2>2, <2>3 DEF EncodeLayers
  <2> QED BY <2>2, <2>4, <2>5 DEF EncodeLayers
<1> HIDE DEF built
<1>3. N \in good
  <2>1. N \in Nat
    OBVIOUS
  <2> HIDE DEF N
  <2>2. 0 \in good /\ N \in 0..N
    BY <1>1, <2>1
  <2>3. \A n \in 0..N : n < N /\ n \in good => n + 1 \in good
    BY <1>2, <2>1
  <2> HIDE DEF good
  <2> QED BY <2>1, <2>2, <2>3, UpTo
<1>4. PICK f : EncodeLayers(f, N, tag)
  BY <1>3 DEF built
<1> DEFINE within == CHOOSE g : g = [k \in 0..Len(tag.wraps) |->
               [raw \in Raws |-> IF k = 0 THEN encodePrimitive(tag.leaf, raw)
                                 ELSE encodeWrapped(tag.wraps[k], g[k - 1], raw)]]
<1>5. f = [k \in 0..N |->
               [raw \in Raws |-> IF k = 0 THEN encodePrimitive(tag.leaf, raw)
                                 ELSE encodeWrapped(tag.wraps[k], f[k - 1], raw)]]
  <2>1. ASSUME NEW k \in 0..N
        PROVE  f[k] =
               [raw \in Raws |-> IF k = 0 THEN encodePrimitive(tag.leaf, raw)
                                 ELSE encodeWrapped(tag.wraps[k], f[k - 1], raw)]
    <3>1. CASE k = 0
      BY <1>4, <3>1 DEF EncodeLayers, Encode0
    <3>2. CASE k # 0
      <4>1. k \in 1..N
        BY <3>2
      <4>2. f[k] = Encode1(tag, k, f[k - 1])
        BY <1>4, <4>1 DEF EncodeLayers
      <4> QED BY <3>2, <4>2 DEF Encode1
    <3> QED BY <3>1, <3>2
  <2>2. f = [k \in 0..N |-> f[k]]
    BY <1>4 DEF EncodeLayers
  <2> QED BY <2>1, <2>2
<1>6. within = [k \in 0..N |->
               [raw \in Raws |-> IF k = 0 THEN encodePrimitive(tag.leaf, raw)
                                 ELSE encodeWrapped(tag.wraps[k], within[k - 1], raw)]]
  BY <1>5, Zenon
<1>7. encodeValue(tag) = within[N]
  BY Zenon DEF encodeValue
<1> HIDE DEF within, N
<1>8. EncodeLayers(within, N, tag)
  <2>1. within = [k \in 0..N |-> within[k]]
    BY <1>6
  <2>2. within[0] = Encode0(tag)
    BY <1>6 DEF Encode0, N
  <2>3. ASSUME NEW k \in 1..N PROVE within[k] = Encode1(tag, k, within[k - 1])
    <3>1. k \in 0..N /\ k # 0
      BY DEF N
    <3> QED BY <1>6, <3>1 DEF Encode1
  <2> QED BY <2>1, <2>2, <2>3 DEF EncodeLayers
<1> QED BY <1>7, <1>8 DEF N

\* ReadValue.
Read0(tag) == [b \in Seq(Byte) |-> ReadPrimitive(tag.leaf, b)]
Read1(tag, k, prev) ==
  [b \in Seq(Byte) |-> ReadWrapped(tag.wraps[k], prev, b)]
ReadLayers(f, n, tag) ==
  /\ f = [k \in 0..n |-> f[k]] /\ f[0] = Read0(tag)
  /\ \A k \in 1..n : f[k] = Read1(tag, k, f[k - 1])

LEMMA ReadLayered ==
  ASSUME NEW tag, Len(tag.wraps) \in Nat
  PROVE  \E f : ReadLayers(f, Len(tag.wraps), tag) /\ ReadValue(tag) = f[Len(tag.wraps)]
<1> DEFINE N == Len(tag.wraps)
           built(n) == \E f : ReadLayers(f, n, tag)
           good == {n \in 0..N : built(n)}
<1>1. built(0)
  <2> DEFINE f == [k \in 0..0 |-> Read0(tag)]
  <2>1. f = [k \in 0..0 |-> f[k]] /\ f[0] = Read0(tag) /\ \A k \in 1..0 : FALSE
    OBVIOUS
  <2> HIDE DEF f
  <2> QED BY <2>1 DEF ReadLayers
<1>2. ASSUME NEW n \in 0..N, n < N, built(n) PROVE built(n + 1)
  <2>1. PICK f : ReadLayers(f, n, tag)
    BY <1>2
  <2> DEFINE g == [k \in 0..n + 1 |-> IF k = n + 1 THEN Read1(tag, k, f[n]) ELSE f[k]]
  <2>2. g = [k \in 0..n + 1 |-> g[k]] /\ g[n + 1] = Read1(tag, n + 1, f[n])
        /\ \A k \in 0..n : g[k] = f[k]
    OBVIOUS
  <2> HIDE DEF g
  <2>3. 0 \in 0..n /\ n \in 0..n /\ (n + 1) - 1 = n
    OBVIOUS
  <2>4. ASSUME NEW k \in 1..n + 1 PROVE g[k] = Read1(tag, k, g[k - 1])
    <3>1. CASE k = n + 1
      BY <2>2, <2>3, <3>1
    <3>2. CASE k # n + 1
      <4>1. k \in 1..n /\ k \in 0..n /\ k - 1 \in 0..n
        BY <3>2
      <4> QED BY <2>1, <2>2, <4>1 DEF ReadLayers
    <3> QED BY <3>1, <3>2
  <2>5. g[0] = Read0(tag)
    BY <2>1, <2>2, <2>3 DEF ReadLayers
  <2> QED BY <2>2, <2>4, <2>5 DEF ReadLayers
<1> HIDE DEF built
<1>3. N \in good
  <2>1. N \in Nat
    OBVIOUS
  <2> HIDE DEF N
  <2>2. 0 \in good /\ N \in 0..N
    BY <1>1, <2>1
  <2>3. \A n \in 0..N : n < N /\ n \in good => n + 1 \in good
    BY <1>2, <2>1
  <2> HIDE DEF good
  <2> QED BY <2>1, <2>2, <2>3, UpTo
<1>4. PICK f : ReadLayers(f, N, tag)
  BY <1>3 DEF built
<1> DEFINE within == CHOOSE g : g = [k \in 0..Len(tag.wraps) |->
               [b \in Seq(Byte) |-> IF k = 0 THEN ReadPrimitive(tag.leaf, b)
                                    ELSE ReadWrapped(tag.wraps[k], g[k - 1], b)]]
<1>5. f = [k \in 0..N |->
               [b \in Seq(Byte) |-> IF k = 0 THEN ReadPrimitive(tag.leaf, b)
                                    ELSE ReadWrapped(tag.wraps[k], f[k - 1], b)]]
  <2>1. ASSUME NEW k \in 0..N
        PROVE  f[k] =
               [b \in Seq(Byte) |-> IF k = 0 THEN ReadPrimitive(tag.leaf, b)
                                    ELSE ReadWrapped(tag.wraps[k], f[k - 1], b)]
    <3>1. CASE k = 0
      BY <1>4, <3>1 DEF ReadLayers, Read0
    <3>2. CASE k # 0
      <4>1. k \in 1..N
        BY <3>2
      <4>2. f[k] = Read1(tag, k, f[k - 1])
        BY <1>4, <4>1 DEF ReadLayers
      <4> QED BY <3>2, <4>2 DEF Read1
    <3> QED BY <3>1, <3>2
  <2>2. f = [k \in 0..N |-> f[k]]
    BY <1>4 DEF ReadLayers
  <2> QED BY <2>1, <2>2
<1>6. within = [k \in 0..N |->
               [b \in Seq(Byte) |-> IF k = 0 THEN ReadPrimitive(tag.leaf, b)
                                    ELSE ReadWrapped(tag.wraps[k], within[k - 1], b)]]
  BY <1>5, Zenon
<1>7. ReadValue(tag) = within[N]
  BY Zenon DEF ReadValue
<1> HIDE DEF within, N
<1>8. ReadLayers(within, N, tag)
  <2>1. within = [k \in 0..N |-> within[k]]
    BY <1>6
  <2>2. within[0] = Read0(tag)
    BY <1>6 DEF Read0, N
  <2>3. ASSUME NEW k \in 1..N PROVE within[k] = Read1(tag, k, within[k - 1])
    <3>1. k \in 0..N /\ k # 0
      BY DEF N
    <3> QED BY <1>6, <3>1 DEF Read1
  <2> QED BY <2>1, <2>2, <2>3 DEF ReadLayers
<1> QED BY <1>7, <1>8 DEF N

\* Meant.
Meant0(tag) == [raw \in Raws |-> MeantPrimitive(tag.leaf, raw)]
Meant1(tag, k, prev) ==
  [raw \in Raws |-> MeantWrapped(tag.wraps[k], prev, raw)]
MeantLayers(f, n, tag) ==
  /\ f = [k \in 0..n |-> f[k]] /\ f[0] = Meant0(tag)
  /\ \A k \in 1..n : f[k] = Meant1(tag, k, f[k - 1])

LEMMA MeantLayered ==
  ASSUME NEW tag, Len(tag.wraps) \in Nat
  PROVE  \E f : MeantLayers(f, Len(tag.wraps), tag) /\ Meant(tag) = f[Len(tag.wraps)]
<1> DEFINE N == Len(tag.wraps)
           built(n) == \E f : MeantLayers(f, n, tag)
           good == {n \in 0..N : built(n)}
<1>1. built(0)
  <2> DEFINE f == [k \in 0..0 |-> Meant0(tag)]
  <2>1. f = [k \in 0..0 |-> f[k]] /\ f[0] = Meant0(tag) /\ \A k \in 1..0 : FALSE
    OBVIOUS
  <2> HIDE DEF f
  <2> QED BY <2>1 DEF MeantLayers
<1>2. ASSUME NEW n \in 0..N, n < N, built(n) PROVE built(n + 1)
  <2>1. PICK f : MeantLayers(f, n, tag)
    BY <1>2
  <2> DEFINE g == [k \in 0..n + 1 |-> IF k = n + 1 THEN Meant1(tag, k, f[n]) ELSE f[k]]
  <2>2. g = [k \in 0..n + 1 |-> g[k]] /\ g[n + 1] = Meant1(tag, n + 1, f[n])
        /\ \A k \in 0..n : g[k] = f[k]
    OBVIOUS
  <2> HIDE DEF g
  <2>3. 0 \in 0..n /\ n \in 0..n /\ (n + 1) - 1 = n
    OBVIOUS
  <2>4. ASSUME NEW k \in 1..n + 1 PROVE g[k] = Meant1(tag, k, g[k - 1])
    <3>1. CASE k = n + 1
      BY <2>2, <2>3, <3>1
    <3>2. CASE k # n + 1
      <4>1. k \in 1..n /\ k \in 0..n /\ k - 1 \in 0..n
        BY <3>2
      <4> QED BY <2>1, <2>2, <4>1 DEF MeantLayers
    <3> QED BY <3>1, <3>2
  <2>5. g[0] = Meant0(tag)
    BY <2>1, <2>2, <2>3 DEF MeantLayers
  <2> QED BY <2>2, <2>4, <2>5 DEF MeantLayers
<1> HIDE DEF built
<1>3. N \in good
  <2>1. N \in Nat
    OBVIOUS
  <2> HIDE DEF N
  <2>2. 0 \in good /\ N \in 0..N
    BY <1>1, <2>1
  <2>3. \A n \in 0..N : n < N /\ n \in good => n + 1 \in good
    BY <1>2, <2>1
  <2> HIDE DEF good
  <2> QED BY <2>1, <2>2, <2>3, UpTo
<1>4. PICK f : MeantLayers(f, N, tag)
  BY <1>3 DEF built
<1> DEFINE within == CHOOSE g : g = [k \in 0..Len(tag.wraps) |->
               [raw \in Raws |->
                  CASE k = 0 -> MeantPrimitive(tag.leaf, raw)
                    [] k # 0 /\ tag.wraps[k].shape = "option" -> <<g[k - 1][raw]>>
                    [] OTHER -> [i \in 1..Len(readArray(raw)) |->
                                   g[k - 1][readArray(raw)[i]]]]]
<1>5. f = [k \in 0..N |->
               [raw \in Raws |->
                  CASE k = 0 -> MeantPrimitive(tag.leaf, raw)
                    [] k # 0 /\ tag.wraps[k].shape = "option" -> <<f[k - 1][raw]>>
                    [] OTHER -> [i \in 1..Len(readArray(raw)) |->
                                   f[k - 1][readArray(raw)[i]]]]]
  <2>1. ASSUME NEW k \in 0..N
        PROVE  f[k] =
               [raw \in Raws |->
                  CASE k = 0 -> MeantPrimitive(tag.leaf, raw)
                    [] k # 0 /\ tag.wraps[k].shape = "option" -> <<f[k - 1][raw]>>
                    [] OTHER -> [i \in 1..Len(readArray(raw)) |->
                                   f[k - 1][readArray(raw)[i]]]]
    <3>1. CASE k = 0
      BY <1>4, <3>1 DEF MeantLayers, Meant0
    <3>2. CASE k # 0
      <4>1. k \in 1..N
        BY <3>2
      <4>2. f[k] = Meant1(tag, k, f[k - 1])
        BY <1>4, <4>1 DEF MeantLayers
      <4> QED BY <3>2, <4>2 DEF Meant1, MeantWrapped
    <3> QED BY <3>1, <3>2
  <2>2. f = [k \in 0..N |-> f[k]]
    BY <1>4 DEF MeantLayers
  <2> QED BY <2>1, <2>2
<1>6. within = [k \in 0..N |->
               [raw \in Raws |->
                  CASE k = 0 -> MeantPrimitive(tag.leaf, raw)
                    [] k # 0 /\ tag.wraps[k].shape = "option" -> <<within[k - 1][raw]>>
                    [] OTHER -> [i \in 1..Len(readArray(raw)) |->
                                   within[k - 1][readArray(raw)[i]]]]]
  BY <1>5, Zenon
<1>7. Meant(tag) = within[N]
  BY Zenon DEF Meant
<1> HIDE DEF within, N
<1>8. MeantLayers(within, N, tag)
  <2>1. within = [k \in 0..N |-> within[k]]
    BY <1>6
  <2>2. within[0] = Meant0(tag)
    BY <1>6 DEF Meant0, N
  <2>3. ASSUME NEW k \in 1..N PROVE within[k] = Meant1(tag, k, within[k - 1])
    <3>1. k \in 0..N /\ k # 0
      BY DEF N
    <3> QED BY <1>6, <3>1 DEF Meant1, MeantWrapped
  <2> QED BY <2>1, <2>2, <2>3 DEF MeantLayers
<1> QED BY <1>7, <1>8 DEF N

\* Fits.
Fits0(tag, names) == {raw \in Raws : tag.leaf \in names =>
                         IsInt(raw) /\ InRange(tag.leaf, raw[1].value)}
Fits1(tag, names, k, prev) ==
  IF tag.wraps[k].shape = "option" THEN prev
  ELSE {raw \in Raws :
          /\ tag.wraps[k].shape = "array" => Len(readArray(raw)) = tag.wraps[k].len
          /\ \A i \in DOMAIN readArray(raw) : readArray(raw)[i] \in prev}
FitsLayers(f, n, tag, names) ==
  /\ f = [k \in 0..n |-> f[k]] /\ f[0] = Fits0(tag, names)
  /\ \A k \in 1..n : f[k] = Fits1(tag, names, k, f[k - 1])

LEMMA FitsLayered ==
  ASSUME NEW tag, NEW names, Len(tag.wraps) \in Nat
  PROVE  \E f : FitsLayers(f, Len(tag.wraps), tag, names) /\ Fits(tag, names) = f[Len(tag.wraps)]
<1> DEFINE N == Len(tag.wraps)
           built(n) == \E f : FitsLayers(f, n, tag, names)
           good == {n \in 0..N : built(n)}
<1>1. built(0)
  <2> DEFINE f == [k \in 0..0 |-> Fits0(tag, names)]
  <2>1. f = [k \in 0..0 |-> f[k]] /\ f[0] = Fits0(tag, names) /\ \A k \in 1..0 : FALSE
    OBVIOUS
  <2> HIDE DEF f
  <2> QED BY <2>1 DEF FitsLayers
<1>2. ASSUME NEW n \in 0..N, n < N, built(n) PROVE built(n + 1)
  <2>1. PICK f : FitsLayers(f, n, tag, names)
    BY <1>2
  <2> DEFINE g == [k \in 0..n + 1 |-> IF k = n + 1 THEN Fits1(tag, names, k, f[n]) ELSE f[k]]
  <2>2. g = [k \in 0..n + 1 |-> g[k]] /\ g[n + 1] = Fits1(tag, names, n + 1, f[n])
        /\ \A k \in 0..n : g[k] = f[k]
    OBVIOUS
  <2> HIDE DEF g
  <2>3. 0 \in 0..n /\ n \in 0..n /\ (n + 1) - 1 = n
    OBVIOUS
  <2>4. ASSUME NEW k \in 1..n + 1 PROVE g[k] = Fits1(tag, names, k, g[k - 1])
    <3>1. CASE k = n + 1
      BY <2>2, <2>3, <3>1
    <3>2. CASE k # n + 1
      <4>1. k \in 1..n /\ k \in 0..n /\ k - 1 \in 0..n
        BY <3>2
      <4> QED BY <2>1, <2>2, <4>1 DEF FitsLayers
    <3> QED BY <3>1, <3>2
  <2>5. g[0] = Fits0(tag, names)
    BY <2>1, <2>2, <2>3 DEF FitsLayers
  <2> QED BY <2>2, <2>4, <2>5 DEF FitsLayers
<1> HIDE DEF built
<1>3. N \in good
  <2>1. N \in Nat
    OBVIOUS
  <2> HIDE DEF N
  <2>2. 0 \in good /\ N \in 0..N
    BY <1>1, <2>1
  <2>3. \A n \in 0..N : n < N /\ n \in good => n + 1 \in good
    BY <1>2, <2>1
  <2> HIDE DEF good
  <2> QED BY <2>1, <2>2, <2>3, UpTo
<1>4. PICK f : FitsLayers(f, N, tag, names)
  BY <1>3 DEF built
<1> DEFINE within == CHOOSE g : g = [k \in 0..Len(tag.wraps) |->
               IF k = 0 THEN {raw \in Raws : tag.leaf \in names =>
                                IsInt(raw) /\ InRange(tag.leaf, raw[1].value)}
               ELSE IF tag.wraps[k].shape = "option" THEN g[k - 1]
               ELSE {raw \in Raws :
                       /\ tag.wraps[k].shape = "array" => Len(readArray(raw)) = tag.wraps[k].len
                       /\ \A i \in DOMAIN readArray(raw) : readArray(raw)[i] \in g[k - 1]}]
<1>5. f = [k \in 0..N |->
               IF k = 0 THEN {raw \in Raws : tag.leaf \in names =>
                                IsInt(raw) /\ InRange(tag.leaf, raw[1].value)}
               ELSE IF tag.wraps[k].shape = "option" THEN f[k - 1]
               ELSE {raw \in Raws :
                       /\ tag.wraps[k].shape = "array" => Len(readArray(raw)) = tag.wraps[k].len
                       /\ \A i \in DOMAIN readArray(raw) : readArray(raw)[i] \in f[k - 1]}]
  <2>1. ASSUME NEW k \in 0..N
        PROVE  f[k] =
               IF k = 0 THEN {raw \in Raws : tag.leaf \in names =>
                                IsInt(raw) /\ InRange(tag.leaf, raw[1].value)}
               ELSE IF tag.wraps[k].shape = "option" THEN f[k - 1]
               ELSE {raw \in Raws :
                       /\ tag.wraps[k].shape = "array" => Len(readArray(raw)) = tag.wraps[k].len
                       /\ \A i \in DOMAIN readArray(raw) : readArray(raw)[i] \in f[k - 1]}
    <3>1. CASE k = 0
      BY <1>4, <3>1 DEF FitsLayers, Fits0
    <3>2. CASE k # 0
      <4>1. k \in 1..N
        BY <3>2
      <4>2. f[k] = Fits1(tag, names, k, f[k - 1])
        BY <1>4, <4>1 DEF FitsLayers
      <4> QED BY <3>2, <4>2 DEF Fits1
    <3> QED BY <3>1, <3>2
  <2>2. f = [k \in 0..N |-> f[k]]
    BY <1>4 DEF FitsLayers
  <2> QED BY <2>1, <2>2
<1>6. within = [k \in 0..N |->
               IF k = 0 THEN {raw \in Raws : tag.leaf \in names =>
                                IsInt(raw) /\ InRange(tag.leaf, raw[1].value)}
               ELSE IF tag.wraps[k].shape = "option" THEN within[k - 1]
               ELSE {raw \in Raws :
                       /\ tag.wraps[k].shape = "array" => Len(readArray(raw)) = tag.wraps[k].len
                       /\ \A i \in DOMAIN readArray(raw) : readArray(raw)[i] \in within[k - 1]}]
  BY <1>5, Zenon
<1>7. Fits(tag, names) = within[N]
  BY Zenon DEF Fits
<1> HIDE DEF within, N
<1>8. FitsLayers(within, N, tag, names)
  <2>1. within = [k \in 0..N |-> within[k]]
    BY <1>6
  <2>2. within[0] = Fits0(tag, names)
    BY <1>6 DEF Fits0, N
  <2>3. ASSUME NEW k \in 1..N PROVE within[k] = Fits1(tag, names, k, within[k - 1])
    <3>1. k \in 0..N /\ k # 0
      BY DEF N
    <3> QED BY <1>6, <3>1 DEF Fits1
  <2> QED BY <2>1, <2>2, <2>3 DEF FitsLayers
<1> QED BY <1>7, <1>8 DEF N

\* propertyAdmits.
Admits0(tag) == {raw \in Raws : primitiveAdmits(tag.leaf, raw)}
Admits1(tag, k, prev) ==
  IF tag.wraps[k].shape = "option" THEN prev
  ELSE {raw \in Raws : \A i \in DOMAIN readArray(raw) : readArray(raw)[i] \in prev}
AdmitsLayers(f, n, tag) ==
  /\ f = [k \in 0..n |-> f[k]] /\ f[0] = Admits0(tag)
  /\ \A k \in 1..n : f[k] = Admits1(tag, k, f[k - 1])

LEMMA AdmitsLayered ==
  ASSUME NEW tag, Len(tag.wraps) \in Nat
  PROVE  \E f : AdmitsLayers(f, Len(tag.wraps), tag) /\ propertyAdmits(tag) = f[Len(tag.wraps)]
<1> DEFINE N == Len(tag.wraps)
           built(n) == \E f : AdmitsLayers(f, n, tag)
           good == {n \in 0..N : built(n)}
<1>1. built(0)
  <2> DEFINE f == [k \in 0..0 |-> Admits0(tag)]
  <2>1. f = [k \in 0..0 |-> f[k]] /\ f[0] = Admits0(tag) /\ \A k \in 1..0 : FALSE
    OBVIOUS
  <2> HIDE DEF f
  <2> QED BY <2>1 DEF AdmitsLayers
<1>2. ASSUME NEW n \in 0..N, n < N, built(n) PROVE built(n + 1)
  <2>1. PICK f : AdmitsLayers(f, n, tag)
    BY <1>2
  <2> DEFINE g == [k \in 0..n + 1 |-> IF k = n + 1 THEN Admits1(tag, k, f[n]) ELSE f[k]]
  <2>2. g = [k \in 0..n + 1 |-> g[k]] /\ g[n + 1] = Admits1(tag, n + 1, f[n])
        /\ \A k \in 0..n : g[k] = f[k]
    OBVIOUS
  <2> HIDE DEF g
  <2>3. 0 \in 0..n /\ n \in 0..n /\ (n + 1) - 1 = n
    OBVIOUS
  <2>4. ASSUME NEW k \in 1..n + 1 PROVE g[k] = Admits1(tag, k, g[k - 1])
    <3>1. CASE k = n + 1
      BY <2>2, <2>3, <3>1
    <3>2. CASE k # n + 1
      <4>1. k \in 1..n /\ k \in 0..n /\ k - 1 \in 0..n
        BY <3>2
      <4> QED BY <2>1, <2>2, <4>1 DEF AdmitsLayers
    <3> QED BY <3>1, <3>2
  <2>5. g[0] = Admits0(tag)
    BY <2>1, <2>2, <2>3 DEF AdmitsLayers
  <2> QED BY <2>2, <2>4, <2>5 DEF AdmitsLayers
<1> HIDE DEF built
<1>3. N \in good
  <2>1. N \in Nat
    OBVIOUS
  <2> HIDE DEF N
  <2>2. 0 \in good /\ N \in 0..N
    BY <1>1, <2>1
  <2>3. \A n \in 0..N : n < N /\ n \in good => n + 1 \in good
    BY <1>2, <2>1
  <2> HIDE DEF good
  <2> QED BY <2>1, <2>2, <2>3, UpTo
<1>4. PICK f : AdmitsLayers(f, N, tag)
  BY <1>3 DEF built
<1> DEFINE within == CHOOSE g : g = [k \in 0..Len(tag.wraps) |->
               IF k = 0 THEN {raw \in Raws : primitiveAdmits(tag.leaf, raw)}
               ELSE IF tag.wraps[k].shape = "option" THEN g[k - 1]
               ELSE {raw \in Raws :
                       \A i \in DOMAIN readArray(raw) : readArray(raw)[i] \in g[k - 1]}]
<1>5. f = [k \in 0..N |->
               IF k = 0 THEN {raw \in Raws : primitiveAdmits(tag.leaf, raw)}
               ELSE IF tag.wraps[k].shape = "option" THEN f[k - 1]
               ELSE {raw \in Raws :
                       \A i \in DOMAIN readArray(raw) : readArray(raw)[i] \in f[k - 1]}]
  <2>1. ASSUME NEW k \in 0..N
        PROVE  f[k] =
               IF k = 0 THEN {raw \in Raws : primitiveAdmits(tag.leaf, raw)}
               ELSE IF tag.wraps[k].shape = "option" THEN f[k - 1]
               ELSE {raw \in Raws :
                       \A i \in DOMAIN readArray(raw) : readArray(raw)[i] \in f[k - 1]}
    <3>1. CASE k = 0
      BY <1>4, <3>1 DEF AdmitsLayers, Admits0
    <3>2. CASE k # 0
      <4>1. k \in 1..N
        BY <3>2
      <4>2. f[k] = Admits1(tag, k, f[k - 1])
        BY <1>4, <4>1 DEF AdmitsLayers
      <4> QED BY <3>2, <4>2 DEF Admits1
    <3> QED BY <3>1, <3>2
  <2>2. f = [k \in 0..N |-> f[k]]
    BY <1>4 DEF AdmitsLayers
  <2> QED BY <2>1, <2>2
<1>6. within = [k \in 0..N |->
               IF k = 0 THEN {raw \in Raws : primitiveAdmits(tag.leaf, raw)}
               ELSE IF tag.wraps[k].shape = "option" THEN within[k - 1]
               ELSE {raw \in Raws :
                       \A i \in DOMAIN readArray(raw) : readArray(raw)[i] \in within[k - 1]}]
  BY <1>5, Zenon
<1>7. propertyAdmits(tag) = within[N]
  BY Zenon DEF propertyAdmits
<1> HIDE DEF within, N
<1>8. AdmitsLayers(within, N, tag)
  <2>1. within = [k \in 0..N |-> within[k]]
    BY <1>6
  <2>2. within[0] = Admits0(tag)
    BY <1>6 DEF Admits0, N
  <2>3. ASSUME NEW k \in 1..N PROVE within[k] = Admits1(tag, k, within[k - 1])
    <3>1. k \in 0..N /\ k # 0
      BY DEF N
    <3> QED BY <1>6, <3>1 DEF Admits1
  <2> QED BY <2>1, <2>2, <2>3 DEF AdmitsLayers
<1> QED BY <1>7, <1>8 DEF N

-----------------------------------------------------------------------------
(* A value in all its wraps. *)

Wide == {"u64", "i64"}

\* readInt refuses what is out of range, but for the integers of eight bytes.
LEMMA PrimitiveFits ==
  ASSUME NEW name \in Integral, NEW raw, encodePrimitive(name, raw).ok,
         name \in Wide => IsInt(raw) /\ InRange(name, raw[1].value)
  PROVE  InRange(name, raw[1].value)
<1>1. name # "bool" /\ name # "string" /\ name # "publicKey"
  BY DEF Integral
<1>2. encodePrimitive(name, raw) = IF IsInt(raw) /\ readInt(name, raw[1].value)
                                     THEN Bytes(LE(raw[1].value, Width(name))) ELSE Invalid
  BY <1>1 DEF encodePrimitive
<1>3. readInt(name, raw[1].value)
  BY <1>2 DEF Invalid
<1>4. CASE name \notin Wide
  BY <1>3, <1>4 DEF readInt, Wide
<1> QED BY <1>4

LEMMA PrimitiveOk ==
  ASSUME NEW name \in SUPPORTED_PRIMITIVES, name # "pubkey", NEW raw \in Raws,
         primitiveAdmits(name, raw), name \in Integral => InRange(name, raw[1].value)
  PROVE  encodePrimitive(name, raw).ok
<1>1. \A d : Bytes(d).ok
  BY DEF Bytes
<1>2. CASE name \in Integral
  <2>1. name # "bool" /\ name # "string" /\ name # "publicKey"
    BY <1>2 DEF Integral
  <2>2. encodePrimitive(name, raw) = IF IsInt(raw) /\ readInt(name, raw[1].value)
                                       THEN Bytes(LE(raw[1].value, Width(name))) ELSE Invalid
    BY <1>2, <2>1 DEF encodePrimitive
  <2>3. IsInt(raw)
    BY <1>2, <2>1 DEF primitiveAdmits
  <2>4. readInt(name, raw[1].value)
    <3>1. CASE name = "i64"
      BY <3>1 DEF readInt
    <3>2. CASE name = "u64"
      BY <1>2, <3>2 DEF readInt, InRange, Min, Signed
    <3>3. CASE name # "i64" /\ name # "u64"
      BY <1>2, <3>3 DEF readInt
    <3> QED BY <3>1, <3>2, <3>3
  <2> QED BY <1>1, <2>2, <2>3, <2>4
<1>3. CASE name = "bool"
  <2>1. name \notin Integral
    BY <1>3 DEF Integral
  <2>2. IsTrue(raw) \/ IsFalse(raw)
    BY <1>3, <2>1 DEF primitiveAdmits
  <2>3. encodePrimitive(name, raw) = IF IsTrue(raw) THEN Bytes(<<1>>)
                                     ELSE IF IsFalse(raw) THEN Bytes(<<0>>) ELSE Invalid
    BY <1>3, <2>1 DEF encodePrimitive
  <2> QED BY <1>1, <2>2, <2>3
<1>4. CASE name = "string"
  <2>1. name \notin Integral
    BY <1>4 DEF Integral
  <2> QED BY <1>1, <1>4, <2>1 DEF encodePrimitive
<1>5. CASE name = "publicKey"
  <2>1. name \notin Integral
    BY <1>5 DEF Integral
  <2>2. Len(raw) = 1 /\ raw[1].kind = "key"
    BY <1>5, <2>1 DEF primitiveAdmits
  <2> QED BY <1>1, <1>5, <2>1, <2>2 DEF encodePrimitive
<1> QED BY <1>2, <1>3, <1>4, <1>5 DEF SUPPORTED_PRIMITIVES, Integral

\* A tag that is supported.
Tag(tag) == /\ tag.wraps \in Seq(Wraps)
            /\ tag.leaf \in SUPPORTED_PRIMITIVES /\ tag.leaf # "pubkey"

LEMMA TagOf ==
  ASSUME NEW tag, Tag(tag)
  PROVE  Len(tag.wraps) \in Nat /\ \A k \in 1..Len(tag.wraps) : tag.wraps[k] \in Wraps
<1>1. tag.wraps \in Seq(Wraps)
  BY DEF Tag
<1> HIDE DEF Wraps
<1> QED BY <1>1

LEMMA EncodeTyped ==
  ASSUME NEW tag, Tag(tag), NEW f, EncodeLayers(f, Len(tag.wraps), tag)
  PROVE  \A k \in 0..Len(tag.wraps) : f[k] \in [Raws -> Outs]
<1> DEFINE N == Len(tag.wraps)
           good == {k \in 0..N : f[k] \in [Raws -> Outs]}
<1>1. N \in Nat /\ \A k \in 1..N : tag.wraps[k] \in Wraps
  BY TagOf
<1>2. /\ f[0] = [raw \in Raws |-> encodePrimitive(tag.leaf, raw)]
      /\ \A k \in 1..N : f[k] = [raw \in Raws |-> encodeWrapped(tag.wraps[k], f[k - 1], raw)]
  BY DEF EncodeLayers, Encode0, Encode1
<1> HIDE DEF N
<1>3. 0 \in good
  BY <1>1, <1>2, PrimitiveTyped
<1>4. ASSUME NEW k \in 0..N, k < N, k \in good PROVE k + 1 \in good
  <2>1. k + 1 \in 1..N /\ (k + 1) - 1 = k /\ k + 1 \in 0..N
    BY <1>1, <1>4
  <2>2. f[k] \in [Raws -> Outs] /\ tag.wraps[k + 1] \in Wraps
    BY <1>1, <1>4, <2>1
  <2>3. f[k + 1] = [raw \in Raws |-> encodeWrapped(tag.wraps[k + 1], f[k], raw)]
    BY <1>2, <2>1
  <2>4. \A raw \in Raws : encodeWrapped(tag.wraps[k + 1], f[k], raw) \in Outs
    BY <2>2, WrapTyped
  <2> QED BY <2>1, <2>3, <2>4
<1> HIDE DEF good
<1>5. \A k \in 0..N : k \in good
  BY <1>1, <1>3, <1>4, UpTo
<1> QED BY <1>5 DEF good, N

\* A value of a type in any number of options, vectors and arrays: what is written of
\* it and fits is read as what was meant, whatever follows it in the data
\* (idl-synth.ts, encodeValue).
THEOREM ValueRead ==
  ASSUME NEW tag, Tag(tag)
  PROVE  /\ encodeValue(tag) \in [Raws -> Outs]
         /\ RoundTrip(encodeValue(tag), ReadValue(tag), Meant(tag), Fits(tag, Wide))
<1> DEFINE N == Len(tag.wraps)
<1>1. N \in Nat /\ \A k \in 1..N : tag.wraps[k] \in Wraps
  BY TagOf
<1>2. PICK f : EncodeLayers(f, N, tag) /\ encodeValue(tag) = f[N]
  BY <1>1, EncodeLayered
<1>3. PICK r : ReadLayers(r, N, tag) /\ ReadValue(tag) = r[N]
  BY <1>1, ReadLayered
<1>4. PICK m : MeantLayers(m, N, tag) /\ Meant(tag) = m[N]
  BY <1>1, MeantLayered
<1>5. PICK t : FitsLayers(t, N, tag, Wide) /\ Fits(tag, Wide) = t[N]
  BY <1>1, FitsLayered
<1>6. \A k \in 0..N : f[k] \in [Raws -> Outs]
  BY <1>2, EncodeTyped
<1> DEFINE good == {k \in 0..N : RoundTrip(f[k], r[k], m[k], t[k])}
<1>7. 0 \in good
  <2> SUFFICES ASSUME NEW raw \in Raws, f[0][raw].ok, raw \in t[0], NEW s \in Seq(Byte)
               PROVE  r[0][f[0][raw].data \o s] = Read(m[0][raw], s)
    BY <1>1 DEF RoundTrip
  <2>1. f[0][raw] = encodePrimitive(tag.leaf, raw) /\ m[0][raw] = MeantPrimitive(tag.leaf, raw)
    BY <1>2, <1>4 DEF EncodeLayers, Encode0, MeantLayers, Meant0
  <2>2. \A b \in Seq(Byte) : r[0][b] = ReadPrimitive(tag.leaf, b)
    BY <1>3 DEF ReadLayers, Read0
  <2>3. tag.leaf \in Wide => IsInt(raw) /\ InRange(tag.leaf, raw[1].value)
    BY <1>5 DEF FitsLayers, Fits0
  <2>4. f[0][raw].data \o s \in Seq(Byte)
    <3>1. f[0][raw] \in Outs
      BY <2>1, PrimitiveTyped
    <3> QED BY <3>1, OutsOf, ConcatProperties
  <2>5. tag.leaf \in Integral => InRange(tag.leaf, raw[1].value)
    BY <2>1, <2>3, PrimitiveFits
  <2>6. tag.leaf \in SUPPORTED_PRIMITIVES
    BY DEF Tag
  <2>7. ReadPrimitive(tag.leaf, encodePrimitive(tag.leaf, raw).data \o s)
          = Read(MeantPrimitive(tag.leaf, raw), s)
    BY <2>1, <2>5, <2>6, PrimitiveRead
  <2> QED BY <2>1, <2>2, <2>4, <2>7
<1>8. ASSUME NEW k \in 0..N, k < N, k \in good PROVE k + 1 \in good
  <2>1. k + 1 \in 1..N /\ (k + 1) - 1 = k /\ k + 1 \in 0..N
    BY <1>1, <1>8
  <2>2. RoundTrip(f[k], r[k], m[k], t[k]) /\ f[k] \in [Raws -> Outs]
    BY <1>6, <1>8
  <2> SUFFICES ASSUME NEW raw \in Raws, f[k + 1][raw].ok, raw \in t[k + 1], NEW s \in Seq(Byte)
               PROVE  r[k + 1][f[k + 1][raw].data \o s] = Read(m[k + 1][raw], s)
    BY <2>1 DEF RoundTrip
  <2> DEFINE w == tag.wraps[k + 1]
  <2>3. w \in Wraps
    BY <1>1, <2>1
  <2>4. f[k + 1][raw] = encodeWrapped(w, f[k], raw)
    <3>1. f[k + 1] = Encode1(tag, k + 1, f[k])
      BY <1>2, <2>1 DEF EncodeLayers
    <3> HIDE DEF w
    <3> QED BY <3>1 DEF Encode1, w
  <2>5. m[k + 1][raw] = MeantWrapped(w, m[k], raw)
    <3>1. m[k + 1] = Meant1(tag, k + 1, m[k])
      BY <1>4, <2>1 DEF MeantLayers
    <3> HIDE DEF w
    <3> QED BY <3>1 DEF Meant1, w
  <2>6. \A b \in Seq(Byte) : r[k + 1][b] = ReadWrapped(w, r[k], b)
    <3>1. r[k + 1] = Read1(tag, k + 1, r[k])
      BY <1>3, <2>1 DEF ReadLayers
    <3> HIDE DEF w
    <3> QED BY <3>1 DEF Read1, w
  <2>7. FitsWrapped(w, t[k], raw)
    <3>1. t[k + 1] = Fits1(tag, Wide, k + 1, t[k])
      BY <1>5, <2>1 DEF FitsLayers
    <3> QED BY <3>1 DEF Fits1, FitsWrapped
  <2>8. f[k + 1][raw].data \o s \in Seq(Byte)
    <3>1. f[k + 1][raw] \in Outs
      BY <1>6, <2>1
    <3> QED BY <3>1, OutsOf, ConcatProperties
  <2> HIDE DEF w
  <2>9. ReadWrapped(w, r[k], encodeWrapped(w, f[k], raw).data \o s)
          = Read(MeantWrapped(w, m[k], raw), s)
    BY <2>2, <2>3, <2>4, <2>7, WrapRead
  <2> QED BY <2>4, <2>5, <2>6, <2>8, <2>9
<1> HIDE DEF good, N
<1>9. \A k \in 0..N : k \in good
  BY <1>1, <1>7, <1>8, UpTo
<1>10. N \in good /\ f[N] \in [Raws -> Outs]
  BY <1>1, <1>6, <1>9 DEF N
<1> QED BY <1>2, <1>3, <1>4, <1>5, <1>10 DEF good

\* What the schema admits and fits is written.
LEMMA ValueOk ==
  ASSUME NEW tag, Tag(tag)
  PROVE  \A raw \in Raws : raw \in Fits(tag, Integral) /\ raw \in propertyAdmits(tag)
                             => encodeValue(tag)[raw].ok
<1> DEFINE N == Len(tag.wraps)
<1>1. N \in Nat /\ \A k \in 1..N : tag.wraps[k] \in Wraps
  BY TagOf
<1>2. PICK f : EncodeLayers(f, N, tag) /\ encodeValue(tag) = f[N]
  BY <1>1, EncodeLayered
<1>3. PICK a : AdmitsLayers(a, N, tag) /\ propertyAdmits(tag) = a[N]
  BY <1>1, AdmitsLayered
<1>4. PICK t : FitsLayers(t, N, tag, Integral) /\ Fits(tag, Integral) = t[N]
  BY <1>1, FitsLayered
<1>5. \A k \in 0..N : f[k] \in [Raws -> Outs]
  BY <1>2, EncodeTyped
<1> DEFINE good == {k \in 0..N : \A raw \in Raws : raw \in t[k] /\ raw \in a[k] => f[k][raw].ok}
<1>6. 0 \in good
  <2> SUFFICES ASSUME NEW raw \in Raws, raw \in t[0], raw \in a[0] PROVE f[0][raw].ok
    BY <1>1
  <2>1. f[0][raw] = encodePrimitive(tag.leaf, raw)
    BY <1>2 DEF EncodeLayers, Encode0
  <2>2. primitiveAdmits(tag.leaf, raw)
    BY <1>3 DEF AdmitsLayers, Admits0
  <2>3. tag.leaf \in Integral => InRange(tag.leaf, raw[1].value)
    BY <1>4 DEF FitsLayers, Fits0
  <2>4. tag.leaf \in SUPPORTED_PRIMITIVES /\ tag.leaf # "pubkey"
    BY DEF Tag
  <2> QED BY <2>1, <2>2, <2>3, <2>4, PrimitiveOk
<1>7. ASSUME NEW k \in 0..N, k < N, k \in good PROVE k + 1 \in good
  <2>1. k + 1 \in 1..N /\ (k + 1) - 1 = k /\ k + 1 \in 0..N
    BY <1>1, <1>7
  <2>2. \A raw \in Raws : raw \in t[k] /\ raw \in a[k] => f[k][raw].ok
    BY <1>7
  <2> SUFFICES ASSUME NEW raw \in Raws, raw \in t[k + 1], raw \in a[k + 1]
               PROVE  f[k + 1][raw].ok
    BY <2>1
  <2> DEFINE w == tag.wraps[k + 1]
  <2>3. w \in Wraps /\ f[k] \in [Raws -> Outs]
    BY <1>1, <1>5, <2>1
  <2>4. f[k + 1][raw] = encodeWrapped(w, f[k], raw)
    BY <1>2, <2>1 DEF EncodeLayers, Encode1
  <2>5. FitsWrapped(w, t[k], raw)
    <3>1. t[k + 1] = Fits1(tag, Integral, k + 1, t[k])
      BY <1>4, <2>1 DEF FitsLayers
    <3> QED BY <3>1 DEF Fits1, FitsWrapped
  <2>6. AdmitsWrapped(w, a[k], raw)
    <3>1. a[k + 1] = Admits1(tag, k + 1, a[k])
      BY <1>3, <2>1 DEF AdmitsLayers
    <3> QED BY <3>1 DEF Admits1, AdmitsWrapped
  <2> HIDE DEF w
  <2> QED BY <2>2, <2>3, <2>4, <2>5, <2>6, WrapOk
<1> HIDE DEF good, N
<1>8. \A k \in 0..N : k \in good
  BY <1>1, <1>6, <1>7, UpTo
<1>9. N \in good
  BY <1>1, <1>8
<1> QED BY <1>2, <1>3, <1>4, <1>9 DEF good

-----------------------------------------------------------------------------
(* An instruction. *)

LEMMA TypeTag ==
  ASSUME NEW t \in Types, ~isUnsupportedTag(classifyType(t))
  PROVE  Tag(classifyType(t))
<1> DEFINE leaf == IF t.name \in SUPPORTED_PRIMITIVES THEN normalizePrimitiveName(t.name)
                                                      ELSE "unsupported"
<1>1. classifyType(t).wraps = t.wraps /\ classifyType(t).leaf = leaf
  BY DEF classifyType
<1>2. t.wraps \in Seq(Wraps)
  BY TypesAssumption
<1>3. leaf # "unsupported"
  BY <1>1 DEF isUnsupportedTag
<1>4. leaf \in SUPPORTED_PRIMITIVES /\ leaf # "pubkey"
  BY <1>3 DEF normalizePrimitiveName, SUPPORTED_PRIMITIVES
<1> HIDE DEF leaf, Wraps
<1> QED BY <1>1, <1>2, <1>4 DEF Tag

\* A flag that is not given is written as nothing, or as false.
LEMMA MissingRead ==
  ASSUME NEW tag, Tag(tag), encodeMissing(tag).ok, NEW s \in Seq(Byte)
  PROVE  /\ encodeMissing(tag) = Bytes(<<0>>)
         /\ ReadValue(tag)[<<0>> \o s] = Read(IF IsOption(tag) THEN <<>> ELSE FALSE, s)
<1>0. IsOption(tag) \/ (tag.wraps = <<>> /\ tag.leaf = "bool")
  BY DEF encodeMissing, Invalid
<1>1. encodeMissing(tag) = Bytes(<<0>>)
  BY <1>0 DEF encodeMissing
<1> DEFINE N == Len(tag.wraps)
           b == <<0>> \o s
<1>2. N \in Nat
  BY TagOf
<1>3. PICK r : ReadLayers(r, N, tag) /\ ReadValue(tag) = r[N]
  BY <1>2, ReadLayered
<1>4. b \in Seq(Byte) /\ b[1] = 0 /\ After(b, 1) = s
  BY Base2, AfterOne
<1>5. CASE IsOption(tag)
  <2>1. tag.wraps # <<>> /\ tag.wraps[N].shape = "option"
    BY <1>5 DEF IsOption
  <2>2. N \in 1..N
    <3>1. N # 0
      <4>1. tag.wraps \in Seq(Wraps)
        BY DEF Tag
      <4> HIDE DEF Wraps
      <4> QED BY <2>1, <4>1, EmptySeq
    <3> QED BY <1>2, <3>1
  <2>3. r[N] = Read1(tag, N, r[N - 1])
    BY <1>3, <2>2 DEF ReadLayers
  <2> HIDE DEF b
  <2>4. r[N][b] = ReadWrapped(tag.wraps[N], r[N - 1], b)
    BY <1>4, <2>3 DEF Read1
  <2>5. r[N][b] = Read(<<>>, s)
    BY <1>4, <2>1, <2>4 DEF ReadWrapped
  <2> QED BY <1>1, <1>3, <1>5, <2>5 DEF b
<1>6. CASE ~IsOption(tag)
  <2>1. tag.wraps = <<>> /\ tag.leaf = "bool"
    BY <1>0, <1>6
  <2>2. N = 0
    BY <2>1
  <2>3. ReadValue(tag) = Read0(tag)
    BY <1>3, <2>2 DEF ReadLayers
  <2> HIDE DEF b
  <2>4. Read0(tag)[b] = ReadPrimitive("bool", b)
    BY <1>4, <2>1 DEF Read0
  <2>5. ReadPrimitive("bool", b) = Read(FALSE, s)
    <3>1. ReadPrimitive("bool", b) = Read(b[1] = 1, After(b, 1))
      BY DEF ReadPrimitive, Integral
    <3>2. (b[1] = 1) = FALSE
      BY <1>4
    <3> QED BY <1>4, <3>1, <3>2
  <2> QED BY <1>1, <1>6, <2>3, <2>4, <2>5 DEF b
<1> QED BY <1>5, <1>6

Typed(ix, flags) ==
  /\ Len(ix.args) \in Nat
  /\ \A i \in 1..Len(ix.args) : ix.args[i].type \in Types
  /\ DOMAIN ix.args = 1..Len(ix.args)
  /\ \A f \in DOMAIN flags : flags[f] \in Raws

\* One argument: what is written of it is read as what was meant.
LEMMA ArgRead ==
  ASSUME NEW arg, NEW flags, arg.type \in Types, ~isUnsupportedTag(classifyType(arg.type)),
         \A f \in DOMAIN flags : flags[f] \in Raws
  PROVE  /\ encodeArg(arg, flags) \in Outs
         /\ /\ encodeArg(arg, flags).ok
            /\ Flag(arg.name) \in DOMAIN flags
                 => flags[Flag(arg.name)] \in Fits(classifyType(arg.type), Wide)
            => \A s \in Seq(Byte) :
                 ReadValue(classifyType(arg.type))[encodeArg(arg, flags).data \o s]
                   = Read(MeantArg(arg, flags), s)
<1> DEFINE tag == classifyType(arg.type)
           flag == Flag(arg.name)
<1>1. Tag(tag)
  BY TypeTag
<1>0. CASE arg.name \in Switches /\ ~TakesBoolean(tag)
  <2>1. encodeArg(arg, flags) = Invalid
    BY <1>0 DEF encodeArg
  <2>2. Invalid \in Outs /\ ~Invalid.ok
    BY One DEF Invalid, Outs
  <2> QED BY <2>1, <2>2
<1> SUFFICES ASSUME ~(arg.name \in Switches /\ ~TakesBoolean(tag)) PROVE
      /\ encodeArg(arg, flags) \in Outs
      /\ /\ encodeArg(arg, flags).ok
         /\ Flag(arg.name) \in DOMAIN flags
              => flags[Flag(arg.name)] \in Fits(classifyType(arg.type), Wide)
         => \A s \in Seq(Byte) :
              ReadValue(classifyType(arg.type))[encodeArg(arg, flags).data \o s]
                = Read(MeantArg(arg, flags), s)
  BY <1>0
<1>a. ~(arg.name \in Switches /\ ~TakesBoolean(tag))
  OBVIOUS
<1>2. CASE flag \in DOMAIN flags
  <2> DEFINE raw == flags[flag]
  <2>1. encodeArg(arg, flags) = encodeValue(tag)[raw] /\ MeantArg(arg, flags) = Meant(tag)[raw]
    BY <1>a, <1>2 DEF encodeArg, MeantArg
  <2>2. raw \in Raws
    BY <1>2
  <2> HIDE DEF tag, flag, raw
  <2>3. encodeValue(tag) \in [Raws -> Outs]
        /\ RoundTrip(encodeValue(tag), ReadValue(tag), Meant(tag), Fits(tag, Wide))
    BY <1>1, ValueRead
  <2>4. encodeArg(arg, flags) \in Outs
    BY <2>1, <2>2, <2>3
  <2>5. ASSUME encodeArg(arg, flags).ok, raw \in Fits(tag, Wide), NEW s \in Seq(Byte)
        PROVE  ReadValue(tag)[encodeArg(arg, flags).data \o s] = Read(MeantArg(arg, flags), s)
    BY <2>1, <2>2, <2>3, <2>5 DEF RoundTrip
  <2> QED BY <1>2, <2>4, <2>5 DEF tag, flag, raw
<1>3. CASE flag \notin DOMAIN flags
  <2>1. encodeArg(arg, flags) = encodeMissing(tag)
        /\ MeantArg(arg, flags) = IF IsOption(tag) THEN <<>> ELSE FALSE
    BY <1>a, <1>3 DEF encodeArg, MeantArg
  <2> HIDE DEF tag, flag
  <2>2. encodeMissing(tag) \in Outs
    BY One, OutsOf DEF encodeMissing
  <2>3. ASSUME encodeMissing(tag).ok, NEW s \in Seq(Byte)
        PROVE  ReadValue(tag)[encodeMissing(tag).data \o s] = Read(MeantArg(arg, flags), s)
    <3>1. encodeMissing(tag) = Bytes(<<0>>)
          /\ ReadValue(tag)[<<0>> \o s] = Read(IF IsOption(tag) THEN <<>> ELSE FALSE, s)
      BY <1>1, <2>3, MissingRead
    <3>2. encodeMissing(tag).data = <<0>>
      BY <3>1, One, OutsOf
    <3> QED BY <2>1, <3>1, <3>2
  <2> QED BY <2>1, <2>2, <2>3 DEF tag
<1> QED BY <1>2, <1>3

\* The data of an instruction, read by the program.
LEMMA DataRead ==
  ASSUME NEW ix, NEW flags, Typed(ix, flags), Supported(ix), planData(ix, flags).ok,
         ArgsFit(ix, flags, Wide)
  PROVE  ReadArgs(ix, planData(ix, flags).data).value
           = [i \in 1..Len(ix.args) |-> MeantArg(ix.args[i], flags)]
<1> DEFINE n == Len(ix.args)
           parts == [i \in 1..n |-> encodeArg(ix.args[i], flags)]
           readers == [i \in 1..n |-> ReadValue(classifyType(ix.args[i].type))]
           vals == [i \in 1..n |-> MeantArg(ix.args[i], flags)]
           data == planData(ix, flags).data
<1>1. n \in Nat /\ DOMAIN ix.args = 1..n
  BY DEF Typed
<1>2. planData(ix, flags) = concatBytes(parts)
  BY DEF planData
<1>3. ReadArgs(ix, data) = ReadEach(readers, data)
  BY DEF ReadArgs
<1>4. ASSUME NEW i \in 1..n
      PROVE  /\ encodeArg(ix.args[i], flags) \in Outs
             /\ encodeArg(ix.args[i], flags).ok =>
                  \A s \in Seq(Byte) :
                    ReadValue(classifyType(ix.args[i].type))[encodeArg(ix.args[i], flags).data \o s]
                      = Read(MeantArg(ix.args[i], flags), s)
  <2> DEFINE arg == ix.args[i]
  <2>1. /\ arg.type \in Types /\ ~isUnsupportedTag(classifyType(arg.type))
        /\ \A f \in DOMAIN flags : flags[f] \in Raws
    BY <1>1 DEF Typed, Supported
  <2>2. Flag(arg.name) \in DOMAIN flags
          => flags[Flag(arg.name)] \in Fits(classifyType(arg.type), Wide)
    BY <1>1 DEF ArgsFit
  <2> HIDE DEF arg
  <2>3. /\ encodeArg(arg, flags) \in Outs
        /\ encodeArg(arg, flags).ok => \A s \in Seq(Byte) :
             ReadValue(classifyType(arg.type))[encodeArg(arg, flags).data \o s]
               = Read(MeantArg(arg, flags), s)
    BY <2>1, <2>2, ArgRead
  <2> QED BY <2>3 DEF arg
<1>5. /\ parts = [i \in 1..n |-> parts[i]] /\ readers = [i \in 1..n |-> readers[i]]
      /\ vals = [i \in 1..n |-> vals[i]]
  OBVIOUS
<1>6. \A i \in 1..n : parts[i] \in Outs
  BY <1>4
<1>7. concatBytes(parts).ok
  BY <1>2
<1>8. \A i \in 1..n : parts[i].ok
  <2> HIDE DEF parts, n
  <2> QED BY <1>1, <1>5, <1>6, <1>7, ConcatOk
<1>9. EachReads(n, parts, readers, vals)
  <2> SUFFICES ASSUME NEW i \in 1..n, NEW s \in Seq(Byte)
               PROVE  readers[i][parts[i].data \o s] = Read(vals[i], s)
    BY DEF EachReads
  <2>1. parts[i] = encodeArg(ix.args[i], flags) /\ vals[i] = MeantArg(ix.args[i], flags)
        /\ readers[i] = ReadValue(classifyType(ix.args[i].type))
    OBVIOUS
  <2> HIDE DEF parts, readers, vals, n
  <2>2. encodeArg(ix.args[i], flags).ok
    BY <1>8, <2>1
  <2> QED BY <1>4, <2>1, <2>2
<1>10. data \in Seq(Byte) /\ data \o <<>> = data
  <2>1. concatBytes(parts) \in Outs
    <3> HIDE DEF parts, n
    <3> QED BY <1>1, <1>5, <1>6, ConcatOk
  <2>2. data \in Seq(Byte)
    BY <1>2, <2>1, OutsOf
  <2> HIDE DEF data
  <2> QED BY <2>2, ConcatEmptySeq
<1>11. data = concatBytes(parts).data
  BY <1>2
<1> HIDE DEF parts, readers, vals, n, data
<1> DEFINE none == <<>>
<1>a. none \in Seq(Byte)
  BY One
<1> HIDE DEF none
<1>12. ReadEach(readers, concatBytes(parts).data \o none) = Read([i \in 1..n |-> vals[i]], none)
  <2>1. n \in Nat
    BY <1>1
  <2>2. parts = [i \in 1..n |-> parts[i]]
    BY <1>5
  <2>3. readers = [i \in 1..n |-> readers[i]]
    BY <1>5
  <2> QED BY <2>1, <2>2, <2>3, <1>6, <1>7, <1>9, <1>a, ConcatRead
<1>13. ReadArgs(ix, data).value = vals
  <2>1. data \o none = data
    BY <1>10 DEF none
  <2>2. ReadArgs(ix, data) = Read(vals, none)
    BY <1>3, <1>5, <1>11, <1>12, <2>1
  <2> QED BY <2>2 DEF Read
<1> QED BY <1>13 DEF vals, n, data

\* Flags that the schema admits and that fit are written.
LEMMA DataOk ==
  ASSUME NEW ix, NEW flags, Typed(ix, flags), Supported(ix), ArgsFit(ix, flags, Integral),
         buildInputSchema(ix, flags), \A i \in DOMAIN ix.args : ix.args[i].name \notin RESERVED
  PROVE  planData(ix, flags).ok
<1> DEFINE n == Len(ix.args)
           parts == [i \in 1..n |-> encodeArg(ix.args[i], flags)]
<1>1. n \in Nat /\ DOMAIN ix.args = 1..n
  BY DEF Typed
<1>2. planData(ix, flags) = concatBytes(parts)
  BY DEF planData
<1>3. ASSUME NEW i \in 1..n
      PROVE  encodeArg(ix.args[i], flags) \in Outs /\ encodeArg(ix.args[i], flags).ok
  <2> DEFINE arg == ix.args[i]
             tag == classifyType(arg.type)
             raw == flags[Flag(arg.name)]
  <2>1. /\ arg.type \in Types /\ ~isUnsupportedTag(tag)
        /\ \A f \in DOMAIN flags : flags[f] \in Raws
    BY <1>1 DEF Typed, Supported
  <2>2. Flag(arg.name) \in DOMAIN flags /\ raw \in propertyAdmits(tag)
    BY <1>1 DEF buildInputSchema, RequiredFlags
  <2>3. raw \in Fits(tag, Integral)
    BY <1>1, <2>2 DEF ArgsFit
  <2>4. raw \in Raws
    BY <2>1, <2>2
  <2>5. encodeArg(arg, flags) = encodeValue(tag)[raw]
    BY <1>1, <2>2 DEF encodeArg, Switches, RESERVED
  <2>6. Tag(tag)
    BY <2>1, TypeTag
  <2> HIDE DEF raw, tag
  <2>7. encodeValue(tag) \in [Raws -> Outs]
    BY <2>6, ValueRead
  <2>8. encodeValue(tag)[raw].ok
    BY <2>2, <2>3, <2>4, <2>6, ValueOk
  <2> QED BY <2>4, <2>5, <2>7, <2>8
<1>4. /\ parts = [i \in 1..n |-> parts[i]]
      /\ \A i \in 1..n : parts[i] \in Outs /\ parts[i].ok
  BY <1>3
<1> HIDE DEF parts, n
<1>5. concatBytes(parts).ok
  BY <1>1, <1>4, ConcatOk
<1> QED BY <1>2, <1>5

\* Of the flags a call hands on, those that are no option's are the caller's, and
\* the switches say the mode.
LEMMA SaidIs ==
  /\ \A on : on \in BOOLEAN => Said(on) \in Raws
  /\ ~IsTrue(Said(FALSE))
<1>1. Said(TRUE) \in Raws /\ IsTrue(Said(TRUE))
  BY SaidAssumption DEF Said
<1>2. Said(FALSE) \in Raws /\ IsFalse(Said(FALSE))
  BY SaidAssumption DEF Said
<1>3. ASSUME NEW raw, IsFalse(raw) PROVE ~IsTrue(raw)
  BY <1>3 DEF IsFalse, IsTrue
<1> QED BY <1>1, <1>2, <1>3

LEMMA HandedOn ==
  ASSUME NEW flags, NEW mode, \A f \in DOMAIN flags : flags[f] \in Raws
  PROVE  /\ \A f \in DOMAIN callFlags(flags, mode) : callFlags(flags, mode)[f] \in Raws
         /\ \A name : name \notin RESERVED =>
              /\ Flag(name) \in DOMAIN callFlags(flags, mode) <=> Flag(name) \in DOMAIN flags
              /\ Flag(name) \in DOMAIN flags =>
                   callFlags(flags, mode)[Flag(name)] = flags[Flag(name)]
         /\ \A name :
              /\ accountFlagName(name) \in DOMAIN flags =>
                   /\ accountFlagName(name) \in DOMAIN callFlags(flags, mode)
                   /\ callFlags(flags, mode)[accountFlagName(name)]
                        = flags[accountFlagName(name)]
         /\ \A name \in Switches : mode = "plan" =>
              ~IsTrue(callFlags(flags, mode)[Flag(name)])
<1> DEFINE options == {f \in DOMAIN flags : f \in {Flag(n) : n \in Options} /\ flags[f] # <<Empty>>}
           switches == {Flag(n) : n \in Switches}
           all == extraFlags(flags) \cup options \cup switches
           handed == callFlags(flags, mode)
<1>1. handed = [f \in all |-> IF f \in switches THEN Said(f.name = mode) ELSE flags[f]]
  BY DEF callFlags
<1>2. \A f \in extraFlags(flags) : f \in DOMAIN flags /\ (f.account \/ f.name \notin RESERVED)
  BY DEF extraFlags
<1>3. \A name : Flag(name).account = FALSE /\ Flag(name).name = name
  BY DEF Flag
<1>4. \A name : accountFlagName(name).account = TRUE /\ accountFlagName(name).name = name
  BY DEF accountFlagName
<1>5. \A name : name \notin RESERVED => Flag(name) \notin switches /\ Flag(name) \notin options
  <2>1. Switches \subseteq RESERVED /\ Options \subseteq RESERVED
    BY DEF Switches, Options, RESERVED
  <2>2. ASSUME NEW name, NEW n, Flag(name) = Flag(n) PROVE name = n
    BY <1>3, <2>2
  <2> QED BY <2>1, <2>2
<1>6. \A name : accountFlagName(name) \notin switches
  <2> SUFFICES ASSUME NEW name, NEW n, accountFlagName(name) = Flag(n) PROVE FALSE
    OBVIOUS
  <2> QED BY <1>3, <1>4
<1>7. \A name : Flag(name) \in DOMAIN flags /\ name \notin RESERVED => Flag(name) \in extraFlags(flags)
  BY <1>3 DEF extraFlags
<1>8. \A name : accountFlagName(name) \in DOMAIN flags => accountFlagName(name) \in extraFlags(flags)
  BY <1>4 DEF extraFlags
<1>9. /\ DOMAIN handed = all
      /\ \A f \in all : handed[f] = IF f \in switches THEN Said(f.name = mode) ELSE flags[f]
  <2> HIDE DEF all, switches, handed
  <2> QED BY <1>1
<1>10. options \subseteq DOMAIN flags
  OBVIOUS
<1>b. \A f \in all : f \in extraFlags(flags) \/ f \in options \/ f \in switches
  OBVIOUS
<1>c. /\ \A f \in extraFlags(flags) : f \in all
      /\ \A f \in switches : f \in all
  OBVIOUS
<1>d. \A name \in Switches : Flag(name) \in switches /\ name # "plan"
  BY DEF Switches
<1> HIDE DEF options, switches, all, handed
<1>11. \A f \in DOMAIN handed : handed[f] \in Raws
  <2> SUFFICES ASSUME NEW f \in all PROVE handed[f] \in Raws
    BY <1>9
  <2>1. CASE f \in switches
    <3>1. handed[f] = Said(f.name = mode)
      BY <1>9, <2>1
    <3>2. (f.name = mode) \in BOOLEAN
      OBVIOUS
    <3> QED BY <3>1, <3>2, SaidIs
  <2>2. CASE f \notin switches
    BY <1>2, <1>9, <1>10, <1>b, <2>2
  <2> QED BY <2>1, <2>2
<1>12. ASSUME NEW name, name \notin RESERVED
       PROVE  /\ Flag(name) \in DOMAIN handed <=> Flag(name) \in DOMAIN flags
              /\ Flag(name) \in DOMAIN flags => handed[Flag(name)] = flags[Flag(name)]
  BY <1>2, <1>5, <1>7, <1>9, <1>b, <1>c, <1>12
<1>13. ASSUME NEW name, accountFlagName(name) \in DOMAIN flags
       PROVE  /\ accountFlagName(name) \in DOMAIN handed
              /\ handed[accountFlagName(name)] = flags[accountFlagName(name)]
  BY <1>6, <1>8, <1>9, <1>c, <1>13
<1>14. ASSUME NEW name \in Switches, mode = "plan" PROVE ~IsTrue(handed[Flag(name)])
  <2>1. handed[Flag(name)] = Said(name = mode)
    BY <1>3, <1>9, <1>c, <1>d
  <2>2. (name = mode) = FALSE
    BY <1>d, <1>14
  <2> QED BY <2>1, <2>2, SaidIs
<1> QED BY <1>11, <1>12, <1>13, <1>14 DEF handed

\* The answer of a call.
LEMMA AnswerFaithful ==
  ASSUME NEW ix, NEW flags, NEW mode, NEW p, Typed(ix, flags),
         DOMAIN ix.accounts = 1..Len(ix.accounts), Len(ix.accounts) \in Nat
  PROVE  Faithful(ix, flags, mode, Handle(ix, p, callFlags(flags, mode)))
<1> DEFINE handed == callFlags(flags, mode)
           plan == buildTransactionPlan(ix, p, handed)
           answer == Handle(ix, p, handed)
           heard(arg) == IF arg.name \in RESERVED THEN handed ELSE flags
<1> SUFFICES ASSUME Supported(ix) PROVE Faithful(ix, flags, mode, answer)
  BY DEF Faithful
<1>t. \A f \in DOMAIN flags : flags[f] \in Raws
  BY DEF Typed
<1>h. Typed(ix, handed)
  BY <1>t, HandedOn DEF Typed
<1>1. answer = IF plan.ok /\ \E n \in Switches : IsTrue(handed[Flag(n)])
                 THEN Refusal("VALIDATION") ELSE plan
  BY DEF Handle, Supported
<1>2. answer.ok => plan.ok /\ answer = plan
  BY <1>1 DEF Refusal
<1>3. plan.ok => planData(ix, handed).ok /\ plan.data = planData(ix, handed).data
  BY DEF buildTransactionPlan, Refusal
<1> HIDE DEF answer, plan
<1>m. ASSUME NEW i \in 1..Len(ix.args)
      PROVE  MeantArg(ix.args[i], handed) = MeantArg(ix.args[i], heard(ix.args[i]))
  <2>1. CASE ix.args[i].name \in RESERVED
    BY <2>1
  <2>2. CASE ix.args[i].name \notin RESERVED
    <3>1. /\ Flag(ix.args[i].name) \in DOMAIN handed <=> Flag(ix.args[i].name) \in DOMAIN flags
          /\ Flag(ix.args[i].name) \in DOMAIN flags =>
               handed[Flag(ix.args[i].name)] = flags[Flag(ix.args[i].name)]
      BY <1>t, <2>2, HandedOn
    <3>2. heard(ix.args[i]) = flags
      BY <2>2
    <3> HIDE DEF handed, heard
    <3> QED BY <3>1, <3>2 DEF MeantArg
  <2> QED BY <2>1, <2>2
<1>4. ASSUME answer.ok, ArgsFit(ix, handed, Wide)
      PROVE  ReadArgs(ix, answer.data).value
               = [i \in 1..Len(ix.args) |-> MeantArg(ix.args[i], heard(ix.args[i]))]
  <2>1. ReadArgs(ix, planData(ix, handed).data).value
          = [i \in 1..Len(ix.args) |-> MeantArg(ix.args[i], handed)]
    <3> HIDE DEF handed
    <3> QED BY <1>2, <1>3, <1>4, <1>h, DataRead
  <2>2. [i \in 1..Len(ix.args) |-> MeantArg(ix.args[i], handed)]
          = [i \in 1..Len(ix.args) |-> MeantArg(ix.args[i], heard(ix.args[i]))]
    <3> HIDE DEF handed, heard
    <3> QED BY <1>m
  <2>3. answer.data = planData(ix, handed).data
    BY <1>2, <1>3, <1>4
  <2> QED BY <2>1, <2>2, <2>3
<1>5. ASSUME ArgsFit(ix, flags, Integral), buildInputSchema(ix, flags), mode = "plan",
             \A i \in DOMAIN ix.args : ix.args[i].name \notin RESERVED,
             ix.accounts # <<>>,
             \A i \in DOMAIN ix.accounts : accountValue(ix.accounts[i], flags) # <<Empty>>
      PROVE  answer.ok
  <2>a. ASSUME NEW i \in DOMAIN ix.args
        PROVE  /\ Flag(ix.args[i].name) \in DOMAIN flags
               /\ Flag(ix.args[i].name) \in DOMAIN handed
               /\ handed[Flag(ix.args[i].name)] = flags[Flag(ix.args[i].name)]
    <3>1. ix.args[i].name \notin RESERVED
      BY <1>5
    <3>2. Flag(ix.args[i].name) \in DOMAIN flags
      BY <1>5 DEF buildInputSchema, RequiredFlags
    <3> QED BY <1>t, <3>1, <3>2, HandedOn
  <2>b. ASSUME NEW i \in DOMAIN ix.accounts
        PROVE  /\ accountFlagName(ix.accounts[i].name) \in DOMAIN flags
               /\ accountFlagName(ix.accounts[i].name) \in DOMAIN handed
               /\ handed[accountFlagName(ix.accounts[i].name)]
                    = flags[accountFlagName(ix.accounts[i].name)]
    <3>2. accountFlagName(ix.accounts[i].name) \in DOMAIN flags
      BY <1>5 DEF buildInputSchema, RequiredFlags
    <3> QED BY <1>t, <3>2, HandedOn
  <2>p. ~\E n \in Switches : IsTrue(handed[Flag(n)])
    BY <1>t, <1>5, HandedOn
  <2> HIDE DEF handed
  <2>c. ArgsFit(ix, handed, Integral)
    BY <1>5, <2>a DEF ArgsFit
  <2>d. buildInputSchema(ix, handed)
    BY <1>5, <2>a, <2>b DEF buildInputSchema, RequiredFlags
  <2>1. planData(ix, handed).ok
    BY <1>5, <1>h, <2>c, <2>d, DataOk
  <2> DEFINE metas == Metas(ix, handed)
  <2>2. \A i \in DOMAIN metas : metas[i].address = accountValue(ix.accounts[i], handed)
    BY DEF Metas
  <2>3. DOMAIN metas = DOMAIN ix.accounts
    BY DEF Metas
  <2>4. metas # <<>>
    <3>1. DOMAIN metas # {}
      BY <1>5, <2>3
    <3> HIDE DEF metas
    <3> QED BY <3>1
  <2>5. \A i \in DOMAIN metas : metas[i].address # <<Empty>>
    <3> SUFFICES ASSUME NEW i \in DOMAIN ix.accounts
                 PROVE  accountValue(ix.accounts[i], handed) # <<Empty>>
      BY <2>2, <2>3
    <3>1. accountValue(ix.accounts[i], handed) = accountValue(ix.accounts[i], flags)
      BY <2>b DEF accountValue
    <3> QED BY <1>5, <3>1
  <2>6. plan.ok
    <3> HIDE DEF metas
    <3> QED BY <2>1, <2>4, <2>5 DEF plan, buildTransactionPlan, metas
  <2> QED BY <1>1, <2>6, <2>p
<1> QED BY <1>4, <1>5 DEF Faithful, Wide

-----------------------------------------------------------------------------
(* Calls. *)

Removing == {"removing", "unlinking", "unlabelling"}

\* The answer of a call is the handler's, of an instruction of some IDL.
Answered(d) ==
  /\ job[d] \in Asked[d]
  /\ \E i \in Idls : \E k \in DOMAIN instructions[i] :
       /\ outcome[d].ix = instructions[i][k]
       /\ outcome[d].answer
            = Handle(instructions[i][k], pid[d], callFlags(job[d].flags, job[d].mode))

\* What the label of a command says of what it was asked, and of its answer.
CallIs(d) ==
  /\ pc[d] \in Searching => job[d].op \in {"remove", "call", "list"}
  /\ pc[d] = "resolving" => job[d].op # "list"
  /\ pc[d] \in Removing => job[d].op = "remove"
  /\ pc[d] \in {"calling", "naming"} => job[d] \in Asked[d] /\ job[d].op = "call"
  /\ pc[d] = "naming" => \A e \in entries[d] : e.idl \in Idls
  /\ pc[d] \notin Ended => ~outcome[d].ok
  /\ outcome[d].ok /\ job[d].op = "call" => Answered(d)

CallInv == TypeInv /\ DOMAIN outcome = Cmds /\ \A d \in Cmds : CallIs(d)

LEMMA SequenceDomain ==
  ASSUME NEW s, IsSequence(s)
  PROVE  Len(s) \in Nat /\ DOMAIN s = 1..Len(s)
BY DEF IsSequence

LEMMA InitCalls == IdlInit => CallInv
<1> SUFFICES ASSUME IdlInit PROVE CallInv
  OBVIOUS
<1>1. TypeInv
  BY InitTyped
<1>2. DOMAIN outcome = Cmds
  BY DEF IdlInit
<1>3. ASSUME NEW d \in Cmds PROVE CallIs(d)
  <2>1. pc[d] = "idle" /\ outcome[d].ok = FALSE
    BY DEF IdlInit, NoOutcome
  <2> QED BY <2>1 DEF CallIs, Searching, Removing
<1> QED BY <1>1, <1>2, <1>3 DEF CallInv

\* The others keep what they were asked and what they answered.
LEMMA CallsAlone ==
  ASSUME CallInv, NEW c \in Cmds,
         \A d \in Cmds \ {c} : /\ pc'[d] = pc[d] /\ job'[d] = job[d] /\ pid'[d] = pid[d]
                               /\ outcome'[d] = outcome[d] /\ entries'[d] = entries[d],
         TypeInv', DOMAIN outcome' = Cmds, CallIs(c)'
  PROVE  CallInv'
<1>1. ASSUME NEW d \in Cmds, d # c PROVE CallIs(d)'
  <2>1. CallIs(d)
    BY DEF CallInv
  <2>2. /\ pc'[d] = pc[d] /\ job'[d] = job[d] /\ pid'[d] = pid[d]
        /\ outcome'[d] = outcome[d] /\ entries'[d] = entries[d]
    BY <1>1
  <2> QED BY <2>1, <2>2 DEF CallIs, Answered
<1> QED BY <1>1 DEF CallInv

\* A step that leaves the answer and the job alone.
LEMMA CallGoesOn ==
  ASSUME CallInv, NEW c \in Cmds, UNCHANGED <<job, outcome>>, TypeInv',
         \A d \in Cmds \ {c} :
           pc'[d] = pc[d] /\ pid'[d] = pid[d] /\ entries'[d] = entries[d],
         pc[c] \notin Ended,
         /\ pc'[c] \in Searching => job[c].op \in {"remove", "call", "list"}
         /\ pc'[c] = "resolving" => job[c].op # "list"
         /\ pc'[c] \in Removing => job[c].op = "remove"
         /\ pc'[c] \in {"calling", "naming"} => job[c] \in Asked[c] /\ job[c].op = "call"
         /\ pc'[c] = "naming" => \A e \in entries'[c] : e.idl \in Idls
  PROVE  CallInv'
<1>1. CallIs(c) /\ ~outcome[c].ok
  BY DEF CallInv, CallIs
<1>2. CallIs(c)'
  BY <1>1 DEF CallIs
<1>3. DOMAIN outcome' = Cmds
  BY DEF CallInv
<1> QED BY <1>2, <1>3, CallsAlone

\* A step that ends a command, with an answer that is no call's.
LEMMA CallEnds ==
  ASSUME CallInv, NEW c \in Cmds, NEW answer, UNCHANGED job, TypeInv',
         Finish(c, answer), UNCHANGED entries, \A d \in Cmds \ {c} : pid'[d] = pid[d],
         answer.ok => job[c].op # "call"
  PROVE  CallInv'
<1>0. /\ DOMAIN outcome = Cmds
      /\ pc \in [Cmds -> Ended \cup Changing \cup Searching \cup {"idle", "calling", "naming"}]
  BY DEF CallInv, TypeInv, IdlTypeOK, Searching
<1>1. pc' = [pc EXCEPT ![c] = "ended"] /\ outcome' = [outcome EXCEPT ![c] = answer]
  BY DEF Finish, Goto
<1>2. pc'[c] = "ended" /\ outcome'[c] = answer /\ DOMAIN outcome' = Cmds
  BY <1>0, <1>1
<1>3. \A d \in Cmds \ {c} : pc'[d] = pc[d] /\ outcome'[d] = outcome[d]
  BY <1>0, <1>1
<1>4. CallIs(c)'
  BY <1>2 DEF CallIs, Searching, Removing, Ended
<1> QED BY <1>2, <1>3, <1>4, CallsAlone

LEMMA StepCalls == CallInv /\ [IdlNext]_idlVars => CallInv'
<1> SUFFICES ASSUME CallInv, [IdlNext]_idlVars PROVE CallInv'
  OBVIOUS
<1>t. TypeInv /\ TypeInv'
  BY StepTyped DEF CallInv
<1>0. CASE UNCHANGED idlVars
  <2>1. ASSUME NEW d \in Cmds PROVE CallIs(d)'
    BY <1>0 DEF CallInv, CallIs, Answered, idlVars, work
  <2> QED BY <1>0, <1>t, <2>1 DEF CallInv, idlVars, work
<1> SUFFICES ASSUME NEW c \in Cmds, Step(c) PROVE CallInv'
  BY <1>0 DEF IdlNext, Step
<1>a. /\ CallIs(c) /\ LocalOf(c) /\ DOMAIN outcome = Cmds /\ DOMAIN job = Cmds
      /\ DOMAIN pc = Cmds /\ DOMAIN pid = Cmds
      /\ DOMAIN entries = Cmds
      /\ pc[c] \in Ended \cup Changing \cup Searching \cup {"idle", "calling", "naming"}
  BY <1>t DEF CallInv, TypeInv, OthersOK, IdlTypeOK, Searching
<1>r. \A code : Refusal(code).ok = FALSE
  BY DEF Refusal
<1>1. ASSUME NEW j \in Asked[c], Begin(c, j) PROVE CallInv'
  <2>0. /\ j.op \in {"add", "list", "remove", "call"}
        /\ j.op = "remove" => j.mode # "both"
    BY JobsAssumption
  <2>1. pc[c] = "idle" /\ ~outcome[c].ok /\ job' = [job EXCEPT ![c] = j]
    BY <1>1, <1>a DEF Begin, CallIs, Ended
  <2>2. /\ \/ /\ pc' = [pc EXCEPT ![c] = "ended"] /\ pid' = pid
              /\ \E code : outcome' = [outcome EXCEPT ![c] = Refusal(code)]
           \/ /\ outcome' = outcome
              /\ \E where, p : /\ pc' = [pc EXCEPT ![c] = where]
                               /\ pid' = pid \/ pid' = [pid EXCEPT ![c] = p]
                               /\ \/ where = "loading"
                                  \/ where = "removing" /\ j.op = "remove"
                                  \/ where = "calling" /\ j.op = "call"
                                  \/ where = "resolving" /\ j.op \in {"remove", "call"}
                                  \/ where = "listing" /\ j.op = "list"
    <3>1. CASE j.op = "add"
      BY <1>1, <3>1 DEF Begin, Goto, Finish
    <3>2. CASE j.op = "remove"
      BY <1>1, <3>2, <2>0 DEF Begin, Goto, Finish
    <3>3. CASE j.op = "call"
      BY <1>1, <3>3 DEF Begin, Goto, Finish
    <3>4. CASE j.op = "list"
      BY <1>1, <3>4 DEF Begin, Goto, Finish
    <3> QED BY <2>0, <3>1, <3>2, <3>3, <3>4
  <2>3. \A d \in Cmds \ {c} : /\ pc'[d] = pc[d] /\ job'[d] = job[d] /\ pid'[d] = pid[d]
                              /\ outcome'[d] = outcome[d] /\ entries'[d] = entries[d]
    BY <1>1, <1>a, <2>1, <2>2 DEF Begin
  <2>4. ~outcome'[c].ok /\ DOMAIN outcome' = Cmds /\ job'[c] = j
    BY <1>a, <1>r, <2>1, <2>2
  <2>5. CallIs(c)'
    BY <1>a, <2>2, <2>4 DEF CallIs, Searching, Removing, Ended
  <2> QED BY <1>t, <2>3, <2>4, <2>5, CallsAlone
<1>2. CASE Resolve(c)
  BY <1>2, <1>a, <1>t, CallGoesOn
     DEF Resolve, Resolved, Goto, Searching, Removing, Ended, CallIs, LocalOf
<1>3. CASE ReadDir(c)
  BY <1>3, <1>a, <1>t, CallGoesOn DEF ReadDir, Goto, Searching, Removing, Ended, CallIs
<1>4. CASE ListLabels(c)
  BY <1>4, <1>a, <1>t, CallGoesOn DEF ListLabels, Goto, Searching, Removing, Ended, CallIs
<1>5. ASSUME NEW p \in Pids, ListFile(c, p) PROVE CallInv'
  BY <1>5, <1>a, <1>t, CallGoesOn DEF ListFile, Searching, Removing, Ended, CallIs
<1>6. CASE Listed(c)
  <2>1. CASE job[c].op = "list"
    <3>1. Finish(c, Done) /\ UNCHANGED <<pid, job, entries>>
      BY <1>6, <2>1 DEF Listed
    <3> QED BY <1>t, <2>1, <3>1, CallEnds
  <2>2. CASE job[c].op # "list"
    <3>1. job[c].op \in {"remove", "call"} /\ job[c] \in Asked[c]
      BY <1>6, <1>a, <2>2 DEF Listed, CallIs, LocalOf, Searching
    <3>2. CASE UNCHANGED outcome /\ \E p : Resolved(c, p)
      BY <1>6, <3>1, <3>2, <1>a, <1>t, CallGoesOn
         DEF Listed, Resolved, Goto, Searching, Removing, Ended
    <3>3. CASE Finish(c, Refusal("IDL_NOT_FOUND")) /\ UNCHANGED pid
      <4>1. UNCHANGED <<job, entries>>
        BY <1>6 DEF Listed
      <4> QED BY <1>t, <1>r, <3>3, <4>1, CallEnds
    <3> QED BY <1>6, <2>2, <3>2, <3>3 DEF Listed
  <2> QED BY <2>1, <2>2
<1>7. CASE Load(c)
  <2>1. UNCHANGED <<job, pid, entries>> /\ pc[c] = "loading"
        /\ \/ Goto(c, "storing") /\ UNCHANGED outcome
           \/ \E code : Finish(c, Refusal(code))
    BY <1>7 DEF Load
  <2>2. CASE Goto(c, "storing") /\ UNCHANGED outcome
    BY <2>1, <2>2, <1>a, <1>t, CallGoesOn DEF Goto, Searching, Removing, Ended
  <2>3. ASSUME NEW code, Finish(c, Refusal(code)) PROVE CallInv'
    BY <2>1, <2>3, <1>r, <1>t, CallEnds
  <2> QED BY <2>1, <2>2, <2>3
<1>8. CASE StoreIdl(c)
  BY <1>8, <1>a, <1>t, CallGoesOn DEF StoreIdl, Goto, work, Searching, Removing, Ended
<1>9. CASE AddReadsLabels(c)
  <2>1. UNCHANGED <<job, pid, entries>> /\ pc[c] = "labelling" /\ job[c].op = "add"
    BY <1>9, <1>a DEF AddReadsLabels, LocalOf, Adding
  <2>2. CASE job[c].label = NoLabel
    <3>1. Finish(c, Done)
      BY <1>9, <2>2 DEF AddReadsLabels, ReadLabels, Finish
    <3> QED BY <1>t, <2>1, <3>1, CallEnds
  <2>3. CASE job[c].label # NoLabel
    <3>1. Goto(c, "relabelling") /\ UNCHANGED outcome
      BY <1>9, <2>3 DEF AddReadsLabels, ReadLabels
    <3> QED BY <2>1, <3>1, <1>a, <1>t, CallGoesOn DEF Goto, Searching, Removing, Ended
  <2> QED BY <2>2, <2>3
<1>10. CASE Relabel(c)
  <2>1. UNCHANGED <<job, pid, entries>> /\ Finish(c, Done) /\ job[c].op = "add"
    BY <1>10, <1>a DEF Relabel, LocalOf, Adding
  <2> QED BY <1>t, <2>1, CallEnds
<1>11. CASE RemoveReadsLabels(c)
  BY <1>11, <1>a, <1>t, CallGoesOn
     DEF RemoveReadsLabels, ReadLabels, Goto, CallIs, Searching, Removing, Ended
<1>12. CASE Unlink(c)
  <2>1. UNCHANGED <<job, pid, entries>> /\ pc[c] = "unlinking" /\ job[c].op = "remove"
    BY <1>12, <1>a DEF Unlink, CallIs, Removing
  <2>2. \/ Finish(c, Done) \/ Finish(c, Refusal("IDL_NOT_FOUND"))
        \/ Goto(c, "unlabelling") /\ UNCHANGED outcome
    BY <1>12 DEF Unlink
  <2>3. CASE Goto(c, "unlabelling") /\ UNCHANGED outcome
    BY <2>1, <2>3, <1>a, <1>t, CallGoesOn DEF Goto, Searching, Removing, Ended
  <2> QED BY <1>t, <2>1, <2>2, <2>3, CallEnds
<1>13. CASE Unlabel(c)
  <2>1. UNCHANGED <<job, pid, entries>> /\ Finish(c, Done) /\ job[c].op = "remove"
    BY <1>13, <1>a DEF Unlabel, CallIs, Removing
  <2> QED BY <1>t, <2>1, CallEnds
<1>14. CASE Call(c)
  <2>0. PICK e \in entries[c] :
          LET found == instruction(shown(labels, pid[c], e.idl), e.idl, job[c].ix)
              first == CHOOSE i \in found : \A k \in found : i <= k
              ix == instructions[e.idl][first]
          IN Finish(c,
               IF found = {} THEN Refusal("IDL_NOT_FOUND")
               ELSE [answer |-> Handle(ix, pid[c], callFlags(job[c].flags, job[c].mode)),
                     ok |-> TRUE, code |-> "none", ix |-> ix])
    BY <1>14 DEF Call
  <2> DEFINE idl == e.idl
             found == instruction(shown(labels, pid[c], idl), idl, job[c].ix)
             first == CHOOSE i \in found : \A k \in found : i <= k
             handed == callFlags(job[c].flags, job[c].mode)
             answer == [answer |-> Handle(instructions[idl][first], pid[c], handed),
                        ok |-> TRUE, code |-> "none", ix |-> instructions[idl][first]]
  <2>1. UNCHANGED <<job, pid, entries>> /\ pc[c] = "naming"
        /\ job[c] \in Asked[c] /\ job[c].op = "call" /\ idl \in Idls
    BY <1>14, <1>a DEF Call, CallIs
  <2>2. CASE found = {}
    <3>1. Finish(c, Refusal("IDL_NOT_FOUND"))
      BY <2>0, <2>2
    <3> QED BY <1>t, <1>r, <2>1, <3>1, CallEnds
  <2>3. CASE found # {}
    <3>0. Finish(c, answer)
      BY <2>0, <2>3
    <3>2. first \in DOMAIN instructions[idl]
      <4>1. found \subseteq DOMAIN instructions[idl] /\ found \subseteq Nat
        BY <2>1, IdlAssumption, SequenceDomain DEF instruction
      <4> HIDE DEF found
      <4>2. \E i \in found : \A k \in found : i <= k
        BY <2>3, <4>1, Least
      <4>3. first \in found
        BY <4>2
      <4> QED BY <4>1, <4>3
    <3>3. pc'[c] = "ended" /\ outcome'[c] = answer /\ DOMAIN outcome' = Cmds
      BY <3>0, <1>a DEF Finish, Goto
    <3>4. \A d \in Cmds \ {c} : pc'[d] = pc[d] /\ outcome'[d] = outcome[d]
      BY <3>0, <1>a DEF Finish, Goto
    <3>5. answer.ix = instructions[idl][first]
          /\ answer.answer = Handle(instructions[idl][first], pid[c], handed)
      OBVIOUS
    <3> HIDE DEF answer, first, found, idl
    <3>6. Answered(c)'
      BY <2>1, <3>2, <3>3, <3>5 DEF Answered
    <3>7. CallIs(c)'
      BY <3>3, <3>6 DEF CallIs, Searching, Removing, Ended
    <3> QED BY <1>t, <2>1, <3>3, <3>4, <3>7, CallsAlone
  <2> QED BY <2>2, <2>3
<1>16. CASE ReadIdl(c)
  <2>1. UNCHANGED <<job, pid>> /\ pc[c] = "calling"
        /\ job[c] \in Asked[c] /\ job[c].op = "call" /\ pid[c] \in Pids
    BY <1>16, <1>a DEF ReadIdl, CallIs, LocalOf
  <2>2. CASE files[pid[c]] = Absent
    <3>1. Finish(c, Refusal("IDL_NOT_FOUND")) /\ UNCHANGED entries
      BY <1>16, <2>2 DEF ReadIdl
    <3> QED BY <1>t, <1>r, <2>1, <3>1, CallEnds
  <2>3. CASE files[pid[c]] # Absent
    <3> DEFINE new == [pid |-> pid[c], label |-> NoLabel, idl |-> files[pid[c]]]
    <3>1. Goto(c, "naming") /\ UNCHANGED outcome /\ entries' = [entries EXCEPT ![c] = {new}]
      BY <1>16, <2>3 DEF ReadIdl
    <3>2. new.idl \in Idls
      BY <2>1, <2>3, <1>t DEF TypeInv, IdlTypeOK
    <3> HIDE DEF new
    <3>3. entries'[c] = {new} /\ \A d \in Cmds \ {c} : entries'[d] = entries[d]
      BY <1>a, <3>1
    <3>4. pc'[c] = "naming" /\ \A d \in Cmds \ {c} : pc'[d] = pc[d] /\ pid'[d] = pid[d]
      BY <1>a, <2>1, <3>1 DEF Goto
    <3> QED BY <1>t, <2>1, <3>1, <3>2, <3>3, <3>4, CallGoesOn
          DEF Searching, Removing, Ended
  <2> QED BY <2>2, <2>3
<1>15. CASE Stop(c)
  BY <1>15, <1>a, <1>t, CallGoesOn
     DEF Stop, Active, Goto, work, Searching, Removing, Ended
<1> QED
  BY <1>1, <1>2, <1>3, <1>4, <1>5, <1>6, <1>7, <1>8, <1>9, <1>10, <1>11, <1>12, <1>13,
     <1>14, <1>15, <1>16 DEF Step

LEMMA CallsFaithful == CallInv => CallEncodes
<1> SUFFICES ASSUME CallInv, NEW c \in Cmds, outcome[c].ok, job[c].op = "call"
             PROVE  Faithful(outcome[c].ix, job[c].flags, job[c].mode, outcome[c].answer)
  BY DEF CallEncodes
<1>1. Answered(c)
  BY DEF CallInv, CallIs
<1>a. PICK i \in Idls : \E k \in DOMAIN instructions[i] :
        /\ outcome[c].ix = instructions[i][k]
        /\ outcome[c].answer
             = Handle(instructions[i][k], pid[c], callFlags(job[c].flags, job[c].mode))
  BY <1>1 DEF Answered
<1>2. PICK k \in DOMAIN instructions[i] :
        /\ outcome[c].ix = instructions[i][k]
        /\ outcome[c].answer
             = Handle(instructions[i][k], pid[c], callFlags(job[c].flags, job[c].mode))
  BY <1>a
<1> DEFINE ix == instructions[i][k]
           args == ix.args
           accounts == ix.accounts
           flags == job[c].flags
<1>3. \A f \in DOMAIN flags : flags[f] \in Raws
  BY <1>1, JobsAssumption DEF Answered
<1>4. /\ IsSequence(args) /\ IsSequence(accounts)
      /\ \A n \in DOMAIN args : args[n].type \in Types
  BY <1>2, IdlAssumption
<1> HIDE DEF ix, flags
<1>5. Len(args) \in Nat /\ DOMAIN args = 1..Len(args)
      /\ Len(accounts) \in Nat /\ DOMAIN accounts = 1..Len(accounts)
  BY <1>4, SequenceDomain
<1>6. \A n \in 1..Len(args) : args[n].type \in Types
  BY <1>4, <1>5
<1>7. Typed(ix, flags)
  BY <1>3, <1>5, <1>6 DEF Typed
<1>8. Faithful(ix, flags, job[c].mode, Handle(ix, pid[c], callFlags(flags, job[c].mode)))
  BY <1>5, <1>7, AnswerFaithful
<1> QED BY <1>2, <1>8 DEF ix, flags

\* A synthesized command says what its caller meant, whatever the IDL's types, the
\* flags and the width of a byte: the program reads the values of the flags, and what
\* the schema lets through and fits is not refused (idl-synth.ts, encodeValue); except
\* that an argument with the name of an option of solcli's gets what call.command.ts
\* and idlCall hand on of that option.
THEOREM CallsEncode == IdlSpec => []CallEncodes
<1>1. IdlInit => CallInv
  BY InitCalls
<1>2. CallInv /\ [IdlNext]_idlVars => CallInv'
  BY StepCalls
<1>3. CallInv => CallEncodes
  BY CallsFaithful
<1> QED BY <1>1, <1>2, <1>3, PTL DEF IdlSpec
==============================================================================
