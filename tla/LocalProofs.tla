------------------------------ MODULE LocalProofs ------------------------------
(***************************************************************************)
(* Proofs about the stores of Local, for any calls, processes, names,      *)
(* times to live, lines and waiters: the index of the keyring, the cache   *)
(* and the file of events each on its own, then the module that joins them *)
(* with the IDL store.                                                     *)
(***************************************************************************)
EXTENDS Local, IdlStoreProofs

-----------------------------------------------------------------------------
(* The index of the keyring (KeyringIndex). *)

KeyringPcValues == {"idle", "listing", "ended", "stopped"} \cup Keyring!Changing

KeyringShape ==
  /\ kPc \in [Cmds -> KeyringPcValues]
  /\ kInto \in [Cmds -> {"none", "tmp", "index", "gone"}]
  /\ DOMAIN kJob = Cmds /\ DOMAIN kMem = Cmds /\ DOMAIN kTmp = Keyring!Procs
  /\ kClobbered \in BOOLEAN /\ kShared \in BOOLEAN

\* What a call makes of the names it has read.
KeyringChanged(c) == IF kJob[c].op = "set" THEN index.names \cup {kJob[c].name}
                                   ELSE index.names \ {kJob[c].name}

\* The names in memory follow the index until somebody else renames.
KeyringMemInv ==
  ~kShared => \A c \in Cmds \ kStale :
    kPc[c] \in {"opening"} \cup Keyring!Writing => kMem[c] = KeyringChanged(c)

\* Two calls of one process that write at the same time are on record, and
\* otherwise the temporary file is still where its call opened it and holds what
\* that call has written.
KeyringTmpInv ==
  ~kShared => \A c \in Cmds :
    /\ \A d \in Cmds \ {c} :
         ~(Home[c] = Home[d] /\ kPc[c] \in Keyring!Writing /\ kPc[d] \in Keyring!Writing)
    /\ kPc[c] = "filling" => kInto[c] = "tmp" /\ Keyring!TmpOf(c) = Keyring!Half
    /\ kPc[c] = "renaming" => Keyring!TmpOf(c) = Keyring!Whole(kMem[c])

\* The entry of a name follows the call that works on it, unless there are two.
KeyringEntryInv ==
  \A c \in Cmds : kPc[c] \in Keyring!Changing /\ kJob[c].name \notin kMixed =>
    (kJob[c].name \in keyring <=> kJob[c].op = "set")

KeyringInv == KeyringShape /\ KeyringMemInv /\ KeyringTmpInv /\ KeyringEntryInv
              /\ Keyring!IndexTrue

LEMMA KeyringInitInv == Keyring!Init => KeyringInv
<1> SUFFICES ASSUME Keyring!Init PROVE KeyringInv
  OBVIOUS
<1>1. KeyringShape
  BY DEF Keyring!Init, KeyringShape, KeyringPcValues, Keyring!Changing
<1>2. KeyringMemInv /\ KeyringTmpInv /\ KeyringEntryInv
  BY
     DEF Keyring!Init, KeyringMemInv, KeyringTmpInv, KeyringEntryInv, Keyring!Writing,
         Keyring!Changing
<1>3. Keyring!IndexTrue
  BY DEF Keyring!Init, Keyring!IndexTrue, Keyring!Absent, Keyring!Whole
<1> QED BY <1>1, <1>2, <1>3 DEF KeyringInv

KeyringStep(c) ==
  \/ \E j \in SecretsAsked[c] : Keyring!Begin(c, j) \/ Keyring!Refuse(c, j)
  \/ Keyring!ReadIndex(c) \/ Keyring!OpenTmp(c) \/ Keyring!FillTmp(c) \/ Keyring!Rename(c)
  \/ Keyring!List(c)
  \/ Keyring!Stop(c)

\* A step moves one call and touches the temporary file of its process alone.
LEMMA KeyringOneMoves ==
  ASSUME KeyringShape, NEW c \in Cmds, KeyringStep(c)
  PROVE  /\ KeyringShape'
         /\ \A d \in Cmds \ {c} :
              kPc'[d] = kPc[d] /\ kJob'[d] = kJob[d] /\ kMem'[d] = kMem[d]
         /\ kMixed \subseteq kMixed' /\ kCut \subseteq kCut'
         /\ kPc[c] # "idle" => kJob' = kJob
         /\ kClobbered => kClobbered'
         /\ kShared => kShared'
<1> DEFINE Goal == /\ KeyringShape'
                   /\ \A d \in Cmds \ {c} :
                        kPc'[d] = kPc[d] /\ kJob'[d] = kJob[d] /\ kMem'[d] = kMem[d]
                   /\ kMixed \subseteq kMixed' /\ kCut \subseteq kCut'
                   /\ kPc[c] # "idle" => kJob' = kJob
                   /\ kClobbered => kClobbered'
                   /\ kShared => kShared'
<1> USE DEF KeyringShape, KeyringPcValues, Keyring!Changing, Keyring!Goto,
            Keyring!SetTmp, Keyring!history
<1>1. ASSUME NEW j \in SecretsAsked[c], Keyring!Begin(c, j) \/ Keyring!Refuse(c, j)
      PROVE  Goal
  BY <1>1 DEF Keyring!Begin, Keyring!Refuse
<1>2. CASE Keyring!ReadIndex(c)
  BY <1>2 DEF Keyring!ReadIndex
<1>3. CASE Keyring!OpenTmp(c)
  BY <1>3 DEF Keyring!OpenTmp
<1>4. CASE Keyring!FillTmp(c)
  BY <1>4 DEF Keyring!FillTmp
<1>5. CASE Keyring!Rename(c)
  <2>1. kInto' \in [Cmds -> {"none", "tmp", "index", "gone"}]
    BY <1>5 DEF Keyring!Rename, Keyring!Moved
  <2> QED BY <1>5, <2>1 DEF Keyring!Rename
<1>6. CASE Keyring!List(c) \/ Keyring!Stop(c)
  BY <1>6 DEF Keyring!List, Keyring!Stop
<1> QED BY <1>1, <1>2, <1>3, <1>4, <1>5, <1>6 DEF KeyringStep

\* While nobody shares it, a call fills the temporary file and never the index.
LEMMA KeyringFilled ==
  ASSUME KeyringInv, ~kShared, NEW c \in Cmds, Keyring!FillTmp(c)
  PROVE  index' = index /\ kTmp' = [kTmp EXCEPT ![Home[c]] = Keyring!Whole(kMem[c])]
<1>1. kInto[c] = "tmp" /\ Keyring!TmpOf(c) = Keyring!Half
  BY DEF KeyringInv, KeyringTmpInv, Keyring!FillTmp
<1>2. Keyring!Written(Keyring!TmpOf(c), kMem[c]) = {Keyring!Whole(kMem[c])}
  BY <1>1 DEF Keyring!Written, Keyring!Half
<1> QED BY <1>1, <1>2 DEF Keyring!FillTmp, Keyring!SetTmp

LEMMA KeyringStepMem ==
  ASSUME KeyringInv, NEW c \in Cmds, KeyringStep(c)
  PROVE  KeyringMemInv'
<1> SUFFICES ASSUME ~kShared', NEW d \in Cmds \ kStale',
                    kPc'[d] \in {"opening"} \cup Keyring!Writing
             PROVE  kMem'[d] = KeyringChanged(d)'
  BY DEF KeyringMemInv
<1>0. ~kShared
  BY KeyringOneMoves DEF KeyringInv
<1> USE DEF KeyringInv, KeyringMemInv, KeyringChanged, Keyring!Goto, Keyring!history,
            Keyring!Writing
<1>1. CASE d # c
  <2>1. kPc'[d] = kPc[d] /\ kJob'[d] = kJob[d] /\ kMem'[d] = kMem[d]
    BY <1>1, KeyringOneMoves
  <2>2. index' = index /\ d \notin kStale
    BY <1>0, <1>1, KeyringFilled
       DEF KeyringStep, Keyring!Begin, Keyring!Refuse, Keyring!ReadIndex, Keyring!OpenTmp,
           Keyring!FillTmp, Keyring!Rename, Keyring!List, Keyring!Stop
  <2> QED BY <1>0, <2>1, <2>2
<1>2. CASE d = c
  <2>1. CASE Keyring!ReadIndex(c)
    BY <1>0, <1>2, <2>1 DEF Keyring!ReadIndex, KeyringShape
  <2>2. CASE Keyring!OpenTmp(c)
    BY <1>0, <1>2, <2>2 DEF Keyring!OpenTmp, KeyringShape
  <2>3. CASE Keyring!FillTmp(c)
    BY <1>0, <1>2, <2>3, KeyringFilled DEF Keyring!FillTmp, KeyringShape
  <2>4. ASSUME NEW j \in SecretsAsked[c], Keyring!Begin(c, j) \/ Keyring!Refuse(c, j)
        PROVE  FALSE
    BY <1>2, <2>4 DEF Keyring!Begin, Keyring!Refuse, KeyringShape
  <2>5. CASE Keyring!Rename(c)
    BY <1>2, <2>5 DEF Keyring!Rename, KeyringShape
  <2>6. CASE Keyring!List(c) \/ Keyring!Stop(c)
    BY <1>2, <2>6 DEF Keyring!List, Keyring!Stop, KeyringShape
  <2> QED BY <2>1, <2>2, <2>3, <2>4, <2>5, <2>6 DEF KeyringStep
<1> QED BY <1>1, <1>2

LEMMA KeyringStepTmp ==
  ASSUME KeyringInv, NEW c \in Cmds, KeyringStep(c)
  PROVE  KeyringTmpInv'
<1> SUFFICES ASSUME ~kShared' PROVE KeyringTmpInv'
  BY DEF KeyringTmpInv
<1>0. ~kShared /\ KeyringShape
  BY KeyringOneMoves DEF KeyringInv
<1>1. ASSUME NEW a \in Cmds, NEW b \in Cmds \ {a}, Home[a] = Home[b],
             kPc'[a] \in Keyring!Writing, kPc'[b] \in Keyring!Writing
      PROVE  FALSE
  <2>1. ASSUME NEW d \in Cmds \ {c}, Home[d] = Home[c], kPc'[c] \in Keyring!Writing,
               kPc[d] \in Keyring!Writing
        PROVE  FALSE
    <3>1. CASE kPc[c] \in Keyring!Writing
      BY <1>0, <2>1, <3>1 DEF KeyringInv, KeyringTmpInv
    <3>2. CASE Keyring!OpenTmp(c)
      BY <2>1, <3>2 DEF Keyring!OpenTmp
    <3>3. kPc'[c] \in Keyring!Writing => kPc[c] \in Keyring!Writing \/ Keyring!OpenTmp(c)
      BY <1>0
         DEF KeyringStep, Keyring!Begin, Keyring!Refuse, Keyring!ReadIndex,
             Keyring!FillTmp, Keyring!Rename, Keyring!List, Keyring!Stop, Keyring!Goto,
             KeyringShape, Keyring!Writing
    <3> QED BY <2>1, <3>1, <3>2, <3>3
  <2>2. \A d \in Cmds \ {c} : kPc'[d] = kPc[d]
    BY <1>0, KeyringOneMoves
  <2>3. CASE a # c /\ b # c
    BY <1>0, <1>1, <2>2, <2>3 DEF KeyringInv, KeyringTmpInv
  <2> QED BY <1>1, <2>1, <2>2, <2>3
<1>2. ASSUME NEW d \in Cmds, kPc'[d] \in {"filling", "renaming"}
      PROVE  /\ kPc'[d] = "filling" => kInto'[d] = "tmp" /\ Keyring!TmpOf(d)' = Keyring!Half
             /\ kPc'[d] = "renaming" => Keyring!TmpOf(d)' = Keyring!Whole(kMem'[d])
  <2>1. CASE d # c
    <3>1. kPc'[d] = kPc[d] /\ kMem'[d] = kMem[d]
      BY <1>0, <2>1, KeyringOneMoves
    <3>2. /\ kPc[d] = "filling" => kInto[d] = "tmp" /\ Keyring!TmpOf(d) = Keyring!Half
          /\ kPc[d] = "renaming" => Keyring!TmpOf(d) = Keyring!Whole(kMem[d])
      BY <1>0 DEF KeyringInv, KeyringTmpInv
    <3>3. CASE UNCHANGED <<kTmp, kInto>>
      BY <3>1, <3>2, <3>3 DEF Keyring!TmpOf
    <3>4. CASE Keyring!OpenTmp(c) \/ Keyring!FillTmp(c) \/ Keyring!Rename(c)
      <4>1. Home[c] # Home[d]
        <5>1. CASE Keyring!OpenTmp(c)
          BY <1>2, <2>1, <3>1, <5>1 DEF Keyring!OpenTmp, Keyring!Writing
        <5>2. CASE Keyring!FillTmp(c) \/ Keyring!Rename(c)
          BY <1>0, <1>2, <2>1, <3>1, <5>2
             DEF Keyring!FillTmp, Keyring!Rename, Keyring!Writing, KeyringInv,
                 KeyringTmpInv
        <5> QED BY <3>4, <5>1, <5>2
      <4>2. CASE Keyring!OpenTmp(c)
        <5>1. kTmp'[Home[d]] = kTmp[Home[d]] /\ kInto'[d] = kInto[d]
          BY <1>0, <2>1, <4>1, <4>2
             DEF Keyring!OpenTmp, Keyring!SetTmp, KeyringShape, Keyring!Procs
        <5> QED BY <3>1, <3>2, <5>1 DEF Keyring!TmpOf
      <4>3. CASE Keyring!FillTmp(c)
        <5>1. kTmp'[Home[d]] = kTmp[Home[d]] /\ kInto'[d] = kInto[d]
          BY <1>0, <2>1, <4>1, <4>3, KeyringFilled
             DEF Keyring!FillTmp, KeyringShape, Keyring!Procs
        <5> QED BY <3>1, <3>2, <5>1 DEF Keyring!TmpOf
      <4>4. CASE Keyring!Rename(c)
        <5>1. kTmp'[Home[d]] = kTmp[Home[d]] /\ (kInto[d] = "tmp" => kInto'[d] = "tmp")
          BY <1>0, <2>1, <4>1, <4>4
             DEF Keyring!Rename, Keyring!Moved, Keyring!SetTmp, KeyringShape, Keyring!Procs
        <5> QED BY <3>1, <3>2, <5>1 DEF Keyring!TmpOf
      <4> QED BY <3>4, <4>2, <4>3, <4>4
    <3>5. CASE Keyring!Stop(c)
      <4>1. kTmp' = kTmp /\ kInto'[d] = kInto[d]
        BY <1>0, <2>1, <3>5 DEF Keyring!Stop, KeyringShape
      <4> QED BY <3>1, <3>2, <4>1 DEF Keyring!TmpOf
    <3>6. \/ UNCHANGED <<kTmp, kInto>> \/ Keyring!Stop(c)
          \/ Keyring!OpenTmp(c) \/ Keyring!FillTmp(c) \/ Keyring!Rename(c)
      BY
         DEF KeyringStep, Keyring!Begin, Keyring!Refuse, Keyring!ReadIndex, Keyring!List,
             Keyring!history
    <3> QED BY <3>3, <3>4, <3>5, <3>6
  <2>2. CASE d = c
    <3>1. Keyring!FillTmp(c) \/ Keyring!OpenTmp(c)
      BY <1>0, <1>2, <2>2
         DEF KeyringStep, Keyring!Begin, Keyring!Refuse, Keyring!ReadIndex,
             Keyring!Rename, Keyring!List, Keyring!Stop, Keyring!Goto, KeyringShape
    <3>2. CASE Keyring!FillTmp(c)
      <4>1. kPc'[c] = "renaming" /\ kMem' = kMem
        BY <1>0, <3>2 DEF Keyring!FillTmp, Keyring!Goto, KeyringShape
      <4> QED
        BY <1>0, <2>2, <3>2, <4>1, KeyringFilled
           DEF Keyring!TmpOf, KeyringShape, Keyring!Procs
    <3>3. CASE Keyring!OpenTmp(c)
      BY <1>0, <2>2, <3>3
         DEF Keyring!OpenTmp, Keyring!SetTmp, Keyring!TmpOf, Keyring!Goto, KeyringShape,
             Keyring!Procs
    <3> QED BY <3>1, <3>2, <3>3
  <2> QED BY <2>1, <2>2
<1> QED BY <1>1, <1>2 DEF KeyringTmpInv

LEMMA KeyringStepEntry ==
  ASSUME KeyringInv, NEW c \in Cmds, KeyringStep(c)
  PROVE  KeyringEntryInv'
<1> SUFFICES ASSUME NEW d \in Cmds, kPc'[d] \in Keyring!Changing,
                    kJob'[d].name \notin kMixed'
             PROVE  kJob'[d].name \in keyring' <=> kJob'[d].op = "set"
  BY DEF KeyringEntryInv
<1>M. KeyringShape /\ kMixed \subseteq kMixed'
      /\ (d # c => kPc'[d] = kPc[d] /\ kJob'[d] = kJob[d])
      /\ (kPc[c] # "idle" => kJob' = kJob)
  BY KeyringOneMoves DEF KeyringInv
<1>1. ASSUME NEW j \in SecretsAsked[c], Keyring!Begin(c, j)
      PROVE  kJob'[d].name \in keyring' <=> kJob'[d].op = "set"
  <2>1. CASE d = c
    BY <1>1, <1>M, <2>1 DEF Keyring!Begin, Keyring!Goto, KeyringShape, Keyring!Changing
  <2>2. CASE d # c
    <3>1. kJob[d].name \in keyring <=> kJob[d].op = "set"
      BY <1>M, <2>2 DEF KeyringInv, KeyringEntryInv
    <3>2. CASE j.op = "list"
      BY <1>1, <1>M, <2>2, <3>1, <3>2 DEF Keyring!Begin
    <3>3. CASE j.op # "list"
      <4>1. j.name # kJob[d].name
        BY <1>1, <1>M, <2>2, <3>3 DEF Keyring!Begin
      <4> QED BY <1>1, <1>M, <2>2, <3>1, <3>3, <4>1 DEF Keyring!Begin
    <3> QED BY <3>2, <3>3
  <2> QED BY <2>1, <2>2
<1>2. ASSUME NEW j \in SecretsAsked[c], Keyring!Refuse(c, j)
      PROVE  kJob'[d].name \in keyring' <=> kJob'[d].op = "set"
  BY <1>2, <1>M
     DEF Keyring!Refuse, Keyring!Goto, KeyringShape, Keyring!Changing, KeyringInv,
         KeyringEntryInv
<1>3. CASE ~\E j \in SecretsAsked[c] : Keyring!Begin(c, j) \/ Keyring!Refuse(c, j)
  <2>1. keyring' = keyring /\ kPc[c] # "idle"
    BY <1>3
       DEF KeyringStep, Keyring!ReadIndex, Keyring!OpenTmp, Keyring!FillTmp,
           Keyring!Rename, Keyring!List, Keyring!Stop, Keyring!Active, Keyring!Changing
  <2>2. kPc[d] \in Keyring!Changing
    <3>1. CASE d # c
      BY <1>M, <3>1
    <3>2. CASE d = c
      BY <1>3, <1>M, <3>2
         DEF KeyringStep, Keyring!ReadIndex, Keyring!OpenTmp, Keyring!FillTmp,
             Keyring!Rename, Keyring!List, Keyring!Stop, Keyring!Goto, KeyringShape,
             Keyring!Changing
    <3> QED BY <3>1, <3>2
  <2> QED BY <1>M, <2>1, <2>2 DEF KeyringInv, KeyringEntryInv
<1> QED BY <1>1, <1>2, <1>3

LEMMA KeyringStepIndex ==
  ASSUME KeyringInv, NEW c \in Cmds, KeyringStep(c)
  PROVE  Keyring!IndexTrue'
<1> SUFFICES ASSUME ~kClobbered', ~kShared'
             PROVE  /\ index'.state # "half"
                    /\ \A n \in Names \ (kMixed' \cup kCut') :
                         (\A d \in Cmds :
                            ~(kPc'[d] \in Keyring!Changing /\ kJob'[d].name = n))
                           => (n \in keyring' <=> n \in index'.names)
  BY DEF Keyring!IndexTrue
<1>M. /\ KeyringShape /\ ~kClobbered /\ ~kShared
      /\ kMixed \subseteq kMixed' /\ kCut \subseteq kCut'
      /\ \A d \in Cmds \ {c} : kPc'[d] = kPc[d] /\ kJob'[d] = kJob[d]
      /\ kPc[c] # "idle" => kJob' = kJob
  BY KeyringOneMoves DEF KeyringInv
<1>1. index.state # "half"
  BY <1>M DEF KeyringInv, Keyring!IndexTrue
<1>2. ASSUME NEW n \in Names \ (kMixed' \cup kCut'),
             \A d \in Cmds : ~(kPc[d] \in Keyring!Changing /\ kJob[d].name = n)
      PROVE  n \in keyring <=> n \in index.names
  BY <1>M, <1>2 DEF KeyringInv, Keyring!IndexTrue
<1>3. CASE Keyring!Rename(c)
  <2>1. c \notin kStale /\ kPc[c] = "renaming" /\ index' = Keyring!TmpOf(c)
        /\ keyring' = keyring
        /\ kPc'[c] = "ended" /\ kMixed' = kMixed
    BY <1>3, <1>M DEF Keyring!Rename, Keyring!Goto, KeyringShape
  <2>2. index' = Keyring!Whole(KeyringChanged(c))
    BY <1>M, <2>1 DEF KeyringInv, KeyringTmpInv, KeyringMemInv, Keyring!Writing
  <2>3. index'.state # "half" /\ index'.names = KeyringChanged(c)
    BY <2>2 DEF Keyring!Whole
  <2>4. ASSUME NEW n \in Names \ (kMixed' \cup kCut'),
               \A d \in Cmds : ~(kPc'[d] \in Keyring!Changing /\ kJob'[d].name = n)
        PROVE  n \in keyring' <=> n \in index'.names
    <3>1. CASE n = kJob[c].name
      <4>1. n \in keyring <=> kJob[c].op = "set"
        BY <2>1, <3>1, <2>4 DEF KeyringInv, KeyringEntryInv, Keyring!Changing
      <4> QED BY <2>1, <2>3, <3>1, <4>1 DEF KeyringChanged
    <3>2. CASE n # kJob[c].name
      <4>1. n \in keyring <=> n \in index.names
        BY <1>2, <1>M, <2>4, <3>2
      <4> QED BY <2>1, <2>3, <3>2, <4>1 DEF KeyringChanged
    <3> QED BY <3>1, <3>2
  <2> QED BY <2>3, <2>4
<1>4. CASE ~Keyring!Rename(c)
  <2>1. index' = index
    BY <1>4, <1>M, KeyringFilled
       DEF KeyringStep, Keyring!Begin, Keyring!Refuse, Keyring!ReadIndex, Keyring!OpenTmp,
           Keyring!List, Keyring!Stop
  <2>2. ASSUME NEW n \in Names \ (kMixed' \cup kCut'),
               \A d \in Cmds : ~(kPc'[d] \in Keyring!Changing /\ kJob'[d].name = n)
        PROVE  n \in keyring' <=> n \in index'.names
    <3>1. ASSUME NEW j \in SecretsAsked[c], Keyring!Begin(c, j)
          PROVE  n \in keyring' <=> n \in index.names
      <4>1. \A d \in Cmds : ~(kPc[d] \in Keyring!Changing /\ kJob[d].name = n)
        BY <1>M, <2>2, <3>1 DEF Keyring!Begin, Keyring!Changing
      <4>2. j.op = "list" \/ j.name # n
        BY <1>M, <2>2, <3>1
           DEF Keyring!Begin, Keyring!Goto, KeyringShape, Keyring!Changing
      <4> QED BY <1>2, <3>1, <4>1, <4>2 DEF Keyring!Begin
    <3>2. ASSUME NEW j \in SecretsAsked[c], Keyring!Refuse(c, j)
          PROVE  n \in keyring' <=> n \in index.names
      <4>1. \A d \in Cmds : ~(kPc[d] \in Keyring!Changing /\ kJob[d].name = n)
        BY <1>M, <2>2, <3>2 DEF Keyring!Refuse, Keyring!Changing
      <4> QED BY <1>2, <3>2, <4>1 DEF Keyring!Refuse
    <3>3. CASE ~\E j \in SecretsAsked[c] : Keyring!Begin(c, j) \/ Keyring!Refuse(c, j)
      <4>1. keyring' = keyring /\ kPc[c] # "idle" /\ kJob' = kJob
        BY <1>M, <1>4, <3>3
           DEF KeyringStep, Keyring!ReadIndex, Keyring!OpenTmp, Keyring!FillTmp,
               Keyring!List, Keyring!Stop, Keyring!Active, Keyring!Changing
      <4>2. CASE kPc[c] \in Keyring!Changing /\ kJob[c].name = n
                 /\ kPc'[c] \notin Keyring!Changing
        <5>1. Keyring!ReadIndex(c) /\ kJob[c].op = "set" /\ n \in index.names
          BY <1>M, <1>4, <2>2, <3>3, <4>2
             DEF KeyringStep, Keyring!ReadIndex, Keyring!OpenTmp, Keyring!FillTmp,
                 Keyring!List, Keyring!Stop, Keyring!Goto, KeyringShape, Keyring!Changing
        <5>2. n \in keyring
          BY <1>M, <2>2, <4>2, <5>1 DEF KeyringInv, KeyringEntryInv
        <5> QED BY <2>1, <4>1, <5>1, <5>2
      <4>3. CASE ~(kPc[c] \in Keyring!Changing /\ kJob[c].name = n
                   /\ kPc'[c] \notin Keyring!Changing)
        <5>1. \A d \in Cmds : ~(kPc[d] \in Keyring!Changing /\ kJob[d].name = n)
          BY <1>M, <2>2, <4>1, <4>3
        <5> QED BY <1>2, <2>1, <2>2, <4>1, <5>1
      <4> QED BY <4>2, <4>3
    <3> QED BY <2>1, <3>1, <3>2, <3>3
  <2> QED BY <1>1, <2>1, <2>2
<1> QED BY <1>3, <1>4

LEMMA KeyringStepInv == KeyringInv /\ [Keyring!Next]_keyringVars => KeyringInv'
<1> SUFFICES ASSUME KeyringInv, [Keyring!Next]_keyringVars PROVE KeyringInv'
  OBVIOUS
<1>1. CASE UNCHANGED keyringVars
  BY <1>1
     DEF KeyringInv, KeyringShape, KeyringMemInv, KeyringTmpInv, KeyringEntryInv,
         Keyring!IndexTrue, KeyringChanged, Keyring!TmpOf, keyringVars, Keyring!history
<1>2. ASSUME NEW c \in Cmds, KeyringStep(c) PROVE KeyringInv'
  BY <1>2, KeyringOneMoves, KeyringStepMem, KeyringStepTmp, KeyringStepEntry,
     KeyringStepIndex DEF KeyringInv
<1> QED BY <1>1, <1>2 DEF Keyring!Next, KeyringStep

-----------------------------------------------------------------------------
(* The cache (TwoTierCache). *)

CachePcValues == {"idle", "reading", "read", "opening", "filling", "renaming",
             "unlinking", "ended", "stopped"}
CacheContents == [state : {"whole"}, value : Cmds, expiresAt : Nat]
                 \cup {Cache!Half, Cache!Absent}

\* Cache!TypeOK and the types of the variables it leaves out.
CacheShape ==
  /\ now \in 1..MaxTime
  /\ lru \in [Cache!Procs -> [value : Cmds \cup {Cache!NoValue}, until : Nat]]
  /\ disk \in CacheContents
  /\ tmp \in [Cache!Procs -> CacheContents]
  /\ cPc \in [Cmds -> CachePcValues]
  /\ cOp \in [Cmds -> {"none", "get", "set", "delete", "clear"}]
  /\ cEntry \in [Cmds -> CacheContents]
  /\ cRaw \in [Cmds -> CacheContents]
  /\ hit \in [Cmds -> Cmds \cup {Cache!NoValue}]
  /\ ttl \in [Cmds -> Nat]
  /\ superseded \in [Cache!Procs -> SUBSET Cmds]
  /\ raced \subseteq Cache!Procs
  /\ cInto \in [Cmds -> {"none", "tmp", "file", "gone"}]

\* The entries in files and in the hands of calls.
CacheEntries == {disk} \cup {tmp[p] : p \in Cache!Procs} \cup {cEntry[c] : c \in Cmds}
           \cup {cRaw[c] : c \in Cmds}

\* Every entry carries the expiry its call gave it, and memory holds nothing longer
\* than that and the default time to live.
CacheTermInv ==
  /\ \A e \in CacheEntries : e.state = "whole" =>
       cPc[e.value] # "idle" /\ e.expiresAt = ttl[e.value]
  /\ \A p \in Cache!Procs : lru[p].value # Cache!NoValue =>
       /\ cPc[lru[p].value] # "idle"
       /\ ttl[lru[p].value] # 0 => lru[p].until <= ttl[lru[p].value] + defaultTtl

\* The call that sets v has filled its temporary file and no such file holds v any
\* more: v cannot come to the disk again.
CachePast(v) ==
  /\ cPc[v] \notin {"idle", "opening", "filling"}
  /\ \A p \in Cache!Procs : tmp[p].value # v

CacheSetting(v) == cPc[v] \in {"opening", "filling", "renaming"}

\* What the disk, a get, or memory holds is past, but for what the process's own set
\* is still writing; a temporary file holds what its own process has set.
CachePastInv ==
  /\ \A p \in Cache!Procs : tmp[p].value # Cache!NoValue =>
       Home[tmp[p].value] = p /\ cPc[tmp[p].value] \notin {"idle", "opening", "filling"}
  /\ disk.value # Cache!NoValue => CachePast(disk.value)
  /\ \A c \in Cmds : cRaw[c].value # Cache!NoValue => CachePast(cRaw[c].value)
  /\ \A p \in Cache!Procs \ raced : lru[p].value # Cache!NoValue =>
       CachePast(lru[p].value) \/ (Home[lru[p].value] = p /\ CacheSetting(lru[p].value))
  /\ \A c \in Cmds : cPc[c] \in {"filling", "opening"} => cEntry[c].value = c

\* What a call was asked, told from where it is.
CacheKinds ==
  \A c \in Cmds :
    /\ cPc[c] \in {"reading", "read"} => cOp[c] = "get"
    /\ CacheSetting(c) => cOp[c] = "set"

\* In a process that has not raced, only gets overlap.
CacheApart ==
  \A c, d \in Cmds : c # d /\ Home[c] = Home[d] /\ Home[c] \notin raced
                      /\ Cache!Active(c) /\ Cache!Active(d)
                        => cOp[c] = "get" /\ cOp[d] = "get"

\* What a process that has not raced has set over or deleted is past, in neither its
\* memory nor a read under way, and on the disk only while the change is under way.
CacheGoneInv ==
  \A p \in Cache!Procs \ raced : \A v \in superseded[p] :
    /\ CachePast(v)
    /\ lru[p].value # v
    /\ \A c \in Cmds : Home[c] = p /\ cPc[c] = "read" => cRaw[c].value # v
    /\ disk.value = v => \E c \in Cmds : Home[c] = p /\ Cache!Active(c) /\ cOp[c] # "get"

CacheInv == CacheShape /\ CacheTermInv /\ CachePastInv /\ CacheKinds /\ CacheApart
            /\ CacheGoneInv

CacheStep(c) ==
  \/ Cache!Get(c) \/ Cache!ReadFile(c) \/ Cache!Promote(c)
  \/ \E seconds \in Ttls : Cache!Set(c, seconds)
  \/ Cache!OpenTmp(c) \/ Cache!FillTmp(c) \/ Cache!Rename(c)
  \/ Cache!Delete(c, "delete") \/ Cache!Delete(c, "clear") \/ Cache!Unlink(c)
  \/ Cache!Stop(c)

LEMMA CacheInitInv == Cache!Init => CacheInv
<1> SUFFICES ASSUME Cache!Init PROVE CacheInv
  OBVIOUS
<1> USE CacheAssumption
<1>1. Cache!Absent \in CacheContents /\ Cache!Absent.value = Cache!NoValue
      /\ Cache!Absent.state # "whole"
  BY DEF CacheContents, Cache!Absent
<1>2. CacheShape
  BY <1>1 DEF Cache!Init, CacheShape, CachePcValues, Cache!Nothing
<1>3. \A e \in CacheEntries : e = Cache!Absent
  BY DEF Cache!Init, CacheEntries
<1>4. CacheTermInv
  BY <1>1, <1>3 DEF Cache!Init, CacheTermInv, Cache!Nothing
<1>5. CachePastInv /\ CacheKinds /\ CacheApart /\ CacheGoneInv
  BY <1>1
     DEF Cache!Init, CachePastInv, CacheKinds, CacheSetting, CacheApart, CacheGoneInv,
         Cache!Active, Cache!Nothing
<1> QED
  BY <1>2, <1>4, <1>5 DEF CacheInv

\* What a call leaves in the files when it writes its entry.
LEMMA CacheFilled ==
  ASSUME CacheShape, NEW c \in Cmds, Cache!FillTmp(c)
  PROVE  /\ cPc[c] = "filling" /\ cPc'[c] = "renaming"
         /\ disk' \in {disk, cEntry[c], Cache!Half}
         /\ \A p \in Cache!Procs :
              tmp'[p] \in {tmp[p], Cache!Half} \/ (p = Home[c] /\ tmp'[p] = cEntry[c])
         /\ tmp' \in [Cache!Procs -> CacheContents]
         /\ cInto' \in [Cmds -> {"none", "tmp", "file", "gone"}]
<1>1. /\ tmp \in [Cache!Procs -> CacheContents] /\ cEntry[c] \in CacheContents
      /\ Cache!Half \in CacheContents /\ Home[c] \in Cache!Procs
  BY DEF CacheShape, CacheContents, Cache!Procs
<1>2. \A content : Cache!Written(content, cEntry[c]) \subseteq {cEntry[c], Cache!Half}
  BY DEF Cache!Written
<1>3. \/ tmp' = tmp
      \/ \E content \in {cEntry[c], Cache!Half} : tmp' = [tmp EXCEPT ![Home[c]] = content]
  BY <1>2 DEF Cache!FillTmp
<1>4. disk' \in {disk, cEntry[c], Cache!Half}
  BY <1>2 DEF Cache!FillTmp
<1>5. cPc[c] = "filling" /\ cPc'[c] = "renaming"
      /\ cInto' \in [Cmds -> {"none", "tmp", "file", "gone"}]
  BY DEF Cache!FillTmp, Cache!Goto, CacheShape
<1>6. CASE tmp' = tmp
  BY <1>1, <1>4, <1>5, <1>6
<1>7. ASSUME NEW content \in {cEntry[c], Cache!Half},
             tmp' = [tmp EXCEPT ![Home[c]] = content]
      PROVE  /\ \A p \in Cache!Procs :
                  tmp'[p] \in {tmp[p], Cache!Half} \/ (p = Home[c] /\ tmp'[p] = cEntry[c])
             /\ tmp' \in [Cache!Procs -> CacheContents]
  BY <1>1, <1>7
<1> QED
  BY <1>3, <1>4, <1>5, <1>6, <1>7

LEMMA CacheStepShape ==
  ASSUME CacheShape, (\E c \in Cmds : CacheStep(c)) \/ Cache!Evict \/ Cache!Tick
  PROVE  CacheShape'
<1> USE CacheAssumption
<1>1. Cache!Half \in CacheContents /\ Cache!Absent \in CacheContents
  BY DEF CacheContents
<1>2. \A c \in Cmds : Home[c] \in Cache!Procs
  BY DEF Cache!Procs
<1>3. Cache!Nothing \in [value : Cmds \cup {Cache!NoValue}, until : Nat]
  BY DEF Cache!Nothing
<1>4. now \in Nat /\ \A e \in CacheContents : e.value \in Cmds \cup {Cache!NoValue}
  BY DEF CacheShape, CacheContents, Cache!Half, Cache!Absent
<1>5. CASE Cache!Evict \/ Cache!Tick
  <2>1. cInto' \in [Cmds -> {"none", "tmp", "file", "gone"}]
    BY <1>5 DEF Cache!Evict, Cache!Tick, Cache!Replaced, CacheShape
  <2> QED
    BY <1>1, <1>3, <1>5, <2>1 DEF Cache!Evict, Cache!Tick, Cache!Forget, CacheShape
<1>6. ASSUME NEW c \in Cmds, CacheStep(c) PROVE CacheShape'
  <2>1. CASE Cache!Get(c)
    <3>1. lru[Home[c]].value \in Cmds \cup {Cache!NoValue}
      BY <1>2 DEF CacheShape
    <3> QED
      BY <1>2, <2>1, <3>1 DEF Cache!Get, Cache!Race, Cache!Goto, CacheShape, CachePcValues
  <2>2. CASE Cache!ReadFile(c)
    BY <2>2 DEF Cache!ReadFile, Cache!Goto, CacheShape, CachePcValues
  <2>3. CASE Cache!Promote(c)
    <3>1. cRaw[c].value \in Cmds \cup {Cache!NoValue} /\ now + defaultTtl \in Nat
      BY <1>4 DEF CacheShape
    <3>2. [value |-> cRaw[c].value, until |-> now + defaultTtl]
            \in [value : Cmds \cup {Cache!NoValue}, until : Nat]
      BY <3>1
    <3>3. lru' \in [Cache!Procs -> [value : Cmds \cup {Cache!NoValue}, until : Nat]]
          /\ hit' \in [Cmds -> Cmds \cup {Cache!NoValue}]
      <4>1. lru \in [Cache!Procs -> [value : Cmds \cup {Cache!NoValue}, until : Nat]]
            /\ hit \in [Cmds -> Cmds \cup {Cache!NoValue}]
        BY DEF CacheShape
      <4>2. CASE lru' = lru /\ hit' = hit
        BY <4>1, <4>2
      <4>3. CASE hit' = [hit EXCEPT ![c] = cRaw[c].value]
                 /\ Cache!Remember(Home[c], cRaw[c].value, now + defaultTtl)
        BY <1>2, <3>1, <3>2, <4>1, <4>3 DEF Cache!Remember
      <4> QED
        BY <2>3, <4>2, <4>3 DEF Cache!Promote
    <3> QED
      BY <2>3, <3>3 DEF Cache!Promote, Cache!Goto, CacheShape, CachePcValues
  <2>4. ASSUME NEW seconds \in Ttls, Cache!Set(c, seconds) PROVE CacheShape'
    <3> DEFINE at == IF seconds > 0 THEN now + seconds ELSE 0
               until == now + (IF seconds > 0 THEN seconds ELSE defaultTtl)
    <3>1. at \in Nat /\ until \in Nat
      BY <1>4
    <3>2. Cache!Entry(c, at) \in CacheContents
      BY <3>1 DEF Cache!Entry, CacheContents
    <3>3. [value |-> c, until |-> until] \in
             [value : Cmds \cup {Cache!NoValue}, until : Nat]
      BY <3>1
    <3>4. /\ cEntry' = [cEntry EXCEPT ![c] = Cache!Entry(c, at)]
          /\ ttl' = [ttl EXCEPT ![c] = at]
          /\ lru' = [lru EXCEPT ![Home[c]] = [value |-> c, until |-> until]]
      BY <2>4 DEF Cache!Set, Cache!Remember
    <3>5. cEntry' \in [Cmds -> CacheContents] /\ ttl' \in [Cmds -> Nat]
          /\ lru' \in [Cache!Procs -> [value : Cmds \cup {Cache!NoValue}, until : Nat]]
      BY <3>1, <3>2, <3>3, <3>4 DEF CacheShape
    <3>6. superseded' \in [Cache!Procs -> SUBSET Cmds]
      <4>1. disk.value \in Cmds \cup {Cache!NoValue}
            /\ lru[Home[c]].value \in Cmds \cup {Cache!NoValue}
        BY <1>2, <1>4 DEF CacheShape
      <4> QED
        BY <1>2, <2>4, <4>1 DEF Cache!Set, Cache!Supersede, CacheShape
    <3> HIDE DEF at, until
    <3> QED
      BY <1>2, <2>4, <3>5, <3>6
         DEF Cache!Set, Cache!Race, Cache!Goto, CacheShape, CachePcValues
  <2>5. CASE Cache!OpenTmp(c) \/ Cache!FillTmp(c) \/ Cache!Rename(c)
    <3>1. tmp' \in [Cache!Procs -> CacheContents] /\ disk' \in CacheContents
          /\ cInto' \in [Cmds -> {"none", "tmp", "file", "gone"}]
      <4>1. tmp \in [Cache!Procs -> CacheContents] /\ disk \in CacheContents
            /\ cEntry[c] \in CacheContents
            /\ tmp[Home[c]] \in CacheContents
        BY <1>2 DEF CacheShape
      <4>2. CASE Cache!OpenTmp(c)
        BY <1>1, <1>2, <4>1, <4>2 DEF Cache!OpenTmp, CacheShape
      <4>3. CASE Cache!Rename(c)
        <5>1. cInto' \in [Cmds -> {"none", "tmp", "file", "gone"}]
          BY <4>3 DEF Cache!Rename, Cache!Replaced, CacheShape
        <5> QED
          BY <1>1, <1>2, <4>1, <4>3, <5>1 DEF Cache!Rename
      <4>4. CASE Cache!FillTmp(c)
        BY <1>1, <4>1, <4>4, CacheFilled
      <4> QED
        BY <2>5, <4>2, <4>3, <4>4
    <3> QED
      BY <2>5, <3>1
         DEF Cache!OpenTmp, Cache!FillTmp, Cache!Rename, Cache!Goto, CacheShape,
             CachePcValues
  <2>6. ASSUME NEW how \in {"delete", "clear"}, Cache!Delete(c, how) PROVE CacheShape'
    <3>1. disk.value \in Cmds \cup {Cache!NoValue}
          /\ lru[Home[c]].value \in Cmds \cup {Cache!NoValue}
      BY <1>2, <1>4 DEF CacheShape
    <3>2. superseded' \in [Cache!Procs -> SUBSET Cmds]
      BY <1>2, <2>6, <3>1 DEF Cache!Delete, Cache!Supersede, CacheShape
    <3> QED
      BY <1>2, <1>3, <2>6, <3>2
         DEF Cache!Delete, Cache!Forget, Cache!Race, Cache!Goto, CacheShape, CachePcValues
  <2>7. CASE Cache!Unlink(c) \/ Cache!Stop(c)
    <3>1. cInto' \in [Cmds -> {"none", "tmp", "file", "gone"}]
      BY <2>7 DEF Cache!Unlink, Cache!Stop, Cache!Replaced, CacheShape
    <3> QED
      BY <1>1, <1>2, <2>7, <3>1
         DEF Cache!Unlink, Cache!Stop, Cache!Goto, CacheShape, CachePcValues
  <2> QED
    BY <1>6, <2>1, <2>2, <2>3, <2>4, <2>5, <2>6, <2>7 DEF CacheStep
<1> QED
  BY <1>5, <1>6

\* What a step of a call leaves alone, and what it may write into a file or
\* into the hands of a call.
LEMMA CacheOneMoves ==
  ASSUME CacheShape, NEW c \in Cmds, CacheStep(c)
  PROVE  /\ \A d \in Cmds \ {c} : cPc'[d] = cPc[d] /\ cOp'[d] = cOp[d] /\ ttl'[d] = ttl[d]
                                   /\ cEntry'[d] = cEntry[d] /\ cRaw'[d] = cRaw[d]
         /\ cPc'[c] # "idle"
         /\ raced \subseteq raced'
         /\ now' = now
         /\ \A p \in Cache!Procs \ {Home[c]} :
               lru'[p] = lru[p] /\ superseded'[p] = superseded[p]
<1> DEFINE Goal == /\ \A d \in Cmds \ {c} :
                        cPc'[d] = cPc[d] /\ cOp'[d] = cOp[d] /\ ttl'[d] = ttl[d]
                        /\ cEntry'[d] = cEntry[d] /\ cRaw'[d] = cRaw[d]
                   /\ cPc'[c] # "idle"
                   /\ raced \subseteq raced'
                   /\ now' = now
                   /\ \A p \in Cache!Procs \ {Home[c]} :
                        lru'[p] = lru[p] /\ superseded'[p] = superseded[p]
<1>T. /\ DOMAIN cPc = Cmds /\ DOMAIN cOp = Cmds /\ DOMAIN ttl = Cmds
      /\ DOMAIN cEntry = Cmds /\ DOMAIN cRaw = Cmds
      /\ DOMAIN lru = Cache!Procs /\ DOMAIN superseded = Cache!Procs
      /\ cPc \in [Cmds -> CachePcValues]
  BY DEF CacheShape
<1>1. CASE Cache!Get(c)
  BY <1>T, <1>1 DEF Cache!Get, Cache!Race, Cache!Goto
<1>2. CASE Cache!ReadFile(c) \/ Cache!Promote(c)
  BY <1>T, <1>2 DEF Cache!ReadFile, Cache!Promote, Cache!Remember, Cache!Goto
<1>3. ASSUME NEW seconds \in Ttls, Cache!Set(c, seconds) PROVE Goal
  BY <1>T, <1>3 DEF Cache!Set, Cache!Remember, Cache!Race, Cache!Supersede, Cache!Goto
<1>4. CASE Cache!OpenTmp(c) \/ Cache!FillTmp(c) \/ Cache!Rename(c)
  BY <1>T, <1>4 DEF Cache!OpenTmp, Cache!FillTmp, Cache!Rename, Cache!Goto
<1>5. ASSUME NEW how \in {"delete", "clear"}, Cache!Delete(c, how) PROVE Goal
  BY <1>T, <1>5 DEF Cache!Delete, Cache!Forget, Cache!Race, Cache!Supersede, Cache!Goto
<1>6. CASE Cache!Unlink(c) \/ Cache!Stop(c)
  BY <1>T, <1>6 DEF Cache!Unlink, Cache!Stop, Cache!Goto
<1> QED
  BY <1>1, <1>2, <1>3, <1>4, <1>5, <1>6 DEF CacheStep

\* Every entry is one that was there, or the one that its call sets.
LEMMA CacheNewEntries ==
  ASSUME CacheShape, NEW c \in Cmds, CacheStep(c), NEW e \in CacheEntries',
         e.state = "whole"
  PROVE  \/ e \in CacheEntries
         \/ /\ cPc[c] = "idle" /\ e.value = c
            /\ e.expiresAt = ttl'[c] /\ lru'[Home[c]].value = c
            /\ ttl'[c] # 0 => lru'[Home[c]].until = ttl'[c]
<1> USE CacheAssumption
<1>1. Cache!Half.state # "whole" /\ Cache!Absent.state # "whole"
  BY DEF Cache!Half, Cache!Absent
<1>2. \A d \in Cmds : Home[d] \in Cache!Procs
  BY DEF Cache!Procs
<1>3. CASE Cache!Get(c) \/ Cache!Stop(c)
  BY <1>3 DEF Cache!Get, Cache!Stop, CacheEntries
<1>4. CASE Cache!Promote(c)
  BY <1>4 DEF Cache!Promote, CacheEntries
<1>5. CASE Cache!ReadFile(c)
  BY <1>5 DEF Cache!ReadFile, CacheEntries, CacheShape
<1>6. CASE Cache!OpenTmp(c) \/ Cache!FillTmp(c) \/ Cache!Rename(c)
  <2>1. /\ cEntry' = cEntry /\ cRaw' = cRaw
        /\ disk' \in {disk, tmp[Home[c]], Cache!Half, cEntry[c]}
        /\ \A p \in Cache!Procs : tmp'[p] \in {tmp[p], Cache!Half, Cache!Absent, cEntry[c]}
    <3>1. DOMAIN tmp = Cache!Procs
      BY DEF CacheShape
    <3>2. CASE Cache!OpenTmp(c)
      BY <3>1, <3>2 DEF Cache!OpenTmp
    <3>3. CASE Cache!FillTmp(c)
      BY <3>3, CacheFilled DEF Cache!FillTmp
    <3>4. CASE Cache!Rename(c)
      BY <3>1, <3>4 DEF Cache!Rename
    <3> QED
      BY <1>6, <3>2, <3>3, <3>4
  <2> QED
    BY <1>1, <1>2, <2>1 DEF CacheEntries
<1>7. ASSUME NEW how \in {"delete", "clear"}, Cache!Delete(c, how) PROVE e \in CacheEntries
  BY <1>7 DEF Cache!Delete, CacheEntries
<1>8. CASE Cache!Unlink(c)
  <2>1. cEntry' = cEntry /\ cRaw' = cRaw /\ disk' = Cache!Absent
        /\ \A p \in Cache!Procs : tmp'[p] \in {tmp[p], Cache!Absent}
    BY <1>8 DEF Cache!Unlink
  <2> QED
    BY <1>1, <2>1 DEF CacheEntries
<1>9. ASSUME NEW seconds \in Ttls, Cache!Set(c, seconds), e \notin CacheEntries
      PROVE  /\ cPc[c] = "idle" /\ e.value = c
             /\ e.expiresAt = ttl'[c] /\ lru'[Home[c]].value = c
             /\ ttl'[c] # 0 => lru'[Home[c]].until = ttl'[c]
  <2> DEFINE at == IF seconds > 0 THEN now + seconds ELSE 0
  <2>1. /\ cPc[c] = "idle"
        /\ cEntry' = [cEntry EXCEPT ![c] = Cache!Entry(c, at)]
        /\ ttl' = [ttl EXCEPT ![c] = at]
        /\ lru' = [lru EXCEPT ![Home[c]] =
             [value |-> c, until |-> now + (IF seconds > 0 THEN seconds ELSE defaultTtl)]]
        /\ UNCHANGED <<disk, tmp, cRaw>>
    BY <1>9 DEF Cache!Set, Cache!Remember
  <2>2. ttl'[c] = at /\ lru'[Home[c]].value = c /\ cEntry'[c] = Cache!Entry(c, at)
        /\ \A d \in Cmds \ {c} : cEntry'[d] = cEntry[d]
    BY <1>2, <2>1 DEF CacheShape
  <2>3. at # 0 => seconds > 0
    OBVIOUS
  <2>4. e = cEntry'[c]
    BY <1>9, <2>1, <2>2 DEF CacheEntries
  <2>5. e.value = c /\ e.expiresAt = at
    BY <2>2, <2>4 DEF Cache!Entry
  <2>6. at # 0 => lru'[Home[c]].until = at
    <3>1. lru'[Home[c]] =
            [value |-> c, until |-> now + (IF seconds > 0 THEN seconds ELSE defaultTtl)]
      BY <1>2, <2>1 DEF CacheShape
    <3> QED
      BY <2>3, <3>1
  <2> HIDE DEF at
  <2> QED
    BY <2>1, <2>2, <2>5, <2>6
<1> QED
  BY <1>3, <1>4, <1>5, <1>6, <1>7, <1>8, <1>9 DEF CacheStep

\* What memory comes to hold is nothing, the call that sets it, or what a get has
\* read and found fresh.
LEMMA CacheNewMemory ==
  ASSUME CacheShape, NEW c \in Cmds, CacheStep(c), NEW p \in Cache!Procs,
         lru'[p] # lru[p], lru'[p].value # Cache!NoValue
  PROVE  /\ p = Home[c]
         /\ \/ /\ cPc[c] = "idle" /\ cPc'[c] = "opening" /\ lru'[p].value = c
               /\ ttl'[c] # 0 => lru'[p].until = ttl'[c]
            \/ /\ cPc[c] = "read" /\ cRaw[c].state = "whole" /\ ~Cache!Expired(cRaw[c])
               /\ lru'[p].value = cRaw[c].value /\ lru'[p].until = now + defaultTtl
               /\ ttl' = ttl
<1> USE CacheAssumption
<1>1. p = Home[c]
  BY CacheOneMoves
<1>2. CASE Cache!Promote(c)
  BY <1>1, <1>2 DEF Cache!Promote, Cache!Remember, CacheShape
<1>3. ASSUME NEW seconds \in Ttls, Cache!Set(c, seconds)
      PROVE  /\ cPc[c] = "idle" /\ cPc'[c] = "opening" /\ lru'[p].value = c
             /\ ttl'[c] # 0 => lru'[p].until = ttl'[c]
  <2> DEFINE at == IF seconds > 0 THEN now + seconds ELSE 0
  <2>1. /\ cPc[c] = "idle" /\ cPc'[c] = "opening"
        /\ ttl'[c] = at
        /\ lru'[p] = [value |-> c,
                      until |-> now + (IF seconds > 0 THEN seconds ELSE defaultTtl)]
    BY <1>1, <1>3 DEF Cache!Set, Cache!Remember, Cache!Goto, CacheShape
  <2>2. at # 0 => seconds > 0
    OBVIOUS
  <2> QED
    BY <2>1, <2>2
<1>4. ASSUME NEW how \in {"delete", "clear"}, Cache!Delete(c, how) PROVE FALSE
  BY <1>1, <1>4 DEF Cache!Delete, Cache!Forget, Cache!Nothing, CacheShape
<1>5. lru' = lru \/ Cache!Promote(c) \/ (\E seconds \in Ttls : Cache!Set(c, seconds))
      \/ \E how \in {"delete", "clear"} : Cache!Delete(c, how)
  BY
     DEF CacheStep, Cache!Get, Cache!ReadFile, Cache!OpenTmp, Cache!FillTmp, Cache!Rename,
         Cache!Unlink, Cache!Stop
<1> QED
  BY <1>1, <1>2, <1>3, <1>4, <1>5

\* No step moves the expiry of a value that is set, and a promotion starts its new
\* term before the value has expired.
LEMMA CacheStepTerm == ASSUME CacheInv, NEW c \in Cmds, CacheStep(c) PROVE CacheTermInv'
<1>T. CacheShape /\ CacheShape' /\ cPc[c] \in CachePcValues
  BY CacheStepShape DEF CacheInv, CacheShape
<1>M. /\ \A d \in Cmds : cPc[d] # "idle" => cPc'[d] # "idle"
      /\ cPc'[c] # "idle"
      /\ \A d \in Cmds : cPc[d] # "idle" => ttl'[d] = ttl[d]
  <2>1. cPc[c] # "idle" => ttl' = ttl
    BY
       DEF CacheStep, Cache!Get, Cache!ReadFile, Cache!Promote, Cache!Set, Cache!OpenTmp,
           Cache!FillTmp, Cache!Rename, Cache!Delete, Cache!Unlink, Cache!Stop
  <2> QED
    BY <1>T, <2>1, CacheOneMoves
<1>1. ASSUME NEW e \in CacheEntries', e.state = "whole"
      PROVE  cPc'[e.value] # "idle" /\ e.expiresAt = ttl'[e.value]
  <2>1. CASE e \in CacheEntries
    <3>1. cPc[e.value] # "idle" /\ e.expiresAt = ttl[e.value]
      BY <1>1, <2>1 DEF CacheInv, CacheTermInv
    <3>2. e \in CacheContents
      BY <1>T, <2>1 DEF CacheEntries, CacheShape
    <3>3. e.value \in Cmds
      BY <1>1, <3>2 DEF CacheContents, Cache!Half, Cache!Absent
    <3> QED
      BY <1>M, <3>1, <3>3
  <2>2. CASE e \notin CacheEntries
    BY <1>T, <1>M, <1>1, <2>2, CacheNewEntries
  <2> QED
    BY <2>1, <2>2
<1>2. ASSUME NEW p \in Cache!Procs, lru'[p].value # Cache!NoValue
      PROVE  /\ cPc'[lru'[p].value] # "idle"
             /\ ttl'[lru'[p].value] # 0
                  => lru'[p].until <= ttl'[lru'[p].value] + defaultTtl
  <2>1. CASE lru'[p] = lru[p]
    <3>1. lru[p].value \in Cmds
      BY <1>T, <1>2, <2>1 DEF CacheShape
    <3> QED
      BY <1>M, <1>2, <2>1, <3>1 DEF CacheInv, CacheTermInv
  <2>2. CASE lru'[p] # lru[p]
    <3>1. CASE lru'[p].value = c /\ (ttl'[c] # 0 => lru'[p].until = ttl'[c])
      <4>1. ttl'[c] \in Nat
        BY <1>T DEF CacheShape
      <4> QED
        BY <1>M, <3>1, <4>1, CacheAssumption
    <3>2. CASE /\ cRaw[c].state = "whole" /\ ~Cache!Expired(cRaw[c])
               /\ lru'[p].value = cRaw[c].value /\ lru'[p].until = now + defaultTtl
               /\ ttl' = ttl
      <4>1. cPc[cRaw[c].value] # "idle" /\ cRaw[c].expiresAt = ttl[cRaw[c].value]
        BY <3>2 DEF CacheInv, CacheTermInv, CacheEntries
      <4>2. cRaw[c].value \in Cmds
        BY <1>T, <3>2 DEF CacheShape, CacheContents, Cache!Half, Cache!Absent
      <4>3. now \in Nat /\ ttl[cRaw[c].value] \in Nat
        BY <1>T, <4>2, CacheAssumption DEF CacheShape
      <4>4. ttl[cRaw[c].value] # 0 => now <= ttl[cRaw[c].value]
        BY <3>2, <4>1, <4>3 DEF Cache!Expired
      <4> QED
        BY <1>M, <3>2, <4>1, <4>2, <4>3, <4>4, CacheAssumption
    <3> QED
      BY <1>T, <1>2, <2>2, <3>1, <3>2, CacheNewMemory
  <2> QED
    BY <2>1, <2>2
<1> QED
  BY <1>1, <1>2 DEF CacheTermInv

\* A value that is past stays past.
LEMMA CachePastStays ==
  ASSUME CacheInv, NEW c \in Cmds, CacheStep(c), NEW v \in Cmds, CachePast(v)
  PROVE  CachePast(v)'
<1>T. CacheShape /\ CacheShape'
  BY CacheStepShape DEF CacheInv
<1>1. cPc'[v] \notin {"idle", "opening", "filling"}
  <2>1. CASE v # c
    BY <1>T, <2>1, CacheOneMoves DEF CachePast
  <2>2. CASE v = c
    BY <1>T, <2>2
       DEF CachePast, CacheStep, Cache!Get, Cache!ReadFile, Cache!Promote, Cache!Set,
           Cache!OpenTmp, Cache!FillTmp, Cache!Rename, Cache!Delete, Cache!Unlink,
           Cache!Stop, Cache!Goto, CacheShape
  <2> QED
    BY <2>1, <2>2
<1>2. ASSUME NEW p \in Cache!Procs PROVE tmp'[p].value # v
  <2>1. tmp[p].value # v
    BY DEF CachePast
  <2>2. Cache!Half.value # v /\ Cache!Absent.value # v
    BY CacheAssumption DEF Cache!Half, Cache!Absent
  <2>3. CASE Cache!FillTmp(c)
    <3>1. cEntry[c].value = c /\ c # v
      BY <2>3 DEF Cache!FillTmp, CacheInv, CachePastInv, CachePast
    <3> QED
      BY <1>T, <2>1, <2>2, <2>3, <3>1, CacheFilled
  <2>4. CASE Cache!OpenTmp(c) \/ Cache!Rename(c) \/ Cache!Unlink(c)
    BY <1>T, <2>1, <2>2, <2>4 DEF Cache!OpenTmp, Cache!Rename, Cache!Unlink, CacheShape
  <2>5. tmp' = tmp \/ Cache!OpenTmp(c) \/ Cache!FillTmp(c) \/ Cache!Rename(c)
        \/ Cache!Unlink(c)
    BY
       DEF CacheStep, Cache!Get, Cache!ReadFile, Cache!Promote, Cache!Set, Cache!Delete,
           Cache!Stop
  <2> QED
    BY <2>1, <2>3, <2>4, <2>5
<1> QED
  BY <1>1, <1>2 DEF CachePast

LEMMA CacheStepKinds == ASSUME CacheInv, NEW c \in Cmds, CacheStep(c) PROVE CacheKinds'
<1> SUFFICES ASSUME NEW d \in Cmds
             PROVE  /\ cPc'[d] \in {"reading", "read"} => cOp'[d] = "get"
                    /\ cPc'[d] \in {"opening", "filling", "renaming"} => cOp'[d] = "set"
  BY DEF CacheKinds, CacheSetting
<1>1. CASE d # c
  BY <1>1, CacheOneMoves DEF CacheInv, CacheKinds, CacheSetting
<1>2. CASE d = c /\ (Cache!FillTmp(c) \/ Cache!Rename(c) \/ Cache!Unlink(c))
  <2>1. cOp' = cOp /\ (cPc'[c] = "ended" \/ (cPc[c] = "filling" /\ cPc'[c] = "renaming"))
    BY <1>2, CacheFilled
       DEF Cache!FillTmp, Cache!Rename, Cache!Unlink, Cache!Goto, CacheInv, CacheShape
  <2> QED
    BY <1>2, <2>1 DEF CacheInv, CacheKinds, CacheSetting
<1>3. CASE d = c /\ (Cache!Get(c) \/ Cache!ReadFile(c) \/ Cache!Promote(c))
  BY <1>3
     DEF CacheInv, CacheShape, CacheKinds, Cache!Get, Cache!ReadFile, Cache!Promote,
         Cache!Goto
<1>4. CASE d = c /\ (Cache!OpenTmp(c) \/ Cache!Stop(c))
  BY <1>4
     DEF CacheInv, CacheShape, CacheKinds, CacheSetting, Cache!OpenTmp, Cache!Stop,
         Cache!Goto
<1>5. ASSUME d = c, NEW seconds \in Ttls, Cache!Set(c, seconds)
      PROVE  cPc'[d] = "opening" /\ cOp'[d] = "set"
  BY <1>5 DEF CacheInv, CacheShape, Cache!Set, Cache!Goto
<1>6. ASSUME d = c, NEW how \in {"delete", "clear"}, Cache!Delete(c, how)
      PROVE  cPc'[d] = "unlinking"
  BY <1>6 DEF CacheInv, CacheShape, Cache!Delete, Cache!Goto
<1> QED
  BY <1>1, <1>2, <1>3, <1>4, <1>5, <1>6 DEF CacheStep

\* A call that begins while another of its process is under way is on record,
\* unless both are gets.
LEMMA CacheStepApart == ASSUME CacheInv, NEW c \in Cmds, CacheStep(c) PROVE CacheApart'
<1>T. CacheShape /\ CacheShape' /\ Home[c] \in Cache!Procs
  BY CacheStepShape DEF CacheInv, Cache!Procs
<1>M. /\ \A d \in Cmds \ {c} : cPc'[d] = cPc[d] /\ cOp'[d] = cOp[d]
      /\ raced \subseteq raced'
  BY <1>T, CacheOneMoves
<1>1. ASSUME NEW d \in Cmds \ {c}, Home[d] = Home[c], Home[c] \notin raced',
             Cache!Active(c)', Cache!Active(d)
      PROVE  cOp'[c] = "get" /\ cOp[d] = "get"
  <2>1. CASE Cache!Active(c)
    <3>1. cOp[c] = "get" /\ cOp[d] = "get"
      BY <1>M, <1>1, <2>1 DEF CacheInv, CacheApart
    <3>2. cOp' = cOp
      BY <2>1
         DEF Cache!Active, CacheStep, Cache!Get, Cache!ReadFile, Cache!Promote, Cache!Set,
             Cache!OpenTmp, Cache!FillTmp, Cache!Rename, Cache!Delete, Cache!Unlink,
             Cache!Stop
    <3> QED
      BY <3>1, <3>2
  <2>2. CASE ~Cache!Active(c)
    <3>1. d \in Cache!Here(c)
      BY <1>1 DEF Cache!Here
    <3>2. CASE Cache!Get(c)
      BY <1>1, <1>T, <3>1, <3>2 DEF Cache!Get, Cache!Race, CacheShape
    <3>3. ASSUME (\E seconds \in Ttls : Cache!Set(c, seconds))
                 \/ \E how \in {"delete", "clear"} : Cache!Delete(c, how)
          PROVE  FALSE
      BY <1>1, <3>1, <3>3 DEF Cache!Set, Cache!Delete, Cache!Race
    <3>4. ~(Cache!ReadFile(c) \/ Cache!Promote(c) \/ Cache!OpenTmp(c)
            \/ Cache!FillTmp(c) \/ Cache!Rename(c) \/ Cache!Unlink(c) \/ Cache!Stop(c))
      BY <2>2
         DEF Cache!Active, Cache!ReadFile, Cache!Promote, Cache!OpenTmp, Cache!FillTmp,
             Cache!Rename, Cache!Unlink, Cache!Stop
    <3> QED
      BY <3>2, <3>3, <3>4 DEF CacheStep
  <2> QED
    BY <2>1, <2>2
<1> SUFFICES ASSUME NEW a \in Cmds, NEW b \in Cmds, a # b, Home[a] = Home[b],
                    Home[a] \notin raced', Cache!Active(a)', Cache!Active(b)'
             PROVE  cOp'[a] = "get" /\ cOp'[b] = "get"
  BY DEF CacheApart
<1>2. CASE a = c
  BY <1>1, <1>2, <1>M DEF Cache!Active
<1>3. CASE b = c
  BY <1>1, <1>3, <1>M DEF Cache!Active
<1>4. CASE a # c /\ b # c
  BY <1>4, <1>M DEF CacheInv, CacheApart, Cache!Active
<1> QED
  BY <1>2, <1>3, <1>4

\* A value reaches the disk from the one temporary file that holds it.
LEMMA CacheStepPast == ASSUME CacheInv, NEW c \in Cmds, CacheStep(c) PROVE CachePastInv'
<1> DEFINE PastAfter(v) == /\ cPc'[v] \notin {"idle", "opening", "filling"}
                           /\ \A p \in Cache!Procs : tmp'[p].value # v
           SettingAfter(v) == cPc'[v] \in {"opening", "filling", "renaming"}
<1>T. CacheShape /\ CacheShape' /\ Home[c] \in Cache!Procs
  BY CacheStepShape DEF CacheInv, Cache!Procs
<1>C. \A e \in CacheContents : e.value \in Cmds \cup {Cache!NoValue}
  BY DEF CacheContents, Cache!Half, Cache!Absent
<1>M. \A d \in Cmds : cPc[d] \notin {"idle", "opening", "filling"}
        => cPc'[d] \notin {"idle", "opening", "filling"}
  <2>1. cPc[c] \notin {"idle", "opening", "filling"}
          => cPc'[c] \notin {"idle", "opening", "filling"}
    BY <1>T
       DEF CacheStep, Cache!Get, Cache!ReadFile, Cache!Promote, Cache!Set, Cache!OpenTmp,
           Cache!FillTmp, Cache!Rename, Cache!Delete, Cache!Unlink, Cache!Stop,
           Cache!Goto, CacheShape
  <2> QED
    BY <1>T, <2>1, CacheOneMoves
<1>1. ASSUME NEW p \in Cache!Procs, tmp'[p].value # Cache!NoValue
      PROVE  Home[tmp'[p].value] = p
             /\ cPc'[tmp'[p].value] \notin {"idle", "opening", "filling"}
  <2>1. CASE tmp'[p] = tmp[p]
    <3>1. tmp[p].value \in Cmds
      BY <1>T, <1>C, <1>1, <2>1 DEF CacheShape
    <3> QED
      BY <1>1, <1>M, <2>1, <3>1 DEF CacheInv, CachePastInv
  <2>2. CASE tmp'[p] # tmp[p]
    <3>1. Cache!FillTmp(c) /\ tmp'[p] = cEntry[c] /\ p = Home[c]
      <4>1. Cache!Half.value = Cache!NoValue /\ Cache!Absent.value = Cache!NoValue
        BY DEF Cache!Half, Cache!Absent
      <4>2. CASE Cache!OpenTmp(c) \/ Cache!Rename(c) \/ Cache!Unlink(c)
        BY <1>T, <1>1, <2>2, <4>1, <4>2
           DEF Cache!OpenTmp, Cache!Rename, Cache!Unlink, CacheShape
      <4>3. CASE Cache!FillTmp(c)
        BY <1>T, <1>1, <2>2, <4>1, <4>3, CacheFilled
      <4>4. tmp' = tmp \/ Cache!OpenTmp(c) \/ Cache!FillTmp(c) \/ Cache!Rename(c)
            \/ Cache!Unlink(c)
        BY
           DEF CacheStep, Cache!Get, Cache!ReadFile, Cache!Promote, Cache!Set,
               Cache!Delete, Cache!Stop
      <4> QED
        BY <2>2, <4>2, <4>3, <4>4
    <3>2. cEntry[c].value = c /\ cPc'[c] = "renaming"
      BY <1>T, <3>1 DEF Cache!FillTmp, Cache!Goto, CacheInv, CachePastInv, CacheShape
    <3> QED
      BY <3>1, <3>2
  <2> QED
    BY <2>1, <2>2
<1>2. ASSUME disk'.value # Cache!NoValue PROVE PastAfter(disk'.value)
  <2>1. CASE disk' = disk
    <3>1. disk.value \in Cmds
      BY <1>T, <1>C, <1>2, <2>1 DEF CacheShape
    <3>2. CachePast(disk.value)
      BY <1>2, <2>1 DEF CacheInv, CachePastInv
    <3> QED
      BY <2>1, <3>1, <3>2, CachePastStays DEF CachePast
  <2>2. CASE Cache!Rename(c)
    <3> DEFINE v == tmp[Home[c]].value
    <3>1. disk' = tmp[Home[c]] /\ tmp' = [tmp EXCEPT ![Home[c]] = Cache!Absent]
          /\ v # Cache!NoValue
      BY <1>2, <2>2 DEF Cache!Rename
    <3>2. v \in Cmds
      BY <1>T, <1>C, <3>1 DEF CacheShape
    <3>3. Home[v] = Home[c] /\ cPc[v] \notin {"idle", "opening", "filling"}
      BY <1>T, <3>1 DEF CacheInv, CachePastInv
    <3>4. ASSUME NEW p \in Cache!Procs PROVE tmp'[p].value # v
      <4>1. CASE p = Home[c]
        BY <1>T, <3>1, <4>1 DEF Cache!Absent, CacheShape
      <4>2. CASE p # Home[c]
        BY <1>T, <3>1, <3>3, <4>2 DEF CacheInv, CachePastInv, CacheShape
      <4> QED
        BY <4>1, <4>2
    <3>5. cPc'[v] \notin {"idle", "opening", "filling"}
      BY <1>M, <3>2, <3>3
    <3> QED
      BY <3>1, <3>4, <3>5 DEF CachePast
  <2>3. CASE Cache!Unlink(c)
    BY <1>2, <2>3 DEF Cache!Unlink, Cache!Absent
  <2>4. CASE Cache!FillTmp(c) /\ disk' # disk
    <3>1. cPc[c] = "filling" /\ cPc'[c] = "renaming" /\ cEntry[c].value = c
      BY <1>T, <2>4, CacheFilled DEF CacheInv, CachePastInv
    <3>2. disk' = cEntry[c]
      BY <1>T, <1>2, <2>4, CacheFilled DEF Cache!Half
    <3>3. ASSUME NEW p \in Cache!Procs PROVE tmp'[p].value # c
      <4>1. tmp' = tmp
        BY <2>4 DEF Cache!FillTmp
      <4>2. tmp[p].value # c
        BY <3>1, CacheAssumption DEF CacheInv, CachePastInv
      <4> QED
        BY <4>1, <4>2
    <3> QED
      BY <3>1, <3>2, <3>3 DEF CachePast
  <2>5. disk' = disk \/ Cache!Rename(c) \/ Cache!Unlink(c) \/ Cache!FillTmp(c)
    BY
       DEF CacheStep, Cache!Get, Cache!ReadFile, Cache!Promote, Cache!Set, Cache!OpenTmp,
           Cache!Delete, Cache!Stop
  <2> QED
    BY <2>1, <2>2, <2>3, <2>4, <2>5
<1>3. ASSUME NEW d \in Cmds, cRaw'[d].value # Cache!NoValue PROVE PastAfter(cRaw'[d].value)
  <2>1. cRaw'[d] = cRaw[d] \/ (cRaw'[d] = disk /\ Cache!ReadFile(c))
    BY <1>T
       DEF CacheStep, Cache!Get, Cache!ReadFile, Cache!Promote, Cache!Set, Cache!OpenTmp,
           Cache!FillTmp, Cache!Rename, Cache!Delete, Cache!Unlink, Cache!Stop, CacheShape
  <2>2. CachePast(cRaw'[d].value) /\ cRaw'[d].value \in Cmds
    BY <1>T, <1>C, <1>3, <2>1 DEF CacheInv, CachePastInv, CacheShape
  <2> QED
    BY <2>2, CachePastStays DEF CachePast
<1>4. ASSUME NEW p \in Cache!Procs \ raced', lru'[p].value # Cache!NoValue
      PROVE  PastAfter(lru'[p].value)
             \/ (Home[lru'[p].value] = p /\ SettingAfter(lru'[p].value))
  <2> DEFINE v == lru'[p].value
  <2>0. v \in Cmds
    BY <1>T, <1>4 DEF CacheShape
  <2>1. CASE lru'[p] = lru[p]
    <3>1. p \notin raced
      BY <1>T, <1>4, CacheOneMoves
    <3>2. CASE CachePast(v)
      BY <2>0, <3>2, CachePastStays DEF CachePast
    <3>3. CASE Home[v] = p /\ CacheSetting(v)
      <4>1. CASE SettingAfter(v)
        BY <3>3, <4>1 DEF CacheSetting
      <4>2. CASE ~SettingAfter(v)
        <5>1. v = c /\ (Cache!Rename(c) \/ Cache!Stop(c))
          <6>1. v = c
            BY <1>T, <2>0, <3>3, <4>2, CacheOneMoves DEF CacheSetting
          <6> QED
            BY <1>T, <3>3, <4>2, <6>1
               DEF CacheSetting, CacheStep, Cache!Get, Cache!ReadFile, Cache!Promote,
                   Cache!Set, Cache!OpenTmp, Cache!FillTmp, Cache!Delete, Cache!Unlink,
                   Cache!Goto, CacheShape
        <5>2. Cache!Rename(c)
          BY <1>4, <3>3, <5>1 DEF Cache!Stop
        <5>3. cPc'[v] = "ended"
          BY <1>T, <5>1, <5>2 DEF Cache!Rename, Cache!Goto, CacheShape
        <5>4. ASSUME NEW q \in Cache!Procs PROVE tmp'[q].value # v
          <6>1. CASE q = p
            BY <1>T, <2>0, <3>3, <5>1, <5>2, <6>1, CacheAssumption
               DEF Cache!Rename, Cache!Absent, CacheShape
          <6>2. CASE q # p
            BY <1>T, <2>0, <3>3, <5>1, <5>2, <6>2, CacheAssumption
               DEF Cache!Rename, CacheInv, CachePastInv, CacheShape
          <6> QED
            BY <6>1, <6>2
        <5> QED
          BY <5>3, <5>4 DEF CachePast
      <4> QED
        BY <4>1, <4>2
    <3> QED
      BY <1>4, <2>1, <3>1, <3>2, <3>3 DEF CacheInv, CachePastInv
  <2>2. CASE lru'[p] # lru[p]
    <3>1. p = Home[c]
      BY <1>T, <1>4, <2>2, CacheNewMemory
    <3>2. CASE v = c /\ cPc'[c] = "opening"
      BY <3>1, <3>2 DEF CacheSetting
    <3>3. CASE v = cRaw[c].value
      BY <1>4, <2>0, <3>3, CachePastStays DEF CacheInv, CachePastInv, CachePast
    <3> QED
      BY <1>T, <1>4, <2>2, <3>2, <3>3, CacheNewMemory
  <2> QED
    BY <2>1, <2>2
<1>5. ASSUME NEW d \in Cmds, cPc'[d] \in {"filling", "opening"} PROVE cEntry'[d].value = d
  <2>1. CASE d # c
    BY <1>T, <1>5, <2>1, CacheOneMoves DEF CacheInv, CachePastInv
  <2>2. CASE d = c
    <3>1. (\E seconds \in Ttls : Cache!Set(c, seconds)) \/ Cache!OpenTmp(c)
      <4>1. ~(Cache!FillTmp(c) \/ Cache!Rename(c) \/ Cache!Unlink(c))
        BY <1>T, <1>5, <2>2, CacheFilled
           DEF Cache!Rename, Cache!Unlink, Cache!Goto, CacheShape
      <4>2. ~(Cache!Get(c) \/ Cache!ReadFile(c) \/ Cache!Promote(c) \/ Cache!Stop(c))
        <5>1. cPc \in [Cmds -> CachePcValues] /\ cPc'[c] \in {"filling", "opening"}
          BY <1>T, <1>5, <2>2 DEF CacheShape
        <5>2. ~Cache!Get(c) /\ ~Cache!ReadFile(c)
          BY <5>1 DEF Cache!Get, Cache!ReadFile, Cache!Goto
        <5>3. ~Cache!Promote(c) /\ ~Cache!Stop(c)
          BY <5>1 DEF Cache!Promote, Cache!Stop, Cache!Goto
        <5> QED
          BY <5>2, <5>3
      <4>3. ~(Cache!Delete(c, "delete") \/ Cache!Delete(c, "clear"))
        BY <1>T, <1>5, <2>2 DEF Cache!Delete, Cache!Goto, CacheShape
      <4> QED
        BY <4>1, <4>2, <4>3 DEF CacheStep
    <3>2. CASE Cache!OpenTmp(c)
      BY <1>T, <2>2, <3>2 DEF Cache!OpenTmp, CacheInv, CachePastInv
    <3>3. ASSUME NEW seconds \in Ttls, Cache!Set(c, seconds) PROVE cEntry'[d].value = d
      BY <1>T, <2>2, <3>3 DEF Cache!Set, Cache!Entry, CacheShape
    <3> QED
      BY <3>1, <3>2, <3>3
  <2> QED
    BY <2>1, <2>2
<1> QED
  BY <1>1, <1>2, <1>3, <1>4, <1>5 DEF CachePastInv, CachePast, CacheSetting

\* What a change adds to the superseded values of its process.
LEMMA CacheNewGone ==
  ASSUME CacheInv, NEW c \in Cmds, CacheStep(c), NEW p \in Cache!Procs \ raced',
         superseded'[p] # superseded[p]
  PROVE  /\ p = Home[c] /\ Cache!Here(c) = {} /\ cPc[c] = "idle"
         /\ Cache!Active(c)' /\ cOp'[c] # "get"
         /\ superseded'[p] \subseteq superseded[p] \cup {disk.value, lru[p].value}
         /\ lru'[p].value \in {c, Cache!NoValue}
         /\ disk' = disk /\ cRaw' = cRaw /\ Cache!NoValue \notin superseded'[p]
<1>T. CacheShape /\ CacheShape' /\ Home[c] \in Cache!Procs /\ p = Home[c]
  BY CacheStepShape, CacheOneMoves DEF CacheInv, Cache!Procs
<1>1. ASSUME NEW seconds \in Ttls, Cache!Set(c, seconds)
      PROVE  /\ Cache!Here(c) = {} /\ cPc[c] = "idle"
             /\ cPc'[c] = "opening" /\ cOp'[c] = "set"
             /\ superseded'[p] =
                  (superseded[p] \cup {disk.value, lru[p].value}) \ {Cache!NoValue}
             /\ lru'[p].value = c
             /\ disk' = disk /\ cRaw' = cRaw
  BY <1>T, <1>1
     DEF Cache!Set, Cache!Race, Cache!Supersede, Cache!Remember, Cache!Goto, CacheShape
<1>2. ASSUME NEW how \in {"delete", "clear"}, Cache!Delete(c, how)
      PROVE  /\ Cache!Here(c) = {} /\ cPc[c] = "idle"
             /\ cPc'[c] = "unlinking" /\ cOp'[c] # "get"
             /\ superseded'[p] =
                  (superseded[p] \cup {disk.value, lru[p].value}) \ {Cache!NoValue}
             /\ lru'[p].value = Cache!NoValue
             /\ disk' = disk /\ cRaw' = cRaw
  BY <1>T, <1>2
     DEF Cache!Delete, Cache!Race, Cache!Supersede, Cache!Forget, Cache!Nothing,
         Cache!Goto, CacheShape
<1>3. superseded' = superseded \/ (\E seconds \in Ttls : Cache!Set(c, seconds))
      \/ \E how \in {"delete", "clear"} : Cache!Delete(c, how)
  BY
     DEF CacheStep, Cache!Get, Cache!ReadFile, Cache!Promote, Cache!OpenTmp,
         Cache!FillTmp, Cache!Rename, Cache!Unlink, Cache!Stop
<1> QED
  BY <1>T, <1>1, <1>2, <1>3 DEF Cache!Active

\* When a process begins a change that races with nothing, what it makes out of
\* date is past, in memory as on disk.
LEMMA CacheGonePast ==
  ASSUME CacheInv, NEW c \in Cmds, CacheStep(c), NEW p \in Cache!Procs \ raced',
         NEW v \in superseded'[p]
  PROVE  v \in Cmds /\ CachePast(v)
<1>T. CacheShape /\ CacheShape' /\ raced \subseteq raced'
  BY CacheStepShape, CacheOneMoves DEF CacheInv
<1>0. v \in Cmds
  BY <1>T DEF CacheShape
<1>1. CASE v \in superseded[p]
  BY <1>0, <1>1, <1>T DEF CacheInv, CacheGoneInv
<1>2. CASE v \notin superseded[p]
  <2>1. v \in {disk.value, lru[p].value} /\ v # Cache!NoValue /\ p = Home[c]
        /\ Cache!Here(c) = {} /\ cPc[c] = "idle"
    BY <1>2, CacheNewGone
  <2>2. CASE v = disk.value
    BY <1>0, <2>1, <2>2 DEF CacheInv, CachePastInv
  <2>3. CASE v = lru[p].value
    <3>1. ~(Home[v] = p /\ CacheSetting(v))
      BY <1>0, <2>1 DEF Cache!Here, CacheSetting, Cache!Active
    <3> QED
      BY <1>0, <1>T, <2>1, <2>3, <3>1 DEF CacheInv, CachePastInv
  <2> QED
    BY <2>1, <2>2, <2>3
<1> QED
  BY <1>0, <1>1, <1>2

\* A read between two changes finds nothing on the disk that its process replaced.
LEMMA CacheStepGone == ASSUME CacheInv, NEW c \in Cmds, CacheStep(c) PROVE CacheGoneInv'
<1>T. CacheShape /\ CacheShape' /\ raced \subseteq raced' /\ Home[c] \in Cache!Procs
  BY CacheStepShape, CacheOneMoves DEF CacheInv, Cache!Procs
<1>M. \A d \in Cmds \ {c} : cPc'[d] = cPc[d] /\ cOp'[d] = cOp[d] /\ cRaw'[d] = cRaw[d]
  BY <1>T, CacheOneMoves
<1> SUFFICES ASSUME NEW p \in Cache!Procs \ raced', NEW v \in superseded'[p]
             PROVE  /\ CachePast(v)'
                    /\ lru'[p].value # v
                    /\ \A d \in Cmds : Home[d] = p /\ cPc'[d] = "read" => cRaw'[d].value # v
                    /\ disk'.value = v =>
                         \E d \in Cmds : Home[d] = p /\ Cache!Active(d)' /\ cOp'[d] # "get"
  BY DEF CacheGoneInv
<1>0. v \in Cmds /\ CachePast(v) /\ p \notin raced
  BY <1>T, CacheGonePast
<1>1. CachePast(v)'
  BY <1>0, CachePastStays
<1>2. CASE superseded'[p] # superseded[p]
  <2>1. /\ p = Home[c] /\ Cache!Here(c) = {} /\ cPc[c] = "idle"
        /\ Cache!Active(c)' /\ cOp'[c] # "get"
        /\ lru'[p].value \in {c, Cache!NoValue} /\ Cache!NoValue \notin superseded'[p]
    BY <1>2, CacheNewGone
  <2>2. lru'[p].value # v
    BY <1>0, <2>1 DEF CachePast
  <2>3. ASSUME NEW d \in Cmds, Home[d] = p, cPc'[d] = "read" PROVE FALSE
    <3>1. CASE d = c
      BY <1>T, <2>1, <2>3, <3>1
         DEF CacheStep, Cache!Get, Cache!ReadFile, Cache!Promote, Cache!Set,
             Cache!OpenTmp, Cache!FillTmp, Cache!Rename, Cache!Delete, Cache!Unlink,
             Cache!Stop, Cache!Goto, CacheShape
    <3>2. CASE d # c
      BY <1>M, <2>1, <2>3, <3>2 DEF Cache!Here, Cache!Active
    <3> QED
      BY <3>1, <3>2
  <2> QED
    BY <1>1, <2>1, <2>2, <2>3
<1>3. CASE superseded'[p] = superseded[p]
  <2>0. /\ lru[p].value # v
        /\ \A d \in Cmds : Home[d] = p /\ cPc[d] = "read" => cRaw[d].value # v
        /\ disk.value = v =>
             \E d \in Cmds : Home[d] = p /\ Cache!Active(d) /\ cOp[d] # "get"
    BY <1>0, <1>3 DEF CacheInv, CacheGoneInv
  <2>1. lru'[p].value # v
    <3>1. CASE lru'[p] = lru[p] \/ lru'[p].value = Cache!NoValue
      BY <1>0, <2>0, <3>1, CacheAssumption
    <3>2. CASE lru'[p] # lru[p] /\ lru'[p].value # Cache!NoValue
      <4>1. /\ p = Home[c]
            /\ \/ cPc[c] = "idle" /\ lru'[p].value = c
               \/ cPc[c] = "read" /\ lru'[p].value = cRaw[c].value
        BY <1>T, <3>2, CacheNewMemory
      <4> QED
        BY <1>0, <2>0, <4>1 DEF CachePast
    <3> QED
      BY <3>1, <3>2
  <2>2. ASSUME NEW d \in Cmds, Home[d] = p, cPc'[d] = "read", cRaw'[d].value = v PROVE FALSE
    <3>1. d = c /\ Cache!ReadFile(c)
      <4>1. d = c
        BY <1>M, <2>0, <2>2
      <4> QED
        BY <1>T, <2>2, <4>1
           DEF CacheStep, Cache!Get, Cache!Promote, Cache!Set, Cache!OpenTmp,
               Cache!FillTmp, Cache!Rename, Cache!Delete, Cache!Unlink, Cache!Stop,
               Cache!Active, Cache!Goto, CacheShape
    <3>2. disk.value = v /\ cPc[c] = "reading" /\ cOp[c] = "get"
      BY <1>T, <2>2, <3>1 DEF Cache!ReadFile, CacheInv, CacheKinds, CacheShape
    <3>3. PICK e \in Cmds : Home[e] = p /\ Cache!Active(e) /\ cOp[e] # "get"
      BY <2>0, <3>2
    <3>4. Cache!Active(c)
      BY <3>2 DEF Cache!Active
    <3> QED
      BY <1>0, <2>2, <3>1, <3>2, <3>3, <3>4 DEF CacheInv, CacheApart
  <2>3. ASSUME disk'.value = v
        PROVE  \E d \in Cmds : Home[d] = p /\ Cache!Active(d)' /\ cOp'[d] # "get"
    <3>1. disk' = disk
      <4>1. CASE Cache!Rename(c)
        BY <1>0, <1>T, <2>3, <4>1 DEF Cache!Rename, CachePast
      <4>2. CASE Cache!Unlink(c)
        BY <1>0, <2>3, <4>2, CacheAssumption DEF Cache!Unlink, Cache!Absent
      <4>3. CASE Cache!FillTmp(c)
        <5>1. v # c /\ cEntry[c].value = c
          BY <1>0, <1>T, <4>3, CacheFilled DEF CachePast, CacheInv, CachePastInv
        <5>2. Cache!Half.value # v
          BY <1>0, CacheAssumption DEF Cache!Half
        <5> QED
          BY <1>T, <2>3, <4>3, <5>1, <5>2, CacheFilled
      <4> QED
        BY <4>1, <4>2, <4>3
           DEF CacheStep, Cache!Get, Cache!ReadFile, Cache!Promote, Cache!Set,
               Cache!OpenTmp, Cache!Delete, Cache!Stop
    <3>2. PICK d \in Cmds : Home[d] = p /\ Cache!Active(d) /\ cOp[d] # "get"
      BY <2>0, <2>3, <3>1
    <3>3. CASE d # c
      BY <1>M, <3>2, <3>3 DEF Cache!Active
    <3>4. CASE d = c
      <4>1. ~Cache!Rename(c) /\ ~Cache!Unlink(c)
        BY <1>0, <1>T, <2>3, CacheAssumption
           DEF Cache!Rename, Cache!Unlink, CachePast, Cache!Absent
      <4>2. ~Cache!Stop(c)
        BY <3>2, <3>4 DEF Cache!Stop
      <4>3. ~Cache!ReadFile(c) /\ ~Cache!Promote(c)
        BY <3>2, <3>4 DEF Cache!ReadFile, Cache!Promote, CacheInv, CacheKinds
      <4>4. Cache!OpenTmp(c) \/ Cache!FillTmp(c)
        BY <3>2, <3>4, <4>1, <4>2, <4>3
           DEF CacheStep, Cache!Get, Cache!Set, Cache!Delete, Cache!Active
      <4>5. cOp' = cOp /\ cPc'[c] \in {"filling", "renaming"}
        BY <1>T, <4>4 DEF Cache!OpenTmp, Cache!FillTmp, Cache!Goto, CacheShape
      <4> QED
        BY <3>2, <3>4, <4>5 DEF Cache!Active
    <3> QED
      BY <3>3, <3>4
  <2> QED
    BY <1>1, <2>1, <2>2, <2>3
<1> QED
  BY <1>2, <1>3

\* An eviction only empties memory or the disk, and the clock touches neither.
LEMMA CacheElsewhere == ASSUME CacheInv, Cache!Evict \/ Cache!Tick PROVE CacheInv'
<1>1. CacheShape'
  BY CacheStepShape DEF CacheInv
<1>2. /\ UNCHANGED <<tmp, cPc, cOp, cEntry, cRaw, ttl, superseded, raced>>
      /\ disk' \in {disk, Cache!Absent}
      /\ \A p \in Cache!Procs : lru'[p] \in {lru[p], Cache!Nothing}
  BY DEF Cache!Evict, Cache!Tick, Cache!Forget, CacheInv, CacheShape
<1>3. Cache!Absent.state # "whole" /\ Cache!Absent.value = Cache!NoValue
      /\ Cache!Nothing.value = Cache!NoValue
  BY DEF Cache!Absent, Cache!Nothing
<1>4. CacheTermInv'
  <2>1. \A e \in CacheEntries' : e \in CacheEntries \cup {Cache!Absent}
    BY <1>2 DEF CacheEntries
  <2> QED
    BY <1>2, <1>3, <2>1 DEF CacheInv, CacheTermInv
<1>5. CachePastInv'
  BY <1>2, <1>3 DEF CacheInv, CachePastInv, CachePast, CacheSetting
<1>6. CacheKinds' /\ CacheApart'
  BY <1>2 DEF CacheInv, CacheKinds, CacheApart, CacheSetting, Cache!Active
<1>7. CacheGoneInv'
  <2>1. \A p \in Cache!Procs : Cache!NoValue \notin superseded[p]
    BY CacheAssumption DEF CacheInv, CacheShape
  <2> QED
    BY <1>2, <1>3, <2>1 DEF CacheInv, CacheGoneInv, CachePast, Cache!Active
<1> QED
  BY <1>1, <1>4, <1>5, <1>6, <1>7 DEF CacheInv

LEMMA CacheStepInv == CacheInv /\ [Cache!Next]_cacheVars => CacheInv'
<1> SUFFICES ASSUME CacheInv, [Cache!Next]_cacheVars PROVE CacheInv'
  OBVIOUS
<1>1. CASE UNCHANGED cacheVars
  BY <1>1
     DEF cacheVars, CacheInv, CacheShape, CacheTermInv, CacheEntries, CachePastInv,
         CachePast, CacheKinds, CacheSetting, CacheApart, Cache!Active, CacheGoneInv
<1>2. ASSUME NEW c \in Cmds, CacheStep(c) PROVE CacheInv'
  <2>1. CacheShape'
    BY <1>2, CacheStepShape DEF CacheInv
  <2> QED
    BY <1>2, <2>1, CacheStepTerm, CacheStepPast, CacheStepKinds, CacheStepApart,
       CacheStepGone DEF CacheInv
<1> QED
  BY <1>1, <1>2, CacheElsewhere DEF Cache!Next, CacheStep

-----------------------------------------------------------------------------
(* The file of events (EventFile). *)

SinkWritten(n) == \E i \in DOMAIN file : file[i] = n
\* A close came before line n.
SinkClosedBefore(n) == \E v \in Waiters : waiter[v].kind = "close" /\ waiter[v].mark < n

SinkSorted == \A i, j \in DOMAIN file : i < j => file[i] < file[j]

\* Every line whose turn has come is in the file, or has a reason not to be.
SinkAccounted == \A n \in 1..settled : SinkWritten(n) \/ n \in failed \/ SinkClosedBefore(n)

\* A waiter that is past the chain has seen all of its lines settle.
SinkPastChain ==
  \A w \in Waiters :
    /\ waiter[w].state = "idle" => waiter[w] = Sink!NoWaiter
    /\ waiter[w].state \in {"closing", "returned"} => waiter[w].mark <= settled

\* The handle is given up by a close that waited for the chain.
SinkGivenUp ==
  handle \in {"closing", "closed"} =>
    \E v \in Waiters : waiter[v].kind = "close" /\ waiter[v].mark <= settled

\* A waiter that is closing has taken the handle with it.
SinkInv == Sink!TypeOK /\ SinkSorted /\ SinkAccounted /\ SinkPastChain /\ SinkGivenUp
       /\ \A w \in Waiters : waiter[w].state = "closing" => waiter[w].kind = "close"

LEMMA SinkInitInv == Sink!Init => SinkInv
BY
   DEF Sink!Init, SinkInv, Sink!TypeOK, SinkSorted, SinkAccounted, SinkPastChain,
       SinkGivenUp, Sink!NoWaiter

\* A step that only adds lines: what is accounted for stays so.
LEMMA SinkSettleOne ==
  ASSUME SinkInv, Sink!Pending, settled' = settled + 1,
         UNCHANGED <<written, opening, handle, waiter>>,
         \/ file' = Append(file, settled + 1) /\ UNCHANGED failed
         \/ failed' = failed \cup {settled + 1} /\ UNCHANGED file
         \/ UNCHANGED <<file, failed>> /\ handle \in {"closing", "closed"}
  PROVE  SinkInv'
<1>1. settled \in Nat /\ written \in Nat /\ settled < written /\ file \in Seq(1..settled)
      /\ failed \subseteq 1..settled
  BY DEF SinkInv, Sink!TypeOK, Sink!Pending
<1>2. file' \in Seq(1..settled')
  <2>1. file \in Seq(1..settled')
    BY <1>1
  <2>2. settled + 1 \in 1..settled'
    BY <1>1
  <2>3. Append(file, settled + 1) \in Seq(1..settled')
    BY <2>1, <2>2
  <2>4. file' = file \/ file' = Append(file, settled + 1)
    OBVIOUS
  <2> QED BY <2>1, <2>3, <2>4
<1>3. Sink!TypeOK'
  <2>1. settled' \in 0..written'
    BY <1>1
  <2>2. 1..settled \subseteq 1..settled' /\ settled + 1 \in 1..settled'
    BY <1>1
  <2>3. failed' \subseteq 1..settled'
    BY <1>1, <2>2
  <2> QED BY <1>2, <2>1, <2>3 DEF SinkInv, Sink!TypeOK
<1>4. SinkSorted'
  <2>1. CASE file' = Append(file, settled + 1)
    BY <1>1, <2>1 DEF SinkInv, SinkSorted
  <2>2. CASE file' = file
    BY <2>2 DEF SinkInv, SinkSorted
  <2> QED BY <2>1, <2>2
<1>5. ASSUME NEW n, SinkWritten(n) PROVE SinkWritten(n)'
  <2>1. PICK i \in DOMAIN file : file[i] = n
    BY <1>5 DEF SinkWritten
  <2>2. i \in DOMAIN file' /\ file'[i] = n
    BY <1>1, <2>1
  <2> QED BY <2>2 DEF SinkWritten
<1>6. \A n : SinkClosedBefore(n) => SinkClosedBefore(n)'
  BY DEF SinkClosedBefore
<1>7. ASSUME NEW n, n = settled + 1
      PROVE  SinkWritten(n)' \/ n \in failed' \/ SinkClosedBefore(n)'
  <2>1. CASE file' = Append(file, settled + 1)
    <3>1. file'[Len(file) + 1] = n /\ Len(file) + 1 \in DOMAIN file'
      BY <1>1, <1>7, <2>1
    <3> QED BY <3>1 DEF SinkWritten
  <2>2. CASE failed' = failed \cup {settled + 1}
    BY <1>7, <2>2
  <2>3. CASE handle \in {"closing", "closed"}
    <3>1. PICK v \in Waiters : waiter[v].kind = "close" /\ waiter[v].mark <= settled
      BY <2>3 DEF SinkInv, SinkGivenUp
    <3>2. waiter[v].mark \in Nat
      BY DEF SinkInv, Sink!TypeOK
    <3>3. waiter[v].mark < n
      BY <1>1, <1>7, <3>1, <3>2
    <3> QED BY <3>1, <3>3 DEF SinkClosedBefore
  <2> QED BY <2>1, <2>2, <2>3
<1>8. SinkAccounted'
  <2> SUFFICES ASSUME NEW n \in 1..settled'
               PROVE  SinkWritten(n)' \/ n \in failed' \/ SinkClosedBefore(n)'
    BY DEF SinkAccounted
  <2>1. n \in 1..settled \/ n = settled + 1
    BY <1>1
  <2> QED BY <1>5, <1>6, <1>7, <2>1 DEF SinkInv, SinkAccounted
<1>9. \A w \in Waiters : waiter[w].mark <= settled => waiter[w].mark <= settled'
  BY <1>1 DEF SinkInv, Sink!TypeOK
<1> QED BY <1>3, <1>4, <1>8, <1>9 DEF SinkInv, SinkPastChain, SinkGivenUp

\* A step of a waiter that leaves the file and the chain alone.
LEMMA SinkWaiterMoves ==
  ASSUME SinkInv, NEW w \in Waiters, UNCHANGED <<written, settled, opening, file, failed>>,
         NEW f \in [kind : {"none", "flush", "close"}, mark : 0..written,
                    state : {"idle", "waiting", "closing", "returned"}],
         waiter' = [waiter EXCEPT ![w] = f],
         waiter[w].state = "idle" \/ (f.kind = waiter[w].kind /\ f.mark = waiter[w].mark),
         f.state # "idle", f.state = "closing" => f.kind = "close",
         f.state \in {"closing", "returned"} => f.mark <= settled,
         \/ handle' = handle
         \/ handle' \in {"closing", "closed"} /\ f.kind = "close" /\ f.mark <= settled
  PROVE  SinkInv'
<1>1. \A v \in Waiters : waiter[v].kind = "close" =>
        waiter'[v].kind = "close" /\ waiter'[v].mark = waiter[v].mark
  BY DEF SinkInv, Sink!TypeOK, SinkPastChain, Sink!NoWaiter
<1>2. Sink!TypeOK'
  BY DEF SinkInv, Sink!TypeOK
<1>3. \A n : SinkClosedBefore(n) => SinkClosedBefore(n)'
  BY <1>1 DEF SinkClosedBefore
<1>4. SinkAccounted' /\ SinkSorted'
  BY <1>3 DEF SinkInv, SinkAccounted, SinkSorted, SinkWritten
<1>5. waiter'[w] = f /\ \A v \in Waiters \ {w} : waiter'[v] = waiter[v]
  BY DEF SinkInv, Sink!TypeOK
<1>6. SinkPastChain'
  BY <1>5 DEF SinkInv, SinkPastChain
<1>7. SinkGivenUp'
  <2>1. CASE handle' = handle
    BY <1>1, <2>1 DEF SinkInv, SinkGivenUp
  <2>2. CASE f.kind = "close" /\ f.mark <= settled
    BY <1>5, <2>2 DEF SinkGivenUp
  <2> QED BY <2>1, <2>2
<1> QED BY <1>2, <1>4, <1>5, <1>6, <1>7 DEF SinkInv

LEMMA SinkStepInv == SinkInv /\ [Sink!Next]_sinkVars => SinkInv'
<1> SUFFICES ASSUME SinkInv, [Sink!Next]_sinkVars PROVE SinkInv'
  OBVIOUS
<1>0. CASE UNCHANGED sinkVars
  BY <1>0
     DEF SinkInv, Sink!TypeOK, SinkSorted, SinkAccounted, SinkPastChain, SinkGivenUp,
         SinkWritten, SinkClosedBefore, sinkVars
<1>1. CASE Sink!Write
  <2>1. written \in Nat /\ settled \in 0..written
    BY DEF SinkInv, Sink!TypeOK
  <2>2. Sink!TypeOK'
    BY <1>1, <2>1 DEF SinkInv, Sink!TypeOK, Sink!Write
  <2> QED
    BY <1>1, <2>2
       DEF SinkInv, SinkSorted, SinkAccounted, SinkPastChain, SinkGivenUp, SinkWritten,
           SinkClosedBefore, Sink!Write
<1>2. CASE Sink!Open \/ Sink!Opened \/ Sink!OpenFails
  BY <1>2
     DEF SinkInv, Sink!TypeOK, SinkSorted, SinkAccounted, SinkPastChain, SinkGivenUp,
         SinkWritten, SinkClosedBefore, Sink!Open, Sink!Opened, Sink!OpenFails
<1>3. CASE Sink!AppendLine \/ Sink!LineFails \/ Sink!LineTooLate
  BY <1>3, SinkSettleOne DEF Sink!AppendLine, Sink!LineFails, Sink!LineTooLate
<1>4. ASSUME NEW w \in Waiters, NEW k \in {"flush", "close"}, Sink!Wait(w, k) PROVE SinkInv'
  <2>1. [kind |-> k, state |-> "waiting", mark |-> written]
          \in [kind : {"none", "flush", "close"}, mark : 0..written,
               state : {"idle", "waiting", "closing", "returned"}]
    BY DEF SinkInv, Sink!TypeOK
  <2> QED BY <1>4, <2>1, SinkWaiterMoves DEF Sink!Wait
<1>5. ASSUME NEW w \in Waiters, Sink!Flush(w) \/ Sink!Close(w) \/ Sink!Closed(w)
      PROVE  SinkInv'
  <2>1. /\ waiter[w] \in [kind : {"none", "flush", "close"}, mark : 0..written,
                          state : {"idle", "waiting", "closing", "returned"}]
        /\ settled \in Nat /\ waiter[w].mark \in Nat
        /\ waiter \in [Waiters -> [kind : {"none", "flush", "close"}, mark : 0..written,
                          state : {"idle", "waiting", "closing", "returned"}]]
    BY DEF SinkInv, Sink!TypeOK
  <2>2. PICK s \in {"closing", "returned"} :
          /\ waiter' = [waiter EXCEPT ![w].state = s]
          /\ s = "closing" => waiter[w].kind = "close"
          /\ waiter[w].state # "idle"
          /\ waiter[w].mark <= settled
          /\ \/ handle' = handle
             \/ handle' \in {"closing", "closed"} /\ waiter[w].kind = "close"
    <3>1. CASE Sink!Flush(w)
      BY <2>1, <3>1 DEF Sink!Flush, Sink!Return, Sink!Passed
    <3>2. CASE Sink!Close(w)
      BY <2>1, <3>2 DEF Sink!Close, Sink!Return, Sink!Passed
    <3>3. CASE Sink!Closed(w)
      BY <2>1, <3>3 DEF Sink!Closed, Sink!Return, SinkInv, SinkPastChain
    <3> QED BY <1>5, <3>1, <3>2, <3>3
  <2>3. PICK f \in [kind : {"none", "flush", "close"}, mark : 0..written,
                    state : {"idle", "waiting", "closing", "returned"}] :
          /\ f.kind = waiter[w].kind /\ f.mark = waiter[w].mark /\ f.state = s
          /\ waiter' = [waiter EXCEPT ![w] = f]
    <3> DEFINE f == [waiter[w] EXCEPT !.state = s]
    <3>1. f \in [kind : {"none", "flush", "close"}, mark : 0..written,
                 state : {"idle", "waiting", "closing", "returned"}]
      BY <2>1
    <3>2. f.kind = waiter[w].kind /\ f.mark = waiter[w].mark /\ f.state = s
      BY <2>1
    <3>3. waiter' = [waiter EXCEPT ![w] = f]
      BY <2>1, <2>2
    <3> QED BY <3>1, <3>2, <3>3
  <2>4. UNCHANGED <<written, settled, opening, file, failed>>
    BY <1>5 DEF Sink!Flush, Sink!Close, Sink!Closed
  <2> QED BY <2>2, <2>3, <2>4, SinkWaiterMoves
<1> QED BY <1>0, <1>1, <1>2, <1>3, <1>4, <1>5 DEF Sink!Next

-----------------------------------------------------------------------------
(* The stores together. *)

\* Every behaviour of Local is one of each of its stores.
LEMMA Projects ==
  /\ Init => IdlInit /\ Keyring!Init /\ Cache!Init /\ Sink!Init
  /\ [Next]_vars => /\ [IdlNext]_idlVars
                    /\ [Keyring!Next]_keyringVars
                    /\ [Cache!Next]_cacheVars
                    /\ [Sink!Next]_sinkVars
<1>1. Init => IdlInit /\ Keyring!Init /\ Cache!Init /\ Sink!Init
  BY DEF Init
<1>2. [Next]_vars => /\ [IdlNext]_idlVars
                     /\ [Keyring!Next]_keyringVars
                     /\ [Cache!Next]_cacheVars
                     /\ [Sink!Next]_sinkVars
  BY DEF Next, vars
<1> QED
  BY <1>1, <1>2

\* Unless the index was written over or a temporary file shared, the names in the
\* index are exactly those with an entry in the keyring, but for names a call is
\* still at, stopped at, or worked on together with another, for any calls of any
\* processes (KeyringBackend and writeIndex of keyring.ts).
THEOREM IndexFollowsKeyring == Spec => []IndexTrue
<1>1. KeyringInv => IndexTrue
  BY DEF KeyringInv, IndexTrue
<1> QED
  BY KeyringInitInv, KeyringStepInv, Projects, <1>1, PTL DEF Spec

\* What memory holds is dropped within the default time to live after it has
\* expired, and a process does not come back to a value it has set over or deleted
\* unless one of its gets overlapped such a change or a change failed half way, for
\* any calls of any processes and any times to live (get, set, delete and clear of
\* cache/src/index.ts).
THEOREM MemoryIsTrue == Spec => []MemoryTrue
<1>1. CacheInv => MemoryTrue
  BY DEF CacheInv, MemoryTrue, Cache!MemoryTrue, CacheTermInv, CacheGoneInv
<1> QED
  BY CacheInitInv, CacheStepInv, Projects, <1>1, PTL DEF Spec

\* A flush or close that has returned left every earlier line in the file, in
\* order, but for lines the file refused and lines an earlier close shut out, for
\* any number of writers and waiters (createFileSink of sinks.ts).
THEOREM FlushedLinesKept == Spec => []LinesKept
<1>1. SinkInv => LinesKept
  <2> SUFFICES ASSUME SinkInv PROVE Sink!LinesKept
    BY DEF LinesKept
  <2> SUFFICES ASSUME NEW w \in Waiters, waiter[w].state = "returned",
                      NEW n \in 1..waiter[w].mark
               PROVE  SinkWritten(n) \/ n \in failed \/ SinkClosedBefore(n)
    BY DEF SinkInv, Sink!LinesKept, SinkSorted, SinkWritten, SinkClosedBefore
  <2>1. n \in 1..settled
    BY DEF SinkInv, Sink!TypeOK, SinkPastChain
  <2> QED
    BY <2>1 DEF SinkInv, SinkAccounted
<1> QED
  BY SinkInitInv, SinkStepInv, Projects, <1>1, PTL DEF Spec

\* The keyring's names stay names and what its calls remember are names.
KeyringTyped ==
  /\ Keyring!TypeOK
  /\ \A c \in Cmds : kPc[c] \in Keyring!Changing => kJob[c].name \in Names
  /\ kTmp \in [Keyring!Procs -> Keyring!Contents]

LEMMA KeyringInitTyped == Keyring!Init => KeyringTyped
  BY DEF Keyring!Init, KeyringTyped, Keyring!TypeOK, Keyring!Contents, Keyring!Whole,
         Keyring!Absent, Keyring!Changing

LEMMA KeyringStepTyped ==
  KeyringInv /\ KeyringTyped /\ [Keyring!Next]_keyringVars => KeyringTyped'
<1> SUFFICES ASSUME KeyringInv, KeyringTyped, [Keyring!Next]_keyringVars PROVE KeyringTyped'
  OBVIOUS
<1>T. /\ Keyring!Half \in Keyring!Contents /\ Keyring!Absent \in Keyring!Contents
      /\ \A names \in SUBSET Names : Keyring!Whole(names) \in Keyring!Contents
      /\ \A e \in Keyring!Contents : e.names \subseteq Names
  BY DEF Keyring!Half, Keyring!Absent, Keyring!Whole, Keyring!Contents
<1>1. CASE UNCHANGED keyringVars
  BY <1>1 DEF keyringVars, KeyringTyped, Keyring!TypeOK
<1>2. ASSUME NEW c \in Cmds, KeyringStep(c) PROVE KeyringTyped'
  <2> USE DEF KeyringInv, KeyringShape, KeyringTyped, Keyring!TypeOK, KeyringPcValues,
              Keyring!Changing, Keyring!Goto, Keyring!history
  <2>0. Home[c] \in Keyring!Procs
    BY DEF Keyring!Procs
  <2>1. ASSUME NEW j \in SecretsAsked[c], Keyring!Begin(c, j) \/ Keyring!Refuse(c, j)
        PROVE  KeyringTyped'
    <3>1. CASE Keyring!Begin(c, j)
      BY <2>1, <3>1, SecretsAssumption DEF Keyring!Begin
    <3>2. CASE Keyring!Refuse(c, j)
      BY <3>2 DEF Keyring!Refuse
    <3> QED
      BY <2>1, <3>1, <3>2
  <2>2. CASE Keyring!ReadIndex(c)
    <3>1. index.names \cup {kJob[c].name} \subseteq Names /\ index.names \subseteq Names
      BY <1>T, <2>2 DEF Keyring!ReadIndex
    <3> QED
      BY <2>2, <3>1 DEF Keyring!ReadIndex
  <2>3. CASE Keyring!OpenTmp(c)
    BY <1>T, <2>0, <2>3 DEF Keyring!OpenTmp, Keyring!SetTmp
  <2>4. CASE Keyring!FillTmp(c)
    <3>1. \A content : Keyring!Written(content, kMem[c]) \subseteq Keyring!Contents
      BY <1>T DEF Keyring!Written
    <3>2. kTmp' \in [Keyring!Procs -> Keyring!Contents] /\ index' \in Keyring!Contents
      BY <2>0, <2>4, <3>1 DEF Keyring!FillTmp, Keyring!SetTmp
    <3> QED
      BY <2>4, <3>2 DEF Keyring!FillTmp
  <2>5. CASE Keyring!Rename(c)
    <3>1. kInto' \in [Cmds -> {"none", "tmp", "index", "gone"}]
      BY <2>5, KeyringOneMoves DEF KeyringStep
    <3> QED
      BY <1>T, <2>0, <2>5, <3>1 DEF Keyring!Rename, Keyring!SetTmp, Keyring!TmpOf
  <2>6. CASE Keyring!List(c) \/ Keyring!Stop(c)
    BY <2>6 DEF Keyring!List, Keyring!Stop
  <2> QED
    BY <1>2, <2>1, <2>2, <2>3, <2>4, <2>5, <2>6 DEF KeyringStep
<1> QED
  BY <1>1, <1>2 DEF Keyring!Next, KeyringStep

\* The variables of all four stores keep their types: the labels and IDLs, the
\* keyring and its index, the cache, and the file of events, whose lines settle in
\* the order they were written (operations/idl-load.ts, keyring.ts,
\* cache/src/index.ts, sinks.ts).
THEOREM LocalTyped == Spec => []TypeOK
<1>1. TypeInv => IdlTypeOK
  BY DEF TypeInv
<1>2. KeyringTyped => Keyring!TypeOK
  BY DEF KeyringTyped
<1>3. CacheInv => Cache!TypeOK
  BY DEF CacheInv, CacheShape, Cache!TypeOK, CacheContents, Cache!Half, Cache!Absent,
         CachePcValues
<1>4. SinkInv => Sink!TypeOK
  BY DEF SinkInv
<1>5. IdlTypeOK /\ Keyring!TypeOK /\ Cache!TypeOK /\ Sink!TypeOK => TypeOK
  BY DEF TypeOK
<1> QED
  BY InitTyped, StepTyped, KeyringInitInv, KeyringStepInv, KeyringInitTyped,
     KeyringStepTyped, CacheInitInv, CacheStepInv, SinkInitInv, SinkStepInv, Projects,
     <1>1, <1>2, <1>3, <1>4, <1>5, PTL DEF Spec
=============================================================================
